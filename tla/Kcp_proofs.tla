----------------------------- MODULE Kcp_proofs -----------------------------
(***************************************************************************)
(* Proofs about KCP, for any windows, sizes and lengths of messages: that  *)
(* an end keeps its windows, whatever the network and the other end do,    *)
(* and that what an end says it received, it received.                     *)
(*                                                                         *)
(* First the numbers of segments, which wrap; then what is computed along  *)
(* a sequence; then the two buffers as segments in a window of numbers;    *)
(* then the operations on a control block and the steps, with what an end  *)
(* keeps by itself. After that the agreement of the two ends and of what   *)
(* is on its way between them, through the same operations and steps.      *)
(***************************************************************************)
EXTENDS Kcp, SequenceTheorems, WellFoundedInduction, TLAPS

(* Numbers of segments, and how far one is from another one.               *)
Num == 0 .. Modulus - 1
Half == Modulus \div 2
Off(a, b) == (a - b) % Modulus

LEMMA Modular ==
  /\ Modulus \in Nat /\ Half \in Nat /\ Modulus = 2 * Half
  /\ Modulus # 0 => \A x \in Int : - Modulus <= x /\ x < 2 * Modulus =>
       x % Modulus = IF x < 0 THEN x + Modulus ELSE IF x < Modulus THEN x ELSE x - Modulus
<1>1. Modulus \in Nat /\ Modulus % 2 = 0
  BY KcpAssumption
<1>2. Half \in Nat /\ Modulus = 2 * Half
  BY <1>1 DEF Half
<1>3. ASSUME Modulus # 0, NEW x \in Int, - Modulus <= x, x < 2 * Modulus
      PROVE  x % Modulus = IF x < 0 THEN x + Modulus ELSE IF x < Modulus THEN x ELSE x - Modulus
  <2>1. PICK m \in Nat \ {0} : m = Modulus
    BY <1>1, <1>3
  <2>2. PICK q \in Int, r \in 0 .. m - 1 : q = x \div m /\ r = x % m /\ x = m * q + r
    <3>1. x % m \in 0 .. m - 1 /\ x = m * (x \div m) + (x % m) /\ x \div m \in Int
      BY <2>1
    <3>. QED
      BY <3>1
  <2>3. - m <= x /\ x < 2 * m
    BY <1>3, <2>1
  <2>4. q \in {-1, 0, 1}
    <3>1. CASE q >= 2
      <4>1. PICK y \in Nat : q = y + 2
        <5>1. q - 2 \in Nat /\ q = (q - 2) + 2
          BY <3>1
        <5>. QED
          BY <5>1
      <4>2. m * q = m * y + 2 * m /\ m * y \in Nat
        BY <4>1
      <4>. QED
        BY <2>2, <2>3, <4>2
    <3>2. CASE q <= -2
      <4>1. PICK y \in Nat : q = -2 - y
        <5>1. -2 - q \in Nat /\ q = -2 - (-2 - q)
          BY <3>2
        <5>. QED
          BY <5>1
      <4>2. m * q = - (2 * m) - m * y /\ m * y \in Nat
        BY <4>1
      <4>. QED
        BY <2>2, <2>3, <4>2
    <3>. QED
      BY <3>1, <3>2
  <2>5. (q = 0 => m * q = 0) /\ (q = 1 => m * q = m) /\ (q = -1 => m * q = - m)
    OBVIOUS
  <2>6. r = IF x < 0 THEN x + m ELSE IF x < m THEN x ELSE x - m
    <3>1. CASE q = 0
      BY <2>2, <2>3, <2>5, <3>1
    <3>2. CASE q = 1
      BY <2>2, <2>3, <2>5, <3>2
    <3>3. CASE q = -1
      BY <2>2, <2>3, <2>5, <3>3
    <3>. QED
      BY <2>4, <3>1, <3>2, <3>3
  <2>. QED
    BY <2>1, <2>2, <2>6
<1>. QED
  BY <1>1, <1>2, <1>3

LEMMA HalfIs == Half \in Nat /\ Modulus \in Nat /\ Half <= Modulus
<1>1. Half \in Nat /\ Modulus = 2 * Half
  BY Modular
<1>. QED
  BY <1>1

(* Sums and distances of numbers.                                          *)
LEMMA NumIs ==
  /\ \A a \in Num, n \in 0 .. Modulus :
       /\ Plus(a, n) \in Num
       /\ Plus(a, n) = IF a + n < Modulus THEN a + n ELSE (a + n) - Modulus
  /\ \A a, b \in Num :
       /\ Off(a, b) \in Num
       /\ Off(a, b) = IF a < b THEN (a - b) + Modulus ELSE a - b
  /\ \A a, b \in Num :
       /\ Diff(a, b) \in Int
       /\ Diff(a, b) = IF Off(a, b) < Half THEN Off(a, b) ELSE Off(a, b) - Modulus
<1>1. Num # {} => Modulus # 0
  BY Modular DEF Num
<1>2. ASSUME NEW a \in Num, NEW n \in 0 .. Modulus
      PROVE  /\ Plus(a, n) \in Num
             /\ Plus(a, n) = IF a + n < Modulus THEN a + n ELSE (a + n) - Modulus
  <2>1. a + n \in Int /\ - Modulus <= a + n /\ a + n < 2 * Modulus /\ ~ (a + n < 0)
    BY Modular DEF Num
  <2>2. (a + n) % Modulus = IF a + n < Modulus THEN a + n ELSE (a + n) - Modulus
    BY <1>1, <2>1, Modular, Zenon
  <2>. QED
    BY <2>2, Modular DEF Num, Plus
<1>3. ASSUME NEW a \in Num, NEW b \in Num
      PROVE  /\ Off(a, b) \in Num
             /\ Off(a, b) = IF a < b THEN (a - b) + Modulus ELSE a - b
  <2>1. a - b \in Int /\ - Modulus <= a - b /\ a - b < 2 * Modulus /\ a - b < Modulus /\ (a < b <=> a - b < 0)
    BY Modular DEF Num
  <2>2. (a - b) % Modulus = IF a < b THEN (a - b) + Modulus ELSE a - b
    BY <1>1, <2>1, Modular, Zenon
  <2>. QED
    BY <2>2, Modular DEF Num, Off
<1>4. ASSUME NEW a \in Num, NEW b \in Num
      PROVE  /\ Diff(a, b) \in Int
             /\ Diff(a, b) = IF Off(a, b) < Half THEN Off(a, b) ELSE Off(a, b) - Modulus
  <2>1. Diff(a, b) = IF Off(a, b) < Half THEN Off(a, b) ELSE Off(a, b) - Modulus
    BY Zenon DEF Diff, Off, Half
  <2>. QED
    BY <1>3, <2>1, Modular DEF Num
<1>. QED
  BY <1>2, <1>3, <1>4

(* Distances from one number, from another one and from each other.        *)
LEMMA Distances ==
  /\ \A b \in Num : \A n \in Num : Off(Plus(b, n), b) = n
  /\ \A a, b \in Num : \A n \in 0 .. Off(a, b) : Off(a, Plus(b, n)) = Off(a, b) - n
  /\ \A a, b, c \in Num : Off(c, b) <= Off(a, b) => Off(a, c) = Off(a, b) - Off(c, b)
  /\ \A a, b \in Num : \A n \in Num :
       Off(a, b) + n < Modulus => Off(Plus(a, n), b) = Off(a, b) + n
  /\ \A a, b, c \in Num :
       /\ Off(a, c) - Off(b, c) < Half /\ Off(b, c) - Off(a, c) <= Half =>
            Diff(a, b) = Off(a, c) - Off(b, c)
       /\ Off(a, c) = Off(b, c) => a = b
<1>1. ASSUME NEW b \in Num, NEW n \in Num
      PROVE  Off(Plus(b, n), b) = n
  <2>1. n \in 0 .. Modulus
    BY Modular DEF Num
  <2>2. PICK p \in Num : p = Plus(b, n) /\ p = IF b + n < Modulus THEN b + n ELSE (b + n) - Modulus
    BY <2>1, NumIs
  <2>3. Off(p, b) = IF p < b THEN (p - b) + Modulus ELSE p - b
    BY NumIs
  <2>. QED
    BY <2>2, <2>3, Modular DEF Num
<1>2. ASSUME NEW a \in Num, NEW b \in Num, NEW n \in 0 .. Off(a, b)
      PROVE  Off(a, Plus(b, n)) = Off(a, b) - n
  <2>1. PICK o \in Num : o = Off(a, b) /\ o = IF a < b THEN (a - b) + Modulus ELSE a - b
    BY NumIs
  <2>2. n \in 0 .. Modulus /\ n <= o
    BY <2>1, Modular DEF Num
  <2>3. PICK p \in Num : p = Plus(b, n) /\ p = IF b + n < Modulus THEN b + n ELSE (b + n) - Modulus
    BY <2>2, NumIs
  <2>4. Off(a, p) = IF a < p THEN (a - p) + Modulus ELSE a - p
    BY NumIs
  <2>5. Off(a, p) = o - n
    BY <2>1, <2>2, <2>3, <2>4, Modular DEF Num
  <2>. QED
    BY <2>1, <2>3, <2>5
<1>3. ASSUME NEW a \in Num, NEW b \in Num, NEW c \in Num
      PROVE  /\ Off(c, b) <= Off(a, b) => Off(a, c) = Off(a, b) - Off(c, b)
             /\ Off(a, c) = IF a < c THEN (a - c) + Modulus ELSE a - c
             /\ Off(b, c) = IF b < c THEN (b - c) + Modulus ELSE b - c
             /\ Off(a, b) = IF a < b THEN (a - b) + Modulus ELSE a - b
  <2>1. /\ Off(a, c) = IF a < c THEN (a - c) + Modulus ELSE a - c
        /\ Off(b, c) = IF b < c THEN (b - c) + Modulus ELSE b - c
        /\ Off(a, b) = IF a < b THEN (a - b) + Modulus ELSE a - b
        /\ Off(c, b) = IF c < b THEN (c - b) + Modulus ELSE c - b
    BY NumIs
  <2>. QED
    BY <2>1, Modular DEF Num
<1>4. ASSUME NEW a \in Num, NEW b \in Num, NEW n \in Num, Off(a, b) + n < Modulus
      PROVE  Off(Plus(a, n), b) = Off(a, b) + n
  <2>1. PICK o \in Num : o = Off(a, b) /\ o = IF a < b THEN (a - b) + Modulus ELSE a - b
    BY NumIs
  <2>2. n \in 0 .. Modulus /\ o + n < Modulus
    BY <1>4, <2>1, Modular DEF Num
  <2>3. /\ Plus(a, n) \in Num
        /\ Plus(a, n) = IF a + n < Modulus THEN a + n ELSE (a + n) - Modulus
    BY <2>2, NumIs, Zenon
  <2>4. PICK p \in Num : p = Plus(a, n)
    BY <2>3, Zenon
  <2>5. Off(p, b) = IF p < b THEN (p - b) + Modulus ELSE p - b
    BY NumIs
  <2>6. p = IF a + n < Modulus THEN a + n ELSE (a + n) - Modulus
    BY <2>3, <2>4, Zenon
  <2>7. Off(p, b) = o + n
    BY <2>1, <2>2, <2>5, <2>6, Modular DEF Num
  <2>. QED
    BY <2>1, <2>4, <2>7
<1>5. ASSUME NEW a \in Num, NEW b \in Num, NEW c \in Num
      PROVE  /\ Off(a, c) - Off(b, c) < Half /\ Off(b, c) - Off(a, c) <= Half =>
                  Diff(a, b) = Off(a, c) - Off(b, c)
             /\ Off(a, c) = Off(b, c) => a = b
  <2>1. PICK x \in Num : x = Off(a, c) /\ x = IF a < c THEN (a - c) + Modulus ELSE a - c
    BY NumIs
  <2>2. PICK y \in Num : y = Off(b, c) /\ y = IF b < c THEN (b - c) + Modulus ELSE b - c
    BY NumIs
  <2>3. PICK o \in Num : o = Off(a, b) /\ o = IF a < b THEN (a - b) + Modulus ELSE a - b
    BY NumIs
  <2>4. Diff(a, b) = IF o < Half THEN o ELSE o - Modulus
    BY <2>3, NumIs
  <2>5. x = y => a = b
    BY <2>1, <2>2, Modular DEF Num
  <2>6. o = IF x < y THEN (x - y) + Modulus ELSE x - y
    BY <2>1, <2>2, <2>3, Modular DEF Num
  <2>7. x - y < Half /\ y - x <= Half => Diff(a, b) = x - y
    BY <2>4, <2>6, Modular DEF Num
  <2>. QED
    BY <2>1, <2>2, <2>5, <2>7
<1>. QED
  BY <1>1, <1>2, <1>3, <1>4, <1>5

---------------------------------------------------------------------------
(* Numbers have a least one, which gives induction, and some a largest.    *)
LEMMA LeastOne ==
  ASSUME NEW S \in SUBSET Nat, S # {}
  PROVE  \E m \in S : \A k \in S : m <= k
<1>1. PICK m \in S : \A k \in S : <<k, m>> \notin OpToRel(<, Nat)
  BY NatLessThanWellFounded, WFMin, Zenon
<1>2. ASSUME NEW k \in S
      PROVE  m <= k
  <2>1. ~ (k < m)
    BY <1>1 DEF OpToRel
  <2>. QED
    BY <2>1
<1>. QED
  BY <1>2

LEMMA Induction ==
  ASSUME NEW T, NEW n \in Nat, 0 \in T, \A k \in 0 .. n - 1 : k \in T => k + 1 \in T
  PROVE  \A k \in 0 .. n : k \in T
<1> SUFFICES ASSUME (0 .. n) \ T # {}
             PROVE  FALSE
  OBVIOUS
<1>1. PICK m \in (0 .. n) \ T : \A k \in (0 .. n) \ T : m <= k
  <2>1. (0 .. n) \ T \in SUBSET Nat
    OBVIOUS
  <2>. QED
    BY <2>1, LeastOne
<1>2. m # 0 /\ m - 1 \in 0 .. n - 1 /\ m - 1 \in 0 .. n /\ ~ (m <= m - 1) /\ m - 1 + 1 = m
  BY <1>1
<1>3. m - 1 \in T
  BY <1>1, <1>2, Zenon
<1>4. m - 1 + 1 \in T
  BY <1>2, <1>3, Zenon
<1>. QED
  BY <1>1, <1>2, <1>4, Zenon

(* What is computed from number to number is what it is said to be.        *)
Computes(g, F, x, n, D) ==
    g \in [0 .. n -> D] /\ g[0] = x /\ \A k \in 1 .. n : g[k] = F[k][g[k - 1]]

LEMMA Recursion ==
  ASSUME NEW D, NEW F \in [Nat -> [D -> D]], NEW x \in D, NEW n \in Nat
  PROVE  \E g : Computes(g, F, x, n, D)
<1> DEFINE Is(m, g) == g[0] = x /\ \A k \in 1 .. m : g[k] = F[k][g[k - 1]]
           T == {m \in 0 .. n : \E g \in [0 .. m -> D] : Is(m, g)}
<1>1. 0 \in T
  <2> DEFINE g == [k \in 0 .. 0 |-> x]
  <2>1. g \in [0 .. 0 -> D] /\ Is(0, g)
    OBVIOUS
  <2>2. 0 \in 0 .. n
    OBVIOUS
  <2> HIDE DEF g, Is
  <2>. QED
    BY <2>1, <2>2
<1>2. ASSUME NEW m \in 0 .. n - 1, m \in T
      PROVE  m + 1 \in T
  <2>1. PICK g \in [0 .. m -> D] : Is(m, g)
    BY <1>2, Zenon
  <2> DEFINE h == [k \in 0 .. m + 1 |-> IF k = m + 1 THEN F[m + 1][g[m]] ELSE g[k]]
  <2>2. m \in Nat /\ m + 1 \in Nat /\ m + 1 \in 0 .. n /\ g[m] \in D
    OBVIOUS
  <2>3. F[m + 1][g[m]] \in D
    <3>1. F[m + 1] \in [D -> D]
      BY <2>2
    <3>. QED
      BY <2>2, <3>1
  <2>4. h \in [0 .. m + 1 -> D]
    <3>1. \A k \in 0 .. m + 1 : (IF k = m + 1 THEN F[m + 1][g[m]] ELSE g[k]) \in D
      <4>1. \A k \in 0 .. m + 1 : k # m + 1 => g[k] \in D
        BY <2>2
      <4>. QED
        BY <2>3, <4>1, Zenon
    <3>. QED
      BY <3>1, Zenon
  <2>5. h[m + 1] = F[m + 1][g[m]] /\ \A k \in 0 .. m : h[k] = g[k]
    <3>1. m + 1 \in 0 .. m + 1 /\ \A k \in 0 .. m : k \in 0 .. m + 1 /\ k # m + 1
      BY <2>2
    <3>. QED
      BY <3>1, Zenon
  <2> HIDE DEF h
  <2>6. Is(m + 1, h)
    <3>1. h[0] = x
      BY <2>1, <2>5
    <3>2. ASSUME NEW k \in 1 .. m + 1
          PROVE  h[k] = F[k][h[k - 1]]
      <4>1. CASE k = m + 1
        <5>1. k - 1 = m /\ m \in 0 .. m
          BY <2>2, <4>1
        <5>. QED
          BY <2>5, <4>1, <5>1, Zenon
      <4>2. CASE k # m + 1
        <5>1. k \in 1 .. m /\ k \in 0 .. m /\ k - 1 \in 0 .. m
          BY <2>2, <4>2
        <5>2. g[k] = F[k][g[k - 1]]
          BY <2>1, <5>1, Zenon
        <5>. QED
          BY <2>5, <5>1, <5>2, Zenon
      <4>. QED
        BY <4>1, <4>2
    <3>. QED
      BY <3>1, <3>2, Zenon
  <2> HIDE DEF Is
  <2>. QED
    BY <2>2, <2>4, <2>6
<1> HIDE DEF Is
<1>3. \A m \in 0 .. n : m \in T
  <2> HIDE DEF T
  <2>. QED
    BY <1>1, <1>2, Induction
<1>4. n \in 0 .. n
  OBVIOUS
<1>5. \E g \in [0 .. n -> D] : Is(n, g)
  BY <1>3, <1>4, Zenon
<1>. QED
  BY <1>5, Zenon DEF Is, Computes

LEMMA LongestIs ==
  ASSUME NEW n \in Nat, NEW N \in SUBSET (0 .. n), 0 \in N
  PROVE  Longest(N) \in N /\ \A i \in N : i <= Longest(N)
<1> DEFINE S == {m \in Nat : \A i \in N : i <= m}
<1>1. n \in S
  OBVIOUS
<1>2. PICK m \in S : \A k \in S : m <= k
  <2>1. S \in SUBSET Nat /\ S # {}
    BY <1>1
  <2> HIDE DEF S
  <2>. QED
    BY <2>1, LeastOne
<1>3. m \in Nat /\ \A i \in N : i <= m
  BY <1>2
<1>4. m \in N
  <2> SUFFICES ASSUME m \notin N
               PROVE  FALSE
    OBVIOUS
  <2>1. m # 0 /\ m - 1 \in Nat
    BY <1>3
  <2>2. \A i \in N : i <= m - 1
    BY <1>3
  <2>3. m - 1 \in S
    BY <2>1, <2>2
  <2>. QED
    BY <1>2, <1>3, <2>3
<1>5. \E i \in N : \A k \in N : k <= i
  BY <1>3, <1>4
<1>. QED
  BY <1>5, Zenon DEF Longest

(* A set that no step of the computation leaves has what is computed.      *)
LEMMA StaysIn ==
  ASSUME NEW D, NEW n \in Nat, NEW f, f[0] \in D,
         \A i \in 1 .. n : f[i - 1] \in D => f[i] \in D
  PROVE  \A i \in 0 .. n : f[i] \in D
<1> DEFINE T == {i \in 0 .. n : f[i] \in D}
<1>1. 0 \in T
  OBVIOUS
<1>2. ASSUME NEW i \in 0 .. n - 1, i \in T
      PROVE  i + 1 \in T
  <2>1. i + 1 \in 1 .. n /\ i + 1 \in 0 .. n /\ i + 1 - 1 = i
    OBVIOUS
  <2>. QED
    BY <1>2, <2>1
<1> HIDE DEF T
<1>3. \A i \in 0 .. n : i \in T
  BY <1>1, <1>2, Induction
<1>. QED
  BY <1>3 DEF T

LEMMA InputDatagramIn ==
  ASSUME NEW D, NEW S, NEW x \in D, NEW s \in Seq(S),
         \A d \in D, y \in S : InputSegment(d, y) \in D
  PROVE  InputDatagram(x, s) \in D
<1> DEFINE along[i \in 0 .. Len(s)] == IF i = 0 THEN x ELSE InputSegment(along[i - 1], s[i])
<1>1. InputDatagram(x, s) = along[Len(s)]
  BY DEF InputDatagram, Along
<1>2. PICK n \in Nat : n = Len(s)
  OBVIOUS
<1> DEFINE F == [k \in Nat |-> [d \in D |-> IF k \in 1 .. n THEN InputSegment(d, s[k]) ELSE d]]
<1>3. F \in [Nat -> [D -> D]]
  <2>1. \A k \in 1 .. n : s[k] \in S
    BY <1>2
  <2>. QED
    BY <2>1, Zenon
<1>4. \A k \in 1 .. n : \A d \in D : F[k][d] = InputSegment(d, s[k])
  <2>1. \A k \in 1 .. n : k \in Nat
    OBVIOUS
  <2>. QED
    BY <2>1, Zenon
<1> HIDE DEF F
<1>5. PICK g : Computes(g, F, x, n, D)
  BY <1>3, Recursion
<1>6. g = [i \in 0 .. Len(s) |-> IF i = 0 THEN x ELSE InputSegment(g[i - 1], s[i])]
  <2>1. ASSUME NEW i \in 0 .. n
        PROVE  g[i] = IF i = 0 THEN x ELSE InputSegment(g[i - 1], s[i])
    <3>1. i = 0 \/ (i # 0 /\ i \in 1 .. n /\ i - 1 \in 0 .. n)
      OBVIOUS
    <3>. QED
      BY <1>4, <1>5, <3>1, Zenon DEF Computes
  <2>2. g = [i \in 0 .. n |-> g[i]]
    BY <1>5 DEF Computes
  <2>. QED
    BY <1>2, <2>1, <2>2, Zenon
<1>7. along = [i \in 0 .. Len(s) |-> IF i = 0 THEN x ELSE InputSegment(along[i - 1], s[i])]
  BY <1>6, Zenon
<1> HIDE DEF along
<1>8. along[0] \in D
  BY <1>7
<1>9. ASSUME NEW i \in 1 .. n, along[i - 1] \in D
      PROVE  along[i] \in D
  <2>1. i \in 0 .. Len(s) /\ i # 0 /\ s[i] \in S
    BY <1>2
  <2>2. along[i] = InputSegment(along[i - 1], s[i])
    BY <1>7, <2>1, Zenon
  <2>. QED
    BY <1>9, <2>1, <2>2
<1>10. n \in 0 .. n
  OBVIOUS
<1>. QED
  BY <1>1, <1>2, <1>8, <1>9, <1>10, StaysIn

LEMMA InputDatagramsIn ==
  ASSUME NEW D, NEW S, NEW x \in D, NEW s \in Seq(S),
         \A d \in D, y \in S : InputDatagram(d, y) \in D
  PROVE  Along(InputDatagram, x, s) \in D
<1> DEFINE along[i \in 0 .. Len(s)] == IF i = 0 THEN x ELSE InputDatagram(along[i - 1], s[i])
<1>1. Along(InputDatagram, x, s) = along[Len(s)]
  BY DEF Along
<1>2. PICK n \in Nat : n = Len(s)
  OBVIOUS
<1> DEFINE F == [k \in Nat |-> [d \in D |-> IF k \in 1 .. n THEN InputDatagram(d, s[k]) ELSE d]]
<1>3. F \in [Nat -> [D -> D]]
  <2>1. \A k \in 1 .. n : s[k] \in S
    BY <1>2
  <2>. QED
    BY <2>1, Zenon
<1>4. \A k \in 1 .. n : \A d \in D : F[k][d] = InputDatagram(d, s[k])
  <2>1. \A k \in 1 .. n : k \in Nat
    OBVIOUS
  <2>. QED
    BY <2>1, Zenon
<1> HIDE DEF F
<1>5. PICK g : Computes(g, F, x, n, D)
  BY <1>3, Recursion
<1>6. g = [i \in 0 .. Len(s) |-> IF i = 0 THEN x ELSE InputDatagram(g[i - 1], s[i])]
  <2>1. ASSUME NEW i \in 0 .. n
        PROVE  g[i] = IF i = 0 THEN x ELSE InputDatagram(g[i - 1], s[i])
    <3>1. i = 0 \/ (i # 0 /\ i \in 1 .. n /\ i - 1 \in 0 .. n)
      OBVIOUS
    <3>. QED
      BY <1>4, <1>5, <3>1, Zenon DEF Computes
  <2>2. g = [i \in 0 .. n |-> g[i]]
    BY <1>5 DEF Computes
  <2>. QED
    BY <1>2, <2>1, <2>2, Zenon
<1>7. along = [i \in 0 .. Len(s) |-> IF i = 0 THEN x ELSE InputDatagram(along[i - 1], s[i])]
  BY <1>6, Zenon
<1> HIDE DEF along
<1>8. along[0] \in D
  BY <1>7
<1>9. ASSUME NEW i \in 1 .. n, along[i - 1] \in D
      PROVE  along[i] \in D
  <2>1. i \in 0 .. Len(s) /\ i # 0 /\ s[i] \in S
    BY <1>2
  <2>2. along[i] = InputDatagram(along[i - 1], s[i])
    BY <1>7, <2>1, Zenon
  <2>. QED
    BY <1>9, <2>1, <2>2
<1>10. n \in 0 .. n
  OBVIOUS
<1>. QED
  BY <1>1, <1>2, <1>8, <1>9, <1>10, StaysIn

LEMMA PushedIn ==
  ASSUME NEW S, NEW s \in Seq(S), NEW k, NEW again
  PROVE  Pushed(s, k, again) \in Seq(S)
<1> DEFINE push(p, y) == IF y.sn \in again \/ Diff(y.sn, k.snd_nxt) >= 0 THEN Append(p, y) ELSE p
           D == Seq(S)
           x == <<>>
           along[i \in 0 .. Len(s)] == IF i = 0 THEN x ELSE push(along[i - 1], s[i])
<1>1. Pushed(s, k, again) = along[Len(s)]
  BY DEF Pushed, Along
<1>0. x \in D /\ \A d \in D, y \in S : push(d, y) \in D
  OBVIOUS
<1> HIDE DEF push, D, x
<1>2. PICK n \in Nat : n = Len(s)
  OBVIOUS
<1> DEFINE F == [j \in Nat |-> [d \in D |-> IF j \in 1 .. n THEN push(d, s[j]) ELSE d]]
<1>3. F \in [Nat -> [D -> D]]
  <2>1. \A j \in 1 .. n : s[j] \in S
    BY <1>2
  <2>. QED
    BY <1>0, <2>1, Zenon
<1>4. \A j \in 1 .. n : \A d \in D : F[j][d] = push(d, s[j])
  <2>1. \A j \in 1 .. n : j \in Nat
    OBVIOUS
  <2>. QED
    BY <2>1, Zenon
<1> HIDE DEF F
<1>5. PICK g : Computes(g, F, x, n, D)
  BY <1>0, <1>3, Recursion
<1>6. g = [i \in 0 .. Len(s) |-> IF i = 0 THEN x ELSE push(g[i - 1], s[i])]
  <2>1. ASSUME NEW i \in 0 .. n
        PROVE  g[i] = IF i = 0 THEN x ELSE push(g[i - 1], s[i])
    <3>1. i = 0 \/ (i # 0 /\ i \in 1 .. n /\ i - 1 \in 0 .. n)
      OBVIOUS
    <3>. QED
      BY <1>4, <1>5, <3>1, Zenon DEF Computes
  <2>2. g = [i \in 0 .. n |-> g[i]]
    BY <1>5 DEF Computes
  <2>. QED
    BY <1>2, <2>1, <2>2, Zenon
<1>7. along = [i \in 0 .. Len(s) |-> IF i = 0 THEN x ELSE push(along[i - 1], s[i])]
  BY <1>6, Zenon
<1> HIDE DEF along
<1>8. along[0] \in D
  BY <1>0, <1>7
<1>9. ASSUME NEW i \in 1 .. n, along[i - 1] \in D
      PROVE  along[i] \in D
  <2>1. i \in 0 .. Len(s) /\ i # 0 /\ s[i] \in S
    BY <1>2
  <2>2. along[i] = push(along[i - 1], s[i])
    BY <1>7, <2>1, Zenon
  <2>. QED
    BY <1>0, <1>9, <2>1, <2>2
<1>10. n \in 0 .. n
  OBVIOUS
<1>. QED
  BY <1>1, <1>2, <1>8, <1>9, <1>10, StaysIn DEF D

---------------------------------------------------------------------------
(* What segments and datagrams are.  A datagram is one for which there are *)
(* sums of sizes, from segment to segment, that stay below the mtu.        *)
Bytes == {d \in Seq(Int) : Len(d) <= mss}
Fragment == [frg : Int, data : Bytes]
Stored == [sn : Num, frg : Int, data : Bytes]
Segment == [cmd : {"ack", "push", "wask", "wins"}, sn : Num, frg : Int, data : Bytes,
            una : Num, wnd : Nat]

Sums(s, g) ==
    /\ g \in [0 .. Len(s) -> Nat] /\ g[0] = 0
    /\ \A k \in 1 .. Len(s) : g[k] = g[k - 1] + SegSize(s[k])

Datagram == {d \in Seq(Segment) : \E g : Sums(d, g) /\ g[Len(d)] <= setup.mtu}

LEMMA SetupIs ==
  ASSUME setup \in Setups
  PROVE  /\ mss \in Nat \ {0} /\ setup.mtu \in Nat /\ mss + Overhead = setup.mtu /\ Overhead \in Nat
         /\ setup.snd_wnd \in Nat \ {0} /\ setup.snd_wnd < Half
         /\ setup.rcv_wnd \in Nat \ {0} /\ setup.rcv_wnd <= Half
         /\ setup.WND_RCV \in Nat /\ setup.stream \in BOOLEAN
         /\ setup.lengths \in [Ends -> Seq(Nat)]
<1>1. /\ setup.mtu \in Nat /\ setup.mtu > Overhead /\ Overhead \in Nat
      /\ setup.snd_wnd \in Nat \ {0} /\ setup.WND_RCV \in Nat \ {0}
      /\ setup.rcv_wnd \in Nat /\ setup.rcv_wnd >= setup.WND_RCV
      /\ setup.stream \in BOOLEAN /\ setup.lengths \in [Ends -> Seq(Nat)]
      /\ setup.snd_wnd + setup.rcv_wnd < Half
  BY KcpAssumption, Zenon DEF Half
<1>2. mss = setup.mtu - Overhead
  BY DEF mss
<1>3. mss \in Nat \ {0} /\ mss + Overhead = setup.mtu
  <2>1. PICK m \in Nat, o \in Nat : m = setup.mtu /\ o = Overhead /\ m > o
    BY <1>1
  <2>. QED
    BY <1>2, <2>1
<1>4. setup.rcv_wnd \in Nat \ {0} /\ setup.rcv_wnd <= Half /\ setup.snd_wnd < Half
  <2>1. PICK h \in Nat, n \in Nat \ {0}, r \in Nat, w \in Nat \ {0} :
          h = Half /\ n = setup.snd_wnd /\ r = setup.rcv_wnd /\ w = setup.WND_RCV
    BY <1>1, Modular
  <2>2. n + r < h /\ r >= w
    BY <1>1, <2>1
  <2>. QED
    BY <2>1, <2>2
<1>5. setup.snd_wnd \in Nat \ {0} /\ setup.WND_RCV \in Nat
  BY <1>1
<1>. QED
  BY <1>1, <1>3, <1>4, <1>5

LEMMA SegSizeIs ==
  ASSUME setup \in Setups, NEW seg \in Segment
  PROVE  SegSize(seg) \in Nat /\ SegSize(seg) <= setup.mtu
<1>1. seg.data \in Seq(Int) /\ Len(seg.data) <= mss
  BY DEF Segment, Bytes
<1>2. SegSize(seg) = Overhead + Len(seg.data)
  BY DEF SegSize
<1>3. PICK n \in Nat : n = Len(seg.data)
  BY <1>1
<1>. QED
  BY <1>1, <1>2, <1>3, SetupIs

LEMMA SizeIs ==
  ASSUME setup \in Setups, NEW s \in Seq(Segment), NEW g, Sums(s, g)
  PROVE  Size(s) = g[Len(s)]
<1> DEFINE sum[k \in 0 .. Len(s)] == IF k = 0 THEN 0 ELSE sum[k - 1] + SegSize(s[k])
<1>1. Size(s) = sum[Len(s)]
  BY DEF Size, Along
<1>2. PICK n \in Nat : n = Len(s)
  OBVIOUS
<1>3. g \in [0 .. n -> Nat] /\ g[0] = 0 /\ \A k \in 1 .. n : g[k] = g[k - 1] + SegSize(s[k])
  BY <1>2 DEF Sums
<1>4. sum = [k \in 0 .. Len(s) |-> IF k = 0 THEN 0 ELSE sum[k - 1] + SegSize(s[k])]
  <2>1. \A k \in 0 .. n : g[k] = IF k = 0 THEN 0 ELSE g[k - 1] + SegSize(s[k])
    <3>1. \A k \in 0 .. n : k = 0 \/ k \in 1 .. n
      OBVIOUS
    <3>. QED
      BY <1>3, <3>1
  <2>2. g = [k \in 0 .. n |-> g[k]]
    BY <1>3
  <2>3. g = [k \in 0 .. n |-> IF k = 0 THEN 0 ELSE g[k - 1] + SegSize(s[k])]
    BY <2>1, <2>2
  <2>4. g = [k \in 0 .. Len(s) |-> IF k = 0 THEN 0 ELSE g[k - 1] + SegSize(s[k])]
    BY <1>2, <2>3
  <2>. QED
    BY <2>4, Zenon
<1> HIDE DEF sum
<1>5. \A k \in 0 .. n : sum[k] = IF k = 0 THEN 0 ELSE sum[k - 1] + SegSize(s[k])
  BY <1>2, <1>4, Zenon
<1> DEFINE T == {k \in 0 .. n : sum[k] = g[k]}
<1>6. 0 \in T
  BY <1>3, <1>5
<1>7. ASSUME NEW k \in 0 .. n - 1, k \in T
      PROVE  k + 1 \in T
  <2>1. k + 1 \in 0 .. n /\ k + 1 \in 1 .. n /\ k + 1 # 0 /\ k + 1 - 1 = k
    OBVIOUS
  <2>2. sum[k + 1] = sum[k] + SegSize(s[k + 1])
    BY <1>5, <2>1
  <2>3. g[k + 1] = g[k] + SegSize(s[k + 1])
    BY <1>3, <2>1
  <2>. QED
    BY <1>7, <2>1, <2>2, <2>3
<1>8. n \in T
  <2> HIDE DEF T
  <2>1. \A k \in 0 .. n - 1 : k \in T => k + 1 \in T
    BY <1>7
  <2>2. \A k \in 0 .. n : k \in T
    BY <1>6, <2>1, Induction
  <2>3. n \in 0 .. n
    OBVIOUS
  <2>. QED
    BY <2>2, <2>3
<1>. QED
  BY <1>1, <1>2, <1>8

(* One more segment in a datagram in which it fits, and the first of one.  *)
LEMMA DatagramAppend ==
  ASSUME setup \in Setups, NEW d \in Datagram, NEW seg \in Segment, Fits(d, seg)
  PROVE  Append(d, seg) \in Datagram
<1>1. PICK g : d \in Seq(Segment) /\ Sums(d, g)
  BY DEF Datagram
<1>2. PICK n \in Nat, c \in Nat : n = Len(d) /\ c = SegSize(seg)
  BY <1>1, SegSizeIs
<1>3. g \in [0 .. n -> Nat] /\ g[0] = 0 /\ \A k \in 1 .. n : g[k] = g[k - 1] + SegSize(d[k])
  BY <1>1, <1>2 DEF Sums
<1>4. g[n] \in Nat /\ g[n] + c <= setup.mtu
  <2>1. Size(d) = g[n]
    BY <1>1, <1>2, SizeIs
  <2>. QED
    BY <1>2, <1>3, <2>1 DEF Fits
<1> DEFINE e == Append(d, seg)
           h == [k \in 0 .. n + 1 |-> IF k = n + 1 THEN g[n] + c ELSE g[k]]
<1>5. e \in Seq(Segment) /\ Len(e) = n + 1 /\ e[n + 1] = seg /\ \A k \in 1 .. n : e[k] = d[k]
  BY <1>1, <1>2
<1>6. h[n + 1] = g[n] + c /\ \A k \in 0 .. n : h[k] = g[k]
  <2>1. n + 1 \in 0 .. n + 1 /\ \A k \in 0 .. n : k \in 0 .. n + 1 /\ k # n + 1
    OBVIOUS
  <2>. QED
    BY <2>1, Zenon
<1>7. h \in [0 .. n + 1 -> Nat]
  <2>1. \A k \in 0 .. n + 1 : (IF k = n + 1 THEN g[n] + c ELSE g[k]) \in Nat
    BY <1>3, <1>4
  <2>. QED
    BY <2>1, Zenon
<1> HIDE DEF e, h
<1>8. \A k \in 1 .. n + 1 : h[k] = h[k - 1] + SegSize(e[k])
  <2> TAKE k \in 1 .. n + 1
  <2>1. CASE k = n + 1
    <3>1. k - 1 = n /\ n \in 0 .. n
      BY <2>1
    <3>. QED
      BY <1>2, <1>5, <1>6, <2>1, <3>1, Zenon
  <2>2. CASE k # n + 1
    <3>1. k \in 1 .. n /\ k \in 0 .. n /\ k - 1 \in 0 .. n
      BY <2>2
    <3>. QED
      BY <1>3, <1>5, <1>6, <3>1, Zenon
  <2>. QED
    BY <2>1, <2>2
<1>9. Sums(e, h)
  <2>1. h[0] = 0
    BY <1>3, <1>6
  <2>. QED
    BY <1>5, <1>7, <1>8, <2>1 DEF Sums
<1>10. h[Len(e)] <= setup.mtu
  BY <1>4, <1>5, <1>6
<1>11. e \in Datagram
  BY <1>5, <1>9, <1>10 DEF Datagram
<1>. QED
  BY <1>11 DEF e

LEMMA DatagramOne ==
  ASSUME setup \in Setups, NEW seg \in Segment
  PROVE  <<seg>> \in Datagram
<1> DEFINE g == [k \in 0 .. 1 |-> IF k = 0 THEN 0 ELSE SegSize(seg)]
<1>1. SegSize(seg) \in Nat /\ SegSize(seg) <= setup.mtu
  BY SegSizeIs
<1>2. g \in [0 .. 1 -> Nat] /\ g[0] = 0 /\ g[1] = SegSize(seg)
  BY <1>1
<1> HIDE DEF g
<1>3. <<seg>> \in Seq(Segment) /\ Len(<<seg>>) = 1 /\ <<seg>>[1] = seg
  OBVIOUS
<1>4. g[1] = g[0] + SegSize(seg)
  BY <1>1, <1>2
<1>5. \A k \in 1 .. 1 : k = 1 /\ k - 1 = 0
  OBVIOUS
<1>6. Sums(<<seg>>, g)
  BY <1>2, <1>3, <1>4, <1>5 DEF Sums
<1>. QED
  BY <1>1, <1>2, <1>3, <1>6 DEF Datagram

(* Segments are put together to datagrams. *)
LEMMA PackedIn ==
  ASSUME setup \in Setups, NEW s \in Seq(Segment)
  PROVE  Packed(s) \in Seq(Datagram)
<1> DEFINE add(p, seg) == IF p = <<>> THEN <<<<seg>>>>
                          ELSE IF Fits(Last(p), seg) THEN Append(Front(p), Append(Last(p), seg))
                          ELSE Append(p, <<seg>>)
           D == Seq(Datagram)
           S == Segment
           x == <<>>
           along[i \in 0 .. Len(s)] == IF i = 0 THEN x ELSE add(along[i - 1], s[i])
<1>1. Packed(s) = along[Len(s)]
  BY DEF Packed, Along
<1>0. x \in D /\ \A d \in D, y \in S : add(d, y) \in D
  <2>1. ASSUME NEW p \in Seq(Datagram), NEW seg \in Segment
        PROVE  add(p, seg) \in Seq(Datagram)
    <3>1. <<seg>> \in Datagram
      BY DatagramOne
    <3>2. CASE p = <<>>
      BY <3>1, <3>2
    <3>3. CASE p # <<>>
      <4>1. Last(p) \in Datagram /\ Front(p) \in Seq(Datagram)
        <5>1. PICK n \in Nat : n = Len(p) /\ n > 0
          BY <3>3
        <5>. QED
          BY <3>3, <5>1 DEF Last, Front
      <4>2. Fits(Last(p), seg) => Append(Last(p), seg) \in Datagram
        BY <4>1, DatagramAppend
      <4>3. Append(p, <<seg>>) \in Seq(Datagram)
        BY <3>1
      <4>4. Fits(Last(p), seg) => Append(Front(p), Append(Last(p), seg)) \in Seq(Datagram)
        BY <4>1, <4>2
      <4>. QED
        BY <3>3, <4>3, <4>4, Zenon
    <3>. QED
      BY <3>2, <3>3
  <2>2. <<>> \in Seq(Datagram)
    OBVIOUS
  <2>. QED
    BY <2>1, <2>2, Zenon
<1>00. s \in Seq(S)
  OBVIOUS
<1> HIDE DEF add, D, S, x
<1>2. PICK n \in Nat : n = Len(s)
  BY <1>00
<1> DEFINE F == [k \in Nat |-> [d \in D |-> IF k \in 1 .. n THEN add(d, s[k]) ELSE d]]
<1>3. F \in [Nat -> [D -> D]]
  <2>1. \A k \in 1 .. n : s[k] \in S
    BY <1>00, <1>2
  <2>. QED
    BY <1>0, <2>1, Zenon
<1>4. \A k \in 1 .. n : \A d \in D : F[k][d] = add(d, s[k])
  <2>1. \A k \in 1 .. n : k \in Nat
    OBVIOUS
  <2>. QED
    BY <2>1, Zenon
<1> HIDE DEF F
<1>5. PICK g : Computes(g, F, x, n, D)
  BY <1>0, <1>3, Recursion
<1>6. g = [i \in 0 .. Len(s) |-> IF i = 0 THEN x ELSE add(g[i - 1], s[i])]
  <2>1. ASSUME NEW i \in 0 .. n
        PROVE  g[i] = IF i = 0 THEN x ELSE add(g[i - 1], s[i])
    <3>1. i = 0 \/ (i # 0 /\ i \in 1 .. n /\ i - 1 \in 0 .. n)
      OBVIOUS
    <3>. QED
      BY <1>4, <1>5, <3>1, Zenon DEF Computes
  <2>2. g = [i \in 0 .. n |-> g[i]]
    BY <1>5 DEF Computes
  <2>. QED
    BY <1>2, <2>1, <2>2, Zenon
<1>7. along = [i \in 0 .. Len(s) |-> IF i = 0 THEN x ELSE add(along[i - 1], s[i])]
  BY <1>6, Zenon
<1> HIDE DEF along
<1>8. along[0] \in D
  BY <1>0, <1>00, <1>2, <1>7
<1>9. ASSUME NEW i \in 1 .. n, along[i - 1] \in D
      PROVE  along[i] \in D
  <2>1. i \in 0 .. Len(s) /\ i # 0 /\ s[i] \in S
    BY <1>00, <1>2
  <2>2. along[i] = add(along[i - 1], s[i])
    BY <1>7, <2>1, Zenon
  <2>. QED
    BY <1>0, <1>9, <2>1, <2>2
<1>10. n \in 0 .. n
  OBVIOUS
<1>. QED
  BY <1>1, <1>2, <1>8, <1>9, <1>10, StaysIn DEF D

---------------------------------------------------------------------------
(* Sequences put together and cut.                                         *)
LEMMA ConcatIs ==
  ASSUME NEW S, NEW s \in Seq(S), NEW t \in Seq(S)
  PROVE  /\ s \o t \in Seq(S) /\ Len(s) \in Nat /\ Len(t) \in Nat
         /\ Len(s \o t) = Len(s) + Len(t)
         /\ \A i \in 1 .. Len(s) : (s \o t)[i] = s[i]
         /\ \A i \in 1 .. Len(t) : (s \o t)[Len(s) + i] = t[i]
<1>1. PICK a \in Nat, b \in Nat : a = Len(s) /\ b = Len(t)
  OBVIOUS
<1>2. s \o t \in Seq(S) /\ Len(s \o t) = a + b
  BY <1>1
<1>3. \A i \in 1 .. a : (s \o t)[i] = s[i]
  BY <1>1
<1>4. ASSUME NEW i \in 1 .. b
      PROVE  (s \o t)[a + i] = t[i]
  <2>1. a + i \in 1 .. a + b /\ ~ (a + i <= a) /\ (a + i) - a = i
    BY <1>1
  <2>2. (s \o t)[a + i] = t[(a + i) - a]
    BY <1>1, <2>1
  <2>. QED
    BY <2>1, <2>2
<1>. QED
  BY <1>1, <1>2, <1>3, <1>4

LEMMA FrontIs ==
  ASSUME NEW S, NEW s \in Seq(S), NEW m \in 1 .. Len(s) + 1
  PROVE  /\ SubSeq(s, 1, m - 1) \in Seq(S) /\ Len(SubSeq(s, 1, m - 1)) = m - 1
         /\ \A i \in 1 .. m - 1 : SubSeq(s, 1, m - 1)[i] = s[i]
<1>1. PICK n \in Nat, k \in Nat : n = Len(s) /\ k = m - 1 /\ k <= n
  OBVIOUS
<1>2. SubSeq(s, 1, k) = [i \in 1 .. k |-> s[i]]
  <2>1. k - 1 + 1 = k /\ \A i \in 1 .. k : 1 + i - 1 = i
    BY <1>1
  <2>2. SubSeq(s, 1, k) = [i \in 1 .. k - 1 + 1 |-> s[1 + i - 1]]
    BY <1>1
  <2>. QED
    BY <2>1, <2>2
<1> DEFINE t == [i \in 1 .. k |-> s[i]]
<1>3. t \in [1 .. k -> S] /\ \A i \in 1 .. k : t[i] = s[i]
  BY <1>1
<1> HIDE DEF t
<1>4. t \in Seq(S) /\ Len(t) = k
  BY <1>3
<1>. QED
  BY <1>1, <1>2, <1>3, <1>4 DEF t

LEMMA SubSeqIs ==
  ASSUME NEW S, NEW s \in Seq(S), NEW b \in 0 .. Len(s), NEW a \in 0 .. b
  PROVE  /\ SubSeq(s, a + 1, b) \in Seq(S) /\ Len(SubSeq(s, a + 1, b)) = b - a
         /\ \A i \in 1 .. b - a : SubSeq(s, a + 1, b)[i] = s[a + i]
<1>1. PICK n \in Nat : n = Len(s)
  OBVIOUS
<1>2. PICK m \in Nat : m = b - a
  BY <1>1
<1>3. SubSeq(s, a + 1, b) = [i \in 1 .. m |-> s[a + i]]
  <2>1. b - (a + 1) + 1 = m /\ \A i \in 1 .. m : (a + 1) + i - 1 = a + i
    BY <1>1, <1>2
  <2>2. SubSeq(s, a + 1, b) = [i \in 1 .. b - (a + 1) + 1 |-> s[(a + 1) + i - 1]]
    BY <1>1
  <2>. QED
    BY <2>1, <2>2
<1>4. \A i \in 1 .. m : s[a + i] \in S
  <2>1. \A i \in 1 .. m : a + i \in 1 .. n
    BY <1>1, <1>2
  <2>. QED
    BY <1>1, <2>1
<1> DEFINE t == [i \in 1 .. m |-> s[a + i]]
<1>5. t \in [1 .. m -> S] /\ \A i \in 1 .. m : t[i] = s[a + i]
  BY <1>4
<1> HIDE DEF t
<1>6. t \in Seq(S) /\ Len(t) = m
  BY <1>5
<1>. QED
  BY <1>2, <1>3, <1>5, <1>6 DEF t

---------------------------------------------------------------------------
(* Segments whose numbers are in a window of n from base on, in order.     *)
Window(buf, base, n) ==
    /\ buf \in Seq(Stored) /\ base \in Num /\ n \in 0 .. Half
    /\ \A i \in 1 .. Len(buf) : Off(buf[i].sn, base) < n
    /\ \A i, j \in 1 .. Len(buf) : i < j => Off(buf[i].sn, base) < Off(buf[j].sn, base)

LEMMA OffsetsAre ==
  ASSUME NEW buf \in Seq(Stored), NEW base \in Num
  PROVE  /\ \A i \in 1 .. Len(buf) : buf[i] \in Stored /\ buf[i].sn \in Num
         /\ \A i \in 1 .. Len(buf) : Off(buf[i].sn, base) \in Num /\ Off(buf[i].sn, base) \in Nat
<1>1. \A i \in 1 .. Len(buf) : buf[i] \in Stored /\ buf[i].sn \in Num
  <2>1. \A i \in 1 .. Len(buf) : buf[i] \in Stored
    OBVIOUS
  <2>2. \A x \in Stored : x.sn \in Num
    BY DEF Stored
  <2>. QED
    BY <2>1, <2>2, Zenon
<1>2. \A a \in Num : Off(a, base) \in Num
  BY NumIs
<1>3. \A a \in Num : a \in Nat
  BY Modular DEF Num
<1>. QED
  BY <1>1, <1>2, <1>3, Zenon

LEMMA WindowLength ==
  ASSUME NEW buf, NEW base, NEW n, Window(buf, base, n)
  PROVE  Len(buf) \in Nat /\ Len(buf) <= n
<1>1. PICK l \in Nat : l = Len(buf) /\ DOMAIN buf = 1 .. l
  BY DEF Window
<1>2. PICK o : o = [i \in 1 .. l |-> Off(buf[i].sn, base)]
  OBVIOUS
<1>3. \A i \in 1 .. l : o[i] \in Nat /\ o[i] < n
  BY <1>1, <1>2, OffsetsAre DEF Window
<1>4. \A i, j \in 1 .. l : i < j => o[i] < o[j]
  BY <1>1, <1>2, Zenon DEF Window
<1> DEFINE T == {i \in 0 .. l : i > 0 => o[i] >= i - 1}
<1>5. 0 \in T
  OBVIOUS
<1>6. ASSUME NEW i \in 0 .. l - 1, i \in T
      PROVE  i + 1 \in T
  <2>1. i + 1 \in 1 .. l /\ i + 1 \in 0 .. l /\ i + 1 - 1 = i
    OBVIOUS
  <2>2. CASE i = 0
    BY <1>3, <2>1, <2>2
  <2>3. CASE i > 0
    <3>1. i \in 1 .. l /\ o[i] >= i - 1 /\ o[i] \in Nat /\ o[i + 1] \in Nat
      BY <1>3, <1>6, <2>1, <2>3
    <3>2. o[i] < o[i + 1]
      <4>1. i < i + 1
        OBVIOUS
      <4>. QED
        BY <1>4, <2>1, <3>1, <4>1, Zenon
    <3>3. o[i + 1] >= i
      BY <3>1, <3>2
    <3>. QED
      BY <2>1, <3>3
  <2>. QED
    BY <2>2, <2>3
<1>7. l \in T
  <2> HIDE DEF T
  <2>1. \A i \in 0 .. l : i \in T
    BY <1>5, <1>6, Induction
  <2>. QED
    BY <2>1
<1>8. n \in Nat
  BY Modular DEF Window
<1>9. CASE l = 0
  BY <1>1, <1>8, <1>9
<1>10. CASE l > 0
  <2>1. o[l] \in Nat /\ o[l] < n /\ o[l] >= l - 1
    BY <1>3, <1>7, <1>10
  <2>. QED
    BY <1>1, <1>8, <2>1
<1>. QED
  BY <1>9, <1>10

LEMMA WindowOrdered ==
  ASSUME NEW buf, NEW base, NEW n, Window(buf, base, n)
  PROVE  Ordered(buf)
<1>1. buf \in Seq(Stored) /\ base \in Num /\ n \in Nat /\ n <= Half /\ Half \in Nat
  BY Modular DEF Window
<1>2. ASSUME NEW i \in 1 .. Len(buf) - 1
      PROVE  Diff(buf[i + 1].sn, buf[i].sn) > 0
  <2>1. i \in 1 .. Len(buf) /\ i + 1 \in 1 .. Len(buf) /\ i < i + 1
    BY <1>1
  <2>2. PICK a \in Num, b \in Num : a = buf[i + 1].sn /\ b = buf[i].sn
    BY <1>1, <2>1, OffsetsAre
  <2>3. PICK x \in Nat, y \in Nat : x = Off(a, base) /\ y = Off(b, base)
    BY <1>1, <2>1, <2>2, OffsetsAre
  <2>4. y < x /\ x < n
    BY <2>1, <2>2, <2>3, Zenon DEF Window
  <2>5. x - y < Half /\ y - x <= Half /\ x - y > 0
    BY <1>1, <2>4
  <2>6. Diff(a, b) = x - y
    BY <1>1, <2>3, <2>5, Distances
  <2>. QED
    BY <2>2, <2>5, <2>6
<1>. QED
  BY <1>2 DEF Ordered

(* A window that is larger, or that begins later.                          *)
LEMMA WindowWiden ==
  ASSUME NEW buf, NEW base, NEW n, Window(buf, base, n), NEW m \in 0 .. Half, n <= m
  PROVE  Window(buf, base, m)
<1>1. ASSUME NEW i \in 1 .. Len(buf)
      PROVE  Off(buf[i].sn, base) < m
  <2>1. Off(buf[i].sn, base) \in Nat /\ Off(buf[i].sn, base) < n
    BY OffsetsAre DEF Window
  <2>. QED
    BY <2>1, Modular DEF Window
<1>. QED
  BY <1>1 DEF Window

LEMMA WindowMove ==
  ASSUME NEW buf, NEW base, NEW n, Window(buf, base, n), NEW c \in 0 .. n,
         \A i \in 1 .. Len(buf) : c <= Off(buf[i].sn, base)
  PROVE  Window(buf, Plus(base, c), n - c)
<1>1. buf \in Seq(Stored) /\ base \in Num /\ n \in Nat /\ n <= Half /\ Half \in Nat
  BY Modular DEF Window
<1>2. PICK p \in Num : p = Plus(base, c)
  <2>1. c \in 0 .. Modulus
    BY <1>1, Modular
  <2>. QED
    BY <1>1, <2>1, NumIs
<1>3. ASSUME NEW i \in 1 .. Len(buf)
      PROVE  Off(buf[i].sn, p) = Off(buf[i].sn, base) - c /\ Off(buf[i].sn, base) \in Nat
  <2>1. buf[i].sn \in Num /\ Off(buf[i].sn, base) \in Nat /\ c <= Off(buf[i].sn, base)
    BY <1>1, OffsetsAre
  <2>2. c \in 0 .. Off(buf[i].sn, base)
    BY <1>1, <2>1
  <2>. QED
    BY <1>1, <1>2, <2>1, <2>2, Distances
<1>4. ASSUME NEW i \in 1 .. Len(buf)
      PROVE  Off(buf[i].sn, p) < n - c
  <2>1. PICK x \in Nat : x = Off(buf[i].sn, base) /\ Off(buf[i].sn, p) = x - c
    BY <1>3
  <2>2. x < n
    BY <2>1 DEF Window
  <2>. QED
    BY <1>1, <2>1, <2>2
<1>5. ASSUME NEW i \in 1 .. Len(buf), NEW j \in 1 .. Len(buf), i < j
      PROVE  Off(buf[i].sn, p) < Off(buf[j].sn, p)
  <2>1. PICK x \in Nat : x = Off(buf[i].sn, base) /\ Off(buf[i].sn, p) = x - c
    BY <1>3
  <2>2. PICK y \in Nat : y = Off(buf[j].sn, base) /\ Off(buf[j].sn, p) = y - c
    BY <1>3
  <2>3. x < y
    BY <1>5, <2>1, <2>2 DEF Window
  <2>. QED
    BY <1>1, <2>1, <2>2, <2>3
<1>6. n - c \in 0 .. Half
  BY <1>1
<1>. QED
  BY <1>1, <1>2, <1>4, <1>5, <1>6 DEF Window

(* Some of the segments, in their order: those at the places f tells.      *)
LEMMA WindowSome ==
  ASSUME NEW buf, NEW base, NEW n, Window(buf, base, n), NEW new \in Seq(Stored), NEW f,
         \A i \in 1 .. Len(new) : f[i] \in 1 .. Len(buf) /\ new[i] = buf[f[i]],
         \A i, j \in 1 .. Len(new) : i < j => f[i] < f[j]
  PROVE  Window(new, base, n)
<1>1. \A i \in 1 .. Len(new) : Off(new[i].sn, base) < n
  BY Zenon DEF Window
<1>2. \A i, j \in 1 .. Len(new) : i < j => Off(new[i].sn, base) < Off(new[j].sn, base)
  BY Zenon DEF Window
<1>. QED
  BY <1>1, <1>2 DEF Window

LEMMA WindowDrop ==
  ASSUME NEW buf, NEW base, NEW n, Window(buf, base, n), NEW m \in 0 .. Len(buf)
  PROVE  /\ Window(SubSeq(buf, m + 1, Len(buf)), base, n)
         /\ Len(SubSeq(buf, m + 1, Len(buf))) = Len(buf) - m
         /\ \A i \in 1 .. Len(buf) - m : SubSeq(buf, m + 1, Len(buf))[i] = buf[m + i]
<1>1. PICK l \in Nat : l = Len(buf) /\ buf \in Seq(Stored)
  BY DEF Window
<1>2. /\ SubSeq(buf, m + 1, Len(buf)) \in Seq(Stored) /\ Len(SubSeq(buf, m + 1, Len(buf))) = l - m
      /\ \A i \in 1 .. l - m : SubSeq(buf, m + 1, Len(buf))[i] = buf[m + i]
  <2>1. l \in 0 .. Len(buf) /\ m \in 0 .. l
    BY <1>1
  <2>. QED
    BY <1>1, <2>1, SubSeqIs
<1>3. PICK new \in Seq(Stored) : /\ new = SubSeq(buf, m + 1, Len(buf))
                                 /\ Len(new) = l - m /\ \A i \in 1 .. l - m : new[i] = buf[m + i]
  BY <1>2, Zenon
<1> DEFINE f == [i \in 1 .. l - m |-> m + i]
<1>4. \A i \in 1 .. l - m : f[i] = m + i /\ f[i] \in 1 .. l
  BY <1>1
<1> HIDE DEF f
<1>5. \A i, j \in 1 .. l - m : i < j => f[i] < f[j]
  BY <1>1, <1>4
<1>6. \A i \in 1 .. Len(new) : f[i] \in 1 .. Len(buf) /\ new[i] = buf[f[i]]
  <2>1. \A i \in 1 .. l - m : f[i] \in 1 .. Len(buf) /\ new[i] = buf[f[i]]
    BY <1>1, <1>3, <1>4
  <2>. QED
    BY <1>3, <2>1, Zenon
<1>7. Window(new, base, n)
  <2>1. \A i, j \in 1 .. Len(new) : i < j => f[i] < f[j]
    BY <1>3, <1>5, Zenon
  <2>. QED
    BY <1>6, <2>1, WindowSome, Zenon
<1>. QED
  BY <1>1, <1>2, <1>3, <1>7
(* One segment less.                                                       *)
LEMMA RemoveAtIs ==
  ASSUME NEW buf \in Seq(Stored), NEW m \in 1 .. Len(buf)
  PROVE  \E new \in Seq(Stored) :
            /\ new = RemoveAt(buf, m) /\ Len(new) = Len(buf) - 1
            /\ \A i \in 1 .. Len(buf) - 1 : new[i] = IF i < m THEN buf[i] ELSE buf[i + 1]
<1>1. PICK l \in Nat : l = Len(buf) /\ buf \in Seq(Stored)
  OBVIOUS
<1>2. PICK s \in Seq(Stored) : s = SubSeq(buf, 1, m - 1) /\ Len(s) = m - 1 /\ \A i \in 1 .. m - 1 : s[i] = buf[i]
  <2>1. m \in 1 .. Len(buf) + 1
    BY <1>1
  <2>2. /\ SubSeq(buf, 1, m - 1) \in Seq(Stored) /\ Len(SubSeq(buf, 1, m - 1)) = m - 1
        /\ \A i \in 1 .. m - 1 : SubSeq(buf, 1, m - 1)[i] = buf[i]
    BY <1>1, <2>1, FrontIs
  <2>. QED
    BY <2>2, Zenon
<1>3. PICK t \in Seq(Stored) : t = SubSeq(buf, m + 1, Len(buf)) /\ Len(t) = l - m
                              /\ \A i \in 1 .. l - m : t[i] = buf[m + i]
  <2>1. m \in 0 .. l /\ l \in 0 .. Len(buf)
    BY <1>1
  <2>2. /\ SubSeq(buf, m + 1, l) \in Seq(Stored) /\ Len(SubSeq(buf, m + 1, l)) = l - m
        /\ \A i \in 1 .. l - m : SubSeq(buf, m + 1, l)[i] = buf[m + i]
    BY <1>1, <2>1, SubSeqIs
  <2>. QED
    BY <1>1, <2>2, Zenon
<1>4. PICK new \in Seq(Stored) : /\ new = RemoveAt(buf, m) /\ Len(new) = l - 1
                                 /\ \A i \in 1 .. l - 1 : new[i] = IF i < m THEN buf[i] ELSE buf[i + 1]
  <2>1. RemoveAt(buf, m) = s \o t
    BY <1>2, <1>3 DEF RemoveAt
  <2>0. /\ s \o t \in Seq(Stored) /\ Len(s \o t) = (m - 1) + (l - m)
        /\ \A i \in 1 .. m - 1 : (s \o t)[i] = s[i]
        /\ \A i \in 1 .. l - m : (s \o t)[(m - 1) + i] = t[i]
    <3>1. /\ s \o t \in Seq(Stored) /\ Len(s \o t) = Len(s) + Len(t)
          /\ \A i \in 1 .. Len(s) : (s \o t)[i] = s[i]
          /\ \A i \in 1 .. Len(t) : (s \o t)[Len(s) + i] = t[i]
      BY ConcatIs
    <3>. QED
      BY <1>2, <1>3, <3>1, Zenon
  <2>2. s \o t \in Seq(Stored) /\ Len(s \o t) = l - 1
    BY <1>1, <2>0
  <2>3. ASSUME NEW i \in 1 .. l - 1
        PROVE  (s \o t)[i] = IF i < m THEN buf[i] ELSE buf[i + 1]
    <3>1. CASE i < m
      <4>1. i \in 1 .. m - 1
        BY <1>1, <3>1
      <4>. QED
        BY <1>2, <2>0, <3>1, <4>1, Zenon
    <3>2. CASE ~ (i < m)
      <4>1. PICK j \in 1 .. l - m : (m - 1) + j = i /\ m + j = i + 1
        <5>1. i - (m - 1) \in 1 .. l - m /\ m + (i - (m - 1)) = i + 1 /\ (m - 1) + (i - (m - 1)) = i
          BY <1>1, <3>2
        <5>. QED
          BY <5>1
      <4>. QED
        BY <1>3, <2>0, <3>2, <4>1, Zenon
    <3>. QED
      BY <3>1, <3>2
  <2>. QED
    BY <2>1, <2>2, <2>3
<1>. QED
  BY <1>1, <1>4

LEMMA WindowRemove ==
  ASSUME NEW buf, NEW base, NEW n, Window(buf, base, n), NEW m \in 1 .. Len(buf)
  PROVE  Window(RemoveAt(buf, m), base, n)
<1>1. PICK l \in Nat : l = Len(buf) /\ buf \in Seq(Stored)
  BY DEF Window
<1>2. PICK new \in Seq(Stored) : /\ new = RemoveAt(buf, m) /\ Len(new) = l - 1
                                 /\ \A i \in 1 .. l - 1 : new[i] = IF i < m THEN buf[i] ELSE buf[i + 1]
  BY <1>1, RemoveAtIs
<1> DEFINE f == [i \in 1 .. l - 1 |-> IF i < m THEN i ELSE i + 1]
<1>3. \A i \in 1 .. l - 1 : f[i] = IF i < m THEN i ELSE i + 1
  OBVIOUS
<1> HIDE DEF f
<1>4. \A i \in 1 .. l - 1 : f[i] \in 1 .. l /\ new[i] = buf[f[i]]
  <2>1. \A i \in 1 .. l - 1 : (IF i < m THEN i ELSE i + 1) \in 1 .. l
    BY <1>1
  <2>2. \A i \in 1 .. l - 1 : new[i] = buf[IF i < m THEN i ELSE i + 1]
    BY <1>2
  <2>. QED
    BY <1>3, <2>1, <2>2
<1>5. \A i, j \in 1 .. l - 1 : i < j => f[i] < f[j]
  BY <1>1, <1>3
<1>6. Window(new, base, n)
  <2>1. \A i \in 1 .. Len(new) : f[i] \in 1 .. Len(buf) /\ new[i] = buf[f[i]]
    BY <1>1, <1>2, <1>4, Zenon
  <2>2. \A i, j \in 1 .. Len(new) : i < j => f[i] < f[j]
    BY <1>2, <1>5, Zenon
  <2>. QED
    BY <2>1, <2>2, WindowSome, Zenon
<1>. QED
  BY <1>2, <1>6

LEMMA InsertAtSays ==
  ASSUME NEW q, NEW k, NEW x
  PROVE  InsertAt(q, k, x) = (SubSeq(q, 1, k - 1) \o <<x>>) \o SubSeq(q, k, Len(q))
BY DEF InsertAt

(* One more segment, put in its place.                                     *)
LEMMA InsertAtIs ==
  ASSUME NEW buf \in Seq(Stored), NEW seg \in Stored, NEW m \in 0 .. Len(buf)
  PROVE  \E new \in Seq(Stored) :
            /\ new = InsertAt(buf, m + 1, seg) /\ Len(new) = Len(buf) + 1
            /\ \A i \in 1 .. m : new[i] = buf[i]
            /\ new[m + 1] = seg
            /\ \A i \in m + 2 .. Len(buf) + 1 : new[i] = buf[i - 1]
<1>1. PICK l \in Nat : l = Len(buf)
  OBVIOUS
<1>2. PICK s \in Seq(Stored) : s = SubSeq(buf, 1, m) /\ Len(s) = m /\ \A i \in 1 .. m : s[i] = buf[i]
  <2>1. m + 1 \in 1 .. Len(buf) + 1 /\ m + 1 - 1 = m
    BY <1>1
  <2>2. /\ SubSeq(buf, 1, m + 1 - 1) \in Seq(Stored) /\ Len(SubSeq(buf, 1, m + 1 - 1)) = m + 1 - 1
        /\ \A i \in 1 .. m + 1 - 1 : SubSeq(buf, 1, m + 1 - 1)[i] = buf[i]
    BY <2>1, FrontIs
  <2>. QED
    BY <2>1, <2>2, Zenon
<1>3. PICK t \in Seq(Stored) : t = SubSeq(buf, m + 1, Len(buf)) /\ Len(t) = l - m
                              /\ \A i \in 1 .. l - m : t[i] = buf[m + i]
  <2>1. m \in 0 .. l /\ l \in 0 .. Len(buf)
    BY <1>1
  <2>2. /\ SubSeq(buf, m + 1, l) \in Seq(Stored) /\ Len(SubSeq(buf, m + 1, l)) = l - m
        /\ \A i \in 1 .. l - m : SubSeq(buf, m + 1, l)[i] = buf[m + i]
    BY <2>1, SubSeqIs
  <2>. QED
    BY <1>1, <2>2, Zenon
<1>4. PICK one \in Seq(Stored) : one = <<seg>> /\ Len(one) = 1 /\ one[1] = seg
  <2>1. <<seg>> \in Seq(Stored) /\ Len(<<seg>>) = 1 /\ <<seg>>[1] = seg
    OBVIOUS
  <2>. QED
    BY <2>1
<1>5. PICK r \in Seq(Stored) : /\ r = s \o one /\ Len(r) = m + 1
                               /\ \A i \in 1 .. m : r[i] = buf[i]
                               /\ r[m + 1] = seg
  <2>1. /\ s \o one \in Seq(Stored) /\ Len(s \o one) = Len(s) + Len(one)
        /\ \A i \in 1 .. Len(s) : (s \o one)[i] = s[i]
        /\ \A i \in 1 .. Len(one) : (s \o one)[Len(s) + i] = one[i]
    BY ConcatIs
  <2>2. 1 \in 1 .. Len(one)
    BY <1>4
  <2>3. (s \o one)[Len(s) + 1] = seg
    BY <1>4, <2>1, <2>2, Zenon
  <2>4. Len(s \o one) = m + 1 /\ (s \o one)[m + 1] = seg /\ \A i \in 1 .. m : (s \o one)[i] = s[i]
    BY <1>2, <1>4, <2>1, <2>3, Zenon
  <2>5. \A i \in 1 .. m : (s \o one)[i] = buf[i]
    BY <1>2, <2>4, Zenon
  <2>. QED
    BY <2>1, <2>4, <2>5, Zenon
<1>6. PICK w \in Seq(Stored) : /\ w = r \o t /\ Len(w) = (m + 1) + (l - m)
                               /\ \A i \in 1 .. m + 1 : w[i] = r[i]
                               /\ \A i \in 1 .. l - m : w[(m + 1) + i] = t[i]
  <2>1. /\ r \o t \in Seq(Stored) /\ Len(r \o t) = Len(r) + Len(t)
        /\ \A i \in 1 .. Len(r) : (r \o t)[i] = r[i]
        /\ \A i \in 1 .. Len(t) : (r \o t)[Len(r) + i] = t[i]
    BY ConcatIs
  <2>2. Len(r) = m + 1 /\ Len(t) = l - m
    BY <1>3, <1>5
  <2>3. PICK v \in Seq(Stored) : v = r \o t
    BY <2>1
  <2>4. Len(v) = (m + 1) + (l - m)
    BY <2>1, <2>2, <2>3, Zenon
  <2>5. \A i \in 1 .. m + 1 : v[i] = r[i]
    BY <2>1, <2>2, <2>3, Zenon
  <2>6. \A i \in 1 .. l - m : v[(m + 1) + i] = t[i]
    BY <2>1, <2>2, <2>3, Zenon
  <2>. QED
    BY <2>3, <2>4, <2>5, <2>6, Zenon
<1>7. InsertAt(buf, m + 1, seg) = w
  <2>1. (m + 1) - 1 = m
    BY <1>1
  <2>2. InsertAt(buf, m + 1, seg) = (SubSeq(buf, 1, (m + 1) - 1) \o <<seg>>) \o SubSeq(buf, m + 1, Len(buf))
    BY InsertAtSays, Zenon
  <2>3. SubSeq(buf, 1, (m + 1) - 1) = s
    BY <1>2, <2>1
  <2>. QED
    BY <1>3, <1>4, <1>5, <1>6, <2>2, <2>3, Zenon
<1>8. Len(w) = l + 1
  BY <1>1, <1>6
<1>9. \A i \in 1 .. m : w[i] = buf[i]
  <2>1. \A i \in 1 .. m : i \in 1 .. m + 1
    BY <1>1
  <2>. QED
    BY <1>5, <1>6, <2>1, Zenon
<1>10. w[m + 1] = seg
  <2>1. PICK k \in 1 .. m + 1 : k = m + 1
    BY <1>1
  <2>. QED
    BY <1>5, <1>6, <2>1
<1>11. ASSUME NEW i \in m + 2 .. l + 1
       PROVE  w[i] = buf[i - 1]
  <2>1. PICK j \in 1 .. l - m : (m + 1) + j = i /\ m + j = i - 1
    <3>1. i - (m + 1) \in 1 .. l - m /\ (m + 1) + (i - (m + 1)) = i /\ m + (i - (m + 1)) = i - 1
      BY <1>1
    <3>. QED
      BY <3>1
  <2>. QED
    BY <1>3, <1>6, <2>1, Zenon
<1>. QED
  BY <1>1, <1>6, <1>7, <1>8, <1>9, <1>10, <1>11

LEMMA WindowInsert ==
  ASSUME NEW buf, NEW base, NEW n, Window(buf, base, n), NEW seg \in Stored,
         Off(seg.sn, base) < n
  PROVE  Window(Insert(buf, seg), base, n)
<1>1. buf \in Seq(Stored) /\ base \in Num /\ n \in Nat /\ n <= Half /\ Half \in Nat
  BY Modular DEF Window
<1>2. PICK l \in Nat : l = Len(buf)
  BY <1>1
<1>3. PICK o : o = [i \in 1 .. l |-> Off(buf[i].sn, base)]
  OBVIOUS
<1>4. /\ \A i \in 1 .. l : o[i] \in Nat /\ o[i] < n /\ o[i] = Off(buf[i].sn, base)
      /\ \A i, j \in 1 .. l : i < j => o[i] < o[j]
  BY <1>1, <1>2, <1>3, OffsetsAre DEF Window
<1>5. PICK x \in Nat : x = Off(seg.sn, base) /\ x < n /\ seg.sn \in Num
  <2>1. seg.sn \in Num
    BY DEF Stored
  <2>2. Off(seg.sn, base) \in Num
    BY <1>1, <2>1, NumIs
  <2>3. Off(seg.sn, base) \in Nat
    BY <2>2, Modular DEF Num
  <2>. QED
    BY <2>1, <2>3
<1>6. ASSUME NEW i \in 1 .. l
      PROVE  Diff(seg.sn, buf[i].sn) = x - o[i] /\ (o[i] = x => buf[i].sn = seg.sn)
  <2>1. buf[i].sn \in Num
    BY <1>1, <1>2, OffsetsAre
  <2>2. PICK y \in Nat : y = o[i] /\ y < n
    BY <1>4
  <2>3. x - y < Half /\ y - x <= Half
    BY <1>1, <1>5, <2>2
  <2>4. Off(seg.sn, base) = x /\ Off(buf[i].sn, base) = y
    BY <1>4, <1>5, <2>2
  <2>. QED
    BY <1>1, <1>5, <2>1, <2>2, <2>3, <2>4, Distances
<1> DEFINE N == {i \in 0 .. l : i > 0 => Diff(seg.sn, buf[i].sn) >= 0}
<1>7. PICK m \in 0 .. l : /\ m = Longest(N) /\ m \in N
                          /\ \A i \in N : i <= m
  <2>1. N \in SUBSET (0 .. l) /\ 0 \in N
    OBVIOUS
  <2> HIDE DEF N
  <2>2. Longest(N) \in N /\ \A i \in N : i <= Longest(N)
    BY <2>1, LongestIs
  <2>. QED
    BY <2>1, <2>2
<1>8. Insert(buf, seg) = IF m > 0 /\ buf[m].sn = seg.sn THEN buf ELSE InsertAt(buf, m + 1, seg)
  BY <1>2, <1>7, Zenon DEF Insert
<1>9. CASE m > 0 /\ buf[m].sn = seg.sn
  BY <1>8, <1>9
<1>10. CASE ~ (m > 0 /\ buf[m].sn = seg.sn)
  <2>1. \A i \in 1 .. l : i > m => x < o[i]
    <3> TAKE i \in 1 .. l
    <3>1. i > m => i \notin N
      BY <1>7
    <3>2. i \notin N => ~ (Diff(seg.sn, buf[i].sn) >= 0)
      OBVIOUS
    <3>3. Diff(seg.sn, buf[i].sn) = x - o[i] /\ o[i] \in Nat
      BY <1>4, <1>6
    <3> HIDE DEF N
    <3>. QED
      BY <3>1, <3>2, <3>3
  <2>2. \A i \in 1 .. l : i <= m => o[i] < x
    <3> TAKE i \in 1 .. l
    <3>1. SUFFICES ASSUME i <= m
                   PROVE  o[i] < x
      OBVIOUS
    <3>2. m > 0 /\ m \in 1 .. l
      BY <3>1
    <3>3. Diff(seg.sn, buf[m].sn) >= 0
      BY <1>7, <3>2
    <3>4. Diff(seg.sn, buf[m].sn) = x - o[m] /\ o[m] \in Nat /\ o[i] \in Nat /\ o[m] # x
      BY <1>4, <1>6, <1>10, <3>2
    <3>5. o[m] < x
      BY <3>3, <3>4
    <3>6. i = m \/ o[i] < o[m]
      BY <1>4, <3>1, <3>2
    <3>. QED
      BY <3>4, <3>5, <3>6
  <2>3. PICK new \in Seq(Stored) :
            /\ new = InsertAt(buf, m + 1, seg) /\ Len(new) = l + 1
            /\ \A i \in 1 .. m : new[i] = buf[i]
            /\ new[m + 1] = seg
            /\ \A i \in m + 2 .. l + 1 : new[i] = buf[i - 1]
    BY <1>1, <1>2, <1>7, InsertAtIs
  <2> DEFINE p == [i \in 1 .. l + 1 |-> IF i <= m THEN o[i] ELSE IF i = m + 1 THEN x ELSE o[i - 1]]
  <2>4. \A i \in 1 .. l + 1 : p[i] = IF i <= m THEN o[i] ELSE IF i = m + 1 THEN x ELSE o[i - 1]
    OBVIOUS
  <2> HIDE DEF p
  <2>5. ASSUME NEW i \in 1 .. l + 1
        PROVE  p[i] = Off(new[i].sn, base) /\ p[i] \in Nat /\ p[i] < n
    <3>1. CASE i <= m
      <4>1. i \in 1 .. m /\ i \in 1 .. l
        BY <3>1
      <4>. QED
        BY <1>4, <2>3, <2>4, <3>1, <4>1
    <3>2. CASE i = m + 1
      <4>1. ~ (i <= m)
        BY <3>2
      <4>. QED
        BY <1>5, <2>3, <2>4, <3>2, <4>1
    <3>3. CASE i > m + 1
      <4>1. i \in m + 2 .. l + 1 /\ i - 1 \in 1 .. l /\ ~ (i <= m) /\ i # m + 1
        BY <3>3
      <4>2. p[i] = o[i - 1] /\ new[i] = buf[i - 1]
        BY <2>3, <2>4, <4>1
      <4>. QED
        BY <1>4, <4>1, <4>2
    <3>. QED
      BY <3>1, <3>2, <3>3
  <2>6. ASSUME NEW i \in 1 .. l + 1, NEW j \in 1 .. l + 1, i < j
        PROVE  p[i] < p[j]
    <3>1. CASE j <= m
      <4>1. i \in 1 .. l /\ j \in 1 .. l /\ i <= m
        BY <2>6, <3>1
      <4>. QED
        BY <1>4, <2>4, <2>6, <3>1, <4>1
    <3>2. CASE j = m + 1
      <4>1. i \in 1 .. l /\ i <= m /\ ~ (j <= m)
        BY <2>6, <3>2
      <4>. QED
        BY <2>2, <2>4, <3>2, <4>1
    <3>3. CASE j > m + 1
      <4>1. j - 1 \in 1 .. l /\ ~ (j <= m) /\ j # m + 1 /\ j - 1 > m
        BY <3>3
      <4>2. p[j] = o[j - 1] /\ x < o[j - 1] /\ o[j - 1] \in Nat
        BY <1>4, <2>1, <2>4, <4>1
      <4>3. CASE i <= m
        <5>1. i \in 1 .. l /\ i < j - 1
          BY <4>1, <4>3
        <5>. QED
          BY <1>4, <2>4, <4>1, <4>2, <4>3, <5>1
      <4>4. CASE i = m + 1
        <5>1. ~ (i <= m)
          BY <4>4
        <5>. QED
          BY <2>4, <4>2, <4>4, <5>1
      <4>5. CASE i > m + 1
        <5>1. i - 1 \in 1 .. l /\ ~ (i <= m) /\ i # m + 1 /\ i - 1 < j - 1
          BY <2>6, <4>5
        <5>2. p[i] = o[i - 1]
          BY <2>4, <5>1
        <5>. QED
          BY <1>4, <4>1, <4>2, <5>1, <5>2
      <4>. QED
        BY <4>3, <4>4, <4>5
    <3>. QED
      BY <3>1, <3>2, <3>3
  <2>7. \A i \in 1 .. Len(new) : Off(new[i].sn, base) < n
    BY <2>3, <2>5
  <2>8. \A i, j \in 1 .. Len(new) : i < j => Off(new[i].sn, base) < Off(new[j].sn, base)
    BY <2>3, <2>5, <2>6
  <2>9. Window(new, base, n)
    BY <2>7, <2>8 DEF Window
  <2>. QED
    BY <1>8, <1>10, <2>3, <2>9
<1>. QED
  BY <1>9, <1>10

(* New segments, numbered from the end of the window on.                   *)
LEMMA WindowAppend ==
  ASSUME NEW buf, NEW base, NEW nxt \in Num, Window(buf, base, Off(nxt, base)),
         NEW new \in Seq(Stored), Off(nxt, base) + Len(new) < Half,
         \A i \in 1 .. Len(new) : new[i].sn = Plus(nxt, i - 1)
  PROVE  /\ Window(buf \o new, base, Off(nxt, base) + Len(new))
         /\ Off(Plus(nxt, Len(new)), base) = Off(nxt, base) + Len(new)
<1>1. buf \in Seq(Stored) /\ base \in Num /\ Half \in Nat /\ Half <= Modulus /\ Modulus \in Nat
  BY Modular DEF Window
<1>2. PICK l \in Nat, c \in Nat : l = Len(buf) /\ c = Len(new)
  BY <1>1
<1>3. PICK n \in Nat : n = Off(nxt, base) /\ n + c < Half
  <2>1. Off(nxt, base) \in Num
    BY <1>1, NumIs
  <2>2. Off(nxt, base) \in Nat
    BY <2>1, <1>1 DEF Num
  <2>. QED
    BY <1>2, <2>2
<1>4. ASSUME NEW i \in 0 .. c
      PROVE  Off(Plus(nxt, i), base) = n + i
  <2>1. i \in Num /\ n + i < Modulus
    BY <1>1, <1>3 DEF Num
  <2>2. Off(nxt, base) + i < Modulus
    BY <1>3, <2>1
  <2>. QED
    BY <1>1, <1>3, <2>1, <2>2, Distances
<1>5. PICK s \in Seq(Stored) : /\ s = buf \o new /\ Len(s) = l + c
                               /\ \A i \in 1 .. l : s[i] = buf[i]
                               /\ \A i \in 1 .. c : s[l + i] = new[i]
  <2>1. /\ buf \o new \in Seq(Stored) /\ Len(buf \o new) = Len(buf) + Len(new)
        /\ \A i \in 1 .. Len(buf) : (buf \o new)[i] = buf[i]
        /\ \A i \in 1 .. Len(new) : (buf \o new)[Len(buf) + i] = new[i]
    BY <1>1, ConcatIs
  <2>. QED
    BY <1>2, <2>1, Zenon
<1>6. ASSUME NEW i \in 1 .. l
      PROVE  Off(s[i].sn, base) \in Nat /\ Off(s[i].sn, base) < n
  <2>1. Off(buf[i].sn, base) \in Nat
    BY <1>1, <1>2, OffsetsAre
  <2>2. Off(buf[i].sn, base) < n
    BY <1>2, <1>3 DEF Window
  <2>. QED
    BY <1>5, <2>1, <2>2
<1>7. ASSUME NEW i \in l + 1 .. l + c
      PROVE  Off(s[i].sn, base) = n + (i - l - 1)
  <2>1. PICK j \in 1 .. c : i = l + j /\ j - 1 = i - l - 1 /\ j - 1 \in 0 .. c
    <3>1. i - l \in 1 .. c /\ i = l + (i - l) /\ (i - l) - 1 = i - l - 1 /\ (i - l) - 1 \in 0 .. c
      OBVIOUS
    <3>. QED
      BY <3>1
  <2>2. s[i] = new[j] /\ new[j].sn = Plus(nxt, j - 1)
    BY <1>2, <1>5, <2>1
  <2>3. Off(Plus(nxt, j - 1), base) = n + (j - 1)
    BY <1>4, <2>1
  <2>. QED
    BY <2>1, <2>2, <2>3
<1>8. \A i \in 1 .. l + c : i \in 1 .. l \/ i \in l + 1 .. l + c
  OBVIOUS
<1>9. ASSUME NEW i \in 1 .. l + c
      PROVE  Off(s[i].sn, base) < n + c
  <2>1. CASE i \in 1 .. l
    <3>1. PICK x \in Nat : x = Off(s[i].sn, base) /\ x < n
      BY <1>6, <2>1
    <3>. QED
      BY <3>1
  <2>2. CASE i \in l + 1 .. l + c
    BY <1>7, <2>2
  <2>. QED
    BY <1>8, <2>1, <2>2
<1>10. ASSUME NEW i \in 1 .. l + c, NEW j \in 1 .. l + c, i < j
       PROVE  Off(s[i].sn, base) < Off(s[j].sn, base)
  <2>1. CASE j \in 1 .. l
    <3>1. i \in 1 .. l
      BY <1>10, <2>1
    <3>2. Off(buf[i].sn, base) < Off(buf[j].sn, base)
      BY <1>2, <1>10, <2>1, <3>1, Zenon DEF Window
    <3>. QED
      BY <1>5, <2>1, <3>1, <3>2
  <2>2. CASE j \in l + 1 .. l + c
    <3>1. Off(s[j].sn, base) = n + (j - l - 1)
      BY <1>7, <2>2
    <3>2. CASE i \in 1 .. l
      <4>1. PICK x \in Nat : x = Off(s[i].sn, base) /\ x < n
        BY <1>6, <3>2
      <4>. QED
        BY <2>2, <3>1, <4>1
    <3>3. CASE i \in l + 1 .. l + c
      <4>1. Off(s[i].sn, base) = n + (i - l - 1)
        BY <1>7, <3>3
      <4>. QED
        BY <1>10, <2>2, <3>1, <3>3, <4>1
    <3>. QED
      BY <1>8, <3>2, <3>3
  <2>. QED
    BY <1>8, <2>1, <2>2
<1>11. n + c \in 0 .. Half
  BY <1>1, <1>3
<1>12. Window(s, base, n + c)
  BY <1>1, <1>5, <1>9, <1>10, <1>11 DEF Window
<1>13. c \in 0 .. c
  OBVIOUS
<1>. QED
  BY <1>2, <1>3, <1>4, <1>5, <1>12, <1>13

---------------------------------------------------------------------------
(* Control blocks, and those that keep their windows: what was sent and    *)
(* not acknowledged is numbered from snd_una to snd_nxt, and what waits to *)
(* be put in order from rcv_nxt on, in the window.                         *)
Block ==
    [snd_una : Num, snd_nxt : Num, rcv_nxt : Num, rmt_wnd : Nat,
     probe : SUBSET {"send", "tell"}, probe_wait : BOOLEAN, acklist : Seq(Num),
     snd_queue : Seq(Fragment), snd_buf : Seq(Stored),
     rcv_buf : Seq(Stored), rcv_queue : Seq(Fragment)]

SendOK(k) ==
    /\ Window(k.snd_buf, k.snd_una, Off(k.snd_nxt, k.snd_una))
    /\ Off(k.snd_nxt, k.snd_una) <= setup.snd_wnd

RecvOK(k) ==
    /\ Window(k.rcv_buf, k.rcv_nxt, setup.rcv_wnd)
    /\ Len(k.rcv_queue) <= setup.rcv_wnd

Kept == {k \in Block : SendOK(k) /\ RecvOK(k)}

LEMMA SenderChanged ==
  ASSUME NEW k \in Kept, NEW una \in Num, NEW nxt \in Num, NEW queue \in Seq(Fragment), NEW buf,
         Window(buf, una, Off(nxt, una)), Off(nxt, una) <= setup.snd_wnd
  PROVE  [k EXCEPT !.snd_una = una, !.snd_nxt = nxt, !.snd_queue = queue, !.snd_buf = buf] \in Kept
<1> DEFINE j == [k EXCEPT !.snd_una = una, !.snd_nxt = nxt, !.snd_queue = queue, !.snd_buf = buf]
<1>1. k \in Block /\ RecvOK(k) /\ buf \in Seq(Stored)
  BY DEF Kept, Window
<1>2. j \in Block /\ j.snd_una = una /\ j.snd_nxt = nxt /\ j.snd_buf = buf
  BY <1>1 DEF Block
<1>3. j.rcv_buf = k.rcv_buf /\ j.rcv_nxt = k.rcv_nxt /\ j.rcv_queue = k.rcv_queue
  BY <1>1 DEF Block
<1> HIDE DEF j
<1>4. SendOK(j) /\ RecvOK(j)
  BY <1>1, <1>2, <1>3, Zenon DEF SendOK, RecvOK
<1>5. j \in Kept
  BY <1>2, <1>4, Zenon DEF Kept
<1>. QED
  BY <1>5 DEF j

LEMMA ReceiverChanged ==
  ASSUME NEW k \in Kept, NEW nxt, NEW queue \in Seq(Fragment), NEW buf,
         Window(buf, nxt, setup.rcv_wnd), Len(queue) <= setup.rcv_wnd
  PROVE  [k EXCEPT !.rcv_buf = buf, !.rcv_queue = queue, !.rcv_nxt = nxt] \in Kept
<1> DEFINE j == [k EXCEPT !.rcv_buf = buf, !.rcv_queue = queue, !.rcv_nxt = nxt]
<1>1. k \in Block /\ SendOK(k) /\ buf \in Seq(Stored) /\ nxt \in Num
  BY DEF Kept, Window
<1>2. j \in Block /\ j.rcv_buf = buf /\ j.rcv_nxt = nxt /\ j.rcv_queue = queue
  BY <1>1 DEF Block
<1>3. j.snd_una = k.snd_una /\ j.snd_nxt = k.snd_nxt /\ j.snd_buf = k.snd_buf
  BY <1>1 DEF Block
<1> HIDE DEF j
<1>4. SendOK(j) /\ RecvOK(j)
  BY <1>1, <1>2, <1>3, Zenon DEF SendOK, RecvOK
<1>5. j \in Kept
  BY <1>2, <1>4, Zenon DEF Kept
<1>. QED
  BY <1>5 DEF j

(* What is heard, asked and acknowledged changes no window.                *)
LEMMA WordsChanged ==
  ASSUME NEW k \in Kept, NEW wnd \in Nat, NEW probe \in SUBSET {"send", "tell"},
         NEW wait \in BOOLEAN, NEW acks \in Seq(Num)
  PROVE  [k EXCEPT !.rmt_wnd = wnd, !.probe = probe, !.probe_wait = wait, !.acklist = acks] \in Kept
<1> DEFINE j == [k EXCEPT !.rmt_wnd = wnd, !.probe = probe, !.probe_wait = wait, !.acklist = acks]
<1>1. k \in Block /\ SendOK(k) /\ RecvOK(k)
  BY DEF Kept
<1>2. j \in Block
  BY <1>1 DEF Block
<1>3. /\ j.snd_una = k.snd_una /\ j.snd_nxt = k.snd_nxt /\ j.snd_buf = k.snd_buf
      /\ j.rcv_buf = k.rcv_buf /\ j.rcv_nxt = k.rcv_nxt /\ j.rcv_queue = k.rcv_queue
  BY <1>1 DEF Block
<1> HIDE DEF j
<1>4. SendOK(j) /\ RecvOK(j)
  BY <1>1, <1>3, Zenon DEF SendOK, RecvOK
<1>5. j \in Kept
  BY <1>2, <1>4, Zenon DEF Kept
<1>. QED
  BY <1>5 DEF j

(* The parts of a block, and a block put together of its own parts.        *)
LEMMA BlockIs ==
  ASSUME NEW k \in Kept
  PROVE  /\ k \in Block /\ SendOK(k) /\ RecvOK(k)
         /\ k.snd_una \in Num /\ k.snd_nxt \in Num /\ k.rcv_nxt \in Num /\ k.rmt_wnd \in Nat
         /\ k.probe \in SUBSET {"send", "tell"} /\ k.probe_wait \in BOOLEAN /\ k.acklist \in Seq(Num)
         /\ k.snd_queue \in Seq(Fragment) /\ k.rcv_queue \in Seq(Fragment)
         /\ k.snd_buf \in Seq(Stored) /\ k.rcv_buf \in Seq(Stored)
<1>1. k \in Block /\ SendOK(k) /\ RecvOK(k)
  BY DEF Kept
<1>. QED
  BY <1>1 DEF Block

LEMMA ShrinkBufKeeps ==
  ASSUME setup \in Setups, NEW k \in Kept
  PROVE  ShrinkBuf(k) \in Kept
<1>1. PICK una \in Num, nxt \in Num, buf \in Seq(Stored) :
        una = k.snd_una /\ nxt = k.snd_nxt /\ buf = k.snd_buf
  BY BlockIs
<1>2. Window(buf, una, Off(nxt, una)) /\ Off(nxt, una) <= setup.snd_wnd
  BY <1>1, BlockIs, Zenon DEF SendOK
<1>3. k.snd_queue \in Seq(Fragment) /\ k \in Block
  BY BlockIs
<1> DEFINE first == IF buf = <<>> THEN nxt ELSE Head(buf).sn
<1>4. first \in Num /\ Window(buf, first, Off(nxt, first)) /\ Off(nxt, first) <= setup.snd_wnd
  <2>1. CASE buf = <<>>
    <3>1. first = nxt
      BY <2>1
    <3>2. Off(nxt, nxt) = 0
      <4>1. Off(nxt, nxt) = IF nxt < nxt THEN (nxt - nxt) + Modulus ELSE nxt - nxt
        BY NumIs, Zenon
      <4>2. nxt \in Int
        BY Modular DEF Num
      <4>. QED
        BY <4>1, <4>2
    <3>3. 0 \in 0 .. Half /\ 0 <= setup.snd_wnd
      BY Modular, SetupIs
    <3>4. buf \in Seq(Stored) /\ Len(buf) = 0
      BY <2>1
    <3>5. \A i \in 1 .. Len(buf) : FALSE
      BY <3>4
    <3>6. Window(buf, nxt, Off(nxt, nxt))
      BY <3>2, <3>3, <3>4, <3>5, Zenon DEF Window
    <3>. QED
      BY <3>1, <3>2, <3>3, <3>6
  <2>2. CASE buf # <<>>
    <3>1. 1 \in 1 .. Len(buf) /\ first = buf[1].sn
      BY <2>2
    <3>2. buf[1].sn \in Num /\ Off(buf[1].sn, una) \in Nat
      BY <3>1, OffsetsAre
    <3>3. PICK c \in Nat, n \in Nat : c = Off(buf[1].sn, una) /\ n = Off(nxt, una) /\ c < n
      <4>1. Off(buf[1].sn, una) < Off(nxt, una)
        BY <1>2, <3>1, Zenon DEF Window
      <4>2. Off(nxt, una) \in Num
        BY NumIs, Zenon
      <4>3. Off(nxt, una) \in Nat
        BY <4>2, Modular DEF Num
      <4>. QED
        BY <3>2, <4>1, <4>3
    <3>4. \A i \in 1 .. Len(buf) : c <= Off(buf[i].sn, una)
      <4>1. ASSUME NEW i \in 1 .. Len(buf)
            PROVE  c <= Off(buf[i].sn, una)
        <5>1. CASE i = 1
          BY <3>3, <5>1
        <5>2. CASE i # 1
          <6>1. 1 < i
            BY <5>2
          <6>2. Off(buf[1].sn, una) < Off(buf[i].sn, una)
            BY <1>2, <3>1, <6>1, Zenon DEF Window
          <6>3. Off(buf[i].sn, una) \in Nat
            BY OffsetsAre
          <6>. QED
            BY <3>3, <6>2, <6>3
        <5>. QED
          BY <5>1, <5>2
      <4>. QED
        BY <4>1
    <3>5. c \in 0 .. n /\ Window(buf, una, n)
      BY <1>2, <3>3
    <3>6. Window(buf, Plus(una, c), n - c)
      BY <3>4, <3>5, WindowMove
    <3>7. Plus(una, c) = buf[1].sn
      <4>1. c \in Num /\ c \in 0 .. Modulus
        <5>1. Off(buf[1].sn, una) \in Num
          BY <3>2, NumIs
        <5>. QED
          BY <3>3, <5>1, Modular DEF Num
      <4>2. Off(Plus(una, c), una) = c
        BY <4>1, Distances
      <4>3. Plus(una, c) \in Num
        BY <4>1, NumIs
      <4>4. \A x, y \in Num : Off(x, una) = Off(y, una) => x = y
        BY Distances
      <4>5. Off(Plus(una, c), una) = Off(buf[1].sn, una)
        BY <3>3, <4>2
      <4>6. buf[1].sn \in Num
        BY <3>2
      <4>7. Plus(una, c) = buf[1].sn
        BY <4>3, <4>4, <4>5, <4>6
      <4>. QED
        BY <4>7
    <3>8. Off(nxt, buf[1].sn) = n - c
      <4>1. Off(buf[1].sn, una) <= Off(nxt, una)
        BY <3>3
      <4>2. \A x \in Num : Off(x, una) <= Off(nxt, una) => Off(nxt, x) = Off(nxt, una) - Off(x, una)
        BY Distances
      <4>3. Off(nxt, buf[1].sn) = Off(nxt, una) - Off(buf[1].sn, una)
        BY <3>2, <4>1, <4>2, Zenon
      <4>. QED
        BY <3>3, <4>3
    <3>9. n - c <= setup.snd_wnd
      BY <1>2, <3>3, SetupIs
    <3>. QED
      BY <3>1, <3>2, <3>6, <3>7, <3>8, <3>9
  <2>. QED
    BY <2>1, <2>2
<1> HIDE DEF first
<1>5. ShrinkBuf(k) = [k EXCEPT !.snd_una = first, !.snd_nxt = nxt, !.snd_queue = k.snd_queue, !.snd_buf = buf]
  <2>1. ShrinkBuf(k) = [k EXCEPT !.snd_una = first]
    BY <1>1, Zenon DEF ShrinkBuf, first
  <2>. QED
    BY <1>1, <1>3, <1>4, <2>1 DEF Block
<1>6. [k EXCEPT !.snd_una = first, !.snd_nxt = nxt, !.snd_queue = k.snd_queue, !.snd_buf = buf] \in Kept
  BY <1>3, <1>4, SenderChanged
<1>. QED
  BY <1>5, <1>6, Zenon

LEMMA BeforeIs ==
  ASSUME NEW buf, Len(buf) \in Nat, NEW sn
  PROVE  Before(buf, sn) \in 0 .. Len(buf)
<1> DEFINE N == {i \in 0 .. Len(buf) : \A j \in 1 .. i : Diff(sn, buf[j].sn) > 0}
<1>1. N \in SUBSET (0 .. Len(buf)) /\ 0 \in N
  OBVIOUS
<1>2. Before(buf, sn) = Longest(N)
  BY Zenon DEF Before
<1> HIDE DEF N
<1>. QED
  BY <1>1, <1>2, LongestIs

LEMMA ParseUnaKeeps ==
  ASSUME setup \in Setups, NEW k \in Kept, NEW sn
  PROVE  ParseUna(k, sn) \in Kept
<1>0. PICK buf \in Seq(Stored) : buf = k.snd_buf
  BY BlockIs
<1>1. PICK m \in 0 .. Len(buf) : buf = k.snd_buf /\ m = Before(buf, sn)
  <2>1. Len(buf) \in Nat
    OBVIOUS
  <2>2. Before(buf, sn) \in 0 .. Len(buf)
    BY <2>1, BeforeIs
  <2>. QED
    BY <1>0, <2>2, Zenon
<1>2. PICK new : new = SubSeq(buf, m + 1, Len(buf))
  OBVIOUS
<1>3. /\ Window(buf, k.snd_una, Off(k.snd_nxt, k.snd_una)) /\ Off(k.snd_nxt, k.snd_una) <= setup.snd_wnd
      /\ k \in Block /\ k.snd_una \in Num /\ k.snd_nxt \in Num /\ k.snd_queue \in Seq(Fragment)
  BY <1>1, BlockIs DEF SendOK
<1>4. Window(new, k.snd_una, Off(k.snd_nxt, k.snd_una))
  BY <1>2, <1>3, WindowDrop
<1>5. [k EXCEPT !.snd_una = k.snd_una, !.snd_nxt = k.snd_nxt, !.snd_queue = k.snd_queue, !.snd_buf = new] \in Kept
  BY <1>3, <1>4, SenderChanged
<1>6. ParseUna(k, sn) = [k EXCEPT !.snd_buf = new]
  BY <1>1, <1>2, Zenon DEF ParseUna
<1>. QED
  BY <1>3, <1>5, <1>6 DEF Block

LEMMA ParseAckKeeps ==
  ASSUME setup \in Setups, NEW k \in Kept, NEW sn
  PROVE  ParseAck(k, sn) \in Kept
<1>0. PICK buf \in Seq(Stored) : buf = k.snd_buf
  BY BlockIs
<1>1. PICK m \in 0 .. Len(buf) : buf = k.snd_buf /\ m = Before(buf, sn)
  <2>1. Len(buf) \in Nat
    OBVIOUS
  <2>2. Before(buf, sn) \in 0 .. Len(buf)
    BY <2>1, BeforeIs
  <2>. QED
    BY <1>0, <2>2, Zenon
<1>2. PICK n \in Nat : n = m + 1
  BY <1>1
<1>3. ParseAck(k, sn) \in {k, [k EXCEPT !.snd_buf = RemoveAt(buf, n)]} /\
      (ParseAck(k, sn) # k => n <= Len(buf))
  BY <1>1, <1>2, Zenon DEF ParseAck
<1>4. CASE ParseAck(k, sn) = k
  BY <1>4
<1>5. CASE ParseAck(k, sn) # k
  <2>1. PICK new : new = RemoveAt(buf, n)
    OBVIOUS
  <2>2. n \in 1 .. Len(buf) /\ ParseAck(k, sn) = [k EXCEPT !.snd_buf = new]
    BY <1>2, <1>3, <1>5, <2>1
  <2>3. /\ Window(buf, k.snd_una, Off(k.snd_nxt, k.snd_una)) /\ Off(k.snd_nxt, k.snd_una) <= setup.snd_wnd
        /\ k \in Block /\ k.snd_una \in Num /\ k.snd_nxt \in Num /\ k.snd_queue \in Seq(Fragment)
    BY <1>1, BlockIs DEF SendOK
  <2>4. Window(new, k.snd_una, Off(k.snd_nxt, k.snd_una))
    BY <2>1, <2>2, <2>3, WindowRemove
  <2>5. [k EXCEPT !.snd_una = k.snd_una, !.snd_nxt = k.snd_nxt, !.snd_queue = k.snd_queue, !.snd_buf = new] \in Kept
    BY <2>3, <2>4, SenderChanged
  <2>. QED
    BY <2>2, <2>3, <2>5 DEF Block
<1>. QED
  BY <1>4, <1>5

(* Segments in order become available: the window moves on with rcv_nxt,   *)
(* and what stays in rcv_buf is in the window still.                       *)
LEMMA MoveReadyIs ==
  ASSUME setup \in Setups, NEW k \in Kept
  PROVE  \E n \in 0 .. Len(k.rcv_buf), more \in Seq(Fragment) :
            /\ n <= setup.rcv_wnd /\ Len(more) <= setup.rcv_wnd
            /\ \A i \in 1 .. n : k.rcv_buf[i].sn = Plus(k.rcv_nxt, i - 1)
            /\ MoveReady(k) = [k EXCEPT !.rcv_buf = SubSeq(k.rcv_buf, n + 1, Len(k.rcv_buf)),
                                       !.rcv_queue = more, !.rcv_nxt = Plus(k.rcv_nxt, n)]
<1>1. PICK buf \in Seq(Stored), queue \in Seq(Fragment), nxt \in Num :
        buf = k.rcv_buf /\ queue = k.rcv_queue /\ nxt = k.rcv_nxt
  BY BlockIs
<1>2. PICK l \in Nat, q \in Nat, w \in Nat : l = Len(buf) /\ q = Len(queue) /\ w = setup.rcv_wnd
  BY SetupIs
<1>3. Window(buf, nxt, w) /\ q <= w
  BY <1>1, <1>2, BlockIs, Zenon DEF RecvOK
<1> DEFINE N == {n \in 0 .. Len(buf) : Len(queue) + n <= setup.rcv_wnd /\ InOrder(k, n)}
<1>4. PICK n \in 0 .. l : n = Longest(N) /\ q + n <= w /\ \A i \in 1 .. n : buf[i].sn = Plus(nxt, i - 1)
  <2>1. \A i \in 1 .. 0 : FALSE
    OBVIOUS
  <2>2. InOrder(k, 0)
    BY <2>1, Zenon DEF InOrder
  <2>3. 0 \in 0 .. Len(buf) /\ Len(queue) + 0 <= setup.rcv_wnd
    BY <1>2, <1>3
  <2>4. N \in SUBSET (0 .. Len(buf)) /\ 0 \in N
    BY <2>2, <2>3
  <2>5. Longest(N) \in N
    <3> HIDE DEF N
    <3>. QED
      BY <1>2, <2>4, LongestIs
  <2>6. Longest(N) \in 0 .. Len(buf) /\ Len(queue) + Longest(N) <= setup.rcv_wnd /\ InOrder(k, Longest(N))
    BY <2>5
  <2> HIDE DEF N
  <2>7. \A i \in 1 .. Longest(N) : buf[i].sn = Plus(nxt, i - 1)
    BY <1>1, <2>6, Zenon DEF InOrder
  <2>. QED
    BY <1>2, <2>6, <2>7
<1>5. PICK ready \in Seq(Stored) : ready = SubSeq(buf, 1, n) /\ Len(ready) = n
  <2>1. n + 1 \in 1 .. Len(buf) + 1 /\ (n + 1) - 1 = n
    BY <1>2
  <2>2. SubSeq(buf, 1, (n + 1) - 1) \in Seq(Stored) /\ Len(SubSeq(buf, 1, (n + 1) - 1)) = (n + 1) - 1
    BY <2>1, FrontIs
  <2>. QED
    BY <2>1, <2>2
<1> DEFINE taken == [i \in 1 .. n |-> [frg |-> ready[i].frg, data |-> ready[i].data]]
<1>6. PICK more \in Seq(Fragment) : more = queue \o taken /\ Len(more) = q + n
  <2>1. \A i \in 1 .. n : ready[i] \in Stored
    BY <1>5
  <2>2. taken \in [1 .. n -> Fragment]
    BY <2>1 DEF Stored, Fragment
  <2> HIDE DEF taken
  <2>3. PICK t \in Seq(Fragment) : t = taken /\ Len(t) = n
    BY <2>2
  <2>4. queue \o t \in Seq(Fragment) /\ Len(queue \o t) = Len(queue) + Len(t)
    BY ConcatIs
  <2>. QED
    BY <1>2, <2>3, <2>4
<1> HIDE DEF taken
<1>7. MoveReady(k) = [k EXCEPT !.rcv_buf = SubSeq(buf, n + 1, Len(buf)), !.rcv_queue = more,
                                !.rcv_nxt = Plus(nxt, n)]
  <2>1. /\ k.rcv_buf = buf /\ k.rcv_queue = queue /\ k.rcv_nxt = nxt
        /\ Longest(N) = n /\ SubSeq(buf, 1, n) = ready /\ queue \o taken = more
    BY <1>1, <1>4, <1>5, <1>6
  <2>. QED
    BY <2>1, Zenon DEF MoveReady, N, taken
<1>8. n \in 0 .. Len(buf) /\ n <= setup.rcv_wnd /\ Len(more) <= setup.rcv_wnd
  BY <1>2, <1>4, <1>6
<1> HIDE DEF N, taken
<1>. QED
  BY <1>1, <1>4, <1>7, <1>8

LEMMA MoveReadyKeeps ==
  ASSUME setup \in Setups, NEW k \in Kept
  PROVE  MoveReady(k) \in Kept
<1>1. PICK buf \in Seq(Stored), nxt \in Num : buf = k.rcv_buf /\ nxt = k.rcv_nxt
  BY BlockIs
<1>2. PICK l \in Nat, w \in Nat : l = Len(buf) /\ w = setup.rcv_wnd
  BY SetupIs
<1>3. Window(buf, nxt, w)
  BY <1>1, <1>2, BlockIs, Zenon DEF RecvOK
<1>4. PICK n \in 0 .. l, more \in Seq(Fragment) :
        /\ n <= w /\ Len(more) <= w
        /\ \A i \in 1 .. n : buf[i].sn = Plus(nxt, i - 1)
        /\ MoveReady(k) = [k EXCEPT !.rcv_buf = SubSeq(buf, n + 1, Len(buf)), !.rcv_queue = more,
                                   !.rcv_nxt = Plus(nxt, n)]
  <2>1. PICK n \in 0 .. Len(k.rcv_buf), more \in Seq(Fragment) :
            /\ n <= setup.rcv_wnd /\ Len(more) <= setup.rcv_wnd
            /\ \A i \in 1 .. n : k.rcv_buf[i].sn = Plus(k.rcv_nxt, i - 1)
            /\ MoveReady(k) = [k EXCEPT !.rcv_buf = SubSeq(k.rcv_buf, n + 1, Len(k.rcv_buf)),
                                       !.rcv_queue = more, !.rcv_nxt = Plus(k.rcv_nxt, n)]
    BY MoveReadyIs
  <2>. QED
    BY <1>1, <1>2, <2>1, Zenon
<1>7. PICK rest : rest = SubSeq(buf, n + 1, Len(buf))
  OBVIOUS
<1>8. /\ Window(rest, nxt, w) /\ Len(rest) = l - n
      /\ \A i \in 1 .. l - n : rest[i] = buf[n + i]
  BY <1>2, <1>3, <1>7, WindowDrop
<1>9. \A i \in 1 .. l - n : n <= Off(rest[i].sn, nxt)
  <2>1. ASSUME NEW i \in 1 .. l - n
        PROVE  n <= Off(rest[i].sn, nxt)
    <3>1. n + i \in 1 .. Len(buf) /\ rest[i] = buf[n + i]
      BY <1>2, <1>8
    <3>2. PICK x \in Nat : x = Off(buf[n + i].sn, nxt)
      BY <3>1, OffsetsAre
    <3>3. CASE n = 0
      BY <3>1, <3>2, <3>3
    <3>4. CASE n # 0
      <4>1. n \in 1 .. Len(buf) /\ n < n + i /\ n \in 1 .. n
        BY <1>2, <3>4
      <4>2. Off(buf[n].sn, nxt) < Off(buf[n + i].sn, nxt)
        BY <1>3, <3>1, <4>1, Zenon DEF Window
      <4>3. buf[n].sn = Plus(nxt, n - 1)
        BY <1>4, <4>1
      <4>4. n - 1 \in Num
        <5>0. w <= Half
          BY <1>2, SetupIs
        <5>1. n <= w /\ w <= Modulus /\ w \in Nat /\ Modulus \in Nat
          BY <1>4, <5>0, HalfIs
        <5>. QED
          BY <4>1, <5>1 DEF Num
      <4>5. Off(Plus(nxt, n - 1), nxt) = n - 1
        BY <4>4, Distances, Zenon
      <4>. QED
        BY <3>1, <3>2, <4>2, <4>3, <4>5
    <3>. QED
      BY <3>3, <3>4
  <2>. QED
    BY <2>1
<1>10. PICK base : base = Plus(nxt, n)
  OBVIOUS
<1>11. Window(rest, base, w)
  <2>1. n \in 0 .. w /\ w - n <= w
    BY <1>4
  <2>2. \A i \in 1 .. Len(rest) : n <= Off(rest[i].sn, nxt)
    BY <1>8, <1>9, Zenon
  <2>3. Window(rest, base, w - n)
    BY <1>8, <1>10, <2>1, <2>2, WindowMove
  <2>4. w \in 0 .. Half
    BY <1>2, SetupIs, Modular
  <2>. QED
    BY <2>1, <2>3, <2>4, WindowWiden
<1>12. MoveReady(k) = [k EXCEPT !.rcv_buf = rest, !.rcv_queue = more, !.rcv_nxt = base]
  BY <1>4, <1>7, <1>10, Zenon
<1>13. Len(more) <= setup.rcv_wnd
  BY <1>2, <1>4
<1>14. Window(rest, base, setup.rcv_wnd)
  BY <1>2, <1>11, Zenon
<1>15. [k EXCEPT !.rcv_buf = rest, !.rcv_queue = more, !.rcv_nxt = base] \in Kept
  BY <1>13, <1>14, ReceiverChanged
<1>. QED
  BY <1>12, <1>15, Zenon

(* A segment that is pushed is dropped, or it is acknowledged and was      *)
(* received before, or it is acknowledged and put in rcv_buf.              *)
LEMMA ParsePushIs ==
  ASSUME setup \in Setups, NEW k \in Kept, NEW seg \in Segment
  PROVE  \/ ParsePush(k, seg) = k
         \/ \E acked \in Kept :
              /\ acked = [k EXCEPT !.acklist = Append(k.acklist, seg.sn)]
              /\ \/ ParsePush(k, seg) = acked /\ Diff(seg.sn, k.rcv_nxt) < 0
                 \/ \E j \in Kept, stored \in Stored :
                      /\ ~ (Diff(seg.sn, k.rcv_nxt) < 0) /\ stored.sn = seg.sn
                      /\ j = [acked EXCEPT !.rcv_buf = Insert(k.rcv_buf, stored)]
                      /\ ParsePush(k, seg) = MoveReady(j)
<1> DEFINE acked == [k EXCEPT !.acklist = Append(@, seg.sn)]
           stored == [sn |-> seg.sn, frg |-> seg.frg, data |-> seg.data]
<1>1. stored \in Stored /\ seg.sn \in Num /\ stored.sn = seg.sn
  BY DEF Segment, Stored
<1>2. k \in Block /\ k.acklist \in Seq(Num) /\ k.rmt_wnd \in Nat /\ k.probe \in SUBSET {"send", "tell"}
      /\ k.probe_wait \in BOOLEAN /\ k.rcv_nxt \in Num /\ k.rcv_queue \in Seq(Fragment)
  BY BlockIs
<1>3. acked \in Kept /\ acked.rcv_nxt = k.rcv_nxt /\ acked.rcv_buf = k.rcv_buf /\ acked.rcv_queue = k.rcv_queue
  <2>0. PICK old \in Seq(Num), sn \in Num : old = k.acklist /\ sn = seg.sn
    BY <1>1, <1>2
  <2>1. PICK acks \in Seq(Num) : acks = Append(k.acklist, seg.sn)
    <3>1. Append(old, sn) \in Seq(Num)
      OBVIOUS
    <3>. QED
      BY <2>0, <3>1
  <2>2. [k EXCEPT !.rmt_wnd = k.rmt_wnd, !.probe = k.probe, !.probe_wait = k.probe_wait, !.acklist = acks] \in Kept
    BY <1>2, WordsChanged
  <2>3. acked = [k EXCEPT !.acklist = acks]
    BY <2>1
  <2>. QED
    BY <1>2, <2>2, <2>3 DEF Block
<1> HIDE DEF acked, stored
<1>4. PICK nxt \in Num, w \in Nat, sn \in Num :
        nxt = k.rcv_nxt /\ w = setup.rcv_wnd /\ sn = seg.sn /\ w <= Half
  BY <1>1, <1>2, SetupIs
<1>5. CASE Diff(sn, Plus(nxt, w)) >= 0 \/ Diff(sn, nxt) < 0
  <2>1. ParsePush(k, seg) = k \/ (ParsePush(k, seg) = acked /\ Diff(seg.sn, k.rcv_nxt) < 0)
    BY <1>4, <1>5, Zenon DEF ParsePush, acked
  <2>. QED
    BY <1>3, <2>1, Zenon DEF acked
<1>6. CASE ~ (Diff(sn, Plus(nxt, w)) >= 0) /\ ~ (Diff(sn, nxt) < 0)
  <2>1. PICK buf : buf = Insert(k.rcv_buf, stored)
    OBVIOUS
  <2>2. Off(sn, nxt) < w
    <3>1. PICK x \in Nat : x = Off(sn, nxt) /\ x < Modulus
      <4>1. Off(sn, nxt) \in Num
        BY NumIs, Zenon
      <4>. QED
        BY <4>1, Modular DEF Num
    <3>2. w \in 0 .. Modulus
      BY <1>4, Modular
    <3>3. Plus(nxt, w) \in Num
      BY <3>2, NumIs, Zenon
    <3>4. PICK y \in Int, z \in Int : y = Diff(sn, Plus(nxt, w)) /\ z = Diff(sn, nxt)
      BY <3>3, NumIs
    <3>5. x < Half
      <4>1. z = IF x < Half THEN x ELSE x - Modulus
        BY <3>1, <3>4, NumIs, Zenon
      <4>. QED
        BY <1>6, <3>1, <3>4, <4>1, Modular
    <3>6. ASSUME w <= x
          PROVE  FALSE
      <4>1. w \in 0 .. Off(sn, nxt)
        BY <3>1, <3>6
      <4>2. \A n \in 0 .. Off(sn, nxt) : Off(sn, Plus(nxt, n)) = Off(sn, nxt) - n
        BY Distances
      <4>3. Off(sn, Plus(nxt, w)) = x - w
        BY <3>1, <4>1, <4>2, Zenon
      <4>4. PICK o \in Nat : o = x - w /\ o < Half
        <5>1. x - w \in Nat /\ x - w < Half
          BY <3>5, <3>6, HalfIs
        <5>. QED
          BY <5>1
      <4>5. PICK v \in Num : v = Plus(nxt, w)
        BY <3>3
      <4>6. Diff(sn, v) = IF Off(sn, v) < Half THEN Off(sn, v) ELSE Off(sn, v) - Modulus
        BY NumIs
      <4>7. Off(sn, v) = o
        BY <4>3, <4>4, <4>5
      <4>8. y = o
        BY <3>4, <4>4, <4>5, <4>6, <4>7
      <4>. QED
        BY <1>6, <3>4, <4>8
    <3>. QED
      BY <3>1, <3>6
  <2>3. Window(k.rcv_buf, nxt, w) /\ Len(k.rcv_queue) <= setup.rcv_wnd
    BY <1>4, BlockIs, Zenon DEF RecvOK
  <2>4. Window(buf, nxt, setup.rcv_wnd)
    BY <1>1, <1>4, <2>1, <2>2, <2>3, WindowInsert
  <2>5. PICK j \in Kept : j = [acked EXCEPT !.rcv_buf = buf, !.rcv_queue = k.rcv_queue, !.rcv_nxt = nxt]
    BY <1>2, <1>3, <2>3, <2>4, ReceiverChanged
  <2>6. j = [acked EXCEPT !.rcv_buf = buf]
    <3>1. acked \in Block
      BY <1>3, BlockIs
    <3>. QED
      BY <1>3, <1>4, <2>5, <3>1 DEF Block
  <2>7. [acked EXCEPT !.rcv_buf = Insert(@, stored)] = [acked EXCEPT !.rcv_buf = buf]
    BY <1>3, <2>1
  <2>8. ParsePush(k, seg) = MoveReady([acked EXCEPT !.rcv_buf = Insert(@, stored)])
    BY <1>4, <1>6, Zenon DEF ParsePush, acked, stored
  <2>9. ParsePush(k, seg) = MoveReady(j)
    BY <2>6, <2>7, <2>8, Zenon
  <2>10. j = [acked EXCEPT !.rcv_buf = Insert(k.rcv_buf, stored)]
    BY <2>1, <2>6, Zenon
  <2>11. ~ (Diff(seg.sn, k.rcv_nxt) < 0)
    BY <1>4, <1>6, Zenon
  <2>. QED
    BY <1>1, <1>3, <2>9, <2>10, <2>11, Zenon DEF acked
<1>. QED
  BY <1>5, <1>6, Zenon

LEMMA ParsePushKeeps ==
  ASSUME setup \in Setups, NEW k \in Kept, NEW seg \in Segment
  PROVE  ParsePush(k, seg) \in Kept
<1>1. \A j \in Kept : MoveReady(j) \in Kept
  BY MoveReadyKeeps
<1>2. CASE ParsePush(k, seg) = k
  BY <1>2
<1>3. CASE ParsePush(k, seg) # k
  <2>1. PICK acked \in Kept :
              /\ acked = [k EXCEPT !.acklist = Append(k.acklist, seg.sn)]
              /\ \/ ParsePush(k, seg) = acked /\ Diff(seg.sn, k.rcv_nxt) < 0
                 \/ \E j \in Kept, stored \in Stored :
                      /\ ~ (Diff(seg.sn, k.rcv_nxt) < 0) /\ stored.sn = seg.sn
                      /\ j = [acked EXCEPT !.rcv_buf = Insert(k.rcv_buf, stored)]
                      /\ ParsePush(k, seg) = MoveReady(j)
    BY <1>3, ParsePushIs
  <2>. QED
    BY <1>1, <2>1, Zenon
<1>. QED
  BY <1>2, <1>3

(* Whatever segment is heard, a block that keeps its windows goes on to.   *)
LEMMA InputSegmentKeeps ==
  ASSUME setup \in Setups, NEW k \in Kept, NEW seg \in Segment
  PROVE  InputSegment(k, seg) \in Kept
<1>1. /\ seg.cmd \in {"ack", "push", "wask", "wins"} /\ seg.wnd \in Nat
  BY DEF Segment
<1>2. PICK j \in Kept : j = [k EXCEPT !.rmt_wnd = seg.wnd]
  <2>1. /\ k \in Block /\ k.probe \in SUBSET {"send", "tell"} /\ k.probe_wait \in BOOLEAN
        /\ k.acklist \in Seq(Num)
    BY BlockIs
  <2>2. [k EXCEPT !.rmt_wnd = seg.wnd, !.probe = k.probe, !.probe_wait = k.probe_wait,
                  !.acklist = k.acklist] \in Kept
    BY <1>1, <2>1, WordsChanged
  <2>. QED
    BY <2>1, <2>2 DEF Block
<1>3. PICK heard \in Kept : heard = ShrinkBuf(ParseUna(j, seg.una))
  BY ParseUnaKeeps, ShrinkBufKeeps
<1>4. heard = ShrinkBuf(ParseUna([k EXCEPT !.rmt_wnd = seg.wnd], seg.una))
  BY <1>2, <1>3
<1>5. CASE seg.cmd = "ack"
  <2>1. InputSegment(k, seg) = ShrinkBuf(ParseAck(heard, seg.sn))
    BY <1>4, <1>5 DEF InputSegment
  <2>. QED
    BY <2>1, ParseAckKeeps, ShrinkBufKeeps
<1>6. CASE seg.cmd = "push"
  <2>1. InputSegment(k, seg) = ParsePush(heard, seg)
    BY <1>4, <1>6 DEF InputSegment
  <2>. QED
    BY <2>1, ParsePushKeeps
<1>7. CASE seg.cmd = "wask"
  <2>1. InputSegment(k, seg) = [heard EXCEPT !.probe = @ \cup {"tell"}]
    BY <1>4, <1>7 DEF InputSegment
  <2>2. /\ heard \in Block /\ heard.probe \in SUBSET {"send", "tell"} /\ heard.probe_wait \in BOOLEAN
        /\ heard.acklist \in Seq(Num) /\ heard.rmt_wnd \in Nat
    BY BlockIs
  <2>3. PICK probe \in SUBSET {"send", "tell"} : probe = heard.probe \cup {"tell"}
    BY <2>2
  <2>4. [heard EXCEPT !.rmt_wnd = heard.rmt_wnd, !.probe = probe, !.probe_wait = heard.probe_wait,
                      !.acklist = heard.acklist] \in Kept
    BY <2>2, WordsChanged
  <2>. QED
    BY <2>1, <2>2, <2>3, <2>4 DEF Block
<1>8. CASE seg.cmd = "wins"
  <2>1. InputSegment(k, seg) = heard
    BY <1>4, <1>8 DEF InputSegment
  <2>. QED
    BY <2>1
<1>. QED
  BY <1>1, <1>5, <1>6, <1>7, <1>8

LEMMA InputDatagramKeeps ==
  ASSUME setup \in Setups, NEW k \in Kept, NEW d \in Datagram
  PROVE  InputDatagram(k, d) \in Kept
<1>1. d \in Seq(Segment)
  BY DEF Datagram
<1>2. \A j \in Kept, y \in Segment : InputSegment(j, y) \in Kept
  BY InputSegmentKeeps
<1>. QED
  BY <1>1, <1>2, InputDatagramIn

LEMMA InputDatagramsKeep ==
  ASSUME setup \in Setups, NEW k \in Kept, NEW s \in Seq(Datagram)
  PROVE  Along(InputDatagram, k, s) \in Kept
<1>1. \A j \in Kept, y \in Datagram : InputDatagram(j, y) \in Kept
  BY InputDatagramKeeps
<1>. QED
  BY <1>1, InputDatagramsIn

---------------------------------------------------------------------------
(* What a flush does to a block, and what it puts out.                     *)
LEMMA ProbeKeeps ==
  ASSUME NEW k \in Kept, NEW due \in BOOLEAN
  PROVE  Probe(k, due) \in Kept
<1>1. /\ k \in Block /\ k.probe \in SUBSET {"send", "tell"} /\ k.acklist \in Seq(Num)
      /\ k.rmt_wnd \in Nat /\ k.probe_wait \in BOOLEAN
  BY BlockIs
<1>2. PICK probe \in SUBSET {"send", "tell"}, wait \in BOOLEAN :
        Probe(k, due) = [k EXCEPT !.probe = probe, !.probe_wait = wait]
  <2>1. CASE k.rmt_wnd # 0
    <3>1. Probe(k, due) = [k EXCEPT !.probe = k.probe, !.probe_wait = FALSE]
      BY <1>1, <2>1 DEF Probe, Block
    <3>. QED
      BY <1>1, <3>1
  <2>2. CASE k.rmt_wnd = 0 /\ ~ k.probe_wait
    <3>1. Probe(k, due) = [k EXCEPT !.probe = k.probe, !.probe_wait = TRUE]
      BY <1>1, <2>2 DEF Probe, Block
    <3>. QED
      BY <1>1, <3>1
  <2>3. CASE k.rmt_wnd = 0 /\ k.probe_wait
    <3>1. PICK p \in SUBSET {"send", "tell"} : p = IF due THEN k.probe \cup {"send"} ELSE k.probe
      BY <1>1
    <3>2. Probe(k, due) = [k EXCEPT !.probe = p, !.probe_wait = k.probe_wait]
      BY <1>1, <2>3, <3>1 DEF Probe, Block
    <3>. QED
      BY <1>1, <3>2
  <2>. QED
    BY <2>1, <2>2, <2>3
<1>3. [k EXCEPT !.rmt_wnd = k.rmt_wnd, !.probe = probe, !.probe_wait = wait, !.acklist = k.acklist] \in Kept
  BY <1>1, WordsChanged
<1>. QED
  BY <1>1, <1>2, <1>3 DEF Block

LEMMA FlushedKeeps ==
  ASSUME NEW k \in Kept
  PROVE  Flushed(k) \in Kept
<1>1. k \in Block /\ k.rmt_wnd \in Nat /\ k.probe_wait \in BOOLEAN
  BY BlockIs
<1>2. [k EXCEPT !.rmt_wnd = k.rmt_wnd, !.probe = {}, !.probe_wait = k.probe_wait, !.acklist = <<>>] \in Kept
  <2>1. PICK none \in SUBSET {"send", "tell"}, acks \in Seq(Num) : none = {} /\ acks = <<>>
    <3>1. {} \in SUBSET {"send", "tell"}
      OBVIOUS
    <3>2. <<>> \in Seq(Num)
      OBVIOUS
    <3>. QED
      BY <3>1, <3>2, Zenon
  <2>2. [k EXCEPT !.rmt_wnd = k.rmt_wnd, !.probe = none, !.probe_wait = k.probe_wait, !.acklist = acks] \in Kept
    BY <1>1, WordsChanged
  <2>. QED
    BY <2>1, <2>2, Zenon
<1>3. Flushed(k) = [k EXCEPT !.acklist = <<>>, !.probe = {}]
  BY DEF Flushed
<1>. QED
  BY <1>1, <1>2, <1>3 DEF Block

(* There is room for what the windows leave over snd_buf, and no more.     *)
LEMMA RoomIs ==
  ASSUME setup \in Setups, NEW k \in Kept
  PROVE  /\ Room(k) \in Nat /\ Room(k) <= Len(k.snd_queue)
         /\ Off(k.snd_nxt, k.snd_una) \in Nat
         /\ Off(k.snd_nxt, k.snd_una) + Room(k) <= setup.snd_wnd
<1>1. PICK una \in Num, nxt \in Num, q \in Nat, w \in Nat, rmt \in Nat :
        /\ una = k.snd_una /\ nxt = k.snd_nxt /\ q = Len(k.snd_queue)
        /\ w = setup.snd_wnd /\ rmt = k.rmt_wnd
  <2>1. k.snd_queue \in Seq(Fragment) /\ k.snd_una \in Num /\ k.snd_nxt \in Num /\ k.rmt_wnd \in Nat
    BY BlockIs
  <2>2. Len(k.snd_queue) \in Nat /\ setup.snd_wnd \in Nat
    BY <2>1, SetupIs
  <2>. QED
    BY <2>1, <2>2
<1>2. PICK c \in Nat : c = Least(w, rmt) /\ c <= w
  BY DEF Least
<1>3. PICK o \in Nat : o = Off(nxt, una) /\ o <= w
  <2>1. Off(nxt, una) \in Num
    BY NumIs, Zenon
  <2>2. Off(nxt, una) <= w
    BY <1>1, BlockIs, Zenon DEF SendOK
  <2>. QED
    BY <2>1, <2>2, Modular DEF Num
<1>4. w < Half /\ Half \in Nat /\ Half <= Modulus /\ Modulus \in Nat
  BY <1>1, SetupIs, Modular
<1>5. PICK lim \in Num : lim = Plus(una, c) /\ Off(lim, una) = c
  <2>1. c \in Num /\ c \in 0 .. Modulus
    BY <1>2, <1>4 DEF Num
  <2>2. Plus(una, c) \in Num
    BY <2>1, NumIs, Zenon
  <2>3. Off(Plus(una, c), una) = c
    BY <2>1, Distances, Zenon
  <2>. QED
    BY <2>2, <2>3
<1>6. Diff(nxt, lim) = o - c
  <2>1. \A x, y \in Num : Off(x, una) - Off(y, una) < Half /\ Off(y, una) - Off(x, una) <= Half =>
                            Diff(x, y) = Off(x, una) - Off(y, una)
    BY Distances
  <2>2. Off(nxt, una) - Off(lim, una) < Half /\ Off(lim, una) - Off(nxt, una) <= Half
    BY <1>2, <1>3, <1>4, <1>5
  <2>3. Diff(nxt, lim) = Off(nxt, una) - Off(lim, una)
    BY <2>1, <2>2, Zenon
  <2>. QED
    BY <1>3, <1>5, <2>3
<1>7. Room(k) = IF - Diff(nxt, lim) < 0 THEN 0 ELSE Least(- Diff(nxt, lim), q)
  BY <1>1, <1>2, <1>5, Zenon DEF Room
<1>8. Room(k) \in Nat /\ Room(k) <= q /\ o + Room(k) <= w
  BY <1>2, <1>3, <1>6, <1>7 DEF Least
<1>. QED
  BY <1>1, <1>3, <1>8

(* New segments take the numbers from snd_nxt on, within the window.       *)
LEMMA MoveNewKeeps ==
  ASSUME setup \in Setups, NEW k \in Kept, NEW n \in 0 .. Room(k)
  PROVE  MoveNew(k, n) \in Kept
<1>1. PICK una \in Num, nxt \in Num, buf \in Seq(Stored), queue \in Seq(Fragment), w \in Nat :
        /\ una = k.snd_una /\ nxt = k.snd_nxt /\ buf = k.snd_buf /\ queue = k.snd_queue
        /\ w = setup.snd_wnd
  <2>1. k.snd_una \in Num /\ k.snd_nxt \in Num /\ k.snd_buf \in Seq(Stored) /\ k.snd_queue \in Seq(Fragment)
    BY BlockIs
  <2>2. setup.snd_wnd \in Nat
    BY SetupIs
  <2>. QED
    BY <2>1, <2>2
<1>2. PICK o \in Nat : o = Off(nxt, una) /\ o + n <= w /\ n \in 0 .. Len(queue) /\ n \in Nat
  <2>1. PICK r \in Nat : r = Room(k) /\ r <= Len(queue) /\ Off(nxt, una) + r <= w
    BY <1>1, RoomIs
  <2>2. Off(nxt, una) \in Nat
    BY <1>1, RoomIs
  <2>. QED
    BY <2>1, <2>2
<1>3. w < Half /\ Half \in Nat /\ Half <= Modulus /\ Modulus \in Nat
  BY <1>1, SetupIs, Modular
<1> DEFINE added == [i \in 1 .. n |-> [sn |-> Plus(nxt, i - 1), frg |-> queue[i].frg, data |-> queue[i].data]]
<1>4. PICK new \in Seq(Stored) : new = added /\ Len(new) = n /\ \A i \in 1 .. n : new[i].sn = Plus(nxt, i - 1)
  <2>1. ASSUME NEW i \in 1 .. n
        PROVE  [sn |-> Plus(nxt, i - 1), frg |-> queue[i].frg, data |-> queue[i].data] \in Stored
    <3>1. i - 1 \in 0 .. Modulus
      BY <1>2, <1>3
    <3>2. Plus(nxt, i - 1) \in Num
      BY <3>1, NumIs, Zenon
    <3>3. i \in 1 .. Len(queue)
      BY <1>2
    <3>4. queue[i] \in Fragment
      BY <3>3
    <3>. QED
      BY <3>2, <3>4 DEF Fragment, Stored
  <2>2. added \in [1 .. n -> Stored]
    BY <2>1
  <2>3. \A i \in 1 .. n : added[i].sn = Plus(nxt, i - 1)
    OBVIOUS
  <2> HIDE DEF added
  <2>4. added \in Seq(Stored) /\ Len(added) = n
    BY <1>2, <2>2
  <2>. QED
    BY <2>3, <2>4
<1>5. Window(buf, una, Off(nxt, una))
  BY <1>1, BlockIs, Zenon DEF SendOK
<1>6. PICK more : more = buf \o new
  OBVIOUS
<1>7. Window(more, una, o + n) /\ Off(Plus(nxt, n), una) = o + n
  <2>1. Off(nxt, una) + Len(new) < Half
    BY <1>2, <1>3, <1>4
  <2>2. \A i \in 1 .. Len(new) : new[i].sn = Plus(nxt, i - 1)
    BY <1>4, Zenon
  <2>3. /\ Window(buf \o new, una, Off(nxt, una) + Len(new))
        /\ Off(Plus(nxt, Len(new)), una) = Off(nxt, una) + Len(new)
    BY <1>5, <2>1, <2>2, WindowAppend
  <2>. QED
    BY <1>2, <1>4, <1>6, <2>3, Zenon
<1>8. PICK last \in Num : last = Plus(nxt, n)
  <2>1. n \in 0 .. Modulus
    BY <1>2, <1>3
  <2>. QED
    BY <2>1, NumIs, Zenon
<1>9. PICK left \in Seq(Fragment) : left = SubSeq(queue, n + 1, Len(queue))
  <2>1. Len(queue) \in 0 .. Len(queue) /\ n \in 0 .. Len(queue)
    BY <1>2
  <2>2. SubSeq(queue, n + 1, Len(queue)) \in Seq(Fragment)
    BY <2>1, SubSeqIs
  <2>. QED
    BY <2>2
<1>10. [k EXCEPT !.snd_una = una, !.snd_nxt = last, !.snd_queue = left, !.snd_buf = more] \in Kept
  <2>1. Window(more, una, Off(last, una)) /\ Off(last, una) <= setup.snd_wnd
    BY <1>1, <1>2, <1>7, <1>8
  <2>. QED
    BY <2>1, SenderChanged
<1>11. MoveNew(k, n) = [k EXCEPT !.snd_queue = left, !.snd_buf = more, !.snd_nxt = last]
  <2>1. /\ k.snd_queue = queue /\ k.snd_buf = buf /\ k.snd_nxt = nxt /\ buf \o added = more
    BY <1>1, <1>4, <1>6
  <2>. QED
    BY <1>8, <1>9, <2>1, Zenon DEF MoveNew, added
<1> HIDE DEF added
<1>12. k \in Block /\ k.snd_una = una
  BY <1>1, BlockIs
<1>13. MoveNew(k, n) =
         [k EXCEPT !.snd_una = una, !.snd_nxt = last, !.snd_queue = left, !.snd_buf = more]
  BY <1>11, <1>12 DEF Block
<1>. QED
  BY <1>10, <1>13, Zenon

(* The numbers of the segments of a buffer.                                *)
Nums(buf) == {buf[i].sn : i \in 1 .. Len(buf)}

(* What an end k says when it has m to send: what it has received, the     *)
(* acknowledgements it owes, and what it keeps to be sent again.           *)
Told(k, m) ==
    {s \in Segment :
       /\ s.una = k.rcv_nxt
       /\ s.cmd = "ack" => \E i \in 1 .. Len(k.acklist) : s.sn = k.acklist[i]
       /\ s.cmd = "push" => s.sn \in Nums(m.snd_buf)}

LEMMA SegmentsSay ==
  ASSUME setup \in Setups, NEW k \in Kept, NEW m \in Kept, NEW again
  PROVE  Segments(k, m, again) \in Seq(Told(k, m))
<1> DEFINE seg(cmd, s) == [cmd |-> cmd, sn |-> s.sn, frg |-> s.frg, data |-> s.data,
                           una |-> k.rcv_nxt, wnd |-> WndUnused(k)]
           bare(sn) == [sn |-> sn, frg |-> 0, data |-> <<>>]
           pushed == Pushed(m.snd_buf, k, again)
           T == Told(k, m)
<1>1. k.acklist \in Seq(Num) /\ k.rcv_nxt \in Num /\ k.rcv_queue \in Seq(Fragment) /\ m.snd_buf \in Seq(Stored)
  BY BlockIs
<1>2. WndUnused(k) \in Nat
  BY <1>1, SetupIs DEF WndUnused
<1>3. ASSUME NEW cmd \in {"ack", "push", "wask", "wins"}, NEW s \in Stored,
             cmd = "ack" => \E i \in 1 .. Len(k.acklist) : s.sn = k.acklist[i],
             cmd = "push" => s.sn \in Nums(m.snd_buf)
      PROVE  seg(cmd, s) \in T
  <2>1. /\ seg(cmd, s) \in Segment /\ seg(cmd, s).una = k.rcv_nxt
        /\ seg(cmd, s).cmd = cmd /\ seg(cmd, s).sn = s.sn
    BY <1>1, <1>2 DEF Stored, Segment
  <2> HIDE DEF seg
  <2>. QED
    BY <1>3, <2>1 DEF Told
<1>4. \A sn \in Num : bare(sn) \in Stored /\ bare(sn).sn = sn
  <2>1. <<>> \in Bytes
    BY SetupIs DEF Bytes
  <2>. QED
    BY <2>1 DEF Stored
<1>5. 0 \in Num
  BY <1>1, Modular DEF Num
<1> HIDE DEF seg, bare, T
<1>6. PICK acks \in Seq(T) : acks = [i \in DOMAIN k.acklist |-> seg("ack", bare(k.acklist[i]))]
  <2>1. PICK l \in Nat : l = Len(k.acklist) /\ DOMAIN k.acklist = 1 .. l
    BY <1>1
  <2>2. \A i \in 1 .. l : k.acklist[i] \in Num
    BY <1>1, <2>1
  <2>3. ASSUME NEW i \in 1 .. l
        PROVE  seg("ack", bare(k.acklist[i])) \in T
    <3>1. bare(k.acklist[i]) \in Stored /\ bare(k.acklist[i]).sn = k.acklist[i]
      BY <1>4, <2>2
    <3>2. \E h \in 1 .. Len(k.acklist) : bare(k.acklist[i]).sn = k.acklist[h]
      BY <2>1, <3>1
    <3>. QED
      BY <1>3, <3>1, <3>2
  <2>4. [i \in 1 .. l |-> seg("ack", bare(k.acklist[i]))] \in [1 .. l -> T]
    BY <2>3
  <2>5. [i \in 1 .. l |-> seg("ack", bare(k.acklist[i]))] \in Seq(T)
    BY <2>1, <2>4
  <2>. QED
    BY <2>1, <2>5
<1>7. PICK ask \in Seq(T) : ask = IF "send" \in k.probe THEN <<seg("wask", bare(0))>> ELSE <<>>
  <2>1. seg("wask", bare(0)) \in T
    BY <1>3, <1>4, <1>5
  <2>2. <<seg("wask", bare(0))>> \in Seq(T)
    BY <2>1
  <2>3. <<>> \in Seq(T)
    OBVIOUS
  <2>. QED
    BY <2>2, <2>3, Zenon
<1>8. PICK tell \in Seq(T) : tell = IF "tell" \in k.probe THEN <<seg("wins", bare(0))>> ELSE <<>>
  <2>1. seg("wins", bare(0)) \in T
    BY <1>3, <1>4, <1>5
  <2>2. <<seg("wins", bare(0))>> \in Seq(T)
    BY <2>1
  <2>3. <<>> \in Seq(T)
    OBVIOUS
  <2>. QED
    BY <2>2, <2>3, Zenon
<1>9. PICK push \in Seq(T) : push = [i \in DOMAIN pushed |-> seg("push", pushed[i])]
  <2> DEFINE S == {x \in Stored : x.sn \in Nums(m.snd_buf)}
  <2>1. PICK p \in Seq(S) : p = pushed
    <3>1. m.snd_buf \in Seq(S)
      <4>1. PICK b \in Seq(Stored), l \in Nat : b = m.snd_buf /\ l = Len(b) /\ b \in [1 .. l -> Stored]
        BY <1>1
      <4>2. \A i \in 1 .. l : b[i] \in S
        <5>1. \A i \in 1 .. l : b[i] \in Stored
          BY <4>1
        <5>2. \A i \in 1 .. l : b[i].sn \in Nums(m.snd_buf)
          BY <4>1, Zenon DEF Nums
        <5>. QED
          BY <5>1, <5>2
      <4> HIDE DEF S
      <4>3. b \in [1 .. l -> S]
        BY <4>1, <4>2
      <4>4. b \in Seq(S)
        BY <4>3
      <4>. QED
        BY <4>1, <4>4
    <3> HIDE DEF S
    <3>. QED
      BY <3>1, PushedIn
  <2>2. PICK l \in Nat : l = Len(p) /\ DOMAIN p = 1 .. l
    BY <2>1
  <2>3. \A i \in 1 .. l : p[i] \in S
    BY <2>1, <2>2
  <2>4. \A i \in 1 .. l : seg("push", p[i]) \in T
    BY <1>3, <2>3
  <2>5. [i \in 1 .. l |-> seg("push", p[i])] \in [1 .. l -> T]
    BY <2>4
  <2>6. [i \in 1 .. l |-> seg("push", p[i])] \in Seq(T)
    BY <2>2, <2>5
  <2>. QED
    BY <2>1, <2>2, <2>6
<1>10. Segments(k, m, again) = ((acks \o ask) \o tell) \o push
  BY <1>6, <1>7, <1>8, <1>9, Zenon DEF Segments, seg, bare
<1>11. PICK s1 \in Seq(T) : s1 = acks \o ask
  BY ConcatIs
<1>12. PICK s2 \in Seq(T) : s2 = s1 \o tell
  BY ConcatIs
<1>13. PICK s3 \in Seq(T) : s3 = s2 \o push
  BY ConcatIs
<1>. QED
  BY <1>10, <1>11, <1>12, <1>13, Zenon DEF T

(* All that a flush puts out are segments.                                 *)
LEMMA SegmentsAre ==
  ASSUME setup \in Setups, NEW k \in Kept, NEW m \in Kept, NEW again
  PROVE  Segments(k, m, again) \in Seq(Segment)
<1>1. Told(k, m) \subseteq Segment
  BY DEF Told
<1>. QED
  BY <1>1, SegmentsSay

---------------------------------------------------------------------------
(* What the user sent is bytes, all together and in fragments.             *)
LEMMA FlattenIn ==
  ASSUME NEW q \in Seq(Seq(Int))
  PROVE  FlattenSeq(q) \in Seq(Int)
<1> DEFINE flatten[i \in 1 .. Len(q)] == IF i = 1 THEN q[i] ELSE flatten[i - 1] \o q[i]
           D == Seq(Int)
<1>1. PICK n \in Nat : n = Len(q)
  OBVIOUS
<1>2. CASE n = 0
  <2>1. FlattenSeq(q) = q
    BY <1>1, <1>2 DEF FlattenSeq
  <2>2. q = <<>>
    BY <1>1, <1>2, EmptySeq
  <2>3. <<>> \in Seq(Int)
    OBVIOUS
  <2>. QED
    BY <2>1, <2>2, <2>3, Zenon
<1>3. CASE n # 0
  <2>1. FlattenSeq(q) = flatten[n]
    BY <1>1, <1>3 DEF FlattenSeq
  <2>2. \A k \in 1 .. n : q[k] \in D
    BY <1>1
  <2>3. \A d \in D, y \in D : d \o y \in D
    OBVIOUS
  <2>4. PICK x \in D : x = <<>>
    BY EmptySeq, Zenon
  <2> HIDE DEF D
  <2> DEFINE F == [k \in Nat |-> [d \in D |->
                     IF k \in 1 .. n THEN IF k = 1 THEN q[k] ELSE d \o q[k] ELSE d]]
  <2>5. F \in [Nat -> [D -> D]]
    BY <2>2, <2>3, Zenon
  <2>6. \A k \in 1 .. n : \A d \in D : F[k][d] = IF k = 1 THEN q[k] ELSE d \o q[k]
    <3>1. \A k \in 1 .. n : k \in Nat
      OBVIOUS
    <3>. QED
      BY <3>1, Zenon
  <2> HIDE DEF F
  <2>7. PICK g : Computes(g, F, x, n, D)
    BY <2>4, <2>5, Recursion
  <2> DEFINE f == [i \in 1 .. n |-> g[i]]
  <2>8. f = [i \in 1 .. Len(q) |-> IF i = 1 THEN q[i] ELSE f[i - 1] \o q[i]]
    <3>1. ASSUME NEW i \in 1 .. n
          PROVE  f[i] = IF i = 1 THEN q[i] ELSE f[i - 1] \o q[i]
      <4>1. i - 1 \in 0 .. n /\ i \in 0 .. n /\ (i # 1 => i - 1 \in 1 .. n)
        OBVIOUS
      <4>2. g[i] = F[i][g[i - 1]] /\ g[i - 1] \in D
        BY <2>7, <4>1, Zenon DEF Computes
      <4>3. g[i] = IF i = 1 THEN q[i] ELSE g[i - 1] \o q[i]
        BY <2>6, <4>2, Zenon
      <4>4. f[i] = g[i] /\ (i # 1 => f[i - 1] = g[i - 1])
        BY <4>1, Zenon
      <4>. QED
        BY <4>3, <4>4, Zenon
    <3>2. f = [i \in 1 .. n |-> f[i]]
      OBVIOUS
    <3> HIDE DEF f
    <3>. QED
      BY <1>1, <3>1, <3>2, Zenon
  <2>9. flatten = [i \in 1 .. Len(q) |-> IF i = 1 THEN q[i] ELSE flatten[i - 1] \o q[i]]
    <3> HIDE DEF f
    <3>. QED
      BY <2>8, Zenon
  <2> HIDE DEF flatten, f
  <2> DEFINE h == [i \in 0 .. n |-> IF i = 0 THEN x ELSE flatten[i]]
  <2>10. \A i \in 1 .. n : h[i] = flatten[i]
    OBVIOUS
  <2>11. h[0] \in D
    BY <2>4
  <2>12. ASSUME NEW i \in 1 .. n, h[i - 1] \in D
         PROVE  h[i] \in D
    <3>1. i \in 1 .. Len(q) /\ (i # 1 => i - 1 \in 1 .. n)
      BY <1>1
    <3>2. h[i] = flatten[i] /\ (i # 1 => h[i - 1] = flatten[i - 1])
      BY <2>10, <3>1, Zenon
    <3>3. flatten[i] = IF i = 1 THEN q[i] ELSE flatten[i - 1] \o q[i]
      BY <2>9, <3>1, Zenon
    <3> HIDE DEF h
    <3>. QED
      BY <2>2, <2>3, <2>12, <3>2, <3>3, Zenon
  <2> HIDE DEF h
  <2>13. \A i \in 0 .. n : h[i] \in D
    BY <2>11, <2>12, StaysIn
  <2>14. n \in 0 .. n /\ n \in 1 .. n
    BY <1>3
  <2>. QED
    BY <2>1, <2>10, <2>13, <2>14, Zenon DEF D
<1>. QED
  BY <1>2, <1>3

(* Fragments are no longer than a segment may be.                          *)
LEMMA FragmentsAre ==
  ASSUME setup \in Setups, NEW data \in Seq(Int)
  PROVE  Fragments(data) \in Seq(Fragment)
<1>1. PICK l \in Nat, m \in Nat \ {0} : l = Len(data) /\ m = mss
  BY SetupIs
<1>2. PICK c \in Nat \ {0} : /\ c = FragmentCount(l)
                             /\ \A i \in 1 .. c : (i - 1) * m <= l
  <2>1. FragmentCount(l) = IF l <= m THEN 1 ELSE ((l + m) - 1) \div m
    BY <1>1 DEF FragmentCount
  <2>2. CASE l <= m
    <3>1. \A i \in 1 .. 1 : (i - 1) * m <= l
      OBVIOUS
    <3>. QED
      BY <2>1, <2>2, <3>1
  <2>3. CASE ~ (l <= m)
    <3>1. PICK q \in Int, r \in 0 .. m - 1 : q = ((l + m) - 1) \div m /\ (l + m) - 1 = m * q + r
      <4>1. PICK y \in Nat : y = (l + m) - 1
        BY <2>3
      <4>2. y % m \in 0 .. m - 1 /\ y = m * (y \div m) + (y % m) /\ y \div m \in Int
        OBVIOUS
      <4>. QED
        BY <4>1, <4>2
    <3>2. q > 0
      <4>1. CASE q <= 0
        <5>1. PICK y \in Nat : q = - y
          <6>1. - q \in Nat /\ q = - (- q)
            BY <4>1
          <6>. QED
            BY <6>1
        <5>2. m * q = - (m * y) /\ m * y \in Nat
          BY <5>1
        <5>. QED
          BY <2>3, <3>1, <5>2
      <4>. QED
        BY <4>1
    <3>3. ASSUME NEW i \in 1 .. q
          PROVE  (i - 1) * m <= l
      <4>1. PICK y \in Nat, z \in Nat : z = i - 1 /\ q = z + y + 1
        <5>1. i - 1 \in Nat /\ q - i \in Nat /\ q = (i - 1) + (q - i) + 1
          OBVIOUS
        <5>. QED
          BY <5>1
      <4>2. m * q = m * z + m * y + m /\ m * y \in Nat /\ m * z = z * m /\ m * z \in Nat
        BY <4>1
      <4>. QED
        BY <2>3, <3>1, <4>1, <4>2
    <3>. QED
      BY <2>1, <2>3, <3>1, <3>2, <3>3
  <2>. QED
    BY <2>2, <2>3
<1> DEFINE piece(i) == [frg  |-> IF setup.stream THEN 0 ELSE c - i,
                        data |-> SubSeq(data, (i - 1) * m + 1, Least(i * m, l))]
<1>3. ASSUME NEW i \in 1 .. c
      PROVE  piece(i) \in Fragment
  <2>1. PICK a \in Nat, z \in Nat : a = (i - 1) * m /\ z = i * m /\ z = a + m /\ a <= l
    <3>1. PICK y \in Nat : y = i - 1
      OBVIOUS
    <3>2. i * m = y * m + m /\ y * m \in Nat
      BY <3>1
    <3>3. y * m <= l
      BY <1>2, <3>1
    <3>. QED
      BY <3>1, <3>2, <3>3
  <2>2. PICK b \in 0 .. Len(data) : b = Least(z, l) /\ a <= b /\ b - a <= m
    BY <1>1, <2>1 DEF Least
  <2>3. a \in 0 .. b
    BY <2>2
  <2>4. SubSeq(data, a + 1, b) \in Seq(Int) /\ Len(SubSeq(data, a + 1, b)) = b - a
    BY <2>3, SubSeqIs
  <2>5. SubSeq(data, a + 1, b) \in Bytes
    BY <1>1, <2>2, <2>4 DEF Bytes
  <2>6. piece(i) = [frg |-> IF setup.stream THEN 0 ELSE c - i, data |-> SubSeq(data, a + 1, b)]
    BY <2>1, <2>2, Zenon
  <2> HIDE DEF piece
  <2>7. (IF setup.stream THEN 0 ELSE c - i) \in Int
    OBVIOUS
  <2>. QED
    BY <2>5, <2>6, <2>7 DEF Fragment
<1>4. Fragments(data) = [i \in 1 .. c |-> piece(i)]
  BY <1>1, <1>2, Zenon DEF Fragments
<1> HIDE DEF piece
<1>5. [i \in 1 .. c |-> piece(i)] \in [1 .. c -> Fragment]
  BY <1>3
<1>. QED
  BY <1>4, <1>5

(* The last segment that waits is filled up, and not beyond what it holds. *)
LEMMA ExtendedIs ==
  ASSUME setup \in Setups, NEW queue \in Seq(Fragment), NEW data \in Seq(Int)
  PROVE  /\ Extended(queue, data) \in 0 .. Len(data)
         /\ SubSeq(data, 1, Extended(queue, data)) \in Seq(Int)
         /\ SubSeq(data, Extended(queue, data) + 1, Len(data)) \in Seq(Int)
         /\ ExtendLast(queue, SubSeq(data, 1, Extended(queue, data))) \in Seq(Fragment)
<1>1. PICK l \in Nat, m \in Nat \ {0} : l = Len(data) /\ m = mss
  BY SetupIs
<1>2. CASE ~ (setup.stream /\ queue # <<>>)
  <2>1. PICK n \in 0 .. l : n = Extended(queue, data) /\ n = 0
    BY <1>2 DEF Extended
  <2>2. PICK b \in 0 .. Len(data) : b = Len(data) /\ n \in 0 .. b
    BY <1>1
  <2>3. SubSeq(data, n + 1, b) \in Seq(Int)
    BY <2>2, SubSeqIs
  <2>4. n \in 0 .. Len(data) /\ 0 \in 0 .. n /\ 0 + 1 = 1 /\ n - 0 = 0
    BY <2>1, <2>2
  <2>5. SubSeq(data, 0 + 1, n) \in Seq(Int) /\ Len(SubSeq(data, 0 + 1, n)) = n - 0
    BY <2>4, SubSeqIs
  <2>6. ExtendLast(queue, SubSeq(data, 1, n)) = queue
    BY <2>4, <2>5 DEF ExtendLast
  <2>. QED
    BY <1>1, <2>1, <2>2, <2>3, <2>4, <2>5, <2>6
<1>3. CASE setup.stream /\ queue # <<>>
  <2>1. PICK k \in Nat \ {0} : k = Len(queue)
    BY <1>3, EmptySeq
  <2>2. Last(queue) = queue[k] /\ Front(queue) = SubSeq(queue, 1, k - 1)
    BY <2>1 DEF Last, Front
  <2>3. PICK last \in Seq(Int), x \in Nat : last = Last(queue).data /\ x = Len(last) /\ x <= m
    <3>1. queue[k] \in Fragment
      BY <2>1
    <3>2. queue[k].data \in Bytes
      BY <3>1 DEF Fragment
    <3>. QED
      BY <1>1, <2>2, <3>2 DEF Bytes
  <2>4. PICK n \in 0 .. l : n = Extended(queue, data) /\ n + x <= m
    <3>1. Extended(queue, data) = Least(l, m - x)
      BY <1>1, <1>3, <2>3 DEF Extended
    <3>0. m - x \in Nat
      BY <2>3
    <3>2. PICK y \in Nat : y = m - x
      BY <3>0
    <3>3. Least(l, y) \in 0 .. l /\ Least(l, y) <= y
      BY DEF Least
    <3>. QED
      BY <2>3, <3>1, <3>2, <3>3
  <2>5. PICK b \in 0 .. Len(data) : b = Len(data) /\ n \in 0 .. b
    BY <1>1
  <2>6. SubSeq(data, n + 1, b) \in Seq(Int)
    BY <2>5, SubSeqIs
  <2>7. n \in 0 .. Len(data) /\ 0 \in 0 .. n /\ 0 + 1 = 1 /\ n - 0 = n
    BY <2>5
  <2>8. PICK d \in Seq(Int) : d = SubSeq(data, 1, n) /\ Len(d) = n
    <3>1. SubSeq(data, 0 + 1, n) \in Seq(Int) /\ Len(SubSeq(data, 0 + 1, n)) = n - 0
      BY <2>7, SubSeqIs
    <3>. QED
      BY <2>7, <3>1
  <2>9. PICK front \in Seq(Fragment) : front = Front(queue)
    <3>1. k \in 1 .. Len(queue) + 1
      BY <2>1
    <3>2. SubSeq(queue, 1, k - 1) \in Seq(Fragment)
      BY <3>1, FrontIs
    <3>. QED
      BY <2>2, <3>2
  <2>10. PICK filled \in Fragment : filled = [frg |-> 0, data |-> last \o d]
    <3>1. last \o d \in Seq(Int) /\ Len(last \o d) = Len(last) + Len(d)
      BY ConcatIs, Zenon
    <3>2. Len(last \o d) <= mss
      BY <1>1, <2>3, <2>4, <2>8, <3>1
    <3>3. PICK bytes \in Bytes : bytes = last \o d
      BY <3>1, <3>2 DEF Bytes
    <3>4. [frg |-> 0, data |-> bytes] \in Fragment
      BY DEF Fragment
    <3>. QED
      BY <3>3, <3>4, Zenon
  <2>11. Append(front, filled) \in Seq(Fragment)
    OBVIOUS
  <2>12. ExtendLast(queue, d) \in Seq(Fragment)
    <3>1. ExtendLast(queue, d) = IF Len(d) = 0 THEN queue ELSE Append(front, filled)
      BY <2>3, <2>9, <2>10, Zenon DEF ExtendLast
    <3>. QED
      BY <2>11, <3>1
  <2>. QED
    BY <1>1, <2>4, <2>5, <2>6, <2>7, <2>8, <2>12
<1>. QED
  BY <1>2, <1>3

---------------------------------------------------------------------------
(* The inductive invariant: both ends keep their windows, and what is on   *)
(* its way are datagrams, of any segments.                                 *)
IInv ==
    /\ setup \in Setups
    /\ kcp \in [Ends -> Kept]
    /\ net \in [Ends -> SUBSET Datagram]
    /\ calls \in [Ends -> Nat]
    /\ sent \in [Ends -> Seq(Seq(Int))]

LEMMA PeerIs ==
  ASSUME NEW e \in Ends
  PROVE  Peer(e) \in Ends /\ Peer(e) # e
<1>1. \E f \in Ends : f # e
  BY KcpAssumption
<1>. QED
  BY <1>1, Zenon DEF Peer

(* What blocks and datagrams are depends on how the ends were set up only. *)
LEMMA SameSetup ==
  ASSUME setup' = setup
  PROVE  Kept' = Kept /\ Datagram' = Datagram
<1>1. Bytes' = Bytes
  BY DEF Bytes, mss
<1>2. Fragment' = Fragment /\ Stored' = Stored /\ Segment' = Segment
  BY <1>1, Zenon DEF Fragment, Stored, Segment
<1>3. Block' = Block
  BY <1>2, Zenon DEF Block
<1>4. \A k : (SendOK(k)' <=> SendOK(k)) /\ (RecvOK(k)' <=> RecvOK(k))
  BY <1>2, Zenon DEF SendOK, RecvOK, Window
<1>5. Kept' = Kept
  BY <1>3, <1>4, Zenon DEF Kept
<1>6. Datagram' = Datagram
  BY <1>2, Zenon DEF Datagram, Sums, SegSize
<1>. QED
  BY <1>5, <1>6

LEMMA InitKeeps ==
  ASSUME Init
  PROVE  IInv
<1>1. setup \in Setups
  BY DEF Init
<1>2. PICK zero \in Num : zero = 0 /\ zero \in 0 .. Half /\ zero <= setup.snd_wnd /\ zero <= setup.rcv_wnd
  <2>1. 0 \in Num /\ 0 \in 0 .. Half /\ 0 <= setup.snd_wnd /\ 0 <= setup.rcv_wnd
    BY <1>1, SetupIs, Modular DEF Num
  <2>. QED
    BY <2>1
<1>3. PICK none \in Seq(Stored) : none = <<>> /\ Len(none) = 0
  BY EmptySeq, Zenon
<1>4. PICK no \in Seq(Fragment) : no = <<>> /\ Len(no) = 0
  BY EmptySeq, Zenon
<1>5. PICK nothing \in Seq(Num) : nothing = <<>>
  BY EmptySeq, Zenon
<1>6. PICK calm \in SUBSET {"send", "tell"} : calm = {}
  OBVIOUS
<1> DEFINE k == NewKcp(setup)
<1>7. /\ k.snd_una = zero /\ k.snd_nxt = zero /\ k.rcv_nxt = zero /\ k.snd_buf = none
      /\ k.rcv_buf = none /\ k.rcv_queue = no
  BY <1>2, <1>3, <1>4 DEF NewKcp
<1>8. k \in Block
  <2>1. setup.WND_RCV \in Nat
    BY <1>1, SetupIs
  <2>2. k = [snd_una |-> zero, snd_nxt |-> zero, rcv_nxt |-> zero, rmt_wnd |-> setup.WND_RCV,
             probe |-> calm, probe_wait |-> FALSE, acklist |-> nothing,
             snd_queue |-> no, snd_buf |-> none, rcv_buf |-> none, rcv_queue |-> no]
    BY <1>2, <1>3, <1>4, <1>5, <1>6, Zenon DEF NewKcp
  <2> HIDE DEF k
  <2>. QED
    BY <2>1, <2>2 DEF Block
<1> HIDE DEF k
<1>9. Off(zero, zero) = zero
  <2>1. Off(zero, zero) = IF zero < zero THEN (zero - zero) + Modulus ELSE zero - zero
    BY NumIs, Zenon
  <2>. QED
    BY <1>2, <2>1
<1>10. \A n \in 0 .. Half : Window(none, zero, n)
  <2>1. \A i \in 1 .. Len(none) : FALSE
    BY <1>3
  <2>. QED
    BY <2>1, Zenon DEF Window
<1>11. SendOK(k)
  BY <1>2, <1>7, <1>9, <1>10 DEF SendOK
<1>12. RecvOK(k)
  <2>1. setup.rcv_wnd \in 0 .. Half
    BY <1>1, SetupIs, Modular
  <2>2. Len(no) <= setup.rcv_wnd
    BY <1>2, <1>4
  <2>. QED
    BY <1>7, <1>10, <2>1, <2>2, Zenon DEF RecvOK
<1>13. k \in Kept
  BY <1>8, <1>11, <1>12, Zenon DEF Kept
<1>14. kcp \in [Ends -> Kept]
  BY <1>13, Zenon DEF Init, k
<1>15. net \in [Ends -> SUBSET Datagram] /\ calls \in [Ends -> Nat] /\ sent \in [Ends -> Seq(Seq(Int))]
  <2>1. <<>> \in Seq(Seq(Int))
    OBVIOUS
  <2>2. net = [e \in Ends |-> {}] /\ calls = [e \in Ends |-> 0] /\ sent = [e \in Ends |-> <<>>]
    BY DEF Init
  <2>. QED
    BY <2>1, <2>2
<1>. QED
  BY <1>1, <1>14, <1>15, Zenon DEF IInv

LEMMA SendStep ==
  ASSUME IInv, NEW e \in Ends, Send(e)
  PROVE  IInv'
<1> DEFINE queue == kcp[e].snd_queue
           before == Len(FlattenSeq(sent[e]))
           data == [i \in 1 .. setup.lengths[e][calls[e] + 1] |-> before + i]
           n == Extended(queue, data)
           rest == SubSeq(data, n + 1, Len(data))
           fits == ~ TooMany(FragmentCount(Len(rest)))
           more == IF setup.stream /\ rest = <<>> THEN <<>> ELSE Fragments(rest)
           taken == IF fits THEN data ELSE SubSeq(data, 1, n)
<1>1. /\ calls[e] < Len(setup.lengths[e])
      /\ calls' = [calls EXCEPT ![e] = @ + 1]
      /\ kcp' = [kcp EXCEPT ![e].snd_queue =
                   ExtendLast(@, SubSeq(data, 1, n)) \o IF fits THEN more ELSE <<>>]
      /\ sent' = [sent EXCEPT ![e] = IF taken = <<>> THEN @ ELSE Append(@, taken)]
      /\ UNCHANGED <<setup, net, delivered>>
  BY Zenon DEF Send
<1>2. /\ setup \in Setups /\ kcp \in [Ends -> Kept] /\ net \in [Ends -> SUBSET Datagram]
      /\ calls \in [Ends -> Nat] /\ sent \in [Ends -> Seq(Seq(Int))]
  BY DEF IInv
<1>3. PICK k \in Kept, q \in Seq(Fragment) : k = kcp[e] /\ q = queue /\ q = k.snd_queue
  <2>1. kcp[e] \in Kept
    BY <1>2
  <2>. QED
    BY <2>1, BlockIs
<1>4. PICK b \in Nat : b = before
  <2>1. sent[e] \in Seq(Seq(Int))
    BY <1>2
  <2>2. FlattenSeq(sent[e]) \in Seq(Int)
    BY <2>1, FlattenIn
  <2>. QED
    BY <2>2
<1>5. PICK d \in Seq(Int) : d = data
  <2>1. PICK l \in Nat : l = setup.lengths[e][calls[e] + 1]
    <3>1. setup.lengths[e] \in Seq(Nat)
      BY <1>2, SetupIs
    <3>2. PICK c \in Nat : c = calls[e]
      BY <1>2
    <3>3. PICK lens \in Seq(Nat) : lens = setup.lengths[e]
      BY <3>1
    <3>0. c < Len(lens)
      BY <1>1, <3>2, <3>3, Zenon
    <3>4. c + 1 \in 1 .. Len(lens)
      BY <3>0
    <3>5. lens[c + 1] \in Nat
      BY <3>4
    <3>. QED
      BY <3>2, <3>3, <3>5
  <2>2. [i \in 1 .. l |-> b + i] \in [1 .. l -> Int]
    OBVIOUS
  <2>3. [i \in 1 .. l |-> b + i] \in Seq(Int)
    BY <2>2
  <2>4. data = [i \in 1 .. l |-> b + i]
    BY <1>4, <2>1, Zenon
  <2>. QED
    BY <2>3, <2>4
<1> HIDE DEF data, before, queue
<1>6. /\ SubSeq(data, 1, n) \in Seq(Int) /\ rest \in Seq(Int)
      /\ ExtendLast(q, SubSeq(data, 1, n)) \in Seq(Fragment)
  <2>1. /\ SubSeq(d, 1, Extended(q, d)) \in Seq(Int)
        /\ SubSeq(d, Extended(q, d) + 1, Len(d)) \in Seq(Int)
        /\ ExtendLast(q, SubSeq(d, 1, Extended(q, d))) \in Seq(Fragment)
    BY <1>2, ExtendedIs
  <2>. QED
    BY <1>3, <1>5, <2>1, Zenon
<1> HIDE DEF n, rest, fits
<1>7. PICK tail \in Seq(Fragment) : tail = IF fits THEN more ELSE <<>>
  <2>1. Fragments(rest) \in Seq(Fragment)
    BY <1>2, <1>6, FragmentsAre
  <2>2. <<>> \in Seq(Fragment)
    BY EmptySeq, Zenon
  <2>. QED
    BY <2>1, <2>2, Zenon
<1>8. taken \in Seq(Int)
  BY <1>5, <1>6, Zenon
<1> HIDE DEF more, taken
<1>9. PICK new \in Seq(Fragment) : new = ExtendLast(q, SubSeq(data, 1, n)) \o tail
  BY <1>6, ConcatIs
<1>10. [k EXCEPT !.snd_queue = new] \in Kept
  <2>1. /\ k \in Block /\ k.snd_una \in Num /\ k.snd_nxt \in Num /\ k.snd_buf \in Seq(Stored)
        /\ SendOK(k)
    BY BlockIs
  <2>2. [k EXCEPT !.snd_una = k.snd_una, !.snd_nxt = k.snd_nxt, !.snd_queue = new, !.snd_buf = k.snd_buf] \in Kept
    BY <2>1, SenderChanged DEF SendOK
  <2>. QED
    BY <2>1, <2>2 DEF Block
<1>11. kcp' \in [Ends -> Kept]
  <2>1. kcp' = [kcp EXCEPT ![e] = [k EXCEPT !.snd_queue = new]]
    <3>1. kcp[e].snd_queue = q
      BY <1>3
    <3>2. kcp' = [kcp EXCEPT ![e].snd_queue = ExtendLast(@, SubSeq(data, 1, n)) \o tail]
      BY <1>1, <1>7, Zenon
    <3>. QED
      BY <1>2, <1>3, <1>9, <3>1, <3>2
  <2>. QED
    BY <1>2, <1>10, <2>1
<1>12. sent' \in [Ends -> Seq(Seq(Int))]
  <2>1. PICK s \in Seq(Seq(Int)), t \in Seq(Int) : s = sent[e] /\ t = taken
    BY <1>2, <1>8
  <2>2. (IF t = <<>> THEN s ELSE Append(s, t)) \in Seq(Seq(Int))
    OBVIOUS
  <2>3. sent' = [sent EXCEPT ![e] = IF t = <<>> THEN s ELSE Append(s, t)]
    BY <1>1, <2>1
  <2>. QED
    BY <1>2, <2>2, <2>3
<1>13. calls' \in [Ends -> Nat] /\ net' \in [Ends -> SUBSET Datagram] /\ setup' = setup
  BY <1>1, <1>2
<1>. QED
  BY <1>2, <1>11, <1>12, <1>13, SameSetup DEF IInv

(* What the user takes leaves rest in rcv_queue, and then more may follow. *)
LEMMA RecvIs ==
  ASSUME IInv, NEW e \in Ends, Recv(e)
  PROVE  \E rest \in Seq(Fragment), probe \in SUBSET {"send", "tell"} :
           /\ [kcp[e] EXCEPT !.rcv_queue = rest] \in Kept
           /\ [MoveReady([kcp[e] EXCEPT !.rcv_queue = rest]) EXCEPT !.probe = probe] \in Kept
           /\ kcp' = [kcp EXCEPT ![e] = [MoveReady([kcp[e] EXCEPT !.rcv_queue = rest]) EXCEPT !.probe = probe]]
           /\ UNCHANGED <<setup, net, calls, sent>>
<1>1. /\ setup \in Setups /\ kcp \in [Ends -> Kept] /\ net \in [Ends -> SUBSET Datagram]
      /\ calls \in [Ends -> Nat] /\ sent \in [Ends -> Seq(Seq(Int))]
  BY DEF IInv
<1>2. PICK k \in Kept, q \in Seq(Fragment) : k = kcp[e] /\ q = k.rcv_queue
  <2>1. kcp[e] \in Kept
    BY <1>1
  <2>. QED
    BY <2>1, BlockIs
<1> DEFINE EndsMessage(i) ==
             /\ q[i].frg = 0 \/ i = Len(q)
             /\ \A j \in 1 .. i - 1 : q[j].frg # 0
           n == CHOOSE i \in DOMAIN q : EndsMessage(i)
           left == MoveReady([k EXCEPT !.rcv_queue = SubSeq(@, n + 1, Len(@))])
           recover == Len(q) >= setup.rcv_wnd /\ Len(left.rcv_queue) < setup.rcv_wnd
<1>3. /\ WholeMessage(q)
      /\ kcp' = [kcp EXCEPT ![e] = [left EXCEPT !.probe = @ \cup IF recover THEN {"tell"} ELSE {}]]
      /\ UNCHANGED <<setup, net, calls, sent>>
  BY <1>2, Zenon DEF Recv
<1>4. PICK l \in Nat \ {0} : l = Len(q) /\ DOMAIN q = 1 .. l
  <2>1. q # <<>>
    BY <1>3 DEF WholeMessage
  <2>. QED
    BY <2>1, EmptySeq
<1>5. PICK m \in 1 .. l : m = n
  <2> DEFINE S == {i \in 1 .. l : q[i].frg = 0 \/ i = l}
  <2>1. S \in SUBSET Nat /\ S # {}
    <3>1. l \in S
      OBVIOUS
    <3>. QED
      BY <3>1
  <2> HIDE DEF S
  <2>2. PICK i \in S : \A j \in S : i <= j
    BY <2>1, LeastOne
  <2>3. i \in 1 .. l /\ (q[i].frg = 0 \/ i = l)
    BY DEF S
  <2>4. \A j \in 1 .. i - 1 : q[j].frg # 0
    <3>1. ASSUME NEW j \in 1 .. i - 1, q[j].frg = 0
          PROVE  FALSE
      <4>1. j \in 1 .. l /\ ~ (i <= j)
        BY <2>3
      <4>2. j \in S
        BY <3>1, <4>1 DEF S
      <4>. QED
        BY <2>2, <4>1, <4>2
    <3>. QED
      BY <3>1
  <2>5. i \in DOMAIN q /\ EndsMessage(i)
    BY <1>4, <2>3, <2>4
  <2> HIDE DEF EndsMessage
  <2>6. n \in DOMAIN q
    BY <2>5, Zenon
  <2>. QED
    BY <1>4, <2>6
<1> HIDE DEF n
<1>6. PICK rest \in Seq(Fragment) : rest = SubSeq(q, n + 1, Len(q)) /\ Len(rest) <= setup.rcv_wnd
  <2>1. PICK b \in 0 .. Len(q) : b = Len(q) /\ m \in 0 .. b
    BY <1>4, <1>5
  <2>2. SubSeq(q, m + 1, b) \in Seq(Fragment) /\ Len(SubSeq(q, m + 1, b)) = b - m
    BY <2>1, SubSeqIs
  <2>3. Len(q) <= setup.rcv_wnd
    BY <1>2, BlockIs, Zenon DEF RecvOK
  <2>4. Len(SubSeq(q, m + 1, b)) <= setup.rcv_wnd
    BY <1>1, <1>4, <2>1, <2>2, <2>3, SetupIs
  <2>. QED
    BY <1>5, <2>1, <2>2, <2>4
<1>7. [k EXCEPT !.rcv_queue = rest] \in Kept
  <2>1. k \in Block /\ RecvOK(k)
    BY BlockIs
  <2>2. Window(k.rcv_buf, k.rcv_nxt, setup.rcv_wnd)
    BY <2>1, Zenon DEF RecvOK
  <2>3. [k EXCEPT !.rcv_buf = k.rcv_buf, !.rcv_queue = rest, !.rcv_nxt = k.rcv_nxt] \in Kept
    BY <1>6, <2>2, ReceiverChanged
  <2>. QED
    BY <2>1, <2>3 DEF Block
<1>8. PICK j \in Kept : j = left /\ j = MoveReady([k EXCEPT !.rcv_queue = rest])
  <2>1. [k EXCEPT !.rcv_queue = SubSeq(@, n + 1, Len(@))] = [k EXCEPT !.rcv_queue = rest]
    BY <1>2, <1>6
  <2>. QED
    BY <1>1, <1>7, <2>1, MoveReadyKeeps
<1> HIDE DEF left, recover
<1>9. PICK probe \in SUBSET {"send", "tell"} :
        /\ [left EXCEPT !.probe = @ \cup IF recover THEN {"tell"} ELSE {}] = [j EXCEPT !.probe = probe]
        /\ [j EXCEPT !.probe = probe] \in Kept
  <2>1. /\ j \in Block /\ j.rmt_wnd \in Nat /\ j.probe \in SUBSET {"send", "tell"}
        /\ j.probe_wait \in BOOLEAN /\ j.acklist \in Seq(Num)
    BY BlockIs
  <2>2. PICK p \in SUBSET {"send", "tell"} : p = j.probe \cup IF recover THEN {"tell"} ELSE {}
    BY <2>1
  <2>3. [j EXCEPT !.rmt_wnd = j.rmt_wnd, !.probe = p, !.probe_wait = j.probe_wait,
                  !.acklist = j.acklist] \in Kept
    BY <2>1, WordsChanged
  <2>4. [j EXCEPT !.probe = p] \in Kept
    BY <2>1, <2>3 DEF Block
  <2>. QED
    BY <1>8, <2>2, <2>4
<1>10. kcp' = [kcp EXCEPT ![e] = [j EXCEPT !.probe = probe]]
  BY <1>3, <1>9, Zenon
<1>. QED
  BY <1>2, <1>3, <1>6, <1>7, <1>8, <1>9, <1>10, Zenon

LEMMA RecvStep ==
  ASSUME IInv, NEW e \in Ends, Recv(e)
  PROVE  IInv'
<1>1. /\ setup \in Setups /\ kcp \in [Ends -> Kept] /\ net \in [Ends -> SUBSET Datagram]
      /\ calls \in [Ends -> Nat] /\ sent \in [Ends -> Seq(Seq(Int))]
  BY DEF IInv
<1>2. PICK j \in Kept : kcp' = [kcp EXCEPT ![e] = j] /\ UNCHANGED <<setup, net, calls, sent>>
  BY RecvIs, Zenon
<1>3. kcp' \in [Ends -> Kept]
  BY <1>1, <1>2
<1>. QED
  BY <1>1, <1>2, <1>3, SameSetup DEF IInv

LEMMA InputStep ==
  ASSUME IInv, NEW e \in Ends, Input(e) \/ InputRepeated(e)
  PROVE  IInv'
<1>1. /\ setup \in Setups /\ kcp \in [Ends -> Kept] /\ net \in [Ends -> SUBSET Datagram]
      /\ calls \in [Ends -> Nat] /\ sent \in [Ends -> Seq(Seq(Int))]
  BY DEF IInv
<1>2. PICK d \in net[e] : Arrive(e, d) /\ (net' = [net EXCEPT ![e] = @ \ {d}] \/ net' = net)
  BY DEF Input, InputRepeated
<1>3. d \in Datagram /\ kcp[e] \in Kept
  BY <1>1
<1>4. InputDatagram(kcp[e], d) \in Kept
  BY <1>1, <1>3, InputDatagramKeeps
<1>5. kcp' = [kcp EXCEPT ![e] = InputDatagram(kcp[e], d)] /\ setup' = setup /\ calls' = calls /\ sent' = sent
  BY <1>1, <1>2 DEF Arrive
<1>6. kcp' \in [Ends -> Kept]
  BY <1>1, <1>4, <1>5
<1>7. net' \in [Ends -> SUBSET Datagram]
  BY <1>1, <1>2
<1>. QED
  BY <1>1, <1>5, <1>6, <1>7, SameSetup DEF IInv

(* A flush of e: what is said, and what of it and of what was on its way   *)
(* is there afterwards.                                                    *)
LEMMA FlushIs ==
  ASSUME IInv, NEW e \in Ends, Flush(e)
  PROVE  \E due \in BOOLEAN, k \in Kept, m \in Kept : 
           \E n \in 0 .. Room(k), again \in SUBSET SentBefore(kcp[e]) :
             /\ k = Probe(kcp[e], due) /\ m = MoveNew(k, n)
             /\ kcp' = [kcp EXCEPT ![e] = Flushed(m)]
             /\ \E kept \in SUBSET (StillThere(Peer(e), kcp') \cup Range(Packed(Segments(k, m, again)))) :
                  net' = [g \in Ends |-> IF g = Peer(e) THEN kept ELSE StillThere(g, kcp')]
             /\ UNCHANGED <<setup, calls, sent, delivered>>
<1>1. /\ setup \in Setups /\ kcp \in [Ends -> Kept] /\ net \in [Ends -> SUBSET Datagram]
      /\ calls \in [Ends -> Nat] /\ sent \in [Ends -> Seq(Seq(Int))]
  BY DEF IInv
<1>2. kcp[e] \in Kept /\ Peer(e) \in Ends
  BY <1>1, PeerIs
<1>3. kcp[e].probe_wait \in BOOLEAN
  BY <1>2, BlockIs
<1>4. PICK n \in 0 .. Room(kcp[e]), again \in SUBSET SentBefore(kcp[e]),
           due \in {FALSE, kcp[e].probe_wait} :
        LET f == Peer(e)
            k == Probe(kcp[e], due)
            m == MoveNew(k, n)
            out == Range(Packed(Segments(k, m, again)))
        IN  /\ kcp' = [kcp EXCEPT ![e] = Flushed(m)]
            /\ \E kept \in SUBSET (StillThere(f, kcp') \cup out) :
                 /\ Cardinality(kept) <= setup.in_flight[f]
                 /\ StillThere(f, kcp') \subseteq kept \/ Cardinality(kept) = setup.in_flight[f]
                 /\ net' = [g \in Ends |-> IF g = f THEN kept ELSE StillThere(g, kcp')]
            /\ UNCHANGED <<setup, calls, sent, delivered>>
  BY DEF Flush
<1>5. due \in BOOLEAN
  BY <1>3
<1>6. PICK k \in Kept : k = Probe(kcp[e], due)
  BY <1>2, <1>5, ProbeKeeps
<1>7. Room(k) = Room(kcp[e])
  <2>1. kcp[e] \in Block
    BY <1>2, BlockIs
  <2>2. /\ k.snd_una = kcp[e].snd_una /\ k.snd_nxt = kcp[e].snd_nxt
        /\ k.rmt_wnd = kcp[e].rmt_wnd /\ k.snd_queue = kcp[e].snd_queue
    BY <1>6, <2>1 DEF Probe, Block
  <2>. QED
    BY <2>2, Zenon DEF Room
<1>8. PICK m \in Kept : m = MoveNew(k, n)
  <2>1. n \in 0 .. Room(k)
    BY <1>7
  <2>. QED
    BY <1>1, <2>1, MoveNewKeeps
<1>9. PICK out : out = Range(Packed(Segments(k, m, again)))
  OBVIOUS
<1>10. /\ kcp' = [kcp EXCEPT ![e] = Flushed(m)]
       /\ \E kept \in SUBSET (StillThere(Peer(e), kcp') \cup out) :
            net' = [g \in Ends |-> IF g = Peer(e) THEN kept ELSE StillThere(g, kcp')]
       /\ UNCHANGED <<setup, calls, sent, delivered>>
  BY <1>4, <1>6, <1>8, <1>9, Zenon
<1>11. n \in 0 .. Room(k)
  BY <1>7
<1>12. /\ k = Probe(kcp[e], due) /\ m = MoveNew(k, n)
       /\ kcp' = [kcp EXCEPT ![e] = Flushed(m)]
       /\ \E kept \in SUBSET (StillThere(Peer(e), kcp') \cup Range(Packed(Segments(k, m, again)))) :
            net' = [g \in Ends |-> IF g = Peer(e) THEN kept ELSE StillThere(g, kcp')]
       /\ UNCHANGED <<setup, calls, sent, delivered>>
  BY <1>6, <1>8, <1>9, <1>10, Zenon
<1>. QED
  BY <1>5, <1>11, <1>12, Zenon

LEMMA FlushStep ==
  ASSUME IInv, NEW e \in Ends, Flush(e)
  PROVE  IInv'
<1>1. /\ setup \in Setups /\ kcp \in [Ends -> Kept] /\ net \in [Ends -> SUBSET Datagram]
      /\ calls \in [Ends -> Nat] /\ sent \in [Ends -> Seq(Seq(Int))]
  BY DEF IInv
<1>2. PICK due \in BOOLEAN, k \in Kept, m \in Kept : 
           \E n \in 0 .. Room(k), again \in SUBSET SentBefore(kcp[e]) :
             /\ k = Probe(kcp[e], due) /\ m = MoveNew(k, n)
             /\ kcp' = [kcp EXCEPT ![e] = Flushed(m)]
             /\ \E kept \in SUBSET (StillThere(Peer(e), kcp') \cup Range(Packed(Segments(k, m, again)))) :
                  net' = [g \in Ends |-> IF g = Peer(e) THEN kept ELSE StillThere(g, kcp')]
             /\ UNCHANGED <<setup, calls, sent, delivered>>
  BY FlushIs
<1>3. PICK n \in 0 .. Room(k), again \in SUBSET SentBefore(kcp[e]) :
             /\ k = Probe(kcp[e], due) /\ m = MoveNew(k, n)
             /\ kcp' = [kcp EXCEPT ![e] = Flushed(m)]
             /\ \E kept \in SUBSET (StillThere(Peer(e), kcp') \cup Range(Packed(Segments(k, m, again)))) :
                  net' = [g \in Ends |-> IF g = Peer(e) THEN kept ELSE StillThere(g, kcp')]
             /\ UNCHANGED <<setup, calls, sent, delivered>>
  BY <1>2, Zenon
<1>4. PICK out \in SUBSET Datagram : out = Range(Packed(Segments(k, m, again)))
  <2>1. Segments(k, m, again) \in Seq(Segment)
    BY <1>1, SegmentsAre
  <2>2. PICK p \in Seq(Datagram) : p = Packed(Segments(k, m, again))
    BY <1>1, <2>1, PackedIn
  <2>3. Range(p) \in SUBSET Datagram
    BY DEF Range
  <2>. QED
    BY <2>2, <2>3
<1>5. kcp' \in [Ends -> Kept]
  <2>1. Flushed(m) \in Kept
    BY FlushedKeeps
  <2>. QED
    BY <1>1, <1>3, <2>1
<1>6. net' \in [Ends -> SUBSET Datagram]
  <2>1. \A g \in Ends : StillThere(g, kcp') \in SUBSET Datagram
    BY <1>1 DEF StillThere
  <2>2. PICK kept \in SUBSET (StillThere(Peer(e), kcp') \cup Range(Packed(Segments(k, m, again)))) :
          net' = [g \in Ends |-> IF g = Peer(e) THEN kept ELSE StillThere(g, kcp')]
    BY <1>3, Zenon
  <2>3. kept \in SUBSET Datagram
    <3>1. Peer(e) \in Ends
      BY PeerIs
    <3>. QED
      BY <1>4, <2>1, <2>2, <3>1
  <2>. QED
    BY <2>1, <2>2, <2>3, Zenon
<1>. QED
  BY <1>1, <1>3, <1>5, <1>6, SameSetup DEF IInv

(* A round trip from e: what is said, heard and answered.                  *)
LEMMA RoundTripIs ==
  ASSUME IInv, NEW e \in Ends, RoundTrip(e)
  PROVE  \E k \in Kept, m \in Kept, heard \in Kept, p \in Kept, answered \in Kept :
           \E out \in Seq(Datagram), back \in Seq(Datagram) :
             /\ k = Probe(kcp[e], TRUE) /\ m = MoveNew(k, Room(k))
             /\ out = Packed(Segments(k, m, SentBefore(k)))
             /\ heard = Along(InputDatagram, kcp[Peer(e)], out) /\ p = Probe(heard, FALSE)
             /\ back = Packed(Segments(p, p, {}))
             /\ answered = Along(InputDatagram, Flushed(m), back)
             /\ kcp' = [kcp EXCEPT ![e] = answered, ![Peer(e)] = Flushed(p)]
             /\ net' = [g \in Ends |-> StillThere(g, kcp')]
             /\ UNCHANGED <<setup, calls, sent, delivered>>
<1>1. /\ setup \in Setups /\ kcp \in [Ends -> Kept] /\ net \in [Ends -> SUBSET Datagram]
      /\ calls \in [Ends -> Nat] /\ sent \in [Ends -> Seq(Seq(Int))]
  BY DEF IInv
<1>2. kcp[e] \in Kept /\ Peer(e) \in Ends /\ kcp[Peer(e)] \in Kept
  BY <1>1, PeerIs
<1>3. PICK k \in Kept : k = Probe(kcp[e], TRUE)
  BY <1>2, ProbeKeeps
<1>4. PICK m \in Kept : m = MoveNew(k, Room(k))
  <2>1. Room(k) \in 0 .. Room(k)
    BY <1>1, RoomIs
  <2>. QED
    BY <1>1, <2>1, MoveNewKeeps
<1>5. PICK out \in Seq(Datagram) : out = Packed(Segments(k, m, SentBefore(k)))
  <2>1. Segments(k, m, SentBefore(k)) \in Seq(Segment)
    BY <1>1, SegmentsAre
  <2>. QED
    BY <1>1, <2>1, PackedIn
<1>6. PICK heard \in Kept : heard = Along(InputDatagram, kcp[Peer(e)], out)
  BY <1>1, <1>2, InputDatagramsKeep
<1>7. PICK p \in Kept : p = Probe(heard, FALSE)
  BY ProbeKeeps
<1>8. PICK back \in Seq(Datagram) : back = Packed(Segments(p, p, {}))
  <2>1. Segments(p, p, {}) \in Seq(Segment)
    BY <1>1, SegmentsAre
  <2>. QED
    BY <1>1, <2>1, PackedIn
<1>9. Flushed(m) \in Kept /\ Flushed(p) \in Kept
  BY FlushedKeeps
<1>10. PICK answered \in Kept : answered = Along(InputDatagram, Flushed(m), back)
  BY <1>1, <1>9, InputDatagramsKeep
<1>11. AfterRoundTrip(e) = [kcp EXCEPT ![e] = answered, ![Peer(e)] = Flushed(p)]
  BY <1>3, <1>4, <1>5, <1>6, <1>7, <1>8, <1>10, Zenon DEF AfterRoundTrip
<1>12. /\ kcp' = AfterRoundTrip(e) /\ net' = [g \in Ends |-> StillThere(g, kcp')]
       /\ UNCHANGED <<setup, calls, sent, delivered>>
  BY Zenon DEF RoundTrip
<1>13. /\ k = Probe(kcp[e], TRUE) /\ m = MoveNew(k, Room(k))
       /\ out = Packed(Segments(k, m, SentBefore(k)))
       /\ heard = Along(InputDatagram, kcp[Peer(e)], out) /\ p = Probe(heard, FALSE)
       /\ back = Packed(Segments(p, p, {}))
       /\ answered = Along(InputDatagram, Flushed(m), back)
       /\ kcp' = [kcp EXCEPT ![e] = answered, ![Peer(e)] = Flushed(p)]
       /\ net' = [g \in Ends |-> StillThere(g, kcp')]
       /\ UNCHANGED <<setup, calls, sent, delivered>>
  BY <1>3, <1>4, <1>5, <1>6, <1>7, <1>8, <1>10, <1>11, <1>12
<1>. QED
  BY <1>13, Zenon

LEMMA RoundTripStep ==
  ASSUME IInv, NEW e \in Ends, RoundTrip(e)
  PROVE  IInv'
<1>1. /\ setup \in Setups /\ kcp \in [Ends -> Kept] /\ net \in [Ends -> SUBSET Datagram]
      /\ calls \in [Ends -> Nat] /\ sent \in [Ends -> Seq(Seq(Int))]
  BY DEF IInv
<1>2. PICK k \in Kept, m \in Kept, heard \in Kept, p \in Kept, answered \in Kept :
           \E out \in Seq(Datagram), back \in Seq(Datagram) :
             /\ k = Probe(kcp[e], TRUE) /\ m = MoveNew(k, Room(k))
             /\ out = Packed(Segments(k, m, SentBefore(k)))
             /\ heard = Along(InputDatagram, kcp[Peer(e)], out) /\ p = Probe(heard, FALSE)
             /\ back = Packed(Segments(p, p, {}))
             /\ answered = Along(InputDatagram, Flushed(m), back)
             /\ kcp' = [kcp EXCEPT ![e] = answered, ![Peer(e)] = Flushed(p)]
             /\ net' = [g \in Ends |-> StillThere(g, kcp')]
             /\ UNCHANGED <<setup, calls, sent, delivered>>
  BY RoundTripIs
<1>3. kcp' \in [Ends -> Kept]
  <2>1. Flushed(p) \in Kept
    BY FlushedKeeps
  <2>. QED
    BY <1>1, <1>2, <2>1
<1>4. net' \in [Ends -> SUBSET Datagram]
  <2>1. \A g \in Ends : StillThere(g, kcp') \in SUBSET Datagram
    BY <1>1 DEF StillThere
  <2>. QED
    BY <1>2, <2>1, Zenon
<1>. QED
  BY <1>1, <1>2, <1>3, <1>4, SameSetup DEF IInv

(* What the invariant says of the windows.                                 *)
LEMMA KeptSays ==
  ASSUME IInv
  PROVE  WindowsKept
<1>1. setup \in Setups /\ kcp \in [Ends -> Kept] /\ net \in [Ends -> SUBSET Datagram]
  BY DEF IInv
<1>2. ASSUME NEW e \in Ends
      PROVE  /\ Len(kcp[e].rcv_queue) <= setup.rcv_wnd /\ Len(kcp[e].rcv_buf) <= setup.rcv_wnd
             /\ Len(kcp[e].snd_buf) <= setup.snd_wnd
             /\ Ordered(kcp[e].rcv_buf) /\ Ordered(kcp[e].snd_buf)
             /\ \A d \in net[e] : Size(d) <= setup.mtu
  <2>1. PICK k \in Kept : k = kcp[e]
    BY <1>1
  <2>2. /\ Window(k.rcv_buf, k.rcv_nxt, setup.rcv_wnd) /\ Len(k.rcv_queue) <= setup.rcv_wnd
        /\ Window(k.snd_buf, k.snd_una, Off(k.snd_nxt, k.snd_una))
        /\ Off(k.snd_nxt, k.snd_una) <= setup.snd_wnd
    BY BlockIs, Zenon DEF SendOK, RecvOK
  <2>3. Ordered(k.rcv_buf) /\ Ordered(k.snd_buf)
    BY <2>2, WindowOrdered
  <2>4. Len(k.rcv_buf) <= setup.rcv_wnd
    BY <2>2, WindowLength
  <2>5. Len(k.snd_buf) <= setup.snd_wnd
    <3>1. Len(k.snd_buf) \in Nat /\ Len(k.snd_buf) <= Off(k.snd_nxt, k.snd_una)
      BY <2>2, WindowLength
    <3>2. Off(k.snd_nxt, k.snd_una) \in Nat
      BY <2>2 DEF Window
    <3>3. setup.snd_wnd \in Nat
      BY <1>1, SetupIs
    <3>. QED
      BY <2>2, <3>1, <3>2, <3>3
  <2>6. ASSUME NEW d \in net[e]
        PROVE  Size(d) <= setup.mtu
    <3>1. d \in Datagram
      BY <1>1
    <3>2. PICK g : d \in Seq(Segment) /\ Sums(d, g) /\ g[Len(d)] <= setup.mtu
      BY <3>1 DEF Datagram
    <3>3. Size(d) = g[Len(d)]
      BY <1>1, <3>2, SizeIs
    <3>. QED
      BY <3>2, <3>3
  <2>. QED
    BY <2>1, <2>2, <2>3, <2>4, <2>5, <2>6
<1>. QED
  BY <1>2, Zenon DEF WindowsKept

(* Every step keeps what an end keeps by itself.                           *)
LEMMA NextKeeps ==
  ASSUME IInv, [Next]_vars
  PROVE  IInv'
<1>1. CASE UNCHANGED vars
  <2>1. UNCHANGED <<setup, kcp, net, calls, sent>>
    BY <1>1 DEF vars
  <2>2. Kept' = Kept /\ Datagram' = Datagram
    BY <2>1, SameSetup
  <2>. QED
    BY <2>1, <2>2, Zenon DEF IInv
<1>2. CASE Next
  <2>1. PICK e \in Ends : \/ Send(e) \/ Recv(e)
                          \/ Input(e) \/ InputRepeated(e)
                          \/ Flush(e) \/ RoundTrip(e)
    BY <1>2, Zenon DEF Next
  <2>2. CASE Send(e)
    BY <2>2, SendStep
  <2>3. CASE Recv(e)
    BY <2>3, RecvStep
  <2>4. CASE Input(e) \/ InputRepeated(e)
    BY <2>4, InputStep
  <2>5. CASE Flush(e)
    BY <2>5, FlushStep
  <2>6. CASE RoundTrip(e)
    BY <2>6, RoundTripStep
  <2>. QED
    BY <2>1, <2>2, <2>3, <2>4, <2>5, <2>6
<1>. QED
  BY <1>1, <1>2

(* An end keeps its windows: what waits for the user fits the window it    *)
(* tells of, what waits to be put in order is in that window, in order and *)
(* without doubles, what it has sent and must keep is in the window it may *)
(* send, and no datagram is longer than the mtu, whatever was put together *)
(* (ikcp.c:693-750, 1025-1062).                                            *)
THEOREM WindowsKeptHolds == Spec => []WindowsKept
<1>1. Init => IInv
  BY InitKeeps
<1>2. IInv /\ [Next]_vars => IInv'
  BY NextKeeps
<1>3. IInv => WindowsKept
  BY KeptSays
<1>. QED
  BY <1>1, <1>2, <1>3, PTL DEF Spec

---------------------------------------------------------------------------
(* How many numbers before nxt, which is the next one to be sent, a number *)
(* is: its age, Off(nxt, x).                                               *)
LEMMA Ages ==
  /\ \A s, x \in Num : Off(s, x) \in Nat /\ Off(s, x) < Modulus
  /\ \A s \in Num : Off(s, s) = 0
  /\ \A s, x, y \in Num : Off(s, x) = Off(s, y) => x = y
  /\ \A s, x, y \in Num :
       Off(s, y) - Off(s, x) < Half /\ Off(s, x) - Off(s, y) <= Half => Diff(x, y) = Off(s, y) - Off(s, x)
  /\ \A s, x \in Num : Diff(s, x) >= 0 => Diff(s, x) = Off(s, x)
  /\ \A s, x \in Num : Off(s, x) < Half => Diff(s, x) = Off(s, x)
  /\ \A s, x, y \in Num : Off(y, x) = IF Off(s, y) <= Off(s, x) THEN Off(s, x) - Off(s, y)
                                      ELSE Off(s, x) - Off(s, y) + Modulus
<1>1. ASSUME NEW s \in Num, NEW x \in Num
      PROVE  Off(s, x) \in Nat /\ Off(s, x) < Modulus
  <2>1. Off(s, x) \in Num
    BY NumIs, Zenon
  <2>. QED
    BY <2>1, Modular DEF Num
<1>2. ASSUME NEW s \in Num
      PROVE  Off(s, s) = 0
  <2>1. Off(s, s) = IF s < s THEN (s - s) + Modulus ELSE s - s
    BY NumIs, Zenon
  <2>. QED
    BY <2>1, Modular DEF Num
<1>3. ASSUME NEW s \in Num, NEW x \in Num, NEW y \in Num
      PROVE  /\ Off(y, x) = IF Off(s, y) <= Off(s, x) THEN Off(s, x) - Off(s, y)
                            ELSE Off(s, x) - Off(s, y) + Modulus
             /\ Off(s, x) = Off(s, y) => x = y
             /\ Off(s, y) - Off(s, x) < Half /\ Off(s, x) - Off(s, y) <= Half =>
                  Diff(x, y) = Off(s, y) - Off(s, x)
  <2>1. PICK a \in Nat : a = Off(s, x) /\ a = IF s < x THEN (s - x) + Modulus ELSE s - x
    BY <1>1, NumIs
  <2>2. PICK b \in Nat : b = Off(s, y) /\ b = IF s < y THEN (s - y) + Modulus ELSE s - y
    BY <1>1, NumIs
  <2>3. PICK c \in Nat : c = Off(y, x) /\ c = IF y < x THEN (y - x) + Modulus ELSE y - x
    BY <1>1, NumIs
  <2>4. c = IF b <= a THEN a - b ELSE a - b + Modulus
    BY <2>1, <2>2, <2>3, Modular DEF Num
  <2>5. a = b => x = y
    BY <2>1, <2>2, Modular DEF Num
  <2>6. PICK d \in Nat : d = Off(x, y) /\ d = IF x < y THEN (x - y) + Modulus ELSE x - y
    BY <1>1, NumIs
  <2>7. Diff(x, y) = IF d < Half THEN d ELSE d - Modulus
    BY <2>6, NumIs, Zenon
  <2>8. d = IF a <= b THEN b - a ELSE b - a + Modulus
    BY <2>1, <2>2, <2>6, Modular DEF Num
  <2>9. b - a < Half /\ a - b <= Half => Diff(x, y) = b - a
    BY <2>7, <2>8, Modular
  <2>. QED
    BY <2>1, <2>2, <2>3, <2>4, <2>5, <2>9
<1>4. ASSUME NEW s \in Num, NEW x \in Num
      PROVE  /\ Diff(s, x) >= 0 => Diff(s, x) = Off(s, x)
             /\ Off(s, x) < Half => Diff(s, x) = Off(s, x)
  <2>1. PICK a \in Nat : a = Off(s, x) /\ a < Modulus
    BY <1>1
  <2>2. Diff(s, x) = IF a < Half THEN a ELSE a - Modulus
    BY <2>1, NumIs, Zenon
  <2>3. a - Modulus < 0 /\ a - Modulus \in Int
    BY <2>1, Modular
  <2>. QED
    BY <2>1, <2>2, <2>3
<1>. QED
  BY <1>1, <1>2, <1>3, <1>4

(* How old a push can be that arrives, and how old what is said of what    *)
(* was received.                                                           *)
Late == IF setup.snd_wnd < Lifetime - 1 THEN Lifetime - 1 ELSE setup.snd_wnd
Behind == IF Lifetime < setup.snd_wnd + setup.rcv_wnd
          THEN setup.snd_wnd + setup.rcv_wnd ELSE Lifetime

(* How the windows, the age of datagrams and the numbers compare.          *)
LEMMA BoundsAre ==
  ASSUME setup \in Setups
  PROVE  \E w \in Nat \ {0}, r \in Nat \ {0}, l \in Nat \ {0}, h \in Nat, late \in Nat, behind \in Nat :
           /\ w = setup.snd_wnd /\ r = setup.rcv_wnd /\ l = Lifetime /\ h = Half
           /\ late = Late /\ behind = Behind /\ Modulus = 2 * h
           /\ w + r < h /\ w <= late /\ l - 1 <= late /\ late <= h /\ late + w + w < 2 * h
           /\ w + r <= behind /\ l <= behind /\ behind <= h
<1>1. /\ setup.snd_wnd \in Nat \ {0} /\ setup.rcv_wnd \in Nat \ {0}
  BY SetupIs
<1>2. /\ setup.snd_wnd + setup.rcv_wnd < Half /\ Lifetime \in Nat \ {0}
      /\ Lifetime + setup.snd_wnd - 1 <= Half /\ 3 * setup.snd_wnd < Modulus
  BY KcpAssumption, Zenon DEF Half
<1>3. PICK w \in Nat \ {0}, r \in Nat \ {0}, l \in Nat \ {0}, h \in Nat :
        w = setup.snd_wnd /\ r = setup.rcv_wnd /\ l = Lifetime /\ h = Half /\ Modulus = 2 * h
  BY <1>1, <1>2, Modular
<1>4. w + r < h /\ l + w - 1 <= h /\ 3 * w < 2 * h
  BY <1>2, <1>3
<1>5. PICK late \in Nat : late = Late /\ late = IF w < l - 1 THEN l - 1 ELSE w
  <2>1. (IF w < l - 1 THEN l - 1 ELSE w) \in Nat
    OBVIOUS
  <2>. QED
    BY <1>3, <2>1 DEF Late
<1>6. PICK behind \in Nat : behind = Behind /\ behind = IF l < w + r THEN w + r ELSE l
  BY <1>3 DEF Behind
<1>7. w + r < h /\ w <= late /\ l - 1 <= late /\ late <= h /\ late + w + w < 2 * h
  BY <1>4, <1>5
<1>8. w + r <= behind /\ l <= behind /\ behind <= h
  BY <1>4, <1>6
<1>. QED
  BY <1>3, <1>5, <1>6, <1>7, <1>8

---------------------------------------------------------------------------
(* What is true of an end k that sends, the end p that receives, and the   *)
(* segments on their way to p and to k.                                    *)
Ahead(k, p) == Off(k.snd_nxt, p.rcv_nxt)
Unacked(k) == Off(k.snd_nxt, k.snd_una)

(* The segment x of k was received by p. *)
Got(k, p, x) == x \in Nums(p.rcv_buf) \/ Off(k.snd_nxt, x) > Ahead(k, p)

(* What p has put in rcv_buf was sent, and what p waits for the sender has *)
(* or rcv_buf has.                                                         *)
Covered(k, p) ==
    /\ \A x \in Nums(p.rcv_buf) : 1 <= Off(k.snd_nxt, x) /\ Off(k.snd_nxt, x) <= Ahead(k, p)
    /\ \A x \in Num : 1 <= Off(k.snd_nxt, x) /\ Off(k.snd_nxt, x) <= Ahead(k, p) =>
         x \in Nums(k.snd_buf) \/ x \in Nums(p.rcv_buf)

(* Pushes are of segments that were sent, and not too long ago. *)
PushesTrue(k, toP) ==
    \A s \in toP : s.cmd = "push" => 1 <= Off(k.snd_nxt, s.sn) /\ Off(k.snd_nxt, s.sn) <= Late

(* What p said it received, it received. *)
WordsTrue(k, p, toK) ==
    \A s \in toK :
      /\ Ahead(k, p) <= Off(k.snd_nxt, s.una) /\ Off(k.snd_nxt, s.una) <= Behind
      /\ s.cmd = "ack" => /\ 1 <= Off(k.snd_nxt, s.sn) /\ Off(k.snd_nxt, s.sn) <= Late + setup.snd_wnd
                          /\ Got(k, p, s.sn)

(* What p will acknowledge it received. *)
AcksTrue(k, p) ==
    \A i \in 1 .. Len(p.acklist) : 1 <= Off(k.snd_nxt, p.acklist[i]) /\ Got(k, p, p.acklist[i])

(* The sender has the segment that is n before snd_nxt, and nothing on the *)
(* way tells it to forget that one.                                        *)
Unsaid(k, toK, n) ==
    \/ n = 0
    \/ /\ \E x \in Nums(k.snd_buf) : Off(k.snd_nxt, x) = n
       /\ \A s \in toK : n <= Off(k.snd_nxt, s.una) /\ (s.cmd = "ack" => Off(k.snd_nxt, s.sn) # n)

(* Before p's next flush the window does not move on beyond such a         *)
(* segment, so what p will acknowledge then has not become too old.        *)
AcksYoung(k, p, toK) ==
    \E n \in Nat :
      /\ n <= Unacked(k) /\ Unsaid(k, toK, n)
      /\ \A i \in 1 .. Len(p.acklist) : Off(k.snd_nxt, p.acklist[i]) <= n + Late

Agree(k, p, toP, toK) ==
    /\ Covered(k, p) /\ PushesTrue(k, toP) /\ WordsTrue(k, p, toK)
    /\ AcksTrue(k, p) /\ AcksYoung(k, p, toK)

(* Both ends send and receive. *)
BothAgree(k, p, toK, toP) == Agree(k, p, toP, toK) /\ Agree(p, k, toK, toP)

(* Numbers in a buffer are numbers of segments.                            *)
LEMMA NumsAre ==
  ASSUME NEW buf \in Seq(Stored)
  PROVE  Nums(buf) \in SUBSET Num
<1>1. \A i \in 1 .. Len(buf) : buf[i].sn \in Num
  <2>1. \A i \in 1 .. Len(buf) : buf[i] \in Stored
    OBVIOUS
  <2>. QED
    BY <2>1 DEF Stored
<1>. QED
  BY <1>1 DEF Nums

(* The ages of what is kept to be sent again, and how far the sender can   *)
(* be ahead of the receiver.                                               *)
LEMMA SentAges ==
  ASSUME setup \in Setups, NEW k \in Kept
  PROVE  /\ k.snd_nxt \in Num /\ k.snd_una \in Num /\ k.rcv_nxt \in Num
         /\ Nums(k.snd_buf) \in SUBSET Num /\ Nums(k.rcv_buf) \in SUBSET Num
         /\ Unacked(k) \in Nat /\ Unacked(k) <= setup.snd_wnd
         /\ \A x \in Nums(k.snd_buf) : 1 <= Off(k.snd_nxt, x) /\ Off(k.snd_nxt, x) <= Unacked(k)
<1>1. PICK una \in Num, nxt \in Num, buf \in Seq(Stored) :
        una = k.snd_una /\ nxt = k.snd_nxt /\ buf = k.snd_buf
  BY BlockIs
<1>2. /\ Nums(k.snd_buf) \in SUBSET Num /\ Nums(k.rcv_buf) \in SUBSET Num /\ k.rcv_nxt \in Num
      /\ Nums(buf) \in SUBSET Num
  BY <1>1, BlockIs, NumsAre
<1>3. Window(buf, una, Off(nxt, una)) /\ Off(nxt, una) <= setup.snd_wnd
  BY <1>1, BlockIs, Zenon DEF SendOK
<1>4. PICK u \in Nat : u = Off(nxt, una) /\ u < Modulus
  BY Ages, Zenon
<1>5. ASSUME NEW x \in Nums(buf)
      PROVE  1 <= Off(nxt, x) /\ Off(nxt, x) <= u
  <2>1. PICK i \in 1 .. Len(buf) : x = buf[i].sn
    BY DEF Nums
  <2>2. Off(x, una) < u /\ x \in Num
    BY <1>2, <1>3, <1>4, <2>1, Zenon DEF Window
  <2>3. PICK o \in Nat, a \in Nat : o = Off(x, una) /\ a = Off(nxt, x) /\ a < Modulus
    BY <2>2, Ages, Zenon
  <2>4. o = IF a <= u THEN u - a ELSE u - a + Modulus
    BY <1>4, <2>2, <2>3, Ages, Zenon
  <2>. QED
    BY <1>4, <2>2, <2>3, <2>4, Modular
<1>. QED
  BY <1>1, <1>2, <1>3, <1>4, <1>5, Zenon DEF Unacked

(* What a sender is ahead of the receiver fits both windows.               *)
LEMMA AheadIs ==
  ASSUME setup \in Setups, NEW k \in Kept, NEW p \in Kept, Covered(k, p)
  PROVE  /\ Ahead(k, p) \in Nat /\ Ahead(k, p) <= Unacked(k) + setup.rcv_wnd
         /\ Ahead(k, p) <= setup.snd_wnd + setup.rcv_wnd /\ Ahead(k, p) < Half
<1>1. PICK nxt \in Num, rnxt \in Num : nxt = k.snd_nxt /\ rnxt = p.rcv_nxt
  BY BlockIs
<1>2. PICK a \in Nat, u \in Nat : a = Ahead(k, p) /\ a = Off(nxt, rnxt) /\ u = Unacked(k) /\ a < Modulus
  BY <1>1, SentAges, Ages DEF Ahead
<1>3. PICK w \in Nat \ {0}, r \in Nat \ {0}, h \in Nat :
        /\ w = setup.snd_wnd /\ r = setup.rcv_wnd /\ h = Half /\ w + r < h /\ u <= w
        /\ Modulus = 2 * h
  BY <1>2, SentAges, BoundsAre
<1>4. ASSUME a > u + r
      PROVE  FALSE
  <2>1. r \in 0 .. Off(nxt, rnxt) /\ r \in 0 .. Modulus /\ r \in Num
    BY <1>2, <1>3, <1>4 DEF Num
  <2>2. PICK x \in Num : x = Plus(rnxt, r)
    BY <2>1, NumIs
  <2>3. Off(nxt, x) = a - r
    BY <1>2, <2>1, <2>2, Distances
  <2>4. Off(x, rnxt) = r
    BY <2>1, <2>2, Distances
  <2>5. 1 <= a - r /\ a - r <= a /\ ~ (a - r <= u)
    BY <1>2, <1>3, <1>4
  <2>6. x \in Nums(k.snd_buf) \/ x \in Nums(p.rcv_buf)
    BY <1>1, <1>2, <2>3, <2>5 DEF Covered
  <2>7. x \notin Nums(k.snd_buf)
    BY <1>1, <1>2, <2>3, <2>5, SentAges
  <2>8. PICK i \in 1 .. Len(p.rcv_buf) : x = p.rcv_buf[i].sn
    BY <2>6, <2>7 DEF Nums
  <2>9. Window(p.rcv_buf, rnxt, r)
    BY <1>1, <1>3, BlockIs, Zenon DEF RecvOK
  <2>10. Off(x, rnxt) < r
    BY <2>8, <2>9, Zenon DEF Window
  <2>. QED
    BY <1>3, <2>4, <2>10
<1>. QED
  BY <1>2, <1>3, <1>4

(* The invariant depends on no more of the blocks than this.               *)
LEMMA AgreeDepends ==
  ASSUME NEW k, NEW p, NEW j, NEW q, NEW toP, NEW toK, Agree(k, p, toP, toK),
         j.snd_nxt = k.snd_nxt, j.snd_una = k.snd_una, j.snd_buf = k.snd_buf,
         q.rcv_nxt = p.rcv_nxt, q.rcv_buf = p.rcv_buf, q.acklist = p.acklist
  PROVE  Agree(j, q, toP, toK)
<1>1. Ahead(j, q) = Ahead(k, p) /\ Unacked(j) = Unacked(k) /\ \A x : Got(j, q, x) <=> Got(k, p, x)
  BY Zenon DEF Ahead, Unacked, Got
<1>2. Covered(j, q)
  BY <1>1, Zenon DEF Covered, Agree
<1>3. PushesTrue(j, toP)
  BY <1>1, Zenon DEF PushesTrue, Agree
<1>4. WordsTrue(j, q, toK)
  BY <1>1, Zenon DEF WordsTrue, Agree
<1>5. AcksTrue(j, q)
  BY <1>1, Zenon DEF AcksTrue, Agree
<1>6. AcksYoung(j, q, toK)
  BY <1>1, Zenon DEF AcksYoung, Unsaid, Agree
<1>. QED
  BY <1>2, <1>3, <1>4, <1>5, <1>6, Zenon DEF Agree

(* What is lost on the way makes nothing false.                            *)
LEMMA AgreeLess ==
  ASSUME NEW k, NEW p, NEW toP, NEW toK, Agree(k, p, toP, toK),
         NEW lessP \in SUBSET toP, NEW lessK \in SUBSET toK
  PROVE  Agree(k, p, lessP, lessK)
<1>1. PushesTrue(k, lessP)
  BY DEF PushesTrue, Agree
<1>2. WordsTrue(k, p, lessK)
  BY DEF WordsTrue, Agree
<1>3. AcksYoung(k, p, lessK)
  <2>1. \A n : Unsaid(k, toK, n) => Unsaid(k, lessK, n)
    BY DEF Unsaid
  <2>. QED
    BY <2>1, Zenon DEF AcksYoung, Agree
<1>. QED
  BY <1>1, <1>2, <1>3, Zenon DEF Agree

(* The sender forgets segments that it was told were received.             *)
LEMMA Forgets ==
  ASSUME setup \in Setups, NEW k \in Kept, NEW p \in Kept, NEW j \in Kept,
         NEW toP, NEW toK \in SUBSET Segment, Agree(k, p, toP, toK),
         j.snd_nxt = k.snd_nxt, Nums(j.snd_buf) \subseteq Nums(k.snd_buf),
         \A x \in Nums(k.snd_buf) : x \in Nums(j.snd_buf) \/
           \E s \in toK : \/ Off(k.snd_nxt, s.una) < Off(k.snd_nxt, x)
                          \/ s.cmd = "ack" /\ s.sn = x
  PROVE  Agree(j, p, toP, toK)
<1>1. PICK nxt \in Num : nxt = k.snd_nxt /\ nxt = j.snd_nxt
  BY BlockIs
<1>2. /\ Covered(k, p) /\ PushesTrue(k, toP) /\ WordsTrue(k, p, toK)
      /\ AcksTrue(k, p) /\ AcksYoung(k, p, toK)
  BY Zenon DEF Agree
<1>3. PICK a \in Nat : a = Ahead(k, p) /\ a = Ahead(j, p)
  <2>1. Ahead(j, p) = Ahead(k, p)
    BY Zenon DEF Ahead
  <2>. QED
    BY <1>2, <2>1, AheadIs
<1>4. \A x : Got(j, p, x) <=> Got(k, p, x)
  BY <1>3, Zenon DEF Got
<1>5. \A s \in toK : s.una \in Num /\ s.sn \in Num
  BY DEF Segment
<1>6. /\ \A x \in Num : Off(nxt, x) \in Nat
      /\ Nums(k.snd_buf) \in SUBSET Num /\ Nums(j.snd_buf) \in SUBSET Num
  BY Ages, SentAges, Zenon
<1>7. Covered(j, p)
  <2>1. ASSUME NEW x \in Num, 1 <= Off(nxt, x), Off(nxt, x) <= a
        PROVE  x \in Nums(j.snd_buf) \/ x \in Nums(p.rcv_buf)
    <3>1. x \in Nums(k.snd_buf) \/ x \in Nums(p.rcv_buf)
      BY <1>1, <1>2, <1>3, <2>1, Zenon DEF Covered
    <3>2. SUFFICES ASSUME x \in Nums(k.snd_buf), x \notin Nums(j.snd_buf)
                   PROVE  x \in Nums(p.rcv_buf)
      BY <3>1
    <3>3. PICK s \in toK : Off(nxt, s.una) < Off(nxt, x) \/ (s.cmd = "ack" /\ s.sn = x)
      BY <1>1, <3>2
    <3>4. CASE Off(nxt, s.una) < Off(nxt, x)
      <4>1. a <= Off(nxt, s.una)
        BY <1>1, <1>2, <1>3, Zenon DEF WordsTrue
      <4>2. Off(nxt, s.una) \in Nat /\ Off(nxt, x) \in Nat
        BY <1>5, <1>6
      <4>. QED
        BY <2>1, <3>4, <4>1, <4>2
    <3>5. CASE s.cmd = "ack" /\ s.sn = x
      <4>1. Got(k, p, x)
        BY <1>2, <3>5, Zenon DEF WordsTrue
      <4>2. Off(nxt, x) > a \/ x \in Nums(p.rcv_buf)
        BY <1>1, <1>3, <4>1, Zenon DEF Got
      <4>3. Off(nxt, x) \in Nat
        BY <1>6
      <4>. QED
        BY <2>1, <4>2, <4>3
    <3>. QED
      BY <3>3, <3>4, <3>5
  <2>2. \A x \in Nums(p.rcv_buf) : 1 <= Off(nxt, x) /\ Off(nxt, x) <= a
    BY <1>1, <1>2, <1>3, Zenon DEF Covered
  <2>. QED
    BY <1>1, <1>3, <2>1, <2>2, Zenon DEF Covered
<1>8. PushesTrue(j, toP)
  BY <1>1, <1>2, Zenon DEF PushesTrue
<1>9. WordsTrue(j, p, toK)
  BY <1>1, <1>2, <1>3, <1>4, Zenon DEF WordsTrue
<1>10. AcksTrue(j, p)
  BY <1>1, <1>2, <1>4, Zenon DEF AcksTrue
<1>11. AcksYoung(j, p, toK)
  <2>1. PICK n \in Nat :
          /\ n <= Unacked(k) /\ Unsaid(k, toK, n)
          /\ \A i \in 1 .. Len(p.acklist) : Off(nxt, p.acklist[i]) <= n + Late
    BY <1>1, <1>2 DEF AcksYoung
  <2>2. CASE n = 0
    <3>1. 0 <= Unacked(j)
      BY SentAges
    <3>. QED
      BY <1>1, <2>1, <2>2, <3>1, Zenon DEF AcksYoung, Unsaid
  <2>3. CASE n # 0
    <3>1. PICK x \in Nums(k.snd_buf) : Off(nxt, x) = n
      BY <1>1, <2>1, <2>3, Zenon DEF Unsaid
    <3>2. \A s \in toK : n <= Off(nxt, s.una) /\ (s.cmd = "ack" => Off(nxt, s.sn) # n)
      BY <1>1, <2>1, <2>3, Zenon DEF Unsaid
    <3>3. x \in Nums(j.snd_buf)
      <4>1. ASSUME NEW s \in toK, Off(nxt, s.una) < Off(nxt, x) \/ (s.cmd = "ack" /\ s.sn = x)
            PROVE  FALSE
        <5>1. Off(nxt, s.una) \in Nat
          BY <1>5, <1>6
        <5>. QED
          BY <3>1, <3>2, <4>1, <5>1
      <4>. QED
        BY <1>1, <4>1
    <3>4. n <= Unacked(j)
      BY <1>1, <3>1, <3>3, SentAges
    <3>5. Unsaid(j, toK, n)
      BY <1>1, <3>1, <3>2, <3>3, Zenon DEF Unsaid
    <3>. QED
      BY <1>1, <2>1, <3>4, <3>5, Zenon DEF AcksYoung
  <2>. QED
    BY <2>2, <2>3
<1>. QED
  BY <1>7, <1>8, <1>9, <1>10, <1>11, Zenon DEF Agree

(* The receiver puts segments in order: those that leave rcv_buf are the   *)
(* first ones that it waited for.                                          *)
LEMMA Orders ==
  ASSUME setup \in Setups, NEW k \in Kept, NEW p \in Kept, NEW q \in Kept,
         NEW toP, NEW toK \in SUBSET Segment, Agree(k, p, toP, toK),
         NEW n \in Nat, n <= setup.rcv_wnd, q.rcv_nxt = Plus(p.rcv_nxt, n), q.acklist = p.acklist,
         Nums(q.rcv_buf) \subseteq Nums(p.rcv_buf),
         \A i \in 1 .. n : Plus(p.rcv_nxt, i - 1) \in Nums(p.rcv_buf),
         \A x \in Nums(p.rcv_buf) : x \in Nums(q.rcv_buf) \/ \E i \in 1 .. n : x = Plus(p.rcv_nxt, i - 1)
  PROVE  Agree(k, q, toP, toK)
<1>1. PICK nxt \in Num, rnxt \in Num : nxt = k.snd_nxt /\ rnxt = p.rcv_nxt
  BY BlockIs
<1>2. /\ Covered(k, p) /\ PushesTrue(k, toP) /\ WordsTrue(k, p, toK)
      /\ AcksTrue(k, p) /\ AcksYoung(k, p, toK)
  BY Zenon DEF Agree
<1>3. PICK w \in Nat, r \in Nat, h \in Nat :
        /\ w = setup.snd_wnd /\ r = setup.rcv_wnd /\ h = Half /\ w + r < h /\ Modulus = 2 * h
  BY BoundsAre
<1>4. PICK a \in Nat : a = Ahead(k, p) /\ a = Off(nxt, rnxt) /\ a < h
  BY <1>1, <1>2, <1>3, AheadIs DEF Ahead
<1>5. n <= r /\ n \in 0 .. Modulus /\ \A i \in 1 .. n : i - 1 \in Num /\ i - 1 \in 0 .. Modulus
  BY <1>3 DEF Num
<1>6. n <= a
  <2>1. CASE n = 0
    BY <2>1
  <2>2. CASE n # 0 /\ n > a
    <3>1. a + 1 \in 1 .. n /\ (a + 1) - 1 = a
      BY <2>2
    <3>2. Plus(rnxt, a) \in Nums(p.rcv_buf)
      BY <1>1, <3>1, Zenon
    <3>3. a \in 0 .. Off(nxt, rnxt)
      BY <1>4
    <3>4. Off(nxt, Plus(rnxt, a)) = a - a
      <4>1. \A m \in 0 .. Off(nxt, rnxt) : Off(nxt, Plus(rnxt, m)) = Off(nxt, rnxt) - m
        BY Distances
      <4>. QED
        BY <1>4, <3>3, <4>1
    <3>5. 1 <= Off(nxt, Plus(rnxt, a))
      BY <1>1, <1>2, <3>2, Zenon DEF Covered
    <3>. QED
      BY <3>4, <3>5
  <2>. QED
    BY <2>1, <2>2
<1>7. \A i \in 0 .. n : Off(nxt, Plus(rnxt, i)) = a - i
  <2>1. \A i \in 0 .. n : i \in 0 .. Off(nxt, rnxt)
    BY <1>4, <1>6
  <2>2. \A m \in 0 .. Off(nxt, rnxt) : Off(nxt, Plus(rnxt, m)) = Off(nxt, rnxt) - m
    BY Distances
  <2>. QED
    BY <1>4, <2>1, <2>2
<1>8. PICK b \in Nat : b = Ahead(k, q) /\ b = a - n
  <2>1. n \in 0 .. n /\ a - n \in Nat
    BY <1>6
  <2>2. Ahead(k, q) = a - n
    BY <1>1, <1>7, <2>1, Zenon DEF Ahead
  <2>. QED
    BY <2>1, <2>2
<1>9. /\ \A x \in Num : Off(nxt, x) \in Nat
      /\ Nums(p.rcv_buf) \in SUBSET Num /\ Nums(q.rcv_buf) \in SUBSET Num
      /\ q.rcv_nxt \in Num
  BY Ages, SentAges, Zenon
<1>10. \A x \in Nums(p.rcv_buf) : x \in Nums(q.rcv_buf) \/ Off(nxt, x) > b
  <2>1. ASSUME NEW i \in 1 .. n
        PROVE  Off(nxt, Plus(rnxt, i - 1)) > b
    <3>1. i - 1 \in 0 .. n /\ a - (i - 1) > b
      BY <1>8
    <3>. QED
      BY <1>7, <3>1
  <2>. QED
    BY <1>1, <2>1
<1>11. ASSUME NEW x \in Nums(q.rcv_buf)
       PROVE  1 <= Off(nxt, x) /\ Off(nxt, x) <= b
  <2>1. x \in Nums(p.rcv_buf) /\ x \in Num
    BY <1>9
  <2>2. PICK o \in Nat : o = Off(nxt, x) /\ 1 <= o /\ o <= a
    BY <1>1, <1>2, <1>4, <1>9, <2>1 DEF Covered
  <2>3. PICK i \in 1 .. Len(q.rcv_buf) : x = q.rcv_buf[i].sn
    BY DEF Nums
  <2>4. Off(x, q.rcv_nxt) < r
    <3>1. Window(q.rcv_buf, q.rcv_nxt, r)
      BY <1>3, BlockIs, Zenon DEF RecvOK
    <3>. QED
      BY <2>3, <3>1, Zenon DEF Window
  <2>5. Off(x, q.rcv_nxt) = IF o <= b THEN b - o ELSE b - o + Modulus
    <3>1. Off(nxt, q.rcv_nxt) = b
      BY <1>1, <1>8 DEF Ahead
    <3>2. Off(x, q.rcv_nxt) = IF Off(nxt, x) <= Off(nxt, q.rcv_nxt) THEN Off(nxt, q.rcv_nxt) - Off(nxt, x)
                              ELSE Off(nxt, q.rcv_nxt) - Off(nxt, x) + Modulus
      BY <1>9, <2>1, Ages, Zenon
    <3>. QED
      BY <2>2, <3>1, <3>2
  <2>6. o <= b
    BY <1>3, <1>5, <1>8, <2>2, <2>4, <2>5
  <2>. QED
    BY <2>2, <2>6
<1>12. ASSUME NEW x \in Num, Got(k, p, x)
       PROVE  Got(k, q, x)
  <2>1. x \in Nums(p.rcv_buf) \/ Off(nxt, x) > a
    BY <1>1, <1>4, <1>12, Zenon DEF Got
  <2>2. Off(nxt, x) \in Nat
    BY <1>9
  <2>3. x \in Nums(q.rcv_buf) \/ Off(nxt, x) > b
    BY <1>8, <1>10, <2>1, <2>2
  <2>. QED
    BY <1>1, <1>8, <2>3, Zenon DEF Got
<1>13. Covered(k, q)
  <2>1. ASSUME NEW x \in Num, 1 <= Off(nxt, x), Off(nxt, x) <= b
        PROVE  x \in Nums(k.snd_buf) \/ x \in Nums(q.rcv_buf)
    <3>1. Off(nxt, x) <= a /\ ~ (Off(nxt, x) > b)
      BY <1>8, <1>9, <2>1
    <3>2. x \in Nums(k.snd_buf) \/ x \in Nums(p.rcv_buf)
      BY <1>1, <1>2, <1>4, <2>1, <3>1, Zenon DEF Covered
    <3>. QED
      BY <1>10, <3>1, <3>2, Zenon
  <2>. QED
    BY <1>1, <1>8, <1>11, <2>1, Zenon DEF Covered
<1>14. WordsTrue(k, q, toK)
  <2>1. ASSUME NEW s \in toK
        PROVE  /\ b <= Off(nxt, s.una) /\ Off(nxt, s.una) <= Behind
               /\ s.cmd = "ack" => /\ 1 <= Off(nxt, s.sn) /\ Off(nxt, s.sn) <= Late + setup.snd_wnd
                                   /\ Got(k, q, s.sn)
    <3>1. s.una \in Num /\ s.sn \in Num
      BY DEF Segment
    <3>2. /\ a <= Off(nxt, s.una) /\ Off(nxt, s.una) <= Behind
          /\ s.cmd = "ack" => /\ 1 <= Off(nxt, s.sn) /\ Off(nxt, s.sn) <= Late + setup.snd_wnd
                              /\ Got(k, p, s.sn)
      BY <1>1, <1>2, <1>4, Zenon DEF WordsTrue
    <3>3. b <= Off(nxt, s.una)
      BY <1>8, <1>9, <3>1, <3>2
    <3>. QED
      BY <1>12, <3>1, <3>2, <3>3, Zenon
  <2>. QED
    BY <1>1, <1>8, <2>1, Zenon DEF WordsTrue
<1>15. AcksTrue(k, q)
  <2>1. \A i \in 1 .. Len(p.acklist) : p.acklist[i] \in Num
    <3>1. p.acklist \in Seq(Num)
      BY BlockIs
    <3>. QED
      BY <3>1
  <2>. QED
    BY <1>2, <1>12, <2>1, Zenon DEF AcksTrue
<1>16. AcksYoung(k, q, toK)
  BY <1>2, Zenon DEF AcksYoung
<1>. QED
  BY <1>2, <1>13, <1>14, <1>15, <1>16, Zenon DEF Agree

(* The receiver acknowledges a segment that was pushed, having received it *)
(* before or putting it in rcv_buf.                                        *)
LEMMA Receives ==
  ASSUME setup \in Setups, NEW k \in Kept, NEW p \in Kept, NEW q \in Kept,
         NEW toP, NEW toK \in SUBSET Segment, Agree(k, p, toP, toK), NEW sn \in Num,
         1 <= Off(k.snd_nxt, sn), Off(k.snd_nxt, sn) <= Late,
         q.rcv_nxt = p.rcv_nxt, q.acklist = Append(p.acklist, sn),
         \/ q.rcv_buf = p.rcv_buf /\ Diff(sn, p.rcv_nxt) < 0
         \/ Nums(q.rcv_buf) = Nums(p.rcv_buf) \cup {sn} /\ ~ (Diff(sn, p.rcv_nxt) < 0)
  PROVE  Agree(k, q, toP, toK)
<1>1. PICK nxt \in Num, rnxt \in Num : nxt = k.snd_nxt /\ rnxt = p.rcv_nxt
  BY BlockIs
<1>2. /\ Covered(k, p) /\ PushesTrue(k, toP) /\ WordsTrue(k, p, toK)
      /\ AcksTrue(k, p) /\ AcksYoung(k, p, toK)
  BY Zenon DEF Agree
<1>3. PICK w \in Nat, r \in Nat, h \in Nat, late \in Nat :
        /\ w = setup.snd_wnd /\ r = setup.rcv_wnd /\ h = Half /\ w + r < h /\ Modulus = 2 * h
        /\ late = Late /\ late <= h
  BY BoundsAre
<1>4. PICK a \in Nat : a = Ahead(k, p) /\ a = Ahead(k, q) /\ a = Off(nxt, rnxt) /\ a < h
  BY <1>1, <1>2, <1>3, AheadIs DEF Ahead
<1>5. PICK o \in Nat : o = Off(nxt, sn) /\ 1 <= o /\ o <= late
  BY <1>1, <1>3, Ages
<1>6. Diff(sn, rnxt) = a - o
  <2>1. Off(nxt, rnxt) - Off(nxt, sn) < Half /\ Off(nxt, sn) - Off(nxt, rnxt) <= Half
    BY <1>3, <1>4, <1>5
  <2>2. Diff(sn, rnxt) = Off(nxt, rnxt) - Off(nxt, sn)
    BY <2>1, Ages, Zenon
  <2>. QED
    BY <1>4, <1>5, <2>2
<1>7. Nums(p.rcv_buf) \subseteq Nums(q.rcv_buf) /\ Got(k, q, sn)
  <2>1. CASE q.rcv_buf = p.rcv_buf /\ Diff(sn, p.rcv_nxt) < 0
    <3>1. o > a
      BY <1>1, <1>4, <1>5, <1>6, <2>1
    <3>. QED
      BY <1>1, <1>4, <1>5, <2>1, <3>1 DEF Got
  <2>2. CASE Nums(q.rcv_buf) = Nums(p.rcv_buf) \cup {sn} /\ ~ (Diff(sn, p.rcv_nxt) < 0)
    BY <2>2 DEF Got
  <2>. QED
    BY <2>1, <2>2
<1>8. \A x : Got(k, p, x) => Got(k, q, x)
  BY <1>4, <1>7 DEF Got
<1>9. \A x \in Nums(q.rcv_buf) : 1 <= Off(nxt, x) /\ Off(nxt, x) <= a
  <2>0. \A x \in Nums(p.rcv_buf) : 1 <= Off(nxt, x) /\ Off(nxt, x) <= a
    BY <1>1, <1>2, <1>4, Zenon DEF Covered
  <2>1. CASE q.rcv_buf = p.rcv_buf
    BY <2>0, <2>1
  <2>2. CASE Nums(q.rcv_buf) = Nums(p.rcv_buf) \cup {sn} /\ ~ (Diff(sn, p.rcv_nxt) < 0)
    <3>1. o <= a
      BY <1>1, <1>4, <1>5, <1>6, <2>2
    <3>. QED
      BY <1>5, <2>0, <2>2, <3>1
  <2>. QED
    BY <2>1, <2>2
<1>10. Covered(k, q)
  BY <1>1, <1>2, <1>4, <1>7, <1>9 DEF Covered
<1>11. WordsTrue(k, q, toK)
  BY <1>1, <1>2, <1>4, <1>8, Zenon DEF WordsTrue
<1>12. PICK l \in Nat : /\ l = Len(p.acklist) /\ Len(q.acklist) = l + 1
                        /\ \A i \in 1 .. l : q.acklist[i] = p.acklist[i]
                        /\ q.acklist[l + 1] = sn
  <2>1. PICK acks \in Seq(Num) : acks = p.acklist
    BY BlockIs
  <2>2. PICK l \in Nat : l = Len(acks)
    BY <2>1
  <2>3. /\ Len(Append(acks, sn)) = l + 1 /\ Append(acks, sn)[l + 1] = sn
        /\ \A i \in 1 .. l : Append(acks, sn)[i] = acks[i]
    BY <2>2
  <2>. QED
    BY <2>1, <2>2, <2>3
<1>13. \A i \in 1 .. l + 1 : i \in 1 .. l \/ i = l + 1
  OBVIOUS
<1>14. AcksTrue(k, q)
  <2>1. ASSUME NEW i \in 1 .. l + 1
        PROVE  1 <= Off(nxt, q.acklist[i]) /\ Got(k, q, q.acklist[i])
    <3>1. CASE i \in 1 .. l
      BY <1>1, <1>2, <1>8, <1>12, <3>1, Zenon DEF AcksTrue
    <3>2. CASE i = l + 1
      BY <1>5, <1>7, <1>12, <3>2, Zenon
    <3>. QED
      BY <1>13, <3>1, <3>2
  <2>. QED
    BY <1>1, <1>12, <2>1, Zenon DEF AcksTrue
<1>15. AcksYoung(k, q, toK)
  <2>1. PICK n \in Nat :
          /\ n <= Unacked(k) /\ Unsaid(k, toK, n)
          /\ \A i \in 1 .. l : Off(nxt, p.acklist[i]) <= n + late
    BY <1>1, <1>2, <1>3, <1>12 DEF AcksYoung
  <2>2. o <= n + late
    BY <1>5
  <2>3. \A i \in 1 .. l + 1 : Off(nxt, q.acklist[i]) <= n + late
    BY <1>5, <1>12, <1>13, <2>1, <2>2, Zenon
  <2>. QED
    BY <1>1, <1>3, <1>12, <2>1, <2>3, Zenon DEF AcksYoung
<1>. QED
  BY <1>2, <1>10, <1>11, <1>14, <1>15, Zenon DEF Agree

(* The sender sends n new segments, and some once more; of what was on the *)
(* way, that is left which is not too old.                                 *)
LEMMA SendsMore ==
  ASSUME setup \in Setups, NEW k \in Kept, NEW p \in Kept, NEW m \in Kept,
         NEW toP \in SUBSET Segment, NEW toK \in SUBSET Segment, Agree(k, p, toP, toK),
         NEW moreP \in SUBSET Segment, NEW lessK \in SUBSET toK,
         NEW n \in Nat, Unacked(k) + n <= setup.snd_wnd,
         m.snd_una = k.snd_una, m.snd_nxt = Plus(k.snd_nxt, n),
         Nums(m.snd_buf) = Nums(k.snd_buf) \cup {Plus(k.snd_nxt, i - 1) : i \in 1 .. n},
         \A s \in moreP : s.cmd = "push" =>
           \/ s.sn \in Nums(m.snd_buf)
           \/ s \in toP /\ (n = 0 \/ Diff(m.snd_nxt, s.sn) \in 0 .. Lifetime - 1),
         \A s \in lessK : n = 0 \/ /\ Diff(m.snd_nxt, s.una) \in 0 .. Lifetime
                                   /\ s.cmd = "ack" => Diff(m.snd_nxt, s.sn) \in 0 .. Lifetime - 1
  PROVE  Agree(m, p, moreP, lessK)
<1>1. PICK old \in Num, nxt \in Num : old = k.snd_nxt /\ nxt = m.snd_nxt /\ nxt = Plus(old, n)
  BY BlockIs
<1>2. /\ Covered(k, p) /\ PushesTrue(k, toP) /\ WordsTrue(k, p, toK)
      /\ AcksTrue(k, p) /\ AcksYoung(k, p, toK)
  BY Zenon DEF Agree
<1>3. PICK w \in Nat \ {0}, r \in Nat \ {0}, l \in Nat \ {0}, h \in Nat, late \in Nat, behind \in Nat :
        /\ w = setup.snd_wnd /\ r = setup.rcv_wnd /\ l = Lifetime /\ h = Half
        /\ late = Late /\ behind = Behind /\ Modulus = 2 * h
        /\ w + r < h /\ w <= late /\ l - 1 <= late /\ late <= h /\ late + w + w < 2 * h
        /\ w + r <= behind /\ l <= behind /\ behind <= h
  BY BoundsAre
<1>4. PICK u \in Nat : u = Unacked(k) /\ u + n <= w
  BY <1>3, SentAges
<1>5. /\ \A x \in Num : Off(old, x) \in Nat /\ Off(nxt, x) \in Nat /\ Off(nxt, x) < Modulus
      /\ Nums(k.snd_buf) \in SUBSET Num /\ Nums(m.snd_buf) \in SUBSET Num
      /\ Nums(p.rcv_buf) \in SUBSET Num /\ p.rcv_nxt \in Num /\ k.snd_una \in Num
  BY Ages, SentAges, Zenon
<1>6. \A x \in Num : Off(old, x) + n < 2 * h => Off(nxt, x) = Off(old, x) + n
  <2>1. n \in Num
    BY <1>3, <1>4 DEF Num
  <2>2. \A x \in Num : Off(old, x) + n < Modulus => Off(Plus(old, n), x) = Off(old, x) + n
    BY <2>1, Distances
  <2>. QED
    BY <1>1, <1>3, <2>2
<1>7. PICK a \in Nat : a = Ahead(k, p) /\ a < h /\ a <= u + r /\ Ahead(m, p) = a + n
  <2>1. PICK a \in Nat : a = Ahead(k, p) /\ a < h /\ a <= u + r
    BY <1>2, <1>3, <1>4, AheadIs
  <2>2. Off(old, p.rcv_nxt) = a /\ a + n < 2 * h
    BY <1>1, <1>3, <1>4, <2>1 DEF Ahead
  <2>3. Off(nxt, p.rcv_nxt) = a + n
    BY <1>5, <1>6, <2>2
  <2>. QED
    BY <1>1, <2>1, <2>3, Zenon DEF Ahead
<1>8. Unacked(m) = u + n
  <2>1. Off(old, k.snd_una) = u /\ u + n < 2 * h
    BY <1>1, <1>3, <1>4 DEF Unacked
  <2>2. Off(nxt, k.snd_una) = u + n
    BY <1>5, <1>6, <2>1
  <2>. QED
    BY <1>1, <2>2, Zenon DEF Unacked
<1>9. Off(nxt, old) = n /\ \A i \in 1 .. n : Off(nxt, Plus(old, i - 1)) = n - (i - 1)
  <2>1. Off(nxt, old) = n
    <3>1. Off(old, old) = 0 /\ 0 + n < 2 * h
      BY <1>3, <1>4, Ages
    <3>. QED
      BY <1>6, <3>1
  <2>2. \A j \in 0 .. Off(nxt, old) : Off(nxt, Plus(old, j)) = Off(nxt, old) - j
    BY Distances
  <2>3. \A i \in 1 .. n : i - 1 \in 0 .. Off(nxt, old)
    BY <2>1
  <2>. QED
    BY <2>1, <2>2, <2>3
<1>10. ASSUME NEW x \in Num, Off(old, x) + n < 2 * h, Got(k, p, x)
       PROVE  Got(m, p, x)
  <2>1. x \in Nums(p.rcv_buf) \/ Off(old, x) > a
    BY <1>1, <1>7, <1>10, Zenon DEF Got
  <2>2. Off(nxt, x) = Off(old, x) + n /\ Off(old, x) \in Nat
    BY <1>5, <1>6, <1>10
  <2>3. x \in Nums(p.rcv_buf) \/ Off(nxt, x) > a + n
    BY <2>1, <2>2
  <2>. QED
    BY <1>1, <1>7, <2>3, Zenon DEF Got
<1>11. Covered(m, p)
  <2>1. ASSUME NEW x \in Nums(p.rcv_buf)
        PROVE  1 <= Off(nxt, x) /\ Off(nxt, x) <= a + n
    <3>1. PICK o \in Nat : o = Off(old, x) /\ 1 <= o /\ o <= a
      BY <1>1, <1>2, <1>5, <1>7 DEF Covered
    <3>2. Off(nxt, x) = o + n
      BY <1>3, <1>4, <1>5, <1>6, <1>7, <3>1
    <3>. QED
      BY <3>1, <3>2
  <2>2. ASSUME NEW x \in Num, 1 <= Off(nxt, x), Off(nxt, x) <= a + n
        PROVE  x \in Nums(m.snd_buf) \/ x \in Nums(p.rcv_buf)
    <3>1. PICK o \in Nat : o = Off(nxt, x) /\ 1 <= o /\ o <= a + n
      BY <1>5, <2>2
    <3>2. CASE o <= n
      <4>1. PICK i \in 1 .. n : n - (i - 1) = o
        <5>1. n - o + 1 \in 1 .. n /\ n - ((n - o + 1) - 1) = o
          BY <3>1, <3>2
        <5>. QED
          BY <5>1
      <4>2. Plus(old, i - 1) \in Nums(m.snd_buf)
        BY <1>1
      <4>3. Off(nxt, Plus(old, i - 1)) = Off(nxt, x)
        BY <1>9, <3>1, <4>1
      <4>4. Plus(old, i - 1) = x
        BY <1>5, <4>2, <4>3, Ages
      <4>. QED
        BY <4>2, <4>4
    <3>3. CASE o > n
      <4>1. Off(old, x) = IF Off(nxt, old) <= Off(nxt, x) THEN Off(nxt, x) - Off(nxt, old)
                          ELSE Off(nxt, x) - Off(nxt, old) + Modulus
        BY Ages, Zenon
      <4>2. Off(old, x) = o - n /\ 1 <= o - n /\ o - n <= a
        BY <1>9, <3>1, <3>3, <4>1
      <4>3. x \in Nums(k.snd_buf) \/ x \in Nums(p.rcv_buf)
        BY <1>1, <1>2, <1>7, <4>2 DEF Covered
      <4>. QED
        BY <4>3
    <3>. QED
      BY <3>1, <3>2, <3>3
  <2>. QED
    BY <1>1, <1>7, <2>1, <2>2, Zenon DEF Covered
<1>12. ASSUME NEW x \in Num, NEW b \in Nat, Off(old, x) + n < 2 * h, Off(old, x) <= b,
              NEW c \in Nat, c <= b, n = 0 \/ Diff(nxt, x) \in 0 .. c
       PROVE  Off(nxt, x) = Off(old, x) + n /\ Off(nxt, x) <= b
  <2>1. Off(nxt, x) = Off(old, x) + n /\ Off(old, x) \in Nat
    BY <1>5, <1>6, <1>12
  <2>2. CASE n = 0
    BY <1>12, <2>1, <2>2
  <2>3. CASE Diff(nxt, x) \in 0 .. c
    <3>1. Diff(nxt, x) >= 0
      BY <2>3
    <3>2. Diff(nxt, x) = Off(nxt, x)
      BY <3>1, Ages
    <3>. QED
      BY <1>12, <2>1, <2>3, <3>2
  <2>. QED
    BY <1>12, <2>2, <2>3
<1>13. ASSUME NEW s \in moreP, s.cmd = "push"
       PROVE  1 <= Off(nxt, s.sn) /\ Off(nxt, s.sn) <= late
  <2>0. s.sn \in Num
    BY DEF Segment
  <2>1. CASE s.sn \in Nums(m.snd_buf)
    <3>1. 1 <= Off(nxt, s.sn) /\ Off(nxt, s.sn) <= u + n
      BY <1>1, <1>8, <2>1, SentAges, Zenon
    <3>. QED
      BY <1>3, <1>4, <1>5, <2>0, <3>1
  <2>2. CASE s \in toP /\ (n = 0 \/ Diff(nxt, s.sn) \in 0 .. Lifetime - 1)
    <3>1. PICK o \in Nat : o = Off(old, s.sn) /\ 1 <= o /\ o <= late
      BY <1>1, <1>2, <1>3, <1>5, <1>13, <2>0, <2>2 DEF PushesTrue
    <3>2. o + n < 2 * h
      BY <1>3, <1>4, <3>1
    <3>3. n = 0 \/ Diff(nxt, s.sn) \in 0 .. late
      BY <1>3, <2>2
    <3>4. Off(nxt, s.sn) = o + n /\ Off(nxt, s.sn) <= late
      BY <1>12, <2>0, <3>1, <3>2, <3>3
    <3>. QED
      BY <3>1, <3>4
  <2>. QED
    BY <1>1, <1>13, <2>1, <2>2
<1>14. ASSUME NEW s \in lessK
       PROVE  /\ s.una \in Num /\ s.sn \in Num
              /\ a <= Off(old, s.una)
              /\ Off(nxt, s.una) = Off(old, s.una) + n /\ Off(nxt, s.una) <= behind
              /\ s.cmd = "ack" =>
                   /\ 1 <= Off(old, s.sn)
                   /\ Off(nxt, s.sn) = Off(old, s.sn) + n /\ Off(nxt, s.sn) <= late + w
                   /\ Got(m, p, s.sn)
  <2>1. s.una \in Num /\ s.sn \in Num /\ s \in toK
    BY DEF Segment
  <2>2. PICK o \in Nat : o = Off(old, s.una) /\ a <= o /\ o <= behind
    BY <1>1, <1>2, <1>3, <1>5, <1>7, <2>1 DEF WordsTrue
  <2>3. n = 0 \/ Diff(nxt, s.una) \in 0 .. behind
    BY <1>1, <1>3
  <2>4. o + n < 2 * h
    <3>1. n <= w /\ w < h /\ o <= h
      BY <1>3, <1>4, <2>2
    <3>. QED
      BY <3>1
  <2>5. Off(nxt, s.una) = o + n /\ Off(nxt, s.una) <= behind
    BY <1>12, <2>1, <2>2, <2>3, <2>4
  <2>6. ASSUME s.cmd = "ack"
        PROVE  /\ 1 <= Off(old, s.sn)
               /\ Off(nxt, s.sn) = Off(old, s.sn) + n /\ Off(nxt, s.sn) <= late + w
               /\ Got(m, p, s.sn)
    <3>1. PICK c \in Nat : c = Off(old, s.sn) /\ 1 <= c /\ c <= late + w /\ Got(k, p, s.sn)
      BY <1>1, <1>2, <1>3, <1>5, <2>1, <2>6 DEF WordsTrue
    <3>2. c + n < 2 * h
      BY <1>3, <1>4, <3>1
    <3>3. n = 0 \/ Diff(nxt, s.sn) \in 0 .. late + w
      BY <1>1, <1>3, <2>6
    <3>4. Off(nxt, s.sn) = c + n /\ Off(nxt, s.sn) <= late + w
      BY <1>12, <2>1, <3>1, <3>2, <3>3
    <3>. QED
      BY <1>10, <2>1, <3>1, <3>2, <3>4
  <2>. QED
    BY <2>1, <2>2, <2>5, <2>6
<1>15. PushesTrue(m, moreP)
  BY <1>1, <1>3, <1>13, Zenon DEF PushesTrue
<1>16. WordsTrue(m, p, lessK)
  <2>1. ASSUME NEW s \in lessK
        PROVE  /\ a + n <= Off(nxt, s.una) /\ Off(nxt, s.una) <= behind
               /\ s.cmd = "ack" => /\ 1 <= Off(nxt, s.sn) /\ Off(nxt, s.sn) <= late + w
                                   /\ Got(m, p, s.sn)
    <3>1. Off(old, s.una) \in Nat /\ Off(old, s.sn) \in Nat
      BY <1>5, <1>14
    <3>. QED
      BY <1>14, <3>1
  <2>. QED
    BY <1>1, <1>3, <1>7, <2>1, Zenon DEF WordsTrue
<1>17. PICK c \in Nat :
         /\ c <= u /\ Unsaid(k, toK, c)
         /\ \A i \in 1 .. Len(p.acklist) : Off(old, p.acklist[i]) <= c + late
  BY <1>1, <1>2, <1>3, <1>4 DEF AcksYoung
<1>18. ASSUME NEW i \in 1 .. Len(p.acklist)
       PROVE  /\ 1 <= Off(nxt, p.acklist[i]) /\ Off(nxt, p.acklist[i]) <= (c + n) + late
              /\ Got(m, p, p.acklist[i])
  <2>1. p.acklist[i] \in Num
    <3>1. p.acklist \in Seq(Num)
      BY BlockIs
    <3>. QED
      BY <3>1
  <2>2. PICK o \in Nat : o = Off(old, p.acklist[i]) /\ o <= c + late
    BY <1>5, <1>17, <2>1
  <2>3. 1 <= o /\ Got(k, p, p.acklist[i])
    BY <1>1, <1>2, <2>2, Zenon DEF AcksTrue
  <2>4. o + n < 2 * h
    <3>1. c + n <= w /\ o + n <= (c + n) + late
      BY <1>4, <1>17, <2>2
    <3>2. late + w + w < 2 * h
      BY <1>3
    <3>. QED
      BY <3>1, <3>2
  <2>5. Off(nxt, p.acklist[i]) = o + n
    BY <1>6, <2>1, <2>2, <2>4
  <2>6. Got(m, p, p.acklist[i])
    BY <1>10, <2>1, <2>2, <2>3, <2>4
  <2>. QED
    BY <2>2, <2>3, <2>5, <2>6
<1>19. AcksTrue(m, p)
  BY <1>1, <1>18, Zenon DEF AcksTrue
<1>20. Unsaid(m, lessK, c + n)
  <2>1. CASE c + n = 0
    BY <2>1, Zenon DEF Unsaid
  <2>2. CASE c = 0 /\ n # 0
    <3>1. old \in Nums(m.snd_buf) /\ Off(nxt, old) = n
      <4>1. 1 \in 1 .. n /\ 1 - 1 = 0 /\ 0 \in 0 .. Modulus /\ 0 \in Num
        BY <1>3, <1>4, <2>2 DEF Num
      <4>2. Plus(old, 0) \in Nums(m.snd_buf)
        BY <1>1, <4>1
      <4>3. Off(nxt, Plus(old, 0)) = n
        BY <1>9, <4>1
      <4>4. Plus(old, 0) = old
        BY <1>5, <1>9, <4>2, <4>3, Ages
      <4>. QED
        BY <1>9, <4>2, <4>4
    <3>2. ASSUME NEW s \in lessK
          PROVE  n <= Off(nxt, s.una) /\ (s.cmd = "ack" => Off(nxt, s.sn) # n)
      <4>1. Off(old, s.una) \in Nat /\ Off(old, s.sn) \in Nat
        BY <1>5, <1>14
      <4>. QED
        BY <1>14, <4>1
    <3>3. c + n = n
      BY <2>2
    <3>. QED
      BY <1>1, <3>1, <3>2, <3>3, Zenon DEF Unsaid
  <2>3. CASE c # 0
    <3>1. PICK x \in Nums(k.snd_buf) : Off(old, x) = c
      BY <1>1, <1>17, <2>3, Zenon DEF Unsaid
    <3>2. \A s \in toK : c <= Off(old, s.una) /\ (s.cmd = "ack" => Off(old, s.sn) # c)
      BY <1>1, <1>17, <2>3, Zenon DEF Unsaid
    <3>3. x \in Nums(m.snd_buf) /\ Off(nxt, x) = c + n
      <4>1. c + n < 2 * h
        BY <1>3, <1>4, <1>17
      <4>. QED
        BY <1>5, <1>6, <3>1, <4>1
    <3>4. ASSUME NEW s \in lessK
          PROVE  c + n <= Off(nxt, s.una) /\ (s.cmd = "ack" => Off(nxt, s.sn) # c + n)
      <4>1. Off(old, s.una) \in Nat /\ Off(old, s.sn) \in Nat
        BY <1>5, <1>14
      <4>. QED
        BY <1>14, <3>2, <4>1
    <3>. QED
      BY <1>1, <3>3, <3>4, Zenon DEF Unsaid
  <2>. QED
    BY <1>17, <2>1, <2>2, <2>3
<1>21. AcksYoung(m, p, lessK)
  <2>1. c + n \in Nat /\ c + n <= Unacked(m)
    BY <1>4, <1>8, <1>17
  <2>. QED
    BY <1>1, <1>3, <1>18, <1>20, <2>1, Zenon DEF AcksYoung
<1>. QED
  BY <1>11, <1>15, <1>16, <1>19, <1>21, Zenon DEF Agree

(* The receiver says what it has, and has nothing more to acknowledge.     *)
LEMMA Says ==
  ASSUME setup \in Setups, NEW k \in Kept, NEW p \in Kept, NEW q \in Kept,
         NEW toP, NEW toK, Agree(k, p, toP, toK), NEW lessP \in SUBSET toP, NEW moreK,
         q.rcv_nxt = p.rcv_nxt, q.rcv_buf = p.rcv_buf, q.acklist = <<>>,
         \A s \in moreK :
           \/ s \in toK
           \/ /\ s.una = p.rcv_nxt
              /\ s.cmd = "ack" => \E i \in 1 .. Len(p.acklist) : s.sn = p.acklist[i]
  PROVE  Agree(k, q, lessP, moreK)
<1>1. PICK nxt \in Num, rnxt \in Num : nxt = k.snd_nxt /\ rnxt = p.rcv_nxt
  BY BlockIs
<1>2. /\ Covered(k, p) /\ PushesTrue(k, toP) /\ WordsTrue(k, p, toK)
      /\ AcksTrue(k, p) /\ AcksYoung(k, p, toK)
  BY Zenon DEF Agree
<1>3. PICK w \in Nat, r \in Nat, late \in Nat, behind \in Nat :
        /\ w = setup.snd_wnd /\ r = setup.rcv_wnd /\ late = Late /\ behind = Behind
        /\ w + r <= behind
  BY BoundsAre
<1>4. PICK a \in Nat, u \in Nat : /\ a = Ahead(k, p) /\ a = Ahead(k, q) /\ a = Off(nxt, rnxt)
                                  /\ a <= behind /\ u = Unacked(k) /\ u <= w
  <2>1. PICK a \in Nat : a = Ahead(k, p) /\ a <= setup.snd_wnd + setup.rcv_wnd
    BY <1>2, AheadIs
  <2>2. Ahead(k, q) = a /\ a = Off(nxt, rnxt)
    BY <1>1, <2>1 DEF Ahead
  <2>3. PICK u \in Nat : u = Unacked(k) /\ u <= w
    BY <1>3, SentAges
  <2>4. a <= behind
    BY <1>3, <2>1
  <2>. QED
    BY <2>1, <2>2, <2>3, <2>4, Zenon
<1>5. \A x : Got(k, q, x) <=> Got(k, p, x)
  BY <1>4, Zenon DEF Got
<1>6. Covered(k, q)
  BY <1>1, <1>2, <1>4, Zenon DEF Covered
<1>7. PushesTrue(k, lessP)
  BY <1>2 DEF PushesTrue
<1>8. WordsTrue(k, q, moreK)
  <2>1. ASSUME NEW s \in moreK
        PROVE  /\ a <= Off(nxt, s.una) /\ Off(nxt, s.una) <= behind
               /\ s.cmd = "ack" => /\ 1 <= Off(nxt, s.sn) /\ Off(nxt, s.sn) <= late + w
                                   /\ Got(k, q, s.sn)
    <3>1. CASE s \in toK
      BY <1>1, <1>2, <1>3, <1>4, <1>5, <3>1, Zenon DEF WordsTrue
    <3>2. CASE /\ s.una = p.rcv_nxt
               /\ s.cmd = "ack" => \E i \in 1 .. Len(p.acklist) : s.sn = p.acklist[i]
      <4>1. a <= Off(nxt, s.una) /\ Off(nxt, s.una) <= behind
        BY <1>1, <1>4, <3>2
      <4>2. ASSUME s.cmd = "ack"
            PROVE  1 <= Off(nxt, s.sn) /\ Off(nxt, s.sn) <= late + w /\ Got(k, q, s.sn)
        <5>1. PICK i \in 1 .. Len(p.acklist) : s.sn = p.acklist[i]
          BY <3>2, <4>2
        <5>2. 1 <= Off(nxt, s.sn) /\ Got(k, q, s.sn)
          BY <1>1, <1>2, <1>5, <5>1, Zenon DEF AcksTrue
        <5>3. PICK n \in Nat : n <= u /\ Off(nxt, s.sn) <= n + late
          BY <1>1, <1>2, <1>3, <1>4, <5>1 DEF AcksYoung
        <5>4. Off(nxt, s.sn) \in Nat
          <6>1. p.acklist \in Seq(Num)
            BY BlockIs
          <6>2. s.sn \in Num
            BY <5>1, <6>1
          <6>. QED
            BY <6>2, Ages
        <5>5. Off(nxt, s.sn) <= late + w
          BY <1>4, <5>3, <5>4
        <5>. QED
          BY <5>2, <5>5
      <4>. QED
        BY <4>1, <4>2
    <3>. QED
      BY <3>1, <3>2
  <2>. QED
    BY <1>1, <1>3, <1>4, <2>1, Zenon DEF WordsTrue
<1>9. \A i \in 1 .. Len(q.acklist) : FALSE
  <2>1. Len(q.acklist) = 0
    BY EmptySeq
  <2>. QED
    BY <2>1
<1>10. AcksTrue(k, q)
  BY <1>9, Zenon DEF AcksTrue
<1>11. AcksYoung(k, q, moreK)
  <2>1. 0 \in Nat /\ 0 <= Unacked(k)
    BY <1>4
  <2>. QED
    BY <1>9, <2>1, Zenon DEF AcksYoung, Unsaid
<1>. QED
  BY <1>6, <1>7, <1>8, <1>10, <1>11, Zenon DEF Agree

---------------------------------------------------------------------------
(* What the operations of one end k, with the other end p, leave true of   *)
(* both.                                                                   *)
LEMMA Untouched ==
  ASSUME NEW k, NEW p, NEW toK, NEW toP, BothAgree(k, p, toK, toP), NEW j,
         j.snd_nxt = k.snd_nxt, j.snd_una = k.snd_una, j.snd_buf = k.snd_buf,
         j.rcv_nxt = k.rcv_nxt, j.rcv_buf = k.rcv_buf, j.acklist = k.acklist
  PROVE  BothAgree(j, p, toK, toP)
<1>1. Agree(k, p, toP, toK) /\ Agree(p, k, toK, toP)
  BY Zenon DEF BothAgree
<1>2. Agree(j, p, toP, toK)
  BY <1>1, AgreeDepends
<1>3. Agree(p, j, toK, toP)
  BY <1>1, AgreeDepends
<1>. QED
  BY <1>2, <1>3, Zenon DEF BothAgree

(* An end forgets segments the other end has told it of.                   *)
LEMMA BothForget ==
  ASSUME setup \in Setups, NEW k \in Kept, NEW p \in Kept, NEW j \in Kept,
         NEW toK \in SUBSET Segment, NEW toP, BothAgree(k, p, toK, toP),
         j.snd_nxt = k.snd_nxt, Nums(j.snd_buf) \subseteq Nums(k.snd_buf),
         j.rcv_nxt = k.rcv_nxt, j.rcv_buf = k.rcv_buf, j.acklist = k.acklist,
         \A x \in Nums(k.snd_buf) : x \in Nums(j.snd_buf) \/
           \E s \in toK : \/ Off(k.snd_nxt, s.una) < Off(k.snd_nxt, x)
                          \/ s.cmd = "ack" /\ s.sn = x
  PROVE  BothAgree(j, p, toK, toP)
<1>1. Agree(k, p, toP, toK) /\ Agree(p, k, toK, toP)
  BY Zenon DEF BothAgree
<1>2. Agree(j, p, toP, toK)
  BY <1>1, Forgets
<1>3. Agree(p, j, toK, toP)
  <2>1. /\ Covered(p, k) /\ PushesTrue(p, toK) /\ WordsTrue(p, k, toP)
        /\ AcksTrue(p, k) /\ AcksYoung(p, k, toP)
    BY <1>1, Zenon DEF Agree
  <2>. QED
    BY <1>1, AgreeDepends
<1>. QED
  BY <1>2, <1>3, Zenon DEF BothAgree

(* ikcp_shrink_buf changes nothing that is said or kept.                   *)
LEMMA ShrinkBufAgrees ==
  ASSUME setup \in Setups, NEW k \in Kept, NEW p \in Kept,
         NEW toK \in SUBSET Segment, NEW toP, BothAgree(k, p, toK, toP)
  PROVE  ShrinkBuf(k).snd_nxt = k.snd_nxt /\ BothAgree(ShrinkBuf(k), p, toK, toP)
<1>1. PICK j \in Kept : j = ShrinkBuf(k)
  BY ShrinkBufKeeps
<1>2. k \in Block
  BY BlockIs
<1>3. /\ j.snd_nxt = k.snd_nxt /\ j.snd_buf = k.snd_buf
      /\ j.rcv_nxt = k.rcv_nxt /\ j.rcv_buf = k.rcv_buf /\ j.acklist = k.acklist
  BY <1>1, <1>2 DEF ShrinkBuf, Block
<1>4. BothAgree(j, p, toK, toP)
  <2>1. Nums(j.snd_buf) \subseteq Nums(k.snd_buf)
    BY <1>3
  <2>2. \A x \in Nums(k.snd_buf) : x \in Nums(j.snd_buf)
    BY <1>3
  <2>. QED
    BY <1>3, <2>1, <2>2, BothForget
<1>. QED
  BY <1>1, <1>3, <1>4

(* Numbers that una follows are older than una.                            *)
LEMMA ParseUnaAgrees ==
  ASSUME setup \in Setups, NEW k \in Kept, NEW p \in Kept,
         NEW toK \in SUBSET Segment, NEW toP \in SUBSET Segment, BothAgree(k, p, toK, toP), NEW seg \in toK
  PROVE  ParseUna(k, seg.una).snd_nxt = k.snd_nxt /\ BothAgree(ParseUna(k, seg.una), p, toK, toP)
<1>1. PICK j \in Kept : j = ParseUna(k, seg.una)
  BY ParseUnaKeeps
<1>2. PICK buf \in Seq(Stored), nxt \in Num, una \in Num : buf = k.snd_buf /\ nxt = k.snd_nxt /\ una = seg.una
  BY BlockIs DEF Segment
<1>3. PICK m \in 0 .. Len(buf) : m = Before(buf, una) /\ \A i \in 1 .. m : Diff(una, buf[i].sn) > 0
  <2> DEFINE N == {i \in 0 .. Len(buf) : \A h \in 1 .. i : Diff(una, buf[h].sn) > 0}
  <2>1. N \in SUBSET (0 .. Len(buf)) /\ 0 \in N /\ Len(buf) \in Nat
    OBVIOUS
  <2>2. Before(buf, una) = Longest(N)
    BY Zenon DEF Before
  <2>3. Longest(N) \in N
    <3> HIDE DEF N
    <3>. QED
      BY <2>1, LongestIs
  <2>. QED
    BY <2>2, <2>3
<1>4. PICK rest \in Seq(Stored) : /\ rest = SubSeq(buf, m + 1, Len(buf)) /\ Len(rest) = Len(buf) - m
                                  /\ \A i \in 1 .. Len(buf) - m : rest[i] = buf[m + i]
  <2>1. Len(buf) \in 0 .. Len(buf) /\ m \in 0 .. Len(buf)
    OBVIOUS
  <2>2. /\ SubSeq(buf, m + 1, Len(buf)) \in Seq(Stored) /\ Len(SubSeq(buf, m + 1, Len(buf))) = Len(buf) - m
        /\ \A i \in 1 .. Len(buf) - m : SubSeq(buf, m + 1, Len(buf))[i] = buf[m + i]
    BY <2>1, SubSeqIs
  <2>. QED
    BY <2>2, Zenon
<1>5. k \in Block
  BY BlockIs
<1>6. /\ j.snd_nxt = k.snd_nxt /\ j.snd_buf = rest
      /\ j.rcv_nxt = k.rcv_nxt /\ j.rcv_buf = k.rcv_buf /\ j.acklist = k.acklist
  <2>1. j = [k EXCEPT !.snd_buf = rest]
    BY <1>1, <1>2, <1>3, <1>4, Zenon DEF ParseUna
  <2>. QED
    BY <1>5, <2>1 DEF Block
<1>7. Nums(rest) \subseteq Nums(buf)
  <2>1. ASSUME NEW i \in 1 .. Len(buf) - m
        PROVE  rest[i].sn \in Nums(buf)
    <3>1. m + i \in 1 .. Len(buf)
      OBVIOUS
    <3>. QED
      BY <1>4, <3>1 DEF Nums
  <2>. QED
    BY <1>4, <2>1 DEF Nums
<1>8. PICK h \in Nat, u \in Nat, b \in Nat : h = Half /\ u = Unacked(k) /\ b = Off(nxt, una) /\ u < h /\ b <= h
  <2>1. Agree(k, p, toP, toK)
    BY Zenon DEF BothAgree
  <2>2. Off(nxt, una) \in Nat /\ Off(nxt, una) <= Behind
    <3>1. WordsTrue(k, p, toK)
      BY <2>1, Zenon DEF Agree
    <3>2. Off(nxt, una) <= Behind
      BY <1>2, <3>1, Zenon DEF WordsTrue
    <3>. QED
      BY <3>2, Ages
  <2>3. PICK w \in Nat, r \in Nat, h \in Nat, behind \in Nat :
          w = setup.snd_wnd /\ r \in Nat \ {0} /\ h = Half /\ behind = Behind /\ w + r < h /\ behind <= h
    BY BoundsAre
  <2>4. PICK u \in Nat : u = Unacked(k) /\ u <= w
    BY <2>3, SentAges
  <2>5. u < h
    BY <2>3, <2>4
  <2>6. PICK b \in Nat : b = Off(nxt, una) /\ b <= behind
    BY <2>2, <2>3
  <2>7. b <= h
    BY <2>3, <2>6
  <2>. QED
    BY <2>3, <2>4, <2>5, <2>6, <2>7, Zenon
<1>9. ASSUME NEW x \in Nums(buf), x \notin Nums(rest)
      PROVE  Off(nxt, una) < Off(nxt, x)
  <2>1. PICK i \in 1 .. Len(buf) : x = buf[i].sn
    BY DEF Nums
  <2>2. i \in 1 .. m
    <3>1. SUFFICES ASSUME i > m
                   PROVE  FALSE
      OBVIOUS
    <3>2. i - m \in 1 .. Len(buf) - m /\ m + (i - m) = i
      BY <3>1
    <3>3. rest[i - m] = buf[i] /\ i - m \in 1 .. Len(rest)
      BY <1>4, <3>2
    <3>4. x = rest[i - m].sn
      BY <2>1, <3>3
    <3>5. x \in Nums(rest)
      BY <3>3, <3>4, Zenon DEF Nums
    <3>. QED
      BY <1>9, <3>5
  <2>3. Diff(una, x) > 0
    BY <1>3, <2>1, <2>2
  <2>4. PICK c \in Nat : c = Off(nxt, x) /\ c <= u /\ x \in Num
    <3>1. Off(nxt, x) <= u /\ x \in Num
      BY <1>2, <1>8, <1>9, SentAges
    <3>. QED
      BY <3>1, Ages
  <2>5. Diff(una, x) = c - b
    <3>1. c - b < Half /\ b - c <= Half
      BY <1>8, <2>4
    <3>. QED
      BY <1>8, <2>4, <3>1, Ages
  <2>. QED
    BY <1>8, <2>3, <2>4, <2>5
<1>10. BothAgree(j, p, toK, toP)
  <2>1. \A x \in Nums(k.snd_buf) : x \in Nums(j.snd_buf) \/
          \E s \in toK : \/ Off(k.snd_nxt, s.una) < Off(k.snd_nxt, x)
                         \/ s.cmd = "ack" /\ s.sn = x
    BY <1>2, <1>6, <1>9, Zenon
  <2>2. Nums(j.snd_buf) \subseteq Nums(k.snd_buf)
    BY <1>2, <1>6, <1>7
  <2>. QED
    BY <1>6, <2>1, <2>2, BothForget
<1>. QED
  BY <1>1, <1>6, <1>10

(* ikcp_parse_ack forgets one segment, which an acknowledgement named.     *)
LEMMA ParseAckAgrees ==
  ASSUME setup \in Setups, NEW k \in Kept, NEW p \in Kept,
         NEW toK \in SUBSET Segment, NEW toP \in SUBSET Segment, BothAgree(k, p, toK, toP), NEW seg \in toK, seg.cmd = "ack"
  PROVE  ParseAck(k, seg.sn).snd_nxt = k.snd_nxt /\ BothAgree(ParseAck(k, seg.sn), p, toK, toP)
<1>1. PICK j \in Kept : j = ParseAck(k, seg.sn)
  BY ParseAckKeeps
<1>2. PICK buf \in Seq(Stored), sn \in Num : buf = k.snd_buf /\ sn = seg.sn
  BY BlockIs DEF Segment
<1>3. PICK n \in Nat : n = Before(buf, sn) + 1 /\ n >= 1
  <2>1. Len(buf) \in Nat
    OBVIOUS
  <2>2. Before(buf, sn) \in 0 .. Len(buf)
    BY <2>1, BeforeIs
  <2>. QED
    BY <2>2
<1>4. \/ j = k
      \/ n <= Len(buf) /\ buf[n].sn = sn /\ j = [k EXCEPT !.snd_buf = RemoveAt(buf, n)]
  BY <1>1, <1>2, <1>3, Zenon DEF ParseAck
<1>5. CASE j = k
  BY <1>1, <1>5
<1>6. CASE n <= Len(buf) /\ buf[n].sn = sn /\ j = [k EXCEPT !.snd_buf = RemoveAt(buf, n)]
  <2>1. n \in 1 .. Len(buf) /\ Len(buf) \in Nat
    BY <1>3, <1>6
  <2>2. PICK new \in Seq(Stored) : /\ new = RemoveAt(buf, n) /\ Len(new) = Len(buf) - 1
                                   /\ \A i \in 1 .. Len(buf) - 1 : new[i] = IF i < n THEN buf[i] ELSE buf[i + 1]
    BY <2>1, RemoveAtIs
  <2>3. k \in Block
    BY BlockIs
  <2>4. /\ j.snd_nxt = k.snd_nxt /\ j.snd_buf = new
        /\ j.rcv_nxt = k.rcv_nxt /\ j.rcv_buf = k.rcv_buf /\ j.acklist = k.acklist
    BY <1>6, <2>2, <2>3 DEF Block
  <2>5. Nums(new) \subseteq Nums(buf)
    <3>1. ASSUME NEW i \in 1 .. Len(buf) - 1
          PROVE  new[i].sn \in Nums(buf)
      <4>1. i \in 1 .. Len(buf) /\ i + 1 \in 1 .. Len(buf)
        BY <2>1
      <4>. QED
        BY <2>2, <4>1 DEF Nums
    <3>. QED
      BY <2>2, <3>1 DEF Nums
  <2>6. ASSUME NEW x \in Nums(buf), x # sn
        PROVE  x \in Nums(new)
    <3>1. PICK i \in 1 .. Len(buf) : x = buf[i].sn
      BY DEF Nums
    <3>2. i # n
      BY <1>6, <2>6, <3>1
    <3>3. CASE i < n
      <4>1. i \in 1 .. Len(buf) - 1
        BY <2>1, <3>3
      <4>2. new[i] = buf[i]
        BY <2>2, <3>3, <4>1
      <4>. QED
        BY <2>2, <3>1, <4>1, <4>2 DEF Nums
    <3>4. CASE i > n
      <4>1. i - 1 \in 1 .. Len(buf) - 1 /\ ~ (i - 1 < n) /\ (i - 1) + 1 = i
        BY <2>1, <3>4
      <4>2. new[i - 1] = buf[i]
        BY <2>2, <4>1
      <4>. QED
        BY <2>2, <3>1, <4>1, <4>2 DEF Nums
    <3>. QED
      BY <2>1, <3>2, <3>3, <3>4
  <2>7. BothAgree(j, p, toK, toP)
    <3>1. \A x \in Nums(k.snd_buf) : x \in Nums(j.snd_buf) \/
            \E s \in toK : \/ Off(k.snd_nxt, s.una) < Off(k.snd_nxt, x)
                           \/ s.cmd = "ack" /\ s.sn = x
      BY <1>2, <2>4, <2>6, Zenon
    <3>2. Nums(j.snd_buf) \subseteq Nums(k.snd_buf)
      BY <1>2, <2>4, <2>5
    <3>. QED
      BY <2>4, <3>1, <3>2, BothForget
  <2>. QED
    BY <1>1, <2>4, <2>7
<1>. QED
  BY <1>4, <1>5, <1>6

(* Insert adds one number, unless it is there.                             *)
LEMMA InsertNums ==
  ASSUME NEW buf \in Seq(Stored), NEW seg \in Stored
  PROVE  Nums(Insert(buf, seg)) = Nums(buf) \cup {seg.sn}
<1> DEFINE N == {i \in 0 .. Len(buf) : i > 0 => Diff(seg.sn, buf[i].sn) >= 0}
<1>1. N \in SUBSET (0 .. Len(buf)) /\ 0 \in N /\ Len(buf) \in Nat
  OBVIOUS
<1>2. PICK n : n = Longest(N)
  OBVIOUS
<1>3. Insert(buf, seg) = IF n > 0 /\ buf[n].sn = seg.sn THEN buf ELSE InsertAt(buf, n + 1, seg)
  BY <1>2, Zenon DEF Insert
<1>4. n \in 0 .. Len(buf)
  <2> HIDE DEF N
  <2>1. Longest(N) \in N
    BY <1>1, LongestIs
  <2>. QED
    BY <1>1, <1>2, <2>1
<1> HIDE DEF N
<1>5. CASE n > 0 /\ buf[n].sn = seg.sn
  <2>1. n \in 1 .. Len(buf)
    BY <1>1, <1>4, <1>5
  <2>2. seg.sn \in Nums(buf)
    BY <1>5, <2>1, Zenon DEF Nums
  <2>. QED
    BY <1>3, <1>5, <2>2
<1>6. CASE ~ (n > 0 /\ buf[n].sn = seg.sn)
  <2>1. PICK new \in Seq(Stored) :
            /\ new = InsertAt(buf, n + 1, seg) /\ Len(new) = Len(buf) + 1
            /\ \A i \in 1 .. n : new[i] = buf[i]
            /\ new[n + 1] = seg
            /\ \A i \in n + 2 .. Len(buf) + 1 : new[i] = buf[i - 1]
    BY <1>4, InsertAtIs
  <2>2. ASSUME NEW i \in 1 .. Len(new)
        PROVE  new[i].sn \in Nums(buf) \cup {seg.sn}
    <3>1. CASE i \in 1 .. n
      <4>1. i \in 1 .. Len(buf) /\ new[i] = buf[i]
        BY <1>1, <1>4, <2>1, <3>1
      <4>2. new[i].sn \in Nums(buf)
        BY <4>1, Zenon DEF Nums
      <4>. QED
        BY <4>2
    <3>2. CASE i = n + 1
      BY <2>1, <3>2
    <3>3. CASE i \in n + 2 .. Len(buf) + 1
      <4>1. i - 1 \in 1 .. Len(buf) /\ new[i] = buf[i - 1]
        BY <1>1, <1>4, <2>1, <3>3
      <4>2. new[i].sn \in Nums(buf)
        BY <4>1, Zenon DEF Nums
      <4>. QED
        BY <4>2
    <3>4. i \in 1 .. n \/ i = n + 1 \/ i \in n + 2 .. Len(buf) + 1
      BY <1>1, <1>4, <2>1
    <3>. QED
      BY <3>1, <3>2, <3>3, <3>4
  <2>3. ASSUME NEW i \in 1 .. Len(buf)
        PROVE  buf[i].sn \in Nums(new)
    <3>1. CASE i \in 1 .. n
      <4>1. i \in 1 .. Len(new) /\ new[i] = buf[i]
        BY <1>1, <1>4, <2>1, <3>1
      <4>. QED
        BY <4>1, Zenon DEF Nums
    <3>2. CASE i \in n + 1 .. Len(buf)
      <4>1. i + 1 \in n + 2 .. Len(buf) + 1 /\ (i + 1) - 1 = i /\ i + 1 \in 1 .. Len(new)
        BY <1>1, <1>4, <2>1, <3>2
      <4>2. new[i + 1] = buf[i]
        BY <2>1, <4>1
      <4>. QED
        BY <4>1, <4>2, Zenon DEF Nums
    <3>3. i \in 1 .. n \/ i \in n + 1 .. Len(buf)
      BY <1>1, <1>4
    <3>. QED
      BY <3>1, <3>2, <3>3
  <2>4. seg.sn \in Nums(new)
    <3>1. n + 1 \in 1 .. Len(new) /\ new[n + 1].sn = seg.sn
      BY <1>1, <1>4, <2>1
    <3>. QED
      BY <3>1, Zenon DEF Nums
  <2>5. Nums(new) = Nums(buf) \cup {seg.sn}
    <3>1. \A x \in Nums(new) : x \in Nums(buf) \cup {seg.sn}
      BY <2>2, Zenon DEF Nums
    <3>2. \A x \in Nums(buf) : x \in Nums(new)
      BY <2>3, Zenon DEF Nums
    <3>. QED
      BY <2>4, <3>1, <3>2
  <2>. QED
    BY <1>3, <1>6, <2>1, <2>5
<1>. QED
  BY <1>5, <1>6

(* What moves on to rcv_queue follows rcv_nxt.                             *)
LEMMA MoveReadyAgrees ==
  ASSUME setup \in Setups, NEW k \in Kept, NEW p \in Kept,
         NEW toK \in SUBSET Segment, NEW toP \in SUBSET Segment, BothAgree(k, p, toK, toP)
  PROVE  MoveReady(k).snd_nxt = k.snd_nxt /\ BothAgree(MoveReady(k), p, toK, toP)
<1>1. PICK j \in Kept : j = MoveReady(k)
  BY MoveReadyKeeps
<1>2. PICK buf \in Seq(Stored), nxt \in Num : buf = k.rcv_buf /\ nxt = k.rcv_nxt
  BY BlockIs
<1>3. PICK n \in 0 .. Len(buf), more \in Seq(Fragment) :
        /\ n <= setup.rcv_wnd
        /\ \A i \in 1 .. n : buf[i].sn = Plus(nxt, i - 1)
        /\ j = [k EXCEPT !.rcv_buf = SubSeq(buf, n + 1, Len(buf)),
                         !.rcv_queue = more, !.rcv_nxt = Plus(nxt, n)]
  <2>1. PICK n \in 0 .. Len(k.rcv_buf), more \in Seq(Fragment) :
            /\ n <= setup.rcv_wnd /\ Len(more) <= setup.rcv_wnd
            /\ \A i \in 1 .. n : k.rcv_buf[i].sn = Plus(k.rcv_nxt, i - 1)
            /\ MoveReady(k) = [k EXCEPT !.rcv_buf = SubSeq(k.rcv_buf, n + 1, Len(k.rcv_buf)),
                                       !.rcv_queue = more, !.rcv_nxt = Plus(k.rcv_nxt, n)]
    BY MoveReadyIs
  <2>. QED
    BY <1>1, <1>2, <2>1, Zenon
<1>4. PICK rest \in Seq(Stored) : /\ rest = SubSeq(buf, n + 1, Len(buf)) /\ Len(rest) = Len(buf) - n
                                  /\ \A i \in 1 .. Len(buf) - n : rest[i] = buf[n + i]
  <2>1. Len(buf) \in 0 .. Len(buf) /\ n \in 0 .. Len(buf)
    OBVIOUS
  <2>2. /\ SubSeq(buf, n + 1, Len(buf)) \in Seq(Stored) /\ Len(SubSeq(buf, n + 1, Len(buf))) = Len(buf) - n
        /\ \A i \in 1 .. Len(buf) - n : SubSeq(buf, n + 1, Len(buf))[i] = buf[n + i]
    BY <2>1, SubSeqIs
  <2>. QED
    BY <2>2, Zenon
<1>5. k \in Block
  BY BlockIs
<1>6. /\ j.snd_nxt = k.snd_nxt /\ j.snd_una = k.snd_una /\ j.snd_buf = k.snd_buf
      /\ j.acklist = k.acklist /\ j.rcv_buf = rest /\ j.rcv_nxt = Plus(nxt, n)
  BY <1>3, <1>4, <1>5 DEF Block
<1>7. Nums(rest) \subseteq Nums(buf)
  <2>1. ASSUME NEW i \in 1 .. Len(buf) - n
        PROVE  rest[i].sn \in Nums(buf)
    <3>1. n + i \in 1 .. Len(buf)
      OBVIOUS
    <3>. QED
      BY <1>4, <3>1 DEF Nums
  <2>. QED
    BY <1>4, <2>1 DEF Nums
<1>8. \A i \in 1 .. n : Plus(nxt, i - 1) \in Nums(buf)
  <2>1. \A i \in 1 .. n : i \in 1 .. Len(buf)
    OBVIOUS
  <2>. QED
    BY <1>3, <2>1, Zenon DEF Nums
<1>9. ASSUME NEW x \in Nums(buf)
      PROVE  x \in Nums(rest) \/ \E i \in 1 .. n : x = Plus(nxt, i - 1)
  <2>1. PICK i \in 1 .. Len(buf) : x = buf[i].sn
    BY DEF Nums
  <2>2. CASE i \in 1 .. n
    BY <1>3, <2>1, <2>2
  <2>3. CASE i \in n + 1 .. Len(buf)
    <3>1. i - n \in 1 .. Len(buf) - n /\ n + (i - n) = i
      BY <2>3
    <3>2. rest[i - n] = buf[i] /\ i - n \in 1 .. Len(rest)
      BY <1>4, <3>1
    <3>3. x = rest[i - n].sn
      BY <2>1, <3>2
    <3>. QED
      BY <3>2, <3>3, Zenon DEF Nums
  <2>. QED
    BY <2>2, <2>3
<1>10. Agree(k, p, toP, toK) /\ Agree(p, k, toK, toP)
  BY Zenon DEF BothAgree
<1>11. Agree(j, p, toP, toK)
  <2>1. /\ p.rcv_nxt = p.rcv_nxt /\ p.rcv_buf = p.rcv_buf /\ p.acklist = p.acklist
    OBVIOUS
  <2>. QED
    BY <1>6, <1>10, <2>1, AgreeDepends
<1>12. Agree(p, j, toK, toP)
  <2>1. n \in Nat
    BY <1>3
  <2>2. /\ j.rcv_nxt = Plus(k.rcv_nxt, n) /\ Nums(j.rcv_buf) \subseteq Nums(k.rcv_buf)
        /\ \A i \in 1 .. n : Plus(k.rcv_nxt, i - 1) \in Nums(k.rcv_buf)
        /\ \A x \in Nums(k.rcv_buf) : x \in Nums(j.rcv_buf) \/ \E i \in 1 .. n : x = Plus(k.rcv_nxt, i - 1)
    BY <1>2, <1>6, <1>7, <1>8, <1>9, Zenon
  <2>. QED
    BY <1>3, <1>6, <1>10, <2>1, <2>2, Orders
<1>. QED
  BY <1>1, <1>6, <1>11, <1>12, Zenon DEF BothAgree

(* ikcp_parse_data: a segment before the window, in it, or beyond it.      *)
LEMMA ParsePushAgrees ==
  ASSUME setup \in Setups, NEW k \in Kept, NEW p \in Kept,
         NEW toK \in SUBSET Segment, NEW toP \in SUBSET Segment, BothAgree(k, p, toK, toP),
         NEW seg \in toK, seg.cmd = "push"
  PROVE  ParsePush(k, seg).snd_nxt = k.snd_nxt /\ BothAgree(ParsePush(k, seg), p, toK, toP)
<1>1. CASE ParsePush(k, seg) = k
  BY <1>1
<1>2. CASE ParsePush(k, seg) # k
  <2>1. seg \in Segment /\ seg.sn \in Num
    BY DEF Segment
  <2>2. PICK acked \in Kept :
              /\ acked = [k EXCEPT !.acklist = Append(k.acklist, seg.sn)]
              /\ \/ ParsePush(k, seg) = acked /\ Diff(seg.sn, k.rcv_nxt) < 0
                 \/ \E j \in Kept, stored \in Stored :
                      /\ ~ (Diff(seg.sn, k.rcv_nxt) < 0) /\ stored.sn = seg.sn
                      /\ j = [acked EXCEPT !.rcv_buf = Insert(k.rcv_buf, stored)]
                      /\ ParsePush(k, seg) = MoveReady(j)
    BY <1>2, <2>1, ParsePushIs
  <2>3. k \in Block /\ acked \in Block /\ k.rcv_buf \in Seq(Stored)
    BY BlockIs
  <2>4. /\ acked.snd_nxt = k.snd_nxt /\ acked.snd_una = k.snd_una /\ acked.snd_buf = k.snd_buf
        /\ acked.rcv_nxt = k.rcv_nxt /\ acked.rcv_buf = k.rcv_buf
        /\ acked.acklist = Append(k.acklist, seg.sn)
    BY <2>2, <2>3 DEF Block
  <2>5. Agree(k, p, toP, toK) /\ Agree(p, k, toK, toP)
    BY Zenon DEF BothAgree
  <2>6. 1 <= Off(p.snd_nxt, seg.sn) /\ Off(p.snd_nxt, seg.sn) <= Late
    BY <2>5, Zenon DEF Agree, PushesTrue
  <2>7. CASE ParsePush(k, seg) = acked /\ Diff(seg.sn, k.rcv_nxt) < 0
    <3>1. Agree(p, acked, toK, toP)
      BY <2>1, <2>4, <2>5, <2>6, <2>7, Receives
    <3>2. Agree(acked, p, toP, toK)
      BY <2>4, <2>5, AgreeDepends
    <3>. QED
      BY <2>4, <2>7, <3>1, <3>2, Zenon DEF BothAgree
  <2>8. CASE ~ (ParsePush(k, seg) = acked /\ Diff(seg.sn, k.rcv_nxt) < 0)
    <3>1. PICK j \in Kept, stored \in Stored :
                      /\ ~ (Diff(seg.sn, k.rcv_nxt) < 0) /\ stored.sn = seg.sn
                      /\ j = [acked EXCEPT !.rcv_buf = Insert(k.rcv_buf, stored)]
                      /\ ParsePush(k, seg) = MoveReady(j)
      BY <2>2, <2>8, Zenon
    <3>2. /\ j.snd_nxt = k.snd_nxt /\ j.snd_una = k.snd_una /\ j.snd_buf = k.snd_buf
          /\ j.rcv_nxt = k.rcv_nxt /\ j.rcv_buf = Insert(k.rcv_buf, stored)
          /\ j.acklist = Append(k.acklist, seg.sn)
      BY <2>3, <2>4, <3>1 DEF Block
    <3>3. Nums(j.rcv_buf) = Nums(k.rcv_buf) \cup {seg.sn}
      BY <2>3, <3>1, <3>2, InsertNums
    <3>4. Agree(p, j, toK, toP)
      BY <2>1, <2>5, <2>6, <3>1, <3>2, <3>3, Receives
    <3>5. Agree(j, p, toP, toK)
      BY <2>5, <3>2, AgreeDepends
    <3>6. BothAgree(j, p, toK, toP)
      BY <3>4, <3>5, Zenon DEF BothAgree
    <3>. QED
      BY <3>1, <3>2, <3>6, MoveReadyAgrees
  <2>. QED
    BY <2>7, <2>8
<1>. QED
  BY <1>1, <1>2

(* A segment that was on its way is heard.                                 *)
LEMMA InputSegmentAgrees ==
  ASSUME setup \in Setups, NEW k \in Kept, NEW p \in Kept,
         NEW toK \in SUBSET Segment, NEW toP \in SUBSET Segment, BothAgree(k, p, toK, toP),
         NEW seg \in toK
  PROVE  InputSegment(k, seg).snd_nxt = k.snd_nxt /\ BothAgree(InputSegment(k, seg), p, toK, toP)
<1>1. seg.cmd \in {"ack", "push", "wask", "wins"} /\ seg.wnd \in Nat
  BY DEF Segment
<1>2. PICK j \in Kept : /\ j = [k EXCEPT !.rmt_wnd = seg.wnd] /\ j.snd_nxt = k.snd_nxt
                        /\ BothAgree(j, p, toK, toP)
  <2>1. /\ k \in Block /\ k.probe \in SUBSET {"send", "tell"} /\ k.probe_wait \in BOOLEAN
        /\ k.acklist \in Seq(Num)
    BY BlockIs
  <2>2. [k EXCEPT !.rmt_wnd = seg.wnd, !.probe = k.probe, !.probe_wait = k.probe_wait,
                  !.acklist = k.acklist] \in Kept
    BY <1>1, <2>1, WordsChanged
  <2>3. PICK j \in Kept : j = [k EXCEPT !.rmt_wnd = seg.wnd]
    BY <2>1, <2>2 DEF Block
  <2>4. /\ j.snd_nxt = k.snd_nxt /\ j.snd_una = k.snd_una /\ j.snd_buf = k.snd_buf
        /\ j.rcv_nxt = k.rcv_nxt /\ j.rcv_buf = k.rcv_buf /\ j.acklist = k.acklist
    BY <2>1, <2>3 DEF Block
  <2>5. BothAgree(j, p, toK, toP)
    BY <2>4, Untouched
  <2>. QED
    BY <2>3, <2>4, <2>5
<1>3. PICK i \in Kept : /\ i = ParseUna(j, seg.una) /\ i.snd_nxt = k.snd_nxt
                        /\ BothAgree(i, p, toK, toP)
  <2>1. ParseUna(j, seg.una) \in Kept
    BY ParseUnaKeeps
  <2>2. ParseUna(j, seg.una).snd_nxt = j.snd_nxt /\ BothAgree(ParseUna(j, seg.una), p, toK, toP)
    <3>1. BothAgree(j, p, toK, toP)
      BY <1>2
    <3>2. ParseUna(j, seg.una).snd_nxt = j.snd_nxt
      BY <3>1, ParseUnaAgrees
    <3>3. BothAgree(ParseUna(j, seg.una), p, toK, toP)
      BY <3>1, ParseUnaAgrees
    <3>. QED
      BY <3>2, <3>3
  <2>. QED
    BY <1>2, <2>1, <2>2
<1>4. PICK heard \in Kept : /\ heard = ShrinkBuf(ParseUna([k EXCEPT !.rmt_wnd = seg.wnd], seg.una))
                            /\ heard.snd_nxt = k.snd_nxt /\ BothAgree(heard, p, toK, toP)
  <2>1. ShrinkBuf(i) \in Kept
    BY ShrinkBufKeeps
  <2>2. ShrinkBuf(i).snd_nxt = i.snd_nxt /\ BothAgree(ShrinkBuf(i), p, toK, toP)
    BY <1>3, ShrinkBufAgrees
  <2>. QED
    BY <1>2, <1>3, <2>1, <2>2
<1>5. CASE seg.cmd = "ack"
  <2>1. InputSegment(k, seg) = ShrinkBuf(ParseAck(heard, seg.sn))
    BY <1>4, <1>5 DEF InputSegment
  <2>2. ParseAck(heard, seg.sn) \in Kept
    BY ParseAckKeeps
  <2>3. ParseAck(heard, seg.sn).snd_nxt = heard.snd_nxt /\ BothAgree(ParseAck(heard, seg.sn), p, toK, toP)
    BY <1>4, <1>5, ParseAckAgrees
  <2>. QED
    BY <1>4, <2>1, <2>2, <2>3, ShrinkBufAgrees
<1>6. CASE seg.cmd = "push"
  <2>1. InputSegment(k, seg) = ParsePush(heard, seg)
    BY <1>4, <1>6 DEF InputSegment
  <2>. QED
    BY <1>4, <1>6, <2>1, ParsePushAgrees
<1>7. CASE seg.cmd = "wask"
  <2>1. InputSegment(k, seg) = [heard EXCEPT !.probe = @ \cup {"tell"}]
    BY <1>4, <1>7 DEF InputSegment
  <2>2. heard \in Block
    BY BlockIs
  <2>3. PICK l : l = InputSegment(k, seg)
    OBVIOUS
  <2>4. /\ l.snd_nxt = heard.snd_nxt /\ l.snd_una = heard.snd_una /\ l.snd_buf = heard.snd_buf
        /\ l.rcv_nxt = heard.rcv_nxt /\ l.rcv_buf = heard.rcv_buf /\ l.acklist = heard.acklist
    BY <2>1, <2>2, <2>3 DEF Block
  <2>5. BothAgree(l, p, toK, toP)
    BY <1>4, <2>4, Untouched
  <2>. QED
    BY <1>4, <2>3, <2>4, <2>5
<1>8. CASE seg.cmd = "wins"
  <2>1. InputSegment(k, seg) = heard
    BY <1>4, <1>8 DEF InputSegment
  <2>. QED
    BY <1>4, <2>1
<1>. QED
  BY <1>1, <1>5, <1>6, <1>7, <1>8

(* The segments of a datagram one after the other.                         *)
LEMMA InputDatagramAgrees ==
  ASSUME setup \in Setups, NEW k \in Kept, NEW p \in Kept,
         NEW toK \in SUBSET Segment, NEW toP \in SUBSET Segment, BothAgree(k, p, toK, toP),
         NEW d \in Seq(toK)
  PROVE  /\ InputDatagram(k, d) \in Kept /\ InputDatagram(k, d).snd_nxt = k.snd_nxt
         /\ BothAgree(InputDatagram(k, d), p, toK, toP)
<1> DEFINE D == {j \in Kept : j.snd_nxt = k.snd_nxt /\ BothAgree(j, p, toK, toP)}
<1>1. k \in D
  OBVIOUS
<1>2. \A j \in D, y \in toK : InputSegment(j, y) \in D
  BY InputSegmentKeeps, InputSegmentAgrees
<1>3. InputDatagram(k, d) \in D
  <2> HIDE DEF D
  <2>. QED
    BY <1>1, <1>2, InputDatagramIn
<1>. QED
  BY <1>3

(* The datagrams of a round trip one after the other.                      *)
LEMMA InputDatagramsAgree ==
  ASSUME setup \in Setups, NEW k \in Kept, NEW p \in Kept,
         NEW toK \in SUBSET Segment, NEW toP \in SUBSET Segment, BothAgree(k, p, toK, toP),
         NEW s \in Seq(Seq(toK))
  PROVE  /\ Along(InputDatagram, k, s) \in Kept /\ Along(InputDatagram, k, s).snd_nxt = k.snd_nxt
         /\ BothAgree(Along(InputDatagram, k, s), p, toK, toP)
<1> DEFINE D == {j \in Kept : j.snd_nxt = k.snd_nxt /\ BothAgree(j, p, toK, toP)}
<1>1. k \in D
  OBVIOUS
<1>2. \A j \in D, y \in Seq(toK) : InputDatagram(j, y) \in D
  BY InputDatagramAgrees
<1>3. Along(InputDatagram, k, s) \in D
  <2> DEFINE S == Seq(toK)
  <2>1. s \in Seq(S) /\ \A j \in D, y \in S : InputDatagram(j, y) \in D
    BY <1>2
  <2> HIDE DEF D, S
  <2>. QED
    BY <1>1, <2>1, InputDatagramsIn
<1>. QED
  BY <1>3

---------------------------------------------------------------------------
(* A probe changes none of what the agreement is about.                    *)
LEMMA ProbeLeaves ==
  ASSUME NEW k \in Kept, NEW due \in BOOLEAN, NEW j, j = Probe(k, due)
  PROVE  /\ j.snd_una = k.snd_una /\ j.snd_nxt = k.snd_nxt /\ j.snd_buf = k.snd_buf
         /\ j.rcv_nxt = k.rcv_nxt /\ j.rcv_buf = k.rcv_buf /\ j.acklist = k.acklist
<1>1. k \in Block
  BY BlockIs
<1>. QED
  BY <1>1 DEF Probe, Block

(* Neither does the end of a flush, but for the acknowledgements.          *)
LEMMA FlushedLeaves ==
  ASSUME NEW k \in Kept, NEW j, j = Flushed(k)
  PROVE  /\ j.snd_una = k.snd_una /\ j.snd_nxt = k.snd_nxt /\ j.snd_buf = k.snd_buf
         /\ j.rcv_nxt = k.rcv_nxt /\ j.rcv_buf = k.rcv_buf /\ j.acklist = <<>>
<1>1. k \in Block
  BY BlockIs
<1>. QED
  BY <1>1 DEF Flushed, Block

(* The block m is k after n new segments were given numbers and moved to   *)
(* snd_buf.                                                                *)
Moved(k, m, n) ==
    /\ Unacked(k) + n <= setup.snd_wnd
    /\ m.snd_una = k.snd_una /\ m.snd_nxt = Plus(k.snd_nxt, n)
    /\ Nums(m.snd_buf) = Nums(k.snd_buf) \cup {Plus(k.snd_nxt, i - 1) : i \in 1 .. n}
    /\ m.rcv_nxt = k.rcv_nxt /\ m.rcv_buf = k.rcv_buf /\ m.acklist = k.acklist

LEMMA MoveNewIs ==
  ASSUME setup \in Setups, NEW k \in Kept, NEW n \in 0 .. Room(k), NEW m, m = MoveNew(k, n)
  PROVE  n \in Nat /\ Moved(k, m, n)
<1>1. PICK nxt \in Num, buf \in Seq(Stored), queue \in Seq(Fragment), w \in Nat :
        nxt = k.snd_nxt /\ buf = k.snd_buf /\ queue = k.snd_queue /\ w = setup.snd_wnd
  <2>1. k.snd_nxt \in Num /\ k.snd_buf \in Seq(Stored) /\ k.snd_queue \in Seq(Fragment)
    BY BlockIs
  <2>2. setup.snd_wnd \in Nat
    BY SetupIs
  <2>. QED
    BY <2>1, <2>2
<1>2. PICK u \in Nat : u = Unacked(k) /\ u + n <= w /\ n \in 0 .. Len(queue) /\ n \in Nat
  <2>1. PICK r \in Nat, u \in Nat : r = Room(k) /\ r <= Len(queue) /\ u = Unacked(k) /\ u + r <= w
    <3>1. /\ Room(k) \in Nat /\ Room(k) <= Len(k.snd_queue)
          /\ Off(k.snd_nxt, k.snd_una) \in Nat
          /\ Off(k.snd_nxt, k.snd_una) + Room(k) <= setup.snd_wnd
      BY RoomIs
    <3>. QED
      BY <1>1, <3>1, Zenon DEF Unacked
  <2>. QED
    BY <2>1
<1>3. w < Half /\ Half \in Nat /\ Half <= Modulus /\ Modulus \in Nat
  BY <1>1, SetupIs, Modular
<1> DEFINE added == [i \in 1 .. n |-> [sn |-> Plus(nxt, i - 1), frg |-> queue[i].frg, data |-> queue[i].data]]
<1>4. PICK new \in Seq(Stored) : new = added /\ Len(new) = n /\ \A i \in 1 .. n : new[i].sn = Plus(nxt, i - 1)
  <2>1. ASSUME NEW i \in 1 .. n
        PROVE  [sn |-> Plus(nxt, i - 1), frg |-> queue[i].frg, data |-> queue[i].data] \in Stored
    <3>1. i - 1 \in 0 .. Modulus
      BY <1>2, <1>3
    <3>2. Plus(nxt, i - 1) \in Num
      BY <3>1, NumIs, Zenon
    <3>3. i \in 1 .. Len(queue)
      BY <1>2
    <3>4. queue[i] \in Fragment
      BY <3>3
    <3>. QED
      BY <3>2, <3>4 DEF Fragment, Stored
  <2>2. added \in [1 .. n -> Stored]
    BY <2>1
  <2>3. \A i \in 1 .. n : added[i].sn = Plus(nxt, i - 1)
    OBVIOUS
  <2> HIDE DEF added
  <2>4. added \in Seq(Stored) /\ Len(added) = n
    BY <1>2, <2>2
  <2>. QED
    BY <2>3, <2>4
<1>5. PICK more : more = buf \o new
  OBVIOUS
<1>6. PICK left \in Seq(Fragment) : left = SubSeq(queue, n + 1, Len(queue))
  <2>1. Len(queue) \in 0 .. Len(queue) /\ n \in 0 .. Len(queue)
    BY <1>2
  <2>2. SubSeq(queue, n + 1, Len(queue)) \in Seq(Fragment)
    BY <2>1, SubSeqIs
  <2>. QED
    BY <2>2
<1>7. m = [k EXCEPT !.snd_queue = left, !.snd_buf = more, !.snd_nxt = Plus(nxt, n)]
  <2>1. /\ k.snd_queue = queue /\ k.snd_buf = buf /\ k.snd_nxt = nxt /\ buf \o added = more
    BY <1>1, <1>4, <1>5
  <2>. QED
    BY <1>6, <2>1, Zenon DEF MoveNew, added
<1> HIDE DEF added
<1>8. k \in Block
  BY BlockIs
<1>9. /\ m.snd_una = k.snd_una /\ m.snd_nxt = Plus(nxt, n) /\ m.snd_buf = more
      /\ m.rcv_nxt = k.rcv_nxt /\ m.rcv_buf = k.rcv_buf /\ m.acklist = k.acklist
  BY <1>7, <1>8 DEF Block
<1>10. Nums(more) = Nums(buf) \cup {Plus(nxt, i - 1) : i \in 1 .. n}
  <2>1. PICK l \in Nat : l = Len(buf)
    OBVIOUS
  <2>2. /\ Len(more) = l + n
        /\ \A i \in 1 .. l : more[i] = buf[i]
        /\ \A i \in 1 .. n : more[l + i] = new[i]
    <3>1. /\ Len(buf \o new) = Len(buf) + Len(new)
          /\ \A i \in 1 .. Len(buf) : (buf \o new)[i] = buf[i]
          /\ \A i \in 1 .. Len(new) : (buf \o new)[Len(buf) + i] = new[i]
      BY ConcatIs
    <3>. QED
      BY <1>4, <1>5, <2>1, <3>1, Zenon
  <2>3. ASSUME NEW x \in Nums(more)
        PROVE  x \in Nums(buf) \/ \E i \in 1 .. n : x = Plus(nxt, i - 1)
    <3>1. PICK i \in 1 .. l + n : x = more[i].sn
      BY <2>2 DEF Nums
    <3>2. CASE i \in 1 .. l
      BY <2>1, <2>2, <3>1, <3>2, Zenon DEF Nums
    <3>3. CASE i \in l + 1 .. l + n
      <4>1. i - l \in 1 .. n /\ l + (i - l) = i
        BY <1>2, <3>3
      <4>2. more[i] = new[i - l]
        BY <2>2, <4>1
      <4>3. x = Plus(nxt, (i - l) - 1)
        BY <1>4, <3>1, <4>1, <4>2
      <4>. QED
        BY <4>1, <4>3
    <3>. QED
      BY <1>2, <3>2, <3>3
  <2>4. ASSUME NEW x \in Nums(buf)
        PROVE  x \in Nums(more)
    <3>1. PICK i \in 1 .. l : x = buf[i].sn
      BY <2>1 DEF Nums
    <3>2. more[i] = buf[i]
      BY <2>2
    <3>3. i \in 1 .. Len(more)
      BY <1>2, <2>2
    <3>. QED
      BY <3>1, <3>2, <3>3, Zenon DEF Nums
  <2>5. ASSUME NEW i \in 1 .. n
        PROVE  Plus(nxt, i - 1) \in Nums(more)
    <3>1. more[l + i] = new[i] /\ new[i].sn = Plus(nxt, i - 1)
      BY <1>4, <2>2
    <3>2. l + i \in 1 .. l + n
      BY <1>2
    <3>. QED
      BY <2>2, <3>1, <3>2, Zenon DEF Nums
  <2>. QED
    BY <2>3, <2>4, <2>5
<1>11. Unacked(k) + n <= setup.snd_wnd /\ n \in Nat
  BY <1>1, <1>2
<1>12. Nums(m.snd_buf) = Nums(k.snd_buf) \cup {Plus(k.snd_nxt, i - 1) : i \in 1 .. n}
  BY <1>1, <1>9, <1>10
<1>13. m.snd_nxt = Plus(k.snd_nxt, n)
  BY <1>1, <1>9
<1>. QED
  BY <1>9, <1>11, <1>12, <1>13, Zenon DEF Moved

(* What is put together to datagrams is what was there before.             *)
LEMMA PackedOf ==
  ASSUME NEW S, NEW s \in Seq(S)
  PROVE  Packed(s) \in Seq(Seq(S))
<1> DEFINE add(p, seg) == IF p = <<>> THEN <<<<seg>>>>
                          ELSE IF Fits(Last(p), seg) THEN Append(Front(p), Append(Last(p), seg))
                          ELSE Append(p, <<seg>>)
           D == Seq(Seq(S))
           x == <<>>
           along[i \in 0 .. Len(s)] == IF i = 0 THEN x ELSE add(along[i - 1], s[i])
<1>1. Packed(s) = along[Len(s)]
  BY DEF Packed, Along
<1>0. x \in D /\ \A d \in D, y \in S : add(d, y) \in D
  <2> DEFINE Q == Seq(S)
  <2>1. ASSUME NEW p \in Seq(Q), NEW seg \in S
        PROVE  add(p, seg) \in Seq(Q)
    <3>1. <<seg>> \in Q
      OBVIOUS
    <3>2. \A d \in Q : Append(d, seg) \in Q
      OBVIOUS
    <3> HIDE DEF Q
    <3>3. CASE p = <<>>
      BY <3>1, <3>3
    <3>4. CASE p # <<>>
      <4>1. Last(p) \in Q /\ Front(p) \in Seq(Q)
        <5>1. PICK n \in Nat : n = Len(p) /\ n > 0
          BY <3>4
        <5>. QED
          BY <3>4, <5>1 DEF Last, Front
      <4>2. Append(Last(p), seg) \in Q
        BY <3>2, <4>1
      <4>3. Append(p, <<seg>>) \in Seq(Q)
        BY <3>1
      <4>4. Append(Front(p), Append(Last(p), seg)) \in Seq(Q)
        BY <4>1, <4>2
      <4>. QED
        BY <3>4, <4>3, <4>4, Zenon
    <3>. QED
      BY <3>3, <3>4
  <2>2. <<>> \in Seq(Q)
    OBVIOUS
  <2>. QED
    BY <2>1, <2>2, Zenon
<1> HIDE DEF add, D, x
<1>2. PICK n \in Nat : n = Len(s)
  OBVIOUS
<1> DEFINE F == [k \in Nat |-> [d \in D |-> IF k \in 1 .. n THEN add(d, s[k]) ELSE d]]
<1>3. F \in [Nat -> [D -> D]]
  <2>1. \A k \in 1 .. n : s[k] \in S
    BY <1>2
  <2>. QED
    BY <1>0, <2>1, Zenon
<1>4. \A k \in 1 .. n : \A d \in D : F[k][d] = add(d, s[k])
  <2>1. \A k \in 1 .. n : k \in Nat
    OBVIOUS
  <2>. QED
    BY <2>1, Zenon
<1> HIDE DEF F
<1>5. PICK g : Computes(g, F, x, n, D)
  BY <1>0, <1>3, Recursion
<1>6. g = [i \in 0 .. Len(s) |-> IF i = 0 THEN x ELSE add(g[i - 1], s[i])]
  <2>1. ASSUME NEW i \in 0 .. n
        PROVE  g[i] = IF i = 0 THEN x ELSE add(g[i - 1], s[i])
    <3>1. i = 0 \/ (i # 0 /\ i \in 1 .. n /\ i - 1 \in 0 .. n)
      OBVIOUS
    <3>. QED
      BY <1>4, <1>5, <3>1, Zenon DEF Computes
  <2>2. g = [i \in 0 .. n |-> g[i]]
    BY <1>5 DEF Computes
  <2>. QED
    BY <1>2, <2>1, <2>2, Zenon
<1>7. along = [i \in 0 .. Len(s) |-> IF i = 0 THEN x ELSE add(along[i - 1], s[i])]
  BY <1>6, Zenon
<1> HIDE DEF along
<1>8. along[0] \in D
  BY <1>0, <1>2, <1>7
<1>9. ASSUME NEW i \in 1 .. n, along[i - 1] \in D
      PROVE  along[i] \in D
  <2>1. i \in 0 .. Len(s) /\ i # 0 /\ s[i] \in S
    BY <1>2
  <2>2. along[i] = add(along[i - 1], s[i])
    BY <1>7, <2>1, Zenon
  <2>. QED
    BY <1>0, <1>9, <2>1, <2>2
<1>10. n \in 0 .. n
  OBVIOUS
<1>. QED
  BY <1>1, <1>2, <1>8, <1>9, <1>10, StaysIn DEF D

---------------------------------------------------------------------------
(* When n new segments were sent, what is still on the way to the other    *)
(* end is said now, or is old but not too old for the new numbers; and so  *)
(* is what is on the way from there.                                       *)
SaidOn(k, m, n, toP, moreP) ==
    \A s \in moreP :
      \/ s \in Told(k, m)
      \/ s \in toP /\ (n = 0 \/ (s.cmd = "push" => Diff(m.snd_nxt, s.sn) \in 0 .. Lifetime - 1))

HeardOn(m, n, lessK) ==
    \A s \in lessK :
      \/ n = 0
      \/ /\ Diff(m.snd_nxt, s.una) \in 0 .. Lifetime
         /\ s.cmd = "ack" => Diff(m.snd_nxt, s.sn) \in 0 .. Lifetime - 1

(* A flush of k0 that sends n new segments, which are in m, leaves the     *)
(* ends in agreement, with moreP on the way to the other end.              *)
LEMMA FlushAgrees ==
  ASSUME setup \in Setups, NEW k0 \in Kept, NEW k \in Kept, NEW m \in Kept, NEW p \in Kept,
         NEW toK \in SUBSET Segment, NEW toP \in SUBSET Segment, BothAgree(k0, p, toK, toP),
         NEW due \in BOOLEAN, k = Probe(k0, due),
         NEW n \in Nat, Moved(k, m, n),
         NEW moreP \in SUBSET Segment, SaidOn(k, m, n, toP, moreP),
         NEW lessK \in SUBSET toK, HeardOn(m, n, lessK)
  PROVE  BothAgree(Flushed(m), p, lessK, moreP)
<1>1. /\ Unacked(k) + n <= setup.snd_wnd
      /\ m.snd_una = k.snd_una /\ m.snd_nxt = Plus(k.snd_nxt, n)
      /\ Nums(m.snd_buf) = Nums(k.snd_buf) \cup {Plus(k.snd_nxt, i - 1) : i \in 1 .. n}
      /\ m.rcv_nxt = k.rcv_nxt /\ m.rcv_buf = k.rcv_buf /\ m.acklist = k.acklist
  BY Zenon DEF Moved
<1>2. PICK j \in Kept : j = Flushed(m)
  BY FlushedKeeps
<1>3. /\ j.snd_una = m.snd_una /\ j.snd_nxt = m.snd_nxt /\ j.snd_buf = m.snd_buf
      /\ j.rcv_nxt = k.rcv_nxt /\ j.rcv_buf = k.rcv_buf /\ j.acklist = <<>>
  <2>1. /\ j.snd_una = m.snd_una /\ j.snd_nxt = m.snd_nxt /\ j.snd_buf = m.snd_buf
        /\ j.rcv_nxt = m.rcv_nxt /\ j.rcv_buf = m.rcv_buf /\ j.acklist = <<>>
    BY <1>2, FlushedLeaves
  <2>. QED
    BY <1>1, <2>1
<1>4. BothAgree(k, p, toK, toP)
  <2>1. /\ k.snd_una = k0.snd_una /\ k.snd_nxt = k0.snd_nxt /\ k.snd_buf = k0.snd_buf
        /\ k.rcv_nxt = k0.rcv_nxt /\ k.rcv_buf = k0.rcv_buf /\ k.acklist = k0.acklist
    BY ProbeLeaves
  <2>. QED
    BY <2>1, Untouched
<1>5. Agree(k, p, toP, toK) /\ Agree(p, k, toK, toP)
  BY <1>4, Zenon DEF BothAgree
<1>6. Agree(m, p, moreP, lessK)
  <2>1. \A s \in moreP : s.cmd = "push" =>
           \/ s.sn \in Nums(m.snd_buf)
           \/ s \in toP /\ (n = 0 \/ Diff(m.snd_nxt, s.sn) \in 0 .. Lifetime - 1)
    BY Zenon DEF Told, SaidOn
  <2>2. \A s \in lessK :
          \/ n = 0
          \/ /\ Diff(m.snd_nxt, s.una) \in 0 .. Lifetime
             /\ s.cmd = "ack" => Diff(m.snd_nxt, s.sn) \in 0 .. Lifetime - 1
    BY Zenon DEF HeardOn
  <2>. QED
    BY <1>1, <1>5, <2>1, <2>2, SendsMore
<1>7. Agree(j, p, moreP, lessK)
  BY <1>3, <1>6, AgreeDepends
<1>8. Agree(p, j, lessK, moreP)
  <2>1. \A s \in moreP :
           \/ s \in toP
           \/ /\ s.una = k.rcv_nxt
              /\ s.cmd = "ack" => \E i \in 1 .. Len(k.acklist) : s.sn = k.acklist[i]
    BY Zenon DEF Told, SaidOn
  <2>. QED
    BY <1>3, <1>5, <2>1, Says
<1>. QED
  BY <1>2, <1>7, <1>8, Zenon DEF BothAgree

(* The agreement is the same seen from the other end.                      *)
LEMMA BothWays ==
  ASSUME NEW k, NEW p, NEW toK, NEW toP
  PROVE  BothAgree(k, p, toK, toP) <=> BothAgree(p, k, toP, toK)
BY Zenon DEF BothAgree

(* The agreement bears that datagrams are lost.                            *)
LEMMA BothLess ==
  ASSUME NEW k, NEW p, NEW toK, NEW toP, BothAgree(k, p, toK, toP),
         NEW lessK \in SUBSET toK, NEW lessP \in SUBSET toP
  PROVE  BothAgree(k, p, lessK, lessP)
<1>1. Agree(k, p, lessP, lessK)
  BY AgreeLess DEF BothAgree
<1>2. Agree(p, k, lessK, lessP)
  BY AgreeLess DEF BothAgree
<1>. QED
  BY <1>1, <1>2, Zenon DEF BothAgree

(* At the start nothing was said.                                          *)
LEMMA NothingSaid ==
  ASSUME setup \in Setups, NEW k \in Kept, k = NewKcp(setup)
  PROVE  BothAgree(k, k, {}, {})
<1>1. /\ k.snd_nxt = 0 /\ k.snd_una = 0 /\ k.rcv_nxt = 0 /\ k.snd_buf = <<>>
      /\ k.rcv_buf = <<>> /\ k.acklist = <<>>
  BY DEF NewKcp
<1>2. 0 \in Num /\ Off(0, 0) = 0 /\ \A x \in Num : Off(0, x) \in Nat
  <2>1. 0 \in Num
    <3>1. k.snd_nxt \in Num
      BY BlockIs
    <3>. QED
      BY <1>1, <3>1
  <2>. QED
    BY <2>1, Ages
<1>3. Nums(<<>>) = {} /\ Len(<<>>) = 0
  <2>1. Len(<<>>) = 0
    OBVIOUS
  <2>2. \A i \in 1 .. Len(<<>>) : FALSE
    BY <2>1
  <2>. QED
    BY <2>1, <2>2 DEF Nums
<1>4. \A i \in 1 .. Len(k.acklist) : FALSE
  <2>1. Len(k.acklist) = 0
    BY <1>1, <1>3
  <2>. QED
    BY <2>1
<1>5. Ahead(k, k) = 0 /\ Unacked(k) = 0
  BY <1>1, <1>2 DEF Ahead, Unacked
<1>6. Covered(k, k)
  <2>1. \A x \in Num : ~ (1 <= Off(0, x) /\ Off(0, x) <= 0)
    BY <1>2
  <2>. QED
    BY <1>1, <1>3, <1>5, <2>1 DEF Covered
<1>7. PushesTrue(k, {}) /\ WordsTrue(k, k, {})
  BY DEF PushesTrue, WordsTrue
<1>8. AcksTrue(k, k)
  BY <1>4, Zenon DEF AcksTrue
<1>9. AcksYoung(k, k, {})
  <2>1. 0 \in Nat /\ 0 <= Unacked(k)
    BY <1>5
  <2>. QED
    BY <1>4, <2>1, Zenon DEF AcksYoung, Unsaid
<1>. QED
  BY <1>6, <1>7, <1>8, <1>9, Zenon DEF Agree, BothAgree

(* What agreement says of the numbers between the ends.                    *)
LEMMA CoveredSays ==
  ASSUME setup \in Setups, NEW k \in Kept, NEW p \in Kept, Covered(k, p)
  PROVE  LET ahead == Diff(k.snd_nxt, p.rcv_nxt)
         IN  /\ ahead >= 0
             /\ \A sn \in {Plus(p.rcv_nxt, i) : i \in 0 .. ahead - 1} :
                  \E seg \in Range(k.snd_buf) \cup Range(p.rcv_buf) : seg.sn = sn
<1>1. PICK nxt \in Num, rnxt \in Num, sbuf \in Seq(Stored), rbuf \in Seq(Stored) :
        nxt = k.snd_nxt /\ rnxt = p.rcv_nxt /\ sbuf = k.snd_buf /\ rbuf = p.rcv_buf
  BY BlockIs
<1>2. PICK a \in Nat : a = Ahead(k, p) /\ a = Off(nxt, rnxt) /\ a = Diff(nxt, rnxt) /\ a < Half
  <2>1. PICK a \in Nat : a = Ahead(k, p) /\ a < Half
    BY AheadIs
  <2>2. a = Off(nxt, rnxt)
    BY <1>1, <2>1 DEF Ahead
  <2>3. a = Diff(nxt, rnxt)
    BY <2>1, <2>2, Ages
  <2>. QED
    BY <2>1, <2>2, <2>3
<1>3. ASSUME NEW i \in 0 .. a - 1
      PROVE  \E seg \in Range(sbuf) \cup Range(rbuf) : seg.sn = Plus(rnxt, i)
  <2>1. PICK x \in Num : x = Plus(rnxt, i) /\ Off(nxt, x) = a - i
    <3>1. i \in 0 .. Off(nxt, rnxt) /\ i \in 0 .. Modulus
      BY <1>2, Modular
    <3>2. Plus(rnxt, i) \in Num
      BY <3>1, NumIs
    <3>3. Off(nxt, Plus(rnxt, i)) = Off(nxt, rnxt) - i
      BY <3>1, Distances
    <3>. QED
      BY <1>2, <3>2, <3>3
  <2>2. 1 <= Off(nxt, x) /\ Off(nxt, x) <= a
    BY <2>1
  <2>3. x \in Nums(sbuf) \/ x \in Nums(rbuf)
    BY <1>1, <1>2, <2>2, Zenon DEF Covered
  <2>4. \A buf \in Seq(Stored) : x \in Nums(buf) => \E seg \in Range(buf) : seg.sn = x
    <3>1. ASSUME NEW buf \in Seq(Stored), x \in Nums(buf)
          PROVE  \E seg \in Range(buf) : seg.sn = x
      <4>1. PICK h \in 1 .. Len(buf) : x = buf[h].sn
        BY <3>1 DEF Nums
      <4>2. h \in DOMAIN buf
        OBVIOUS
      <4>3. buf[h] \in Range(buf)
        BY <4>2, Zenon DEF Range
      <4>. QED
        BY <4>1, <4>3
    <3>. QED
      BY <3>1
  <2>. QED
    BY <2>1, <2>3, <2>4
<1>. QED
  BY <1>1, <1>2, <1>3

---------------------------------------------------------------------------
(* The ends agree on what is on its way in all these datagrams.            *)
Said(ds) == UNION {Range(d) : d \in ds}

Agreed ==
    \A e \in Ends : Agree(kcp[e], kcp[Peer(e)], Said(net[Peer(e)]), Said(net[e]))

(* The two ends.                                                           *)
LEMMA PeerPeer ==
  ASSUME NEW e \in Ends
  PROVE  Peer(Peer(e)) = e /\ Ends = {e, Peer(e)}
<1>1. PICK a \in Ends, b \in Ends : a # b /\ Ends = {a, b}
  BY KcpAssumption
<1>2. Peer(e) \in Ends /\ Peer(e) # e
  BY PeerIs
<1>3. Peer(Peer(e)) \in Ends /\ Peer(Peer(e)) # Peer(e)
  BY <1>2, PeerIs
<1>. QED
  BY <1>1, <1>2, <1>3

(* What is said in datagrams are segments.                                 *)
LEMMA SaidIs ==
  ASSUME NEW ds \in SUBSET Datagram
  PROVE  Said(ds) \in SUBSET Segment /\ \A d \in ds : d \in Seq(Said(ds))
<1>1. \A d \in ds : d \in Seq(Segment)
  BY DEF Datagram
<1>2. \A d \in ds : Range(d) \in SUBSET Segment /\ d \in Seq(Range(d))
  <2> TAKE d \in ds
  <2>1. PICK x \in Seq(Segment) : x = d
    BY <1>1
  <2>2. Range(x) \in SUBSET Segment /\ x \in [1 .. Len(x) -> Range(x)] /\ Len(x) \in Nat
    BY DEF Range
  <2>3. x \in Seq(Range(x))
    BY <2>2
  <2>. QED
    BY <2>1, <2>2, <2>3
<1>3. Said(ds) \in SUBSET Segment
  BY <1>2, Zenon DEF Said
<1>4. ASSUME NEW d \in ds
      PROVE  d \in Seq(Said(ds))
  <2>1. Range(d) \subseteq Said(ds)
    BY Zenon DEF Said
  <2>2. d \in Seq(Range(d))
    BY <1>2
  <2>. QED
    BY <2>1, <2>2
<1>. QED
  BY <1>3, <1>4

(* Fewer datagrams say less.                                               *)
LEMMA SaidLess ==
  ASSUME NEW ds, NEW less \in SUBSET ds
  PROVE  Said(less) \in SUBSET Said(ds)
BY Zenon DEF Said

(* The agreement seen from one end.                                        *)
LEMMA AgreedSays ==
  ASSUME Agreed, NEW e \in Ends
  PROVE  BothAgree(kcp[e], kcp[Peer(e)], Said(net[e]), Said(net[Peer(e)]))
<1>1. Peer(e) \in Ends /\ Peer(Peer(e)) = e
  BY PeerIs, PeerPeer
<1>2. Agree(kcp[e], kcp[Peer(e)], Said(net[Peer(e)]), Said(net[e]))
  BY Zenon DEF Agreed
<1>3. Agree(kcp[Peer(e)], kcp[Peer(Peer(e))], Said(net[Peer(Peer(e))]), Said(net[Peer(e)]))
  BY <1>1, Zenon DEF Agreed
<1>. QED
  BY <1>1, <1>2, <1>3, Zenon DEF BothAgree

(* The agreement of the next state, from the values it has there.          *)
LEMMA AgreeNext ==
  ASSUME setup' = setup, NEW g \in Ends, NEW j, NEW q, NEW toG, NEW toH, Agree(j, q, toH, toG),
         kcp'[g] = j, kcp'[Peer(g)] = q, Said(net'[g]) = toG, Said(net'[Peer(g)]) = toH
  PROVE  Agree(kcp[g], kcp[Peer(g)], Said(net[Peer(g)]), Said(net[g]))'
<1>1. Late' = Late /\ Behind' = Behind
  BY DEF Late, Behind
<1>2. Covered(kcp[g], kcp[Peer(g)])'
  <2>1. Covered(j, q)
    BY DEF Agree
  <2>. QED
    BY <2>1, Zenon DEF Covered, Nums, Off, Ahead
<1>3. PushesTrue(kcp[g], Said(net[Peer(g)]))'
  <2>1. PushesTrue(j, toH)
    BY DEF Agree
  <2>. QED
    BY <1>1, <2>1, Zenon DEF PushesTrue, Off, Said
<1>4. WordsTrue(kcp[g], kcp[Peer(g)], Said(net[g]))'
  <2>1. WordsTrue(j, q, toG)
    BY DEF Agree
  <2>. QED
    BY <1>1, <2>1, Zenon DEF WordsTrue, Off, Said, Ahead, Got, Nums
<1>5. AcksTrue(kcp[g], kcp[Peer(g)])'
  <2>1. AcksTrue(j, q)
    BY DEF Agree
  <2>. QED
    BY <2>1, Zenon DEF AcksTrue, Off, Ahead, Got, Nums
<1>6. AcksYoung(kcp[g], kcp[Peer(g)], Said(net[g]))'
  <2>1. AcksYoung(j, q, toG)
    BY DEF Agree
  <2>. QED
    BY <1>1, <2>1, Zenon DEF AcksYoung, Unsaid, Unacked, Off, Said, Nums
<1>. QED
  BY <1>2, <1>3, <1>4, <1>5, <1>6, Zenon DEF Agree

(* The same for both ends.                                                 *)
LEMMA AgreedNext ==
  ASSUME setup' = setup, NEW e \in Ends, NEW j, NEW q, NEW toE, NEW toF, BothAgree(j, q, toE, toF),
         kcp'[e] = j, kcp'[Peer(e)] = q, Said(net'[e]) = toE, Said(net'[Peer(e)]) = toF
  PROVE  Agreed'
<1>1. Peer(e) \in Ends /\ Peer(Peer(e)) = e /\ Ends = {e, Peer(e)}
  BY PeerIs, PeerPeer
<1>2. Agree(j, q, toF, toE) /\ Agree(q, j, toE, toF)
  BY Zenon DEF BothAgree
<1>3. Agree(kcp[e], kcp[Peer(e)], Said(net[Peer(e)]), Said(net[e]))'
  BY <1>2, AgreeNext
<1>4. ASSUME NEW f \in Ends, f = Peer(e)
      PROVE  Agree(kcp[f], kcp[Peer(f)], Said(net[Peer(f)]), Said(net[f]))'
  <2>1. Peer(f) = e
    BY <1>1, <1>4
  <2>2. kcp'[f] = q /\ kcp'[Peer(f)] = j /\ Said(net'[f]) = toF /\ Said(net'[Peer(f)]) = toE
    BY <1>4, <2>1
  <2>. QED
    BY <1>2, <2>2, AgreeNext
<1>5. ASSUME NEW g \in Ends
      PROVE  Agree(kcp[g], kcp[Peer(g)], Said(net[Peer(g)]), Said(net[g]))'
  <2>1. CASE g = e
    BY <1>3, <2>1
  <2>2. CASE g = Peer(e)
    BY <1>4, <2>2
  <2>. QED
    BY <1>1, <2>1, <2>2
<1>. QED
  BY <1>5 DEF Agreed

(* At the start nothing was said.                                          *)
LEMMA InitAgreed ==
  ASSUME Init
  PROVE  Agreed
<1>1. IInv
  BY InitKeeps
<1>2. setup \in Setups
  BY DEF Init
<1>3. ASSUME NEW e \in Ends
      PROVE  Agree(kcp[e], kcp[Peer(e)], Said(net[Peer(e)]), Said(net[e]))
  <2>1. Peer(e) \in Ends
    BY PeerIs
  <2>2. PICK k \in Kept : k = kcp[e]
    BY <1>1 DEF IInv
  <2>3. k = NewKcp(setup) /\ kcp[Peer(e)] = k
    BY <2>1, <2>2 DEF Init
  <2>4. net[e] = {} /\ net[Peer(e)] = {}
    BY <2>1 DEF Init
  <2>5. Said(net[e]) = {} /\ Said(net[Peer(e)]) = {}
    BY <2>4 DEF Said
  <2>6. BothAgree(k, k, {}, {})
    BY <1>2, <2>3, NothingSaid
  <2>. QED
    BY <2>2, <2>3, <2>5, <2>6, Zenon DEF BothAgree
<1>. QED
  BY <1>3 DEF Agreed

(* The steps, one by one: what the user sends only waits.                  *)
LEMMA SendAgreed ==
  ASSUME IInv, Agreed, NEW e \in Ends, Send(e)
  PROVE  Agreed'
<1>1. /\ setup \in Setups /\ kcp \in [Ends -> Kept] /\ net \in [Ends -> SUBSET Datagram]
  BY DEF IInv
<1>2. PICK queue : kcp' = [kcp EXCEPT ![e].snd_queue = queue]
  BY Zenon DEF Send
<1>3. UNCHANGED <<setup, net>>
  BY Zenon DEF Send
<1>4. PICK k \in Kept : k = kcp[e]
  BY <1>1
<1>5. PICK j : j = [k EXCEPT !.snd_queue = queue]
  OBVIOUS
<1>6. /\ j.snd_nxt = k.snd_nxt /\ j.snd_una = k.snd_una /\ j.snd_buf = k.snd_buf
      /\ j.rcv_nxt = k.rcv_nxt /\ j.rcv_buf = k.rcv_buf /\ j.acklist = k.acklist
  <2>1. k \in Block
    BY BlockIs
  <2>. QED
    BY <1>5, <2>1 DEF Block
<1>7. BothAgree(k, kcp[Peer(e)], Said(net[e]), Said(net[Peer(e)]))
  BY <1>4, AgreedSays
<1>8. BothAgree(j, kcp[Peer(e)], Said(net[e]), Said(net[Peer(e)]))
  BY <1>6, <1>7, Untouched
<1>9. kcp'[e] = j /\ kcp'[Peer(e)] = kcp[Peer(e)]
  BY <1>1, <1>2, <1>4, <1>5, PeerIs
<1>10. Said(net'[e]) = Said(net[e]) /\ Said(net'[Peer(e)]) = Said(net[Peer(e)])
  BY <1>3
<1>11. PICK q, toE, toF : q = kcp[Peer(e)] /\ toE = Said(net[e]) /\ toF = Said(net[Peer(e)])
  OBVIOUS
<1>12. BothAgree(j, q, toE, toF) /\ kcp'[Peer(e)] = q /\ Said(net'[e]) = toE /\ Said(net'[Peer(e)]) = toF
  BY <1>8, <1>9, <1>10, <1>11
<1>. QED
  BY <1>3, <1>9, <1>12, AgreedNext

(* What the user takes may let segments in order move on.                  *)
LEMMA RecvAgreed ==
  ASSUME IInv, Agreed, NEW e \in Ends, Recv(e)
  PROVE  Agreed'
<1>1. /\ setup \in Setups /\ kcp \in [Ends -> Kept] /\ net \in [Ends -> SUBSET Datagram]
  BY DEF IInv
<1>2. PICK rest \in Seq(Fragment), probe \in SUBSET {"send", "tell"} :
        /\ [kcp[e] EXCEPT !.rcv_queue = rest] \in Kept
        /\ kcp' = [kcp EXCEPT ![e] = [MoveReady([kcp[e] EXCEPT !.rcv_queue = rest]) EXCEPT !.probe = probe]]
        /\ UNCHANGED <<setup, net, calls, sent>>
  BY RecvIs
<1>3. PICK k \in Kept, p \in Kept : k = kcp[e] /\ p = kcp[Peer(e)]
  BY <1>1, PeerIs
<1>4. PICK toE \in SUBSET Segment, toF \in SUBSET Segment :
        toE = Said(net[e]) /\ toF = Said(net[Peer(e)])
  BY <1>1, PeerIs, SaidIs
<1>5. BothAgree(k, p, toE, toF)
  BY <1>3, <1>4, AgreedSays
<1>6. PICK taken \in Kept : taken = [k EXCEPT !.rcv_queue = rest]
  BY <1>2, <1>3
<1>7. BothAgree(taken, p, toE, toF)
  <2>1. k \in Block
    BY BlockIs
  <2>2. /\ taken.snd_nxt = k.snd_nxt /\ taken.snd_una = k.snd_una /\ taken.snd_buf = k.snd_buf
        /\ taken.rcv_nxt = k.rcv_nxt /\ taken.rcv_buf = k.rcv_buf /\ taken.acklist = k.acklist
    BY <1>6, <2>1 DEF Block
  <2>. QED
    BY <1>5, <2>2, Untouched
<1>8. PICK left \in Kept : left = MoveReady(taken) /\ BothAgree(left, p, toE, toF)
  BY <1>1, <1>7, MoveReadyKeeps, MoveReadyAgrees
<1>9. PICK j : j = [left EXCEPT !.probe = probe]
  OBVIOUS
<1>10. BothAgree(j, p, toE, toF)
  <2>1. left \in Block
    BY BlockIs
  <2>2. /\ j.snd_nxt = left.snd_nxt /\ j.snd_una = left.snd_una /\ j.snd_buf = left.snd_buf
        /\ j.rcv_nxt = left.rcv_nxt /\ j.rcv_buf = left.rcv_buf /\ j.acklist = left.acklist
    BY <1>9, <2>1 DEF Block
  <2>. QED
    BY <1>8, <2>2, Untouched
<1>11. kcp' = [kcp EXCEPT ![e] = j]
  BY <1>2, <1>3, <1>6, <1>8, <1>9, Zenon
<1>12. kcp'[e] = j /\ kcp'[Peer(e)] = p
  BY <1>1, <1>3, <1>11, PeerIs
<1>13. Said(net'[e]) = toE /\ Said(net'[Peer(e)]) = toF /\ setup' = setup
  BY <1>2, <1>4
<1>. QED
  BY <1>10, <1>12, <1>13, AgreedNext

(* A datagram arrives, and may arrive again.                               *)
LEMMA InputAgreed ==
  ASSUME IInv, Agreed, NEW e \in Ends, Input(e) \/ InputRepeated(e)
  PROVE  Agreed'
<1>1. /\ setup \in Setups /\ kcp \in [Ends -> Kept] /\ net \in [Ends -> SUBSET Datagram]
  BY DEF IInv
<1>2. PICK d \in net[e] : Arrive(e, d) /\ (net' = [net EXCEPT ![e] = @ \ {d}] \/ net' = net)
  BY DEF Input, InputRepeated
<1>3. PICK k \in Kept, p \in Kept : k = kcp[e] /\ p = kcp[Peer(e)]
  BY <1>1, PeerIs
<1>4. PICK toE \in SUBSET Segment, toF \in SUBSET Segment :
        toE = Said(net[e]) /\ toF = Said(net[Peer(e)]) /\ d \in Seq(toE)
  BY <1>1, PeerIs, SaidIs
<1>5. BothAgree(k, p, toE, toF)
  BY <1>3, <1>4, AgreedSays
<1>6. PICK j : j = InputDatagram(k, d) /\ BothAgree(j, p, toE, toF)
  BY <1>1, <1>4, <1>5, InputDatagramAgrees
<1>7. kcp' = [kcp EXCEPT ![e] = InputDatagram(kcp[e], d)] /\ setup' = setup
  BY <1>1, <1>2 DEF Arrive
<1>8. kcp'[e] = j /\ kcp'[Peer(e)] = p
  BY <1>1, <1>3, <1>6, <1>7, PeerIs
<1>9. net'[e] \subseteq net[e] /\ net'[Peer(e)] = net[Peer(e)]
  BY <1>1, <1>2, PeerIs
<1>10. PICK less \in SUBSET toE : less = Said(net'[e])
  BY <1>4, <1>9, SaidLess
<1>11. BothAgree(j, p, less, toF)
  BY <1>6, <1>10, BothLess
<1>12. Said(net'[Peer(e)]) = toF
  BY <1>4, <1>9
<1>. QED
  BY <1>7, <1>8, <1>10, <1>11, <1>12, AgreedNext

(* What is still there is of what was there, and is not too old.           *)
LEMMA StillSays ==
  ASSUME IInv, NEW g \in Ends, NEW blocks
  PROVE  /\ StillThere(g, blocks) \in SUBSET net[g]
         /\ Said(StillThere(g, blocks)) \in SUBSET Said(net[g])
         /\ \A s \in Said(StillThere(g, blocks)) : Young(s, blocks[Peer(g)], blocks[g])
<1>1. StillThere(g, blocks) \in SUBSET net[g]
  BY DEF StillThere
<1>2. \A d \in StillThere(g, blocks) : \A s \in Range(d) : Young(s, blocks[Peer(g)], blocks[g])
  BY Zenon DEF StillThere, Range
<1>3. \A s \in Said(StillThere(g, blocks)) : Young(s, blocks[Peer(g)], blocks[g])
  BY <1>2, Zenon DEF Said
<1>. QED
  BY <1>1, <1>3, SaidLess

(* What a flush puts in datagrams is what it is about to say.              *)
LEMMA PackedSays ==
  ASSUME setup \in Setups, NEW k \in Kept, NEW m \in Kept, NEW again
  PROVE  /\ Packed(Segments(k, m, again)) \in Seq(Seq(Told(k, m)))
         /\ Said(Range(Packed(Segments(k, m, again)))) \in SUBSET Told(k, m)
<1>1. PICK x \in Seq(Seq(Told(k, m))) : x = Packed(Segments(k, m, again))
  BY SegmentsSay, PackedOf
<1>2. \A d \in Range(x) : d \in Seq(Told(k, m))
  BY DEF Range
<1>3. \A d \in Range(x) : Range(d) \in SUBSET Told(k, m)
  BY <1>2 DEF Range
<1>4. Said(Range(x)) \in SUBSET Told(k, m)
  BY <1>3, Zenon DEF Said
<1>. QED
  BY <1>1, <1>4

(* What an end hears does not change what it will send next.               *)
LEMMA InputLeavesNext ==
  ASSUME setup \in Setups, NEW k \in Kept, NEW seg \in Segment
  PROVE  InputSegment(k, seg).snd_nxt = k.snd_nxt
<1>1. /\ seg.cmd \in {"ack", "push", "wask", "wins"} /\ seg.wnd \in Nat
      /\ seg.sn \in Num /\ seg.una \in Num
  BY DEF Segment
<1>2. PICK j \in Kept : j = [k EXCEPT !.rmt_wnd = seg.wnd] /\ j.snd_nxt = k.snd_nxt
  <2>1. /\ k \in Block /\ k.probe \in SUBSET {"send", "tell"} /\ k.probe_wait \in BOOLEAN
        /\ k.acklist \in Seq(Num)
    BY BlockIs
  <2>2. [k EXCEPT !.rmt_wnd = seg.wnd, !.probe = k.probe, !.probe_wait = k.probe_wait,
                  !.acklist = k.acklist] \in Kept
    BY <1>1, <2>1, WordsChanged
  <2>3. PICK j \in Kept : j = [k EXCEPT !.rmt_wnd = seg.wnd]
    BY <2>1, <2>2 DEF Block
  <2>. QED
    BY <2>1, <2>3 DEF Block
<1>3. PICK i \in Kept : i = ParseUna(j, seg.una) /\ i.snd_nxt = j.snd_nxt
  <2>1. j \in Block
    BY BlockIs
  <2>2. ParseUna(j, seg.una).snd_nxt = j.snd_nxt
    BY <2>1 DEF ParseUna, Block
  <2>. QED
    BY <1>1, <2>2, ParseUnaKeeps
<1>4. PICK heard \in Kept : /\ heard = ShrinkBuf(ParseUna([k EXCEPT !.rmt_wnd = seg.wnd], seg.una))
                            /\ heard.snd_nxt = k.snd_nxt
  <2>1. i \in Block
    BY BlockIs
  <2>2. ShrinkBuf(i).snd_nxt = i.snd_nxt
    BY <2>1 DEF ShrinkBuf, Block
  <2>. QED
    BY <1>2, <1>3, <2>2, ShrinkBufKeeps
<1>5. heard \in Block
  BY BlockIs
<1>6. CASE seg.cmd = "ack"
  <2>1. InputSegment(k, seg) = ShrinkBuf(ParseAck(heard, seg.sn))
    BY <1>4, <1>6 DEF InputSegment
  <2>2. ParseAck(heard, seg.sn).snd_nxt = heard.snd_nxt
    BY <1>5 DEF ParseAck, Block
  <2>3. PICK a \in Kept : a = ParseAck(heard, seg.sn)
    BY <1>1, ParseAckKeeps
  <2>4. a \in Block
    BY BlockIs
  <2>5. ShrinkBuf(a).snd_nxt = a.snd_nxt
    BY <2>4 DEF ShrinkBuf, Block
  <2>. QED
    BY <1>4, <2>1, <2>2, <2>3, <2>5
<1>7. CASE seg.cmd = "push"
  <2>1. InputSegment(k, seg) = ParsePush(heard, seg)
    BY <1>4, <1>7 DEF InputSegment
  <2>2. ParsePush(heard, seg).snd_nxt = heard.snd_nxt
    BY <1>5 DEF ParsePush, MoveReady, Block
  <2>. QED
    BY <1>4, <2>1, <2>2
<1>8. CASE seg.cmd = "wask"
  <2>1. InputSegment(k, seg) = [heard EXCEPT !.probe = @ \cup {"tell"}]
    BY <1>4, <1>8 DEF InputSegment
  <2>. QED
    BY <1>4, <1>5, <2>1 DEF Block
<1>9. CASE seg.cmd = "wins"
  <2>1. InputSegment(k, seg) = heard
    BY <1>4, <1>9 DEF InputSegment
  <2>. QED
    BY <1>4, <2>1
<1>. QED
  BY <1>1, <1>6, <1>7, <1>8, <1>9

LEMMA InputsLeaveNext ==
  ASSUME setup \in Setups, NEW k \in Kept, NEW s \in Seq(Seq(Segment))
  PROVE  Along(InputDatagram, k, s) \in Kept /\ Along(InputDatagram, k, s).snd_nxt = k.snd_nxt
<1> DEFINE D == {j \in Kept : j.snd_nxt = k.snd_nxt}
<1>1. k \in D
  OBVIOUS
<1>2. \A j \in D, y \in Segment : InputSegment(j, y) \in D
  BY InputSegmentKeeps, InputLeavesNext
<1>3. \A j \in D, y \in Seq(Segment) : InputDatagram(j, y) \in D
  <2> HIDE DEF D
  <2>. QED
    BY <1>2, InputDatagramIn
<1>4. Along(InputDatagram, k, s) \in D
  <2> DEFINE S == Seq(Segment)
  <2>1. s \in Seq(S) /\ \A j \in D, y \in S : InputDatagram(j, y) \in D
    BY <1>3
  <2> HIDE DEF D, S
  <2>. QED
    BY <1>1, <2>1, InputDatagramsIn
<1>. QED
  BY <1>4

(* A flush, after which some datagrams are lost or too old.                *)
LEMMA FlushAgreed ==
  ASSUME IInv, Agreed, NEW e \in Ends, Flush(e)
  PROVE  Agreed'
<1>1. /\ setup \in Setups /\ kcp \in [Ends -> Kept] /\ net \in [Ends -> SUBSET Datagram]
  BY DEF IInv
<1>2. PICK due \in BOOLEAN, k \in Kept, m \in Kept :
           \E n \in 0 .. Room(k), again \in SUBSET SentBefore(kcp[e]) :
             /\ k = Probe(kcp[e], due) /\ m = MoveNew(k, n)
             /\ kcp' = [kcp EXCEPT ![e] = Flushed(m)]
             /\ \E kept \in SUBSET (StillThere(Peer(e), kcp') \cup Range(Packed(Segments(k, m, again)))) :
                  net' = [g \in Ends |-> IF g = Peer(e) THEN kept ELSE StillThere(g, kcp')]
             /\ UNCHANGED <<setup, calls, sent, delivered>>
  BY FlushIs
<1>3. PICK n \in 0 .. Room(k), again \in SUBSET SentBefore(kcp[e]) :
             /\ k = Probe(kcp[e], due) /\ m = MoveNew(k, n)
             /\ kcp' = [kcp EXCEPT ![e] = Flushed(m)]
             /\ \E kept \in SUBSET (StillThere(Peer(e), kcp') \cup Range(Packed(Segments(k, m, again)))) :
                  net' = [g \in Ends |-> IF g = Peer(e) THEN kept ELSE StillThere(g, kcp')]
             /\ UNCHANGED <<setup, calls, sent, delivered>>
  BY <1>2, Zenon
<1>4. PICK f \in Ends : f = Peer(e) /\ f # e /\ Peer(f) = e
  BY PeerIs, PeerPeer
<1>5. PICK k0 \in Kept, p \in Kept : k0 = kcp[e] /\ p = kcp[f]
  BY <1>1
<1>6. PICK toE \in SUBSET Segment, toF \in SUBSET Segment : toE = Said(net[e]) /\ toF = Said(net[f])
  BY <1>1, SaidIs
<1>7. BothAgree(k0, p, toE, toF)
  BY <1>4, <1>5, <1>6, AgreedSays
<1>8. PICK j \in Kept : j = Flushed(m) /\ j.snd_nxt = m.snd_nxt
  BY FlushedKeeps, FlushedLeaves
<1>9. PICK blocks : blocks = kcp' /\ blocks[e] = j /\ blocks[f] = p
  <2>1. kcp' = [kcp EXCEPT ![e] = j]
    BY <1>3, <1>8, Zenon
  <2>. QED
    BY <1>1, <1>4, <1>5, <2>1
<1>10. PICK kept \in SUBSET (StillThere(Peer(e), kcp') \cup Range(Packed(Segments(k, m, again)))) :
         net' = [g \in Ends |-> IF g = Peer(e) THEN kept ELSE StillThere(g, kcp')]
  BY <1>3, Zenon
<1>11. /\ net'[e] = StillThere(e, blocks) /\ net'[f] = kept
       /\ kept \in SUBSET (StillThere(f, blocks) \cup Range(Packed(Segments(k, m, again))))
  <2>1. net'[e] = StillThere(e, kcp') /\ net'[f] = kept
    BY <1>4, <1>10
  <2>. QED
    BY <1>4, <1>9, <1>10, <2>1, Zenon
<1>12. PICK lessK \in SUBSET toE : /\ lessK = Said(net'[e])
                                   /\ \A s \in lessK : Young(s, blocks[f], blocks[e])
  BY <1>4, <1>6, <1>11, StillSays
<1>13. PICK moreP : moreP = Said(kept)
  OBVIOUS
<1>14. ASSUME NEW s \in moreP
       PROVE  \/ s \in Told(k, m)
              \/ s \in toF /\ Young(s, blocks[e], blocks[f])
  <2>1. PICK d \in kept : s \in Range(d)
    BY <1>13, Zenon DEF Said
  <2>2. d \in StillThere(f, blocks) \/ d \in Range(Packed(Segments(k, m, again)))
    BY <1>11, <2>1
  <2>3. CASE d \in StillThere(f, blocks)
    <3>1. s \in Said(StillThere(f, blocks))
      BY <2>1, <2>3, Zenon DEF Said
    <3>2. s \in Said(net[f]) /\ Young(s, blocks[Peer(f)], blocks[f])
      BY <3>1, StillSays
    <3>. QED
      BY <1>4, <1>6, <3>2
  <2>4. CASE d \in Range(Packed(Segments(k, m, again)))
    <3>1. s \in Said(Range(Packed(Segments(k, m, again))))
      BY <2>1, <2>4, Zenon DEF Said
    <3>2. s \in Told(k, m)
      BY <1>1, <3>1, PackedSays
    <3>. QED
      BY <3>2
  <2>. QED
    BY <2>2, <2>3, <2>4
<1>15. moreP \in SUBSET Segment
  BY <1>14, Zenon DEF Told
<1>16. SaidOn(k, m, n, toF, moreP)
  BY <1>8, <1>9, <1>14, Zenon DEF Young, SaidOn
<1>17. HeardOn(m, n, lessK)
  BY <1>8, <1>9, <1>12, Zenon DEF Young, HeardOn
<1>18. k = Probe(k0, due) /\ m = MoveNew(k, n)
  BY <1>3, <1>5, Zenon
<1>19. n \in Nat /\ Moved(k, m, n)
  <2>1. m = MoveNew(k, n)
    BY <1>18
  <2>. QED
    BY <1>1, <2>1, MoveNewIs
<1>20. BothAgree(j, p, lessK, moreP)
  <2>1. setup \in Setups /\ BothAgree(k0, p, toE, toF) /\ k = Probe(k0, due)
    BY <1>1, <1>7, <1>18
  <2>2. BothAgree(Flushed(m), p, lessK, moreP)
    BY <1>15, <1>16, <1>17, <1>19, <2>1, FlushAgrees
  <2>. QED
    BY <1>8, <2>2
<1>21. /\ setup' = setup /\ kcp'[e] = j /\ kcp'[Peer(e)] = p
       /\ Said(net'[e]) = lessK /\ Said(net'[Peer(e)]) = moreP
  <2>1. setup' = setup
    BY <1>3
  <2>. QED
    BY <1>4, <1>9, <1>11, <1>12, <1>13, <2>1
<1>. QED
  BY <1>20, <1>21, AgreedNext

(* A round trip is a flush, its arrival, the answer and its arrival.       *)
LEMMA RoundTripAgreed ==
  ASSUME IInv, Agreed, NEW e \in Ends, RoundTrip(e)
  PROVE  Agreed'
<1>1. /\ setup \in Setups /\ kcp \in [Ends -> Kept] /\ net \in [Ends -> SUBSET Datagram]
  BY DEF IInv
<1>2. PICK k \in Kept, m \in Kept, heard \in Kept, p \in Kept, answered \in Kept :
           \E out \in Seq(Datagram), back \in Seq(Datagram) :
             /\ k = Probe(kcp[e], TRUE) /\ m = MoveNew(k, Room(k))
             /\ out = Packed(Segments(k, m, SentBefore(k)))
             /\ heard = Along(InputDatagram, kcp[Peer(e)], out) /\ p = Probe(heard, FALSE)
             /\ back = Packed(Segments(p, p, {}))
             /\ answered = Along(InputDatagram, Flushed(m), back)
             /\ kcp' = [kcp EXCEPT ![e] = answered, ![Peer(e)] = Flushed(p)]
             /\ net' = [g \in Ends |-> StillThere(g, kcp')]
             /\ UNCHANGED <<setup, calls, sent, delivered>>
  BY RoundTripIs
<1>3. PICK f \in Ends : f = Peer(e) /\ f # e /\ Peer(f) = e
  BY PeerIs, PeerPeer
<1>4. PICK k0 \in Kept, p0 \in Kept : k0 = kcp[e] /\ p0 = kcp[f]
  BY <1>1
<1>5. PICK toE \in SUBSET Segment, toF \in SUBSET Segment : toE = Said(net[e]) /\ toF = Said(net[f])
  BY <1>1, SaidIs
<1>6. BothAgree(k0, p0, toE, toF)
  BY <1>3, <1>4, <1>5, AgreedSays
<1>7. PICK n \in 0 .. Room(k) : n = Room(k)
  <2>1. Room(k) \in Nat
    BY <1>1, RoomIs
  <2>. QED
    BY <2>1
<1>8. PICK yes \in BOOLEAN, no \in BOOLEAN :
        k = Probe(k0, yes) /\ m = MoveNew(k, n) /\ p = Probe(heard, no)
  BY <1>2, <1>4, <1>7, Zenon
<1>9. PICK out, back : out = Packed(Segments(k, m, SentBefore(k))) /\ back = Packed(Segments(p, p, {}))
  OBVIOUS
<1>10. heard = Along(InputDatagram, p0, out) /\ answered = Along(InputDatagram, Flushed(m), back)
  BY <1>2, <1>3, <1>4, <1>9, Zenon
<1>11. out \in Seq(Seq(Told(k, m))) /\ back \in Seq(Seq(Told(p, p)))
  BY <1>1, <1>9, PackedSays
<1>12. PICK j \in Kept, q \in Kept : /\ j = Flushed(m) /\ q = Flushed(p)
                                      /\ j.snd_nxt = m.snd_nxt /\ q.snd_nxt = p.snd_nxt
  BY FlushedKeeps, FlushedLeaves
<1>13. PICK blocks : blocks = kcp' /\ blocks[e] = answered /\ blocks[f] = q
  <2>1. kcp' = [kcp EXCEPT ![e] = answered, ![f] = q]
    BY <1>2, <1>3, <1>12, Zenon
  <2>. QED
    BY <1>1, <1>3, <2>1
<1>14. net'[e] = StillThere(e, blocks) /\ net'[f] = StillThere(f, blocks)
  <2>1. net' = [g \in Ends |-> StillThere(g, blocks)]
    BY <1>2, <1>13, Zenon
  <2>. QED
    BY <2>1
<1>15. PICK lessE \in SUBSET toE : /\ lessE = Said(net'[e])
                                   /\ \A s \in lessE : Young(s, blocks[f], blocks[e])
  BY <1>3, <1>5, <1>14, StillSays
<1>16. PICK lessF \in SUBSET toF : /\ lessF = Said(net'[f])
                                   /\ \A s \in lessF : Young(s, blocks[e], blocks[f])
  BY <1>3, <1>5, <1>14, StillSays
<1>17. PICK moreF \in SUBSET Segment : moreF = lessF \cup Told(k, m)
  BY DEF Told
<1>18. PICK moreE \in SUBSET Segment : moreE = lessE \cup Told(p, p)
  BY DEF Told
<1>19. out \in Seq(Seq(moreF)) /\ back \in Seq(Seq(moreE))
  <2>1. Told(k, m) \subseteq moreF /\ Told(p, p) \subseteq moreE
    BY <1>17, <1>18
  <2>2. Seq(Told(k, m)) \subseteq Seq(moreF) /\ Seq(Told(p, p)) \subseteq Seq(moreE)
    BY <2>1
  <2>3. \A S, T : S \subseteq T => Seq(S) \subseteq Seq(T)
    OBVIOUS
  <2>. QED
    BY <1>11, <2>2, <2>3, Zenon
<1>20. answered.snd_nxt = m.snd_nxt /\ q.snd_nxt = p0.snd_nxt
  <2>1. out \in Seq(Seq(Segment)) /\ back \in Seq(Seq(Segment))
    BY <1>19
  <2>2. answered.snd_nxt = j.snd_nxt
    BY <1>1, <1>10, <1>12, <2>1, InputsLeaveNext
  <2>3. heard.snd_nxt = p0.snd_nxt
    BY <1>1, <1>10, <2>1, InputsLeaveNext
  <2>4. p.snd_nxt = heard.snd_nxt
    BY <1>8, ProbeLeaves
  <2>. QED
    BY <1>12, <2>2, <2>3, <2>4
<1>21. BothAgree(j, p0, lessE, moreF)
  <2>1. SaidOn(k, m, n, toF, moreF)
    BY <1>13, <1>16, <1>17, <1>20, Zenon DEF Young, SaidOn
  <2>2. HeardOn(m, n, lessE)
    BY <1>13, <1>15, <1>20, Zenon DEF Young, HeardOn
  <2>3. n \in Nat /\ Moved(k, m, n)
    <3>1. m = MoveNew(k, n)
      BY <1>8
    <3>. QED
      BY <1>1, <3>1, MoveNewIs
  <2>4. setup \in Setups /\ BothAgree(k0, p0, toE, toF) /\ k = Probe(k0, yes)
    BY <1>1, <1>6, <1>8
  <2>5. BothAgree(Flushed(m), p0, lessE, moreF)
    BY <2>1, <2>2, <2>3, <2>4, FlushAgrees
  <2>. QED
    BY <1>12, <2>5
<1>22. lessE \in SUBSET Segment /\ lessF \in SUBSET Segment
  OBVIOUS
<1>23. BothAgree(heard, j, moreF, lessE)
  <2>1. BothAgree(p0, j, moreF, lessE)
    BY <1>21, BothWays
  <2>. QED
    BY <1>1, <1>10, <1>19, <1>22, <2>1, InputDatagramsAgree
<1>24. BothAgree(q, j, lessF, moreE)
  <2>1. PICK z \in Nat : z = 0
    OBVIOUS
  <2>2. SaidOn(p, p, z, lessE, moreE)
    BY <1>18, <2>1, Zenon DEF SaidOn
  <2>3. HeardOn(p, z, lessF)
    BY <2>1, Zenon DEF HeardOn
  <2>4. Moved(p, p, z)
    <3>1. Unacked(p) \in Nat /\ Unacked(p) <= setup.snd_wnd
      BY <1>1, SentAges
    <3>2. PICK x \in Num : x = p.snd_nxt
      BY BlockIs
    <3>3. 0 \in 0 .. Modulus /\ x < Modulus /\ x + 0 = x
      BY Modular DEF Num
    <3>4. p.snd_nxt = Plus(p.snd_nxt, z)
      BY <2>1, <3>2, <3>3, NumIs
    <3>5. {Plus(p.snd_nxt, i - 1) : i \in 1 .. z} = {}
      BY <2>1
    <3>6. Unacked(p) + z <= setup.snd_wnd
      BY <2>1, <3>1
    <3>. QED
      BY <3>4, <3>5, <3>6 DEF Moved
  <2>5. lessF \in SUBSET moreF
    BY <1>17
  <2>6. setup \in Setups /\ BothAgree(heard, j, moreF, lessE) /\ p = Probe(heard, no)
    BY <1>1, <1>8, <1>23
  <2>7. BothAgree(Flushed(p), j, lessF, moreE)
    BY <1>22, <2>2, <2>3, <2>4, <2>5, <2>6, FlushAgrees
  <2>. QED
    BY <1>12, <2>7
<1>25. BothAgree(answered, q, moreE, lessF)
  <2>1. BothAgree(j, q, moreE, lessF)
    BY <1>24, BothWays
  <2>. QED
    BY <1>1, <1>10, <1>12, <1>19, <1>22, <2>1, InputDatagramsAgree
<1>26. BothAgree(answered, q, lessE, lessF)
  BY <1>18, <1>25, BothLess
<1>27. /\ setup' = setup /\ kcp'[e] = answered /\ kcp'[Peer(e)] = q
       /\ Said(net'[e]) = lessE /\ Said(net'[Peer(e)]) = lessF
  <2>1. setup' = setup
    BY <1>2
  <2>. QED
    BY <1>3, <1>13, <1>15, <1>16, <2>1
<1>. QED
  BY <1>26, <1>27, AgreedNext

(* Every step keeps the agreement.                                         *)
LEMMA AgreedKept ==
  ASSUME IInv, Agreed, [Next]_vars
  PROVE  Agreed'
<1>1. CASE UNCHANGED vars
  <2>1. UNCHANGED <<setup, kcp, net>>
    BY <1>1 DEF vars
  <2>2. ASSUME NEW e \in Ends
        PROVE  Agreed'
    <3>1. PICK j, q, toE, toF : /\ j = kcp[e] /\ q = kcp[Peer(e)]
                                /\ toE = Said(net[e]) /\ toF = Said(net[Peer(e)])
      OBVIOUS
    <3>2. BothAgree(j, q, toE, toF)
      BY <3>1, AgreedSays
    <3>. QED
      BY <2>1, <3>1, <3>2, AgreedNext
  <2>. QED
    BY <2>2, KcpAssumption
<1>2. CASE Next
  <2>1. PICK e \in Ends : \/ Send(e) \/ Recv(e)
                          \/ Input(e) \/ InputRepeated(e)
                          \/ Flush(e) \/ RoundTrip(e)
    BY <1>2, Zenon DEF Next
  <2>. QED
    BY <2>1, SendAgreed, RecvAgreed, InputAgreed, FlushAgreed, RoundTripAgreed
<1>. QED
  BY <1>1, <1>2

(* What the agreement says of acknowledgements.                            *)
LEMMA AgreedIsReceived ==
  ASSUME IInv, Agreed
  PROVE  AckedIsReceived
<1>1. setup \in Setups /\ kcp \in [Ends -> Kept]
  BY DEF IInv
<1>2. ASSUME NEW e \in Ends
      PROVE  LET ahead == Diff(kcp[e].snd_nxt, kcp[Peer(e)].rcv_nxt)
             IN  /\ ahead >= 0
                 /\ \A sn \in {Plus(kcp[Peer(e)].rcv_nxt, i) : i \in 0 .. ahead - 1} :
                      \E seg \in Range(kcp[e].snd_buf) \cup Range(kcp[Peer(e)].rcv_buf) : seg.sn = sn
  <2>1. kcp[e] \in Kept /\ kcp[Peer(e)] \in Kept
    BY <1>1, PeerIs
  <2>2. Covered(kcp[e], kcp[Peer(e)])
    BY Zenon DEF Agreed, Agree
  <2>. QED
    BY <1>1, <2>1, <2>2, CoveredSays
<1>. QED
  BY <1>2, Zenon DEF AckedIsReceived

(* Until the other end has put a segment in order, the sender holds it or  *)
(* it waits there in rcv_buf: no acknowledgement, repeated or late, makes  *)
(* the sender forget one that is still needed (ikcp.c:580-615, 693-750).   *)
THEOREM AckedIsReceivedHolds == Spec => []AckedIsReceived
<1>1. Init => IInv /\ Agreed
  BY InitKeeps, InitAgreed
<1>2. IInv /\ Agreed /\ [Next]_vars => (IInv /\ Agreed)'
  BY NextKeeps, AgreedKept
<1>3. IInv /\ Agreed => AckedIsReceived
  BY AgreedIsReceived
<1>. QED
  BY <1>1, <1>2, <1>3, PTL DEF Spec

=============================================================================
