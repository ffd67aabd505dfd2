-------------------------- MODULE NetxPoll_proofs ---------------------------
(***************************************************************************)
(* Proofs about one poll of netx: its three linked structures, for any     *)
(* number of items and descriptors, under any calls.                       *)
(*                                                                         *)
(* First what a single change of the links does to a list, whatever the    *)
(* other lists are: sequences stand for what a walk along them meets.      *)
(* Then that a walk meets one sequence only, so that Ring and Chain are    *)
(* what the invariant says they are; then the invariant.                   *)
(*                                                                         *)
(* Last, what the lists hold as a table of descriptors, and that each call *)
(* does to the table what EventPoll promises.                              *)
(***************************************************************************)
EXTENDS NetxPoll, SequenceTheorems, FunctionTheorems, FiniteSetTheorems, WellFoundedInduction, TLAPS

(* What IsChain and IsRing say of the links at hand, of any links.         *)
Linked(s, i, hn) ==
    /\ i = IF s = <<>> THEN 0 ELSE s[1]
    /\ \A k \in 1 .. Len(s) : hn[s[k]] = IF k = Len(s) THEN 0 ELSE s[k + 1]

After(s, k) == IF k = Len(s) THEN s[1] ELSE s[k + 1]

Closed(s, u, nx, pv) ==
    /\ u = IF s = <<>> THEN 0 ELSE s[1]
    /\ \A k \in 1 .. Len(s) : nx[s[k]] = After(s, k) /\ pv[After(s, k)] = s[k]

Pointers == [Items -> Links]
Once(s) == s \in Seq(Items) /\ \A j, k \in 1 .. Len(s) : s[j] = s[k] => j = k
In(i, s) == \E k \in 1 .. Len(s) : s[k] = i

(* Item i before and behind s, and s without its item at k.                *)
InFront(i, s) == [k \in 1 .. Len(s) + 1 |-> IF k = 1 THEN i ELSE s[k - 1]]
AtEnd(s, i) == [k \in 1 .. Len(s) + 1 |-> IF k = Len(s) + 1 THEN i ELSE s[k]]
Cut(s, k) == [j \in 1 .. Len(s) - 1 |-> IF j < k THEN s[j] ELSE s[j + 1]]

LEMMA InFrontIs ==
  ASSUME NEW s, Once(s), NEW i \in Items, ~ In(i, s)
  PROVE  /\ Once(InFront(i, s)) /\ Len(InFront(i, s)) = Len(s) + 1 /\ InFront(i, s) # <<>>
         /\ InFront(i, s)[1] = i /\ \A k \in 1 .. Len(s) : InFront(i, s)[k + 1] = s[k]
         /\ \A j \in Items : In(j, InFront(i, s)) <=> j = i \/ In(j, s)
<1> DEFINE t == InFront(i, s)
<1>1. Len(s) \in Nat /\ \A k \in 1 .. Len(s) : s[k] \in Items
  BY DEF Once
<1>2. t \in Seq(Items) /\ Len(t) = Len(s) + 1 /\ t # <<>>
  BY <1>1 DEF InFront
<1>3. t[1] = i /\ \A k \in 1 .. Len(s) : t[k + 1] = s[k]
  BY <1>1 DEF InFront
<1> HIDE DEF t
<1>4. \A k \in 1 .. Len(t) : k = 1 \/ (k - 1 \in 1 .. Len(s) /\ t[k] = s[k - 1])
  <2>1. ASSUME NEW k \in 1 .. Len(t), k # 1
        PROVE  k - 1 \in 1 .. Len(s) /\ t[k] = s[k - 1]
    <3>1. k - 1 \in 1 .. Len(s) /\ (k - 1) + 1 = k
      BY <1>1, <1>2, <2>1
    <3>. QED
      BY <1>3, <3>1
  <2>. QED
    BY <2>1
<1>5. Once(t)
  <2>1. ASSUME NEW j \in 1 .. Len(t), NEW k \in 1 .. Len(t), t[j] = t[k]
        PROVE  j = k
    <3>1. \A m \in 1 .. Len(t) : m = 1 <=> t[m] = i
      BY <1>3, <1>4 DEF In
    <3>2. CASE j = 1 \/ k = 1
      BY <2>1, <3>1, <3>2
    <3>3. CASE j # 1 /\ k # 1
      <4>1. /\ j - 1 \in 1 .. Len(s) /\ t[j] = s[j - 1]
            /\ k - 1 \in 1 .. Len(s) /\ t[k] = s[k - 1]
        BY <1>4, <3>3
      <4>2. j - 1 = k - 1
        BY <2>1, <4>1 DEF Once
      <4>. QED
        BY <1>2, <1>1, <4>2
    <3>. QED
      BY <3>2, <3>3
  <2>. QED
    BY <1>2, <2>1 DEF Once
<1>6. \A j \in Items : In(j, t) <=> j = i \/ In(j, s)
  <2>1. 1 \in 1 .. Len(t) /\ \A k \in 1 .. Len(s) : k + 1 \in 1 .. Len(t)
    BY <1>1, <1>2
  <2>2. ASSUME NEW j \in Items, In(j, t)
        PROVE  j = i \/ In(j, s)
    <3>1. PICK k \in 1 .. Len(t) : t[k] = j
      BY <2>2 DEF In
    <3>. QED
      BY <1>3, <1>4, <3>1 DEF In
  <2>3. ASSUME NEW j \in Items, j = i \/ In(j, s)
        PROVE  In(j, t)
    <3>1. CASE j = i
      BY <1>3, <2>1, <3>1 DEF In
    <3>2. CASE In(j, s)
      <4>1. PICK k \in 1 .. Len(s) : s[k] = j
        BY <3>2 DEF In
      <4>. QED
        BY <1>3, <2>1, <4>1 DEF In
    <3>. QED
      BY <2>3, <3>1, <3>2
  <2>. QED
    BY <2>2, <2>3
<1>. QED
  BY <1>2, <1>3, <1>5, <1>6 DEF t

LEMMA AtEndIs ==
  ASSUME NEW s, Once(s), NEW i \in Items, ~ In(i, s)
  PROVE  /\ Once(AtEnd(s, i)) /\ Len(AtEnd(s, i)) = Len(s) + 1 /\ AtEnd(s, i) # <<>>
         /\ AtEnd(s, i)[Len(s) + 1] = i /\ \A k \in 1 .. Len(s) : AtEnd(s, i)[k] = s[k]
         /\ \A j \in Items : In(j, AtEnd(s, i)) <=> j = i \/ In(j, s)
<1> DEFINE t == AtEnd(s, i)
<1>1. Len(s) \in Nat /\ \A k \in 1 .. Len(s) : s[k] \in Items
  BY DEF Once
<1>2. t \in Seq(Items) /\ Len(t) = Len(s) + 1 /\ t # <<>>
  BY <1>1 DEF AtEnd
<1>3. t[Len(s) + 1] = i /\ \A k \in 1 .. Len(s) : t[k] = s[k]
  BY <1>1 DEF AtEnd
<1> HIDE DEF t
<1>4. \A k \in 1 .. Len(t) : k = Len(s) + 1 \/ k \in 1 .. Len(s)
  BY <1>1, <1>2
<1>5. Once(t)
  BY <1>1, <1>2, <1>3, <1>4 DEF Once, In
<1>6. \A j \in Items : In(j, t) <=> j = i \/ In(j, s)
  <2>1. Len(s) + 1 \in 1 .. Len(t) /\ \A k \in 1 .. Len(s) : k \in 1 .. Len(t)
    BY <1>1, <1>2
  <2>. QED
    BY <1>3, <1>4, <2>1 DEF In
<1>. QED
  BY <1>2, <1>3, <1>5, <1>6 DEF t

LEMMA CutIs ==
  ASSUME NEW s, Once(s), NEW k \in 1 .. Len(s)
  PROVE  /\ Once(Cut(s, k)) /\ Len(Cut(s, k)) = Len(s) - 1
         /\ \A j \in 1 .. Len(s) - 1 : Cut(s, k)[j] = IF j < k THEN s[j] ELSE s[j + 1]
         /\ \A j \in Items : In(j, Cut(s, k)) <=> j # s[k] /\ In(j, s)
<1> DEFINE t == Cut(s, k)
<1>1. Len(s) \in Nat \ {0} /\ \A j \in 1 .. Len(s) : s[j] \in Items
  BY DEF Once
<1>2. \A j \in 1 .. Len(s) - 1 : j \in 1 .. Len(s) /\ j + 1 \in 1 .. Len(s)
  BY <1>1
<1>3. t \in Seq(Items) /\ Len(t) = Len(s) - 1
  <2>1. Len(s) - 1 \in Nat
    BY <1>1
  <2>. QED
    BY <1>1, <1>2, <2>1 DEF Cut
<1>4. \A j \in 1 .. Len(s) - 1 : t[j] = IF j < k THEN s[j] ELSE s[j + 1]
  BY <1>1 DEF Cut
<1> HIDE DEF t
<1>5. Once(t)
  <2>1. ASSUME NEW i \in 1 .. Len(t), NEW j \in 1 .. Len(t), t[i] = t[j]
        PROVE  i = j
    <3>1. \A m \in 1 .. Len(t) : m \in Nat /\ m \in 1 .. Len(s) - 1
      BY <1>1, <1>3
    <3>2. /\ t[i] = IF i < k THEN s[i] ELSE s[i + 1]
          /\ t[j] = IF j < k THEN s[j] ELSE s[j + 1]
      BY <1>4, <3>1
    <3>3. \A m, n \in 1 .. Len(s) : s[m] = s[n] => m = n
      BY DEF Once
    <3>4. CASE i < k /\ j < k
      BY <1>2, <2>1, <3>1, <3>2, <3>3, <3>4
    <3>5. CASE i < k /\ ~ (j < k)
      <4>1. s[i] = s[j + 1]
        BY <2>1, <3>2, <3>5
      <4>2. i = j + 1
        BY <1>2, <3>1, <3>3, <4>1
      <4>. QED
        BY <3>1, <3>5, <4>2
    <3>6. CASE ~ (i < k) /\ j < k
      <4>1. s[i + 1] = s[j]
        BY <2>1, <3>2, <3>6
      <4>2. i + 1 = j
        BY <1>2, <3>1, <3>3, <4>1
      <4>. QED
        BY <3>1, <3>6, <4>2
    <3>7. CASE ~ (i < k) /\ ~ (j < k)
      <4>1. s[i + 1] = s[j + 1]
        BY <2>1, <3>2, <3>7
      <4>2. i + 1 = j + 1
        BY <1>2, <3>1, <3>3, <4>1
      <4>. QED
        BY <3>1, <4>2
    <3>. QED
      BY <3>4, <3>5, <3>6, <3>7
  <2>. QED
    BY <1>3, <2>1 DEF Once
<1>6. ASSUME NEW j \in Items
      PROVE  In(j, t) <=> j # s[k] /\ In(j, s)
  <2>1. ASSUME NEW m \in 1 .. Len(t), t[m] = j
        PROVE  j # s[k] /\ In(j, s)
    <3>1. CASE m < k
      <4>1. m \in 1 .. Len(s) /\ s[m] = j /\ m # k
        BY <1>1, <1>2, <1>3, <1>4, <2>1, <3>1
      <4>. QED
        BY <4>1 DEF Once, In
    <3>2. CASE ~ (m < k)
      <4>1. m + 1 \in 1 .. Len(s) /\ s[m + 1] = j /\ m + 1 # k
        BY <1>1, <1>2, <1>3, <1>4, <2>1, <3>2
      <4>. QED
        BY <4>1 DEF Once, In
    <3>. QED
      BY <3>1, <3>2
  <2>2. ASSUME NEW m \in 1 .. Len(s), s[m] = j, j # s[k]
        PROVE  In(j, t)
    <3>1. CASE m < k
      <4>1. m \in 1 .. Len(t) /\ t[m] = j
        BY <1>1, <1>3, <1>4, <2>2, <3>1
      <4>. QED
        BY <4>1 DEF In
    <3>2. CASE m > k
      <4>1. m - 1 \in 1 .. Len(t) /\ ~ (m - 1 < k) /\ (m - 1) + 1 = m
        BY <1>1, <1>3, <2>2, <3>2
      <4>2. t[m - 1] = j
        BY <1>3, <1>4, <2>2, <4>1
      <4>. QED
        BY <4>1, <4>2 DEF In
    <3>. QED
      BY <1>1, <2>2, <3>1, <3>2
  <2>. QED
    BY <2>1, <2>2 DEF In
<1>. QED
  BY <1>3, <1>4, <1>5, <1>6 DEF t

(***************************************************************************)
(* Lists linked one way.                                                   *)
(***************************************************************************)

(* What a list does not link does not matter to it. *)
LEMMA LinkedSame ==
  ASSUME NEW s, Once(s), NEW p, NEW hn, NEW hn2, Linked(s, p, hn),
         \A j \in Items : In(j, s) => hn2[j] = hn[j]
  PROVE  Linked(s, p, hn2)
<1>1. \A k \in 1 .. Len(s) : s[k] \in Items /\ In(s[k], s)
  BY DEF Once, In
<1>. QED
  BY <1>1 DEF Linked

(* The first item leaves, as a free item does. *)
LEMMA LinkedTail ==
  ASSUME NEW s, Once(s), s # <<>>, NEW p, NEW hn, Linked(s, p, hn)
  PROVE  /\ p = s[1] /\ p \in Items /\ In(p, s) /\ 1 \in 1 .. Len(s)
         /\ Linked(Cut(s, 1), hn[p], hn)
<1>1. Len(s) \in Nat \ {0} /\ 1 \in 1 .. Len(s)
  BY DEF Once
<1>2. p = s[1] /\ p \in Items /\ In(p, s)
  BY <1>1 DEF Once, Linked, In
<1> DEFINE t == Cut(s, 1)
<1>3. Once(t) /\ Len(t) = Len(s) - 1
  BY <1>1, CutIs
<1>4. \A j \in 1 .. Len(s) - 1 : t[j] = s[j + 1]
  <2>1. \A j \in 1 .. Len(s) - 1 : t[j] = IF j < 1 THEN s[j] ELSE s[j + 1]
    BY <1>1, CutIs
  <2>2. \A j \in 1 .. Len(s) - 1 : ~ (j < 1)
    BY <1>1
  <2>. QED
    BY <2>1, <2>2
<1> HIDE DEF t
<1>5. hn[p] = IF t = <<>> THEN 0 ELSE t[1]
  <2>1. hn[s[1]] = IF 1 = Len(s) THEN 0 ELSE s[1 + 1]
    BY <1>1 DEF Linked
  <2>2. CASE Len(s) = 1
    <3>1. t = <<>>
      BY <1>3, <2>2 DEF Once
    <3>. QED
      BY <1>2, <2>1, <2>2, <3>1
  <2>3. CASE Len(s) # 1
    <3>1. t # <<>> /\ 1 \in 1 .. Len(s) - 1
      BY <1>1, <1>3, <2>3 DEF Once
    <3>. QED
      BY <1>2, <1>4, <2>1, <2>3, <3>1
  <2>. QED
    BY <2>2, <2>3
<1>6. ASSUME NEW j \in 1 .. Len(t)
      PROVE  hn[t[j]] = IF j = Len(t) THEN 0 ELSE t[j + 1]
  <2>1. j \in Nat /\ j \in 1 .. Len(s) - 1 /\ j + 1 \in 1 .. Len(s)
        /\ (j = Len(t) <=> j + 1 = Len(s))
    BY <1>1, <1>3
  <2>2. t[j] = s[j + 1]
    BY <1>4, <2>1
  <2>3. hn[s[j + 1]] = IF j + 1 = Len(s) THEN 0 ELSE s[(j + 1) + 1]
    BY <2>1 DEF Linked
  <2>4. CASE j = Len(t)
    BY <2>1, <2>2, <2>3, <2>4
  <2>5. CASE j # Len(t)
    <3>1. j + 1 \in 1 .. Len(s) - 1
      BY <1>1, <1>3, <2>1, <2>5
    <3>2. t[j + 1] = s[(j + 1) + 1]
      BY <1>4, <3>1
    <3>. QED
      BY <2>1, <2>2, <2>3, <2>5, <3>2
  <2>. QED
    BY <2>4, <2>5
<1>. QED
  BY <1>1, <1>2, <1>5, <1>6 DEF Linked, t

(* The item at k, not the first, leaves: the link before it passes it by.  *)
LEMMA LinkedCut ==
  ASSUME NEW s, Once(s), NEW p, NEW hn, NEW hn2, Linked(s, p, hn),
         NEW k \in 2 .. Len(s), hn2[s[k - 1]] = hn[s[k]],
         \A j \in Items : In(j, s) /\ j # s[k - 1] /\ j # s[k] => hn2[j] = hn[j]
  PROVE  Linked(Cut(s, k), p, hn2)
<1>1. Len(s) \in Nat /\ k \in Nat /\ k \in 1 .. Len(s) /\ k - 1 \in 1 .. Len(s) - 1
      /\ k - 1 \in 1 .. Len(s) /\ 1 \in 1 .. Len(s) - 1 /\ 1 < k
  BY DEF Once
<1> DEFINE t == Cut(s, k)
<1>2. Once(t) /\ Len(t) = Len(s) - 1
  BY <1>1, CutIs
<1>3. \A j \in 1 .. Len(s) - 1 : t[j] = IF j < k THEN s[j] ELSE s[j + 1]
  BY <1>1, CutIs
<1> HIDE DEF t
<1>4. \A j \in 1 .. Len(s) : j # k /\ j # k - 1 => hn2[s[j]] = hn[s[j]]
  BY <1>1 DEF Once, In
<1>5. \A j \in 1 .. Len(s) : hn[s[j]] = IF j = Len(s) THEN 0 ELSE s[j + 1]
  BY DEF Linked
<1>6. p = IF t = <<>> THEN 0 ELSE t[1]
  <2>1. t # <<>> /\ s # <<>>
    BY <1>1, <1>2 DEF Once
  <2>2. t[1] = s[1]
    BY <1>1, <1>3
  <2>. QED
    BY <2>1, <2>2 DEF Linked
<1>7. ASSUME NEW j \in 1 .. Len(t)
      PROVE  hn2[t[j]] = IF j = Len(t) THEN 0 ELSE t[j + 1]
  <2>1. j \in Nat /\ j \in 1 .. Len(s) - 1 /\ j \in 1 .. Len(s) /\ j + 1 \in 1 .. Len(s)
    BY <1>1, <1>2
  <2>2. t[j] = IF j < k THEN s[j] ELSE s[j + 1]
    BY <1>3, <2>1
  <2>3. j # Len(t) => j + 1 \in 1 .. Len(s) - 1
    BY <1>1, <1>2, <2>1
  <2>4. j # Len(t) => t[j + 1] = IF j + 1 < k THEN s[j + 1] ELSE s[(j + 1) + 1]
    BY <1>3, <2>3
  <2>5. CASE j + 1 < k
    <3>1. j < k /\ j # k /\ j # k - 1 /\ j # Len(s) /\ j # Len(t)
      BY <1>1, <1>2, <2>1, <2>5
    <3>. QED
      BY <1>4, <1>5, <2>1, <2>2, <2>4, <2>5, <3>1
  <2>6. CASE j + 1 = k
    <3>1. j < k /\ j = k - 1 /\ ~ (j + 1 < k) /\ (k = Len(s) <=> j = Len(t))
      BY <1>1, <1>2, <2>1, <2>6
    <3>2. hn2[t[j]] = hn[s[k]]
      BY <2>2, <3>1
    <3>3. hn[s[k]] = IF k = Len(s) THEN 0 ELSE s[k + 1]
      BY <1>1, <1>5
    <3>. QED
      BY <2>4, <2>6, <3>1, <3>2, <3>3
  <2>7. CASE j >= k
    <3>1. ~ (j < k) /\ ~ (j + 1 < k) /\ j + 1 # k /\ j + 1 # k - 1
          /\ (j + 1 = Len(s) <=> j = Len(t))
      BY <1>1, <1>2, <2>1, <2>7
    <3>2. hn2[t[j]] = hn[s[j + 1]]
      BY <1>4, <2>1, <2>2, <3>1
    <3>3. hn[s[j + 1]] = IF j + 1 = Len(s) THEN 0 ELSE s[(j + 1) + 1]
      BY <1>5, <2>1
    <3>. QED
      BY <2>4, <3>1, <3>2, <3>3
  <2>. QED
    BY <1>1, <2>1, <2>5, <2>6, <2>7
<1>. QED
  BY <1>6, <1>7 DEF Linked, t

(* An item joins at the end; its own link is null. *)
LEMMA LinkedAtEnd ==
  ASSUME NEW s, Once(s), NEW i \in Items, ~ In(i, s),
         NEW p, NEW hn, NEW hn2, Linked(s, p, hn), hn2[i] = 0,
         s # <<>> => hn2[s[Len(s)]] = i,
         \A j \in Items : In(j, s) /\ j # s[Len(s)] => hn2[j] = hn[j]
  PROVE  Linked(AtEnd(s, i), IF s = <<>> THEN i ELSE p, hn2)
<1>1. Len(s) \in Nat /\ (s = <<>> <=> Len(s) = 0)
  BY DEF Once
<1> DEFINE t == AtEnd(s, i)
<1>2. Once(t) /\ Len(t) = Len(s) + 1 /\ t # <<>>
      /\ t[Len(s) + 1] = i /\ \A k \in 1 .. Len(s) : t[k] = s[k]
  BY AtEndIs
<1> HIDE DEF t
<1>3. (IF s = <<>> THEN i ELSE p) = t[1]
  <2>1. CASE s = <<>>
    BY <1>1, <1>2, <2>1
  <2>2. CASE s # <<>>
    <3>1. 1 \in 1 .. Len(s)
      BY <1>1, <2>2
    <3>. QED
      BY <1>2, <2>2, <3>1 DEF Linked
  <2>. QED
    BY <2>1, <2>2
<1>4. ASSUME NEW j \in 1 .. Len(t)
      PROVE  hn2[t[j]] = IF j = Len(t) THEN 0 ELSE t[j + 1]
  <2>1. CASE j = Len(s) + 1
    BY <1>2, <2>1
  <2>2. CASE j = Len(s)
    <3>1. j \in 1 .. Len(s) /\ j # Len(t) /\ s # <<>> /\ j + 1 = Len(s) + 1
      BY <1>1, <1>2, <2>2
    <3>. QED
      BY <1>2, <2>2, <3>1
  <2>3. CASE j < Len(s)
    <3>1. j \in 1 .. Len(s) /\ j + 1 \in 1 .. Len(s) /\ j # Len(t) /\ j # Len(s)
          /\ Len(s) \in 1 .. Len(s)
      BY <1>1, <1>2, <2>3
    <3>2. s[j] \in Items /\ In(s[j], s) /\ s[j] # s[Len(s)]
      BY <3>1 DEF Once, In
    <3>3. hn2[s[j]] = s[j + 1]
      BY <3>1, <3>2 DEF Linked
    <3>. QED
      BY <1>2, <3>1, <3>3
  <2>. QED
    BY <1>1, <1>2, <2>1, <2>2, <2>3
<1>. QED
  BY <1>2, <1>3, <1>4 DEF Linked, t

(* An item joins at the front, as one that is freed does. *)
LEMMA LinkedInFront ==
  ASSUME NEW s, Once(s), NEW i \in Items, ~ In(i, s),
         NEW p, NEW hn, NEW hn2, Linked(s, p, hn), hn2[i] = p,
         \A j \in Items : In(j, s) => hn2[j] = hn[j]
  PROVE  Linked(InFront(i, s), i, hn2)
<1>1. Len(s) \in Nat /\ (s = <<>> <=> Len(s) = 0)
  BY DEF Once
<1> DEFINE t == InFront(i, s)
<1>2. Once(t) /\ Len(t) = Len(s) + 1 /\ t # <<>>
      /\ t[1] = i /\ \A k \in 1 .. Len(s) : t[k + 1] = s[k]
  BY InFrontIs
<1> HIDE DEF t
<1>3. Linked(s, p, hn2)
  BY LinkedSame
<1>4. ASSUME NEW j \in 1 .. Len(t)
      PROVE  hn2[t[j]] = IF j = Len(t) THEN 0 ELSE t[j + 1]
  <2>1. CASE j = 1 /\ s = <<>>
    BY <1>1, <1>2, <2>1 DEF Linked
  <2>2. CASE j = 1 /\ s # <<>>
    <3>1. 1 \in 1 .. Len(s) /\ j # Len(t)
      BY <1>1, <1>2, <2>2
    <3>. QED
      BY <1>2, <2>2, <3>1 DEF Linked
  <2>3. CASE j # 1
    <3>1. PICK m \in 1 .. Len(s) : j = m + 1
      <4>1. j - 1 \in 1 .. Len(s) /\ j = (j - 1) + 1
        BY <1>1, <1>2, <2>3
      <4>. QED
        BY <4>1
    <3>2. hn2[s[m]] = IF m = Len(s) THEN 0 ELSE s[m + 1]
      BY <1>3 DEF Linked
    <3>3. t[j] = s[m] /\ (j = Len(t) <=> m = Len(s))
      BY <1>1, <1>2, <3>1
    <3>4. CASE m = Len(s)
      BY <3>2, <3>3, <3>4
    <3>5. CASE m # Len(s)
      <4>1. m + 1 \in 1 .. Len(s)
        BY <1>1, <3>5
      <4>. QED
        BY <1>2, <3>1, <3>2, <3>3, <3>5, <4>1
    <3>. QED
      BY <3>4, <3>5
  <2>. QED
    BY <2>1, <2>2, <2>3
<1>. QED
  BY <1>2, <1>4 DEF Linked, t

(***************************************************************************)
(* The list linked both ways, which closes.                                *)
(***************************************************************************)

(* Before u is the last item, and every item has its neighbours.           *)
LEMMA RingEnds ==
  ASSUME NEW s, Once(s), s # <<>>, NEW u, NEW nx, NEW pv, Closed(s, u, nx, pv)
  PROVE  /\ Len(s) \in Nat \ {0} /\ u = s[1] /\ pv[u] = s[Len(s)] /\ nx[s[Len(s)]] = u
         /\ u \in Items /\ pv[u] \in Items
         /\ \A k \in 1 .. Len(s) : k # Len(s) => nx[s[k]] = s[k + 1] /\ pv[s[k + 1]] = s[k]
<1>1. Len(s) \in Nat \ {0} /\ 1 \in 1 .. Len(s) /\ Len(s) \in 1 .. Len(s)
  BY DEF Once
<1>2. u = s[1] /\ u \in Items /\ s[Len(s)] \in Items
  BY <1>1 DEF Once, Closed
<1>3. nx[s[Len(s)]] = s[1] /\ pv[s[1]] = s[Len(s)]
  BY <1>1 DEF Closed, After
<1>4. ASSUME NEW k \in 1 .. Len(s), k # Len(s)
      PROVE  nx[s[k]] = s[k + 1] /\ pv[s[k + 1]] = s[k]
  BY <1>4 DEF Closed, After
<1>. QED
  BY <1>1, <1>2, <1>3, <1>4

(* LinkUsed: an item goes to the end, before the first.                    *)
LEMMA ClosedAtEnd ==
  ASSUME NEW s, Once(s), NEW i \in Items, ~ In(i, s),
         NEW u, NEW nx, NEW pv, NEW nx2, NEW pv2, Closed(s, u, nx, pv),
         s = <<>> => nx2[i] = i /\ pv2[i] = i,
         s # <<>> => /\ nx2[i] = u /\ nx2[pv[u]] = i
                     /\ pv2[i] = pv[u] /\ pv2[u] = i
                     /\ \A j \in Items : In(j, s) /\ j # pv[u] => nx2[j] = nx[j]
                     /\ \A j \in Items : In(j, s) /\ j # u => pv2[j] = pv[j]
  PROVE  Closed(AtEnd(s, i), IF s = <<>> THEN i ELSE u, nx2, pv2)
<1>1. Len(s) \in Nat /\ (s = <<>> <=> Len(s) = 0)
  BY DEF Once
<1> DEFINE t == AtEnd(s, i)
<1>2. Once(t) /\ Len(t) = Len(s) + 1 /\ t # <<>>
      /\ t[Len(s) + 1] = i /\ \A k \in 1 .. Len(s) : t[k] = s[k]
  BY AtEndIs
<1> HIDE DEF t
<1>3. CASE s = <<>>
  <2>1. Len(t) = 1 /\ t[1] = i
    BY <1>1, <1>2, <1>3
  <2>2. \A k \in 1 .. Len(t) : t[k] = i /\ After(t, k) = i
    BY <2>1 DEF After
  <2>. QED
    BY <1>2, <1>3, <2>1, <2>2 DEF Closed, t
<1>4. CASE s # <<>>
  <2>1. /\ Len(s) \in Nat \ {0} /\ u = s[1] /\ pv[u] = s[Len(s)]
        /\ \A k \in 1 .. Len(s) : k # Len(s) => nx[s[k]] = s[k + 1] /\ pv[s[k + 1]] = s[k]
    BY <1>4, RingEnds
  <2>2. 1 \in 1 .. Len(s) /\ Len(s) \in 1 .. Len(s) /\ t[1] = u
    BY <1>2, <2>1
  <2>3. ASSUME NEW k \in 1 .. Len(t)
        PROVE  nx2[t[k]] = After(t, k) /\ pv2[After(t, k)] = t[k]
    <3>1. CASE k = Len(s) + 1
      <4>1. t[k] = i /\ After(t, k) = u
        BY <1>2, <2>2, <3>1 DEF After
      <4>. QED
        BY <1>4, <4>1
    <3>2. CASE k = Len(s)
      <4>1. t[k] = pv[u] /\ k # Len(t) /\ After(t, k) = i
        BY <1>2, <2>1, <2>2, <3>2 DEF After
      <4>. QED
        BY <1>4, <4>1
    <3>3. CASE k < Len(s)
      <4>1. k \in 1 .. Len(s) /\ k + 1 \in 1 .. Len(s) /\ k # Len(t) /\ k # Len(s)
            /\ k + 1 # 1
        BY <1>1, <1>2, <3>3
      <4>2. t[k] = s[k] /\ After(t, k) = s[k + 1]
        BY <1>2, <4>1 DEF After
      <4>3. /\ s[k] \in Items /\ In(s[k], s) /\ s[k] # s[Len(s)]
            /\ s[k + 1] \in Items /\ In(s[k + 1], s) /\ s[k + 1] # s[1]
        BY <2>2, <4>1 DEF Once, In
      <4>4. nx2[s[k]] = nx[s[k]] /\ pv2[s[k + 1]] = pv[s[k + 1]]
        BY <1>4, <2>1, <4>3
      <4>. QED
        BY <2>1, <4>1, <4>2, <4>4
    <3>. QED
      BY <1>1, <1>2, <3>1, <3>2, <3>3
  <2>. QED
    BY <1>2, <1>4, <2>2, <2>3 DEF Closed, t
<1>. QED
  BY <1>3, <1>4

(* UnlinkUsed: an item leaves; its neighbours become each other's.         *)
LEMMA ClosedCut ==
  ASSUME NEW s, Once(s), NEW k \in 1 .. Len(s), NEW i, i = s[k],
         NEW u, NEW nx, NEW pv, NEW nx2, NEW pv2, NEW u2, Closed(s, u, nx, pv),
         u2 = IF i # u THEN u ELSE IF pv[i] = i THEN 0 ELSE nx[i],
         pv[i] # i => nx2[pv[i]] = nx[i] /\ pv2[nx[i]] = pv[i],
         \A j \in Items : In(j, s) /\ j # pv[i] /\ j # i => nx2[j] = nx[j],
         \A j \in Items : In(j, s) /\ j # nx[i] /\ j # i => pv2[j] = pv[j]
  PROVE  Closed(Cut(s, k), u2, nx2, pv2)
<1>1. s # <<>> /\ k \in Nat
  BY DEF Once
<1>2. /\ Len(s) \in Nat \ {0} /\ u = s[1] /\ pv[u] = s[Len(s)] /\ nx[s[Len(s)]] = u
      /\ \A j \in 1 .. Len(s) : j # Len(s) => nx[s[j]] = s[j + 1] /\ pv[s[j + 1]] = s[j]
  BY <1>1, RingEnds
<1>3. \A m, n \in 1 .. Len(s) : s[m] = s[n] => m = n
  BY DEF Once
<1>4. \A m \in 1 .. Len(s) : s[m] \in Items /\ In(s[m], s)
  BY DEF Once, In
<1> DEFINE t == Cut(s, k)
<1>5. Once(t) /\ Len(t) = Len(s) - 1
  BY CutIs
<1>6. \A j \in 1 .. Len(s) - 1 : t[j] = IF j < k THEN s[j] ELSE s[j + 1]
  BY CutIs
<1> HIDE DEF t
<1>7. /\ nx[i] = IF k = Len(s) THEN s[1] ELSE s[k + 1]
      /\ pv[i] = IF k = 1 THEN s[Len(s)] ELSE s[k - 1]
  <2>1. nx[i] = IF k = Len(s) THEN s[1] ELSE s[k + 1]
    BY <1>2
  <2>2. CASE k = 1
    BY <1>2, <2>2
  <2>3. CASE k # 1
    <3>1. k - 1 \in 1 .. Len(s) /\ k - 1 # Len(s) /\ (k - 1) + 1 = k
      BY <1>2, <2>3
    <3>2. pv[s[(k - 1) + 1]] = s[k - 1]
      BY <1>2, <3>1
    <3>. QED
      BY <2>1, <2>3, <3>1, <3>2
  <2>. QED
    BY <2>1, <2>2, <2>3
<1>8. CASE Len(s) = 1
  <2>1. k = 1 /\ pv[i] = i /\ i = u /\ u2 = 0
    BY <1>2, <1>7, <1>8
  <2>2. t = <<>> /\ Len(t) = 0
    BY <1>5, <1>8 DEF Once
  <2>3. 1 .. Len(t) = {}
    BY <2>2
  <2>. QED
    BY <2>1, <2>2, <2>3 DEF Closed, t
<1>9. CASE Len(s) # 1
  <2>1. t # <<>> /\ 1 \in 1 .. Len(s) /\ Len(s) \in 1 .. Len(s) /\ 1 \in 1 .. Len(s) - 1
        /\ Len(s) - 1 \in 1 .. Len(s) - 1
    BY <1>2, <1>5, <1>9 DEF Once
  <2>2. pv[i] # i
    <3>1. CASE k = 1
      BY <1>2, <1>3, <1>7, <1>9, <2>1, <3>1
    <3>2. CASE k # 1
      <4>1. k - 1 \in 1 .. Len(s) /\ k - 1 # k
        BY <1>1, <1>2, <3>2
      <4>. QED
        BY <1>3, <1>7, <3>2, <4>1
    <3>. QED
      BY <3>1, <3>2
  <2>3. u2 = t[1]
    <3>1. CASE k = 1
      <4>1. i = u /\ u2 = s[2] /\ t[1] = s[1 + 1]
        BY <1>2, <1>6, <1>7, <1>9, <2>1, <2>2, <3>1
      <4>. QED
        BY <4>1
    <3>2. CASE k # 1
      <4>1. i # u /\ 1 < k
        BY <1>1, <1>2, <1>3, <2>1, <3>2
      <4>. QED
        BY <1>2, <1>6, <2>1, <4>1
    <3>. QED
      BY <3>1, <3>2
  <2>4. ASSUME NEW j \in 1 .. Len(t)
        PROVE  nx2[t[j]] = After(t, j) /\ pv2[After(t, j)] = t[j]
    <3>1. /\ j \in Nat /\ j \in 1 .. Len(s) - 1 /\ j \in 1 .. Len(s) /\ j + 1 \in 1 .. Len(s)
          /\ j # Len(s) /\ (j # Len(t) => j + 1 \in 1 .. Len(s) - 1)
      BY <1>2, <1>5
    <3>2. t[j] = IF j < k THEN s[j] ELSE s[j + 1]
      BY <1>6, <3>1
    <3>3. After(t, j) = IF j = Len(t) THEN IF k = 1 THEN s[2] ELSE s[1]
                        ELSE IF j + 1 < k THEN s[j + 1] ELSE s[(j + 1) + 1]
      <4>1. CASE j = Len(t)
        <5>1. t[1] = IF k = 1 THEN s[2] ELSE s[1]
          BY <1>1, <1>6, <2>1
        <5>. QED
          BY <4>1, <5>1 DEF After
      <4>2. CASE j # Len(t)
        <5>1. t[j + 1] = IF j + 1 < k THEN s[j + 1] ELSE s[(j + 1) + 1]
          BY <1>6, <3>1, <4>2
        <5>. QED
          BY <4>2, <5>1 DEF After
      <4>. QED
        BY <4>1, <4>2
    <3>4. SUFFICES \/ t[j] = pv[i] /\ After(t, j) = nx[i]
                   \/ \E m, n \in 1 .. Len(s) :
                        /\ t[j] = s[m] /\ After(t, j) = s[n] /\ m # k /\ n # k
                        /\ nx[s[m]] = s[n] /\ pv[s[n]] = s[m]
                        /\ s[m] # pv[i] /\ s[n] # nx[i]
      <4>1. CASE t[j] = pv[i] /\ After(t, j) = nx[i]
        BY <2>2, <4>1
      <4>2. ASSUME NEW m \in 1 .. Len(s), NEW n \in 1 .. Len(s),
                   t[j] = s[m], After(t, j) = s[n], m # k, n # k,
                   nx[s[m]] = s[n], pv[s[n]] = s[m], s[m] # pv[i], s[n] # nx[i]
            PROVE  nx2[t[j]] = After(t, j) /\ pv2[After(t, j)] = t[j]
        <5>1. s[m] # i /\ s[n] # i
          BY <1>3, <4>2
        <5>. QED
          BY <1>4, <4>2, <5>1
      <4>. QED
        BY <3>4, <4>1, <4>2
    <3>5. CASE j + 1 < k
      <4>1. j < k /\ j # Len(t) /\ j # k /\ j + 1 # k /\ j # k - 1 /\ k # 1 /\ k - 1 \in 1 .. Len(s)
            /\ j + 1 # 1 /\ j + 1 # k + 1
        BY <1>1, <1>2, <1>5, <3>1, <3>5
      <4>2. t[j] = s[j] /\ After(t, j) = s[j + 1]
        BY <3>2, <3>3, <3>5, <4>1
      <4>3. nx[s[j]] = s[j + 1] /\ pv[s[j + 1]] = s[j]
        BY <1>2, <3>1
      <4>4. s[j] # pv[i]
        BY <1>3, <1>7, <3>1, <4>1
      <4>5. s[j + 1] # nx[i]
        <5>1. CASE k = Len(s)
          BY <1>3, <1>7, <2>1, <3>1, <4>1, <5>1
        <5>2. CASE k # Len(s)
          <6>1. k + 1 \in 1 .. Len(s)
            BY <1>1, <1>2, <5>2
          <6>. QED
            BY <1>3, <1>7, <3>1, <4>1, <5>2, <6>1
        <5>. QED
          BY <5>1, <5>2
      <4>. QED
        BY <3>1, <4>1, <4>2, <4>3, <4>4, <4>5
    <3>6. CASE j + 1 = k
      <4>1. j < k /\ ~ (j + 1 < k) /\ k # 1 /\ k - 1 = j /\ (j = Len(t) <=> k = Len(s))
        BY <1>1, <1>2, <1>5, <3>1, <3>6
      <4>2. t[j] = pv[i]
        BY <1>7, <3>2, <4>1
      <4>3. After(t, j) = nx[i]
        BY <1>7, <3>3, <3>6, <4>1
      <4>. QED
        BY <4>2, <4>3
    <3>7. CASE j >= k /\ j # Len(t)
      <4>1. /\ ~ (j < k) /\ ~ (j + 1 < k) /\ j + 1 # k /\ (j + 1) + 1 # k /\ j + 1 # Len(s)
            /\ (j + 1) + 1 \in 1 .. Len(s) /\ j + 1 # k - 1 /\ (j + 1) + 1 # k + 1 /\ (j + 1) + 1 # 1
        BY <1>1, <1>2, <1>5, <3>1, <3>7
      <4>2. t[j] = s[j + 1] /\ After(t, j) = s[(j + 1) + 1]
        BY <3>2, <3>3, <3>7, <4>1
      <4>3. nx[s[j + 1]] = s[(j + 1) + 1] /\ pv[s[(j + 1) + 1]] = s[j + 1]
        BY <1>2, <3>1, <4>1
      <4>4. s[j + 1] # pv[i]
        <5>1. CASE k = 1
          BY <1>3, <1>7, <2>1, <3>1, <4>1, <5>1
        <5>2. CASE k # 1
          <6>1. k - 1 \in 1 .. Len(s)
            BY <1>1, <1>2, <5>2
          <6>. QED
            BY <1>3, <1>7, <3>1, <4>1, <5>2, <6>1
        <5>. QED
          BY <5>1, <5>2
      <4>5. s[(j + 1) + 1] # nx[i]
        <5>1. CASE k = Len(s)
          BY <1>3, <1>7, <2>1, <4>1, <5>1
        <5>2. CASE k # Len(s)
          <6>1. k + 1 \in 1 .. Len(s)
            BY <1>1, <1>2, <5>2
          <6>. QED
            BY <1>3, <1>7, <4>1, <5>2, <6>1
        <5>. QED
          BY <5>1, <5>2
      <4>. QED
        BY <3>1, <4>1, <4>2, <4>3, <4>4, <4>5
    <3>8. CASE j >= k /\ j = Len(t)
      <4>1. ~ (j < k) /\ j + 1 = Len(s) /\ k # Len(s)
        BY <1>1, <1>2, <1>5, <3>1, <3>8
      <4>2. t[j] = s[Len(s)]
        BY <3>2, <4>1
      <4>3. CASE k = 1
        BY <1>7, <3>3, <3>8, <4>1, <4>2, <4>3
      <4>4. CASE k # 1
        <5>1. k - 1 \in 1 .. Len(s) /\ k + 1 \in 1 .. Len(s) /\ k - 1 # Len(s) /\ k + 1 # 1
          BY <1>1, <1>2, <4>1, <4>4
        <5>2. After(t, j) = s[1]
          BY <3>3, <3>8, <4>4
        <5>3. s[Len(s)] # pv[i] /\ s[1] # nx[i]
          BY <1>3, <1>7, <2>1, <4>1, <4>4, <5>1
        <5>. QED
          BY <1>2, <2>1, <4>1, <4>2, <4>4, <5>2, <5>3
      <4>. QED
        BY <4>3, <4>4
    <3>. QED
      BY <1>1, <3>1, <3>5, <3>6, <3>7, <3>8
  <2>. QED
    BY <2>1, <2>3, <2>4 DEF Closed, t
<1>. QED
  BY <1>8, <1>9

(* Gather: the first item gives up its place, and nothing is written.      *)
Turn(s) == [k \in 1 .. Len(s) |-> After(s, k)]

LEMMA ClosedTurn ==
  ASSUME NEW s, Once(s), s # <<>>, NEW u, NEW nx, NEW pv, Closed(s, u, nx, pv)
  PROVE  /\ Once(Turn(s)) /\ Len(Turn(s)) = Len(s) /\ Closed(Turn(s), nx[u], nx, pv)
         /\ \A j \in Items : In(j, Turn(s)) <=> In(j, s)
<1>1. Len(s) \in Nat \ {0} /\ 1 \in 1 .. Len(s) /\ Len(s) \in 1 .. Len(s)
  BY DEF Once
<1>2. \A k \in 1 .. Len(s) : s[k] \in Items /\ After(s, k) \in Items
  <2>1. \A k \in 1 .. Len(s) : k # Len(s) => k + 1 \in 1 .. Len(s)
    BY <1>1
  <2>. QED
    BY <1>1, <2>1 DEF Once, After
<1> DEFINE t == Turn(s)
<1>3. t \in Seq(Items) /\ Len(t) = Len(s) /\ \A k \in 1 .. Len(s) : t[k] = After(s, k)
  BY <1>1, <1>2 DEF Turn
<1> HIDE DEF t
<1>4. \A m, n \in 1 .. Len(s) : s[m] = s[n] => m = n
  BY DEF Once
<1>5. ASSUME NEW m \in 1 .. Len(s), NEW n \in 1 .. Len(s), After(s, m) = After(s, n)
      PROVE  m = n
  <2>1. m \in Nat /\ n \in Nat /\ (m # Len(s) => m + 1 \in 1 .. Len(s) /\ m + 1 # 1)
        /\ (n # Len(s) => n + 1 \in 1 .. Len(s) /\ n + 1 # 1)
    BY <1>1
  <2>2. CASE m # Len(s) /\ n # Len(s)
    <3>1. s[m + 1] = s[n + 1]
      BY <1>5, <2>2 DEF After
    <3>2. m + 1 = n + 1
      BY <1>4, <2>1, <2>2, <3>1
    <3>. QED
      BY <2>1, <3>2
  <2>3. CASE m = Len(s) \/ n = Len(s)
    BY <1>1, <1>4, <1>5, <2>1, <2>3 DEF After
  <2>. QED
    BY <2>2, <2>3
<1>6. Once(t)
  BY <1>3, <1>5 DEF Once
<1>7. \A j \in Items : In(j, t) <=> In(j, s)
  <2>1. ASSUME NEW k \in 1 .. Len(s)
        PROVE  \E m \in 1 .. Len(s) : After(s, m) = s[k]
    <3>1. CASE k = 1
      BY <1>1, <3>1 DEF After
    <3>2. CASE k # 1
      <4>1. k - 1 \in 1 .. Len(s) /\ k - 1 # Len(s) /\ (k - 1) + 1 = k
        BY <1>1, <3>2
      <4>2. After(s, k - 1) = s[k]
        BY <4>1 DEF After
      <4>. QED
        BY <4>1, <4>2
    <3>. QED
      BY <3>1, <3>2
  <2>2. ASSUME NEW k \in 1 .. Len(s)
        PROVE  \E m \in 1 .. Len(s) : s[m] = After(s, k)
    <3>1. k # Len(s) => k + 1 \in 1 .. Len(s)
      BY <1>1
    <3>. QED
      BY <1>1, <3>1 DEF After
  <2>3. ASSUME NEW j \in Items, In(j, t)
        PROVE  In(j, s)
    <3>1. PICK k \in 1 .. Len(s) : t[k] = j
      BY <1>3, <2>3 DEF In
    <3>2. t[k] = After(s, k)
      BY <1>3
    <3>. QED
      BY <2>2, <3>1, <3>2 DEF In
  <2>4. ASSUME NEW j \in Items, In(j, s)
        PROVE  In(j, t)
    <3>1. PICK k \in 1 .. Len(s) : s[k] = j
      BY <2>4 DEF In
    <3>2. PICK m \in 1 .. Len(s) : After(s, m) = s[k]
      BY <2>1
    <3>3. t[m] = j
      BY <1>3, <3>1, <3>2
    <3>. QED
      BY <1>3, <3>3 DEF In
  <2>. QED
    BY <2>3, <2>4
<1>8. ASSUME NEW k \in 1 .. Len(s)
      PROVE  nx[t[k]] = After(t, k) /\ pv[After(t, k)] = t[k]
  <2>1. \A m \in 1 .. Len(s) : nx[s[m]] = After(s, m) /\ pv[After(s, m)] = s[m]
    BY DEF Closed
  <2>2. CASE k = Len(s)
    <3>1. t[k] = s[1] /\ After(t, k) = After(s, 1)
      BY <1>1, <1>3, <2>2 DEF After
    <3>. QED
      BY <1>1, <2>1, <3>1
  <2>3. CASE k # Len(s)
    <3>1. k + 1 \in 1 .. Len(s)
      BY <1>1, <2>3
    <3>2. t[k] = s[k + 1] /\ After(t, k) = After(s, k + 1)
      BY <1>3, <2>3, <3>1 DEF After
    <3>. QED
      BY <2>1, <3>1, <3>2
  <2>. QED
    BY <2>2, <2>3
<1>9. nx[u] = t[1] /\ t # <<>>
  BY <1>1, <1>3, <1>6 DEF Closed, Once
<1>. QED
  BY <1>3, <1>6, <1>7, <1>8, <1>9 DEF Closed, t

(***************************************************************************)
(* A walk meets one sequence only.                                         *)
(***************************************************************************)

LEMMA LeastOne ==
  ASSUME NEW S \in SUBSET Nat, S # {}
  PROVE  \E m \in S : \A k \in S : m <= k
<1>1. PICK m \in S : \A k \in S : <<k, m>> \notin OpToRel(<, Nat)
  BY NatLessThanWellFounded, WFMin, Zenon
<1>2. ASSUME NEW k \in S
      PROVE  m <= k
  <2>1. ~ (k < m)
    BY <1>1 DEF OpToRel
  <2>. QED
    BY <2>1
<1>. QED
  BY <1>2

Begins(s, t) == \A k \in 1 .. Len(s) : k \in 1 .. Len(t) /\ s[k] = t[k]

(* Two sequences agree if, wherever they agree at one place, they do at    *)
(* the next.                                                               *)
LEMMA BeginsByStep ==
  ASSUME NEW s \in Seq(Items), NEW t \in Seq(Items),
         s # <<>> => t # <<>> /\ s[1] = t[1],
         \A k \in 1 .. Len(s) : k # Len(s) /\ k \in 1 .. Len(t) /\ s[k] = t[k]
            => k # Len(t) /\ s[k + 1] = t[k + 1]
  PROVE  Begins(s, t)
<1>1. Len(s) \in Nat /\ Len(t) \in Nat
  OBVIOUS
<1> DEFINE D == {k \in 1 .. Len(s) : ~ (k \in 1 .. Len(t) /\ s[k] = t[k])}
<1>2. SUFFICES ASSUME D # {}
               PROVE  FALSE
  BY <1>2 DEF Begins
<1>3. D \in SUBSET Nat
  BY <1>1
<1>4. PICK m \in D : \A k \in D : m <= k
  BY <1>2, <1>3, LeastOne
<1>5. m \in 1 .. Len(s) /\ m \in Nat
  BY <1>1, <1>4
<1>6. CASE m = 1
  <2>1. s # <<>>
    BY <1>5
  <2>2. t # <<>> /\ s[1] = t[1] /\ 1 \in 1 .. Len(t)
    BY <1>1, <2>1
  <2>. QED
    BY <1>4, <1>6, <2>2
<1>7. CASE m # 1
  <2>1. m - 1 \in 1 .. Len(s) /\ m - 1 # Len(s) /\ ~ (m <= m - 1) /\ (m - 1) + 1 = m
    BY <1>1, <1>5, <1>7
  <2>2. m - 1 \notin D
    BY <1>4, <2>1
  <2>3. m - 1 \in 1 .. Len(t) /\ s[m - 1] = t[m - 1]
    BY <2>1, <2>2
  <2>4. m - 1 # Len(t) /\ s[(m - 1) + 1] = t[(m - 1) + 1]
    BY <2>1, <2>3
  <2>5. m \in 1 .. Len(t)
    BY <1>1, <1>5, <2>3, <2>4
  <2>. QED
    BY <1>4, <2>1, <2>4, <2>5
<1>. QED
  BY <1>6, <1>7

LEMMA BothBegin ==
  ASSUME NEW s \in Seq(Items), NEW t \in Seq(Items), Begins(s, t), Begins(t, s)
  PROVE  s = t
<1>1. Len(s) \in Nat /\ Len(t) \in Nat
  OBVIOUS
<1>2. Len(s) <= Len(t)
  <2>1. CASE Len(s) = 0
    BY <1>1, <2>1
  <2>2. CASE Len(s) # 0
    <3>1. Len(s) \in 1 .. Len(s)
      BY <1>1, <2>2
    <3>. QED
      BY <1>1, <3>1 DEF Begins
  <2>. QED
    BY <2>1, <2>2
<1>3. Len(t) <= Len(s)
  <2>1. CASE Len(t) = 0
    BY <1>1, <2>1
  <2>2. CASE Len(t) # 0
    <3>1. Len(t) \in 1 .. Len(t)
      BY <1>1, <2>2
    <3>. QED
      BY <1>1, <3>1 DEF Begins
  <2>. QED
    BY <2>1, <2>2
<1>4. Len(s) = Len(t)
  BY <1>1, <1>2, <1>3
<1>5. \A k \in 1 .. Len(s) : s[k] = t[k]
  BY DEF Begins
<1>. QED
  BY <1>4, <1>5, SeqEqual

(* Item numbers are no null pointers. *)
LEMMA ItemsNotNull ==
  \A i \in Items : i # 0
BY NetxPollAssumption DEF Items

LEMMA LinkedBegins ==
  ASSUME NEW s, Once(s), NEW t, Once(t), NEW p, NEW hn, Linked(s, p, hn), Linked(t, p, hn)
  PROVE  Begins(s, t)
<1>1. /\ s \in Seq(Items) /\ t \in Seq(Items)
      /\ \A k \in 1 .. Len(s) : s[k] \in Items /\ s[k] # 0
  BY ItemsNotNull DEF Once
<1>2. s # <<>> => t # <<>> /\ s[1] = t[1]
  <2>1. s # <<>> => s[1] # 0
    <3>1. s # <<>> => 1 \in 1 .. Len(s)
      BY <1>1
    <3>. QED
      BY <1>1, <3>1
  <2>. QED
    BY <2>1 DEF Linked
<1>3. ASSUME NEW k \in 1 .. Len(s), k # Len(s), k \in 1 .. Len(t), s[k] = t[k]
      PROVE  k # Len(t) /\ s[k + 1] = t[k + 1]
  <2>1. k + 1 \in 1 .. Len(s)
    BY <1>1, <1>3
  <2>2. hn[s[k]] = s[k + 1] /\ s[k + 1] # 0
    BY <1>1, <1>3, <2>1 DEF Linked
  <2>3. hn[t[k]] = IF k = Len(t) THEN 0 ELSE t[k + 1]
    BY <1>3 DEF Linked
  <2>. QED
    BY <1>3, <2>2, <2>3
<1>. QED
  BY <1>1, <1>2, <1>3, BeginsByStep

LEMMA LinkedOne ==
  ASSUME NEW s, Once(s), NEW t, Once(t), NEW p, NEW hn, Linked(s, p, hn), Linked(t, p, hn)
  PROVE  s = t
BY LinkedBegins, BothBegin DEF Once

LEMMA ClosedBegins ==
  ASSUME NEW s, Once(s), NEW t, Once(t), NEW u, NEW nx, NEW pv,
         Closed(s, u, nx, pv), Closed(t, u, nx, pv)
  PROVE  Begins(s, t)
<1>1. /\ s \in Seq(Items) /\ t \in Seq(Items)
      /\ \A k \in 1 .. Len(s) : s[k] \in Items /\ s[k] # 0
      /\ (s # <<>> => 1 \in 1 .. Len(s))
  BY ItemsNotNull DEF Once
<1>2. s # <<>> => t # <<>> /\ s[1] = t[1] /\ s[1] = u
  BY <1>1 DEF Closed
<1>3. ASSUME NEW k \in 1 .. Len(s), k # Len(s), k \in 1 .. Len(t), s[k] = t[k]
      PROVE  k # Len(t) /\ s[k + 1] = t[k + 1]
  <2>1. k + 1 \in 1 .. Len(s) /\ s # <<>> /\ k + 1 # 1
    BY <1>1, <1>3
  <2>2. nx[s[k]] = s[k + 1]
    BY <1>3 DEF Closed, After
  <2>3. nx[t[k]] = IF k = Len(t) THEN t[1] ELSE t[k + 1]
    BY <1>3 DEF Closed, After
  <2>4. s[k + 1] # s[1]
    BY <1>1, <2>1 DEF Once
  <2>. QED
    BY <1>2, <1>3, <2>1, <2>2, <2>3, <2>4
<1>. QED
  BY <1>1, <1>2, <1>3, BeginsByStep

LEMMA ClosedOne ==
  ASSUME NEW s, Once(s), NEW t, Once(t), NEW u, NEW nx, NEW pv,
         Closed(s, u, nx, pv), Closed(t, u, nx, pv)
  PROVE  s = t
BY ClosedBegins, BothBegin DEF Once

(***************************************************************************)
(* ItemSeqs are the sequences of items without repetition.                 *)
(***************************************************************************)

LEMMA SizeOfItems ==
  IsFiniteSet(Items) /\ Cardinality(Items) = max_counts /\ max_counts \in Nat
<1>1. max_counts \in Nat \ {0}
  BY NetxPollAssumption
<1>. QED
  BY <1>1, FS_Interval DEF Items

LEMMA ItemSeqsAreOnce ==
  ASSUME NEW s \in ItemSeqs
  PROVE  Once(s)
<1>1. PICK f \in SetToSeqs(Items), n \in 0 .. max_counts : s = SubSeq(f, 1, n)
  BY DEF ItemSeqs
<1>2. f \in [1 .. max_counts -> Items] /\ \A i, j \in 1 .. max_counts : i # j => f[i] # f[j]
  BY <1>1, SizeOfItems DEF SetToSeqs
<1>3. n \in Nat /\ \A k \in 1 .. n : k \in 1 .. max_counts /\ f[k] \in Items
  BY <1>1, <1>2, SizeOfItems
<1>4. s \in Seq(Items) /\ Len(s) = n /\ \A k \in 1 .. n : s[k] = f[k]
  <2>1. f \in Seq(Items) /\ Len(f) = max_counts
    BY <1>2, SizeOfItems
  <2>. QED
    BY <1>1, <1>3, <2>1, SizeOfItems
<1>. QED
  BY <1>2, <1>3, <1>4 DEF Once

LEMMA OnceInItemSeqs ==
  ASSUME NEW s, Once(s)
  PROVE  s \in ItemSeqs /\ Len(s) \in 0 .. max_counts
<1> DEFINE n == Len(s)
           R == {s[k] : k \in 1 .. n}
<1>1. s \in Seq(Items) /\ n \in Nat /\ \A j, k \in 1 .. n : s[j] = s[k] => j = k
  BY DEF Once
<1>2. s \in Bijection(1 .. n, R)
  <2>1. s \in [1 .. n -> R]
    BY <1>1
  <2>2. \A r \in R : \E k \in 1 .. n : s[k] = r
    OBVIOUS
  <2>. QED
    BY <1>1, <2>1, <2>2, Fun_IsBij
<1>3. Cardinality(R) = n /\ IsFiniteSet(R)
  <2>1. ExistsBijection(1 .. n, R)
    BY <1>2, Fun_ExistsBij
  <2>. QED
    BY <1>1, <2>1, FS_CountingElements, FS_NatBijection
<1>4. R \subseteq Items
  BY <1>1
<1>5. n <= max_counts /\ n \in 0 .. max_counts
  <2>1. R \in SUBSET Items
    BY <1>4
  <2>2. Cardinality(R) <= Cardinality(Items)
    BY <2>1, SizeOfItems, FS_Subset
  <2>3. n \in Nat
    BY <1>1
  <2>4. n <= max_counts
    BY <1>3, <2>2, SizeOfItems, Zenon
  <2>5. max_counts \in Nat
    BY SizeOfItems
  <2>. QED
    BY <2>3, <2>4, <2>5
<1>length. Len(s) = n /\ n \in Nat
  BY <1>1
<1> HIDE DEF n, R
<1> DEFINE Q == Items \ R
<1>6. IsFiniteSet(Q) /\ Cardinality(Q) = max_counts - n
  <2>1. IsFiniteSet(Q) /\ Cardinality(Q) \in Nat
    <3>1. Q \in SUBSET Items
      OBVIOUS
    <3>. QED
      BY <3>1, SizeOfItems, FS_Subset, FS_CardinalityType
  <2>2. Q \cup R = Items /\ Q \cap R = {}
    BY <1>4
  <2>3. Cardinality(Items) = Cardinality(Q) + Cardinality(R) - Cardinality({})
    <3>1. Cardinality(Q \cup R) = Cardinality(Q) + Cardinality(R) - Cardinality(Q \cap R)
      <4> HIDE DEF Q
      <4>. QED
        BY <1>3, <2>1, FS_Union
    <3>. QED
      BY <2>2, <3>1
  <2>4. Cardinality({}) = 0
    BY FS_EmptySet
  <2>. QED
    <3> HIDE DEF Q
    <3>. QED
      BY <1>length, <1>3, <2>1, <2>3, <2>4, SizeOfItems
<1>7. IsFiniteSet(n + 1 .. max_counts) /\ Cardinality(n + 1 .. max_counts) = max_counts - n
  <2>1. n + 1 \in Int /\ max_counts \in Int
    BY <1>length, SizeOfItems
  <2>2. IsFiniteSet(n + 1 .. max_counts)
        /\ Cardinality(n + 1 .. max_counts) = IF n + 1 > max_counts THEN 0 ELSE max_counts - (n + 1) + 1
    BY <2>1, FS_Interval
  <2>. QED
    BY <1>5, <1>length, <2>2, SizeOfItems
<1> HIDE DEF Q
<1>8. PICK g \in Bijection(n + 1 .. max_counts, Q) : TRUE
  <2>1. ExistsBijection(n + 1 .. max_counts, Q)
    BY <1>6, <1>7, FS_SameCardinalityBij
  <2>. QED
    BY <2>1, Fun_ExistsBij
<1>9. /\ g \in [n + 1 .. max_counts -> Q]
      /\ \A a, b \in n + 1 .. max_counts : g[a] = g[b] => a = b
  BY <1>8, Fun_BijectionProperties
<1> DEFINE f == [k \in 1 .. max_counts |-> IF k <= n THEN s[k] ELSE g[k]]
<1>10. ASSUME NEW k \in 1 .. max_counts
       PROVE  \/ k \in 1 .. n /\ f[k] = s[k] /\ f[k] \in R
              \/ k \in n + 1 .. max_counts /\ f[k] = g[k] /\ f[k] \in Q
  <2>1. CASE k <= n
    BY <1>5, <1>length, <2>1, SizeOfItems DEF R, n
  <2>2. CASE ~ (k <= n)
    BY <1>5, <1>length, <1>9, <2>2, SizeOfItems
  <2>. QED
    BY <2>1, <2>2
<1>11. f \in [1 .. max_counts -> Items]
  BY <1>4, <1>10 DEF Q
<1>12. ASSUME NEW j \in 1 .. max_counts, NEW k \in 1 .. max_counts, f[j] = f[k]
       PROVE  j = k
  <2>1. \A r : ~ (r \in R /\ r \in Q)
    BY DEF Q
  <2>2. \A a, b \in 1 .. n : s[a] = s[b] => a = b
    BY <1>1 DEF n
  <2> HIDE DEF f
  <2>. QED
    BY <1>9, <1>10, <1>12, <2>1, <2>2
<1>13. f \in SetToSeqs(Items)
  BY <1>11, <1>12, SizeOfItems DEF SetToSeqs
<1>14. s = SubSeq(f, 1, n)
  <2>1. f \in Seq(Items) /\ Len(f) = max_counts
    BY <1>11, SizeOfItems
  <2>2. \A k \in 1 .. n : f[k] = s[k]
    BY <1>length, <1>5, SizeOfItems
  <2> HIDE DEF f
  <2>3. SubSeq(f, 1, n) \in Seq(Items) /\ Len(SubSeq(f, 1, n)) = n
        /\ \A k \in 1 .. n : SubSeq(f, 1, n)[k] = f[k]
    BY <1>length, <1>5, <2>1, SizeOfItems
  <2>. QED
    BY <1>1, <1>length, <2>2, <2>3, SeqEqual
<1> HIDE DEF f
<1>. QED
  BY <1>5, <1>length, <1>13, <1>14 DEF ItemSeqs

(***************************************************************************)
(* The invariant: the sequences that the links stand for.                  *)
(***************************************************************************)

Types ==
    /\ hash_next \in Pointers /\ next \in Pointers /\ prev \in Pointers
    /\ fd \in [Items -> Fds \cup {0}]
    /\ hash_table \in [Buckets -> Links]
    /\ free_list \in Links /\ used_list \in Links

FreeIs(free, fl, hn) == Once(free) /\ Linked(free, fl, hn)

RingIs(ring, ul, nx, pv) == Once(ring) /\ Closed(ring, ul, nx, pv)

ChainsAre(chain, ht, hn) ==
    /\ chain \in [Buckets -> Seq(Items)]
    /\ \A h \in Buckets : Once(chain[h]) /\ Linked(chain[h], ht[h], hn)

(* Who is where: free or used, and if used on the chain of its bucket,     *)
(* with a descriptor of its own; a free one has none.                      *)
Placed(free, ring, chain, fds) ==
    /\ \A i \in Items : In(i, ring) <=> ~ In(i, free)
    /\ \A h \in Buckets : \A i \in Items :
         In(i, chain[h]) <=> In(i, ring) /\ Bucket(fds[i]) = h
    /\ \A i, j \in Items : In(i, ring) /\ In(j, ring) /\ fds[i] = fds[j] => i = j
    /\ \A i \in Items : IF In(i, ring) THEN fds[i] \in Fds ELSE fds[i] = 0

PollIs(free, ring, chain) ==
    /\ FreeIs(free, free_list, hash_next)
    /\ RingIs(ring, used_list, next, prev)
    /\ ChainsAre(chain, hash_table, hash_next)
    /\ Placed(free, ring, chain, fd)
    /\ counts = Len(ring)

PollInv == Types /\ \E free, ring, chain : PollIs(free, ring, chain)

(* Every descriptor, and the zero of a free item, has a bucket.            *)
LEMMA BucketsExist ==
  \A f \in Fds \cup {0} : Bucket(f) \in Buckets
<1>1. hash_size \in Nat \ {0}
  BY NetxPollAssumption DEF hash_size
<1>2. Fds \cup {0} \subseteq Nat
  BY NetxPollAssumption
<1> HIDE DEF hash_size
<1>3. ASSUME NEW f \in Nat
      PROVE  f % hash_size \in 0 .. hash_size - 1
  BY <1>1
<1>. QED
  BY <1>2, <1>3 DEF Bucket, Buckets

LEMMA ChainIsLinked ==
  \A s, i : IsChain(s, i) <=> Linked(s, i, hash_next)
BY DEF IsChain, Linked, Null

LEMMA RingIsClosed ==
  \A s : IsRing(s) <=> Closed(s, used_list, next, prev)
BY DEF IsRing, Closed, After, Null

(* Ring and Chain are what the invariant says they are. *)
LEMMA NowIs ==
  ASSUME NEW free, NEW ring, NEW chain, PollIs(free, ring, chain)
  PROVE  Ring = ring /\ \A h \in Buckets : Chain(h) = chain[h]
<1>1. Ring = ring
  <2>1. ring \in ItemSeqs /\ IsRing(ring)
    BY OnceInItemSeqs, RingIsClosed DEF PollIs, RingIs
  <2>2. Ring \in ItemSeqs /\ IsRing(Ring)
    BY <2>1 DEF Ring
  <2>3. Once(Ring) /\ Closed(Ring, used_list, next, prev)
    BY <2>2, ItemSeqsAreOnce, RingIsClosed
  <2>. QED
    BY <2>3, ClosedOne DEF PollIs, RingIs
<1>2. ASSUME NEW h \in Buckets
      PROVE  Chain(h) = chain[h]
  <2>1. Once(chain[h]) /\ Linked(chain[h], hash_table[h], hash_next)
    BY DEF PollIs, ChainsAre
  <2>2. chain[h] \in ItemSeqs /\ IsChain(chain[h], hash_table[h])
    BY <2>1, OnceInItemSeqs, ChainIsLinked
  <2>3. Chain(h) \in ItemSeqs /\ IsChain(Chain(h), hash_table[h])
    BY <2>2 DEF Chain
  <2>4. Once(Chain(h)) /\ Linked(Chain(h), hash_table[h], hash_next)
    BY <2>3, ItemSeqsAreOnce, ChainIsLinked
  <2>. QED
    BY <2>1, <2>4, LinkedOne
<1>. QED
  BY <1>1, <1>2

(* The search of netx_ctl finds the item of f, if there is one. *)
LEMMA FoundIs ==
  ASSUME NEW free, NEW ring, NEW chain, PollIs(free, ring, chain), Types, NEW f \in Fds
  PROVE  /\ Bucket(f) \in Buckets /\ Chain(Bucket(f)) = chain[Bucket(f)]
         /\ Found(f) = {k \in 1 .. Len(chain[Bucket(f)]) : fd[chain[Bucket(f)][k]] = f}
         /\ Found(f) = {} => \A i \in Items : In(i, ring) => fd[i] # f
<1>1. Bucket(f) \in Buckets
  BY BucketsExist
<1>2. Chain(Bucket(f)) = chain[Bucket(f)]
  BY <1>1, NowIs
<1>3. Found(f) = {k \in 1 .. Len(chain[Bucket(f)]) : fd[chain[Bucket(f)][k]] = f}
  BY <1>2 DEF Found
<1>4. ASSUME NEW i \in Items, In(i, ring), fd[i] = f
      PROVE  Found(f) # {}
  <2>1. In(i, chain[Bucket(f)])
    BY <1>1, <1>4 DEF PollIs, Placed
  <2>. QED
    BY <1>3, <1>4, <2>1 DEF In
<1>. QED
  BY <1>1, <1>2, <1>3, <1>4

(* netx_create links all items into the free list. *)
LEMMA PollInit ==
  Init => PollInv
<1> SUFFICES ASSUME Init
             PROVE  PollInv
  OBVIOUS
<1>1. max_counts \in Nat \ {0} /\ Items = 1 .. max_counts /\ Links = Items \cup {0}
  BY NetxPollAssumption DEF Items, Links, Null
<1>2. Types
  <2>1. /\ hash_next \in Pointers /\ next \in Pointers /\ prev \in Pointers
        /\ free_list \in Links /\ used_list \in Links
    BY <1>1 DEF Init, Pointers, Null
  <2>2. fd \in [Items -> Fds \cup {0}] /\ hash_table \in [Buckets -> Links]
    BY <1>1 DEF Init, Null
  <2>. QED
    BY <2>1, <2>2 DEF Types
<1> DEFINE free == [k \in 1 .. max_counts |-> k]
<1> DEFINE chain == [h \in Buckets |-> <<>>]
<1>3. free \in Seq(Items) /\ Len(free) = max_counts /\ \A k \in 1 .. max_counts : free[k] = k
  BY <1>1
<1> HIDE DEF free
<1>4. Once(free) /\ \A i \in Items : In(i, free)
  BY <1>1, <1>3 DEF Once, In
<1>5. FreeIs(free, free_list, hash_next)
  <2>1. free # <<>> /\ free_list = free[1]
    BY <1>1, <1>3 DEF Init
  <2>2. ASSUME NEW k \in 1 .. Len(free)
        PROVE  hash_next[free[k]] = IF k = Len(free) THEN 0 ELSE free[k + 1]
    <3>1. free[k] = k /\ hash_next[k] = IF k = max_counts THEN 0 ELSE k + 1
      BY <1>1, <1>3 DEF Init, Null
    <3>2. k # max_counts => free[k + 1] = k + 1
      BY <1>1, <1>3
    <3>. QED
      BY <1>3, <3>1, <3>2
  <2>. QED
    BY <1>4, <2>1, <2>2 DEF FreeIs, Linked
<1>6. Once(<<>>) /\ \A i : ~ In(i, <<>>)
  BY DEF Once, In
<1>7. RingIs(<<>>, used_list, next, prev)
  BY <1>6 DEF RingIs, Closed, Init, Null
<1>8. ChainsAre(chain, hash_table, hash_next)
  BY <1>6 DEF ChainsAre, Linked, Init, Null
<1>9. Placed(free, <<>>, chain, fd)
  BY <1>4, <1>6 DEF Placed, Init
<1>10. counts = Len(<<>>)
  BY DEF Init
<1>. QED
  BY <1>2, <1>5, <1>7, <1>8, <1>9, <1>10 DEF PollInv, PollIs

(* What Add does to the links of a poll that is in order. *)
LEMMA AddEffect ==
  ASSUME NEW free, NEW ring, NEW chain, PollIs(free, ring, chain), Types,
         NEW f \in Fds, NEW e, Add(f, e)
  PROVE  LET i == free_list
             h == Bucket(f)
             c == chain[h]
         IN
         /\ i \in Items /\ free_list' = hash_next[i]
         /\ fd' = [fd EXCEPT ![i] = f] /\ counts' = counts + 1
         /\ hash_table' = [hash_table EXCEPT ![h] = IF c = <<>> THEN i ELSE hash_table[h]]
         /\ hash_next' \in Pointers /\ hash_next'[i] = 0
         /\ c # <<>> => hash_next'[c[Len(c)]] = i
         /\ \A j \in Items : j # i /\ (c # <<>> => j # c[Len(c)]) => hash_next'[j] = hash_next[j]
         /\ used_list' = IF ring = <<>> THEN i ELSE used_list
         /\ next' \in Pointers /\ prev' \in Pointers
         /\ ring = <<>> => next'[i] = i /\ prev'[i] = i
         /\ ring # <<>> =>
              /\ next'[i] = used_list /\ next'[prev[used_list]] = i
              /\ prev'[i] = prev[used_list] /\ prev'[used_list] = i
              /\ \A j \in Items : j # i /\ j # prev[used_list] => next'[j] = next[j]
              /\ \A j \in Items : j # i /\ j # used_list => prev'[j] = prev[j]
<1> DEFINE i == free_list
           h == Bucket(f)
           c == chain[h]
<1>1. h \in Buckets /\ Chain(h) = c
  BY FoundIs
<1>2. i \in Items /\ i # 0 /\ free_list' = hash_next[i] /\ hash_next[i] \in Links
  BY DEF Add, Types, Links, Null, Claim, Pointers
<1>3. fd' = [fd EXCEPT ![i] = f] /\ counts' = counts + 1
  BY DEF Add
<1>4. Once(c) /\ Linked(c, hash_table[h], hash_next)
  BY <1>1 DEF PollIs, ChainsAre
<1>5. Len(c) \in Nat /\ (c = <<>> <=> Len(c) = 0) /\ (c # <<>> => Len(c) \in 1 .. Len(c))
      /\ (c # <<>> => c[Len(c)] \in Items /\ c[Len(c)] # 0) /\ (Len(c) + 1) - 1 = Len(c)
  BY <1>4, ItemsNotNull DEF Once
<1>6. Before(f, Len(Chain(Bucket(f))) + 1) = IF c = <<>> THEN 0 ELSE c[Len(c)]
  BY <1>1, <1>5 DEF Before, Null
<1>7. i # c[Len(c)] \/ c = <<>>
  <2>1. CASE c # <<>>
    <3>1. In(c[Len(c)], c)
      BY <1>5, <2>1 DEF In
    <3>2. ~ In(c[Len(c)], free)
      BY <1>1, <1>5, <2>1, <3>1 DEF PollIs, Placed
    <3>3. free # <<>>
      BY <1>2 DEF PollIs, FreeIs, Linked
    <3>4. In(i, free)
      BY <3>3, LinkedTail DEF PollIs, FreeIs
    <3>. QED
      BY <3>2, <3>4
  <2>. QED
    BY <2>1
<1> DEFINE hn == [hash_next EXCEPT ![i] = 0]
<1>8. hn \in Pointers /\ hn[i] = 0 /\ \A j \in Items : j # i => hn[j] = hash_next[j]
  BY <1>2 DEF Types, Pointers, Links, Null
<1>9. Store(f, IF c = <<>> THEN 0 ELSE c[Len(c)], i, hn)
  <2>1. Store(f, Before(f, Len(Chain(Bucket(f))) + 1), free_list,
              [hash_next EXCEPT ![free_list] = 0])
    BY DEF Add, Claim, Null
  <2>. QED
    BY <1>6, <2>1
<1> HIDE DEF hn
<1>10. /\ hash_table' = [hash_table EXCEPT ![h] = IF c = <<>> THEN i ELSE hash_table[h]]
       /\ hash_next' \in Pointers /\ hash_next'[i] = 0
       /\ c # <<>> => hash_next'[c[Len(c)]] = i
       /\ \A j \in Items : j # i /\ (c # <<>> => j # c[Len(c)]) => hash_next'[j] = hash_next[j]
  <2>1. CASE c = <<>>
    <3>1. hash_table' = [hash_table EXCEPT ![h] = i] /\ hash_next' = hn
      BY <1>9, <2>1 DEF Store, Null
    <3>. QED
      BY <1>8, <2>1, <3>1
  <2>2. CASE c # <<>>
    <3>1. hash_table' = hash_table /\ hash_next' = [hn EXCEPT ![c[Len(c)]] = i]
      BY <1>5, <1>9, <2>2 DEF Store, Null
    <3>2. hash_table = [hash_table EXCEPT ![h] = hash_table[h]]
      BY <1>1 DEF Types
    <3>3. i \in Links
      BY <1>2 DEF Links
    <3>4. /\ hash_next' \in Pointers /\ hash_next'[c[Len(c)]] = i
          /\ \A j \in Items : j # c[Len(c)] => hash_next'[j] = hn[j]
      BY <1>5, <1>8, <2>2, <3>1, <3>3 DEF Pointers
    <3>. QED
      BY <1>2, <1>7, <1>8, <2>2, <3>1, <3>2, <3>4
  <2>. QED
    BY <2>1, <2>2
<1>11. LinkUsed(i)
  BY DEF Add
<1>12. RingIs(ring, used_list, next, prev)
  BY DEF PollIs
<1>13. next \in [Items -> Links] /\ prev \in [Items -> Links] /\ i \in Links
  BY <1>2 DEF Types, Pointers, Links
<1>14. CASE ring = <<>>
  <2>1. used_list = 0
    BY <1>12, <1>14 DEF RingIs, Closed
  <2>2. used_list' = i /\ next' = [next EXCEPT ![i] = i] /\ prev' = [prev EXCEPT ![i] = i]
    BY <1>11, <2>1 DEF LinkUsed, Null
  <2>3. next' \in Pointers /\ prev' \in Pointers /\ next'[i] = i /\ prev'[i] = i
    BY <1>2, <1>13, <2>2 DEF Pointers
  <2>. QED
    BY <1>2, <1>3, <1>10, <1>14, <2>2, <2>3
<1>15. CASE ring # <<>>
  <2>1. used_list \in Items /\ prev[used_list] \in Items /\ used_list # 0
        /\ used_list = ring[1] /\ prev[used_list] = ring[Len(ring)] /\ Len(ring) \in Nat \ {0}
    BY <1>12, <1>15, RingEnds, ItemsNotNull DEF RingIs
  <2>2. In(used_list, ring) /\ In(prev[used_list], ring) /\ ~ In(i, ring)
    <3>1. free # <<>>
      BY <1>2 DEF PollIs, FreeIs, Linked
    <3>2. In(i, free)
      BY <3>1, LinkedTail DEF PollIs, FreeIs
    <3>3. 1 \in 1 .. Len(ring) /\ Len(ring) \in 1 .. Len(ring)
      BY <2>1
    <3>. QED
      BY <1>2, <2>1, <3>2, <3>3 DEF PollIs, Placed, In
  <2>3. i # used_list /\ i # prev[used_list]
    BY <2>2
  <2>4. /\ used_list' = used_list
        /\ next' = [next EXCEPT ![i] = used_list, ![prev[used_list]] = i]
        /\ prev' = [prev EXCEPT ![i] = prev[used_list], ![used_list] = i]
    BY <1>11, <2>1 DEF LinkUsed, Null
  <2>5. /\ next' = [[next EXCEPT ![i] = used_list] EXCEPT ![prev[used_list]] = i]
        /\ prev' = [[prev EXCEPT ![i] = prev[used_list]] EXCEPT ![used_list] = i]
    BY <2>4, Zenon
  <2>6. used_list \in Links /\ prev[used_list] \in Links
    BY <2>1 DEF Links
  <2>7. /\ next' \in Pointers /\ next'[i] = used_list /\ next'[prev[used_list]] = i
        /\ \A j \in Items : j # i /\ j # prev[used_list] => next'[j] = next[j]
    BY <1>2, <1>13, <2>1, <2>3, <2>5, <2>6 DEF Pointers
  <2>8. /\ prev' \in Pointers /\ prev'[i] = prev[used_list] /\ prev'[used_list] = i
        /\ \A j \in Items : j # i /\ j # used_list => prev'[j] = prev[j]
    BY <1>2, <1>13, <2>1, <2>3, <2>5, <2>6 DEF Pointers
  <2>. QED
    BY <1>2, <1>3, <1>10, <1>15, <2>4, <2>7, <2>8
<1>. QED
  BY <1>14, <1>15

(* A free item goes to the end of its chain and of the ring. *)
LEMMA AddKeeps ==
  ASSUME NEW free, NEW ring, NEW chain, PollIs(free, ring, chain), Types,
         NEW f \in Fds, NEW e, Add(f, e)
  PROVE  PollInv'
<1> DEFINE i == free_list
           h == Bucket(f)
           c == chain[h]
<1>1. /\ i \in Items /\ free_list' = hash_next[i]
      /\ fd' = [fd EXCEPT ![i] = f] /\ counts' = counts + 1
      /\ hash_table' = [hash_table EXCEPT ![h] = IF c = <<>> THEN i ELSE hash_table[h]]
      /\ hash_next' \in Pointers /\ hash_next'[i] = 0
      /\ c # <<>> => hash_next'[c[Len(c)]] = i
      /\ \A j \in Items : j # i /\ (c # <<>> => j # c[Len(c)]) => hash_next'[j] = hash_next[j]
  BY AddEffect
<1>2. /\ used_list' = IF ring = <<>> THEN i ELSE used_list
      /\ next' \in Pointers /\ prev' \in Pointers
      /\ ring = <<>> => next'[i] = i /\ prev'[i] = i
      /\ ring # <<>> =>
           /\ next'[i] = used_list /\ next'[prev[used_list]] = i
           /\ prev'[i] = prev[used_list] /\ prev'[used_list] = i
           /\ \A j \in Items : j # i /\ j # prev[used_list] => next'[j] = next[j]
           /\ \A j \in Items : j # i /\ j # used_list => prev'[j] = prev[j]
  BY AddEffect
<1>3. /\ Once(free) /\ Linked(free, i, hash_next)
      /\ Once(ring) /\ Closed(ring, used_list, next, prev)
      /\ chain \in [Buckets -> Seq(Items)]
      /\ \A g \in Buckets : Once(chain[g]) /\ Linked(chain[g], hash_table[g], hash_next)
  BY DEF PollIs, FreeIs, RingIs, ChainsAre
<1>4. /\ \A j \in Items : In(j, ring) <=> ~ In(j, free)
      /\ \A g \in Buckets : \A j \in Items :
           In(j, chain[g]) <=> In(j, ring) /\ Bucket(fd[j]) = g
      /\ \A j, k \in Items : In(j, ring) /\ In(k, ring) /\ fd[j] = fd[k] => j = k
  BY DEF PollIs, Placed
<1>5. h \in Buckets /\ \A j \in Items : In(j, ring) => fd[j] # f
  <2>1. Found(f) = {}
    BY DEF Add
  <2>. QED
    BY <2>1, FoundIs
<1>6. /\ Types /\ hash_next[i] \in Links /\ i \in Links
      /\ fd' \in [Items -> Fds \cup {0}]
      /\ fd'[i] = f /\ \A j \in Items : j # i => fd'[j] = fd[j]
  BY <1>1 DEF Types, Links, Pointers
<1>7. Once(c) /\ Linked(c, hash_table[h], hash_next) /\ hash_table[h] \in Links
  BY <1>3, <1>5 DEF Types
<1>8. /\ free # <<>> /\ i = free[1] /\ In(i, free) /\ 1 \in 1 .. Len(free)
      /\ Linked(Cut(free, 1), hash_next[i], hash_next)
  <2>1. free # <<>>
    BY <1>1, <1>3, ItemsNotNull DEF Linked
  <2>. QED
    BY <1>3, <2>1, LinkedTail
<1>9. /\ Once(Cut(free, 1))
      /\ \A j \in Items : In(j, Cut(free, 1)) <=> j # i /\ In(j, free)
  BY <1>3, <1>8, CutIs
<1>10. ~ In(i, ring) /\ \A g \in Buckets : ~ In(i, chain[g])
  BY <1>1, <1>4, <1>8
<1>11. c # <<>> => In(c[Len(c)], c) /\ c[Len(c)] \in Items
  <2>1. c # <<>> => Len(c) \in 1 .. Len(c)
    BY <1>7 DEF Once
  <2>. QED
    BY <1>7, <2>1 DEF Once, In
<1>12. FreeIs(Cut(free, 1), free_list', hash_next')
  <2>1. \A j \in Items : In(j, Cut(free, 1)) => hash_next'[j] = hash_next[j]
    BY <1>1, <1>4, <1>5, <1>9, <1>11
  <2>2. Linked(Cut(free, 1), hash_next[i], hash_next')
    BY <1>8, <1>9, <2>1, LinkedSame
  <2>. QED
    BY <1>1, <1>9, <2>2 DEF FreeIs
<1>13. /\ Once(AtEnd(ring, i)) /\ Len(AtEnd(ring, i)) = Len(ring) + 1
       /\ \A j \in Items : In(j, AtEnd(ring, i)) <=> j = i \/ In(j, ring)
  BY <1>1, <1>3, <1>10, AtEndIs
<1>14. RingIs(AtEnd(ring, i), used_list', next', prev')
  <2>1. /\ ring # <<>> => \A j \in Items : In(j, ring) /\ j # prev[used_list] => next'[j] = next[j]
        /\ ring # <<>> => \A j \in Items : In(j, ring) /\ j # used_list => prev'[j] = prev[j]
    BY <1>2, <1>10
  <2>2. Closed(AtEnd(ring, i), IF ring = <<>> THEN i ELSE used_list, next', prev')
    BY <1>1, <1>2, <1>3, <1>10, <2>1, ClosedAtEnd
  <2>. QED
    BY <1>2, <1>13, <2>2 DEF RingIs
<1>15. /\ Once(AtEnd(c, i))
       /\ \A j \in Items : In(j, AtEnd(c, i)) <=> j = i \/ In(j, c)
  BY <1>1, <1>5, <1>7, <1>10, AtEndIs
<1>16. Linked(AtEnd(c, i), IF c = <<>> THEN i ELSE hash_table[h], hash_next')
  <2>1. \A j \in Items : In(j, c) /\ j # c[Len(c)] => hash_next'[j] = hash_next[j]
    BY <1>1, <1>5, <1>10
  <2>2. ~ In(i, c)
    BY <1>5, <1>10
  <2> HIDE DEF c, i
  <2>. QED
    BY <1>1, <1>7, <2>1, <2>2, LinkedAtEnd
<1> DEFINE chains == [chain EXCEPT ![h] = AtEnd(c, i)]
<1>17. /\ chains \in [Buckets -> Seq(Items)] /\ chains[h] = AtEnd(c, i)
       /\ \A g \in Buckets : g # h => chains[g] = chain[g]
  BY <1>3, <1>5, <1>15 DEF Once
<1>18. /\ hash_table' \in [Buckets -> Links]
       /\ hash_table'[h] = IF c = <<>> THEN i ELSE hash_table[h]
       /\ \A g \in Buckets : g # h => hash_table'[g] = hash_table[g]
  BY <1>1, <1>5, <1>6, <1>7 DEF Types
<1> HIDE DEF chains
<1>19. ChainsAre(chains, hash_table', hash_next')
  <2>1. ASSUME NEW g \in Buckets, g # h
        PROVE  Once(chains[g]) /\ Linked(chains[g], hash_table'[g], hash_next')
    <3>1. Once(chain[g]) /\ Linked(chain[g], hash_table[g], hash_next)
      BY <1>3
    <3>2. ASSUME NEW j \in Items, In(j, chain[g])
          PROVE  hash_next'[j] = hash_next[j]
      <4>1. j # i /\ ~ In(j, c)
        BY <1>4, <1>5, <1>10, <2>1, <3>2
      <4>. QED
        BY <1>1, <1>11, <4>1
    <3>3. Linked(chain[g], hash_table[g], hash_next')
      BY <3>1, <3>2, LinkedSame
    <3>. QED
      BY <1>17, <1>18, <2>1, <3>1, <3>3
  <2>2. Once(chains[h]) /\ Linked(chains[h], hash_table'[h], hash_next')
    BY <1>15, <1>16, <1>17, <1>18
  <2>. QED
    BY <1>17, <2>1, <2>2 DEF ChainsAre
<1>20. Placed(Cut(free, 1), AtEnd(ring, i), chains, fd')
  <2>1. \A j \in Items : In(j, AtEnd(ring, i)) <=> ~ In(j, Cut(free, 1))
    BY <1>4, <1>9, <1>13
  <2>2. ASSUME NEW g \in Buckets, NEW j \in Items
        PROVE  In(j, chains[g]) <=> In(j, AtEnd(ring, i)) /\ Bucket(fd'[j]) = g
    <3>1. CASE j = i
      BY <1>1, <1>6, <1>10, <1>13, <1>15, <1>17, <3>1
    <3>2. CASE j # i
      <4>1. /\ In(j, AtEnd(ring, i)) <=> In(j, ring)
            /\ In(j, chain[g]) <=> In(j, ring) /\ Bucket(fd'[j]) = g
        BY <1>4, <1>6, <1>13, <3>2
      <4>2. CASE g = h
        BY <1>15, <1>17, <3>2, <4>1, <4>2
      <4>3. CASE g # h
        BY <1>17, <4>1, <4>3
      <4>. QED
        BY <4>2, <4>3
    <3>. QED
      BY <3>1, <3>2
  <2>3. ASSUME NEW j \in Items, NEW k \in Items,
               In(j, AtEnd(ring, i)), In(k, AtEnd(ring, i)), fd'[j] = fd'[k]
        PROVE  j = k
    BY <1>4, <1>5, <1>6, <1>13, <2>3
  <2>4. ASSUME NEW j \in Items
        PROVE  IF In(j, AtEnd(ring, i)) THEN fd'[j] \in Fds ELSE fd'[j] = 0
    BY <1>6, <1>13 DEF PollIs, Placed
  <2>. QED
    BY <2>1, <2>2, <2>3, <2>4 DEF Placed
<1>21. counts' = Len(AtEnd(ring, i))
  BY <1>1, <1>13 DEF PollIs
<1>22. Types'
  <2>1. used_list' \in Links
    BY <1>2, <1>6 DEF Types
  <2>. QED
    BY <1>1, <1>2, <1>6, <1>18, <2>1 DEF Types
<1> HIDE DEF i
<1>. QED
  BY <1>12, <1>14, <1>19, <1>20, <1>21, <1>22 DEF PollInv, PollIs

(* What Del does to the links of a poll that is in order, where the item   *)
(* is at place k of its chain c.                                           *)
Deleted(f, c, k) ==
    LET h == Bucket(f)
        i == c[k]
    IN
    /\ i \in Items /\ fd[i] = f /\ free_list' = i
    /\ fd' = [fd EXCEPT ![i] = 0] /\ counts' = counts - 1
    /\ hash_table' = [hash_table EXCEPT ![h] = IF k = 1 THEN hash_next[i] ELSE hash_table[h]]
    /\ hash_next' \in Pointers /\ hash_next'[i] = free_list
    /\ k # 1 => hash_next'[c[k - 1]] = hash_next[i]
    /\ \A j \in Items : j # i /\ (k # 1 => j # c[k - 1]) => hash_next'[j] = hash_next[j]
    /\ used_list' = IF i # used_list THEN used_list
                    ELSE IF prev[i] = i THEN 0 ELSE next[i]
    /\ next' \in Pointers /\ prev' \in Pointers
    /\ prev[i] # i => next'[prev[i]] = next[i] /\ prev'[next[i]] = prev[i]
    /\ \A j \in Items : j # prev[i] /\ j # i => next'[j] = next[j]
    /\ \A j \in Items : j # next[i] /\ j # i => prev'[j] = prev[j]

LEMMA DelEffect ==
  ASSUME NEW free, NEW ring, NEW chain, PollIs(free, ring, chain), Types,
         NEW f \in Fds, Del(f)
  PROVE  \E k \in 1 .. Len(chain[Bucket(f)]) : Deleted(f, chain[Bucket(f)], k)
<1> DEFINE h == Bucket(f)
           c == chain[h]
<1>1. h \in Buckets /\ Chain(h) = c /\ Found(f) = {k \in 1 .. Len(c) : fd[c[k]] = f}
  BY FoundIs
<1>2. PICK k \in Found(f) :
        LET i == Chain(Bucket(f))[k]
        IN  /\ event' = [event EXCEPT ![i] = NoEvent]
            /\ fd' = [fd EXCEPT ![i] = 0]
            /\ UnlinkUsed(i)
            /\ Release(f, k)
  BY DEF Del
<1> DEFINE i == c[k]
<1>3. k \in 1 .. Len(c) /\ fd[i] = f /\ fd' = [fd EXCEPT ![i] = 0] /\ UnlinkUsed(i)
  BY <1>1, <1>2
<1>4. Once(c) /\ Linked(c, hash_table[h], hash_next)
  BY <1>1 DEF PollIs, ChainsAre
<1>5. /\ i \in Items /\ i # 0 /\ Len(c) \in Nat
      /\ k # 1 => k - 1 \in 1 .. Len(c) /\ c[k - 1] \in Items /\ c[k - 1] # 0 /\ c[k - 1] # i
  <2>1. Len(c) \in Nat /\ (k # 1 => k - 1 \in 1 .. Len(c) /\ k - 1 # k)
    BY <1>3, <1>4 DEF Once
  <2>. QED
    BY <1>3, <1>4, <2>1, ItemsNotNull DEF Once
<1>6. counts' = counts - 1
  BY DEF Del
<1>7. Before(f, k) = IF k = 1 THEN 0 ELSE c[k - 1]
  BY <1>1 DEF Before, Null
<1>8. free_list' = i /\ Store(f, Before(f, k), hash_next[i], [hash_next EXCEPT ![i] = free_list])
  BY <1>1, <1>2 DEF Release
<1>9. /\ free_list \in Links /\ hash_next[i] \in Links
      /\ hash_next \in [Items -> Links] /\ next \in [Items -> Links] /\ prev \in [Items -> Links]
  BY <1>5 DEF Types, Pointers
<1> DEFINE hn == [hash_next EXCEPT ![i] = free_list]
<1>10. hn \in Pointers /\ hn[i] = free_list /\ \A j \in Items : j # i => hn[j] = hash_next[j]
  BY <1>5, <1>9 DEF Pointers
<1>11. Store(f, IF k = 1 THEN 0 ELSE c[k - 1], hash_next[i], hn)
  BY <1>7, <1>8
<1> HIDE DEF hn
<1>12. /\ hash_table' = [hash_table EXCEPT ![h] = IF k = 1 THEN hash_next[i] ELSE hash_table[h]]
       /\ hash_next' \in Pointers /\ hash_next'[i] = free_list
       /\ k # 1 => hash_next'[c[k - 1]] = hash_next[i]
       /\ \A j \in Items : j # i /\ (k # 1 => j # c[k - 1]) => hash_next'[j] = hash_next[j]
  <2>1. CASE k = 1
    <3>1. hash_table' = [hash_table EXCEPT ![h] = hash_next[i]] /\ hash_next' = hn
      BY <1>11, <2>1 DEF Store, Null
    <3>. QED
      BY <1>10, <2>1, <3>1
  <2>2. CASE k # 1
    <3>1. hash_table' = hash_table /\ hash_next' = [hn EXCEPT ![c[k - 1]] = hash_next[i]]
      BY <1>5, <1>11, <2>2 DEF Store, Null
    <3>2. hash_table = [hash_table EXCEPT ![h] = hash_table[h]]
      BY <1>1 DEF Types
    <3>3. /\ hash_next' \in Pointers /\ hash_next'[c[k - 1]] = hash_next[i]
          /\ \A j \in Items : j # c[k - 1] => hash_next'[j] = hn[j]
      BY <1>5, <1>9, <1>10, <2>2, <3>1 DEF Pointers
    <3>. QED
      BY <1>5, <1>10, <2>2, <3>1, <3>2, <3>3
  <2>. QED
    BY <2>1, <2>2
<1>13. /\ used_list' = IF i # used_list THEN used_list ELSE IF prev[i] = i THEN 0 ELSE next[i]
       /\ next' = [next EXCEPT ![prev[i]] = next[i], ![i] = 0]
       /\ prev' = [prev EXCEPT ![next[i]] = prev[i], ![i] = 0]
  BY <1>3 DEF UnlinkUsed, Null
<1>14. /\ next' = [[next EXCEPT ![prev[i]] = next[i]] EXCEPT ![i] = 0]
       /\ prev' = [[prev EXCEPT ![next[i]] = prev[i]] EXCEPT ![i] = 0]
  BY <1>13, Zenon
<1>15. In(i, ring)
  <2>1. In(i, c)
    BY <1>3 DEF In
  <2>. QED
    BY <1>1, <1>5, <2>1 DEF PollIs, Placed
<1>16. PICK m \in 1 .. Len(ring) : ring[m] = i
  BY <1>15 DEF In
<1>17. /\ prev[i] \in Items /\ next[i] \in Items /\ (prev[i] # i => next[i] # i)
       /\ 0 \in Links /\ prev[i] \in Links /\ next[i] \in Links
  <2>1. Once(ring) /\ Closed(ring, used_list, next, prev) /\ Len(ring) \in Nat
    BY DEF PollIs, RingIs, Once
  <2>2. /\ After(ring, m) = next[i] /\ After(ring, m) \in Items
        /\ (m # Len(ring) => m + 1 \in 1 .. Len(ring))
    <3>1. /\ m # Len(ring) => m + 1 \in 1 .. Len(ring)
          /\ 1 \in 1 .. Len(ring)
      BY <2>1
    <3>. QED
      BY <1>16, <2>1, <3>1 DEF Once, Closed, After
  <2>3. prev[next[i]] = i
    BY <1>16, <2>1, <2>2 DEF Closed
  <2>4. prev[i] \in Items
    <3>1. PICK n \in 1 .. Len(ring) : After(ring, n) = i
      <4>1. CASE m = 1
        <5>1. Len(ring) \in 1 .. Len(ring) /\ After(ring, Len(ring)) = i
          BY <1>16, <2>1, <4>1 DEF After
        <5>. QED
          BY <5>1
      <4>2. CASE m # 1
        <5>1. m - 1 \in 1 .. Len(ring) /\ m - 1 # Len(ring) /\ (m - 1) + 1 = m
          BY <2>1, <4>2
        <5>2. After(ring, m - 1) = i
          BY <1>16, <5>1 DEF After
        <5>. QED
          BY <5>1, <5>2
      <4>. QED
        BY <4>1, <4>2
    <3>. QED
      BY <2>1, <3>1 DEF Closed, Once
  <2>5. next[i] = i => prev[i] = i
    BY <2>3
  <2>. QED
    BY <2>2, <2>4, <2>5 DEF Links, Null
<1>18. /\ next' \in Pointers /\ (prev[i] # i => next'[prev[i]] = next[i])
       /\ \A j \in Items : j # prev[i] /\ j # i => next'[j] = next[j]
  BY <1>5, <1>9, <1>14, <1>17 DEF Pointers
<1>19. /\ prev' \in Pointers /\ (prev[i] # i => prev'[next[i]] = prev[i])
       /\ \A j \in Items : j # next[i] /\ j # i => prev'[j] = prev[j]
  BY <1>5, <1>9, <1>14, <1>17 DEF Pointers
<1>20. Deleted(f, c, k)
  <2> HIDE DEF c
  <2>. QED
    BY <1>3, <1>5, <1>6, <1>8, <1>12, <1>13, <1>18, <1>19 DEF Deleted
<1>. QED
  BY <1>3, <1>20

(* An item in use goes from its chain and the ring to the free list. *)
LEMMA DelKeeps ==
  ASSUME NEW free, NEW ring, NEW chain, PollIs(free, ring, chain), Types,
         NEW f \in Fds, Del(f)
  PROVE  PollInv'
<1> DEFINE h == Bucket(f)
           c == chain[h]
<1>1. PICK k \in 1 .. Len(c) : Deleted(f, c, k)
  BY DelEffect
<1> DEFINE i == c[k]
<1>2. /\ Once(free) /\ Linked(free, free_list, hash_next)
      /\ Once(ring) /\ Closed(ring, used_list, next, prev)
      /\ chain \in [Buckets -> Seq(Items)]
      /\ \A g \in Buckets : Once(chain[g]) /\ Linked(chain[g], hash_table[g], hash_next)
  BY DEF PollIs, FreeIs, RingIs, ChainsAre
<1>3. /\ \A j \in Items : In(j, ring) <=> ~ In(j, free)
      /\ \A g \in Buckets : \A j \in Items :
           In(j, chain[g]) <=> In(j, ring) /\ Bucket(fd[j]) = g
      /\ \A j, n \in Items : In(j, ring) /\ In(n, ring) /\ fd[j] = fd[n] => j = n
  BY DEF PollIs, Placed
<1>4. h \in Buckets /\ Once(c) /\ Linked(c, hash_table[h], hash_next) /\ hash_table[h] \in Links
  BY <1>2, FoundIs DEF Types
<1>5. /\ i \in Items /\ fd[i] = f /\ free_list' = i
      /\ fd' = [fd EXCEPT ![i] = 0] /\ counts' = counts - 1
      /\ hash_table' = [hash_table EXCEPT ![h] = IF k = 1 THEN hash_next[i] ELSE hash_table[h]]
      /\ hash_next' \in Pointers /\ hash_next'[i] = free_list
      /\ k # 1 => hash_next'[c[k - 1]] = hash_next[i]
      /\ \A j \in Items : j # i /\ (k # 1 => j # c[k - 1]) => hash_next'[j] = hash_next[j]
  BY <1>1 DEF Deleted
<1>6. /\ used_list' = IF i # used_list THEN used_list
                      ELSE IF prev[i] = i THEN 0 ELSE next[i]
      /\ next' \in Pointers /\ prev' \in Pointers
      /\ prev[i] # i => next'[prev[i]] = next[i] /\ prev'[next[i]] = prev[i]
      /\ \A j \in Items : j # prev[i] /\ j # i => next'[j] = next[j]
      /\ \A j \in Items : j # next[i] /\ j # i => prev'[j] = prev[j]
  BY <1>1 DEF Deleted
<1>7. /\ hash_next[i] \in Links /\ next[i] \in Links
      /\ fd' \in [Items -> Fds \cup {0}]
      /\ \A j \in Items : j # i => fd'[j] = fd[j]
  BY <1>5 DEF Types, Pointers
<1>8. In(i, c) /\ In(i, ring) /\ ~ In(i, free) /\ Bucket(fd[i]) = h
  <2>1. In(i, c)
    BY DEF In
  <2>. QED
    BY <1>3, <1>4, <1>5, <2>1
<1>9. k # 1 => k - 1 \in 1 .. Len(c) /\ c[k - 1] \in Items /\ In(c[k - 1], c) /\ k \in 2 .. Len(c)
  <2>1. Len(c) \in Nat /\ (k # 1 => k - 1 \in 1 .. Len(c) /\ k \in 2 .. Len(c))
    BY <1>4 DEF Once
  <2>. QED
    BY <1>4, <2>1 DEF Once, In
<1>10. PICK m \in 1 .. Len(ring) : ring[m] = i
  BY <1>8 DEF In
<1> HIDE DEF i
<1>11. /\ Once(InFront(i, free))
       /\ \A j \in Items : In(j, InFront(i, free)) <=> j = i \/ In(j, free)
  BY <1>2, <1>5, <1>8, InFrontIs
<1>12. FreeIs(InFront(i, free), free_list', hash_next')
  <2>1. ASSUME NEW j \in Items, In(j, free)
        PROVE  hash_next'[j] = hash_next[j]
    <3>1. ~ In(j, c) /\ j # i
      BY <1>3, <1>4, <1>8, <2>1
    <3>. QED
      BY <1>5, <1>9, <3>1
  <2>2. Linked(InFront(i, free), i, hash_next')
    BY <1>2, <1>5, <1>8, <2>1, LinkedInFront
  <2>. QED
    BY <1>5, <1>11, <2>2 DEF FreeIs
<1>13. /\ Once(Cut(ring, m)) /\ Len(Cut(ring, m)) = Len(ring) - 1
       /\ \A j \in Items : In(j, Cut(ring, m)) <=> j # i /\ In(j, ring)
  <2>1. Once(ring)
    BY <1>2
  <2>2. \A j \in Items : In(j, Cut(ring, m)) <=> j # ring[m] /\ In(j, ring)
    BY <2>1, CutIs
  <2>. QED
    BY <1>10, <2>1, <2>2, CutIs
<1>14. RingIs(Cut(ring, m), used_list', next', prev')
  <2>1. i = ring[m]
    BY <1>10
  <2>2. Closed(Cut(ring, m), used_list', next', prev')
    <3>1. /\ \A j \in Items : In(j, ring) /\ j # prev[i] /\ j # i => next'[j] = next[j]
          /\ \A j \in Items : In(j, ring) /\ j # next[i] /\ j # i => prev'[j] = prev[j]
      BY <1>6
    <3>2. /\ used_list' = IF i # used_list THEN used_list ELSE IF prev[i] = i THEN 0 ELSE next[i]
          /\ prev[i] # i => next'[prev[i]] = next[i] /\ prev'[next[i]] = prev[i]
      BY <1>6
    <3>3. Once(ring) /\ Closed(ring, used_list, next, prev)
      BY <1>2
    <3>. QED
      BY <2>1, <3>1, <3>2, <3>3, ClosedCut
  <2>. QED
    BY <1>13, <2>2 DEF RingIs
<1>15. /\ Once(Cut(c, k))
       /\ \A j \in Items : In(j, Cut(c, k)) <=> j # i /\ In(j, c)
  BY <1>4, CutIs DEF i
<1>16. Linked(Cut(c, k), IF k = 1 THEN hash_next[i] ELSE hash_table[h], hash_next')
  <2>1. CASE k = 1
    <3>1. c # <<>> /\ i = c[1]
      BY <1>4, <2>1 DEF i, Once
    <3>2. hash_table[h] = i /\ Linked(Cut(c, 1), hash_next[i], hash_next)
      BY <1>4, <3>1, LinkedTail
    <3>3. \A j \in Items : In(j, Cut(c, 1)) => hash_next'[j] = hash_next[j]
      BY <1>5, <1>15, <2>1
    <3>4. Linked(Cut(c, 1), hash_next[i], hash_next')
      BY <1>15, <2>1, <3>2, <3>3, LinkedSame
    <3>. QED
      BY <2>1, <3>4
  <2>2. CASE k # 1
    <3>1. /\ k \in 2 .. Len(c) /\ hash_next'[c[k - 1]] = hash_next[c[k]]
          /\ \A j \in Items : In(j, c) /\ j # c[k - 1] /\ j # c[k] => hash_next'[j] = hash_next[j]
      BY <1>5, <1>9, <2>2 DEF i
    <3>2. Linked(Cut(c, k), hash_table[h], hash_next')
      <4> HIDE DEF c
      <4>. QED
        BY <1>4, <3>1, LinkedCut
    <3>. QED
      BY <2>2, <3>2
  <2>. QED
    BY <2>1, <2>2
<1> DEFINE chains == [chain EXCEPT ![h] = Cut(c, k)]
<1>17. /\ chains \in [Buckets -> Seq(Items)] /\ chains[h] = Cut(c, k)
       /\ \A g \in Buckets : g # h => chains[g] = chain[g]
  BY <1>2, <1>4, <1>15 DEF Once
<1>18. /\ hash_table' \in [Buckets -> Links]
       /\ hash_table'[h] = IF k = 1 THEN hash_next[i] ELSE hash_table[h]
       /\ \A g \in Buckets : g # h => hash_table'[g] = hash_table[g]
  BY <1>4, <1>5, <1>7 DEF Types
<1> HIDE DEF chains
<1>19. ChainsAre(chains, hash_table', hash_next')
  <2>1. ASSUME NEW g \in Buckets, g # h
        PROVE  Once(chains[g]) /\ Linked(chains[g], hash_table'[g], hash_next')
    <3>1. Once(chain[g]) /\ Linked(chain[g], hash_table[g], hash_next)
      BY <1>2
    <3>2. ASSUME NEW j \in Items, In(j, chain[g])
          PROVE  hash_next'[j] = hash_next[j]
      <4>1. j # i /\ ~ In(j, c)
        BY <1>3, <1>4, <1>8, <2>1, <3>2
      <4>. QED
        BY <1>5, <1>9, <4>1
    <3>3. Linked(chain[g], hash_table[g], hash_next')
      BY <3>1, <3>2, LinkedSame
    <3>. QED
      BY <1>17, <1>18, <2>1, <3>1, <3>3
  <2>2. Once(chains[h]) /\ Linked(chains[h], hash_table'[h], hash_next')
    BY <1>15, <1>16, <1>17, <1>18
  <2>. QED
    BY <1>17, <2>1, <2>2 DEF ChainsAre
<1>20. Placed(InFront(i, free), Cut(ring, m), chains, fd')
  <2>1. \A j \in Items : In(j, Cut(ring, m)) <=> ~ In(j, InFront(i, free))
    BY <1>3, <1>11, <1>13
  <2>2. ASSUME NEW g \in Buckets, NEW j \in Items
        PROVE  In(j, chains[g]) <=> In(j, Cut(ring, m)) /\ Bucket(fd'[j]) = g
    <3>1. CASE j = i
      BY <1>3, <1>8, <1>13, <1>15, <1>17, <3>1
    <3>2. CASE j # i
      BY <1>3, <1>4, <1>7, <1>13, <1>15, <1>17, <3>2
    <3>. QED
      BY <3>1, <3>2
  <2>3. ASSUME NEW j \in Items, NEW n \in Items,
               In(j, Cut(ring, m)), In(n, Cut(ring, m)), fd'[j] = fd'[n]
        PROVE  j = n
    BY <1>3, <1>7, <1>13, <2>3
  <2>4. ASSUME NEW j \in Items
        PROVE  IF In(j, Cut(ring, m)) THEN fd'[j] \in Fds ELSE fd'[j] = 0
    BY <1>5, <1>7, <1>13 DEF PollIs, Placed, Types
  <2>. QED
    BY <2>1, <2>2, <2>3, <2>4 DEF Placed
<1>21. counts' = Len(Cut(ring, m))
  BY <1>5, <1>13 DEF PollIs
<1>22. Types'
  <2>1. used_list' \in Links /\ free_list' \in Links
    BY <1>5, <1>6, <1>7 DEF Types, Links, Null
  <2>. QED
    BY <1>5, <1>6, <1>7, <1>18, <2>1 DEF Types
<1>. QED
  BY <1>12, <1>14, <1>19, <1>20, <1>21, <1>22 DEF PollInv, PollIs

(* A wait that has room for all turns the ring and writes no link. *)
LEMMA GatherKeeps ==
  ASSUME NEW free, NEW ring, NEW chain, PollIs(free, ring, chain), Types, Gather
  PROVE  PollInv'
<1>1. UNCHANGED <<hash_next, next, prev, free_list, hash_table, fd, counts>>
  BY DEF Gather, links
<1>2. RingIs(ring, used_list, next, prev)
  BY DEF PollIs
<1>3. CASE used_list' = used_list
  BY <1>1, <1>3 DEF PollInv, PollIs, Types
<1>4. CASE used_list' # used_list
  <2>1. used_list' = IF used_list = 0 THEN 0 ELSE next[used_list]
    BY <1>4 DEF Gather, Null
  <2>2. used_list # 0 /\ used_list' = next[used_list]
    BY <1>4, <2>1
  <2>3. ring # <<>>
    BY <1>2, <2>2 DEF RingIs, Closed
  <2>4. /\ Once(Turn(ring)) /\ Len(Turn(ring)) = Len(ring)
        /\ Closed(Turn(ring), used_list', next, prev)
        /\ \A j \in Items : In(j, Turn(ring)) <=> In(j, ring)
    BY <1>2, <2>2, <2>3, ClosedTurn DEF RingIs
  <2>5. RingIs(Turn(ring), used_list', next', prev')
    BY <1>1, <2>4 DEF RingIs
  <2>6. Placed(free, Turn(ring), chain, fd')
    BY <1>1, <2>4 DEF PollIs, Placed
  <2>7. FreeIs(free, free_list', hash_next') /\ ChainsAre(chain, hash_table', hash_next')
    BY <1>1 DEF PollIs
  <2>8. counts' = Len(Turn(ring))
    BY <1>1, <2>4 DEF PollIs
  <2>9. Types'
    <3>1. used_list \in Items
      BY <1>2, <2>3, RingEnds DEF RingIs
    <3>. QED
      BY <1>1, <2>2, <3>1 DEF Types, Pointers
  <2>. QED
    BY <2>5, <2>6, <2>7, <2>8, <2>9 DEF PollInv, PollIs
<1>. QED
  BY <1>3, <1>4

(* Every other step leaves the lists and the descriptors of items alone.   *)
LEMMA PollStep ==
  PollInv /\ [Next]_vars => PollInv'
<1> SUFFICES ASSUME PollInv, [Next]_vars
             PROVE  PollInv'
  OBVIOUS
<1>1. PICK free, ring, chain : PollIs(free, ring, chain)
  BY DEF PollInv
<1>2. Types
  BY DEF PollInv
<1>3. ASSUME UNCHANGED <<links, used_list, fd, counts>>
      PROVE  PollInv'
  BY <1>1, <1>2, <1>3 DEF PollInv, PollIs, Types, links
<1>4. ASSUME NEW f \in Fds, NEW e \in EventsOf(f), Add(f, e)
      PROVE  PollInv'
  BY <1>1, <1>2, <1>4, AddKeeps
<1>5. ASSUME NEW f \in Fds, NEW e \in EventsOf(f), Mod(f, e)
      PROVE  PollInv'
  BY <1>3, <1>5 DEF Mod
<1>6. ASSUME NEW f \in Fds, Del(f)
      PROVE  PollInv'
  BY <1>1, <1>2, <1>6, DelKeeps
<1>7. ASSUME NEW f \in Fds, CtlFails(f)
      PROVE  PollInv'
  BY <1>3, <1>7 DEF CtlFails, items
<1>8. CASE Gather
  BY <1>1, <1>2, <1>8, GatherKeeps
<1>9. ASSUME NEW n \in BufferSizes, WaitCall(n)
      PROVE  PollInv'
  BY <1>3, <1>9 DEF WaitCall, items
<1>10. ASSUME NEW ready \in SUBSET wait.fs, SelectReady(ready)
       PROVE  PollInv'
  BY <1>3, <1>10 DEF SelectReady, items
<1>11. CASE SelectNothing
  BY <1>3, <1>11 DEF SelectNothing, items
<1>12. CASE WaitReturn
  BY <1>3, <1>12 DEF WaitReturn, items
<1>13. CASE UNCHANGED vars
  BY <1>3, <1>13 DEF vars, items
<1>14. CASE Next
  BY <1>4, <1>5, <1>6, <1>7, <1>8, <1>9, <1>10, <1>11, <1>12, <1>14 DEF Next, Ctl, Wait
<1>. QED
  BY <1>13, <1>14

(* The links of a poll are lists at any time: the invariant holds whatever *)
(* calls are made in whatever order, with or without locks.                *)
THEOREM PollInOrder ==
  Spec => []PollInv
<1>. QED
  BY PollInit, PollStep, PTL DEF Spec

LEMMA InIsToSet ==
  ASSUME NEW s, Once(s)
  PROVE  ToSet(s) \subseteq Items /\ \A i : i \in ToSet(s) <=> In(i, s)
BY DEF ToSet, Once, In

(* netx_wait, netx_ctl and the search of a bucket walk along lists that    *)
(* end, and the ring closes both ways (netx.c:239-243, 377-406, 440-478).  *)
THEOREM ListsWellFormedHolds ==
  Spec => []ListsWellFormed
<1>1. PollInv => ListsWellFormed
  <2> SUFFICES ASSUME PollInv
               PROVE  ListsWellFormed
    OBVIOUS
  <2>1. PICK free, ring, chain : PollIs(free, ring, chain)
    BY DEF PollInv
  <2>2. free \in ItemSeqs /\ IsChain(free, free_list)
    BY <2>1, OnceInItemSeqs, ChainIsLinked DEF PollIs, FreeIs
  <2>3. ASSUME NEW h \in Buckets
        PROVE  chain[h] \in ItemSeqs /\ IsChain(chain[h], hash_table[h])
    BY <2>1, OnceInItemSeqs, ChainIsLinked DEF PollIs, ChainsAre
  <2>4. ring \in ItemSeqs /\ IsRing(ring)
    BY <2>1, OnceInItemSeqs, RingIsClosed DEF PollIs, RingIs
  <2>. QED
    BY <2>2, <2>3, <2>4 DEF ListsWellFormed
<1>. QED
  BY <1>1, PollInOrder, PTL

(* No item is lost, or on the free list and in use at once, whatever is    *)
(* added and deleted, and counts tells how many are used (netx.c:271-323). *)
THEOREM EachItemOnceHolds ==
  Spec => []EachItemOnce
<1>1. PollInv => EachItemOnce
  <2> SUFFICES ASSUME PollInv, NEW s \in ItemSeqs, IsChain(s, free_list)
               PROVE  /\ ToSet(s) \cap ToSet(Ring) = {}
                      /\ ToSet(s) \cup ToSet(Ring) = Items
                      /\ counts = Len(Ring)
    BY DEF EachItemOnce
  <2>1. PICK free, ring, chain : PollIs(free, ring, chain)
    BY DEF PollInv
  <2>2. s = free
    BY <2>1, ItemSeqsAreOnce, ChainIsLinked, LinkedOne DEF PollIs, FreeIs
  <2>3. Ring = ring /\ counts = Len(Ring)
    BY <2>1, NowIs DEF PollIs
  <2>4. /\ ToSet(s) \subseteq Items /\ ToSet(Ring) \subseteq Items
        /\ \A i : i \in ToSet(s) <=> In(i, free)
        /\ \A i : i \in ToSet(Ring) <=> In(i, ring)
    BY <2>1, <2>2, <2>3, InIsToSet DEF PollIs, FreeIs, RingIs
  <2>. QED
    BY <2>1, <2>3, <2>4 DEF PollIs, Placed
<1>. QED
  BY <1>1, PollInOrder, PTL

(* A search of the bucket of a descriptor finds its item if it has one,    *)
(* and it has one at most: netx_ctl's answers about what is added are      *)
(* right (netx.c:239-243, 279, 306).                                       *)
THEOREM ChainsIndexRingHolds ==
  Spec => []ChainsIndexRing
<1>1. PollInv => ChainsIndexRing
  <2> SUFFICES ASSUME PollInv
               PROVE  ChainsIndexRing
    OBVIOUS
  <2>1. PICK free, ring, chain : PollIs(free, ring, chain)
    BY DEF PollInv
  <2>2. /\ Ring = ring /\ ToSet(Ring) \subseteq Items
        /\ \A i : i \in ToSet(Ring) <=> In(i, ring)
    BY <2>1, NowIs, InIsToSet DEF PollIs, RingIs
  <2>3. ASSUME NEW h \in Buckets
        PROVE  ToSet(Chain(h)) = {i \in ToSet(Ring) : Bucket(fd[i]) = h}
    <3>1. Chain(h) = chain[h] /\ Once(chain[h])
      BY <2>1, NowIs DEF PollIs, ChainsAre
    <3>2. /\ ToSet(Chain(h)) \subseteq Items
          /\ \A i : i \in ToSet(Chain(h)) <=> In(i, chain[h])
      BY <3>1, InIsToSet
    <3>3. \A i \in Items : In(i, chain[h]) <=> In(i, ring) /\ Bucket(fd[i]) = h
      BY <2>1 DEF PollIs, Placed
    <3>. QED
      BY <2>2, <3>2, <3>3
  <2>4. \A i, j \in ToSet(Ring) : fd[i] = fd[j] => i = j
    BY <2>1, <2>2 DEF PollIs, Placed
  <2>. QED
    BY <2>3, <2>4 DEF ChainsIndexRing
<1>. QED
  BY <1>1, PollInOrder, PTL

(***************************************************************************)
(* The fields that the lists do not need: type correctness.                *)
(***************************************************************************)

Entries == (UNION {EventsOf(f) : f \in Fds}) \cup {NoEvent}

Fields ==
    /\ event \in [Items -> Entries]
    /\ ret \in -5 .. 0
    /\ wait = [at |-> wait.at, max |-> wait.max, fs |-> wait.fs,
               ready |-> wait.ready, events |-> wait.events]
    /\ wait.at \in {"idle", "select", "gather", "return"}
    /\ wait.max \in BufferSizes \cup {0}

LEMMA EntriesAre ==
  NoEvent \in Entries /\ \A f \in Fds : EventsOf(f) \subseteq Entries
BY DEF Entries

LEMMA FieldsInit ==
  Init => Fields
<1> SUFFICES ASSUME Init
             PROVE  Fields
  OBVIOUS
<1>1. event \in [Items -> Entries] /\ ret \in -5 .. 0
  BY EntriesAre DEF Init
<1>2. wait = [at |-> "idle", max |-> 0, fs |-> {}, ready |-> {}, events |-> <<>>]
  BY DEF Init
<1>. QED
  BY <1>1, <1>2 DEF Fields

(* What a step makes of wait, field by field. *)
W(a, m, fs, r, e) == [at |-> a, max |-> m, fs |-> fs, ready |-> r, events |-> e]

LEMMA WaitChanges ==
  ASSUME Fields
  PROVE  /\ \A n, fs : [wait EXCEPT !.at = "select", !.max = n, !.fs = fs]
                     = W("select", n, fs, wait.ready, wait.events)
         /\ \A r : [wait EXCEPT !.at = "gather", !.fs = {}, !.ready = r]
                     = W("gather", wait.max, {}, r, wait.events)
<1>1. wait = W(wait.at, wait.max, wait.fs, wait.ready, wait.events)
  BY DEF Fields, W
<1>2. PICK a, m, f, r, e :
        a = wait.at /\ m = wait.max /\ f = wait.fs /\ r = wait.ready /\ e = wait.events
  OBVIOUS
<1>3. wait = W(a, m, f, r, e)
  BY <1>1, <1>2, Zenon
<1>4. ASSUME NEW n, NEW fs
      PROVE  [wait EXCEPT !.at = "select", !.max = n, !.fs = fs]
                = W("select", n, fs, wait.ready, wait.events)
  <2>1. /\ [W(a, m, f, r, e) EXCEPT !.at = "select"] = W("select", m, f, r, e)
        /\ [W("select", m, f, r, e) EXCEPT !.max = n] = W("select", n, f, r, e)
        /\ [W("select", n, f, r, e) EXCEPT !.fs = fs] = W("select", n, fs, r, e)
    BY DEF W
  <2>2. [wait EXCEPT !.at = "select", !.max = n, !.fs = fs]
          = [[[wait EXCEPT !.at = "select"] EXCEPT !.max = n] EXCEPT !.fs = fs]
    BY Zenon
  <2>3. [wait EXCEPT !.at = "select", !.max = n, !.fs = fs] = W("select", n, fs, r, e)
    BY <1>3, <2>1, <2>2, Zenon
  <2>. QED
    BY <1>2, <2>3, Zenon
<1>5. ASSUME NEW s
      PROVE  [wait EXCEPT !.at = "gather", !.fs = {}, !.ready = s]
                = W("gather", wait.max, {}, s, wait.events)
  <2>1. /\ [W(a, m, f, r, e) EXCEPT !.at = "gather"] = W("gather", m, f, r, e)
        /\ [W("gather", m, f, r, e) EXCEPT !.fs = {}] = W("gather", m, {}, r, e)
        /\ [W("gather", m, {}, r, e) EXCEPT !.ready = s] = W("gather", m, {}, s, e)
    BY DEF W
  <2>2. [wait EXCEPT !.at = "gather", !.fs = {}, !.ready = s]
          = [[[wait EXCEPT !.at = "gather"] EXCEPT !.fs = {}] EXCEPT !.ready = s]
    BY Zenon
  <2>3. [wait EXCEPT !.at = "gather", !.fs = {}, !.ready = s] = W("gather", m, {}, s, e)
    BY <1>3, <2>1, <2>2, Zenon
  <2>. QED
    BY <1>2, <2>3, Zenon
<1>. QED
  BY <1>4, <1>5

LEMMA FieldsStep ==
  Fields /\ [Next]_vars => Fields'
<1> SUFFICES ASSUME Fields, [Next]_vars
             PROVE  Fields'
  OBVIOUS
<1>1. ASSUME NEW f \in Fds, NEW e \in EventsOf(f), Add(f, e)
      PROVE  Fields'
  <2>1. e \in Entries
    BY EntriesAre
  <2>2. event' \in [Items -> Entries]
    BY <1>1, <2>1 DEF Fields, Add
  <2>. QED
    BY <1>1, <2>2 DEF Fields, Add
<1>2. ASSUME NEW f \in Fds, NEW e \in EventsOf(f), Mod(f, e)
      PROVE  Fields'
  <2>1. e \in Entries
    BY EntriesAre
  <2>2. event' \in [Items -> Entries]
    BY <1>2, <2>1 DEF Fields, Mod
  <2>. QED
    BY <1>2, <2>2 DEF Fields, Mod
<1>3. ASSUME NEW f \in Fds, Del(f)
      PROVE  Fields'
  <2>1. event' \in [Items -> Entries]
    BY <1>3, EntriesAre DEF Fields, Del
  <2>. QED
    BY <1>3, <2>1 DEF Fields, Del
<1>4. ASSUME NEW f \in Fds, CtlFails(f)
      PROVE  Fields'
  BY <1>4 DEF Fields, CtlFails, items
<1>5. ASSUME NEW events, Returns(events), UNCHANGED <<event, ret>>
      PROVE  Fields'
  BY <1>5 DEF Fields, Returns
<1>6. CASE Gather
  BY <1>5, <1>6 DEF Gather
<1>7. ASSUME NEW n \in BufferSizes, WaitCall(n)
      PROVE  Fields'
  <2> DEFINE fs == UNION {event[i].events \X {fd[i]} : i \in ToSet(Ring)}
  <2>1. UNCHANGED <<event, ret>>
    BY <1>7 DEF WaitCall, items
  <2>2. CASE counts # 0 /\ Watching(fs)
    <3>1. wait' = [wait EXCEPT !.at = "select", !.max = n, !.fs = fs]
      BY <1>7, <2>2 DEF WaitCall
    <3> HIDE DEF fs
    <3>2. wait' = [at |-> "select", max |-> n, fs |-> fs, ready |-> wait.ready,
                   events |-> wait.events]
      BY <3>1, WaitChanges DEF W
    <3>. QED
      BY <2>1, <3>2 DEF Fields
  <2>3. CASE ~ (counts # 0 /\ Watching(fs))
    BY <1>5, <1>7, <2>1, <2>3 DEF WaitCall
  <2>. QED
    BY <2>2, <2>3
<1>8. ASSUME NEW ready \in SUBSET wait.fs, SelectReady(ready)
      PROVE  Fields'
  <2>1. wait' = [at |-> "gather", max |-> wait.max, fs |-> {}, ready |-> ready,
                 events |-> wait.events]
    BY <1>8, WaitChanges DEF SelectReady, W
  <2>2. UNCHANGED <<event, ret>>
    BY <1>8 DEF SelectReady, items
  <2>. QED
    BY <2>1, <2>2 DEF Fields
<1>9. CASE SelectNothing
  BY <1>5, <1>9 DEF SelectNothing, items
<1>10. CASE WaitReturn
  BY <1>10 DEF Fields, WaitReturn, items
<1>11. CASE UNCHANGED vars
  BY <1>11 DEF Fields, vars, items
<1>12. CASE Next
  BY <1>1, <1>2, <1>3, <1>4, <1>6, <1>7, <1>8, <1>9, <1>10, <1>12 DEF Next, Ctl, Wait
<1>. QED
  BY <1>11, <1>12

(* Every field keeps its type, and no more items are used than there are.  *)
THEOREM TypeCorrect ==
  Spec => []TypeOK
<1>1. PollInv /\ Fields => TypeOK
  <2> SUFFICES ASSUME PollInv, Fields
               PROVE  TypeOK
    OBVIOUS
  <2>1. PICK free, ring, chain : PollIs(free, ring, chain)
    BY DEF PollInv
  <2>2. counts \in 0 .. max_counts
    BY <2>1, OnceInItemSeqs DEF PollIs, RingIs
  <2>. QED
    BY <2>2 DEF PollInv, Types, Pointers, Fields, Entries, TypeOK
<1>2. Spec => []Fields
  BY FieldsInit, FieldsStep, PTL DEF Spec
<1>. QED
  BY <1>1, <1>2, PollInOrder, PTL

(***************************************************************************)
(* The lists as a table of descriptors, where 0 is not among them.         *)
(***************************************************************************)

Holders == {i \in Items : fd[i] # 0}

(* An item in use holds the event of its descriptor. *)
Data == \A i \in Holders : event[i] \in EventsOf(fd[i])

(* What the lists say about the fields of the items. *)
Lookup ==
    /\ \A i \in Holders : fd[i] \in Fds
    /\ \A i, j \in Holders : fd[i] = fd[j] => i = j
    /\ \A f \in Fds : Found(f) = {} <=> \A i \in Holders : fd[i] # f
    /\ \A f \in Fds : \A k \in Found(f) :
         Chain(Bucket(f))[k] \in Holders /\ fd[Chain(Bucket(f))[k]] = f
    /\ ToSet(Ring) = Holders
    /\ counts = 0 <=> Holders = {}
    /\ free_list # 0 => free_list \in Items \ Holders
    /\ free_list = 0 => Holders = Items

LEMMA PollLookup ==
  ASSUME 0 \notin Fds, PollInv
  PROVE  Lookup
<1>1. PICK free, ring, chain : PollIs(free, ring, chain)
  BY DEF PollInv
<1>2. Types
  BY DEF PollInv
<1>3. \A i \in Items : In(i, ring) <=> i \in Holders
  BY <1>1 DEF PollIs, Placed, Holders
<1>4. /\ \A i \in Holders : i \in Items /\ fd[i] \in Fds
      /\ \A i, j \in Holders : fd[i] = fd[j] => i = j
  BY <1>1, <1>3 DEF PollIs, Placed, Holders
<1>5. ASSUME NEW f \in Fds
      PROVE  /\ Found(f) = {} <=> \A i \in Holders : fd[i] # f
             /\ \A k \in Found(f) :
                  Chain(Bucket(f))[k] \in Holders /\ fd[Chain(Bucket(f))[k]] = f
  <2>1. /\ Bucket(f) \in Buckets /\ Chain(Bucket(f)) = chain[Bucket(f)]
        /\ Found(f) = {k \in 1 .. Len(chain[Bucket(f)]) : fd[chain[Bucket(f)][k]] = f}
        /\ Found(f) = {} => \A i \in Items : In(i, ring) => fd[i] # f
    BY <1>1, <1>2, FoundIs
  <2>2. Once(chain[Bucket(f)])
    BY <1>1, <2>1 DEF PollIs, ChainsAre
  <2>3. ASSUME NEW k \in Found(f)
        PROVE  Chain(Bucket(f))[k] \in Holders /\ fd[Chain(Bucket(f))[k]] = f
    <3>1. k \in 1 .. Len(chain[Bucket(f)]) /\ fd[chain[Bucket(f)][k]] = f
      BY <2>1
    <3>2. chain[Bucket(f)][k] \in Items
      BY <2>2, <3>1 DEF Once
    <3>. QED
      BY <2>1, <3>1, <3>2 DEF Holders
  <2>4. Found(f) = {} => \A i \in Holders : fd[i] # f
    BY <1>3, <1>4, <2>1
  <2>. QED
    BY <2>3, <2>4
<1>6. Ring = ring /\ Once(ring)
  BY <1>1, NowIs DEF PollIs, RingIs
<1>7. ToSet(Ring) = Holders
  BY <1>3, <1>4, <1>6, InIsToSet
<1>8. counts = 0 <=> Holders = {}
  <2>1. counts = Len(ring) /\ Len(ring) \in Nat
    BY <1>1, <1>6 DEF PollIs, Once
  <2>2. CASE Len(ring) = 0
    <3>1. \A i : ~ In(i, ring)
      BY <2>2 DEF In
    <3>. QED
      BY <1>3, <1>4, <2>1, <2>2, <3>1
  <2>3. CASE Len(ring) # 0
    <3>1. 1 \in 1 .. Len(ring)
      BY <2>1, <2>3
    <3>2. ring[1] \in Items /\ In(ring[1], ring)
      BY <1>6, <3>1 DEF Once, In
    <3>. QED
      BY <1>3, <2>1, <2>3, <3>2
  <2>. QED
    BY <2>2, <2>3
<1>9. Once(free) /\ Linked(free, free_list, hash_next)
      /\ \A i \in Items : In(i, free) <=> i \notin Holders
  BY <1>1, <1>3 DEF PollIs, FreeIs, Placed
<1>10. free_list # 0 => free_list \in Items \ Holders
  <2>1. free_list # 0 => free # <<>>
    BY <1>9 DEF Linked
  <2>2. free # <<>> => free_list \in Items /\ In(free_list, free)
    BY <1>9, LinkedTail
  <2>. QED
    BY <1>9, <2>1, <2>2
<1>11. free_list = 0 => Holders = Items
  <2>1. free # <<>> => free_list \in Items
    BY <1>9, LinkedTail
  <2>2. free_list = 0 => free = <<>>
    BY <2>1, ItemsNotNull
  <2>3. free = <<>> => \A i \in Items : ~ In(i, free)
    BY DEF In
  <2>. QED
    BY <1>4, <1>9, <2>2, <2>3
<1>. QED
  BY <1>4, <1>5, <1>7, <1>8, <1>10, <1>11 DEF Lookup

LEMMA DataInit ==
  Init => Data
BY DEF Init, Data, Holders

LEMMA DataStep ==
  ASSUME 0 \notin Fds, Types, Fields, Lookup, Data, [Next]_vars
  PROVE  Data'
<1> USE DEF Holders, Data
<1>1. fd \in [Items -> Fds \cup {0}] /\ event \in [Items -> Entries]
  BY DEF Types, Fields
<1>2. ASSUME NEW f \in Fds, NEW e \in EventsOf(f), Add(f, e)
      PROVE  Data'
  <2>1. free_list \in Items
    BY <1>2 DEF Add, Lookup, Null
  <2>2. fd' = [fd EXCEPT ![free_list] = f] /\ event' = [event EXCEPT ![free_list] = e]
    BY <1>2 DEF Add
  <2>. QED
    BY <1>1, <2>1, <2>2
<1>3. ASSUME NEW f \in Fds, NEW e \in EventsOf(f), Mod(f, e)
      PROVE  Data'
  <2>1. PICK k \in Found(f) : event' = [event EXCEPT ![Chain(Bucket(f))[k]] = e]
    BY <1>3 DEF Mod
  <2>2. Chain(Bucket(f))[k] \in Items /\ fd[Chain(Bucket(f))[k]] = f
    BY <2>1 DEF Lookup
  <2>3. fd' = fd
    BY <1>3 DEF Mod
  <2> DEFINE i == Chain(Bucket(f))[k]
  <2>4. event' = [event EXCEPT ![i] = e] /\ i \in Items /\ fd[i] = f
    BY <2>1, <2>2
  <2> HIDE DEF i
  <2>. QED
    BY <1>1, <2>3, <2>4
<1>4. ASSUME NEW f \in Fds, Del(f)
      PROVE  Data'
  <2>1. PICK k \in Found(f) : /\ event' = [event EXCEPT ![Chain(Bucket(f))[k]] = NoEvent]
                              /\ fd' = [fd EXCEPT ![Chain(Bucket(f))[k]] = 0]
    BY <1>4 DEF Del
  <2>2. Chain(Bucket(f))[k] \in Items
    BY <2>1 DEF Lookup
  <2> DEFINE i == Chain(Bucket(f))[k]
  <2>3. event' = [event EXCEPT ![i] = NoEvent] /\ fd' = [fd EXCEPT ![i] = 0] /\ i \in Items
    BY <2>1, <2>2
  <2> HIDE DEF i
  <2>. QED
    BY <1>1, <2>3
<1>5. ASSUME UNCHANGED <<fd, event>>
      PROVE  Data'
  BY <1>5
<1>6. ASSUME NEW f \in Fds, CtlFails(f)
      PROVE  Data'
  BY <1>5, <1>6 DEF CtlFails, items
<1>7. ASSUME NEW n \in BufferSizes, WaitCall(n)
      PROVE  Data'
  BY <1>5, <1>7 DEF WaitCall, items
<1>8. ASSUME NEW ready \in SUBSET wait.fs, SelectReady(ready)
      PROVE  Data'
  BY <1>5, <1>8 DEF SelectReady, items
<1>9. CASE SelectNothing \/ WaitReturn \/ Gather
  BY <1>5, <1>9 DEF SelectNothing, WaitReturn, Gather, items
<1>10. CASE UNCHANGED vars
  BY <1>5, <1>10 DEF vars, items
<1>11. CASE Next
  BY <1>2, <1>3, <1>4, <1>6, <1>7, <1>8, <1>9, <1>11 DEF Next, Ctl, Wait
<1>. QED
  BY <1>10, <1>11

(* The first n of some places, counted: Those takes them in their order.   *)
LEMMA ThoseIs ==
  ASSUME NEW s, Once(s), NEW S
  PROVE  /\ Once(Those(s, S))
         /\ \A i \in Items : In(i, Those(s, S)) <=> In(i, s) /\ i \in S
<1> DEFINE at == {k \in 1 .. Len(s) : s[k] \in S}
           Upto(k) == {m \in at : m <= k}
           Rank(k) == Cardinality(Upto(k))
           n == Cardinality(at)
           Nth(j) == CHOOSE k \in at : Rank(k) = j
<1>1. Len(s) \in Nat /\ s \in Seq(Items) /\ \A j, k \in 1 .. Len(s) : s[j] = s[k] => j = k
  BY DEF Once
<1>2. at \subseteq 1 .. Len(s) /\ at \subseteq Nat /\ IsFiniteSet(at) /\ n \in Nat
  <2>1. at \in SUBSET (1 .. Len(s)) /\ IsFiniteSet(1 .. Len(s))
    BY <1>1, FS_Interval
  <2>2. IsFiniteSet(at)
    BY <2>1, FS_Subset
  <2>. QED
    BY <1>1, <2>1, <2>2, FS_CardinalityType
<1> HIDE DEF at, n
<1>3. ASSUME NEW k \in at
      PROVE  IsFiniteSet(Upto(k)) /\ Rank(k) \in 1 .. n
  <2>1. Upto(k) \in SUBSET at
    OBVIOUS
  <2>2. IsFiniteSet(Upto(k)) /\ Cardinality(Upto(k)) <= n
    BY <1>2, <2>1, FS_Subset DEF n
  <2>3. k \in Upto(k)
    BY <1>2
  <2>4. Cardinality(Upto(k)) \in Nat /\ Cardinality(Upto(k)) # 0
    BY <2>2, <2>3, FS_EmptySet, FS_CardinalityType
  <2>. QED
    BY <1>2, <2>2, <2>4
<1>4. ASSUME NEW j \in at, NEW k \in at, j < k
      PROVE  Rank(j) # Rank(k)
  <2>1. Upto(j) \in SUBSET Upto(k) /\ k \in Upto(k) /\ k \notin Upto(j)
    <3>1. j \in Nat /\ k \in Nat /\ at \subseteq Nat
      BY <1>2
    <3>2. \A m \in at : m <= j => m <= k
      BY <1>4, <3>1
    <3>3. k <= k /\ ~ (k <= j)
      BY <1>4, <3>1
    <3>. QED
      BY <3>2, <3>3
  <2>2. Upto(j) # Upto(k)
    BY <2>1
  <2>. QED
    BY <1>3, <2>1, <2>2, FS_Subset
<1>5. \A j, k \in at : Rank(j) = Rank(k) => j = k
  BY <1>2, <1>4
<1> DEFINE R == [k \in at |-> Rank(k)]
<1>6. R \in Surjection(at, 1 .. n)
  <2>1. R \in [at -> 1 .. n]
    BY <1>3
  <2>2. \A j, k \in at : R[j] = R[k] => j = k
    BY <1>5
  <2>3. IsFiniteSet(1 .. n) /\ Cardinality(1 .. n) = n
    BY <1>2, FS_Interval
  <2> HIDE DEF R
  <2>4. R \in Injection(at, 1 .. n)
    BY <2>1, <2>2, Fun_IsInj
  <2>. QED
    BY <2>3, <2>4, FS_Injection DEF n
<1>7. ASSUME NEW j \in 1 .. n
      PROVE  Nth(j) \in at /\ Rank(Nth(j)) = j
  <2>1. \E k \in at : R[k] = j
    BY <1>6, Zenon DEF Surjection
  <2>2. PICK k \in at : R[k] = j
    BY <2>1
  <2>3. Rank(k) = j
    BY <2>2
  <2>. QED
    BY <2>3
<1>8. ASSUME NEW k \in at
      PROVE  Rank(k) \in 1 .. n /\ Nth(Rank(k)) = k
  BY <1>3, <1>5, <1>7
<1> DEFINE t == [j \in 1 .. n |-> s[Nth(j)]]
<1>9. Those(s, S) = t
  BY DEF Those, at, n
<1> HIDE DEF Rank, Nth
<1>10. t \in Seq(Items) /\ Len(t) = n /\ \A j \in 1 .. n : t[j] = s[Nth(j)]
  <2>1. \A j \in 1 .. n : Nth(j) \in 1 .. Len(s)
    BY <1>2, <1>7
  <2>2. \A j \in 1 .. n : s[Nth(j)] \in Items
    BY <1>1, <2>1
  <2>. QED
    BY <1>2, <2>2
<1> HIDE DEF t
<1>11. Once(t)
  <2>1. ASSUME NEW j \in 1 .. n, NEW k \in 1 .. n, t[j] = t[k]
        PROVE  j = k
    <3>1. s[Nth(j)] = s[Nth(k)]
      BY <1>10, <2>1
    <3>2. Nth(j) \in 1 .. Len(s) /\ Nth(k) \in 1 .. Len(s)
      BY <1>2, <1>7
    <3>3. Nth(j) = Nth(k)
      BY <1>1, <3>1, <3>2
    <3>. QED
      BY <1>7, <3>3
  <2>. QED
    BY <1>10, <2>1 DEF Once
<1>12. ASSUME NEW i \in Items, In(i, t)
       PROVE  In(i, s) /\ i \in S
  <2>1. PICK j \in 1 .. n : t[j] = i
    BY <1>10, <1>12 DEF In
  <2>2. Nth(j) \in at /\ s[Nth(j)] = i
    BY <1>7, <1>10, <2>1
  <2>. QED
    BY <2>2 DEF at, In
<1>13. ASSUME NEW i \in Items, In(i, s), i \in S
       PROVE  In(i, t)
  <2>1. PICK k \in 1 .. Len(s) : s[k] = i
    BY <1>13 DEF In
  <2>2. k \in at
    BY <1>13, <2>1 DEF at
  <2>3. t[Rank(k)] = i /\ Rank(k) \in 1 .. n
    BY <1>8, <1>10, <2>1, <2>2
  <2>. QED
    BY <1>10, <2>3 DEF In
<1>. QED
  BY <1>9, <1>11, <1>12, <1>13
LEMMA RingHeld ==
  ASSUME 0 \notin Fds, PollInv, NEW ring \in ItemSeqs, IsRing(ring)
  PROVE  Once(ring) /\ \A i \in Items : In(i, ring) <=> i \in Holders
<1>1. PICK free, now, chain : PollIs(free, now, chain)
  BY DEF PollInv
<1>2. Once(ring) /\ Closed(ring, used_list, next, prev)
  BY ItemSeqsAreOnce, RingIsClosed
<1>3. ring = now
  BY <1>1, <1>2, ClosedOne DEF PollIs, RingIs
<1>4. \A i \in Items : In(i, ring) <=> i \in Holders
  BY <1>1, <1>3 DEF PollIs, Placed, Holders
<1>. QED
  BY <1>2, <1>4

(* What the table of the lists holds, descriptor by descriptor. *)
Tabled ==
    /\ Table = [f \in Fds |-> Table[f]]
    /\ \A i \in Holders : Table[fd[i]] = event[i]
    /\ \A f \in Fds : (\A i \in Holders : fd[i] # f) => Table[f] = NoEvent

LEMMA TableIs ==
  ASSUME Lookup
  PROVE  Tabled
<1> DEFINE Entry(f) == IF \A i \in Holders : fd[i] # f THEN NoEvent
                       ELSE event[CHOOSE i \in Holders : fd[i] = f]
<1>1. Table = [f \in Fds |-> Entry(f)]
  BY DEF Lookup, Table
<1>2. ASSUME NEW i \in Holders
      PROVE  Entry(fd[i]) = event[i] /\ fd[i] \in Fds
  <2>1. \A j \in Holders : fd[j] = fd[i] => j = i
    BY DEF Lookup
  <2>2. (CHOOSE j \in Holders : fd[j] = fd[i]) = i
    BY <2>1
  <2>. QED
    BY <2>2 DEF Lookup
<1>3. ASSUME NEW f \in Fds, \A i \in Holders : fd[i] # f
      PROVE  Entry(f) = NoEvent
  BY <1>3
<1> HIDE DEF Entry
<1>4. \A f \in Fds : Table[f] = Entry(f)
  BY <1>1
<1>5. Table = [f \in Fds |-> Table[f]]
  BY <1>1
<1>. QED
  BY <1>2, <1>3, <1>4, <1>5 DEF Tabled

(* The table's sets are the images of the lists' sets. *)
LEMMA HeldIs ==
  ASSUME Lookup, Data, Tabled
  PROVE  /\ Abstract!Added = {fd[i] : i \in Holders}
         /\ Abstract!Asked = UNION {event[i].events \X {fd[i]} : i \in Holders}
         /\ \A i \in Holders : fd[i] \in Fds /\ Table[fd[i]] = event[i] /\ event[i] # NoEvent
<1>1. ASSUME NEW i \in Holders
      PROVE  fd[i] \in Fds /\ Table[fd[i]] = event[i] /\ event[i] # NoEvent
  <2>1. fd[i] \in Fds /\ fd[i] \in Nat /\ event[i] \in EventsOf(fd[i])
    BY NetxPollAssumption DEF Lookup, Data
  <2>2. event[i].data = fd[i]
    BY <2>1 DEF EventsOf
  <2>3. NoEvent.data = -1
    BY DEF NoEvent
  <2>4. event[i] # NoEvent
    BY <2>1, <2>2, <2>3
  <2>. QED
    BY <2>1, <2>4 DEF Tabled
<1>2. \A f \in Fds : Table[f] = NoEvent \/ \E i \in Holders : fd[i] = f
  BY DEF Tabled
<1>3. Abstract!Added = {f \in Fds : Table[f] # NoEvent}
  BY DEF Abstract!Added, Abstract!Nothing, NoEvent
<1>4. Abstract!Added = {fd[i] : i \in Holders}
  BY <1>1, <1>2, <1>3
<1>5. Abstract!Asked = UNION {Table[f].events \X {f} : f \in Fds}
  BY DEF Abstract!Asked
<1>6. ASSUME NEW f \in Fds, NEW p \in Table[f].events \X {f}
      PROVE  \E i \in Holders : p \in event[i].events \X {fd[i]}
  <2>1. CASE Table[f] = NoEvent
    <3>1. Table[f].events = {}
      BY <2>1 DEF NoEvent
    <3>. QED
      BY <1>6, <3>1
  <2>2. CASE \E i \in Holders : fd[i] = f
    BY <1>1, <1>6, <2>2
  <2>. QED
    BY <1>2, <2>1, <2>2
<1>7. ASSUME NEW i \in Holders, NEW p \in event[i].events \X {fd[i]}
      PROVE  \E f \in Fds : p \in Table[f].events \X {f}
  BY <1>1, <1>7
<1>8. Abstract!Asked = UNION {event[i].events \X {fd[i]} : i \in Holders}
  BY <1>5, <1>6, <1>7
<1>. QED
  BY <1>1, <1>4, <1>8

LEMMA AbstractCardinality ==
  \A S : Abstract!Cardinality(S) = Cardinality(S)
BY Zenon DEF Abstract!Cardinality, Cardinality

(* The poll is full when its free list is empty. *)
LEMMA FullIs ==
  ASSUME Lookup, Data, Tabled
  PROVE  /\ free_list # 0 => Abstract!Cardinality(Abstract!Added) < max_counts
         /\ free_list = 0 => Abstract!Cardinality(Abstract!Added) = max_counts
<1> DEFINE added == {fd[i] : i \in Holders}
           F == [i \in Holders |-> fd[i]]
<1>1. IsFiniteSet(Holders) /\ Cardinality(Holders) <= max_counts
      /\ (Cardinality(Holders) = max_counts => Holders = Items)
  <2>1. Holders \in SUBSET Items
    BY DEF Holders
  <2>. QED
    BY <2>1, SizeOfItems, FS_Subset
<1>2. ExistsBijection(Holders, added)
  <2>1. /\ F \in [Holders -> added]
        /\ \A t \in added : \E i \in Holders : F[i] = t
        /\ \A i, j \in Holders : F[i] = F[j] => i = j
    BY DEF Lookup
  <2> HIDE DEF F, added
  <2>2. F \in Bijection(Holders, added)
    BY <2>1, Fun_IsBij
  <2>. QED
    BY <2>2, Fun_ExistsBij
<1>3. Cardinality(added) = Cardinality(Holders)
  <2> HIDE DEF added
  <2>. QED
    BY <1>1, <1>2, FS_Bijection
<1>4. Abstract!Cardinality(Abstract!Added) = Cardinality(Holders)
  <2>1. Abstract!Added = added
    BY HeldIs
  <2> HIDE DEF added
  <2>. QED
    BY <1>3, <2>1, AbstractCardinality, Zenon
<1>5. Cardinality(Holders) \in Nat
  BY <1>1, FS_CardinalityType
<1>6. free_list # 0 => Holders # Items
  BY DEF Lookup
<1>7. free_list = 0 => Cardinality(Holders) = max_counts
  BY SizeOfItems DEF Lookup
<1>. QED
  BY <1>1, <1>4, <1>5, <1>6, <1>7, SizeOfItems

(* An entry of the table follows from the items of its descriptor. *)
LEMMA SameEntry ==
  ASSUME 0 \notin Fds, Tabled, Tabled', NEW g \in Fds,
         \A i \in Items : /\ fd'[i] = g <=> fd[i] = g
                          /\ fd[i] = g => event'[i] = event[i]
  PROVE  Table'[g] = Table[g]
<1>1. CASE \E i \in Holders : fd[i] = g
  <2>1. PICK i \in Items : i \in Holders /\ fd[i] = g
    BY <1>1 DEF Holders
  <2>2. i \in Holders' /\ fd'[i] = g /\ event'[i] = event[i]
    BY <2>1 DEF Holders
  <2>3. Table[g] = event[i]
    BY <2>1 DEF Tabled
  <2>4. Table'[g] = event'[i]
    BY <2>2 DEF Tabled
  <2>. QED
    BY <2>2, <2>3, <2>4
<1>2. CASE \A i \in Holders : fd[i] # g
  <2>1. \A i \in Holders' : fd'[i] # g
    BY <1>2 DEF Holders
  <2>2. Table[g] = NoEvent
    BY <1>2 DEF Tabled
  <2>3. Table'[g] = NoEvent
    BY <2>1 DEF Tabled
  <2>. QED
    BY <2>2, <2>3
<1>. QED
  BY <1>1, <1>2

LEMMA TableSame ==
  ASSUME 0 \notin Fds, Tabled, Tabled', UNCHANGED <<fd, event>>
  PROVE  Table' = Table
<1>1. \A g \in Fds : Table'[g] = Table[g]
  BY SameEntry
<1>2. Table = [g \in Fds |-> Table[g]] /\ Table' = [g \in Fds |-> Table'[g]]
  BY DEF Tabled
<1>. QED
  BY <1>1, <1>2

LEMMA TableChanged ==
  ASSUME Tabled, Tabled', NEW f \in Fds, \A g \in Fds : g # f => Table'[g] = Table[g]
  PROVE  \A v : Table'[f] = v => Table' = [Table EXCEPT ![f] = v]
<1>1. Table = [g \in Fds |-> Table[g]] /\ Table' = [g \in Fds |-> Table'[g]]
  BY DEF Tabled
<1>2. PICK t, u : t = Table /\ u = Table'
  OBVIOUS
<1>3. t = [g \in Fds |-> t[g]] /\ u = [g \in Fds |-> u[g]] /\ \A g \in Fds : g # f => u[g] = t[g]
  BY <1>1, <1>2
<1>4. \A v : u[f] = v => u = [t EXCEPT ![f] = v]
  BY <1>3
<1>. QED
  BY <1>2, <1>4

(* A call of netx_ctl that succeeds changes one entry of the table.        *)
LEMMA CtlEntry ==
  ASSUME 0 \notin Fds, Tabled, Tabled',
         NEW f \in Fds, NEW i \in Items, NEW v, NEW w \in {f, 0},
         fd[i] = 0 \/ fd[i] = f, \A j \in Items : fd[j] = f => j = i,
         fd'[i] = w, event'[i] = v,
         \A j \in Items : j # i => fd'[j] = fd[j] /\ event'[j] = event[j],
         w = 0 => v = NoEvent
  PROVE  Table'[f] = v /\ Table' = [Table EXCEPT ![f] = v]
<1>1. Table'[f] = v
  <2>1. CASE w = f
    <3>1. i \in Holders' /\ fd'[i] = f
      BY <2>1 DEF Holders
    <3>. QED
      BY <3>1 DEF Tabled
  <2>2. CASE w = 0
    <3>1. \A j \in Holders' : fd'[j] # f
      BY <2>2 DEF Holders
    <3>. QED
      BY <2>2, <3>1 DEF Tabled
  <2>. QED
    BY <2>1, <2>2
<1>2. ASSUME NEW g \in Fds, g # f
      PROVE  Table'[g] = Table[g]
  <2>1. \A j \in Items : /\ fd'[j] = g <=> fd[j] = g
                         /\ fd[j] = g => event'[j] = event[j]
    BY <1>2
  <2>. QED
    BY <2>1, SameEntry
<1>3. \A g \in Fds : g # f => Table'[g] = Table[g]
  BY <1>2
<1>. QED
  BY <1>1, <1>3, TableChanged

(* netx_ctl. *)
LEMMA CtlImplements ==
  ASSUME 0 \notin Fds, Types, Fields, Lookup, Data, Tabled, Tabled', NEW f \in Fds
  PROVE  /\ \A e \in EventsOf(f) : Add(f, e) => Abstract!Add(f)
         /\ \A e \in EventsOf(f) : Mod(f, e) => Abstract!Mod(f)
         /\ Del(f) => Abstract!Del(f)
         /\ CtlFails(f) => Abstract!Refuse(f)
<1>1. f \in Abstract!Added <=> Found(f) # {}
  BY HeldIs DEF Lookup
<1>2. fd \in [Items -> Fds \cup {0}] /\ event \in [Items -> Entries]
  BY DEF Types, Fields
<1>3. ASSUME NEW e \in EventsOf(f), Add(f, e)
      PROVE  Abstract!Add(f)
  <2>1. Found(f) = {} /\ free_list # 0 /\ ret' = 0 /\ UNCHANGED wait
        /\ fd' = [fd EXCEPT ![free_list] = f] /\ event' = [event EXCEPT ![free_list] = e]
    BY <1>3 DEF Add, Null
  <2>2. free_list \in Items /\ fd[free_list] = 0 /\ \A j \in Items : fd[j] # f
    BY <2>1 DEF Lookup, Holders
  <2>3. /\ fd'[free_list] = f /\ event'[free_list] = e
        /\ \A j \in Items : j # free_list => fd'[j] = fd[j] /\ event'[j] = event[j]
    BY <1>2, <2>1, <2>2
  <2>4. Table'[f] = e /\ Table' = [Table EXCEPT ![f] = e]
    BY <2>2, <2>3, CtlEntry
  <2>5. Abstract!Watches(f)
    BY <2>4 DEF Abstract!Watches, Abstract!EventsOf, EventsOf
  <2>. QED
    BY <1>1, <2>1, <2>5, FullIs DEF Abstract!Add
<1>4. ASSUME NEW k \in Found(f)
      PROVE  LET i == Chain(Bucket(f))[k]
             IN  i \in Items /\ fd[i] = f /\ \A j \in Items : fd[j] = f => j = i
  BY DEF Lookup, Holders
<1>5. ASSUME NEW e \in EventsOf(f), Mod(f, e)
      PROVE  Abstract!Mod(f)
  <2>1. PICK k \in Found(f) : event' = [event EXCEPT ![Chain(Bucket(f))[k]] = e]
    BY <1>5 DEF Mod
  <2>2. PICK i \in Items : /\ fd[i] = f /\ \A j \in Items : fd[j] = f => j = i
                            /\ event' = [event EXCEPT ![i] = e]
    BY <1>4, <2>1
  <2>3. ret' = 0 /\ UNCHANGED wait /\ fd' = fd
    BY <1>5 DEF Mod
  <2>4. /\ fd'[i] = f /\ event'[i] = e
        /\ \A j \in Items : j # i => fd'[j] = fd[j] /\ event'[j] = event[j]
    BY <1>2, <2>2, <2>3
  <2>5. Table'[f] = e /\ Table' = [Table EXCEPT ![f] = e]
    BY <2>2, <2>4, CtlEntry
  <2>6. Abstract!Watches(f)
    BY <2>5 DEF Abstract!Watches, Abstract!EventsOf, EventsOf
  <2>. QED
    BY <1>1, <2>1, <2>3, <2>6 DEF Abstract!Mod
<1>6. ASSUME Del(f)
      PROVE  Abstract!Del(f)
  <2>1. PICK k \in Found(f) : /\ event' = [event EXCEPT ![Chain(Bucket(f))[k]] = NoEvent]
                              /\ fd' = [fd EXCEPT ![Chain(Bucket(f))[k]] = 0]
    BY <1>6 DEF Del
  <2>2. PICK i \in Items : /\ fd[i] = f /\ \A j \in Items : fd[j] = f => j = i
                            /\ event' = [event EXCEPT ![i] = NoEvent]
                            /\ fd' = [fd EXCEPT ![i] = 0]
    BY <1>4, <2>1
  <2>3. ret' = 0 /\ UNCHANGED wait
    BY <1>6 DEF Del
  <2>4. /\ fd'[i] = 0 /\ event'[i] = NoEvent
        /\ \A j \in Items : j # i => fd'[j] = fd[j] /\ event'[j] = event[j]
    BY <1>2, <2>2
  <2>5. Table' = [Table EXCEPT ![f] = NoEvent]
    BY <2>2, <2>4, CtlEntry
  <2>. QED
    BY <1>1, <2>1, <2>3, <2>5 DEF Abstract!Del, Abstract!Nothing, NoEvent
<1>7. ASSUME CtlFails(f)
      PROVE  Abstract!Refuse(f)
  <2>1. UNCHANGED wait /\ UNCHANGED <<fd, event>>
    BY <1>7 DEF CtlFails, items
  <2>2. Table' = Table
    BY <2>1, TableSame
  <2>3. \/ ret' = -1
        \/ Found(f) = {} /\ ret' \in {-2, -3}
        \/ Found(f) # {} /\ ret' = -4
        \/ Found(f) = {} /\ free_list = 0 /\ ret' = -5
    BY <1>7 DEF CtlFails, Null
  <2>. QED
    BY <1>1, <2>1, <2>2, <2>3, FullIs DEF Abstract!Refuse
<1>. QED
  BY <1>3, <1>5, <1>6, <1>7

(* The wait of the table, from that of the lists. *)
A(a, m, f, r, e) == [at |-> a, max |-> m, asked |-> f, ready |-> r, events |-> e]

LEMMA AbstractWaits ==
  ASSUME UNCHANGED <<Table, ret>>
  PROVE  /\ \A n : wait.at = "idle"
                   /\ wait' = W("select", n, Abstract!Asked, wait.ready, wait.events)
                   => Abstract!WaitCall(n)
         /\ \A r : wait.at = "select" /\ r \subseteq wait.fs
                   /\ wait' = W("gather", wait.max, {}, r, wait.events)
                   => Abstract!Select
         /\ (wait.at = "select" \/ (wait.at = "idle" /\ Abstract!Asked = {}))
            /\ Returns(<<>>) => Abstract!Expire
         /\ wait.at = "return" /\ wait' = W("idle", 0, {}, {}, <<>>) => Abstract!WaitReturn
<1> DEFINE now == A(wait.at, wait.max, wait.fs, wait.ready, wait.events)
<1>1. ASSUME NEW a, NEW m, NEW f, NEW r, NEW e, wait' = W(a, m, f, r, e)
      PROVE  A(wait'.at, wait'.max, wait'.fs, wait'.ready, wait'.events) = A(a, m, f, r, e)
  BY <1>1 DEF A, W
<1>2. now.at = wait.at /\ now.asked = wait.fs
  BY DEF A
<1>3. /\ \A n, g : [now EXCEPT !.at = "select", !.max = n, !.asked = g]
                        = A("select", n, g, wait.ready, wait.events)
      /\ \A g : [now EXCEPT !.at = "gather", !.asked = {}, !.ready = g]
                        = A("gather", wait.max, {}, g, wait.events)
  <2>1. PICK a, m, f, r, e :
          a = wait.at /\ m = wait.max /\ f = wait.fs /\ r = wait.ready /\ e = wait.events
    OBVIOUS
  <2>2. now = A(a, m, f, r, e)
    BY <2>1, Zenon
  <2>3. ASSUME NEW n, NEW g
        PROVE  [now EXCEPT !.at = "select", !.max = n, !.asked = g]
                    = A("select", n, g, wait.ready, wait.events)
    <3>1. /\ [A(a, m, f, r, e) EXCEPT !.at = "select"] = A("select", m, f, r, e)
          /\ [A("select", m, f, r, e) EXCEPT !.max = n] = A("select", n, f, r, e)
          /\ [A("select", n, f, r, e) EXCEPT !.asked = g] = A("select", n, g, r, e)
      BY DEF A
    <3>2. [now EXCEPT !.at = "select", !.max = n, !.asked = g]
            = [[[now EXCEPT !.at = "select"] EXCEPT !.max = n] EXCEPT !.asked = g]
      BY Zenon
    <3>. QED
      BY <2>1, <2>2, <3>1, <3>2, Zenon
  <2>4. ASSUME NEW g
        PROVE  [now EXCEPT !.at = "gather", !.asked = {}, !.ready = g]
                    = A("gather", wait.max, {}, g, wait.events)
    <3>1. /\ [A(a, m, f, r, e) EXCEPT !.at = "gather"] = A("gather", m, f, r, e)
          /\ [A("gather", m, f, r, e) EXCEPT !.asked = {}] = A("gather", m, {}, r, e)
          /\ [A("gather", m, {}, r, e) EXCEPT !.ready = g] = A("gather", m, {}, g, e)
      BY DEF A
    <3>2. [now EXCEPT !.at = "gather", !.asked = {}, !.ready = g]
            = [[[now EXCEPT !.at = "gather"] EXCEPT !.asked = {}] EXCEPT !.ready = g]
      BY Zenon
    <3>. QED
      BY <2>1, <2>2, <3>1, <3>2, Zenon
  <2>. QED
    BY <2>3, <2>4
<1>4. ASSUME NEW n, wait.at = "idle",
             wait' = W("select", n, Abstract!Asked, wait.ready, wait.events)
      PROVE  Abstract!WaitCall(n)
  <2>1. A(wait'.at, wait'.max, wait'.fs, wait'.ready, wait'.events)
          = A("select", n, Abstract!Asked, wait.ready, wait.events)
    BY <1>1, <1>4
  <2>2. A(wait'.at, wait'.max, wait'.fs, wait'.ready, wait'.events)
          = [now EXCEPT !.at = "select", !.max = n, !.asked = Abstract!Asked]
    BY <1>3, <2>1, Zenon
  <2>. QED
    BY <1>2, <1>4, <2>2, Zenon DEF Abstract!WaitCall, A
<1>5. ASSUME NEW r, wait.at = "select", r \subseteq wait.fs,
             wait' = W("gather", wait.max, {}, r, wait.events)
      PROVE  Abstract!Select
  <2>1. A(wait'.at, wait'.max, wait'.fs, wait'.ready, wait'.events)
          = A("gather", wait.max, {}, r, wait.events)
    BY <1>1, <1>5
  <2>2. A(wait'.at, wait'.max, wait'.fs, wait'.ready, wait'.events)
          = [now EXCEPT !.at = "gather", !.asked = {}, !.ready = r]
    BY <1>3, <2>1, Zenon
  <2>3. r \in SUBSET now.asked /\ now.at = "select"
    BY <1>2, <1>5
  <2>. QED
    BY <1>5, <2>2, <2>3, Zenon DEF Abstract!Select, A
<1>6. ASSUME wait.at = "select" \/ (wait.at = "idle" /\ Abstract!Asked = {}), Returns(<<>>)
      PROVE  Abstract!Expire
  <2>1. A(wait'.at, wait'.max, wait'.fs, wait'.ready, wait'.events)
          = A("return", 0, {}, {}, <<>>)
    BY <1>6 DEF Returns, A
  <2>2. PICK a, m, f, r, e : a = "idle" /\ m = 0 /\ f = {} /\ r = {} /\ e = <<>>
    OBVIOUS
  <2>3. [A(a, m, f, r, e) EXCEPT !.at = "return"] = A("return", m, f, r, e)
    BY DEF A
  <2>4. [A("idle", 0, {}, {}, <<>>) EXCEPT !.at = "return"] = A("return", 0, {}, {}, <<>>)
    BY <2>2, <2>3, Zenon
  <2>. QED
    BY <1>2, <1>6, <2>1, <2>4, Zenon DEF Abstract!Expire, Abstract!Idle, A
<1>7. ASSUME wait.at = "return", wait' = W("idle", 0, {}, {}, <<>>)
      PROVE  Abstract!WaitReturn
  <2>1. A(wait'.at, wait'.max, wait'.fs, wait'.ready, wait'.events)
          = A("idle", 0, {}, {}, <<>>)
    BY <1>1, <1>7
  <2>. QED
    BY <1>2, <1>7, <2>1, Zenon DEF Abstract!WaitReturn, Abstract!Idle, A
<1>. QED
  BY <1>4, <1>5, <1>6, <1>7

(* netx_wait, up to its last step. *)
LEMMA WaitImplements ==
  ASSUME 0 \notin Fds, Lookup, Data, Tabled, Tabled', Fields
  PROVE  /\ \A n : WaitCall(n) => Abstract!WaitCall(n) \/ Abstract!Expire
         /\ \A ready \in SUBSET wait.fs : SelectReady(ready) => Abstract!Select
         /\ SelectNothing => Abstract!Expire
         /\ WaitReturn => Abstract!WaitReturn
<1>1. ASSUME UNCHANGED items
      PROVE  Table' = Table
  BY <1>1, TableSame DEF items
<1>2. ASSUME NEW n, WaitCall(n)
      PROVE  Abstract!WaitCall(n) \/ Abstract!Expire
  <2> DEFINE fs == UNION {event[i].events \X {fd[i]} : i \in ToSet(Ring)}
  <2>1. wait.at = "idle" /\ UNCHANGED <<Table, ret>>
    BY <1>1, <1>2 DEF WaitCall
  <2>2. fs = Abstract!Asked /\ fs = UNION {event[i].events \X {fd[i]} : i \in Holders}
    BY HeldIs DEF Lookup
  <2>3. CASE counts # 0 /\ Watching(fs)
    <3>1. wait' = [wait EXCEPT !.at = "select", !.max = n, !.fs = fs]
      BY <1>2, <2>3 DEF WaitCall
    <3> HIDE DEF fs
    <3>2. wait' = W("select", n, Abstract!Asked, wait.ready, wait.events)
      BY <2>2, <3>1, WaitChanges
    <3>. QED
      BY <2>1, <3>2, AbstractWaits
  <2>4. CASE ~ (counts # 0 /\ Watching(fs))
    <3>1. Returns(<<>>)
      BY <1>2, <2>4 DEF WaitCall
    <3>2. ASSUME NEW p \in fs
          PROVE  counts # 0 /\ Watching(fs)
      <4>1. PICK i \in Holders : p \in event[i].events \X {fd[i]}
        BY <2>2
      <4>2. p[2] = fd[i] /\ fd[i] \in Nat /\ fd[i] # 0
        BY <4>1, NetxPollAssumption DEF Lookup, Holders
      <4>3. counts # 0
        BY <4>1 DEF Lookup
      <4>. QED
        BY <4>2, <4>3 DEF Watching
    <3>3. Abstract!Asked = {}
      BY <2>2, <2>4, <3>2
    <3>. QED
      BY <2>1, <3>1, <3>3, AbstractWaits
  <2>. QED
    BY <2>3, <2>4
<1>3. ASSUME NEW ready \in SUBSET wait.fs, SelectReady(ready)
      PROVE  Abstract!Select
  <2>1. /\ wait.at = "select" /\ UNCHANGED <<Table, ret>>
        /\ wait' = [wait EXCEPT !.at = "gather", !.fs = {}, !.ready = ready]
    BY <1>1, <1>3 DEF SelectReady
  <2>2. wait' = W("gather", wait.max, {}, ready, wait.events)
    BY <2>1, WaitChanges
  <2>. QED
    BY <1>3, <2>1, <2>2, AbstractWaits
<1>4. ASSUME SelectNothing
      PROVE  Abstract!Expire
  BY <1>1, <1>4, AbstractWaits DEF SelectNothing
<1>5. ASSUME WaitReturn
      PROVE  Abstract!WaitReturn
  BY <1>1, <1>5, AbstractWaits DEF WaitReturn, W
<1>. QED
  BY <1>2, <1>3, <1>4, <1>5

(* What is due by the lists is due by the table. *)
LEMMA DueIs ==
  ASSUME Lookup, Data, Tabled
  PROVE  /\ \A i \in Holders : Abstract!Due(fd[i]) = Due(i)
         /\ Abstract!AllDue = {fd[i] : i \in {j \in Holders : Due(j) # {}}}
<1>1. \A f : Abstract!Due(f) = {k \in Table[f].events : <<k, f>> \in wait.ready}
  BY DEF Abstract!Due
<1>2. \A i \in Holders : Abstract!Due(fd[i]) = Due(i)
  BY <1>1, HeldIs DEF Due
<1>3. ASSUME NEW f \in Fds, Abstract!Due(f) # {}
      PROVE  \E i \in Holders : fd[i] = f
  <2>1. Table[f] # NoEvent
    <3>1. SUFFICES ASSUME Table[f] = NoEvent
                   PROVE  FALSE
      OBVIOUS
    <3>2. Table[f].events = {}
      BY <3>1 DEF NoEvent
    <3>. QED
      BY <1>1, <1>3, <3>2
  <2>. QED
    BY <2>1 DEF Tabled
<1>4. Abstract!AllDue = {f \in Fds : Abstract!Due(f) # {}}
  BY DEF Abstract!AllDue
<1>. QED
  BY <1>2, <1>3, <1>4, HeldIs

(* The report of netx_wait, whatever item it begins with. *)
LEMMA GatherImplements ==
  ASSUME 0 \notin Fds, PollInv, Lookup, Data, Tabled, Tabled', Fields, Gather
  PROVE  Abstract!Report
<1>1. UNCHANGED <<Table, ret>> /\ wait.at = "gather"
  BY TableSame DEF Gather
<1>2. PICK ring \in ItemSeqs :
        /\ IsRing(ring)
        /\ LET due == Those(ring, DueItems)
           IN  IF Len(due) >= wait.max THEN Returns(Reports(due, wait.max))
               ELSE Returns(Reports(due, Len(due)))
  BY DEF Gather
<1>3. PICK due : due = Those(ring, DueItems)
  OBVIOUS
<1>4. Once(due) /\ \A i \in Items : In(i, due) <=> i \in Holders /\ Due(i) # {}
  <2>1. Once(ring) /\ \A i \in Items : In(i, ring) <=> i \in Holders
    BY <1>2, RingHeld
  <2>. QED
    BY <1>3, <2>1, ThoseIs DEF DueItems
<1> DEFINE n == IF Len(due) >= wait.max THEN wait.max ELSE Len(due)
           out == [j \in 1 .. n |-> fd[due[j]]]
<1>5. Len(due) \in Nat /\ n \in Nat /\ n <= Len(due)
  <2>1. wait.max \in Nat
    BY NetxPollAssumption DEF Fields
  <2>. QED
    BY <1>4, <2>1 DEF Once
<1>6. Returns(Reports(due, n))
  BY <1>2, <1>3
<1>7. \A j \in 1 .. Len(due) : due[j] \in Holders /\ Due(due[j]) # {}
  BY <1>4 DEF Once, In
<1>8. Cardinality(Abstract!AllDue) = Len(due)
  <2> DEFINE D == Abstract!AllDue
             F == [j \in 1 .. Len(due) |-> fd[due[j]]]
  <2>1. D = {fd[i] : i \in {j \in Holders : Due(j) # {}}}
    BY DueIs
  <2>2. F \in [1 .. Len(due) -> D]
    BY <1>7, <2>1
  <2>3. ASSUME NEW f \in D
        PROVE  \E j \in 1 .. Len(due) : F[j] = f
    <3>1. PICK i \in Holders : Due(i) # {} /\ fd[i] = f
      BY <2>1
    <3>2. In(i, due)
      BY <1>4, <3>1 DEF Holders
    <3>. QED
      BY <3>1, <3>2 DEF In
  <2>4. ASSUME NEW j \in 1 .. Len(due), NEW k \in 1 .. Len(due), F[j] = F[k]
        PROVE  j = k
    <3>1. fd[due[j]] = fd[due[k]]
      BY <2>4
    <3>2. due[j] = due[k]
      BY <1>7, <3>1 DEF Lookup
    <3>. QED
      BY <1>4, <3>2 DEF Once
  <2> HIDE DEF D, F
  <2>5. F \in Bijection(1 .. Len(due), D)
    BY <2>2, <2>3, <2>4, Fun_IsBij
  <2>6. ExistsBijection(1 .. Len(due), D)
    BY <2>5, Fun_ExistsBij
  <2>7. IsFiniteSet(1 .. Len(due)) /\ Cardinality(1 .. Len(due)) = Len(due)
    <3>1. PICK len \in Nat : len = Len(due)
      BY <1>5
    <3>2. IsFiniteSet(1 .. len) /\ Cardinality(1 .. len) = len
      BY FS_Interval
    <3>. QED
      BY <3>1, <3>2
  <2>8. Cardinality(D) = Len(due)
    BY <2>6, <2>7, FS_Bijection
  <2>. QED
    BY <2>8 DEF D
<1>9. Abstract!Smaller(wait.max, Abstract!Cardinality(Abstract!AllDue)) = n
  <2>1. Abstract!Cardinality(Abstract!AllDue) = Len(due)
    BY <1>8, AbstractCardinality, Zenon
  <2>2. wait.max \in Nat
    BY NetxPollAssumption DEF Fields
  <2>. QED
    BY <1>5, <2>1, <2>2 DEF Abstract!Smaller
<1>10. out \in [1 .. n -> Abstract!AllDue]
  <2>1. \A j \in 1 .. n : j \in 1 .. Len(due)
    BY <1>5
  <2>2. \A j \in 1 .. n : fd[due[j]] \in Abstract!AllDue
    BY <1>7, <2>1, DueIs
  <2>. QED
    BY <2>2
<1>11. \A i, j \in 1 .. n : i # j => out[i] # out[j]
  <2>1. \A j \in 1 .. n : j \in 1 .. Len(due)
    BY <1>5
  <2>2. ASSUME NEW i \in 1 .. n, NEW j \in 1 .. n, out[i] = out[j]
        PROVE  i = j
    <3>1. due[i] = due[j]
      BY <1>7, <2>1, <2>2 DEF Lookup
    <3>. QED
      BY <1>4, <2>1, <3>1 DEF Once
  <2>. QED
    BY <2>2
<1>12. Reports(due, n) = [j \in 1 .. n |-> [events |-> Abstract!Due(out[j]),
                                            data |-> Table[out[j]].data]]
  <2>1. ASSUME NEW j \in 1 .. n
        PROVE  /\ Due(due[j]) = Abstract!Due(out[j])
               /\ event[due[j]].data = Table[out[j]].data
    <3>1. due[j] \in Holders /\ out[j] = fd[due[j]]
      BY <1>5, <1>7
    <3>. QED
      BY <3>1, DueIs, HeldIs
  <2> HIDE DEF out
  <2>. QED
    BY <2>1, Zenon DEF Reports, ReportOf
<1> DEFINE events == [j \in DOMAIN out |-> [events |-> Abstract!Due(out[j]),
                                            data |-> Table[out[j]].data]]
<1>13. Reports(due, n) = events /\ DOMAIN out = 1 .. n
  BY <1>12
<1>14. A(wait'.at, wait'.max, wait'.fs, wait'.ready, wait'.events)
         = [A("idle", 0, {}, {}, <<>>) EXCEPT !.at = "return", !.events = events]
  <2> HIDE DEF events, out, n
  <2>1. PICK a, m, f, r, e, g :
          a = "idle" /\ m = 0 /\ f = {} /\ r = {} /\ e = <<>> /\ g = events
    OBVIOUS
  <2>2. /\ [A(a, m, f, r, e) EXCEPT !.at = "return"] = A("return", m, f, r, e)
        /\ [A("return", m, f, r, e) EXCEPT !.events = g] = A("return", m, f, r, g)
    BY DEF A
  <2>3. [A("idle", 0, {}, {}, <<>>) EXCEPT !.at = "return", !.events = events]
          = [[A("idle", 0, {}, {}, <<>>) EXCEPT !.at = "return"] EXCEPT !.events = events]
    BY Zenon
  <2>4. [A("idle", 0, {}, {}, <<>>) EXCEPT !.at = "return", !.events = events]
          = A("return", 0, {}, {}, events)
    BY <2>1, <2>2, <2>3, Zenon
  <2>5. A(wait'.at, wait'.max, wait'.fs, wait'.ready, wait'.events)
          = A("return", 0, {}, {}, events)
    BY <1>6, <1>13 DEF Returns, A
  <2>. QED
    BY <2>4, <2>5, Zenon
<1>15. /\ \A i, j \in DOMAIN out : i # j => out[i] # out[j]
       /\ out \in [1 .. Abstract!Smaller(wait.max, Abstract!Cardinality(Abstract!AllDue))
                     -> Abstract!AllDue]
  BY <1>9, <1>10, <1>11, <1>13
<1>16. /\ A(wait.at, wait.max, wait.fs, wait.ready, wait.events).at = "gather"
       /\ A(wait.at, wait.max, wait.fs, wait.ready, wait.events).max = wait.max
  BY <1>1 DEF A
<1> HIDE DEF out, n
<1>. QED
  BY <1>1, <1>14, <1>15, <1>16, Zenon DEF Abstract!Report, Abstract!Idle, A

LEMMA StepImplements ==
  ASSUME 0 \notin Fds, PollInv, Lookup, Data, Fields, Tabled, Tabled', [Next]_vars
  PROVE  [Abstract!Next]_(Abstract!vars)
<1>1. Types
  BY DEF PollInv
<1>2. CASE Ctl
  BY <1>1, <1>2, CtlImplements DEF Ctl, Abstract!Next
<1>3. CASE Wait
  BY <1>3, WaitImplements, GatherImplements DEF Wait, Abstract!Next
<1>4. CASE UNCHANGED vars
  <2>1. UNCHANGED <<fd, event, ret, wait>>
    BY <1>4 DEF vars, items
  <2>2. Table' = Table
    BY <2>1, TableSame
  <2>. QED
    BY <2>1, <2>2 DEF Abstract!vars
<1>. QED
  BY <1>2, <1>3, <1>4 DEF Next

LEMMA InitImplements ==
  ASSUME 0 \notin Fds, Init, Lookup, Tabled
  PROVE  Abstract!Init
<1>1. Holders = {}
  BY DEF Init, Holders
<1>2. Table = [f \in Fds |-> NoEvent]
  BY <1>1 DEF Tabled
<1>3. wait = [at |-> "idle", max |-> 0, fs |-> {}, ready |-> {}, events |-> <<>>] /\ ret = 0
  BY DEF Init
<1>. QED
  BY <1>2, <1>3 DEF Abstract!Init, Abstract!Nothing, Abstract!Idle, NoEvent

(* netx_ctl and netx_wait, over their lists, keep what a table of          *)
(* descriptors promises: a call is refused for its reason only, and a wait *)
(* reports what is ready and watched, each descriptor once, as far as      *)
(* there is room, also when the table changes during select.               *)
THEOREM ImplementsEventPollHolds ==
  ASSUME 0 \notin Fds
  PROVE  Spec => ImplementsEventPoll
<1>1. PollInv => Lookup /\ Tabled
  BY PollLookup, TableIs
<1>2. Init => Data /\ (Lookup /\ Tabled => Abstract!Init)
  BY DataInit, InitImplements
<1>3. PollInv /\ Lookup /\ Data /\ Fields /\ [Next]_vars => Data'
  BY DataStep DEF PollInv
<1>4. PollInv /\ Lookup /\ Data /\ Fields /\ Tabled /\ Tabled' /\ [Next]_vars
        => [Abstract!Next]_(Abstract!vars)
  BY StepImplements
<1>. QED
  BY <1>1, <1>2, <1>3, <1>4, PollInOrder, FieldsInit, FieldsStep, PTL
     DEF Spec, ImplementsEventPoll, Abstract!Spec
=============================================================================
