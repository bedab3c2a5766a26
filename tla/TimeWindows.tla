----------------------------- MODULE TimeWindows ------------------------------
(***************************************************************************)
(* Lemmas about sequences of times, in order, of which the oldest are      *)
(* dropped: what is left, and how many may be within a window when those   *)
(* the limit apart are never closer than it. Both limiters of the system   *)
(* rest on them.                                                           *)
(***************************************************************************)
EXTENDS Naturals, Sequences, FiniteSets, FiniteSetTheorems, SequenceTheorems,
        WellFoundedInduction, TLAPS

\* h is what is left of all without its first k.
After(all, k, h) ==
    /\ all \in Seq(Nat) /\ h \in Seq(Nat) /\ k \in 0..Len(all)
    /\ Len(h) = Len(all) - k
    /\ \A i \in 1..Len(h) : h[i] = all[k + i]

LEMMA WhatIsAfter ==
    ASSUME NEW all, NEW k, NEW h, After(all, k, h)
    PROVE  /\ all \in Seq(Nat) /\ h \in Seq(Nat) /\ k \in Nat
           /\ Len(h) \in Nat /\ Len(all) \in Nat
           /\ Len(h) = Len(all) - k /\ k <= Len(all)
           /\ \A i \in 1..Len(h) : h[i] = all[k + i] /\ h[i] \in Nat
<1>1. /\ all \in Seq(Nat) /\ h \in Seq(Nat) /\ k \in 0..Len(all)
      /\ Len(h) = Len(all) - k
      /\ \A i \in 1..Len(h) : h[i] = all[k + i]
  BY DEF After
<1>2. Len(h) \in Nat /\ Len(all) \in Nat
  BY <1>1
<1>3. \A i \in 1..Len(h) : h[i] \in Nat
  BY SMTT(30), <1>1
<1> QED BY <1>1, <1>2, <1>3

\* A set that has all numbers below its members is an interval.
LEMMA LowSets ==
    ASSUME NEW n \in Nat, NEW S, S \subseteq 1..n, \A i \in S : \A j \in 1..i : j \in S
    PROVE  Cardinality(S) \in 0..n /\ S = 1..Cardinality(S)
<1>0. PICK T : T = (1..(n + 1)) \ S
  OBVIOUS
<1>1. T \subseteq Nat /\ T # {}
  <2>1. n + 1 \in 1..(n + 1) /\ n + 1 \notin 1..n
    OBVIOUS
  <2> QED BY <1>0, <2>1
<1>2. PICK m \in T : \A y \in T : ~(<<y, m>> \in OpToRel(<, Nat))
  BY <1>1, NatLessThanWellFounded, WFMin
<1>3. \A y \in T : ~(y < m)
  <2>1. \A y \in T : <<y, m>> \in Nat \X Nat => ~(y < m)
    BY <1>2, Zenon DEF OpToRel
  <2> QED BY <1>1, <2>1
<1>4. \A i \in 1..(n + 1) : i < m => i \in S
  BY <1>0, <1>3
<1>5. m \in 1..(n + 1) /\ m \notin S
  BY <1>0
<1>6. S = 1..(m - 1)
  <2>1. ASSUME NEW i \in S PROVE i \in 1..(m - 1)
    BY <1>5
  <2>2. ASSUME NEW i \in 1..(m - 1) PROVE i \in S
    BY <1>4, <1>5
  <2> QED BY <2>1, <2>2
<1>7. Cardinality(1..(m - 1)) = m - 1
  BY <1>5, FS_Interval
<1> QED BY <1>5, <1>6, <1>7

\* What is left when the old ones at the front are taken off.
LEMMA Popped ==
    ASSUME NEW all, NEW k, NEW h, After(all, k, h), NEW W \in Nat, NEW t \in Nat,
           NEW old, old = {i \in 1..Len(h) : \A j \in 1..i : h[j] + W <= t},
           NEW rest, rest = SubSeq(h, Cardinality(old) + 1, Len(h))
    PROVE  \E q \in k..Len(all) :
              /\ After(all, q, rest)
              /\ \A i \in (k + 1)..q : all[i] + W <= t
              /\ q < Len(all) => ~(all[q + 1] + W <= t)
<1>1. PICK n, m : n = Len(h) /\ m = Len(all)
  OBVIOUS
<1>2. /\ all \in Seq(Nat) /\ h \in Seq(Nat) /\ n \in Nat /\ m \in Nat /\ k \in Nat
      /\ n = m - k /\ k <= m
      /\ \A i \in 1..n : h[i] = all[k + i] /\ h[i] \in Nat
  BY <1>1, WhatIsAfter
<1>3. PICK c : c = Cardinality(old)
  OBVIOUS
<1>4. c \in 0..n /\ old = 1..c
  <2>1. old \subseteq 1..n /\ \A i \in old : \A j \in 1..i : j \in old
    BY <1>1, <1>2
  <2> QED BY <1>2, <1>3, <2>1, LowSets
<1>5. \A i \in 1..c : h[i] + W <= t
  BY <1>1, <1>4
<1>6. c < n => ~(h[c + 1] + W <= t)
  <2> SUFFICES ASSUME c < n, h[c + 1] + W <= t PROVE FALSE
    OBVIOUS
  <2>1. c + 1 \in 1..n /\ c + 1 \notin 1..c
    BY <1>2, <1>4
  <2>2. \A j \in 1..(c + 1) : h[j] + W <= t
    BY <1>4, <1>5
  <2>3. c + 1 \in old
    BY <1>1, <2>1, <2>2
  <2> QED BY <1>4, <2>1, <2>3
<1>7. PICK q : q = k + c
  OBVIOUS
<1>8. q \in k..m /\ q \in Nat /\ c \in Nat
  BY <1>2, <1>4, <1>7
<1>9. After(all, q, rest)
  <2>1. PICK d : d = c + 1
    OBVIOUS
  <2>2. d \in Int /\ n \in Int /\ rest = SubSeq(h, d, n)
    <3>1. c + 1 \in Int /\ n \in Int
      BY <1>2, <1>8
    <3>2. rest = SubSeq(h, c + 1, n)
      BY <1>1, <1>3
    <3> QED BY <2>1, <3>1, <3>2
  <2>3. \A i \in d..n : h[i] \in Nat
    BY <1>2, <1>8, <2>1
  <2>4. /\ rest \in Seq(Nat)
        /\ Len(rest) = IF d <= n THEN n - d + 1 ELSE 0
        /\ \A i \in 1..(n - d + 1) : rest[i] = h[d + i - 1]
    <3>1. d \in Int /\ n \in Int
      BY <2>2
    <3>2. /\ SubSeq(h, d, n) \in Seq(Nat)
          /\ Len(SubSeq(h, d, n)) = IF d <= n THEN n - d + 1 ELSE 0
          /\ \A i \in 1..(n - d + 1) : SubSeq(h, d, n)[i] = h[d + i - 1]
      BY <2>3, <3>1, SubSeqProperties
    <3> QED BY <2>2, <3>2
  <2>5. Len(rest) = n - c /\ n - c = m - q /\ n - d + 1 = n - c
    BY <1>2, <1>4, <1>7, <2>1, <2>4
  <2>6. ASSUME NEW i \in 1..Len(rest) PROVE rest[i] = all[q + i]
    <3>1. i \in 1..(n - d + 1)
      BY <2>5
    <3>2. rest[i] = h[d + i - 1]
      BY <2>4, <3>1
    <3>3. i \in Nat /\ i >= 1 /\ i <= n - c
      <4>1. i \in 1..(n - c)
        BY <2>5
      <4> QED BY <1>2, <1>8, <4>1
    <3>4. d + i - 1 = c + i /\ c + i \in 1..n /\ k + (c + i) = q + i
      BY <1>2, <1>8, <1>7, <2>1, <3>3
    <3> QED BY <1>2, <3>2, <3>4
  <2>7. q \in 0..m
    BY <1>2, <1>8
  <2> QED BY <1>1, <1>2, <2>4, <2>5, <2>6, <2>7 DEF After
<1>10. ASSUME NEW i \in (k + 1)..q PROVE all[i] + W <= t
  <2>1. PICK j : j = i - k
    OBVIOUS
  <2>2. j \in 1..c /\ j \in 1..n /\ k + j = i
    BY <1>2, <1>4, <1>7, <2>1
  <2> QED BY <1>2, <1>5, <2>2
<1>11. ASSUME q < m PROVE ~(all[q + 1] + W <= t)
  <2>1. c < n /\ c + 1 \in 1..n /\ k + (c + 1) = q + 1
    BY <1>2, <1>4, <1>7, <1>11
  <2> QED BY SMTT(30), <1>2, <1>6, <2>1
<1> QED BY <1>1, <1>8, <1>9, <1>10, <1>11

LEMMA BothGrow ==
    ASSUME NEW all, NEW k, NEW h, After(all, k, h), NEW t \in Nat
    PROVE  After(Append(all, t), k, Append(h, t))
<1>1. PICK n, m : n = Len(h) /\ m = Len(all)
  OBVIOUS
<1>2. /\ all \in Seq(Nat) /\ h \in Seq(Nat) /\ n \in Nat /\ m \in Nat /\ k \in Nat
      /\ n = m - k /\ k <= m
  BY <1>1, WhatIsAfter
<1>9. \A i \in 1..n : h[i] = all[k + i]
  <2>1. \A i \in 1..Len(h) : h[i] = all[k + i]
    BY DEF After
  <2> QED BY <1>1, <2>1
<1>3. PICK a, g : a = Append(all, t) /\ g = Append(h, t)
  OBVIOUS
<1>4. /\ a \in Seq(Nat) /\ Len(a) = m + 1 /\ a[m + 1] = t /\ \A i \in 1..m : a[i] = all[i]
  <2>1. all \in Seq(Nat) /\ Len(all) = m
    BY <1>1, <1>2
  <2> QED BY <1>3, <2>1, AppendProperties
<1>8. /\ g \in Seq(Nat) /\ Len(g) = n + 1 /\ g[n + 1] = t /\ \A i \in 1..n : g[i] = h[i]
  <2>1. h \in Seq(Nat) /\ Len(h) = n
    BY <1>1, <1>2
  <2> QED BY <1>3, <2>1, AppendProperties
<1>5. ASSUME NEW i \in 1..(n + 1) PROVE g[i] = a[k + i]
  <2>1. CASE i = n + 1
    <3>1. k + i = m + 1
      BY <1>2, <2>1
    <3> QED BY <1>4, <1>8, <2>1, <3>1
  <2>2. CASE i # n + 1
    <3>1. i \in 1..n /\ k + i \in 1..m
      BY <1>2, <2>2
    <3> QED BY <1>2, <1>4, <1>8, <1>9, <3>1
  <2> QED BY <2>1, <2>2
<1>6. Len(g) = Len(a) - k /\ k \in 0..Len(a)
  BY <1>2, <1>4, <1>8
<1>7. After(a, k, g)
  BY <1>4, <1>8, <1>5, <1>6 DEF After
<1> QED BY <1>3, <1>7

\* Times in order, the limit of them never closer than the window: few in any window.
LEMMA FewInAWindow ==
    ASSUME NEW all \in Seq(Nat), NEW M \in Nat \ {0}, NEW W \in Nat,
           \A i, j \in 1..Len(all) : i <= j => all[i] <= all[j],
           \A i, j \in 1..Len(all) : j = i + M => all[i] + W <= all[j],
           NEW i \in 1..Len(all)
    PROVE  Cardinality({j \in i..Len(all) : all[j] < all[i] + W}) <= M
<1>1. PICK n : n = Len(all)
  OBVIOUS
<1>2. n \in Nat /\ M \in Nat /\ M >= 1 /\ i \in 1..n
  BY <1>1
<1>3. \A j \in 1..n : all[j] \in Nat
  BY <1>1
<1>4. PICK S, m : S = {j \in i..n : all[j] < all[i] + W} /\ m = i + M - 1
  OBVIOUS
<1>5. ASSUME NEW j \in S PROVE j \in i..m
  <2>1. j \in 1..n /\ i <= j /\ all[j] < all[i] + W /\ j \in Nat
    BY <1>2, <1>4
  <2>2. SUFFICES ASSUME m < j PROVE FALSE
    BY <1>2, <1>4, <2>1
  <2>3. PICK p : p = i + M
    OBVIOUS
  <2>4. p \in 1..n /\ p <= j
    BY <1>2, <1>4, <2>1, <2>2, <2>3
  <2>5. all[i] + W <= all[p] /\ all[p] <= all[j]
    BY <1>1, <1>2, <2>1, <2>3, <2>4
  <2>6. all[i] \in Nat /\ all[p] \in Nat /\ all[j] \in Nat
    BY <1>2, <1>3, <2>1, <2>4
  <2> QED BY <2>1, <2>5, <2>6
<1>6. IsFiniteSet(i..m) /\ Cardinality(i..m) = M
  <2>1. i \in Int /\ m \in Int /\ ~(i > m) /\ m - i + 1 = M
    BY <1>2, <1>4
  <2> QED BY <2>1, FS_Interval
<1>7. S \subseteq i..m
  BY <1>5
<1>8. Cardinality(S) <= Cardinality(i..m)
  BY <1>6, <1>7, FS_Subset
<1> QED BY <1>1, <1>4, <1>6, <1>8
=============================================================================
