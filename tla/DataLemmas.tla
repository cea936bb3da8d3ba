----------------------------- MODULE DataLemmas -----------------------------
(***************************************************************************)
(* Induction over data for the proof modules.  The library's induction     *)
(* theorems take a predicate as a parameter, which the provers do not      *)
(* instantiate; here the predicate is a set of numbers, so a proof by      *)
(* induction defines the set of numbers its claim holds of and shows that  *)
(* it is Nat.  From it follow that a function defined by recursion on      *)
(* 0..N exists, and what the models' sums, powers, least and greatest      *)
(* elements are.  The other lemmas are about sequences: caches, prefixes   *)
(* and appended elements.                                                  *)
(***************************************************************************)
EXTENDS Integers, Sequences, FiniteSets, SequencesExt, SequenceTheorems, FiniteSetTheorems,
        WellFoundedInduction, TLAPS

(* A set of numbers that is not empty has a least element. *)
LEMMA LeastNumber ==
    ASSUME NEW T \in SUBSET Nat, T # {}
    PROVE  \E x \in T : \A y \in T : x <= y
<1>1. PICK x \in T : \A y \in T : ~ (<<y, x>> \in OpToRel(<, Nat))
  BY NatLessThanWellFounded, WFMin
<1>2. ASSUME NEW y \in T PROVE x <= y
  <2>1. x \in Nat /\ y \in Nat
    OBVIOUS
  <2>2. ~(y < x)
    <3>1. y < x => <<y, x>> \in OpToRel(<, Nat)
      BY <2>1 DEF OpToRel
    <3> QED BY <1>1, <3>1
  <2> QED BY <2>1, <2>2
<1> QED BY <1>2

(* A set of numbers with 0, and with n + 1 for each n in it, is Nat: its   *)
(* complement would have a least element.                                  *)
LEMMA NatSetInduction ==
    ASSUME NEW S \in SUBSET Nat, 0 \in S, \A n \in S : n + 1 \in S
    PROVE  S = Nat
<1> DEFINE T == Nat \ S
<1>1. ASSUME T # {} PROVE FALSE
  <2>1. PICK x \in T : \A y \in T : x <= y
    <3>1. T \in SUBSET Nat
      OBVIOUS
    <3>. HIDE DEF T
    <3> QED BY <1>1, <3>1, LeastNumber
  <2>2. x \in Nat /\ x # 0 /\ x - 1 \in Nat /\ (x - 1) + 1 = x
    OBVIOUS
  <2>3. x - 1 \in T
    <3>1. ASSUME x - 1 \in S PROVE FALSE
      <4>1. (x - 1) + 1 \in S
        BY <3>1
      <4> QED BY <4>1, <2>2
    <3> QED BY <3>1, <2>2
  <2> QED BY <2>1, <2>2, <2>3
<1> QED BY <1>1

(* f is computed from base by step, from 0 up to N. *)
IsRecursion(f, N, base, step) ==
    f = [i \in 0..N |-> IF i = 0 THEN base ELSE step[<<i, f[i - 1]>>]]

(* Recursion on 0..N defines a function: a recursive function of a model   *)
(* has the value its equation gives, and CHOOSE does not pick another one. *)
LEMMA RecursionExists ==
    ASSUME NEW V, NEW base \in V, NEW N \in Nat, NEW step \in [(1..N) \X V -> V]
    PROVE  \E f \in [0..N -> V] : IsRecursion(f, N, base, step)
<1> DEFINE S == {n \in Nat : n <= N => \E f \in [0..n -> V] : IsRecursion(f, n, base, step)}
<1>1. 0 \in S
  <2>1. [i \in 0..0 |-> base] \in [0..0 -> V]
    OBVIOUS
  <2>2. IsRecursion([i \in 0..0 |-> base], 0, base, step)
    BY DEF IsRecursion
  <2> QED BY <2>1, <2>2
<1>2. ASSUME NEW n \in S PROVE n + 1 \in S
  <2> SUFFICES ASSUME n + 1 <= N
               PROVE  \E f \in [0..(n + 1) -> V] : IsRecursion(f, n + 1, base, step)
    OBVIOUS
  <2>1. PICK f \in [0..n -> V] : IsRecursion(f, n, base, step)
    OBVIOUS
  <2> DEFINE g == [i \in 0..(n + 1) |-> IF i <= n THEN f[i] ELSE step[<<n + 1, f[n]>>]]
  <2>2. f[n] \in V /\ n + 1 \in 1..N
    BY <2>1
  <2>3. step[<<n + 1, f[n]>>] \in V
    BY <2>2
  <2>4. g \in [0..(n + 1) -> V]
    BY <2>1, <2>3
  <2>5. ASSUME NEW i \in 0..(n + 1)
        PROVE  g[i] = IF i = 0 THEN base ELSE step[<<i, g[i - 1]>>]
    <3>1. CASE i <= n
      <4>1. f[i] = IF i = 0 THEN base ELSE step[<<i, f[i - 1]>>]
        BY <2>1, <3>1 DEF IsRecursion
      <4>2. g[i] = f[i] /\ (i # 0 => g[i - 1] = f[i - 1])
        BY <3>1
      <4> QED BY <4>1, <4>2
    <3>2. CASE i = n + 1
      <4>1. g[i] = step[<<i, f[n]>>] /\ i # 0 /\ g[i - 1] = f[n]
        BY <3>2
      <4> QED BY <4>1
    <3> QED BY <3>1, <3>2
  <2>6. IsRecursion(g, n + 1, base, step)
    <3>1. g = [i \in 0..(n + 1) |-> g[i]]
      OBVIOUS
    <3> HIDE DEF g
    <3> QED BY <2>5, <3>1 DEF IsRecursion
  <2> QED BY <2>4, <2>6
<1>3. S = Nat
  <2>1. S \in SUBSET Nat
    OBVIOUS
  <2> HIDE DEF S
  <2> QED BY <1>1, <1>2, <2>1, NatSetInduction
<1> QED BY <1>3

-----------------------------------------------------------------------------
(* Caches: sequences without repetitions, the oldest entry first *)

(* RemoveFirst takes one place out of the sequence. *)
LEMMA RemoveFirstAt ==
    ASSUME NEW V, NEW s \in Seq(V), NEW x, \E i \in 1..Len(s) : s[i] = x, NEW r, r = RemoveFirst(s, x)
    PROVE  \E k \in 1..Len(s) :
               /\ s[k] = x /\ r \in Seq(V) /\ Len(r) = Len(s) - 1
               /\ \A i \in 1..Len(r) : r[i] = IF i < k THEN s[i] ELSE s[i + 1]
<1>0. Len(s) \in Nat
  OBVIOUS
<1>1. PICK k \in 1..Len(s) : s[k] = x /\ r = RemoveAt(s, k)
  <2> DEFINE I == {i \in 1..Len(s) : s[i] = x}
  <2>1. I \in SUBSET Nat /\ I # {}
    BY <1>0
  <2>2. r = RemoveAt(s, Min(I))
    BY <2>1 DEF RemoveFirst, SelectInSeq
  <2>3. Min(I) \in I
    <3> HIDE DEF I
    <3>1. \E i \in I : \A j \in I : i <= j
      BY <2>1, LeastNumber
    <3> QED BY <3>1 DEF Min
  <2> QED BY <2>2, <2>3
<1>2. /\ r \in Seq(V) /\ Len(r) = Len(s) - 1
      /\ \A i \in 1..Len(r) : r[i] = IF i < k THEN s[i] ELSE s[i + 1]
  <2> DEFINE a == SubSeq(s, 1, k - 1)
             b == SubSeq(s, k + 1, Len(s))
  <2>1. /\ a \in Seq(V) /\ Len(a) = k - 1 /\ \A i \in 1..(k - 1) : a[i] = s[i]
        /\ b \in Seq(V) /\ Len(b) = Len(s) - k /\ \A i \in 1..(Len(s) - k) : b[i] = s[k + i]
    <3>1. k - 1 \in Int /\ k + 1 \in Int /\ (\A i \in 1..(k - 1) : s[i] \in V) /\ (\A i \in (k + 1)..Len(s) : s[i] \in V)
      BY <1>0
    <3>2. /\ a \in Seq(V) /\ Len(a) = (IF 1 <= k - 1 THEN (k - 1) - 1 + 1 ELSE 0)
          /\ \A i \in 1..((k - 1) - 1 + 1) : a[i] = s[1 + i - 1]
      BY <3>1, SubSeqProperties
    <3>3. /\ b \in Seq(V) /\ Len(b) = (IF k + 1 <= Len(s) THEN Len(s) - (k + 1) + 1 ELSE 0)
          /\ \A i \in 1..(Len(s) - (k + 1) + 1) : b[i] = s[(k + 1) + i - 1]
      BY <1>0, <3>1, SubSeqProperties
    <3> HIDE DEF a, b
    <3>4. Len(a) = k - 1 /\ Len(b) = Len(s) - k
      <4>1. k \in Nat /\ 1 <= k /\ k <= Len(s)
        BY <1>0
      <4>2. Len(a) = k - 1
        BY <1>0, <3>2, <4>1
      <4>3. Len(b) = Len(s) - k
        BY <1>0, <3>3, <4>1
      <4> QED BY <4>2, <4>3
    <3>5. ASSUME NEW i \in 1..(k - 1) PROVE a[i] = s[i]
      <4>1. i \in 1..((k - 1) - 1 + 1) /\ 1 + i - 1 = i
        BY <1>0
      <4> QED BY <3>2, <4>1
    <3>6. ASSUME NEW i \in 1..(Len(s) - k) PROVE b[i] = s[k + i]
      <4>1. i \in 1..(Len(s) - (k + 1) + 1) /\ (k + 1) + i - 1 = k + i
        BY <1>0
      <4> QED BY <3>3, <4>1
    <3> QED BY <3>2, <3>3, <3>4, <3>5, <3>6
  <2>2. r = a \o b
    BY <1>1 DEF RemoveAt
  <2> HIDE DEF a, b
  <2>3. r \in Seq(V) /\ Len(r) = Len(s) - 1
    <3>1. a \o b \in Seq(V) /\ Len(a \o b) = Len(a) + Len(b)
      BY <2>1, ConcatProperties
    <3> QED BY <1>0, <2>1, <2>2, <3>1
  <2>4. ASSUME NEW i \in 1..Len(r) PROVE r[i] = IF i < k THEN s[i] ELSE s[i + 1]
    <3>1. CASE i < k
      BY <1>0, <2>1, <2>2, <2>3, <3>1
    <3>2. CASE i >= k
      <4>1. i - (k - 1) \in 1..(Len(s) - k) /\ k + (i - (k - 1)) = i + 1
        BY <1>0, <2>3, <3>2
      <4>2. r[i] = b[i - (k - 1)]
        BY <1>0, <2>1, <2>2, <2>3, <3>2
      <4> QED BY <2>1, <3>2, <4>1, <4>2
    <3> QED BY <1>0, <3>1, <3>2
  <2> QED BY <2>3, <2>4
<1> QED BY <1>1, <1>2

(* The values that RemoveFirst leaves. *)
LEMMA RemoveFirstValues ==
    ASSUME NEW V, NEW s \in Seq(V), NEW x
    PROVE  /\ RemoveFirst(s, x) \in Seq(V) /\ Len(RemoveFirst(s, x)) <= Len(s)
           /\ (\E i \in 1..Len(s) : s[i] = x) => Len(RemoveFirst(s, x)) = Len(s) - 1
           /\ \A i \in 1..Len(RemoveFirst(s, x)) : \E j \in 1..Len(s) : s[j] = RemoveFirst(s, x)[i]
           /\ \A j \in 1..Len(s) : s[j] # x => \E i \in 1..Len(RemoveFirst(s, x)) : RemoveFirst(s, x)[i] = s[j]
<1> DEFINE r == RemoveFirst(s, x)
<1>0. Len(s) \in Nat
  OBVIOUS
<1>1. CASE ~\E i \in 1..Len(s) : s[i] = x
  <2>1. r = s
    BY <1>1 DEF RemoveFirst
  <2> HIDE DEF r
  <2>2. /\ r \in Seq(V) /\ Len(r) <= Len(s)
        /\ \A i \in 1..Len(r) : \E j \in 1..Len(s) : s[j] = r[i]
        /\ \A j \in 1..Len(s) : s[j] # x => \E i \in 1..Len(r) : r[i] = s[j]
    BY <1>0, <2>1
  <2> QED BY <1>1, <2>2 DEF r
<1>2. CASE \E i \in 1..Len(s) : s[i] = x
  <2>1. PICK k \in 1..Len(s) :
            /\ s[k] = x /\ r \in Seq(V) /\ Len(r) = Len(s) - 1
            /\ \A i \in 1..Len(r) : r[i] = IF i < k THEN s[i] ELSE s[i + 1]
    BY <1>2, RemoveFirstAt
  <2> HIDE DEF r
  <2>2. \A i \in 1..Len(r) : \E j \in 1..Len(s) : s[j] = r[i]
    BY <1>0, <2>1
  <2>3. ASSUME NEW j \in 1..Len(s), s[j] # x
        PROVE  \E i \in 1..Len(r) : r[i] = s[j]
    <3>1. j # k
      BY <2>1, <2>3
    <3>2. CASE j < k
      BY <1>0, <2>1, <3>2
    <3>3. CASE j > k
      <4>1. j - 1 \in 1..Len(r) /\ ~(j - 1 < k) /\ (j - 1) + 1 = j
        BY <1>0, <2>1, <3>3
      <4> QED BY <2>1, <4>1
    <3> QED BY <1>0, <3>1, <3>2, <3>3
  <2>4. Len(r) <= Len(s)
    BY <1>0, <2>1
  <2> QED BY <1>2, <2>1, <2>2, <2>3, <2>4 DEF r
<1> QED BY <1>1, <1>2

(* Removing a value from a sequence without repetitions leaves the other   *)
(* values once each.                                                       *)
LEMMA RemoveFirstOfInjective ==
    ASSUME NEW V, NEW s \in Seq(V), IsInjective(s), NEW x, NEW r, r = RemoveFirst(s, x)
    PROVE  /\ r \in Seq(V) /\ IsInjective(r)
           /\ Len(r) = IF \E i \in 1..Len(s) : s[i] = x THEN Len(s) - 1 ELSE Len(s)
           /\ \A i \in 1..Len(r) : r[i] # x
<1>0. Len(s) \in Nat
  OBVIOUS
<1>d. DOMAIN s = 1..Len(s)
  OBVIOUS
<1>1. CASE ~\E i \in 1..Len(s) : s[i] = x
  <2>1. r = s
    BY <1>1 DEF RemoveFirst
  <2> QED BY <1>1, <2>1
<1>2. CASE \E i \in 1..Len(s) : s[i] = x
  <2>1. PICK k \in 1..Len(s) :
            /\ s[k] = x /\ r \in Seq(V) /\ Len(r) = Len(s) - 1
            /\ \A i \in 1..Len(r) : r[i] = IF i < k THEN s[i] ELSE s[i + 1]
    BY <1>2, RemoveFirstAt
  <2>2. IsInjective(r)
    <3>1. DOMAIN r = 1..Len(r)
      BY <2>1
    <3>2. ASSUME NEW a \in 1..Len(r), NEW b \in 1..Len(r), r[a] = r[b]
          PROVE  a = b
      <4> DEFINE p(i) == IF i < k THEN i ELSE i + 1
      <4>1. a \in Nat /\ b \in Nat /\ k \in Nat
        BY <1>0, <2>1
      <4>2. p(a) \in 1..Len(s) /\ p(b) \in 1..Len(s)
        BY ONLY <1>0, <2>1, a \in 1..Len(r), b \in 1..Len(r)
      <4>3. s[p(a)] = r[a] /\ s[p(b)] = r[b]
        BY ONLY <2>1, a \in 1..Len(r), b \in 1..Len(r)
      <4>4. p(a) = p(b) => a = b
        BY ONLY <4>1
      <4> HIDE DEF p
      <4>5. p(a) = p(b)
        BY <1>d, <3>2, <4>2, <4>3 DEF IsInjective
      <4> QED BY <4>4, <4>5
    <3> QED BY <3>1, <3>2 DEF IsInjective
  <2>3. ASSUME NEW i \in 1..Len(r)
        PROVE  r[i] # x
    <3> DEFINE j == IF i < k THEN i ELSE i + 1
    <3>1. j \in 1..Len(s) /\ j # k
      BY ONLY <1>0, <2>1, k \in 1..Len(s), i \in 1..Len(r)
    <3>2. s[j] = r[i]
      BY ONLY <2>1, i \in 1..Len(r)
    <3> HIDE DEF j
    <3> QED BY <1>d, <2>1, <3>1, <3>2 DEF IsInjective
  <2> QED BY <1>2, <2>1, <2>2, <2>3
<1> QED BY <1>1, <1>2

(* A value that was not in the sequence is its newest entry once. *)
LEMMA AppendToInjective ==
    ASSUME NEW V, NEW s \in Seq(V), IsInjective(s), NEW x \in V,
           \A i \in 1..Len(s) : s[i] # x
    PROVE  IsInjective(Append(s, x)) /\ Append(s, x) \in Seq(V) /\ Len(Append(s, x)) = Len(s) + 1
<1> DEFINE t == Append(s, x)
<1>1. /\ t \in Seq(V) /\ Len(t) = Len(s) + 1 /\ DOMAIN t = 1..(Len(s) + 1) /\ DOMAIN s = 1..Len(s)
      /\ t[Len(s) + 1] = x /\ \A i \in 1..Len(s) : t[i] = s[i]
  OBVIOUS
<1>2. Len(s) \in Nat
  OBVIOUS
<1> HIDE DEF t
<1>3. IsInjective(t)
  BY <1>1, <1>2 DEF IsInjective
<1> QED BY <1>1, <1>3 DEF t

(* Forgetting the oldest entry. *)
LEMMA TailOfInjective ==
    ASSUME NEW V, NEW s \in Seq(V), IsInjective(s), s # <<>>
    PROVE  /\ Tail(s) \in Seq(V) /\ IsInjective(Tail(s)) /\ Len(Tail(s)) = Len(s) - 1
           /\ \A i \in 1..Len(Tail(s)) : Tail(s)[i] = s[i + 1]
<1> DEFINE t == Tail(s)
<1>1. /\ t \in Seq(V) /\ Len(t) = Len(s) - 1 /\ DOMAIN t = 1..Len(t) /\ DOMAIN s = 1..Len(s)
      /\ \A i \in 1..Len(t) : t[i] = s[i + 1]
  OBVIOUS
<1>2. Len(s) \in Nat
  OBVIOUS
<1> HIDE DEF t
<1>3. IsInjective(t)
  BY <1>1, <1>2 DEF IsInjective
<1> QED BY <1>1, <1>3 DEF t

-----------------------------------------------------------------------------
(* Parts of a sequence *)

LEMMA SubSeqIs ==
    ASSUME NEW V, NEW s \in Seq(V), NEW a \in Nat, NEW b \in Nat, a >= 1, b <= Len(s), a <= b + 1
    PROVE  /\ SubSeq(s, a, b) \in Seq(V) /\ Len(SubSeq(s, a, b)) = b + 1 - a
           /\ \A i \in 1..(b + 1 - a) : SubSeq(s, a, b)[i] = s[a + i - 1]
<1> DEFINE r == SubSeq(s, a, b)
<1>0. Len(s) \in Nat
  OBVIOUS
<1>1. a \in Int /\ b \in Int /\ \A i \in a..b : s[i] \in V
  BY <1>0
<1>2. /\ r \in Seq(V) /\ Len(r) = (IF a <= b THEN b - a + 1 ELSE 0)
      /\ \A i \in 1..(b - a + 1) : r[i] = s[a + i - 1]
  BY <1>1, SubSeqProperties
<1>3. b - a + 1 = b + 1 - a /\ (a > b => b + 1 - a = 0)
  OBVIOUS
<1> HIDE DEF r
<1>4. r \in Seq(V) /\ Len(r) = b + 1 - a /\ \A i \in 1..(b + 1 - a) : r[i] = s[a + i - 1]
  BY <1>2, <1>3
<1> QED BY <1>4 DEF r

LEMMA SubSeqHead ==
    ASSUME NEW V, NEW s \in Seq(V), NEW k \in Nat, NEW m \in Nat, k < m, m <= Len(s)
    PROVE  SubSeq(s, k + 1, m) = <<s[k + 1]>> \o SubSeq(s, k + 2, m)
<1> DEFINE a == SubSeq(s, k + 1, m)
           b == SubSeq(s, k + 2, m)
           h == <<s[k + 1]>>
           c == h \o b
<1>0. Len(s) \in Nat /\ s[k + 1] \in V
  OBVIOUS
<1>1. a \in Seq(V) /\ Len(a) = m + 1 - (k + 1) /\ \A i \in 1..(m + 1 - (k + 1)) : a[i] = s[(k + 1) + i - 1]
  BY SubSeqIs
<1>2. b \in Seq(V) /\ Len(b) = m + 1 - (k + 2) /\ \A i \in 1..(m + 1 - (k + 2)) : b[i] = s[(k + 2) + i - 1]
  BY SubSeqIs
<1>3. h \in Seq(V) /\ Len(h) = 1 /\ h[1] = s[k + 1]
  BY <1>0
<1> HIDE DEF a, b, h
<1>4. /\ c \in Seq(V) /\ Len(c) = Len(h) + Len(b)
      /\ \A i \in 1..(Len(h) + Len(b)) : c[i] = IF i <= Len(h) THEN h[i] ELSE b[i - Len(h)]
  <2>1. h \in Seq(V) /\ b \in Seq(V)
    BY <1>2, <1>3
  <2> QED BY <2>1, ConcatProperties
<1> HIDE DEF c
<1>5. Len(c) = Len(a)
  BY <1>1, <1>2, <1>3, <1>4
<1>6. \A i \in 1..Len(a) : a[i] = c[i]
  <2> SUFFICES ASSUME NEW i \in 1..Len(a) PROVE a[i] = c[i]
    OBVIOUS
  <2>1. i \in 1..(m - k) /\ a[i] = s[k + i]
    BY <1>1
  <2>2. c[i] = IF i <= 1 THEN s[k + 1] ELSE b[i - 1]
    BY <1>2, <1>3, <1>4, <2>1
  <2>3. CASE i = 1
    BY <2>1, <2>2, <2>3
  <2>4. CASE i > 1
    <3>1. i - 1 \in 1..(m + 1 - (k + 2)) /\ (k + 2) + (i - 1) - 1 = k + i
      BY <2>1, <2>4
    <3> QED BY <1>2, <2>1, <2>2, <2>4, <3>1
  <2> QED BY <2>1, <2>3, <2>4
<1>7. a = c
  BY <1>1, <1>4, <1>5, <1>6, SeqEqual
<1> QED BY <1>7 DEF a, b, c, h

LEMMA SubSeqNext ==
    ASSUME NEW V, NEW s \in Seq(V), NEW k \in Nat, k < Len(s)
    PROVE  SubSeq(s, 1, k + 1) = Append(SubSeq(s, 1, k), s[k + 1])
<1> DEFINE a == SubSeq(s, 1, k + 1)
           b == SubSeq(s, 1, k)
           c == Append(b, s[k + 1])
<1>0. Len(s) \in Nat /\ s[k + 1] \in V
  OBVIOUS
<1>1. a \in Seq(V) /\ Len(a) = (k + 1) + 1 - 1 /\ \A i \in 1..((k + 1) + 1 - 1) : a[i] = s[1 + i - 1]
  BY SubSeqIs
<1>2. b \in Seq(V) /\ Len(b) = k + 1 - 1 /\ \A i \in 1..(k + 1 - 1) : b[i] = s[1 + i - 1]
  BY SubSeqIs
<1> HIDE DEF a, b
<1>3. c \in Seq(V) /\ Len(c) = k + 1 /\ c[k + 1] = s[k + 1] /\ \A i \in 1..k : c[i] = b[i]
  BY <1>0, <1>2
<1> HIDE DEF c
<1>4. \A i \in 1..(k + 1) : a[i] = c[i]
  BY <1>1, <1>2, <1>3
<1>5. a = c
  BY <1>1, <1>3, <1>4, SeqEqual
<1> QED BY <1>5 DEF a, b, c

LEMMA SubSeqEmptyWhole ==
    ASSUME NEW V, NEW s \in Seq(V), NEW k \in Nat, k <= Len(s)
    PROVE  SubSeq(s, k + 1, k) = <<>> /\ SubSeq(s, 1, Len(s)) = s
<1> DEFINE a == SubSeq(s, k + 1, k)
           b == SubSeq(s, 1, Len(s))
<1>0. Len(s) \in Nat
  OBVIOUS
<1>1. a \in Seq(V) /\ Len(a) = k + 1 - (k + 1)
  BY SubSeqIs
<1>2. b \in Seq(V) /\ Len(b) = Len(s) + 1 - 1 /\ \A i \in 1..(Len(s) + 1 - 1) : b[i] = s[1 + i - 1]
  BY <1>0, SubSeqIs
<1> HIDE DEF a, b
<1>3. a = <<>>
  BY <1>1
<1>4. \A i \in 1..Len(s) : b[i] = s[i]
  BY <1>0, <1>2
<1>5. b = s
  BY <1>0, <1>2, <1>4, SeqEqual
<1> QED BY <1>3, <1>5 DEF a, b

-----------------------------------------------------------------------------
(* Two recursions that the models write: a running sum and a power.        *)

IsSum(f, N, P) == f = [i \in 0..N |-> IF i = 0 THEN 0 ELSE f[i - 1] + P[i]]

IsPower(f, N, b) == f = [i \in 0..N |-> IF i = 0 THEN 1 ELSE b * f[i - 1]]

LEMMA SumExists ==
    ASSUME NEW N \in Nat, NEW P \in [1..N -> Nat]
    PROVE  \E f : IsSum(f, N, P)
<1> DEFINE step == [x \in (1..N) \X Nat |-> x[2] + P[x[1]]]
<1>1. step \in [(1..N) \X Nat -> Nat]
  OBVIOUS
<1>2. \A i \in 1..N : \A v \in Nat : step[<<i, v>>] = v + P[i]
  OBVIOUS
<1> HIDE DEF step
<1>3. PICK f \in [0..N -> Nat] : IsRecursion(f, N, 0, step)
  BY <1>1, RecursionExists
<1>4. \A i \in 0..N : f[i] = IF i = 0 THEN 0 ELSE f[i - 1] + P[i]
  <2> SUFFICES ASSUME NEW i \in 0..N PROVE f[i] = IF i = 0 THEN 0 ELSE f[i - 1] + P[i]
    OBVIOUS
  <2>1. f[i] = IF i = 0 THEN 0 ELSE step[<<i, f[i - 1]>>]
    BY <1>3 DEF IsRecursion
  <2>2. CASE i = 0
    BY <2>1, <2>2
  <2>3. CASE i # 0
    <3>1. i \in 1..N /\ i - 1 \in 0..N
      BY <2>3
    <3>2. step[<<i, f[i - 1]>>] = f[i - 1] + P[i]
      BY <1>2, <3>1
    <3> QED BY <2>1, <2>3, <3>2
  <2> QED BY <2>2, <2>3
<1>5. IsSum(f, N, P)
  BY <1>4 DEF IsSum
<1> QED BY <1>5

(* Two running sums agree as far as their terms do. *)
LEMMA SumsAgree ==
    ASSUME NEW M \in Nat, NEW N \in Nat, M <= N, NEW P \in [1..M -> Nat], NEW Q,
           \A i \in 1..M : Q[i] = P[i],
           NEW f, IsSum(f, M, P), NEW g, IsSum(g, N, Q)
    PROVE  \A i \in 0..M : f[i] = g[i] /\ f[i] \in Nat
<1> DEFINE S == {i \in Nat : i <= M => f[i] = g[i] /\ f[i] \in Nat}
<1>1. \A i \in 0..M : f[i] = IF i = 0 THEN 0 ELSE f[i - 1] + P[i]
  BY DEF IsSum
<1>2. \A i \in 0..N : g[i] = IF i = 0 THEN 0 ELSE g[i - 1] + Q[i]
  BY DEF IsSum
<1>3. 0 \in S
  BY <1>1, <1>2
<1>4. ASSUME NEW i \in S PROVE i + 1 \in S
  <2> SUFFICES ASSUME i + 1 <= M PROVE f[i + 1] = g[i + 1] /\ f[i + 1] \in Nat
    OBVIOUS
  <2>1. i + 1 \in 0..M /\ i + 1 \in 0..N /\ i + 1 \in 1..M /\ i + 1 # 0 /\ (i + 1) - 1 = i
    OBVIOUS
  <2>2. f[i] = g[i] /\ f[i] \in Nat
    OBVIOUS
  <2>3. P[i + 1] \in Nat /\ Q[i + 1] = P[i + 1]
    BY <2>1
  <2>4. f[i + 1] = f[i] + P[i + 1] /\ g[i + 1] = g[i] + Q[i + 1]
    BY <1>1, <1>2, <2>1
  <2> QED BY <2>2, <2>3, <2>4
<1>5. S = Nat
  <2>1. S \in SUBSET Nat
    OBVIOUS
  <2> HIDE DEF S
  <2> QED BY <1>3, <1>4, <2>1, NatSetInduction
<1>6. ASSUME NEW i \in 0..M PROVE f[i] = g[i] /\ f[i] \in Nat
  <2>1. i \in S
    BY <1>5
  <2> QED BY <2>1
<1> QED BY <1>6

LEMMA PowerExists ==
    ASSUME NEW N \in Nat, NEW b \in Nat
    PROVE  \E f : IsPower(f, N, b)
<1> DEFINE step == [x \in (1..N) \X Nat |-> b * x[2]]
<1>1. step \in [(1..N) \X Nat -> Nat]
  OBVIOUS
<1>2. \A i \in 1..N : \A v \in Nat : step[<<i, v>>] = b * v
  OBVIOUS
<1> HIDE DEF step
<1>3. PICK f \in [0..N -> Nat] : IsRecursion(f, N, 1, step)
  BY <1>1, RecursionExists
<1>4. \A i \in 0..N : f[i] = IF i = 0 THEN 1 ELSE b * f[i - 1]
  <2> SUFFICES ASSUME NEW i \in 0..N PROVE f[i] = IF i = 0 THEN 1 ELSE b * f[i - 1]
    OBVIOUS
  <2>1. f[i] = IF i = 0 THEN 1 ELSE step[<<i, f[i - 1]>>]
    BY <1>3 DEF IsRecursion
  <2>2. CASE i = 0
    BY <2>1, <2>2
  <2>3. CASE i # 0
    <3>1. i \in 1..N /\ i - 1 \in 0..N
      BY <2>3
    <3>2. step[<<i, f[i - 1]>>] = b * f[i - 1]
      BY <1>2, <3>1
    <3> QED BY <2>1, <2>3, <3>2
  <2> QED BY <2>2, <2>3
<1>5. IsPower(f, N, b)
  BY <1>4 DEF IsPower
<1> QED BY <1>5

(* Two powers of one base agree where both are defined; a positive base    *)
(* gives positive numbers.                                                 *)
LEMMA PowersAgree ==
    ASSUME NEW M \in Nat, NEW N \in Nat, M <= N, NEW b \in Nat, b > 0,
           NEW f, IsPower(f, M, b), NEW g, IsPower(g, N, b)
    PROVE  \A i \in 0..M : f[i] = g[i] /\ f[i] \in Nat /\ f[i] > 0
<1> DEFINE S == {i \in Nat : i <= M => f[i] = g[i] /\ f[i] \in Nat /\ f[i] > 0}
<1>1. \A i \in 0..M : f[i] = IF i = 0 THEN 1 ELSE b * f[i - 1]
  BY DEF IsPower
<1>2. \A i \in 0..N : g[i] = IF i = 0 THEN 1 ELSE b * g[i - 1]
  BY DEF IsPower
<1>3. 0 \in S
  BY <1>1, <1>2
<1>4. ASSUME NEW i \in S PROVE i + 1 \in S
  <2> SUFFICES ASSUME i + 1 <= M PROVE f[i + 1] = g[i + 1] /\ f[i + 1] \in Nat /\ f[i + 1] > 0
    OBVIOUS
  <2>1. i + 1 \in 0..M /\ i + 1 \in 0..N /\ i + 1 # 0 /\ (i + 1) - 1 = i
    OBVIOUS
  <2>2. f[i] = g[i] /\ f[i] \in Nat /\ f[i] > 0
    OBVIOUS
  <2>3. f[i + 1] = b * f[i] /\ g[i + 1] = b * g[i]
    BY <1>1, <1>2, <2>1
  <2>4. \A x, y \in Nat : x > 0 /\ y > 0 => x * y \in Nat /\ x * y > 0
    OBVIOUS
  <2> QED BY <2>2, <2>3, <2>4
<1>5. S = Nat
  <2>1. S \in SUBSET Nat
    OBVIOUS
  <2> HIDE DEF S
  <2> QED BY <1>3, <1>4, <2>1, NatSetInduction
<1>6. ASSUME NEW i \in 0..M PROVE f[i] = g[i] /\ f[i] \in Nat /\ f[i] > 0
  <2>1. i \in S
    BY <1>5
  <2> QED BY <2>1
<1> QED BY <1>6

-----------------------------------------------------------------------------
(* Least and greatest elements *)

LEMMA MaxOfTwo ==
    ASSUME NEW a \in Int, NEW b \in Int
    PROVE  Max({a, b}) = IF a >= b THEN a ELSE b
<1> DEFINE m == IF a >= b THEN a ELSE b
<1>1. m \in {a, b} /\ \A y \in {a, b} : m >= y
  OBVIOUS
<1>2. \A x \in {a, b} : (\A y \in {a, b} : x >= y) => x = m
  OBVIOUS
<1> QED BY <1>1, <1>2 DEF Max

LEMMA MinOfTwo ==
    ASSUME NEW a \in Int, NEW b \in Int
    PROVE  Min({a, b}) = IF a <= b THEN a ELSE b
<1> DEFINE m == IF a <= b THEN a ELSE b
<1>1. m \in {a, b} /\ \A y \in {a, b} : m <= y
  OBVIOUS
<1>2. \A x \in {a, b} : (\A y \in {a, b} : x <= y) => x = m
  OBVIOUS
<1> QED BY <1>1, <1>2 DEF Min

(* Among finitely many there is one with the greatest value. *)
LEMMA GreatestOfFinite ==
    ASSUME NEW T, IsFiniteSet(T), T # {}, NEW f, \A x \in T : f[x] \in Int
    PROVE  \E m \in T : \A y \in T : f[y] <= f[m]
<1> DEFINE Greatest(R) == \E m \in R : \A y \in R : f[y] <= f[m]
           S == {n \in Nat : \A R \in SUBSET T : (Cardinality(R) = n /\ R # {}) => Greatest(R)}
<1>0. \A R \in SUBSET T : IsFiniteSet(R) /\ Cardinality(R) \in Nat
  BY FS_Subset, FS_CardinalityType
<1>1. 0 \in S
  BY <1>0, FS_EmptySet
<1>2. ASSUME NEW n \in S PROVE n + 1 \in S
  <2>0. n \in Nat /\ \A R \in SUBSET T : (Cardinality(R) = n /\ R # {}) => Greatest(R)
    OBVIOUS
  <2> HIDE DEF S
  <2>1. ASSUME NEW R \in SUBSET T, Cardinality(R) = n + 1, R # {} PROVE Greatest(R)
    <3>1. PICK x : x \in R
      BY <2>1
    <3> DEFINE Q == R \ {x}
    <3>2. Q \in SUBSET T /\ Cardinality(Q) = n
      <4>1. IsFiniteSet(R)
        BY <1>0
      <4>2. Cardinality(Q) = Cardinality(R) - 1
        BY <3>1, <4>1, FS_RemoveElement
      <4>3. Cardinality(Q) = n
        BY ONLY <2>0, <2>1, <4>2
      <4> QED BY <4>3
    <3>3. f[x] \in Int /\ (\A y \in R : y = x \/ y \in Q) /\ \A y \in Q : y \in R /\ f[y] \in Int
      BY <3>1
    <3>4. CASE Q = {}
      BY <3>1, <3>3, <3>4
    <3>5. CASE Q # {}
      <4>1. PICK m \in Q : \A y \in Q : f[y] <= f[m]
        BY <2>0, <3>2, <3>5
      <4>2. m \in R /\ f[m] \in Int
        BY <3>3
      <4> HIDE DEF Q
      <4>3. CASE f[x] <= f[m]
        BY <3>3, <4>1, <4>2, <4>3
      <4>4. CASE ~(f[x] <= f[m])
        BY <3>1, <3>3, <4>1, <4>2, <4>4
      <4> QED BY <4>3, <4>4
    <3> QED BY <3>4, <3>5
  <2> HIDE DEF Greatest
  <2>2. n + 1 \in Nat
    BY <2>0
  <2> QED BY <2>1, <2>2 DEF S
<1>3. S = Nat
  <2>1. S \in SUBSET Nat
    OBVIOUS
  <2> HIDE DEF S
  <2> QED BY <1>1, <1>2, <2>1, NatSetInduction
<1>4. Cardinality(T) \in S /\ T \in SUBSET T
  BY <1>0, <1>3
<1> QED BY <1>4

LEMMA MinOfNumbers ==
    ASSUME NEW T \in SUBSET Nat, T # {}
    PROVE  Min(T) \in T /\ \A y \in T : Min(T) <= y
<1>1. \E x \in T : \A y \in T : x <= y
  BY LeastNumber
<1> QED BY <1>1 DEF Min

(* A bounded set: the distance to the bound has a least element. *)
LEMMA MaxOfNumbers ==
    ASSUME NEW T \in SUBSET Nat, T # {}, NEW n \in Nat, \A y \in T : y <= n
    PROVE  Max(T) \in T /\ \A y \in T : y <= Max(T)
<1> DEFINE U == {k \in 0..n : n - k \in T}
<1>1. U \in SUBSET Nat
  OBVIOUS
<1>2. PICK y \in T : TRUE
  OBVIOUS
<1>3. n - y \in U
  <2>1. y \in Nat /\ y <= n /\ n - (n - y) = y /\ n - y \in 0..n
    OBVIOUS
  <2> QED BY <2>1
<1>4. PICK k \in U : \A j \in U : k <= j
  <2> HIDE DEF U
  <2> QED BY <1>1, <1>3, LeastNumber
<1>5. n - k \in T
  BY <1>4
<1>6. ASSUME NEW z \in T PROVE z <= n - k
  <2>1. z \in Nat /\ z <= n /\ n - (n - z) = z /\ n - z \in 0..n
    OBVIOUS
  <2>2. n - z \in U
    BY <2>1
  <2>3. k <= n - z /\ k \in Nat
    BY <1>1, <1>4, <2>2
  <2> QED BY <2>1, <2>3
<1>7. \E x \in T : \A z \in T : x >= z
  <2>1. \A z \in T : n - k >= z
    BY <1>5, <1>6
  <2> QED BY <1>5, <2>1
<1> QED BY <1>7 DEF Max

-----------------------------------------------------------------------------
(* The sum of a function over a finite set: what MapThenSumSet and         *)
(* SumFunction compute, taking the elements out in an unspecified order.   *)

IsTotal(h, f, S) ==
    h = [s \in SUBSET S |-> IF s = {} THEN 0
                            ELSE f[CHOOSE x \in s : TRUE] + h[s \ {CHOOSE x \in s : TRUE}]]

TotalOf(f, S) == CHOOSE h : IsTotal(h, f, S)

LEMMA SumIsTotal ==
    ASSUME NEW f, NEW S
    PROVE  /\ MapThenSumSet(LAMBDA a : f[a], S) = TotalOf(f, S)[S]
           /\ SumFunctionOnSet(f, S) = TotalOf(f, S)[S]
<1>1. MapThenSumSet(LAMBDA a : f[a], S) = TotalOf(f, S)[S]
  BY DEF MapThenSumSet, MapThenFoldSet, TotalOf, IsTotal
<1>2. SumFunctionOnSet(f, S) = TotalOf(f, S)[S]
  BY DEF SumFunctionOnSet, FoldFunctionOnSet, MapThenFoldSet, TotalOf, IsTotal
<1> QED BY <1>1, <1>2

(* The recursion is defined: by the size of the subsets. *)
LEMMA TotalExists ==
    ASSUME NEW S, IsFiniteSet(S), NEW f
    PROVE  \E h : IsTotal(h, f, S)
<1> DEFINE pick(s) == CHOOSE x \in s : TRUE
           Small(n) == {s \in SUBSET S : Cardinality(s) <= n}
           Rule(h, s) == IF s = {} THEN 0 ELSE f[pick(s)] + h[s \ {pick(s)}]
           K == {n \in Nat : \E h : h = [s \in Small(n) |-> Rule(h, s)]}
<1>1. \A s \in SUBSET S : IsFiniteSet(s) /\ Cardinality(s) \in Nat /\ Cardinality(s) <= Cardinality(S)
  BY FS_Subset, FS_CardinalityType
<1>2. ASSUME NEW s \in SUBSET S, s # {}
      PROVE  /\ pick(s) \in s /\ s \ {pick(s)} \in SUBSET S /\ Cardinality(s) > 0
             /\ Cardinality(s \ {pick(s)}) = Cardinality(s) - 1
  <2>1. pick(s) \in s
    BY <1>2
  <2>2. Cardinality(s) # 0
    BY <1>1, <1>2, FS_EmptySet
  <2> HIDE DEF pick
  <2> QED BY <1>1, <2>1, <2>2, FS_RemoveElement
<1> HIDE DEF pick
<1>3. 0 \in K
  <2>1. \A s \in Small(0) : s = {}
    BY <1>1, FS_EmptySet
  <2> DEFINE h == [s \in Small(0) |-> 0]
  <2>2. h = [s \in Small(0) |-> Rule(h, s)]
    BY <2>1
  <2> QED BY <2>2
<1>4. ASSUME NEW n \in K PROVE n + 1 \in K
  <2>0. n \in Nat /\ n + 1 \in Nat
    OBVIOUS
  <2>1. PICK h : h = [s \in Small(n) |-> Rule(h, s)]
    OBVIOUS
  <2> DEFINE g == [s \in Small(n + 1) |-> IF Cardinality(s) <= n THEN h[s] ELSE Rule(h, s)]
  <2>2. ASSUME NEW s \in Small(n + 1) PROVE g[s] = Rule(g, s)
    <3>0. s \in SUBSET S /\ Cardinality(s) \in Nat /\ Cardinality(s) <= n + 1
      BY <1>1
    <3>1. g[s] = Rule(h, s)
      <4>1. CASE Cardinality(s) <= n
        <5>1. s \in Small(n)
          BY <3>0, <4>1
        <5>2. h[s] = Rule(h, s)
          <6> HIDE DEF Rule, Small
          <6> QED BY <2>1, <5>1
        <5> QED BY <4>1, <5>2
      <4>2. CASE ~(Cardinality(s) <= n)
        BY <4>2
      <4> QED BY <4>1, <4>2
    <3>2. CASE s = {}
      BY <3>1, <3>2
    <3>3. CASE s # {}
      <4> DEFINE r == s \ {pick(s)}
      <4>1. r \in SUBSET S /\ Cardinality(r) = Cardinality(s) - 1
        BY <1>2, <3>0, <3>3
      <4> HIDE DEF r
      <4>2. Cardinality(r) <= n /\ r \in Small(n + 1)
        BY <2>0, <3>0, <4>1
      <4>3. g[r] = h[r]
        BY <4>2
      <4> QED BY <3>1, <3>3, <4>3 DEF r
    <3> QED BY <3>2, <3>3
  <2>3. g = [s \in Small(n + 1) |-> Rule(g, s)]
    <3>1. g = [s \in Small(n + 1) |-> g[s]]
      OBVIOUS
    <3> HIDE DEF g, Rule, Small
    <3> QED BY <2>2, <3>1
  <2> HIDE DEF g
  <2> QED BY <2>0, <2>3
<1>5. K = Nat
  <2>1. K \in SUBSET Nat
    OBVIOUS
  <2> HIDE DEF K
  <2> QED BY <1>3, <1>4, <2>1, NatSetInduction
<1>6. Cardinality(S) \in K
  <2> HIDE DEF K
  <2> QED BY <1>5, FS_CardinalityType
<1>7. Small(Cardinality(S)) = SUBSET S
  BY <1>1
<1>8. \E h : h = [s \in SUBSET S |-> Rule(h, s)]
  BY <1>6, <1>7
<1> QED BY <1>8 DEF IsTotal, pick

LEMMA TotalIsInt ==
    ASSUME NEW S, IsFiniteSet(S), NEW f, \A x \in S : f[x] \in Int, NEW h, IsTotal(h, f, S)
    PROVE  h[{}] = 0 /\ \A s \in SUBSET S : h[s] \in Int
<1> DEFINE pick(s) == CHOOSE x \in s : TRUE
           K == {n \in Nat : \A s \in SUBSET S : Cardinality(s) = n => h[s] \in Int}
<1>1. \A s \in SUBSET S : IsFiniteSet(s) /\ Cardinality(s) \in Nat
  BY FS_Subset, FS_CardinalityType
<1>2. ASSUME NEW s \in SUBSET S, NEW x \in s
      PROVE  s \ {x} \in SUBSET S /\ Cardinality(s \ {x}) = Cardinality(s) - 1
  BY <1>1, FS_RemoveElement
<1>3. h[{}] = 0
  BY DEF IsTotal
<1>4. ASSUME NEW s \in SUBSET S, s # {} PROVE pick(s) \in s /\ h[s] = f[pick(s)] + h[s \ {pick(s)}]
  BY <1>4 DEF IsTotal
<1> HIDE DEF pick
<1>5. 0 \in K
  <2>1. ASSUME NEW s \in SUBSET S, Cardinality(s) = 0 PROVE s = {}
    BY <1>1, <2>1, FS_EmptySet
  <2> QED BY <1>3, <2>1
<1>6. ASSUME NEW n \in K PROVE n + 1 \in K
  <2>0. n \in Nat /\ n + 1 \in Nat
    OBVIOUS
  <2>1. ASSUME NEW s \in SUBSET S, Cardinality(s) = n PROVE h[s] \in Int
    BY <2>1
  <2> HIDE DEF K
  <2> SUFFICES ASSUME NEW s \in SUBSET S, Cardinality(s) = n + 1 PROVE h[s] \in Int
    BY <2>0 DEF K
  <2> DEFINE x == pick(s)
  <2>2. s # {}
    BY <2>0, FS_EmptySet
  <2>3. x \in s /\ h[s] = f[x] + h[s \ {x}]
    BY <1>4, <2>2
  <2> HIDE DEF x
  <2>4. s \ {x} \in SUBSET S /\ Cardinality(s \ {x}) = n
    BY <1>2, <2>0, <2>3
  <2>5. h[s \ {x}] \in Int
    BY <2>1, <2>4
  <2> QED BY <2>3, <2>5
<1>7. K = Nat
  <2>1. K \in SUBSET Nat
    OBVIOUS
  <2> HIDE DEF K
  <2> QED BY <1>5, <1>6, <2>1, NatSetInduction
<1>8. ASSUME NEW s \in SUBSET S PROVE h[s] \in Int
  <2>1. Cardinality(s) \in K
    BY <1>1, <1>7
  <2> QED BY <2>1
<1> QED BY <1>3, <1>8

(* Any element may be taken out first. *)
LEMMA TotalSplits ==
    ASSUME NEW S, IsFiniteSet(S), NEW f, \A x \in S : f[x] \in Int, NEW h, IsTotal(h, f, S)
    PROVE  \A s \in SUBSET S : \A a \in s : h[s] = f[a] + h[s \ {a}]
<1> DEFINE pick(s) == CHOOSE x \in s : TRUE
           K == {n \in Nat : \A s \in SUBSET S : Cardinality(s) = n => \A a \in s : h[s] = f[a] + h[s \ {a}]}
<1>0. \A s \in SUBSET S : h[s] \in Int
  BY TotalIsInt
<1>1. \A s \in SUBSET S : IsFiniteSet(s) /\ Cardinality(s) \in Nat
  BY FS_Subset, FS_CardinalityType
<1>2. ASSUME NEW s \in SUBSET S, NEW x \in s
      PROVE  s \ {x} \in SUBSET S /\ Cardinality(s \ {x}) = Cardinality(s) - 1
  BY <1>1, FS_RemoveElement
<1>4. ASSUME NEW s \in SUBSET S, s # {} PROVE pick(s) \in s /\ h[s] = f[pick(s)] + h[s \ {pick(s)}]
  BY <1>4 DEF IsTotal
<1> HIDE DEF pick
<1>5. 0 \in K
  <2>1. ASSUME NEW s \in SUBSET S, Cardinality(s) = 0 PROVE s = {}
    BY <1>1, <2>1, FS_EmptySet
  <2> QED BY <2>1
<1>6. ASSUME NEW n \in K PROVE n + 1 \in K
  <2>0. n \in Nat /\ n + 1 \in Nat
    OBVIOUS
  <2>1. ASSUME NEW s \in SUBSET S, Cardinality(s) = n
        PROVE  \A a \in s : h[s] = f[a] + h[s \ {a}]
    BY <2>1
  <2> HIDE DEF K
  <2> SUFFICES ASSUME NEW s \in SUBSET S, Cardinality(s) = n + 1
               PROVE  \A a \in s : h[s] = f[a] + h[s \ {a}]
    BY <2>0 DEF K
  <2> DEFINE x == pick(s)
  <2>2. s # {}
    BY <2>0, FS_EmptySet
  <2>3. x \in s /\ h[s] = f[x] + h[s \ {x}]
    BY <1>4, <2>2
  <2> HIDE DEF x
  <2>4. \A a \in s : s \ {a} \in SUBSET S /\ Cardinality(s \ {a}) = n
    BY <1>2, <2>0
  <2>5. ASSUME NEW a \in s, a # x PROVE h[s] = f[a] + h[s \ {a}]
    <3> DEFINE r == (s \ {x}) \ {a}
    <3>1. a \in s \ {x} /\ x \in s \ {a} /\ (s \ {a}) \ {x} = r
      BY <2>3, <2>5
    <3>2. h[s \ {x}] = f[a] + h[r]
      BY <2>1, <2>3, <2>4, <3>1
    <3>3. h[s \ {a}] = f[x] + h[r]
      BY <2>1, <2>3, <2>4, <3>1
    <3>4. h[r] \in Int /\ f[a] \in Int /\ f[x] \in Int
      BY <1>0, <2>3
    <3> HIDE DEF r
    <3> QED BY <2>3, <3>2, <3>3, <3>4
  <2> QED BY <2>3, <2>5
<1>7. K = Nat
  <2>1. K \in SUBSET Nat
    OBVIOUS
  <2> HIDE DEF K
  <2> QED BY <1>5, <1>6, <2>1, NatSetInduction
<1>8. ASSUME NEW s \in SUBSET S PROVE \A a \in s : h[s] = f[a] + h[s \ {a}]
  <2>1. Cardinality(s) \in K
    BY <1>1, <1>7
  <2> QED BY <2>1
<1> QED BY <1>8

LEMMA TotalIs ==
    ASSUME NEW S, IsFiniteSet(S), NEW f
    PROVE  IsTotal(TotalOf(f, S), f, S)
  BY TotalExists DEF TotalOf

(* Two sums over the same terms. *)
LEMMA TotalsAgree ==
    ASSUME NEW S, IsFiniteSet(S), NEW f, NEW g, NEW h, IsTotal(h, f, S), NEW k, IsTotal(k, g, S)
    PROVE  \A s \in SUBSET S : (\A x \in s : f[x] = g[x]) => h[s] = k[s]
<1> DEFINE pick(s) == CHOOSE x \in s : TRUE
           K == {n \in Nat : \A s \in SUBSET S : Cardinality(s) = n => ((\A x \in s : f[x] = g[x]) => h[s] = k[s])}
<1>1. \A s \in SUBSET S : IsFiniteSet(s) /\ Cardinality(s) \in Nat
  BY FS_Subset, FS_CardinalityType
<1>2. ASSUME NEW s \in SUBSET S, NEW x \in s
      PROVE  s \ {x} \in SUBSET S /\ Cardinality(s \ {x}) = Cardinality(s) - 1
  BY <1>1, FS_RemoveElement
<1>3. h[{}] = 0 /\ k[{}] = 0
  BY DEF IsTotal
<1>4. ASSUME NEW s \in SUBSET S, s # {}
      PROVE  pick(s) \in s /\ h[s] = f[pick(s)] + h[s \ {pick(s)}] /\ k[s] = g[pick(s)] + k[s \ {pick(s)}]
  BY <1>4 DEF IsTotal
<1> HIDE DEF pick
<1>5. 0 \in K
  <2>1. ASSUME NEW s \in SUBSET S, Cardinality(s) = 0 PROVE s = {}
    BY <1>1, <2>1, FS_EmptySet
  <2> QED BY <1>3, <2>1
<1>6. ASSUME NEW n \in K PROVE n + 1 \in K
  <2>0. n \in Nat /\ n + 1 \in Nat
    OBVIOUS
  <2>1. ASSUME NEW s \in SUBSET S, Cardinality(s) = n, \A x \in s : f[x] = g[x] PROVE h[s] = k[s]
    BY <2>1
  <2> HIDE DEF K
  <2> SUFFICES ASSUME NEW s \in SUBSET S, Cardinality(s) = n + 1, \A x \in s : f[x] = g[x] PROVE h[s] = k[s]
    BY <2>0 DEF K
  <2> DEFINE x == pick(s)
  <2>2. s # {}
    BY <2>0, FS_EmptySet
  <2>3. x \in s /\ h[s] = f[x] + h[s \ {x}] /\ k[s] = g[x] + k[s \ {x}]
    BY <1>4, <2>2
  <2> HIDE DEF x
  <2>4. s \ {x} \in SUBSET S /\ Cardinality(s \ {x}) = n /\ \A y \in s \ {x} : f[y] = g[y]
    BY <1>2, <2>0, <2>3
  <2>5. h[s \ {x}] = k[s \ {x}] /\ f[x] = g[x]
    BY <2>1, <2>3, <2>4
  <2> QED BY <2>3, <2>5
<1>7. K = Nat
  <2>1. K \in SUBSET Nat
    OBVIOUS
  <2> HIDE DEF K
  <2> QED BY <1>5, <1>6, <2>1, NatSetInduction
<1>8. ASSUME NEW s \in SUBSET S, \A x \in s : f[x] = g[x] PROVE h[s] = k[s]
  <2>1. Cardinality(s) \in K
    BY <1>1, <1>7
  <2> QED BY <1>8, <2>1
<1> QED BY <1>8

(* One term changes. *)
LEMMA TotalUpdate ==
    ASSUME NEW S, IsFiniteSet(S), NEW a \in S, NEW f, NEW g,
           \A x \in S : f[x] \in Int /\ g[x] \in Int,
           \A x \in S : x # a => g[x] = f[x]
    PROVE  /\ TotalOf(f, S)[S] \in Int
           /\ TotalOf(g, S)[S] = TotalOf(f, S)[S] + (g[a] - f[a])
<1> DEFINE h == TotalOf(f, S)
           k == TotalOf(g, S)
           r == S \ {a}
<1>1. IsTotal(h, f, S) /\ IsTotal(k, g, S)
  BY TotalIs
<1> HIDE DEF h, k
<1>2. S \in SUBSET S /\ r \in SUBSET S
  OBVIOUS
<1>3. h[S] \in Int /\ h[r] \in Int /\ k[r] \in Int
  BY <1>1, <1>2, TotalIsInt
<1>4. h[S] = f[a] + h[r] /\ k[S] = g[a] + k[r]
  BY <1>1, <1>2, TotalSplits
<1>5. h[r] = k[r]
  <2>1. \A x \in r : f[x] = g[x]
    OBVIOUS
  <2> QED BY <1>1, <1>2, <2>1, TotalsAgree
<1> HIDE DEF r
<1> QED BY <1>3, <1>4, <1>5 DEF h, k

LEMMA TotalOfZeros ==
    ASSUME NEW S, IsFiniteSet(S), NEW f, \A x \in S : f[x] = 0
    PROVE  TotalOf(f, S)[S] = 0
<1> DEFINE h == TotalOf(f, S)
           K == {n \in Nat : \A s \in SUBSET S : Cardinality(s) = n => h[s] = 0}
<1>0. \A x \in S : f[x] \in Int
  OBVIOUS
<1>1. IsTotal(h, f, S)
  BY <1>0, TotalIs
<1> HIDE DEF h
<1>2. \A s \in SUBSET S : IsFiniteSet(s) /\ Cardinality(s) \in Nat
  BY FS_Subset, FS_CardinalityType
<1>21. ASSUME NEW s \in SUBSET S, NEW x \in s
      PROVE  s \ {x} \in SUBSET S /\ Cardinality(s \ {x}) = Cardinality(s) - 1
  BY <1>2, FS_RemoveElement
<1>3. h[{}] = 0
  BY <1>0, <1>1, TotalIsInt
<1>4. ASSUME NEW s \in SUBSET S, NEW a \in s PROVE h[s] = f[a] + h[s \ {a}]
  BY <1>0, <1>1, TotalSplits
<1>5. 0 \in K
  <2>1. ASSUME NEW s \in SUBSET S, Cardinality(s) = 0 PROVE s = {}
    BY <1>2, <2>1, FS_EmptySet
  <2> QED BY <1>3, <2>1
<1>6. ASSUME NEW n \in K PROVE n + 1 \in K
  <2>0. n \in Nat /\ n + 1 \in Nat
    OBVIOUS
  <2>1. ASSUME NEW s \in SUBSET S, Cardinality(s) = n PROVE h[s] = 0
    BY <2>1
  <2> HIDE DEF K
  <2> SUFFICES ASSUME NEW s \in SUBSET S, Cardinality(s) = n + 1 PROVE h[s] = 0
    BY <2>0 DEF K
  <2>2. s # {}
    BY <2>0, FS_EmptySet
  <2>3. PICK x \in s : TRUE
    BY <2>2
  <2>4. s \ {x} \in SUBSET S /\ Cardinality(s \ {x}) = n
    <3>1. s \ {x} \in SUBSET S /\ Cardinality(s \ {x}) = Cardinality(s) - 1
      BY <1>21, <2>3
    <3> QED BY <3>1, <2>0
  <2>5. h[s \ {x}] = 0 /\ f[x] = 0
    BY <2>1, <2>4
  <2>6. h[s] = f[x] + h[s \ {x}]
    BY <1>4, <2>3
  <2> QED BY <2>5, <2>6
<1>7. K = Nat
  <2>1. K \in SUBSET Nat
    OBVIOUS
  <2> HIDE DEF K
  <2> QED BY <1>5, <1>6, <2>1, NatSetInduction
<1>8. Cardinality(S) \in K
  BY <1>2, <1>7
<1>9. h[S] = 0
  BY <1>8
<1> QED BY <1>9 DEF h

(* The sum over a part of the set is the sum over that set. *)
LEMMA TotalOfPart ==
    ASSUME NEW S, IsFiniteSet(S), NEW T \in SUBSET S, NEW f, NEW g, \A x \in T : f[x] = g[x],
           NEW h, IsTotal(h, f, S), NEW k, IsTotal(k, g, T)
    PROVE  h[T] = k[T]
<1> DEFINE r == [s \in SUBSET T |-> h[s]]
           pick(s) == CHOOSE x \in s : TRUE
<1>1. IsFiniteSet(T)
  BY FS_Subset
<1>2. \A s \in SUBSET S : h[s] = IF s = {} THEN 0 ELSE f[pick(s)] + h[s \ {pick(s)}]
  BY DEF IsTotal
<1> HIDE DEF pick
<1>3. ASSUME NEW s \in SUBSET T PROVE h[s] = IF s = {} THEN 0 ELSE f[pick(s)] + r[s \ {pick(s)}]
  <2>1. s \in SUBSET S /\ s \ {pick(s)} \in SUBSET T
    OBVIOUS
  <2> QED BY <1>2, <2>1
<1>4. r = [s \in SUBSET T |-> IF s = {} THEN 0 ELSE f[pick(s)] + r[s \ {pick(s)}]]
  BY <1>3
<1>5. IsTotal(r, f, T) /\ r[T] = h[T]
  BY <1>4 DEF IsTotal, pick
<1> HIDE DEF r
<1>6. r[T] = k[T]
  BY <1>1, <1>5, TotalsAgree
<1> QED BY <1>5, <1>6

(* Sums with the operator of the library. *)
LEMMA SumOfNone == \A f : SumFunctionOnSet(f, {}) = 0
<1> SUFFICES ASSUME NEW f PROVE SumFunctionOnSet(f, {}) = 0
  OBVIOUS
<1>1. IsTotal(TotalOf(f, {}), f, {})
  BY FS_EmptySet, TotalIs
<1>2. TotalOf(f, {})[{}] = 0
  BY <1>1 DEF IsTotal
<1> QED BY <1>2, SumIsTotal

(* Any element may be taken out; the function may differ elsewhere. *)
LEMMA SumSplits ==
    ASSUME NEW S, IsFiniteSet(S), NEW f, \A x \in S : f[x] \in Int, NEW a \in S, NEW g,
           \A x \in S \ {a} : g[x] = f[x]
    PROVE  /\ SumFunctionOnSet(f, S) \in Int /\ SumFunctionOnSet(g, S \ {a}) \in Int
           /\ SumFunctionOnSet(f, S) = f[a] + SumFunctionOnSet(g, S \ {a})
<1> DEFINE r == S \ {a}
           h == TotalOf(f, S)
           k == TotalOf(g, r)
<1>0. r \in SUBSET S /\ S \in SUBSET S
  OBVIOUS
<1>1. IsFiniteSet(r) /\ \A x \in r : f[x] = g[x]
  BY FS_Subset
<1>2. IsTotal(h, f, S) /\ IsTotal(k, g, r)
  BY <1>1, TotalIs
<1>3. SumFunctionOnSet(f, S) = h[S] /\ SumFunctionOnSet(g, r) = k[r]
  BY SumIsTotal
<1> HIDE DEF h, k
<1>4. h[S] \in Int /\ h[r] \in Int
  BY <1>0, <1>2, TotalIsInt
<1>5. h[S] = f[a] + h[r]
  BY <1>0, <1>2, TotalSplits
<1>6. h[r] = k[r]
  <2> HIDE DEF r
  <2> QED BY <1>0, <1>1, <1>2, TotalOfPart
<1> QED BY <1>3, <1>4, <1>5, <1>6

LEMMA SumsEqual ==
    ASSUME NEW S, IsFiniteSet(S), NEW f, NEW g, \A x \in S : f[x] = g[x]
    PROVE  SumFunctionOnSet(f, S) = SumFunctionOnSet(g, S)
<1> DEFINE h == TotalOf(f, S)
           k == TotalOf(g, S)
<1>1. IsTotal(h, f, S) /\ IsTotal(k, g, S)
  BY TotalIs
<1>2. SumFunctionOnSet(f, S) = h[S] /\ SumFunctionOnSet(g, S) = k[S]
  BY SumIsTotal
<1>3. S \in SUBSET S
  OBVIOUS
<1> HIDE DEF h, k
<1>4. h[S] = k[S]
  BY <1>1, <1>3, TotalsAgree
<1> QED BY <1>2, <1>4

(* A sum of numbers that are not negative. *)
LEMMA SumIsNat ==
    ASSUME NEW S, IsFiniteSet(S), NEW f, \A x \in S : f[x] \in Nat
    PROVE  SumFunctionOnSet(f, S) \in Nat
<1> DEFINE K == {n \in Nat : \A s \in SUBSET S : Cardinality(s) = n => SumFunctionOnSet(f, s) \in Nat}
<1>1. \A s \in SUBSET S : IsFiniteSet(s) /\ Cardinality(s) \in Nat
  BY FS_Subset, FS_CardinalityType
<1>2. 0 \in K
  <2>1. ASSUME NEW s \in SUBSET S, Cardinality(s) = 0 PROVE SumFunctionOnSet(f, s) \in Nat
    <3>1. s = {}
      BY <1>1, <2>1, FS_EmptySet
    <3> QED BY <3>1, SumOfNone
  <2> QED BY <2>1
<1>3. ASSUME NEW n \in K PROVE n + 1 \in K
  <2>0. n \in Nat /\ \A s \in SUBSET S : Cardinality(s) = n => SumFunctionOnSet(f, s) \in Nat
    OBVIOUS
  <2> HIDE DEF K
  <2>1. ASSUME NEW s \in SUBSET S, Cardinality(s) = n + 1 PROVE SumFunctionOnSet(f, s) \in Nat
    <3>1. s # {}
      BY <2>0, <2>1, FS_EmptySet
    <3>2. PICK a \in s : TRUE
      BY <3>1
    <3>3. s \ {a} \in SUBSET S /\ Cardinality(s \ {a}) = n
      BY <1>1, <2>0, <2>1, FS_RemoveElement
    <3>4. IsFiniteSet(s) /\ (\A x \in s : f[x] \in Int) /\ f[a] \in Nat /\ \A x \in s \ {a} : f[x] = f[x]
      BY <1>1
    <3>5. SumFunctionOnSet(f, s) = f[a] + SumFunctionOnSet(f, s \ {a})
      BY <3>4, SumSplits
    <3>6. SumFunctionOnSet(f, s \ {a}) \in Nat
      BY <2>0, <3>3
    <3> QED BY <3>4, <3>5, <3>6
  <2> QED BY <2>0, <2>1 DEF K
<1>4. K = Nat
  <2>1. K \in SUBSET Nat
    OBVIOUS
  <2> HIDE DEF K
  <2> QED BY <1>2, <1>3, <2>1, NatSetInduction
<1>5. Cardinality(S) \in K /\ S \in SUBSET S
  BY <1>1, <1>4
<1> QED BY <1>5

(* Sums over the first places of a sequence. *)
LEMMA SumOfPlaces ==
    ASSUME NEW N \in Nat, NEW f, \A i \in 1..N : f[i] \in Int
    PROVE  /\ SumFunctionOnSet(f, 1..0) = 0
           /\ \A n \in 0..N : SumFunctionOnSet(f, 1..n) \in Int
           /\ \A n \in 1..N : SumFunctionOnSet(f, 1..n) = SumFunctionOnSet(f, 1..(n - 1)) + f[n]
<1>1. 1..0 = {}
  OBVIOUS
<1>2. SumFunctionOnSet(f, 1..0) = 0
  BY <1>1, SumOfNone
<1>3. ASSUME NEW n \in 1..N
      PROVE  /\ SumFunctionOnSet(f, 1..n) \in Int
             /\ SumFunctionOnSet(f, 1..n) = SumFunctionOnSet(f, 1..(n - 1)) + f[n]
  <2>1. n \in 1..n /\ n \in Nat /\ (1..n) \ {n} = 1..(n - 1) /\ \A x \in 1..n : x \in 1..N
    OBVIOUS
  <2>2. IsFiniteSet(1..n)
    BY <2>1, FS_Interval
  <2>3. f[n] \in Int /\ (\A x \in 1..n : f[x] \in Int) /\ \A x \in (1..n) \ {n} : f[x] = f[x]
    BY <2>1
  <2>4. /\ SumFunctionOnSet(f, 1..n) \in Int /\ SumFunctionOnSet(f, (1..n) \ {n}) \in Int
        /\ SumFunctionOnSet(f, 1..n) = f[n] + SumFunctionOnSet(f, (1..n) \ {n})
    BY <2>1, <2>2, <2>3, SumSplits
  <2>5. SumFunctionOnSet(f, (1..n) \ {n}) = SumFunctionOnSet(f, 1..(n - 1))
    BY <2>1
  <2> QED BY <2>3, <2>4, <2>5
<1>4. ASSUME NEW n \in 0..N PROVE SumFunctionOnSet(f, 1..n) \in Int
  <2>1. n = 0 \/ n \in 1..N
    OBVIOUS
  <2> QED BY <1>2, <1>3, <2>1
<1> QED BY <1>2, <1>3, <1>4

LEMMA SumNegated ==
    ASSUME NEW N \in Nat, NEW f, \A i \in 1..N : f[i] \in Int, NEW g, \A i \in 1..N : g[i] = 0 - f[i]
    PROVE  SumFunctionOnSet(g, 1..N) = 0 - SumFunctionOnSet(f, 1..N)
<1> DEFINE A(n) == SumFunctionOnSet(f, 1..n)
           B(n) == SumFunctionOnSet(g, 1..n)
           S == {n \in Nat : n <= N => B(n) = 0 - A(n)}
<1>1. /\ A(0) = 0 /\ (\A n \in 0..N : A(n) \in Int) /\ \A n \in 1..N : A(n) = A(n - 1) + f[n]
  BY SumOfPlaces
<1>2. /\ B(0) = 0 /\ (\A n \in 0..N : B(n) \in Int) /\ \A n \in 1..N : B(n) = B(n - 1) + g[n]
  <2>1. \A i \in 1..N : g[i] \in Int
    OBVIOUS
  <2> QED BY <2>1, SumOfPlaces
<1> HIDE DEF A, B
<1>3. 0 \in S
  BY <1>1, <1>2
<1>4. ASSUME NEW n \in S PROVE n + 1 \in S
  <2>0. n \in Nat /\ (n <= N => B(n) = 0 - A(n))
    OBVIOUS
  <2> DEFINE q == n + 1
  <2> SUFFICES ASSUME q <= N PROVE B(q) = 0 - A(q)
    BY <2>0
  <2>1. q \in 1..N /\ q - 1 = n /\ n \in 0..N /\ B(n) = 0 - A(n)
    BY <2>0
  <2> HIDE DEF q, S
  <2>2. A(q) = A(n) + f[q] /\ B(q) = B(n) + g[q] /\ g[q] = 0 - f[q] /\ f[q] \in Int /\ A(n) \in Int
    BY <1>1, <1>2, <2>1
  <2> QED BY <2>1, <2>2
<1>5. S = Nat
  <2>1. S \in SUBSET Nat
    OBVIOUS
  <2> HIDE DEF S
  <2> QED BY <1>3, <1>4, <2>1, NatSetInduction
<1>6. B(N) = 0 - A(N)
  BY <1>5
<1> QED BY <1>6 DEF A, B

-----------------------------------------------------------------------------
(* A sequence, whatever its elements are. *)

IsSequence(c) == \E S : c \in Seq(S)

LEMMA SequenceFacts ==
    ASSUME NEW c, IsSequence(c)
    PROVE  /\ c \in Seq(Range(c)) /\ Len(c) \in Nat /\ DOMAIN c = 1..Len(c)
           /\ \A i \in 1..Len(c) : c[i] \in Range(c)
           /\ \A b \in Range(c) : \E i \in 1..Len(c) : b = c[i]
<1>1. PICK S : c \in Seq(S)
  BY DEF IsSequence
<1>2. Len(c) \in Nat /\ DOMAIN c = 1..Len(c) /\ c \in [1..Len(c) -> S]
  BY <1>1
<1>3. \A i \in 1..Len(c) : c[i] \in Range(c)
  BY <1>2 DEF Range
<1>4. \A b \in Range(c) : \E i \in 1..Len(c) : b = c[i]
  BY <1>2 DEF Range
<1>5. c \in [1..Len(c) -> Range(c)]
  BY <1>2, <1>3
<1>6. c \in Seq(Range(c))
  <2> DEFINE R == Range(c)
             n == Len(c)
  <2> HIDE DEF R
  <2>1. c \in [1..n -> R] /\ n \in Nat
    BY <1>2, <1>5 DEF R
  <2> HIDE DEF n
  <2>2. c \in Seq(R)
    BY <2>1
  <2> QED BY <2>2 DEF R
<1> QED BY <1>2, <1>3, <1>4, <1>6

(* A sequence and the same one with one element more. *)
LEMMA PrefixOfAppend ==
    ASSUME NEW c, IsSequence(c), NEW b
    PROVE  /\ IsSequence(Append(c, b))
           /\ Len(Append(c, b)) = Len(c) + 1
           /\ Append(c, b)[Len(c) + 1] = b
           /\ \A i \in 1..Len(c) : Append(c, b)[i] = c[i]
           /\ \A k \in 0..Len(c) : SubSeq(Append(c, b), 1, k) = SubSeq(c, 1, k)
           /\ SubSeq(c, 1, Len(c)) = c
           /\ Range(Append(c, b)) = Range(c) \cup {b}
<1> DEFINE q == Append(c, b)
           N == Len(c)
           V == Range(c) \cup {b}
<1>0. c \in Seq(Range(c)) /\ N \in Nat
  BY SequenceFacts
<1>1. c \in Seq(V)
  BY <1>0
<1>2. q \in Seq(V) /\ Len(q) = N + 1 /\ q[N + 1] = b /\ (\A i \in 1..N : q[i] = c[i]) /\ DOMAIN q = 1..(N + 1)
  <2> HIDE DEF V
  <2>1. b \in V
    BY DEF V
  <2> QED BY <1>0, <1>1, <2>1
<1>3. DOMAIN c = 1..N
  BY <1>0
<1> HIDE DEF q
<1>4. Range(q) = V
  <2>1. \A x \in Range(q) : x \in V
    <3> HIDE DEF V
    <3> QED BY <1>0, <1>2 DEF Range
  <2>2. ASSUME NEW x \in V PROVE x \in Range(q)
    <3>1. CASE x = b
      <4>1. N + 1 \in DOMAIN q
        BY <1>0, <1>2
      <4> QED BY <1>2, <3>1, <4>1 DEF Range
    <3>2. CASE x \in Range(c)
      <4>1. PICK i \in 1..N : x = c[i]
        BY <1>3, <3>2 DEF Range
      <4>2. i \in DOMAIN q
        BY <1>0, <1>2
      <4> QED BY <1>2, <4>1, <4>2 DEF Range
    <3> QED BY <3>1, <3>2
  <2> QED BY <2>1, <2>2
<1> HIDE DEF V, N
<1>5. ASSUME NEW k \in 0..N PROVE SubSeq(q, 1, k) = SubSeq(c, 1, k)
  <2> DEFINE x == SubSeq(q, 1, k)
             y == SubSeq(c, 1, k)
  <2>1. k \in Nat /\ k <= Len(q) /\ k <= Len(c) /\ 1 <= k + 1
    BY <1>0, <1>2 DEF N
  <2>2. x \in Seq(V) /\ Len(x) = k + 1 - 1 /\ \A i \in 1..(k + 1 - 1) : x[i] = q[1 + i - 1]
    BY <1>2, <2>1, SubSeqIs
  <2>3. y \in Seq(V) /\ Len(y) = k + 1 - 1 /\ \A i \in 1..(k + 1 - 1) : y[i] = c[1 + i - 1]
    BY <1>1, <2>1, SubSeqIs
  <2> HIDE DEF x, y
  <2>4. Len(x) = k /\ Len(y) = k
    BY <2>1, <2>2, <2>3
  <2>5. \A i \in 1..Len(x) : x[i] = y[i]
    <3> SUFFICES ASSUME NEW i \in 1..k PROVE x[i] = y[i]
      BY <2>4
    <3>1. i \in 1..(k + 1 - 1) /\ 1 + i - 1 = i /\ i \in 1..N
      BY <1>0, <2>1
    <3> QED BY <1>2, <2>2, <2>3, <3>1
  <2>6. x = y
    BY <2>2, <2>3, <2>4, <2>5, SeqEqual
  <2> QED BY <2>6 DEF x, y
<1>6. SubSeq(c, 1, Len(c)) = c
  BY <1>0, SubSeqEmptyWhole DEF N
<1> QED BY <1>2, <1>4, <1>5, <1>6 DEF q, N, V, IsSequence

LEMMA Concatenated ==
    ASSUME NEW V, NEW a \in Seq(V), NEW b \in Seq(V)
    PROVE  /\ a \o b \in Seq(V) /\ Len(a \o b) = Len(a) + Len(b) /\ Len(a) \in Nat /\ Len(b) \in Nat
           /\ \A j \in 1..Len(a) : j \in 1..Len(a \o b) /\ (a \o b)[j] = a[j]
           /\ \A k \in 1..Len(b) : Len(a) + k \in 1..Len(a \o b) /\ (a \o b)[Len(a) + k] = b[k]
<1>1. a \o b \in Seq(V) /\ Len(a \o b) = Len(a) + Len(b) /\ Len(a) \in Nat /\ Len(b) \in Nat
  OBVIOUS
<1>2. ASSUME NEW j \in 1..Len(a) PROVE j \in 1..Len(a \o b) /\ (a \o b)[j] = a[j]
  BY <1>1
<1>3. ASSUME NEW k \in 1..Len(b) PROVE Len(a) + k \in 1..Len(a \o b) /\ (a \o b)[Len(a) + k] = b[k]
  <2>1. Len(a) + k \in 1..Len(a \o b) /\ Len(a) + k > Len(a) /\ Len(a) + k - Len(a) = k
    BY <1>1
  <2> QED BY <1>1, <2>1
<1> QED BY <1>1, <1>2, <1>3

IsFlat(f, s) == f = [i \in 1..Len(s) |-> IF i = 1 THEN s[i] ELSE f[i - 1] \o s[i]]

(* Flattening concatenates from the front. *)
LEMMA FlattenIs ==
    ASSUME NEW V, NEW s \in Seq(Seq(V))
    PROVE  \E h : /\ h[0] = <<>> /\ FlattenSeq(s) = h[Len(s)]
                  /\ \A i \in 1..Len(s) : h[i] = h[i - 1] \o s[i]
<1> DEFINE N == Len(s)
           step == [x \in (1..N) \X Seq(V) |-> x[2] \o s[x[1]]]
<1>0. N \in Nat /\ \A i \in 1..N : s[i] \in Seq(V)
  OBVIOUS
<1>1. CASE N = 0
  <2> DEFINE h == [i \in {0} |-> <<>>]
  <2>1. FlattenSeq(s) = <<>> /\ 1..N = {}
    BY <1>0, <1>1 DEF FlattenSeq
  <2>2. h[0] = <<>> /\ FlattenSeq(s) = h[N] /\ \A i \in 1..N : h[i] = h[i - 1] \o s[i]
    BY <1>1, <2>1
  <2> QED BY <2>2
<1>2. CASE N # 0
  <2>1. step \in [(1..N) \X Seq(V) -> Seq(V)]
    BY <1>0
  <2>2. PICK f \in [0..N -> Seq(V)] : IsRecursion(f, N, <<>>, step)
    <3>1. <<>> \in Seq(V)
      OBVIOUS
    <3> HIDE DEF step, N
    <3> QED BY <1>0, <2>1, <3>1, RecursionExists
  <2>3. ASSUME NEW i \in 1..N PROVE f[i] = f[i - 1] \o s[i] /\ i - 1 \in 0..N
    <3>1. i \in 0..N /\ i # 0 /\ i - 1 \in 0..N
      BY <1>0
    <3>2. f[i] = step[<<i, f[i - 1]>>]
      <4> HIDE DEF step, N
      <4> QED BY <2>2, <3>1 DEF IsRecursion
    <3>3. <<i, f[i - 1]>> \in (1..N) \X Seq(V)
      BY <3>1
    <3> QED BY <3>1, <3>2, <3>3
  <2>4. f[0] = <<>>
    <3> HIDE DEF step
    <3> QED BY <1>0, <2>2 DEF IsRecursion
  <2> DEFINE g == [i \in 1..N |-> f[i]]
  <2>5. ASSUME NEW i \in 1..N PROVE g[i] = IF i = 1 THEN s[i] ELSE g[i - 1] \o s[i]
    <3>1. CASE i = 1
      <4>0. 1 \in 1..N /\ 1 - 1 = 0
        BY <1>0, <3>1
      <4>1. f[1] = f[0] \o s[1]
        <5>1. f[1] = f[1 - 1] \o s[1]
          BY <2>3, <4>0
        <5> QED BY <4>0, <5>1
      <4>2. f[1] = s[1]
        BY <1>0, <2>4, <3>1, <4>1
      <4> QED BY <3>1, <4>2
    <3>2. CASE i # 1
      <4>1. i - 1 \in 1..N
        BY <1>0, <3>2
      <4> QED BY <2>3, <3>2, <4>1
    <3> QED BY <3>1, <3>2
  <2>6. IsFlat(g, s)
    <3>1. g = [i \in 1..N |-> g[i]]
      OBVIOUS
    <3> HIDE DEF g
    <3> QED BY <2>5, <3>1 DEF IsFlat
  <2> DEFINE h == CHOOSE e : IsFlat(e, s)
  <2>7. IsFlat(h, s)
    <3> HIDE DEF g
    <3> QED BY <2>6
  <2>8. FlattenSeq(s) = h[N]
    BY <1>0, <1>2 DEF FlattenSeq, IsFlat
  <2>9. \A i \in 1..N : h[i] = IF i = 1 THEN s[i] ELSE h[i - 1] \o s[i]
    BY <2>7 DEF IsFlat
  <2> HIDE DEF h, g, step
  <2> HIDE DEF h, g, step
  <2> DEFINE e == [i \in 0..N |-> IF i = 0 THEN <<>> ELSE h[i]]
  <2>10. e[0] = <<>> /\ e[N] = h[N]
    BY <1>0, <1>2
  <2>11. ASSUME NEW i \in 1..N PROVE e[i] = e[i - 1] \o s[i]
    <3>1. i \in 0..N /\ i # 0 /\ i - 1 \in 0..N /\ (i - 1 = 0 <=> i = 1)
      BY <1>0
    <3>2. e[i] = h[i] /\ e[i - 1] = (IF i = 1 THEN <<>> ELSE h[i - 1])
      BY <3>1
    <3>3. <<>> \o s[i] = s[i]
      BY <1>0
    <3> HIDE DEF e
    <3> QED BY <2>9, <3>2, <3>3
  <2> HIDE DEF e
  <2> QED BY <2>8, <2>10, <2>11
<1> QED BY <1>1, <1>2

(* Flattening keeps every element. *)
LEMMA FlattenKeeps ==
    ASSUME NEW V, NEW s \in Seq(Seq(V))
    PROVE  /\ FlattenSeq(s) \in Seq(V)
           /\ \A i \in 1..Len(s) : \A k \in 1..Len(s[i]) :
                  \E j \in 1..Len(FlattenSeq(s)) : FlattenSeq(s)[j] = s[i][k]
<1> DEFINE N == Len(s)
<1>0. N \in Nat /\ \A i \in 1..N : s[i] \in Seq(V)
  OBVIOUS
<1>1. PICK h : h[0] = <<>> /\ FlattenSeq(s) = h[N] /\ \A i \in 1..N : h[i] = h[i - 1] \o s[i]
  BY FlattenIs
<1> HIDE DEF N
<1> DEFINE Holds(n) == /\ h[n] \in Seq(V)
                       /\ \A i \in 1..n : \A k \in 1..Len(s[i]) : \E j \in 1..Len(h[n]) : h[n][j] = s[i][k]
           S == {n \in Nat : n <= N => Holds(n)}
<1>2. 0 \in S
  <2>1. 1..0 = {} /\ <<>> \in Seq(V)
    OBVIOUS
  <2>2. Holds(0)
    BY <1>1, <2>1
  <2> HIDE DEF Holds
  <2> QED BY <2>2
<1>3. ASSUME NEW n \in S PROVE n + 1 \in S
  <2> DEFINE m == n
             q == n + 1
  <2>0. n \in Nat
    OBVIOUS
  <2>1. SUFFICES ASSUME q <= N PROVE Holds(q)
    BY <2>0
  <2>2. /\ m \in Nat /\ m <= N /\ q \in 1..N /\ q - 1 = m
        /\ \A i \in 1..q : i \in 1..m \/ i = q
    BY <1>0, <2>0, <2>1
  <2>3. Holds(m)
    BY <2>2
  <2> HIDE DEF m, q
  <2>4. h[q] = h[m] \o s[q] /\ s[q] \in Seq(V) /\ h[m] \in Seq(V)
    BY <1>0, <1>1, <2>2, <2>3
  <2>5. /\ h[q] \in Seq(V) /\ Len(h[q]) = Len(h[m]) + Len(s[q])
        /\ \A j \in 1..Len(h[m]) : j \in 1..Len(h[q]) /\ h[q][j] = h[m][j]
        /\ \A k \in 1..Len(s[q]) : Len(h[m]) + k \in 1..Len(h[q]) /\ h[q][Len(h[m]) + k] = s[q][k]
    <3> DEFINE a == h[m]
               b == s[q]
    <3>1. a \in Seq(V) /\ b \in Seq(V) /\ h[q] = a \o b
      BY <2>4
    <3> HIDE DEF a, b
    <3>2. /\ a \o b \in Seq(V) /\ Len(a \o b) = Len(a) + Len(b)
          /\ \A j \in 1..Len(a) : j \in 1..Len(a \o b) /\ (a \o b)[j] = a[j]
          /\ \A k \in 1..Len(b) : Len(a) + k \in 1..Len(a \o b) /\ (a \o b)[Len(a) + k] = b[k]
      BY <3>1, Concatenated
    <3> QED BY <3>1, <3>2 DEF a, b
  <2>6. ASSUME NEW i \in 1..q, NEW k \in 1..Len(s[i]) PROVE \E j \in 1..Len(h[q]) : h[q][j] = s[i][k]
    <3>1. CASE i \in 1..m
      <4>1. PICK j \in 1..Len(h[m]) : h[m][j] = s[i][k]
        BY <2>3, <3>1
      <4>2. j \in 1..Len(h[q]) /\ h[q][j] = h[m][j]
        BY <2>5
      <4> QED BY <4>1, <4>2
    <3>2. CASE i = q
      <4>1. Len(h[m]) + k \in 1..Len(h[q])
        BY <2>5, <3>2
      <4>2. h[q][Len(h[m]) + k] = s[i][k]
        BY <2>5, <3>2
      <4> QED BY <4>1, <4>2
    <3> QED BY <2>2, <3>1, <3>2
  <2> QED BY <2>5, <2>6
<1>4. S = Nat
  <2>1. S \in SUBSET Nat
    OBVIOUS
  <2> HIDE DEF S
  <2> QED BY <1>2, <1>3, <2>1, NatSetInduction
<1>5. Holds(N)
  <2>1. N \in S
    BY <1>0, <1>4
  <2> QED BY <1>0, <2>1
<1> QED BY <1>1, <1>5 DEF N
=============================================================================
