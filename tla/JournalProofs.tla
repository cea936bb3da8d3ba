---------------------------- MODULE JournalProofs ----------------------------
(***************************************************************************)
(* Proofs about module Journal, for every set of hashes and every payload  *)
(* length, with writes that fail at any cell.                              *)
(*                                                                         *)
(* The invariant reads the file as a log L of whole records, with e[k] the *)
(* offset at which the k-th ends, and behind them nothing, or the first w  *)
(* cells of one more record t.  Behind those cells there is nothing more,  *)
(* or the first cell of a record that was appended after a write had       *)
(* failed halfway, and anything after that.  Replay walks along the        *)
(* offsets e[k] and no further; a crash leaves a prefix of L and makes the *)
(* record that it cut the new t.                                           *)
(***************************************************************************)
EXTENDS Journal, DataLemmas

Cells == Records \X Nat

(* e[k] is the offset behind the k-th record of L. *)
Offsets(L, e) ==
    /\ e \in [0..Len(L) -> Nat]
    /\ e[0] = 0
    /\ \A i \in 1..Len(L) : e[i] = e[i - 1] + size(L[i])
    /\ \A i, j \in 0..Len(L) : i < j => e[i] + size(L[i + 1]) <= e[j]

(* The cells of record r are in f behind offset o, or the first n of them. *)
Holds(f, o, r, n) == \A j \in 1..n : f[o + j] = <<r, j>>

(* The file f: the records of L, w cells of t, and what was written behind *)
(* them.                                                                   *)
Layout(f, L, e, t, w) ==
    /\ f \in Seq(Cells) /\ L \in Seq(Records)
    /\ Offsets(L, e)
    /\ e[Len(L)] <= Len(f)
    /\ \A i \in 1..Len(L) : Holds(f, e[i - 1], L[i], size(L[i]))
    /\ e[Len(L)] < Len(f) =>
           /\ t \in Records /\ w \in Nat /\ 0 < w /\ w < size(t) /\ e[Len(L)] + w <= Len(f)
           /\ Holds(f, e[Len(L)], t, w)
           /\ e[Len(L)] + w < Len(f) => f[e[Len(L)] + w + 1][2] = 1

(* Nothing was written behind the cells of t. *)
NothingBehind(f, L, e, w) == Len(f) <= e[Len(L)] \/ Len(f) = e[Len(L)] + w

-----------------------------------------------------------------------------
LEMMA SizeType ==
    ASSUME NEW r \in Records
    PROVE  size(r) \in Nat /\ size(r) > HeaderLen
BY PayloadAssumption DEF size, HeaderLen, Records

LEMMA CellsOf ==
    ASSUME NEW r \in Records
    PROVE  /\ cells(r) \in Seq(Cells) /\ Len(cells(r)) = size(r)
           /\ \A j \in 1..size(r) : cells(r)[j] = <<r, j>>
<1>1. size(r) \in Nat
  BY SizeType
<1>2. \A j \in 1..size(r) : <<r, j>> \in Cells
  BY <1>1 DEF Cells
<1> QED BY <1>1, <1>2 DEF cells

(* The last record that ends at or before n *)
LEMMA LastBefore ==
    ASSUME NEW L \in Seq(Records), NEW e, Offsets(L, e), NEW n \in Nat
    PROVE  \E k \in 0..Len(L) : e[k] <= n /\ (k < Len(L) => n < e[k + 1])
<1> DEFINE N == Len(L)
           T == {m \in 0..N : e[N - m] <= n}
<1>0. N \in Nat
  OBVIOUS
<1>1. N \in T /\ T \in SUBSET Nat
  BY <1>0 DEF Offsets
<1>2. PICK m \in T : \A y \in T : m <= y
  <2> HIDE DEF T
  <2> QED BY <1>1, LeastNumber
<1>3. m \in 0..N /\ e[N - m] <= n
  OBVIOUS
<1>4. ASSUME m > 0 PROVE n < e[N - m + 1]
  <2>1. m - 1 \in 0..N /\ m - 1 \notin T /\ N - (m - 1) = N - m + 1
    BY <1>0, <1>2, <1>4
  <2>2. N - m + 1 \in 0..N
    BY <1>0, <1>3, <1>4
  <2>3. e[N - m + 1] \in Nat
    BY <2>2 DEF Offsets
  <2> QED BY <2>1, <2>2, <2>3
<1> WITNESS N - m \in 0..Len(L)
<1> QED BY <1>0, <1>3, <1>4

(* Where the k-th record ends: the next record, or the torn one, is there. *)
LEMMA NextRecord ==
    ASSUME NEW f, NEW L, NEW e, NEW t, NEW w, Layout(f, L, e, t, w), NEW k \in 0..Len(L)
    PROVE  /\ Len(L) \in Nat /\ Len(f) \in Nat /\ e[k] \in Nat /\ e[k] <= e[Len(L)] /\ e[Len(L)] <= Len(f)
           /\ k < Len(L) =>
                  /\ L[k + 1] \in Records /\ size(L[k + 1]) \in Nat /\ size(L[k + 1]) > HeaderLen
                  /\ e[k + 1] = e[k] + size(L[k + 1]) /\ e[k + 1] <= e[Len(L)]
                  /\ Holds(f, e[k], L[k + 1], size(L[k + 1]))
<1>1. Len(L) \in Nat /\ Len(f) \in Nat /\ e[Len(L)] <= Len(f)
  BY DEF Layout
<1>2. \A i \in 0..Len(L) : e[i] \in Nat
  BY DEF Layout, Offsets
<1>3. ASSUME NEW i \in 0..Len(L), i < Len(L)
      PROVE  /\ L[i + 1] \in Records /\ size(L[i + 1]) \in Nat /\ size(L[i + 1]) > HeaderLen
             /\ e[i + 1] = e[i] + size(L[i + 1]) /\ e[i + 1] <= e[Len(L)]
             /\ Holds(f, e[i], L[i + 1], size(L[i + 1]))
  <2>1. i + 1 \in 1..Len(L) /\ (i + 1) - 1 = i
    BY <1>1, <1>3
  <2>2. L[i + 1] \in Records
    BY <2>1 DEF Layout
  <2>3. size(L[i + 1]) \in Nat /\ size(L[i + 1]) > HeaderLen
    BY <2>2, SizeType
  <2>4. e[i + 1] = e[i] + size(L[i + 1])
    BY <2>1 DEF Layout, Offsets
  <2>5. Holds(f, e[i], L[i + 1], size(L[i + 1]))
    BY <2>1 DEF Layout
  <2>6. e[i] + size(L[i + 1]) <= e[Len(L)]
    BY <1>1, <1>3 DEF Layout, Offsets
  <2> QED BY <2>2, <2>3, <2>4, <2>5, <2>6
<1>4. e[k] <= e[Len(L)]
  <2>1. CASE k < Len(L)
    BY <1>1, <1>2, <1>3, <2>1
  <2>2. CASE k = Len(L)
    BY <1>1, <1>2, <2>2
  <2> QED BY <1>1, <2>1, <2>2
<1> QED BY <1>1, <1>2, <1>3, <1>4

(* A record is whole where its cells are. *)
LEMMA WholeWhereHeld ==
    ASSUME NEW f \in Seq(Cells), NEW o \in Nat, NEW r \in Records, NEW n \in Nat, n <= Len(f), o + size(r) <= n
    PROVE  Holds(f, o, r, size(r)) => SubSeq(f, o + 1, o + size(r)) = cells(r) /\ wholeRecordAt(f, o, n) /\ f[o + 1][1] = r
<1> SUFFICES ASSUME Holds(f, o, r, size(r))
             PROVE  SubSeq(f, o + 1, o + size(r)) = cells(r) /\ wholeRecordAt(f, o, n) /\ f[o + 1][1] = r
  OBVIOUS
<1> DEFINE z == size(r)
           s == SubSeq(f, o + 1, o + z)
<1>1. z \in Nat /\ z > 2 /\ Len(f) \in Nat
  BY SizeType DEF HeaderLen
<1> HIDE DEF z
<1>2. f[o + 1] = <<r, 1>>
  BY <1>1 DEF Holds, z
<1>3. s \in Seq(Cells) /\ Len(s) = z /\ \A j \in 1..z : s[j] = f[o + j]
  <2>1. o + 1 \in Int /\ o + z \in Int /\ \A i \in (o + 1)..(o + z) : f[i] \in Cells
    BY <1>1 DEF z
  <2>2. /\ s \in Seq(Cells) /\ Len(s) = (IF o + 1 <= o + z THEN (o + z) - (o + 1) + 1 ELSE 0)
        /\ \A i \in 1..((o + z) - (o + 1) + 1) : s[i] = f[(o + 1) + i - 1]
    BY <2>1, SubSeqProperties
  <2>3. (o + z) - (o + 1) + 1 = z /\ \A i \in 1..z : (o + 1) + i - 1 = o + i
    BY <1>1
  <2> HIDE DEF s
  <2> QED BY <1>1, <2>2, <2>3
<1>4. s = cells(r)
  <2> DEFINE c == cells(r)
  <2>1. c \in Seq(Cells) /\ Len(c) = z /\ \A j \in 1..z : c[j] = <<r, j>>
    BY CellsOf DEF z
  <2>2. \A j \in 1..z : s[j] = c[j]
    BY <1>3, <2>1 DEF Holds, z
  <2> HIDE DEF s, c
  <2>3. s = c
    BY <1>3, <2>1, <2>2, SeqEqual
  <2> QED BY <2>3 DEF c
<1> QED BY <1>1, <1>2, <1>4 DEF wholeRecordAt, z

(* Two records do not end at the same offset. *)
LEMMA OffsetsGrow ==
    ASSUME NEW f, NEW L, NEW e, NEW t, NEW w, Layout(f, L, e, t, w), NEW i \in 0..Len(L), NEW j \in 0..Len(L)
    PROVE  e[i] \in Nat /\ e[j] \in Nat /\ (i < j <=> e[i] < e[j]) /\ (i = j <=> e[i] = e[j])
<1>0. Len(L) \in Nat /\ e[i] \in Nat /\ e[j] \in Nat
  BY NextRecord
<1>1. ASSUME NEW a \in 0..Len(L), NEW b \in 0..Len(L), a < b PROVE e[a] < e[b]
  <2>1. a < Len(L) /\ e[a] \in Nat /\ e[b] \in Nat
    BY <1>0, <1>1, NextRecord
  <2>2. size(L[a + 1]) \in Nat /\ size(L[a + 1]) > 2
    BY <2>1, NextRecord DEF HeaderLen
  <2>3. e[a] + size(L[a + 1]) <= e[b]
    BY <1>1 DEF Layout, Offsets
  <2> QED BY <2>1, <2>2, <2>3
<1>2. i < j => e[i] < e[j]
  BY <1>1
<1>3. j < i => e[j] < e[i]
  BY <1>1
<1>4. i < j \/ j < i \/ i = j
  BY <1>0
<1> QED BY <1>0, <1>2, <1>3, <1>4

(* Where the records of L that end in the first n cells end, no whole      *)
(* record begins.                                                          *)
LEMMA NoMoreRecords ==
    ASSUME NEW f, NEW L, NEW e, NEW t, NEW w, Layout(f, L, e, t, w),
           NEW n \in Nat, n <= Len(f), NEW K \in 0..Len(L), e[K] <= n, K < Len(L) => n < e[K + 1], e[K] < n
    PROVE  ~wholeRecordAt(f, e[K], n)
<1> SUFFICES ASSUME wholeRecordAt(f, e[K], n) PROVE FALSE
  OBVIOUS
<1> DEFINE o == e[K]
           r == f[o + 1][1]
<1>0. Len(f) \in Nat /\ Len(L) \in Nat /\ o < Len(f) /\ f \in Seq(Cells) /\ o \in Nat
  <2>1. Len(f) \in Nat /\ Len(L) \in Nat /\ o \in Nat
    BY NextRecord
  <2>2. f \in Seq(Cells)
    BY DEF Layout
  <2> QED BY <2>1, <2>2
<1>2. SubSeq(f, o + 1, o + size(r)) = cells(r) /\ o + size(r) <= n
  BY DEF wholeRecordAt
<1>3. CASE K < Len(L)
  <2>1. /\ Holds(f, o, L[K + 1], size(L[K + 1])) /\ e[K + 1] = o + size(L[K + 1])
        /\ size(L[K + 1]) \in Nat /\ size(L[K + 1]) > 2
    BY <1>3, NextRecord DEF HeaderLen
  <2>2. 1 \in 1..size(L[K + 1])
    BY <2>1
  <2>3. f[o + 1] = <<L[K + 1], 1>>
    BY <2>1, <2>2 DEF Holds
  <2>4. r = L[K + 1]
    BY <2>3
  <2>5. n < e[K + 1]
    BY <1>3
  <2>6. o + size(L[K + 1]) <= n
    BY <1>2, <2>4
  <2> HIDE DEF r, o
  <2> QED BY ONLY <1>0, <2>1, <2>5, <2>6, n \in Nat
<1>4. CASE K = Len(L)
  <2>1. /\ t \in Records /\ w \in Nat /\ 0 < w /\ w < size(t) /\ o + w <= Len(f) /\ Holds(f, o, t, w)
        /\ o + w < Len(f) => f[o + w + 1][2] = 1
    BY <1>0, <1>4 DEF Layout
  <2>2. 1 \in 1..w
    BY <2>1
  <2>3. f[o + 1] = <<t, 1>>
    BY <2>1, <2>2 DEF Holds
  <2>4. r = t
    BY <2>3
  <2> HIDE DEF r, o
  <2>5. size(t) \in Nat /\ w + 1 \in 1..size(t) /\ o + w + 1 <= n /\ o + w < Len(f)
    BY <1>0, <1>2, <2>1, <2>4, SizeType
  <2>6. SubSeq(f, o + 1, o + size(t))[w + 1] = f[o + w + 1]
    <3>1. o + 1 \in Nat /\ o + size(t) \in Nat /\ o + 1 >= 1 /\ o + size(t) <= Len(f) /\ o + 1 <= (o + size(t)) + 1
      BY <1>0, <1>2, <2>4, <2>5
    <3>2. \A i \in 1..((o + size(t)) + 1 - (o + 1)) : SubSeq(f, o + 1, o + size(t))[i] = f[(o + 1) + i - 1]
      BY <1>0, <3>1, SubSeqIs
    <3>3. w + 1 \in 1..((o + size(t)) + 1 - (o + 1)) /\ (o + 1) + (w + 1) - 1 = o + w + 1
      BY <1>0, <2>1, <2>5
    <3>4. SubSeq(f, o + 1, o + size(t))[w + 1] = f[(o + 1) + (w + 1) - 1]
      BY <3>2, <3>3
    <3> QED BY ONLY <3>3, <3>4
  <2>7. cells(t)[w + 1] = <<t, w + 1>>
    BY <2>1, <2>5, CellsOf
  <2>8. <<t, w + 1>>[2] = 1
    BY <1>2, <2>1, <2>4, <2>5, <2>6, <2>7
  <2> QED BY <2>1, <2>8
<1> QED BY <1>0, <1>3, <1>4

(* A function on 0..n that is defined at o from its value further on       *)
(* exists.                                                                 *)
IsBackward(h, n, base, J, to, step) ==
    \A o \in 0..n : h[o] = IF o \in J THEN step[<<o, h[to[o]]>>] ELSE base

LEMMA BackwardRecursion ==
    ASSUME NEW n \in Nat, NEW S, NEW base \in S, NEW J \in SUBSET (0..n),
           NEW to \in [J -> 0..n], \A o \in J : o < to[o], NEW step \in [J \X S -> S]
    PROVE  \E h \in [0..n -> S] : IsBackward(h, n, base, J, to, step)
<1> DEFINE Good(h, a) == \A o \in a..n : h[o] = IF o \in J THEN step[<<o, h[to[o]]>>] ELSE base
           A == {m \in Nat : m <= n + 1 => \E h \in [(n + 1 - m)..n -> S] : Good(h, n + 1 - m)}
<1>1. 0 \in A
  <2> DEFINE h == [o \in {} |-> base]
  <2>1. (n + 1 - 0)..n = {} /\ h \in [{} -> S]
    OBVIOUS
  <2> QED BY <2>1
<1>2. ASSUME NEW m \in A PROVE m + 1 \in A
  <2> SUFFICES ASSUME m + 1 <= n + 1
               PROVE  \E h \in [(n + 1 - (m + 1))..n -> S] : Good(h, n + 1 - (m + 1))
    OBVIOUS
  <2>1. PICK g \in [(n + 1 - m)..n -> S] : Good(g, n + 1 - m)
    OBVIOUS
  <2> DEFINE a == n - m
             v == IF a \in J THEN step[<<a, g[to[a]]>>] ELSE base
             h == [o \in a..n |-> IF o = a THEN v ELSE g[o]]
  <2>2. /\ m \in Nat /\ a \in Nat /\ a <= n /\ n + 1 - m = a + 1 /\ n + 1 - (m + 1) = a
        /\ \A o \in a..n : o = a \/ o \in (a + 1)..n
    OBVIOUS
  <2> HIDE DEF A, a
  <2>2b. g \in [(a + 1)..n -> S] /\ Good(g, a + 1)
    BY <2>1, <2>2
  <2>3. \A o \in J : o \in a..n => to[o] \in (a + 1)..n
    BY <2>2
  <2>4. v \in S
    BY <2>2b, <2>3, <2>2
  <2>5. h \in [a..n -> S]
    <3> HIDE DEF v, Good
    <3> QED BY <2>2, <2>2b, <2>4
  <2>6. ASSUME NEW o \in a..n PROVE h[o] = IF o \in J THEN step[<<o, h[to[o]]>>] ELSE base
    <3>1. o \in J => h[to[o]] = g[to[o]]
      <4>1. \A q \in (a + 1)..n : h[q] = g[q]
        <5> HIDE DEF v
        <5> QED BY <2>2
      <4> QED BY <2>3, <4>1
    <3>2. CASE o = a
      <4>1. h[o] = v
        <5> HIDE DEF v
        <5> QED BY <3>2
      <4> HIDE DEF h
      <4> QED BY <3>1, <3>2, <4>1
    <3>3. CASE o \in (a + 1)..n
      <4>1. h[o] = g[o]
        <5> HIDE DEF v
        <5> QED BY <2>2, <3>3
      <4>2. g[o] = IF o \in J THEN step[<<o, g[to[o]]>>] ELSE base
        BY <2>2b, <3>3
      <4> HIDE DEF h
      <4> QED BY <3>1, <4>1, <4>2
    <3> QED BY <2>2, <3>2, <3>3
  <2> HIDE DEF h
  <2>7. Good(h, a)
    BY <2>6
  <2> QED BY <2>2, <2>5, <2>7
<1>3. A = Nat
  <2>1. A \in SUBSET Nat
    OBVIOUS
  <2> HIDE DEF A
  <2> QED BY <1>1, <1>2, <2>1, NatSetInduction
<1>4. n + 1 \in A /\ (n + 1) - (n + 1) = 0
  <2> HIDE DEF A
  <2> QED BY <1>3
<1>5. PICK h \in [((n + 1) - (n + 1))..n -> S] : Good(h, (n + 1) - (n + 1))
  BY <1>4
<1>6. h \in [0..n -> S] /\ Good(h, 0)
  BY <1>4, <1>5
<1> QED BY <1>6 DEF IsBackward

(* recordsIn finds the records of L that end within the first n cells. *)
LEMMA RecordsFound ==
    ASSUME NEW f, NEW L, NEW e, NEW t, NEW w, Layout(f, L, e, t, w),
           NEW n \in Nat, n <= Len(f), NEW K \in 0..Len(L), e[K] <= n, K < Len(L) => n < e[K + 1]
    PROVE  recordsIn(f, n) = SubSeq(L, 1, K)
<1> DEFINE Rec(h) == h = [o \in 0..n |-> IF o < n /\ wholeRecordAt(f, o, n)
                                         THEN <<f[o + 1][1]>> \o h[o + size(f[o + 1][1])]
                                         ELSE <<>>]
           from == CHOOSE h : Rec(h)
<1>0. Len(f) \in Nat /\ Len(L) \in Nat /\ f \in Seq(Cells) /\ L \in Seq(Records) /\ K \in Nat /\ K <= Len(L) /\ e[0] = 0
  BY NextRecord DEF Layout, Offsets
<1>1. ASSUME NEW k \in 0..Len(L), k < K
      PROVE  /\ e[k] \in 0..n /\ e[k] < n /\ wholeRecordAt(f, e[k], n) /\ f[e[k] + 1][1] = L[k + 1]
             /\ e[k] + size(f[e[k] + 1][1]) = e[k + 1]
  <2>1. k < Len(L) /\ k + 1 \in 0..Len(L)
    BY <1>0, <1>1
  <2>2. /\ L[k + 1] \in Records /\ size(L[k + 1]) \in Nat /\ size(L[k + 1]) > 2
        /\ e[k + 1] = e[k] + size(L[k + 1]) /\ Holds(f, e[k], L[k + 1], size(L[k + 1])) /\ e[k] \in Nat
    BY <2>1, NextRecord DEF HeaderLen
  <2>3. e[k + 1] <= e[K] /\ e[k + 1] \in Nat /\ e[K] \in Nat
    <3>1. k + 1 < K \/ k + 1 = K
      BY <1>0, <1>1
    <3> QED BY <2>1, <3>1, OffsetsGrow
  <2>4. wholeRecordAt(f, e[k], n) /\ f[e[k] + 1][1] = L[k + 1]
    <3>1. e[k] + size(L[k + 1]) <= n
      BY <2>2, <2>3
    <3> DEFINE o == e[k]
               r == L[k + 1]
    <3>2. o \in Nat /\ r \in Records /\ o + size(r) <= n /\ Holds(f, o, r, size(r))
      BY <2>2, <3>1
    <3> HIDE DEF o, r
    <3>3. wholeRecordAt(f, o, n) /\ f[o + 1][1] = r
      BY <1>0, <3>2, WholeWhereHeld
    <3> QED BY <3>3 DEF o, r
  <2>5. e[k] \in 0..n /\ e[k] < n
    BY <2>2, <2>3
  <2> QED BY <2>2, <2>4, <2>5
<1>2. e[K] \in 0..n /\ ~(e[K] < n /\ wholeRecordAt(f, e[K], n))
  <2>1. e[K] \in Nat
    BY NextRecord
  <2> QED BY <2>1, NoMoreRecords
<1>4. \E h : Rec(h)
  <2> DEFINE J == {o \in 0..n : o < n /\ wholeRecordAt(f, o, n)}
             to == [o \in J |-> o + size(f[o + 1][1])]
             step == [x \in J \X Seq(Records) |-> <<f[x[1] + 1][1]>> \o x[2]]
  <2>1. ASSUME NEW o \in J PROVE f[o + 1][1] \in Records /\ o + size(f[o + 1][1]) \in 0..n /\ o < o + size(f[o + 1][1])
    <3>1. o + 1 \in 1..Len(f)
      BY <1>0
    <3>2. f[o + 1] \in Cells
      BY <1>0, <3>1
    <3>3. f[o + 1][1] \in Records
      BY <3>2 DEF Cells
    <3>4. size(f[o + 1][1]) \in Nat /\ size(f[o + 1][1]) > 2
      BY <3>3, SizeType DEF HeaderLen
    <3>5. o + size(f[o + 1][1]) <= n /\ o \in Nat
      BY DEF wholeRecordAt
    <3> QED BY <3>3, <3>4, <3>5
  <2>2. J \in SUBSET (0..n)
    OBVIOUS
  <2>3. ASSUME NEW o \in 0..n PROVE o \in J <=> o < n /\ wholeRecordAt(f, o, n)
    OBVIOUS
  <2> HIDE DEF J
  <2>4. to \in [J -> 0..n] /\ \A o \in J : o < to[o] /\ to[o] = o + size(f[o + 1][1])
    BY <2>1
  <2>5. step \in [J \X Seq(Records) -> Seq(Records)]
    <3>1. ASSUME NEW x \in J \X Seq(Records) PROVE <<f[x[1] + 1][1]>> \o x[2] \in Seq(Records)
      <4>1. x[1] \in J /\ x[2] \in Seq(Records)
        OBVIOUS
      <4>2. f[x[1] + 1][1] \in Records
        BY <2>1, <4>1
      <4>3. <<f[x[1] + 1][1]>> \in Seq(Records)
        BY <4>2
      <4> QED BY <4>1, <4>3
    <3> QED BY <3>1
  <2>6. ASSUME NEW o \in J, NEW q \in Seq(Records) PROVE step[<<o, q>>] = <<f[o + 1][1]>> \o q
    OBVIOUS
  <2>7. <<>> \in Seq(Records)
    OBVIOUS
  <2> HIDE DEF to, step
  <2>8. PICK h \in [0..n -> Seq(Records)] :
             \A o \in 0..n : h[o] = IF o \in J THEN step[<<o, h[to[o]]>>] ELSE <<>>
    <3> DEFINE S == Seq(Records)
               base == <<>>
    <3>1. base \in S /\ step \in [J \X S -> S] /\ (\A o \in J : o < to[o]) /\ to \in [J -> 0..n]
      BY <2>4, <2>5, <2>7
    <3> HIDE DEF S, base
    <3>2. \E h \in [0..n -> S] : IsBackward(h, n, base, J, to, step)
      BY ONLY <2>2, <3>1, BackwardRecursion, n \in Nat
    <3> QED BY <3>2 DEF S, base, IsBackward
  <2>9. ASSUME NEW o \in 0..n
        PROVE  h[o] = IF o < n /\ wholeRecordAt(f, o, n)
                      THEN <<f[o + 1][1]>> \o h[o + size(f[o + 1][1])]
                      ELSE <<>>
    <3>1. CASE o \in J
      <4>1. to[o] = o + size(f[o + 1][1]) /\ to[o] \in 0..n
        BY <2>4, <3>1
      <4>2. h[to[o]] \in Seq(Records)
        BY <4>1
      <4>3. h[o] = <<f[o + 1][1]>> \o h[to[o]]
        BY <2>6, <2>8, <3>1, <4>2
      <4> QED BY <2>3, <3>1, <4>1, <4>3
    <3>2. CASE o \notin J
      BY <2>3, <2>8, <3>2
    <3> QED BY <3>1, <3>2
  <2>10. h = [o \in 0..n |-> h[o]]
    OBVIOUS
  <2>11. Rec(h)
    BY <2>9, <2>10
  <2> QED BY <2>11
<1>5. recordsIn(f, n) = from[0]
  BY DEF recordsIn
<1>6. Rec(from)
  BY <1>4
<1> HIDE DEF from
<1> DEFINE S == {m \in Nat : m <= K => from[e[K - m]] = SubSeq(L, (K - m) + 1, K)}
<1>7. 0 \in S
  <2>3. from[e[K]] = <<>>
    BY <1>2, <1>6
  <2>4. SubSeq(L, K + 1, K) = <<>>
    BY <1>0, SubSeqEmptyWhole
  <2>5. K - 0 = K
    BY <1>0
  <2> QED BY <2>3, <2>4, <2>5
<1>8. ASSUME NEW m \in S PROVE m + 1 \in S
  <2> SUFFICES ASSUME m + 1 <= K PROVE from[e[K - (m + 1)]] = SubSeq(L, (K - (m + 1)) + 1, K)
    OBVIOUS
  <2> DEFINE k == K - (m + 1)
  <2>1. m \in Nat /\ k \in 0..Len(L) /\ k < K /\ K - m = k + 1 /\ (K - m) + 1 = k + 2 /\ k + 1 \in 0..Len(L)
    BY <1>0
  <2>2. from[e[k + 1]] = SubSeq(L, k + 2, K)
    BY <1>0, <2>1
  <2> HIDE DEF k, S
  <2>3. /\ e[k] \in 0..n /\ e[k] < n /\ wholeRecordAt(f, e[k], n) /\ f[e[k] + 1][1] = L[k + 1]
        /\ e[k] + size(f[e[k] + 1][1]) = e[k + 1]
    BY <1>1, <2>1
  <2>4. from[e[k]] = <<L[k + 1]>> \o from[e[k + 1]]
    BY <1>6, <2>3
  <2>5. SubSeq(L, k + 1, K) = <<L[k + 1]>> \o SubSeq(L, k + 2, K)
    BY <1>0, <2>1, SubSeqHead
  <2> QED BY <2>2, <2>4, <2>5 DEF k
<1>9. S = Nat
  <2>1. S \in SUBSET Nat
    OBVIOUS
  <2> HIDE DEF S
  <2> QED BY <1>7, <1>8, <2>1, NatSetInduction
<1>10. from[e[K - K]] = SubSeq(L, (K - K) + 1, K)
  <2>1. K \in S
    BY <1>0, <1>9
  <2> QED BY <1>0, <2>1
<1>11. K - K = 0 /\ 0 + 1 = 1
  BY <1>0
<1> QED BY <1>0, <1>5, <1>10, <1>11

(* What the abstract store sees of a file: its log, and how many records   *)
(* of it lie within the first n cells.                                     *)
LEMMA LogAndSure ==
    ASSUME NEW f, NEW L, NEW e, NEW t, NEW w, Layout(f, L, e, t, w), NEW n \in Nat, n <= Len(f)
    PROVE  /\ recordsIn(f, Len(f)) = L
           /\ \E K \in 0..Len(L) : /\ e[K] <= n /\ (K < Len(L) => n < e[K + 1])
                                   /\ Len(recordsIn(f, n)) = K
<1>0. Len(f) \in Nat /\ Len(L) \in Nat /\ L \in Seq(Records) /\ Len(L) \in 0..Len(L) /\ e[Len(L)] <= Len(f)
  BY NextRecord DEF Layout
<1>1. recordsIn(f, Len(f)) = SubSeq(L, 1, Len(L))
  BY <1>0, RecordsFound
<1>2. SubSeq(L, 1, Len(L)) = L
  BY <1>0, SubSeqEmptyWhole
<1>3. PICK K \in 0..Len(L) : e[K] <= n /\ (K < Len(L) => n < e[K + 1])
  BY LastBefore DEF Layout
<1>4. recordsIn(f, n) = SubSeq(L, 1, K)
  BY <1>3, RecordsFound
<1>5. Len(SubSeq(L, 1, K)) = K
  <2>1. Len(SubSeq(L, 1, K)) = K + 1 - 1
    BY <1>0, SubSeqIs
  <2> QED BY <1>0, <2>1
<1> QED BY <1>1, <1>2, <1>3, <1>4, <1>5

-----------------------------------------------------------------------------
(* How the file changes *)

(* The first n cells: the records that end in them, and what is left of    *)
(* the record that is cut.                                                 *)
CutTo(f, L, e, w, g, M, d) ==
    \E u, v : Layout(g, M, d, u, v) /\ (NothingBehind(f, L, e, w) => NothingBehind(g, M, d, v))

CutOf(f, L, e, n, K, g, M, d) ==
    /\ n \in Nat /\ n <= Len(f) /\ K \in 0..Len(L) /\ e[K] <= n /\ (K < Len(L) => n < e[K + 1])
    /\ g = SubSeq(f, 1, n) /\ M = SubSeq(L, 1, K) /\ d \in [0..K -> Nat] /\ \A i \in 0..K : d[i] = e[i]

LEMMA LayoutCut ==
    ASSUME NEW f, NEW L, NEW e, NEW t, NEW w, Layout(f, L, e, t, w),
           NEW n, NEW K, NEW g, NEW M, NEW d, CutOf(f, L, e, n, K, g, M, d)
    PROVE  /\ M \in Seq(Records) /\ Len(M) = K
           /\ \A i \in 1..K : M[i] = L[i]
           /\ Len(g) = n
           /\ CutTo(f, L, e, w, g, M, d)
<1>c. /\ n \in Nat /\ n <= Len(f) /\ K \in 0..Len(L) /\ e[K] <= n /\ (K < Len(L) => n < e[K + 1])
      /\ g = SubSeq(f, 1, n) /\ M = SubSeq(L, 1, K) /\ d \in [0..K -> Nat] /\ \A i \in 0..K : d[i] = e[i]
  BY DEF CutOf
<1> USE <1>c
<1> DEFINE u == IF K < Len(L) THEN L[K + 1] ELSE t
           v == IF K < Len(L) \/ n - e[K] < w THEN n - e[K] ELSE w
<1>0. /\ Len(f) \in Nat /\ Len(L) \in Nat /\ f \in Seq(Cells) /\ L \in Seq(Records) /\ K \in Nat /\ K <= Len(L)
      /\ \A i \in 0..Len(L) : e[i] \in Nat
  <2>1. Len(f) \in Nat /\ Len(L) \in Nat /\ f \in Seq(Cells) /\ L \in Seq(Records)
    BY DEF Layout
  <2>2. \A i \in 0..Len(L) : e[i] \in Nat
    BY DEF Layout, Offsets
  <2> QED BY <2>1, <2>2
<1>1. g \in Seq(Cells) /\ Len(g) = n /\ \A i \in 1..n : g[i] = f[i]
  <2>1. g \in Seq(Cells) /\ Len(g) = n + 1 - 1 /\ \A i \in 1..(n + 1 - 1) : g[i] = f[1 + i - 1]
    BY <1>0, SubSeqIs
  <2> QED BY <2>1
<1>2. M \in Seq(Records) /\ Len(M) = K /\ \A i \in 1..K : M[i] = L[i]
  <2>1. M \in Seq(Records) /\ Len(M) = K + 1 - 1 /\ \A i \in 1..(K + 1 - 1) : M[i] = L[1 + i - 1]
    BY <1>0, SubSeqIs
  <2> QED BY ONLY <1>0, <2>1
<1>3. d \in [0..K -> Nat] /\ \A i \in 0..K : d[i] = e[i] /\ i \in 0..Len(L)
  BY <1>0
<1>4. Offsets(M, d)
  <2>1. d[0] = 0
    BY <1>0, <1>3 DEF Layout, Offsets
  <2>2. ASSUME NEW i \in 1..K PROVE d[i] = d[i - 1] + size(M[i])
    <3>1. i \in 1..Len(L) /\ i \in 0..K /\ i - 1 \in 0..K
      BY <1>0
    <3>2. e[i] = e[i - 1] + size(L[i])
      BY <3>1 DEF Layout, Offsets
    <3> QED BY <1>2, <1>3, <3>1, <3>2
  <2>3. ASSUME NEW i \in 0..K, NEW j \in 0..K, i < j PROVE d[i] + size(M[i + 1]) <= d[j]
    <3>1. i \in 0..Len(L) /\ j \in 0..Len(L) /\ i + 1 \in 1..K
      BY <1>0, <2>3
    <3>2. e[i] + size(L[i + 1]) <= e[j]
      BY <2>3, <3>1 DEF Layout, Offsets
    <3> QED BY <1>2, <1>3, <3>1, <3>2
  <2> QED BY <1>2, <1>3, <2>1, <2>2, <2>3 DEF Offsets
<1>5. d[K] = e[K] /\ e[K] <= n /\ K \in 0..K /\ e[K] \in Nat
  BY <1>0, <1>3
<1>6. ASSUME NEW i \in 1..K PROVE Holds(g, d[i - 1], M[i], size(M[i]))
  <2>1. i \in 1..Len(L) /\ i - 1 \in 0..K /\ i - 1 \in 0..Len(L) /\ i \in 0..Len(L) /\ (i - 1) + 1 = i
    BY <1>0
  <2>2. /\ Holds(f, e[i - 1], L[i], size(L[i])) /\ e[i] = e[i - 1] + size(L[i]) /\ size(L[i]) \in Nat
        /\ e[i - 1] \in Nat /\ e[i] \in Nat
    <3>1. i - 1 < Len(L)
      BY <1>0, <2>1
    <3> QED BY <2>1, <3>1, NextRecord
  <2>3. e[i] <= e[K]
    <3>1. i < K \/ i = K
      BY <1>0
    <3> QED BY <1>5, <2>1, <3>1, OffsetsGrow
  <2>4. ASSUME NEW j \in 1..size(L[i]) PROVE g[e[i - 1] + j] = <<L[i], j>>
    <3>1. e[i - 1] + j \in 1..n
      BY ONLY <1>5, <2>2, <2>3, j \in 1..size(L[i]), n \in Nat
    <3> QED BY <1>1, <2>2, <3>1 DEF Holds
  <2> QED BY <1>2, <1>3, <2>1, <2>4 DEF Holds
<1>7. ASSUME e[K] < n
      PROVE  /\ u \in Records /\ v \in Nat /\ 0 < v /\ v < size(u) /\ e[K] + v <= n /\ Holds(g, e[K], u, v)
             /\ e[K] + v < n => g[e[K] + v + 1][2] = 1
             /\ NothingBehind(f, L, e, w) => n = e[K] + v
  <2>1. CASE K < Len(L)
    <3>1. /\ u = L[K + 1] /\ v = n - e[K] /\ L[K + 1] \in Records /\ size(L[K + 1]) \in Nat
          /\ e[K + 1] = e[K] + size(L[K + 1])
          /\ Holds(f, e[K], L[K + 1], size(L[K + 1]))
      BY <2>1, NextRecord
    <3>2. n < e[K + 1]
      BY <2>1
    <3> HIDE DEF u, v
    <3>3. v \in Nat /\ 0 < v /\ v < size(u) /\ e[K] + v = n
      BY <1>0, <1>5, <1>7, <3>1, <3>2
    <3>4. ASSUME NEW j \in 1..v PROVE g[e[K] + j] = <<u, j>>
      <4>1. e[K] + j \in 1..n /\ j \in 1..size(L[K + 1])
        BY ONLY <1>5, <3>1, <3>3, j \in 1..v, n \in Nat
      <4> QED BY <1>1, <3>1, <4>1 DEF Holds
    <3>5. Holds(g, e[K], u, v) /\ u \in Records
      BY <3>1, <3>4 DEF Holds
    <3> QED BY ONLY <1>5, <3>3, <3>5, n \in Nat
  <2>2. CASE K = Len(L)
    <3>1. u = t /\ e[Len(L)] < Len(f) /\ e[K] = e[Len(L)] /\ v = IF n - e[K] < w THEN n - e[K] ELSE w
      BY <1>0, <1>5, <1>7, <2>2
    <3>2. /\ t \in Records /\ w \in Nat /\ 0 < w /\ w < size(t) /\ e[K] + w <= Len(f) /\ Holds(f, e[K], t, w)
          /\ e[K] + w < Len(f) => f[e[K] + w + 1][2] = 1
      BY <2>2, <3>1 DEF Layout
    <3>3. size(t) \in Nat
      BY <3>2, SizeType
    <3> HIDE DEF u, v
    <3>4. v \in Nat /\ 0 < v /\ v < size(t) /\ e[K] + v <= n /\ v <= w /\ (e[K] + v < n => v = w)
      BY <1>0, <1>5, <1>7, <3>1, <3>2, <3>3
    <3>5. ASSUME NEW j \in 1..v PROVE g[e[K] + j] = <<t, j>>
      <4>1. e[K] + j \in 1..n /\ j \in 1..w
        BY <1>0, <1>5, <3>2, <3>4
      <4> QED BY <1>1, <3>2, <4>1 DEF Holds
    <3>6. ASSUME e[K] + v < n PROVE g[e[K] + v + 1][2] = 1
      <4>1. v = w /\ e[K] + w < Len(f) /\ e[K] + w + 1 \in 1..n
        BY <1>0, <1>5, <3>2, <3>4, <3>6
      <4> QED BY <1>1, <3>2, <4>1
    <3>7. ASSUME NothingBehind(f, L, e, w) PROVE n = e[K] + v
      <4>1. Len(f) = e[K] + w
        BY <1>0, <1>5, <3>1, <3>7 DEF NothingBehind
      <4>2. n <= e[K] + w
        BY <4>1
      <4> QED BY ONLY <1>5, <3>2, <3>4, <4>2, n \in Nat
    <3> QED BY <3>1, <3>2, <3>4, <3>5, <3>6, <3>7 DEF Holds
  <2> QED BY <1>0, <2>1, <2>2
<1> HIDE DEF u, v
<1>8. Layout(g, M, d, u, v)
  BY <1>1, <1>2, <1>4, <1>5, <1>6, <1>7 DEF Layout
<1>9. NothingBehind(f, L, e, w) => NothingBehind(g, M, d, v)
  BY <1>1, <1>2, <1>5, <1>7 DEF NothingBehind
<1> QED BY <1>1, <1>2, <1>8, <1>9 DEF CutTo

(* One more cell of record r, of which w are there. *)
LEMMA LayoutTypes ==
    ASSUME NEW f, NEW L, NEW e, NEW t, NEW w, Layout(f, L, e, t, w)
    PROVE  /\ Len(f) \in Nat /\ Len(L) \in Nat /\ f \in Seq(Cells) /\ L \in Seq(Records)
           /\ Len(L) \in 0..Len(L) /\ e[Len(L)] \in Nat /\ e[Len(L)] <= Len(f)
           /\ \A i \in 0..Len(L) : e[i] \in Nat
<1>1. Len(f) \in Nat /\ Len(L) \in Nat /\ f \in Seq(Cells) /\ L \in Seq(Records) /\ e[Len(L)] <= Len(f)
  BY DEF Layout
<1>2. \A i \in 0..Len(L) : e[i] \in Nat
  BY DEF Layout, Offsets
<1> QED BY <1>1, <1>2

LEMMA LayoutCell ==
    ASSUME NEW f, NEW L, NEW e, NEW t, NEW w, Layout(f, L, e, t, w),
           NEW r \in Records, NEW m \in Nat, m < size(r), Len(f) = e[Len(L)] + m, m > 0 => t = r /\ w = m
    PROVE  /\ Append(f, <<r, m + 1>>) \in Seq(Cells) /\ Len(Append(f, <<r, m + 1>>)) = Len(f) + 1
           /\ \A i \in 1..Len(L) : Holds(Append(f, <<r, m + 1>>), e[i - 1], L[i], size(L[i]))
           /\ Holds(Append(f, <<r, m + 1>>), e[Len(L)], r, m + 1)
<1> DEFINE c == <<r, m + 1>>
           g == Append(f, c)
<1>0. Len(f) \in Nat /\ Len(L) \in Nat /\ f \in Seq(Cells) /\ e[Len(L)] \in Nat /\ c \in Cells
  <2>1. c \in Cells
    BY DEF Cells
  <2> QED BY <2>1, LayoutTypes
<1> HIDE DEF c
<1>1. g \in Seq(Cells) /\ Len(g) = Len(f) + 1 /\ g[Len(f) + 1] = c /\ \A i \in 1..Len(f) : g[i] = f[i]
  BY <1>0
<1> HIDE DEF g
<1>2. ASSUME NEW i \in 1..Len(L) PROVE Holds(g, e[i - 1], L[i], size(L[i]))
  <2>1. i - 1 \in 0..Len(L) /\ i - 1 < Len(L) /\ (i - 1) + 1 = i
    BY <1>0
  <2>2. /\ Holds(f, e[i - 1], L[i], size(L[i])) /\ e[i] = e[i - 1] + size(L[i]) /\ size(L[i]) \in Nat
        /\ e[i - 1] \in Nat /\ e[i] <= e[Len(L)] /\ e[Len(L)] <= Len(f)
    BY <2>1, NextRecord
  <2>3. ASSUME NEW j \in 1..size(L[i]) PROVE g[e[i - 1] + j] = <<L[i], j>>
    <3>1. e[i - 1] + j \in 1..Len(f)
      BY <1>0, <2>2
    <3> QED BY <1>1, <2>2, <3>1 DEF Holds
  <2> QED BY <2>3 DEF Holds
<1>3. ASSUME NEW j \in 1..(m + 1) PROVE g[e[Len(L)] + j] = <<r, j>>
  <2>1. CASE j = m + 1
    <3>1. e[Len(L)] + j = Len(f) + 1
      BY <1>0, <2>1
    <3> QED BY <1>1, <2>1, <3>1 DEF c
  <2>2. CASE j < m + 1
    <3>1. e[Len(L)] + j \in 1..Len(f) /\ j \in 1..m /\ e[Len(L)] < Len(f) /\ m > 0
      BY <1>0, <2>2
    <3>2. f[e[Len(L)] + j] = <<t, j>>
      BY <3>1 DEF Layout, Holds
    <3> QED BY <1>1, <3>1, <3>2
  <2> QED BY <2>1, <2>2
<1> QED BY <1>1, <1>2, <1>3 DEF Holds, g, c

LEMMA LayoutWrite ==
    ASSUME NEW f, NEW L, NEW e, NEW t, NEW w, Layout(f, L, e, t, w),
           NEW r \in Records, NEW m \in Nat, m + 1 < size(r), Len(f) = e[Len(L)] + m, m > 0 => t = r /\ w = m
    PROVE  Layout(Append(f, <<r, m + 1>>), L, e, r, m + 1)
<1> DEFINE g == Append(f, <<r, m + 1>>)
<1>0. Len(f) \in Nat /\ e[Len(L)] \in Nat /\ size(r) \in Nat /\ m < size(r)
  BY LayoutTypes, SizeType
<1>1. /\ g \in Seq(Cells) /\ Len(g) = Len(f) + 1
      /\ \A i \in 1..Len(L) : Holds(g, e[i - 1], L[i], size(L[i]))
  BY <1>0, LayoutCell
<1>2. Holds(g, e[Len(L)], r, m + 1)
  BY <1>0, LayoutCell
<1> HIDE DEF g
<1>3. Len(g) - e[Len(L)] = m + 1 /\ e[Len(L)] <= Len(g)
  BY <1>0, <1>1
<1>4. Layout(g, L, e, r, m + 1)
  BY <1>0, <1>1, <1>2, <1>3 DEF Layout
<1> QED BY <1>4 DEF g

(* The last cell of record r: the log has one more record. *)
LEMMA LayoutDone ==
    ASSUME NEW f, NEW L, NEW e, NEW t, NEW w, Layout(f, L, e, t, w),
           NEW r \in Records, NEW m \in Nat, m + 1 = size(r), Len(f) = e[Len(L)] + m, m > 0 => t = r /\ w = m
    PROVE  /\ Append(L, r) \in Seq(Records) /\ Len(Append(L, r)) = Len(L) + 1 /\ Append(L, r)[Len(L) + 1] = r
           /\ \A i \in 1..Len(L) : Append(L, r)[i] = L[i]
           /\ Layout(Append(f, <<r, m + 1>>), Append(L, r),
                     [i \in 0..(Len(L) + 1) |-> IF i <= Len(L) THEN e[i] ELSE Len(f) + 1], t, w)
<1> DEFINE g == Append(f, <<r, m + 1>>)
           M == Append(L, r)
           N == Len(L)
           d == [i \in 0..(N + 1) |-> IF i <= N THEN e[i] ELSE Len(f) + 1]
<1>0. /\ Len(f) \in Nat /\ e[N] \in Nat /\ size(r) \in Nat /\ m < size(r) /\ N \in Nat /\ L \in Seq(Records)
      /\ e[N] + size(r) = Len(f) + 1
  <2>1. Len(f) \in Nat /\ e[N] \in Nat /\ N \in Nat /\ L \in Seq(Records)
    BY LayoutTypes
  <2>2. size(r) \in Nat
    BY SizeType
  <2>3. Len(f) = e[N] + m /\ m + 1 = size(r) /\ m \in Nat
    OBVIOUS
  <2>4. m < size(r) /\ e[N] + size(r) = Len(f) + 1
    BY ONLY <2>1, <2>2, <2>3
  <2> QED BY <2>1, <2>2, <2>4
<1>1. /\ g \in Seq(Cells) /\ Len(g) = Len(f) + 1
      /\ \A i \in 1..Len(L) : Holds(g, e[i - 1], L[i], size(L[i]))
      /\ Holds(g, e[Len(L)], r, m + 1)
  BY <1>0, LayoutCell
<1>2. Holds(g, e[N], r, size(r)) /\ \A i \in 1..N : Holds(g, e[i - 1], L[i], size(L[i]))
  BY <1>0, <1>1
<1>3. M \in Seq(Records) /\ Len(M) = N + 1 /\ M[N + 1] = r /\ \A i \in 1..N : M[i] = L[i]
  BY <1>0
<1>4. \A i \in 0..N : e[i] \in Nat
  BY DEF Layout, Offsets
<1> HIDE DEF g, M, N
<1>5. d \in [0..(N + 1) -> Nat] /\ (\A i \in 0..N : d[i] = e[i]) /\ d[N + 1] = Len(f) + 1
  BY <1>0, <1>4
<1> HIDE DEF d
<1>6. Offsets(M, d)
  <2>1. d[0] = 0
    BY <1>0, <1>5 DEF Layout, Offsets
  <2>2. ASSUME NEW i \in 1..(N + 1) PROVE d[i] = d[i - 1] + size(M[i])
    <3>1. CASE i <= N
      <4>1. i \in 1..N /\ i \in 0..N /\ i - 1 \in 0..N
        BY <1>0, <3>1
      <4>2. e[i] = e[i - 1] + size(L[i])
        BY <4>1 DEF Layout, Offsets, N
      <4> QED BY <1>3, <1>5, <4>1, <4>2
    <3>2. CASE i = N + 1
      <4>1. i - 1 = N /\ N \in 0..N
        BY <1>0, <3>2
      <4> QED BY <1>0, <1>3, <1>5, <3>2, <4>1
    <3> QED BY <1>0, <3>1, <3>2
  <2>3. ASSUME NEW i \in 0..(N + 1), NEW j \in 0..(N + 1), i < j PROVE d[i] + size(M[i + 1]) <= d[j]
    <3>1. i \in 0..N
      BY <1>0, <2>3
    <3>2. CASE j <= N
      <4>1. j \in 0..N /\ i + 1 \in 1..N
        BY <1>0, <2>3, <3>2
      <4>2. e[i] + size(L[i + 1]) <= e[j]
        BY <2>3, <3>1, <4>1 DEF Layout, Offsets, N
      <4> QED BY <1>3, <1>5, <3>1, <4>1, <4>2
    <3>3. CASE j = N + 1 /\ i = N
      BY <1>0, <1>3, <1>5, <3>1, <3>3
    <3>4. CASE j = N + 1 /\ i < N
      <4>1. i + 1 \in 1..N /\ N \in 0..N
        BY <1>0, <3>1, <3>4
      <4>2. e[i] + size(L[i + 1]) <= e[N]
        BY <3>1, <3>4, <4>1 DEF Layout, Offsets, N
      <4>3. size(L[i + 1]) \in Nat /\ e[i] \in Nat
        <5>1. L[i + 1] \in Records
          BY <1>0, <4>1 DEF N
        <5> QED BY <1>4, <3>1, <5>1, SizeType
      <4>4. d[j] = Len(f) + 1 /\ d[i] = e[i] /\ M[i + 1] = L[i + 1]
        BY <1>3, <1>5, <3>1, <3>4, <4>1
      <4> QED BY <1>0, <4>2, <4>3, <4>4
    <3> QED BY <1>0, <3>1, <3>2, <3>3, <3>4
  <2> QED BY <1>3, <1>5, <2>1, <2>2, <2>3 DEF Offsets
<1>7. ASSUME NEW i \in 1..(N + 1) PROVE Holds(g, d[i - 1], M[i], size(M[i]))
  <2>1. i - 1 \in 0..N /\ d[i - 1] = e[i - 1]
    BY <1>0, <1>5
  <2>2. CASE i \in 1..N
    BY <1>2, <1>3, <2>1, <2>2
  <2>3. CASE i = N + 1
    <3>1. i - 1 = N
      BY <1>0, <2>3
    <3> QED BY <1>2, <1>3, <2>1, <2>3, <3>1
  <2> QED BY <1>0, <2>2, <2>3
<1>8. Layout(g, M, d, t, w)
  <2>1. d[Len(M)] = Len(g) /\ Len(g) \in Nat
    BY <1>0, <1>1, <1>3, <1>5
  <2> QED BY <1>1, <1>3, <1>6, <1>7, <2>1 DEF Layout
<1> QED BY <1>3, <1>8 DEF g, M, d, N

(* A cell behind a half-written record, the first one a header. *)
LEMMA LayoutBehind ==
    ASSUME NEW f, NEW L, NEW e, NEW t, NEW w, Layout(f, L, e, t, w), e[Len(L)] < Len(f),
           NEW c \in Cells, Len(f) = e[Len(L)] + w => c[2] = 1
    PROVE  Layout(Append(f, c), L, e, t, w) /\ Len(Append(f, c)) = Len(f) + 1
<1> DEFINE g == Append(f, c)
           N == Len(L)
<1>0. Len(f) \in Nat /\ N \in Nat /\ f \in Seq(Cells) /\ L \in Seq(Records) /\ e[N] \in Nat
  BY LayoutTypes
<1>1. g \in Seq(Cells) /\ Len(g) = Len(f) + 1 /\ g[Len(f) + 1] = c /\ \A i \in 1..Len(f) : g[i] = f[i]
  BY <1>0
<1> HIDE DEF g
<1>2. ASSUME NEW i \in 1..N PROVE Holds(g, e[i - 1], L[i], size(L[i]))
  <2>1. i - 1 \in 0..Len(L) /\ i - 1 < Len(L) /\ (i - 1) + 1 = i
    BY <1>0
  <2>2. /\ Holds(f, e[i - 1], L[i], size(L[i])) /\ e[i] = e[i - 1] + size(L[i]) /\ size(L[i]) \in Nat
        /\ e[i - 1] \in Nat /\ e[i] <= e[Len(L)] /\ e[Len(L)] <= Len(f)
    BY <2>1, NextRecord
  <2>3. ASSUME NEW j \in 1..size(L[i]) PROVE g[e[i - 1] + j] = <<L[i], j>>
    <3>1. e[i - 1] + j \in 1..Len(f)
      BY <1>0, <2>2
    <3> QED BY <1>1, <2>2, <3>1 DEF Holds
  <2> QED BY <2>3 DEF Holds
<1>3. /\ t \in Records /\ w \in Nat /\ 0 < w /\ w < size(t) /\ e[N] + w <= Len(f) /\ Holds(f, e[N], t, w)
      /\ e[N] + w < Len(f) => f[e[N] + w + 1][2] = 1
  BY DEF Layout
<1>4. Holds(g, e[N], t, w)
  <2>1. ASSUME NEW j \in 1..w PROVE g[e[N] + j] = <<t, j>>
    <3>1. e[N] + j \in 1..Len(f)
      BY <1>0, <1>3
    <3> QED BY <1>1, <1>3, <3>1 DEF Holds
  <2> QED BY <2>1 DEF Holds
<1>5. g[e[N] + w + 1][2] = 1
  <2>1. CASE e[N] + w < Len(f)
    <3>1. e[N] + w + 1 \in 1..Len(f)
      BY <1>0, <1>3, <2>1
    <3> QED BY <1>1, <1>3, <2>1, <3>1
  <2>2. CASE e[N] + w = Len(f)
    <3>1. e[N] + w + 1 = Len(f) + 1 /\ c[2] = 1
      BY <2>2
    <3> QED BY <1>1, <3>1
  <2> QED BY <1>0, <1>3, <2>1, <2>2
<1>6. Offsets(L, e) /\ e[N] <= Len(g) /\ e[N] + w <= Len(g)
  BY <1>0, <1>1, <1>3 DEF Layout
<1>7. Layout(g, L, e, t, w)
  BY <1>0, <1>1, <1>2, <1>3, <1>4, <1>5, <1>6 DEF Layout
<1> QED BY <1>1, <1>7 DEF g

-----------------------------------------------------------------------------
(* What a start makes of the log *)

Stores == [blocks : SUBSET Hashes, tip : Hashes \cup {NoHash}, checkpoints : SUBSET Hashes]

LEMMA ApplyType ==
    ASSUME NEW s \in Stores, NEW r \in Records
    PROVE  apply(s, r) \in Stores
BY DEF Stores, Records, Types, apply

After(s) == CHOOSE f : f = [n \in 0..Len(s) |-> IF n = 0 THEN EmptyStore ELSE apply(f[n - 1], s[n])]

LEMMA AfterEquation ==
    ASSUME NEW s \in Seq(Records)
    PROVE  /\ Abstract!replayed(s) = After(s)[Len(s)]
           /\ After(s)[0] = EmptyStore
           /\ \A i \in 1..Len(s) : After(s)[i] = apply(After(s)[i - 1], s[i])
<1> DEFINE N == Len(s)
           Rec(f) == f = [n \in 0..N |-> IF n = 0 THEN EmptyStore ELSE apply(f[n - 1], s[n])]
           step == [x \in (1..N) \X Stores |-> apply(x[2], s[x[1]])]
<1>0. N \in Nat /\ (\A i \in 1..N : s[i] \in Records) /\ EmptyStore \in Stores
  BY DEF EmptyStore, Stores
<1>1. step \in [(1..N) \X Stores -> Stores]
  BY <1>0, ApplyType
<1>2. PICK f \in [0..N -> Stores] : IsRecursion(f, N, EmptyStore, step)
  <2> HIDE DEF step, N
  <2> QED BY <1>0, <1>1, RecursionExists
<1>3. ASSUME NEW i \in 0..N, i # 0 PROVE f[i] = apply(f[i - 1], s[i])
  <2>1. i \in 1..N /\ f[i - 1] \in Stores
    BY <1>0, <1>3
  <2>2. f[i] = step[<<i, f[i - 1]>>]
    BY <1>2, <1>3 DEF IsRecursion
  <2>3. <<i, f[i - 1]>> \in (1..N) \X Stores
    BY <2>1
  <2> QED BY <2>2, <2>3
<1>4. f[0] = EmptyStore /\ f = [i \in 0..N |-> f[i]]
  BY <1>0, <1>2 DEF IsRecursion
<1>5. Rec(f)
  BY <1>3, <1>4
<1>6. Rec(After(s))
  BY <1>5 DEF After
<1>7. Abstract!replayed(s) = After(s)[N]
  BY DEF Abstract!replayed, After
<1> DEFINE t == After(s)
<1>8. Rec(t)
  BY <1>6
<1> HIDE DEF t, N
<1>9. t[0] = EmptyStore /\ \A i \in 1..N : t[i] = apply(t[i - 1], s[i])
  BY <1>0, <1>8
<1> QED BY <1>7, <1>9 DEF t, N

LEMMA ReplayedNothing == Abstract!replayed(<<>>) = EmptyStore
<1>1. <<>> \in Seq(Records) /\ Len(<<>>) = 0
  OBVIOUS
<1> QED BY <1>1, AfterEquation

LEMMA ReplayedAppend ==
    ASSUME NEW s \in Seq(Records), NEW r \in Records
    PROVE  Abstract!replayed(Append(s, r)) = apply(Abstract!replayed(s), r)
<1> DEFINE q == Append(s, r)
           N == Len(s)
           S == {n \in Nat : n <= N => After(q)[n] = After(s)[n]}
<1>1. N \in Nat /\ q \in Seq(Records) /\ Len(q) = N + 1 /\ q[N + 1] = r /\ \A i \in 1..N : q[i] = s[i]
  OBVIOUS
<1> HIDE DEF q, N
<1>2. /\ Abstract!replayed(s) = After(s)[N] /\ After(s)[0] = EmptyStore
      /\ \A i \in 1..N : After(s)[i] = apply(After(s)[i - 1], s[i])
  BY AfterEquation DEF N
<1>3. /\ Abstract!replayed(q) = After(q)[N + 1] /\ After(q)[0] = EmptyStore
      /\ \A i \in 1..(N + 1) : After(q)[i] = apply(After(q)[i - 1], q[i])
  BY <1>1, AfterEquation
<1>4. 0 \in S
  BY <1>2, <1>3
<1>5. ASSUME NEW n \in S PROVE n + 1 \in S
  <2> SUFFICES ASSUME n + 1 <= N PROVE After(q)[n + 1] = After(s)[n + 1]
    OBVIOUS
  <2>1. n + 1 \in 1..N /\ n + 1 \in 1..(N + 1) /\ (n + 1) - 1 = n /\ n <= N
    BY <1>1
  <2>2. After(s)[n + 1] = apply(After(s)[n], s[n + 1]) /\ After(q)[n + 1] = apply(After(q)[n], q[n + 1])
    BY <1>2, <1>3, <2>1
  <2> QED BY <1>1, <2>1, <2>2
<1>6. S = Nat
  <2>1. S \in SUBSET Nat
    OBVIOUS
  <2> HIDE DEF S
  <2> QED BY <1>4, <1>5, <2>1, NatSetInduction
<1>7. After(q)[N] = After(s)[N]
  BY <1>1, <1>6
<1>8. After(q)[N + 1] = apply(After(q)[N], r)
  <2>1. N + 1 \in 1..(N + 1) /\ (N + 1) - 1 = N
    BY <1>1
  <2> QED BY <1>1, <1>3, <2>1
<1> QED BY <1>2, <1>3, <1>7, <1>8 DEF q

-----------------------------------------------------------------------------
(* The acknowledged records a lie in the log L in order, all of them       *)
(* within the first s cells.                                               *)
Kept(a, L, e, s) ==
    /\ a \in Seq(Records)
    /\ \E at \in [1..Len(a) -> 1..Len(L)] :
           /\ \A i \in 1..Len(a) : a[i] = L[at[i]] /\ e[at[i]] <= s
           /\ \A i, j \in 1..Len(a) : i < j => at[i] < at[j]

(* They stay when the log changes behind the first s cells. *)
LEMMA KeptIn ==
    ASSUME NEW a, NEW L, NEW e, NEW s, Kept(a, L, e, s),
           NEW M, NEW d, NEW u, Len(L) \in Nat, Len(M) \in Nat,
           \A i \in 1..Len(L) : e[i] <= s => i <= Len(M) /\ M[i] = L[i] /\ d[i] <= u
    PROVE  Kept(a, M, d, u)
<1>1. PICK at \in [1..Len(a) -> 1..Len(L)] :
           /\ \A i \in 1..Len(a) : a[i] = L[at[i]] /\ e[at[i]] <= s
           /\ \A i, j \in 1..Len(a) : i < j => at[i] < at[j]
  BY DEF Kept
<1>2. \A i \in 1..Len(a) : at[i] \in 1..Len(M) /\ a[i] = M[at[i]] /\ d[at[i]] <= u
  BY <1>1
<1>3. at \in [1..Len(a) -> 1..Len(M)]
  BY <1>1, <1>2
<1> QED BY <1>1, <1>2, <1>3 DEF Kept

(* The last record, behind the first s cells, is acknowledged. *)
LEMMA KeptAck ==
    ASSUME NEW a, NEW L \in Seq(Records), NEW e, NEW s \in Nat, Kept(a, L, e, s), NEW N \in Nat,
           N = Len(L), N > 0, \A i \in 0..N : e[i] \in Nat, \A i \in 0..N : e[i] <= e[N], s < e[N]
    PROVE  Kept(Append(a, L[N]), L, e, e[N])
<1>1. PICK at \in [1..Len(a) -> 1..N] :
           /\ \A i \in 1..Len(a) : a[i] = L[at[i]] /\ e[at[i]] <= s
           /\ \A i, j \in 1..Len(a) : i < j => at[i] < at[j]
  BY DEF Kept
<1> DEFINE b == Append(a, L[N])
           n == Len(a)
           to == [i \in 1..(n + 1) |-> IF i <= n THEN at[i] ELSE N]
<1>2. n \in Nat /\ a \in Seq(Records) /\ L[N] \in Records
  BY DEF Kept
<1>3. b \in Seq(Records) /\ Len(b) = n + 1 /\ b[n + 1] = L[N] /\ \A i \in 1..n : b[i] = a[i]
  BY <1>2
<1> HIDE DEF b, n
<1>4. /\ to \in [1..(n + 1) -> 1..N] /\ to[n + 1] = N
      /\ \A i \in 1..n : to[i] = at[i] /\ at[i] \in 1..N
  <2>1. at \in [1..n -> 1..N] /\ N \in 1..N
    BY DEF n
  <2>2. \A i \in 1..n : at[i] \in 1..N
    BY <2>1
  <2> QED BY <1>2, <2>1, <2>2
<1> HIDE DEF to
<1>5. ASSUME NEW i \in 1..(n + 1) PROVE b[i] = L[to[i]] /\ e[to[i]] <= e[N]
  <2>1. CASE i = n + 1
    BY <1>3, <1>4, <2>1
  <2>2. CASE i \in 1..n
    BY <1>1, <1>3, <1>4, <2>2 DEF n
  <2> QED BY <1>2, <2>1, <2>2
<1>6. ASSUME NEW i \in 1..(n + 1), NEW j \in 1..(n + 1), i < j PROVE to[i] < to[j]
  <2>1. i \in 1..n
    BY <1>2, <1>6
  <2>2. CASE j \in 1..n
    BY <1>1, <1>4, <1>6, <2>1, <2>2 DEF n
  <2>3. CASE j = n + 1
    <3>1. at[i] \in 1..N /\ e[at[i]] <= s /\ e[at[i]] \in Nat /\ to[i] = at[i] /\ to[j] = N /\ e[N] \in Nat
      BY <1>1, <1>4, <2>1, <2>3 DEF n
    <3>2. at[i] # N
      BY <3>1
    <3> QED BY <3>1, <3>2
  <2> QED BY <1>2, <2>2, <2>3
<1>7. Kept(b, L, e, e[N])
  BY <1>3, <1>4, <1>5, <1>6 DEF Kept
<1> QED BY <1>7 DEF b

-----------------------------------------------------------------------------
(* Where the process is, in terms of the log *)

(* As long as no write has failed halfway *)
Whole(L, e, t, w) ==
    /\ pc = "open" => e[Len(L)] = Len(file)
    /\ pc = "write" =>
           /\ written > 0 => t = job /\ w = written
           /\ Len(file) = e[Len(L)] + written /\ synced <= e[Len(L)]
    /\ pc = "sync" =>
           /\ Len(L) > 0 /\ L[Len(L)] = job
           /\ Len(file) = e[Len(L)] /\ synced <= e[Len(L) - 1]

(* Afterwards *)
Torn(L, e, w) ==
    /\ serving => e[Len(L)] < Len(file)
    /\ serving /\ torn = "inside" => e[Len(L)] + w < Len(file)
    /\ torn = "tail" => pc # "sync" /\ written = 0

Control(L, e, t, w) ==
    /\ synced \in Nat /\ synced <= Len(file) /\ written \in Nat
    /\ pc \in {"down", "replay", "open", "write", "sync", "fatal"}
    /\ torn \in {"no", "tail", "inside"}
    /\ pc \in {"down", "replay", "open"} => written = 0
    /\ pc = "write" => job \in Records /\ written < size(job)
    /\ pc = "sync" => job \in Records
    /\ pc = "fatal" => torn = "inside"
    /\ pc = "replay" => \E k \in 0..Len(L) : offset = e[k] /\ store = Abstract!replayed(SubSeq(L, 1, k))
    /\ torn # "inside" => NothingBehind(file, L, e, w)
    /\ torn = "no" => Whole(L, e, t, w)
    /\ torn # "no" => Torn(L, e, w)

Described(L, e, t, w) == Layout(file, L, e, t, w) /\ Control(L, e, t, w) /\ Kept(safe, L, e, synced)

JInv == \E L, e, t, w : Described(L, e, t, w)

(* What a step is to the abstract store *)
Implements == [Abstract!Next]_(Abstract!vars)

LEMMA InitDescribed == Init => JInv /\ Abstract!Init
<1> SUFFICES ASSUME Init PROVE JInv /\ Abstract!Init
  OBVIOUS
<1> DEFINE e == [i \in {0} |-> 0]
           L == <<>>
<1>1. L \in Seq(Records) /\ file \in Seq(Cells) /\ Len(L) = 0 /\ Len(file) = 0 /\ safe \in Seq(Records) /\ Len(safe) = 0
  BY DEF Init
<1>2. 0..0 = {0} /\ e \in [0..0 -> Nat] /\ e[0] = 0
  OBVIOUS
<1> HIDE DEF L, e
<1>3. Offsets(L, e)
  BY <1>1, <1>2 DEF Offsets
<1>4. Layout(file, L, e, NoRecord, 0)
  BY <1>1, <1>2, <1>3 DEF Layout
<1>5. Control(L, e, NoRecord, 0)
  BY <1>1, <1>2 DEF Init, Control, Whole, NothingBehind
<1>6. Kept(safe, L, e, synced)
  <2> DEFINE at == [i \in {} |-> 0]
  <2>1. 1..Len(safe) = {} /\ at \in [{} -> 1..Len(L)]
    BY <1>1
  <2> HIDE DEF at
  <2>2. at \in [1..Len(safe) -> 1..Len(L)]
    BY <2>1
  <2>3. /\ \A i \in 1..Len(safe) : safe[i] = L[at[i]] /\ e[at[i]] <= synced
        /\ \A i, j \in 1..Len(safe) : i < j => at[i] < at[j]
    BY <2>1
  <2> QED BY <1>1, <2>2, <2>3 DEF Kept
<1>7. recordsIn(file, Len(file)) = L /\ Len(recordsIn(file, synced)) = 0
  <2>1. synced = Len(file) /\ synced \in Nat /\ synced <= Len(file)
    BY <1>1 DEF Init
  <2>2. recordsIn(file, Len(file)) = L
    BY <1>4, <2>1, LogAndSure
  <2> QED BY <1>1, <2>1, <2>2
<1>8. Abstract!Init
  BY <1>7 DEF Abstract!Init, Init, serving, L
<1> QED BY <1>4, <1>5, <1>6, <1>8 DEF JInv, Described

(* How many records lie in the first n cells depends on the offsets up to  *)
(* there only.                                                             *)
LEMMA SureAgrees ==
    ASSUME NEW f, NEW g, NEW M, NEW L, NEW e, NEW t, NEW w, Layout(f, L, e, t, w), NEW n \in Nat, n <= Len(f), n <= e[Len(L)] \/ Len(M) = Len(L),
           NEW d, NEW u, NEW v, Layout(g, M, d, u, v), n <= Len(g), Len(L) <= Len(M),
           \A i \in 0..Len(L) : d[i] = e[i]
    PROVE  Len(recordsIn(f, n)) = Len(recordsIn(g, n))
<1>0. Len(L) \in Nat /\ Len(M) \in Nat /\ (\A i \in 0..Len(L) : e[i] \in Nat) /\ (\A i \in 0..Len(M) : d[i] \in Nat)
  BY LayoutTypes
<1>1. PICK K \in 0..Len(L) : e[K] <= n /\ (K < Len(L) => n < e[K + 1]) /\ Len(recordsIn(f, n)) = K
  BY LogAndSure
<1>2. PICK J \in 0..Len(M) : d[J] <= n /\ (J < Len(M) => n < d[J + 1]) /\ Len(recordsIn(g, n)) = J
  BY LogAndSure
<1>3. J <= Len(L)
  <2>1. ASSUME J > Len(L) PROVE FALSE
    <3>1. Len(L) \in 0..Len(M) /\ Len(L) \in 0..Len(L)
      BY <1>0
    <3>2. d[Len(L)] < d[J]
      BY <2>1, <3>1, OffsetsGrow
    <3>3. n <= e[Len(L)]
      BY <1>0, <2>1
    <3> QED BY <1>0, <1>2, <3>1, <3>2, <3>3
  <2> QED BY <1>0, <2>1
<1>4. ~(J < K)
  <2>1. ASSUME J < K PROVE FALSE
    <3>1. J + 1 \in 0..Len(L) /\ J + 1 \in 0..Len(M) /\ J < Len(M) /\ (J + 1 < K \/ J + 1 = K)
      BY <1>0, <2>1
    <3>2. e[J + 1] <= e[K]
      BY <1>0, <3>1, OffsetsGrow
    <3> QED BY <1>0, <1>1, <1>2, <3>1, <3>2
  <2> QED BY <2>1
<1>5. ~(K < J)
  <2>1. ASSUME K < J PROVE FALSE
    <3>1. K + 1 \in 0..Len(L) /\ J \in 0..Len(L) /\ K < Len(L) /\ (K + 1 < J \/ K + 1 = J)
      BY <1>0, <1>3, <2>1
    <3>2. e[K + 1] <= e[J]
      BY <1>0, <3>1, OffsetsGrow
    <3> QED BY <1>0, <1>1, <1>2, <3>1, <3>2
  <2> QED BY <2>1
<1> QED BY <1>0, <1>1, <1>2, <1>4, <1>5

(* A step that leaves the file and what is acknowledged alone. *)
LEMMA QuietStep ==
    ASSUME NEW L, NEW e, NEW t, NEW w, Described(L, e, t, w), UNCHANGED <<file, synced, safe>>, Control(L, e, t, w)',
           serving' = serving, serving => store' = store, (torn' # "no") = (torn # "no")
    PROVE  JInv' /\ Implements
<1>1. Described(L, e, t, w)'
  BY DEF Described
<1>2. UNCHANGED (Abstract!vars)
  BY DEF Abstract!vars
<1> QED BY <1>1, <1>2 DEF JInv, Implements

(* What replay meets at an offset: a whole record, the end, or a torn one. *)
LEMMA ReplayReads ==
    ASSUME NEW L, NEW e, NEW t, NEW w, Described(L, e, t, w), NEW k \in 0..Len(L), offset = e[k]
    PROVE  /\ k < Len(L) => /\ rest >= HeaderLen /\ headerOK /\ crcOK /\ ~incompleteTail
                            /\ headerRecord = L[k + 1] /\ offset + size(headerRecord) = e[k + 1] /\ rest > 0
           /\ k = Len(L) => /\ rest = Len(file) - e[Len(L)]
                            /\ rest > 0 /\ ~incompleteTail =>
                                   torn = "inside" /\ ~(rest >= HeaderLen /\ headerOK /\ crcOK)
                            /\ incompleteTail => rest > 0
<1>0. /\ Len(file) \in Nat /\ Len(L) \in Nat /\ file \in Seq(Cells) /\ L \in Seq(Records) /\ e[k] \in Nat
      /\ e[Len(L)] <= Len(file) /\ e[Len(L)] \in Nat /\ Layout(file, L, e, t, w)
  BY LayoutTypes DEF Described
<1>1. CASE k < Len(L)
  <2> DEFINE r == L[k + 1]
  <2>1. /\ r \in Records /\ size(r) \in Nat /\ size(r) > 2 /\ e[k + 1] = e[k] + size(r) /\ e[k + 1] <= e[Len(L)]
        /\ Holds(file, e[k], r, size(r))
    BY <1>0, <1>1, NextRecord DEF HeaderLen
  <2> HIDE DEF r
  <2>2. file[offset + 1] = <<r, 1>> /\ file[offset + 2] = <<r, 2>>
    <3>1. 1 \in 1..size(r) /\ 2 \in 1..size(r)
      BY <2>1
    <3> QED BY <2>1, <3>1 DEF Holds
  <2>3. headerRecord = r /\ headerOK
    BY <2>2 DEF headerRecord, headerOK
  <2>4. rest \in Nat /\ rest >= size(r) /\ rest > 2
    BY <1>0, <2>1 DEF rest
  <2>5. ~incompleteTail
    BY <2>1, <2>3, <2>4 DEF incompleteTail, HeaderLen
  <2>6. SubSeq(file, offset + 1, offset + size(r)) = cells(r)
    <3>1. offset \in Nat /\ offset + size(r) <= Len(file) /\ Holds(file, offset, r, size(r))
      BY <1>0, <2>1
    <3> DEFINE n == Len(file)
               o == offset
    <3>2. n \in Nat /\ n <= Len(file) /\ o \in Nat /\ o + size(r) <= n /\ Holds(file, o, r, size(r))
      BY <1>0, <3>1
    <3> HIDE DEF n, o
    <3>3. SubSeq(file, o + 1, o + size(r)) = cells(r)
      BY <1>0, <2>1, <3>2, WholeWhereHeld
    <3> QED BY <3>3 DEF o
  <2>7. crcOK
    BY <2>3, <2>6 DEF crcOK
  <2> QED BY <1>0, <1>1, <2>1, <2>3, <2>4, <2>5, <2>7 DEF HeaderLen, r
<1>2. CASE k = Len(L)
  <2>1. rest = Len(file) - e[Len(L)] /\ rest \in Nat
    BY <1>0, <1>2 DEF rest
  <2>2. incompleteTail => rest > 0
    BY <2>1 DEF incompleteTail, HeaderLen
  <2>3. ASSUME rest > 0, ~incompleteTail PROVE torn = "inside" /\ ~(rest >= HeaderLen /\ headerOK /\ crcOK)
    <3>1. /\ t \in Records /\ w \in Nat /\ 0 < w /\ w < size(t) /\ e[Len(L)] + w <= Len(file)
          /\ Holds(file, e[Len(L)], t, w)
      BY <1>0, <2>1, <2>3 DEF Layout
    <3>2. torn = "inside"
      <4> SUFFICES ASSUME torn # "inside" PROVE incompleteTail
        BY <2>3
      <4>1. Len(file) = e[Len(L)] + w
        <5>1. NothingBehind(file, L, e, w)
          BY DEF Described, Control
        <5> QED BY <1>0, <2>1, <2>3, <5>1 DEF NothingBehind
      <4>2. rest = w
        BY <1>0, <2>1, <3>1, <4>1
      <4>3. CASE rest = 1
        BY <4>3 DEF incompleteTail, HeaderLen
      <4>4. CASE rest >= 2
        <5>1. file[offset + 1] = <<t, 1>> /\ file[offset + 2] = <<t, 2>>
          <6>1. 1 \in 1..w /\ 2 \in 1..w
            BY <3>1, <4>2, <4>4
          <6> QED BY <1>2, <3>1, <6>1 DEF Holds
        <5>2. headerRecord = t /\ headerOK
          BY <5>1 DEF headerRecord, headerOK
        <5> QED BY <3>1, <4>2, <4>4, <5>2 DEF incompleteTail, HeaderLen
      <4> QED BY <2>1, <2>3, <4>3, <4>4
    <3>3. ASSUME rest >= HeaderLen, headerOK, crcOK PROVE FALSE
      <4>1. rest >= size(headerRecord)
        <5>1. headerRecord \in Records
          <6>1. offset + 1 \in 1..Len(file)
            BY <1>0, <1>2, <2>1, <2>3
          <6>2. file[offset + 1] \in Cells
            BY <1>0, <6>1
          <6> QED BY <6>2 DEF Cells, headerRecord
        <5>2. size(headerRecord) \in Nat
          BY <5>1, SizeType
        <5> QED BY <2>1, <2>3, <3>3, <5>2 DEF incompleteTail
      <4>2. wholeRecordAt(file, offset, Len(file))
        <5>1. offset + size(headerRecord) <= Len(file)
          <6>1. file[offset + 1] = <<t, 1>>
            <7>1. 1 \in 1..w
              BY <3>1
            <7> QED BY <1>2, <3>1, <7>1 DEF Holds
          <6>2. headerRecord = t /\ size(t) \in Nat
            BY <3>1, <6>1, SizeType DEF headerRecord
          <6> QED BY <1>0, <1>2, <2>1, <4>1, <6>2
        <5> QED BY <3>3, <5>1 DEF wholeRecordAt, crcOK, headerRecord
      <4>3. Len(L) \in 0..Len(L) /\ e[Len(L)] <= Len(file) /\ ~(Len(L) < Len(L)) /\ e[Len(L)] < Len(file)
        BY <1>0, <2>1, <2>3
      <4>4. ~wholeRecordAt(file, e[Len(L)], Len(file))
        BY <1>0, <4>3, NoMoreRecords
      <4> QED BY <1>2, <4>2, <4>4
    <3> QED BY <3>2, <3>3
  <2> QED BY <1>0, <1>2, <2>1, <2>2, <2>3
<1> QED BY <1>0, <1>1, <1>2

LEMMA OpenStep ==
    ASSUME NEW L, NEW e, NEW t, NEW w, Described(L, e, t, w), Open
    PROVE  JInv' /\ Implements
<1>0. Len(L) \in Nat /\ L \in Seq(Records) /\ e[0] = 0
  BY DEF Described, Layout, Offsets
<1>1. Abstract!replayed(SubSeq(L, 1, 0)) = EmptyStore
  <2>1. SubSeq(L, 0 + 1, 0) = <<>>
    BY <1>0, SubSeqEmptyWhole
  <2>2. 0 + 1 = 1
    OBVIOUS
  <2> QED BY <2>1, <2>2, ReplayedNothing
<1>2. 0 \in 0..Len(L) /\ offset' = e[0] /\ store' = Abstract!replayed(SubSeq(L, 1, 0))
  BY <1>0, <1>1 DEF Open
<1>3. Control(L, e, t, w)'
  <2>1. UNCHANGED <<file, synced, job, written, safe, torn>> /\ pc = "down" /\ pc' = "replay"
    BY DEF Open, history
  <2>2. NothingBehind(file, L, e, w)' = NothingBehind(file, L, e, w)
    BY <2>1 DEF NothingBehind
  <2>3. Whole(L, e, t, w)' /\ (torn # "no" => Torn(L, e, w)')
    BY <2>1 DEF Whole, Torn, serving, Described, Control
  <2> QED BY <1>2, <2>1, <2>2, <2>3 DEF Described, Control
<1>4. serving' = serving /\ ~serving /\ UNCHANGED <<file, synced, safe, torn>>
  BY DEF Open, serving, history
<1> QED BY <1>3, <1>4, QuietStep

LEMMA ReplayRecordStep ==
    ASSUME NEW L, NEW e, NEW t, NEW w, Described(L, e, t, w), ReplayRecord
    PROVE  JInv' /\ Implements
<1>0. /\ Len(L) \in Nat /\ L \in Seq(Records) /\ pc = "replay" /\ rest > 0 /\ ~incompleteTail
      /\ UNCHANGED <<file, synced, job, written, safe, torn>>
  BY LayoutTypes DEF Described, ReplayRecord, history
<1>1. PICK k \in 0..Len(L) : offset = e[k] /\ store = Abstract!replayed(SubSeq(L, 1, k))
  BY <1>0 DEF Described, Control
<1>2. CASE k < Len(L)
  <2>3. /\ rest >= HeaderLen /\ headerOK /\ crcOK /\ headerRecord = L[k + 1]
        /\ offset + size(headerRecord) = e[k + 1]
    BY <1>1, <1>2, ReplayReads
  <2>4. store' = apply(store, L[k + 1]) /\ offset' = e[k + 1] /\ pc' = pc
    BY <2>3 DEF ReplayRecord
  <2>5. store' = Abstract!replayed(SubSeq(L, 1, k + 1))
    <3> DEFINE s == SubSeq(L, 1, k)
    <3>1. s \in Seq(Records) /\ L[k + 1] \in Records
      BY <1>0, <1>2, SubSeqIs
    <3>2. SubSeq(L, 1, k + 1) = Append(s, L[k + 1])
      BY <1>0, <1>2, SubSeqNext
    <3> HIDE DEF s
    <3>3. Abstract!replayed(Append(s, L[k + 1])) = apply(Abstract!replayed(s), L[k + 1])
      BY <3>1, ReplayedAppend
    <3> QED BY <1>1, <2>4, <3>2, <3>3 DEF s
  <2>6. k + 1 \in 0..Len(L)
    BY <1>0, <1>2
  <2>7. Control(L, e, t, w)'
    <3>1. NothingBehind(file, L, e, w)' = NothingBehind(file, L, e, w)
      BY <1>0 DEF NothingBehind
    <3>2. Whole(L, e, t, w)' /\ (torn # "no" => Torn(L, e, w)')
      BY <1>0, <2>4 DEF Whole, Torn, serving, Described, Control
    <3> QED BY <1>0, <2>4, <2>5, <2>6, <3>1, <3>2 DEF Described, Control
  <2>8. serving' = serving /\ ~serving
    BY <1>0, <2>4 DEF serving
  <2> QED BY <1>0, <2>7, <2>8, QuietStep
<1>3. CASE k = Len(L)
  <2>1. torn = "inside" /\ ~(rest >= HeaderLen /\ headerOK /\ crcOK)
    BY <1>0, <1>1, <1>3, ReplayReads
  <2>2. pc' = "fatal"
    BY <2>1 DEF ReplayRecord
  <2>3. Control(L, e, t, w)'
    <3>1. Torn(L, e, w)'
      BY <1>0, <2>1, <2>2 DEF Torn, serving, Described, Control
    <3> QED BY <1>0, <2>1, <2>2, <3>1 DEF Described, Control
  <2>4. serving' = serving /\ ~serving
    BY <1>0, <2>2 DEF serving
  <2> QED BY <1>0, <2>3, <2>4, QuietStep
<1> QED BY <1>0, <1>2, <1>3

(* Replay has reached the end of the log: the abstract store recovers. *)
LEMMA RecoverStep ==
    ASSUME NEW L, NEW e, NEW t, NEW w, Described(L, e, t, w), pc = "replay", offset = e[Len(L)],
           store = Abstract!replayed(SubSeq(L, 1, Len(L))), UNCHANGED <<store, written, safe>>, pc' = "open", torn' = "no",
           NEW u, NEW v, Layout(file', L, e, u, v), e[Len(L)] = Len(file'),
           UNCHANGED <<file, synced>> \/ synced' = Len(file')
    PROVE  JInv' /\ Implements
<1>0. /\ Len(L) \in Nat /\ L \in Seq(Records) /\ e[Len(L)] \in Nat /\ Layout(file, L, e, t, w)
      /\ e[Len(L)] <= Len(file) /\ Len(L) \in 0..Len(L) /\ synced \in Nat /\ synced <= Len(file)
      /\ Len(file) \in Nat /\ Len(file') \in Nat /\ written = 0 /\ written' = 0
  BY LayoutTypes DEF Described, Control
<1>1. PICK K \in 0..Len(L) : recordsIn(file, Len(file)) = L /\ Len(recordsIn(file, synced)) = K
  BY <1>0, LogAndSure
<1>2. recordsIn(file', Len(file')) = L
  BY <1>0, LogAndSure
<1>3. Len(recordsIn(file', synced')) \in {Len(recordsIn(file, synced)), Len(L)}
  <2>1. CASE synced' = Len(file')
    BY <1>2, <2>1
  <2>2. CASE UNCHANGED <<file, synced>>
    BY <2>2
  <2> QED BY <2>1, <2>2
<1>4. Control(L, e, u, v)'
  BY <1>0 DEF Control, Whole, NothingBehind
<1>5. Kept(safe', L, e, synced')
  <2>1. \A i \in 1..Len(L) : e[i] <= synced => i <= Len(L) /\ L[i] = L[i] /\ e[i] <= synced'
    <3>1. ASSUME NEW i \in 1..Len(L) PROVE i \in 0..Len(L) /\ e[i] <= e[Len(L)]
      BY <1>0, NextRecord
    <3> QED BY <1>0, <3>1
  <2> QED BY <1>0, <2>1, KeptIn DEF Described
<1>6. Abstract!Recover
  <2>1. SubSeq(L, 1, Len(L)) = L
    BY <1>0, SubSeqEmptyWhole
  <2>2. serving' /\ ~serving /\ serving' = TRUE /\ serving = FALSE
    BY DEF serving
  <2>3. store' = Abstract!replayed(recordsIn(file, Len(file)))
    BY <1>1, <2>1
  <2>4. (torn' # "no") = FALSE
    OBVIOUS
  <2> QED BY <1>1, <1>2, <1>3, <2>2, <2>3, <2>4 DEF Abstract!Recover
<1> QED BY <1>4, <1>5, <1>6 DEF JInv, Described, Implements, Abstract!Next

LEMMA TruncateStep ==
    ASSUME NEW L, NEW e, NEW t, NEW w, Described(L, e, t, w), TruncateTail \/ ReplayDone
    PROVE  JInv' /\ Implements
<1>0. /\ Len(L) \in Nat /\ L \in Seq(Records) /\ Layout(file, L, e, t, w) /\ pc = "replay" /\ pc' = "open"
      /\ UNCHANGED <<store, written, safe>> /\ torn' = "no" /\ Len(L) \in 0..Len(L) /\ e[Len(L)] \in Nat /\ e[Len(L)] <= Len(file)
      /\ Len(file) \in Nat
  BY LayoutTypes DEF Described, TruncateTail, ReplayDone
<1>1. PICK k \in 0..Len(L) : offset = e[k] /\ store = Abstract!replayed(SubSeq(L, 1, k))
  BY <1>0 DEF Described, Control
<1>2. k = Len(L)
  <2>1. ~(k < Len(L))
    BY <1>1, ReplayReads DEF TruncateTail, ReplayDone
  <2> QED BY <1>0, <2>1
<1>3. CASE TruncateTail
  <2> DEFINE n == e[Len(L)]
  <2>1. file' = SubSeq(file, 1, n) /\ synced' = n
    BY <1>1, <1>2, <1>3 DEF TruncateTail
  <2>3. n \in Nat /\ n <= Len(file) /\ e[Len(L)] <= n
    BY <1>0
  <2> HIDE DEF n
  <2>4. Len(file') = n /\ CutTo(file, L, e, w, file', L, e)
    <3>1. ~(Len(L) < Len(L)) /\ L = SubSeq(L, 1, Len(L))
      BY <1>0, SubSeqEmptyWhole
    <3>2. e \in [0..Len(L) -> Nat] /\ \A i \in 0..Len(L) : e[i] = e[i]
      BY DEF Described, Layout, Offsets
    <3>3. file' = SubSeq(file, 1, n)
      BY <2>1
    <3>4. CutOf(file, L, e, n, Len(L), file', L, e)
      BY <1>0, <2>3, <3>1, <3>2, <3>3 DEF CutOf
    <3> QED BY ONLY <1>0, <3>4, LayoutCut
  <2>5. PICK u, v : Layout(file', L, e, u, v)
    BY <2>4 DEF CutTo
  <2>6. Layout(file', L, e, u, v) /\ Len(file') = n
    BY <2>4, <2>5
  <2> QED BY <1>0, <1>1, <1>2, <2>1, <2>6, RecoverStep DEF n
<1>4. CASE ReplayDone
  <2>1. Len(file) = e[Len(L)] /\ UNCHANGED <<file, synced>>
    BY <1>0, <1>1, <1>2, <1>4 DEF ReplayDone, rest
  <2>2. Layout(file', L, e, t, w) /\ e[Len(L)] = Len(file')
    BY <1>0, <2>1
  <2> QED BY <1>0, <1>1, <1>2, <2>1, <2>2, RecoverStep
<1> QED BY <1>3, <1>4

LEMMA AppendStep ==
    ASSUME NEW L, NEW e, NEW t, NEW w, Described(L, e, t, w), NEW type \in Types, NEW h \in Hashes, appendRecord(type, h)
    PROVE  JInv' /\ Implements
<1>1. job' \in Records /\ size(job') \in Nat /\ size(job') > 0
  <2>1. job' \in Records
    BY DEF appendRecord, Records
  <2> QED BY <2>1, SizeType DEF HeaderLen
<1>2. size(job)' = size(job')
  BY DEF size
<1>3. /\ pc = "open" /\ pc' = "write" /\ written = 0 /\ written' = 0 /\ UNCHANGED <<file, synced, safe, torn, store>>
      /\ synced <= Len(file) /\ Len(file) \in Nat
  BY LayoutTypes DEF appendRecord, Described, Control, history
<1>4. Control(L, e, t, w)'
  <2>1. NothingBehind(file, L, e, w)' = NothingBehind(file, L, e, w)
    BY <1>3 DEF NothingBehind
  <2>2. torn = "no" => Whole(L, e, t, w)'
    BY <1>3 DEF Whole, Described, Control
  <2>3. torn # "no" => Torn(L, e, w)'
    BY <1>3 DEF Torn, serving, Described, Control
  <2> QED BY <1>1, <1>2, <1>3, <2>1, <2>2, <2>3 DEF Control, Described
<1>5. serving' = serving
  BY <1>3 DEF serving
<1> QED BY <1>3, <1>4, <1>5, QuietStep

LEMMA WriteCellStep ==
    ASSUME NEW L, NEW e, NEW t, NEW w, Described(L, e, t, w), WriteCell, torn = "no"
    PROVE  JInv' /\ Implements
<1> DEFINE c == <<job, written + 1>>
           g == Append(file, c)
<1>0. /\ Len(L) \in Nat /\ L \in Seq(Records) /\ Layout(file, L, e, t, w) /\ Len(file) \in Nat /\ file \in Seq(Cells)
      /\ e[Len(L)] \in Nat
  BY LayoutTypes DEF Described
<1>1. /\ pc = "write" /\ job \in Records /\ written < size(job) /\ (written > 0 => t = job /\ w = written)
      /\ Len(file) = e[Len(L)] + written /\ synced <= e[Len(L)] /\ synced \in Nat /\ synced <= Len(file)
      /\ written \in Nat
  BY DEF WriteCell, Described, Control, Whole
<1>2. size(job) \in Nat
  BY <1>1, SizeType
<1>3. file' = g /\ written' = written + 1 /\ UNCHANGED <<synced, store, job, safe, torn>>
  <2>1. cells(job)[written + 1] = c
    BY <1>1, <1>2, CellsOf
  <2> QED BY <2>1 DEF WriteCell
<1>4. size(job)' = size(job)
  BY <1>3 DEF size
<1>5. CASE written + 1 < size(job)
  <2>1. Layout(file', L, e, job, written + 1)
    BY <1>0, <1>1, <1>3, <1>5, LayoutWrite
  <2>2. Len(file') = Len(file) + 1
    BY <1>0, <1>1, <1>2, <1>3, LayoutCell
  <2>3. pc' = "write" /\ serving' = serving
    BY <1>1, <1>2, <1>5 DEF WriteCell, serving
  <2>4. Control(L, e, job, written)'
    <3>0. Len(file') = e[Len(L)] + written' /\ synced' <= e[Len(L)]
      <4>1. synced' = synced /\ written' = written + 1
        BY <1>3
      <4> QED BY ONLY <1>0, <1>1, <2>2, <4>1
    <3>1. NothingBehind(file, L, e, written)' /\ Whole(L, e, job, written)'
      BY <2>3, <3>0 DEF NothingBehind, Whole
    <3> QED BY <1>0, <1>1, <1>3, <1>4, <1>5, <2>2, <2>3, <3>1 DEF Control
  <2>5. Kept(safe', L, e, synced')
    BY <1>3 DEF Described
  <2>6. recordsIn(file, Len(file)) = L /\ recordsIn(file', Len(file')) = L
    BY <1>0, <1>1, <2>1, <2>2, LogAndSure
  <2>7. Len(recordsIn(file, synced)) = Len(recordsIn(file', synced'))
    <3>1. synced <= Len(file') /\ synced' = synced /\ Len(L) <= Len(L) /\ \A i \in 0..Len(L) : e[i] = e[i]
      BY <1>0, <1>1, <1>3, <2>2
    <3>2. Layout(file, L, e, t, w) /\ synced \in Nat /\ synced <= Len(file) /\ synced <= e[Len(L)]
      BY <1>0, <1>1
    <3>3. Len(recordsIn(file, synced)) = Len(recordsIn(file', synced))
      BY ONLY <2>1, <3>1, <3>2, SureAgrees
    <3> QED BY <3>1, <3>3
  <2>8. UNCHANGED Abstract!vars
    BY <1>3, <2>3, <2>6, <2>7 DEF Abstract!vars
  <2>9. JInv'
    <3>1. PICK r, m : r = job' /\ m = written'
      OBVIOUS
    <3>2. Described(L, e, r, m)'
      BY <1>3, <2>1, <2>4, <2>5, <3>1 DEF Described, Control, Whole
    <3> QED BY <3>2 DEF JInv
  <2> QED BY <2>8, <2>9 DEF Implements
<1>6. CASE written + 1 = size(job)
  <2> DEFINE N == Len(L)
  <2>1. PICK M, d :
        /\ M = Append(L, job) /\ d = [i \in 0..(N + 1) |-> IF i <= N THEN e[i] ELSE Len(file) + 1]
    OBVIOUS
  <2>2. /\ M \in Seq(Records) /\ Len(M) = N + 1 /\ M[N + 1] = job /\ (\A i \in 1..N : M[i] = L[i])
        /\ Layout(file', M, d, t, w)
    <3>1. /\ Append(L, job) \in Seq(Records) /\ Len(Append(L, job)) = Len(L) + 1 /\ Append(L, job)[Len(L) + 1] = job
          /\ \A i \in 1..Len(L) : Append(L, job)[i] = L[i]
          /\ Layout(Append(file, <<job, written + 1>>), Append(L, job),
                    [i \in 0..(Len(L) + 1) |-> IF i <= Len(L) THEN e[i] ELSE Len(file) + 1], t, w)
      BY <1>0, <1>1, <1>6, LayoutDone
    <3> QED BY <1>3, <2>1, <3>1
  <2>3. Len(file') = Len(file) + 1
    BY <1>0, <1>1, <1>2, <1>3, LayoutCell
  <2>4. pc' = "sync" /\ serving' = serving
    BY <1>1, <1>6 DEF WriteCell, serving
  <2>5. (\A i \in 0..N : d[i] = e[i] /\ e[i] \in Nat) /\ d[N + 1] = Len(file) + 1 /\ N \in Nat /\ N \in 0..N
    BY <1>0, <2>1, LayoutTypes
  <2> HIDE DEF N
  <2>6. Control(M, d, t, w)'
    <3>1. (N + 1) - 1 = N /\ N + 1 > 0 /\ d[N] = e[N]
      BY <2>5
    <3>2. synced' \in Nat /\ written' \in Nat /\ synced' <= e[N] /\ synced' <= Len(file') /\ Len(file') = d[N + 1]
      BY <1>0, <1>1, <1>3, <2>3, <2>5 DEF N
    <3>3. Len(M) > 0 /\ M[Len(M)] = job' /\ Len(file') = d[Len(M)] /\ synced' <= d[Len(M) - 1] /\ job' \in Records
      BY <1>1, <1>3, <2>2, <3>1, <3>2
    <3>4. NothingBehind(file, M, d, w)' /\ Whole(M, d, t, w)'
      <4>1. d[Len(M)] \in Nat
        BY <1>0, <2>2, <2>5
      <4> QED BY <2>4, <3>3, <4>1 DEF NothingBehind, Whole
    <3> QED BY <1>3, <2>4, <3>2, <3>3, <3>4 DEF Control
  <2>7. Kept(safe', M, d, synced')
    <3>1. \A i \in 1..Len(L) : e[i] <= synced => i <= Len(M) /\ M[i] = L[i] /\ d[i] <= synced
      BY <1>0, <2>2, <2>5 DEF N
    <3> QED BY <1>0, <1>3, <2>2, <2>5, <3>1, KeptIn DEF Described
  <2>8. recordsIn(file, Len(file)) = L /\ recordsIn(file', Len(file')) = M
    BY <1>0, <1>1, <2>2, <2>3, LogAndSure
  <2>9. Len(recordsIn(file, synced)) = Len(recordsIn(file', synced'))
    <3>1. synced <= Len(file') /\ synced' = synced /\ Len(L) <= Len(M) /\ \A i \in 0..Len(L) : d[i] = e[i]
      BY <1>0, <1>1, <1>3, <2>2, <2>3, <2>5 DEF N
    <3>2. Layout(file, L, e, t, w) /\ synced \in Nat /\ synced <= Len(file) /\ synced <= e[Len(L)]
      BY <1>0, <1>1
    <3>3. Layout(file', M, d, t, w)
      BY <2>2
    <3>4. Len(recordsIn(file, synced)) = Len(recordsIn(file', synced))
      BY ONLY <3>1, <3>2, <3>3, SureAgrees
    <3> QED BY <3>1, <3>4
  <2>10. Abstract!Land(job)
    <3>1. serving = TRUE /\ serving' = TRUE
      BY <1>1, <2>4 DEF serving
    <3>2. (torn # "no") = FALSE /\ (torn' # "no") = FALSE
      BY <1>3
    <3> QED BY <1>3, <2>1, <2>8, <2>9, <3>1, <3>2 DEF Abstract!Land
  <2>11. Described(M, d, t, w)'
    BY <2>2, <2>6, <2>7 DEF Described
  <2> QED BY <1>1, <2>10, <2>11 DEF JInv, Implements, Abstract!Next
<1> QED BY <1>1, <1>2, <1>5, <1>6

(* The cell goes behind a half-written record: the log stays as it is. *)
LEMMA WriteBehindStep ==
    ASSUME NEW L, NEW e, NEW t, NEW w, Described(L, e, t, w), WriteCell, torn # "no"
    PROVE  JInv' /\ Implements
<1> DEFINE c == <<job, written + 1>>
<1>0. /\ Len(L) \in Nat /\ L \in Seq(Records) /\ Layout(file, L, e, t, w) /\ Len(file) \in Nat /\ file \in Seq(Cells)
      /\ e[Len(L)] \in Nat
  BY LayoutTypes DEF Described
<1>1. /\ pc = "write" /\ job \in Records /\ written < size(job) /\ written \in Nat /\ torn \in {"tail", "inside"}
      /\ synced \in Nat /\ synced <= Len(file) /\ (torn = "tail" => written = 0)
      /\ e[Len(L)] < Len(file)
  BY DEF WriteCell, Described, Control, Torn, serving
<1>2. size(job) \in Nat /\ size(job) > 2
  BY <1>1, SizeType DEF HeaderLen
<1>3. file' = Append(file, c) /\ written' = written + 1 /\ UNCHANGED <<synced, store, job, safe>> /\ torn' = "inside"
  <2>1. cells(job)[written + 1] = c
    BY <1>1, <1>2, CellsOf
  <2> QED BY <1>1, <2>1 DEF WriteCell
<1>4. Layout(file', L, e, t, w) /\ Len(file') = Len(file) + 1
  <2>1. c \in Cells
    BY <1>1 DEF Cells
  <2>2. CASE torn = "tail"
    <3>1. c[2] = 1
      BY <1>1, <2>2
    <3> HIDE DEF c
    <3> QED BY <1>0, <1>1, <1>3, <2>1, <3>1, LayoutBehind
  <2>3. CASE torn = "inside"
    <3>1. e[Len(L)] + w < Len(file) /\ w \in Nat
      BY <1>1, <2>3 DEF Described, Control, Torn, serving, Layout
    <3>2. Len(file) = e[Len(L)] + w => c[2] = 1
      BY <1>0, <3>1
    <3> HIDE DEF c
    <3> QED BY <1>0, <1>1, <1>3, <2>1, <3>2, LayoutBehind
  <2> QED BY <1>1, <2>2, <2>3
<1>5. size(job)' = size(job)
  BY <1>3 DEF size
<1>6. pc' \in {"write", "sync"} /\ (pc' = "write" => written + 1 < size(job)) /\ serving' = serving
  BY <1>1, <1>2 DEF WriteCell, serving
<1>7. Torn(L, e, w)'
  <2>1. w \in Nat /\ e[Len(L)] + w <= Len(file)
    BY <1>0, <1>1 DEF Layout
  <2> QED BY <1>0, <1>1, <1>3, <1>4, <2>1 DEF Torn
<1>8. Control(L, e, t, w)'
  BY <1>0, <1>1, <1>3, <1>4, <1>5, <1>6, <1>7 DEF Control
<1>9. Kept(safe', L, e, synced')
  BY <1>3 DEF Described
<1>10. JInv'
  BY <1>4, <1>8, <1>9 DEF JInv, Described
<1>11. recordsIn(file, Len(file)) = L /\ recordsIn(file', Len(file')) = L
  BY <1>0, <1>1, <1>4, LogAndSure
<1>12. Len(recordsIn(file, synced)) = Len(recordsIn(file', synced'))
  <2>1. synced <= Len(file') /\ synced' = synced /\ Len(L) <= Len(L) /\ \A i \in 0..Len(L) : e[i] = e[i]
    BY <1>0, <1>1, <1>3, <1>4
  <2>2. Layout(file, L, e, t, w) /\ synced \in Nat /\ synced <= Len(file)
    BY <1>0, <1>1
  <2>3. Len(recordsIn(file, synced)) = Len(recordsIn(file', synced))
    BY ONLY <1>4, <2>1, <2>2, SureAgrees
  <2> QED BY <2>1, <2>3
<1>13. UNCHANGED Abstract!vars
  BY <1>1, <1>3, <1>6, <1>11, <1>12 DEF Abstract!vars
<1> QED BY <1>10, <1>13 DEF Implements

LEMMA WriteErrorStep ==
    ASSUME NEW L, NEW e, NEW t, NEW w, Described(L, e, t, w), WriteError
    PROVE  JInv' /\ Implements
<1>1. /\ pc = "write" /\ pc' = "open" /\ written' = 0 /\ UNCHANGED <<file, synced, safe, store>> /\ serving' = serving
      /\ torn' = IF torn = "no" /\ written > 0 THEN "tail" ELSE torn
  BY DEF WriteError, endWrite, serving
<1>2. Len(file) \in Nat /\ e[Len(L)] \in Nat /\ written \in Nat
  BY LayoutTypes DEF Described, Control
<1>3. NothingBehind(file, L, e, w)' = NothingBehind(file, L, e, w)
  BY <1>1 DEF NothingBehind
<1>4. CASE torn = "no" /\ written > 0
  <2>1. Len(file) = e[Len(L)] + written
    BY <1>1, <1>4 DEF Described, Control, Whole
  <2>2. Torn(L, e, w)' /\ torn' = "tail"
    BY <1>1, <1>2, <1>4, <2>1 DEF Torn
  <2>3. Control(L, e, t, w)'
    BY <1>1, <1>3, <1>4, <2>2 DEF Described, Control
  <2>4. Described(L, e, t, w)'
    BY <1>1, <2>3 DEF Described
  <2>5. Abstract!Break
    <3>1. serving = TRUE /\ serving' = TRUE /\ (torn # "no") = FALSE /\ (torn' # "no") = TRUE
      BY <1>1, <1>4, <2>2 DEF serving
    <3> QED BY <1>1, <3>1 DEF Abstract!Break
  <2> QED BY <2>4, <2>5 DEF JInv, Implements, Abstract!Next
<1>5. CASE ~(torn = "no" /\ written > 0)
  <2>1. torn = "no" => Whole(L, e, t, w)'
    <3>1. torn = "no" => Len(file) = e[Len(L)]
      BY <1>1, <1>2, <1>5 DEF Described, Control, Whole
    <3> QED BY <1>1, <3>1 DEF Whole
  <2>2. torn # "no" => Torn(L, e, w)'
    BY <1>1, <1>5 DEF Described, Control, Torn, serving
  <2>3. torn' = torn
    BY <1>1, <1>5
  <2>4. Control(L, e, t, w)'
    BY <1>1, <1>3, <2>1, <2>2, <2>3 DEF Described, Control
  <2> QED BY <1>1, <2>3, <2>4, QuietStep
<1> QED BY <1>4, <1>5

LEMMA SyncErrorStep ==
    ASSUME NEW L, NEW e, NEW t, NEW w, Described(L, e, t, w), SyncError
    PROVE  JInv' /\ Implements
<1>1. /\ pc = "sync" /\ pc' = "open" /\ written' = 0 /\ UNCHANGED <<file, synced, safe, torn, store>>
      /\ serving' = serving
  BY DEF SyncError, endWrite, serving, history
<1>2. NothingBehind(file, L, e, w)' = NothingBehind(file, L, e, w)
  BY <1>1 DEF NothingBehind
<1>3. torn = "no" => Whole(L, e, t, w)'
  BY <1>1 DEF Described, Control, Whole
<1>4. torn # "no" => Torn(L, e, w)'
  BY <1>1 DEF Described, Control, Torn, serving
<1>5. Control(L, e, t, w)'
  BY <1>1, <1>2, <1>3, <1>4 DEF Described, Control
<1> QED BY <1>1, <1>5, QuietStep

(* The record being written is acknowledged, and with it all before it. *)
LEMMA SyncStep ==
    ASSUME NEW L, NEW e, NEW t, NEW w, Described(L, e, t, w), Sync, torn = "no"
    PROVE  JInv' /\ Implements
<1> DEFINE N == Len(L)
<1>0. /\ N \in Nat /\ L \in Seq(Records) /\ Layout(file, L, e, t, w) /\ Len(file) \in Nat
      /\ N \in 0..N /\ (\A i \in 0..N : e[i] \in Nat) /\ \A i \in 0..N : e[i] <= e[N]
  <2>1. \A i \in 0..N : e[i] <= e[N]
    BY NextRecord DEF Described
  <2> QED BY <2>1, LayoutTypes DEF Described
<1>1. /\ pc = "sync" /\ N > 0 /\ L[N] = job /\ Len(file) = e[N] /\ synced <= e[N - 1] /\ synced \in Nat
      /\ synced <= Len(file)
  BY DEF Sync, Described, Control, Whole
<1>2. /\ pc' = "open" /\ synced' = Len(file) /\ store' = apply(store, job) /\ safe' = Append(safe, job)
      /\ written' = 0 /\ file' = file /\ torn' = "no"
  BY DEF Sync, endWrite, syncedAll
<1>3. synced < e[N]
  <2>1. N - 1 \in 0..N /\ N - 1 < N
    BY <1>0, <1>1
  <2>2. e[N - 1] < e[N] /\ e[N - 1] \in Nat /\ e[N] \in Nat
    BY <1>0, <2>1, OffsetsGrow
  <2> QED BY <1>1, <2>2
<1>4. Kept(safe', L, e, synced')
  <2>1. Kept(Append(safe, L[N]), L, e, e[N])
    <3>1. Kept(safe, L, e, synced)
      BY DEF Described
    <3> QED BY <1>0, <1>1, <1>3, <3>1, KeptAck
  <2> QED BY <1>1, <1>2, <2>1
<1>5. Control(L, e, t, w)'
  BY <1>0, <1>1, <1>2 DEF Control, Whole, NothingBehind
<1>6. JInv'
  <2>1. Layout(file', L, e, t, w)
    BY <1>0, <1>2
  <2> QED BY <1>4, <1>5, <2>1 DEF JInv, Described
<1>7. recordsIn(file, Len(file)) = L
  BY <1>0, LogAndSure
<1>8. Len(recordsIn(file, synced)) < N /\ Len(recordsIn(file', synced')) = N
  <2>1. PICK K \in 0..Len(L) : e[K] <= synced /\ Len(recordsIn(file, synced)) = K
    BY <1>0, <1>1, LogAndSure
  <2>2. K # N
    BY <1>0, <1>1, <1>3, <2>1
  <2> QED BY <1>0, <1>2, <1>7, <2>1, <2>2
<1>9. Abstract!Acknowledge
  <2>1. serving = TRUE /\ serving' = TRUE
    BY <1>1, <1>2 DEF serving
  <2>2. Abstract!Last(recordsIn(file, Len(file))) = job
    BY <1>1, <1>7 DEF Abstract!Last
  <2>3. file' = file /\ Len(recordsIn(file', synced')) = Len(recordsIn(file, Len(file)))
    BY <1>2, <1>7, <1>8
  <2>4. (torn # "no") = FALSE /\ (torn' # "no") = FALSE
    BY <1>2
  <2> QED BY <1>2, <1>7, <1>8, <2>1, <2>2, <2>3, <2>4 DEF Abstract!Acknowledge
<1> QED BY <1>6, <1>9 DEF Implements, Abstract!Next

(* All of the file is synced and the log stays as it is. *)
LEMMA SyncedAll ==
    ASSUME NEW L, NEW e, NEW t, NEW w, Described(L, e, t, w), synced' = Len(file), file' = file, safe' = safe
    PROVE  /\ Layout(file', L, e, t, w) /\ Kept(safe', L, e, synced')
           /\ recordsIn(file, Len(file)) = L /\ Len(recordsIn(file', synced')) = Len(L)
           /\ Len(file) \in Nat /\ synced' \in Nat /\ synced' <= Len(file')
<1>0. /\ Len(L) \in Nat /\ L \in Seq(Records) /\ Layout(file, L, e, t, w) /\ Len(file) \in Nat
      /\ (\A i \in 0..Len(L) : e[i] \in Nat) /\ synced \in Nat /\ synced <= Len(file)
  BY LayoutTypes DEF Described, Control
<1>1. Kept(safe', L, e, synced')
  <2>1. \A i \in 1..Len(L) : e[i] <= synced => i <= Len(L) /\ L[i] = L[i] /\ e[i] <= synced'
    BY <1>0
  <2> QED BY <1>0, <2>1, KeptIn DEF Described
<1>2. recordsIn(file, Len(file)) = L
  BY <1>0, LogAndSure
<1> QED BY <1>0, <1>1, <1>2

(* A record behind a half-written one is acknowledged: only the process    *)
(* will see it.                                                            *)
LEMMA SwallowStep ==
    ASSUME NEW L, NEW e, NEW t, NEW w, Described(L, e, t, w), Sync, torn # "no"
    PROVE  JInv' /\ Implements
<1>1. /\ pc = "sync" /\ pc' = "open" /\ synced' = Len(file) /\ store' = apply(store, job)
      /\ written' = 0 /\ UNCHANGED <<file, torn, safe>> /\ job \in Records
  BY DEF Sync, endWrite, syncedAll, Described, Control
<1>2. /\ Layout(file', L, e, t, w) /\ Kept(safe', L, e, synced')
      /\ recordsIn(file, Len(file)) = L /\ Len(recordsIn(file', synced')) = Len(L)
      /\ Len(file) \in Nat /\ synced' \in Nat /\ synced' <= Len(file')
  BY <1>1, SyncedAll
<1>3. Torn(L, e, w)' /\ NothingBehind(file, L, e, w)' = NothingBehind(file, L, e, w)
  BY <1>1 DEF Torn, NothingBehind, serving, Described, Control
<1>4. Control(L, e, t, w)'
  BY <1>1, <1>2, <1>3 DEF Control, Described
<1>5. JInv'
  BY <1>2, <1>4 DEF JInv, Described
<1>6. Abstract!Swallow(job)
  <2>1. serving = TRUE /\ serving' = TRUE /\ (torn # "no") = TRUE /\ (torn' # "no") = TRUE
    BY <1>1 DEF serving
  <2>2. recordsIn(file', Len(file')) = recordsIn(file, Len(file))
    BY <1>1
  <2> QED BY <1>1, <1>2, <2>1, <2>2 DEF Abstract!Swallow
<1> QED BY <1>1, <1>5, <1>6 DEF Implements, Abstract!Next

LEMMA FlushStep ==
    ASSUME NEW L, NEW e, NEW t, NEW w, Described(L, e, t, w), Flush
    PROVE  JInv' /\ Implements
<1>1. pc = "open" /\ pc' = "open" /\ synced' = Len(file) /\ UNCHANGED <<file, store, safe, torn, written, job>>
  BY DEF Flush, history
<1>2. /\ Layout(file', L, e, t, w) /\ Kept(safe', L, e, synced')
      /\ recordsIn(file, Len(file)) = L /\ Len(recordsIn(file', synced')) = Len(L)
      /\ Len(file) \in Nat /\ synced' \in Nat /\ synced' <= Len(file')
  BY <1>1, SyncedAll
<1>3. NothingBehind(file, L, e, w)' = NothingBehind(file, L, e, w)
  BY <1>1 DEF NothingBehind
<1>4. (torn = "no" => Whole(L, e, t, w)') /\ (torn # "no" => Torn(L, e, w)')
  BY <1>1 DEF Whole, Torn, serving, Described, Control
<1>5. Control(L, e, t, w)'
  BY <1>1, <1>2, <1>3, <1>4 DEF Control, Described
<1>6. JInv'
  BY <1>2, <1>5 DEF JInv, Described
<1>7. Abstract!Harden
  <2>1. serving' = serving
    BY <1>1 DEF serving
  <2> QED BY <1>1, <1>2, <2>1 DEF Abstract!Harden
<1> QED BY <1>6, <1>7 DEF Implements, Abstract!Next

(* What was synced stays, and what is left of the rest is a prefix. *)
LEMMA CrashStep ==
    ASSUME NEW L, NEW e, NEW t, NEW w, Described(L, e, t, w), Crash
    PROVE  JInv' /\ Implements
<1>0. /\ Len(L) \in Nat /\ L \in Seq(Records) /\ Layout(file, L, e, t, w) /\ Len(file) \in Nat
      /\ (\A i \in 0..Len(L) : e[i] \in Nat) /\ synced \in Nat /\ synced <= Len(file)
  BY LayoutTypes DEF Described, Control
<1>1. PICK n \in synced..Len(file) : file' = SubSeq(file, 1, n)
  BY DEF Crash
<1>2. n \in Nat /\ n <= Len(file) /\ synced <= n
  BY <1>0
<1>3. PICK K \in 0..Len(L) : e[K] <= n /\ (K < Len(L) => n < e[K + 1])
  BY <1>0, <1>2, LastBefore DEF Layout
<1>4. PICK M, d : M = SubSeq(L, 1, K) /\ d = [i \in 0..K |-> e[i]]
  OBVIOUS
<1>4a. /\ M \in Seq(Records) /\ Len(M) = K /\ (\A i \in 1..K : M[i] = L[i]) /\ Len(file') = n
       /\ CutTo(file, L, e, w, file', M, d)
  <2>1. d \in [0..K -> Nat] /\ (\A i \in 0..K : d[i] = e[i]) /\ M = SubSeq(L, 1, K)
    BY <1>0, <1>4
  <2>2. e[K] <= n /\ (K < Len(L) => n < e[K + 1])
    BY <1>3
  <2>3. file' = SubSeq(file, 1, n)
    BY <1>1
  <2>4. CutOf(file, L, e, n, K, file', M, d)
    BY <1>2, <2>1, <2>2, <2>3 DEF CutOf
  <2> QED BY ONLY <1>0, <2>4, LayoutCut
<1>5. PICK u, v : Layout(file', M, d, u, v) /\ (NothingBehind(file, L, e, w) => NothingBehind(file', M, d, v))
  BY <1>4a DEF CutTo
<1>6. pc' = "down" /\ written' = 0 /\ UNCHANGED <<synced, safe, torn>>
  BY DEF Crash, history
<1>7. Control(M, d, u, v)'
  <2>1. Whole(M, d, u, v)' /\ Torn(M, d, v)'
    BY <1>6 DEF Whole, Torn, serving
  <2>2. torn # "inside" => NothingBehind(file', M, d, v)
    BY <1>5 DEF Described, Control
  <2>3. NothingBehind(file', M, d, v) = NothingBehind(file, M, d, v)'
    BY DEF NothingBehind
  <2> QED BY <1>0, <1>2, <1>4a, <1>6, <2>1, <2>2, <2>3 DEF Described, Control
<1>8. K \in Nat /\ \A i \in 0..K : d[i] = e[i]
  BY <1>0, <1>4
<1>9. Kept(safe', M, d, synced')
  <2>1. ASSUME NEW i \in 1..Len(L), e[i] <= synced PROVE i <= K /\ M[i] = L[i] /\ d[i] <= synced
    <3>1. i <= K
      <4>1. ASSUME K < i PROVE FALSE
        <5>1. K < Len(L) /\ K + 1 \in 0..Len(L) /\ i \in 0..Len(L) /\ (K + 1 < i \/ K + 1 = i)
          BY <1>0, <4>1
        <5>2. e[K + 1] <= e[i] /\ e[K + 1] \in Nat /\ e[i] \in Nat
          BY <1>0, <5>1, OffsetsGrow
        <5> QED BY <1>0, <1>2, <1>3, <2>1, <5>1, <5>2
      <4> QED BY <1>8, <4>1
    <3> QED BY <1>4a, <1>5, <1>8, <2>1, <3>1
  <2>2. Kept(safe, L, e, synced) /\ Len(M) \in Nat /\ Len(M) = K
    BY <1>4a, <1>8 DEF Described
  <2>3. \A i \in 1..Len(L) : e[i] <= synced => i <= Len(M) /\ M[i] = L[i] /\ d[i] <= synced
    BY <2>1, <2>2
  <2>4. Kept(safe, M, d, synced)
    BY ONLY <1>0, <2>2, <2>3, KeptIn
  <2> QED BY <1>6, <2>4
<1>10. JInv'
  BY <1>4a, <1>5, <1>7, <1>9 DEF JInv, Described
<1>11. recordsIn(file, Len(file)) = L /\ recordsIn(file', Len(file')) = M
  BY <1>0, <1>2, <1>4a, <1>5, LogAndSure
<1>12. Len(recordsIn(file, synced)) = Len(recordsIn(file', synced')) /\ Len(recordsIn(file, synced)) \in 0..K
  <2>1. PICK J \in 0..Len(L) : e[J] <= synced /\ (J < Len(L) => synced < e[J + 1]) /\ Len(recordsIn(file, synced)) = J
    BY <1>0, LogAndSure
  <2>2. PICK I \in 0..Len(M) : d[I] <= synced /\ (I < Len(M) => synced < d[I + 1]) /\ Len(recordsIn(file', synced)) = I
    BY <1>0, <1>2, <1>4a, <1>5, LogAndSure
  <2>3. ~(I < J)
    <3>1. ASSUME I < J PROVE FALSE
      <4>1. I \in 0..K /\ I + 1 \in 0..Len(L) /\ (I + 1 < J \/ I + 1 = J)
        BY <1>0, <1>4a, <1>5, <3>1
      <4>2. e[I + 1] <= e[J] /\ e[I + 1] \in Nat /\ e[J] \in Nat
        BY <1>0, <4>1, OffsetsGrow
      <4>3. CASE I < K
        <5>1. I + 1 \in 0..K /\ I < Len(M)
          BY <1>4a, <1>5, <1>8, <4>1, <4>3
        <5> QED BY <1>0, <1>8, <2>1, <2>2, <4>2, <5>1
      <4>4. CASE I = K
        BY <1>0, <1>2, <1>3, <2>1, <4>1, <4>2, <4>4
      <4> QED BY <1>8, <4>1, <4>3, <4>4
    <3> QED BY <3>1
  <2>4. ~(J < I)
    <3>1. ASSUME J < I PROVE FALSE
      <4>1. I \in 0..K /\ I \in 0..Len(L) /\ J < Len(L) /\ J + 1 \in 0..Len(L) /\ (J + 1 < I \/ J + 1 = I)
        BY <1>0, <1>4a, <1>5, <3>1
      <4>2. e[J + 1] <= e[I] /\ e[J + 1] \in Nat /\ e[I] \in Nat
        BY <1>0, <4>1, OffsetsGrow
      <4> QED BY <1>0, <1>8, <2>1, <2>2, <4>1, <4>2
    <3> QED BY <3>1
  <2>5. I \in 0..K /\ I = J
    BY <1>0, <1>4a, <1>5, <2>3, <2>4
  <2> QED BY <1>6, <2>1, <2>2, <2>5
<1>13. Abstract!Crash
  <2>1. serving' = FALSE
    BY <1>6 DEF serving
  <2>2. K \in Len(recordsIn(file, synced))..Len(L)
    BY <1>0, <1>8, <1>12
  <2> QED BY <1>4, <1>6, <1>11, <1>12, <2>1, <2>2 DEF Abstract!Crash
<1> QED BY <1>10, <1>13 DEF Implements, Abstract!Next

-----------------------------------------------------------------------------
LEMMA JournalStep ==
    ASSUME JInv, [Next]_vars
    PROVE  JInv' /\ Implements
<1>1. PICK L, e, t, w : Described(L, e, t, w)
  BY DEF JInv
<1>2. ASSUME NEW h \in Hashes, SaveBlock(h) \/ SetTip(h) \/ SaveStateCheckpoint(h) PROVE JInv' /\ Implements
  <2>1. PICK type \in Types : appendRecord(type, h)
    BY <1>2 DEF SaveBlock, SetTip, SaveStateCheckpoint, Types
  <2> QED BY <1>1, <2>1, AppendStep
<1>3. CASE UNCHANGED vars
  <2>1. Described(L, e, t, w)'
    BY <1>1, <1>3 DEF vars, history, Described, Layout, Control, Kept, Offsets, Holds, Whole, Torn, NothingBehind, serving
  <2>2. UNCHANGED Abstract!vars
    BY <1>3 DEF vars, history, Abstract!vars, serving
  <2> QED BY <2>1, <2>2 DEF JInv, Implements
<1> QED
  BY <1>1, <1>2, <1>3, OpenStep, ReplayRecordStep, TruncateStep, WriteCellStep, WriteBehindStep,
     WriteErrorStep, SyncErrorStep, SyncStep, SwallowStep, FlushStep, CrashStep
     DEF Next

LEMMA JournalInductive == Spec => []JInv
<1>1. Init => JInv
  BY InitDescribed
<1>2. JInv /\ [Next]_vars => JInv'
  BY JournalStep
<1> QED BY <1>1, <1>2, PTL DEF Spec

(* However the writes, their errors, crashes and losses of power fall,     *)
(* replay takes what it finds for a corrupted journal only if a process    *)
(* went on appending behind a record of which a failed write had left a    *)
(* part (appendRecord does not cut it off): in every other case storage.go *)
(* reads to the end of the file or to a torn tail that it may remove.      *)
THEOREM RecoveryAlwaysSucceeds == Spec => []RecoveryNeverFatal
<1>1. JInv => RecoveryNeverFatal
  BY DEF JInv, Described, Control, RecoveryNeverFatal
<1> QED BY <1>1, JournalInductive, PTL

(* Every record that SaveBlock, SetTip or SaveStateCheckpoint returned     *)
(* success for stays in the journal, in order, through every crash and     *)
(* every truncation of a torn tail, except those that a process            *)
(* acknowledged after one of its own writes had failed halfway.            *)
THEOREM NothingAcknowledgedIsLost == Spec => []AcknowledgedSurvives
<1>1. JInv => AcknowledgedSurvives
  <2> SUFFICES ASSUME JInv PROVE embeds(safe, recordsIn(file, Len(file)))
    BY DEF AcknowledgedSurvives
  <2>1. PICK L, e, t, w : Described(L, e, t, w)
    BY DEF JInv
  <2>2. recordsIn(file, Len(file)) = L /\ L \in Seq(Records) /\ Len(L) \in Nat
    <3>1. Layout(file, L, e, t, w) /\ Len(file) \in Nat
      BY <2>1, LayoutTypes DEF Described
    <3> QED BY <3>1, LogAndSure, LayoutTypes
  <2>3. PICK at \in [1..Len(safe) -> 1..Len(L)] :
             /\ \A i \in 1..Len(safe) : safe[i] = L[at[i]]
             /\ \A i, j \in 1..Len(safe) : i < j => at[i] < at[j]
    BY <2>1 DEF Described, Kept
  <2>4. DOMAIN safe = 1..Len(safe) /\ DOMAIN L = 1..Len(L)
    BY <2>1, <2>2 DEF Described, Kept
  <2> QED BY <2>2, <2>3, <2>4 DEF embeds
<1> QED BY <1>1, JournalInductive, PTL

(* The journal, with its torn cells, failed writes, replay and truncation, *)
(* implements the abstract durable store: Land and Acknowledge are the two *)
(* ends of an append, Recover the end of replay, a crash loses a suffix,   *)
(* and after a half-failed write (Break) what is acknowledged is swallowed *)
(* until the next start.                                                   *)
THEOREM JournalImplementsDurableStore == Spec => ImplementsDurableStore
<1>1. Init => JInv /\ Abstract!Init
  BY InitDescribed
<1>2. JInv /\ [Next]_vars => JInv' /\ [Abstract!Next]_(Abstract!vars)
  BY JournalStep DEF Implements
<1> QED BY <1>1, <1>2, PTL DEF Spec, ImplementsDurableStore, Abstract!Spec
=============================================================================
