------------------------ MODULE ClassicArena_proofs ------------------------
(***************************************************************************)
(* Proofs about the classic heap, for any blocks, requests and sizes of    *)
(* bins.                                                                   *)
(*                                                                         *)
(* Every operation takes chunks out of the bins or the hands of clients,   *)
(* works on one of them, and puts it back.  The lemmas say what each part  *)
(* of an operation does to a heap that is consistent but for the chunk in  *)
(* hand; the invariant is that a heap without one is consistent.           *)
(***************************************************************************)
EXTENDS ClassicArena, FiniteSetTheorems, WellFoundedInduction, SequenceTheorems, TLAPS

Aligned(n) == n % Alignment = 0

BlockEnd(b) == b + BlockSize[b]

\* The chunk at p is inside block b, and is marked if it is the last one there.
LiesIn(h, p, b) ==
    /\ b <= p /\ Successor(h, p) <= BlockEnd(b)
    /\ h[p].last <=> Successor(h, p) = BlockEnd(b)

\* The chunks follow each other from the beginning of each block to its end.
Tiled(h) ==
    /\ IsFiniteSet(DOMAIN h)
    /\ \A p \in DOMAIN h :
          /\ p \in Nat /\ Aligned(p)
          /\ h[p] \in Header /\ h[p].size >= SmallestBin /\ Aligned(h[p].size)
          /\ \E b \in Block \cap DOMAIN h : LiesIn(h, p, b)
          /\ ~h[p].last => Successor(h, p) \in DOMAIN h
    /\ \A p, q \in DOMAIN h : p < q => Successor(h, p) <= q

\* The free chunks other than p.
FreeBut(h, p) == {q \in DOMAIN h \ {p} : h[q].free}

\* The list l of bin i holds the chunks in L that belong there, in order.
ListHolds(h, l, i, L) ==
    /\ \A k \in 1..Len(l) : l[k] \in L /\ SizeToBinIndex(h[l[k]].size) = i
    /\ \A j, k \in 1..Len(l) : j < k =>
          l[j] # l[k] /\ h[l[j]].size <= h[l[k]].size
    /\ \A q \in L : SizeToBinIndex(h[q].size) = i => \E k \in 1..Len(l) : l[k] = q

\* The bins b hold the chunks in L, each in the bin of its size.
BinsHold(h, b, L) ==
    /\ b \in [BinIndex -> Seq(Nat)]
    /\ \A i \in BinIndex : ListHolds(h, b[i], i, L)

\* Each chunk in L has its footer, and there is no other outside of p.
FootersOf(h, f, L, p) ==
    /\ \A q \in L : Successor(h, q) \in DOMAIN f /\ f[Successor(h, q)] = h[q].size
    /\ \A e \in DOMAIN f :
          /\ e \in Nat
          /\ \/ \E q \in L : Successor(h, q) = e
             \/ p \in DOMAIN h /\ p < e /\ e <= Successor(h, p)

\* The chunk after a chunk in L knows it.
FlagsOf(h, L) == \A q \in L : ~h[q].last => h[Successor(h, q)].predFree

\* The clients hold what is not free, other than p.
GrantsOf(h, g, p) ==
    /\ DOMAIN g = {q \in DOMAIN h \ {p} : ~h[q].free}
    /\ \A q \in DOMAIN g : g[q] = h[q].size

OverheadOf(h, o) ==
    o = ChunkOverheadSize * (Cardinality(DOMAIN h) - Cardinality(Block \cap DOMAIN h))

\* The headers, bins, footers, grants and overhead agree, but for the chunk p that
\* an operation has in hand.
Consistent(h, b, f, g, o, p) ==
    /\ Tiled(h)
    /\ BinsHold(h, b, FreeBut(h, p))
    /\ FootersOf(h, f, FreeBut(h, p), p)
    /\ FlagsOf(h, FreeBut(h, p))
    /\ GrantsOf(h, g, p)
    /\ OverheadOf(h, o)

NoChunk == -1

IInv ==
    /\ Consistent(chunk, bins, footer, granted, overhead, NoChunk)
    /\ undefined \in BOOLEAN

-----------------------------------------------------------------------------
(* Sizes *)

LEMMA Positive ==
    /\ Alignment \in Nat /\ Alignment > 0
    /\ ChunkOverheadSize \in Nat /\ ChunkOverheadSize > 0
    /\ SmallestBin \in Nat /\ SmallestBin > 0 /\ Aligned(SmallestBin)
    /\ SizeModulus \in Nat /\ LargestBin \in Nat /\ LargestBin > 0
BY ArenaSizesAssumption DEF Aligned

LEMMA DivisionIs ==
    ASSUME NEW a \in Int, NEW d \in Nat, d > 0
    PROVE  /\ a = d * (a \div d) + (a % d)
           /\ a \div d \in Int /\ a % d \in Nat /\ a % d < d
OBVIOUS

LEMMA ProductGrows ==
    ASSUME NEW d \in Nat, NEW m \in Int, NEW n \in Int, m < n
    PROVE  d * m + d <= d * n
<1>1. PICK k \in Nat : n = m + 1 + k
  <2>1. n - m - 1 \in Nat /\ n = m + 1 + (n - m - 1)
    OBVIOUS
  <2> QED
    BY <2>1
<1>2. d * n = d * m + d + d * k
  BY <1>1
<1>3. d * k >= 0
  OBVIOUS
<1> QED
  BY <1>2, <1>3

LEMMA RemainderIs ==
    ASSUME NEW d \in Nat, NEW k \in Int, NEW r \in Nat, r < d
    PROVE  (d * k + r) % d = r
<1>1. PICK a \in Int : a = d * k + r
  OBVIOUS
<1>2. PICK q \in Int, m \in Nat : a = d * q + m /\ m < d /\ m = a % d
  BY <1>1, DivisionIs
<1>3. d * q \in Int /\ d * k \in Int
  OBVIOUS
<1>4. CASE q = k
  <2>1. m = r
    BY <1>1, <1>2, <1>3, <1>4
  <2> QED
    BY <1>1, <1>2, <2>1
<1>5. CASE q < k
  <2>1. d * q + d <= d * k
    BY <1>5, ProductGrows
  <2> QED
    BY <1>1, <1>2, <1>3, <2>1
<1>6. CASE k < q
  <2>1. d * k + d <= d * q
    BY <1>6, ProductGrows
  <2> QED
    BY <1>1, <1>2, <1>3, <2>1
<1> QED
  BY <1>4, <1>5, <1>6

LEMMA AlignedIs == \A n \in Int : Aligned(n) <=> \E k \in Int : n = Alignment * k
<1>1. ASSUME NEW n \in Int, Aligned(n)
      PROVE  \E k \in Int : n = Alignment * k
  <2>1. n = Alignment * (n \div Alignment) + (n % Alignment) /\ n \div Alignment \in Int
    BY Positive, DivisionIs
  <2>2. n = Alignment * (n \div Alignment)
    BY <1>1, <2>1, Positive DEF Aligned
  <2> QED
    BY <2>1, <2>2
<1>2. ASSUME NEW k \in Int
      PROVE  Aligned(Alignment * k)
  <2>1. (Alignment * k + 0) % Alignment = 0
    BY Positive, RemainderIs
  <2>2. Alignment * k + 0 = Alignment * k
    BY Positive
  <2> QED
    BY <2>1, <2>2 DEF Aligned
<1> QED
  BY <1>1, <1>2

LEMMA AlignedSums ==
    ASSUME NEW m \in Int, NEW n \in Int, Aligned(m), Aligned(n)
    PROVE  Aligned(m + n) /\ Aligned(m - n)
<1>1. PICK j \in Int, k \in Int : m = Alignment * j /\ n = Alignment * k
  BY AlignedIs
<1>2. m + n = Alignment * (j + k) /\ m - n = Alignment * (j - k)
  BY <1>1, Positive
<1>3. j + k \in Int /\ j - k \in Int /\ m + n \in Int /\ m - n \in Int
  OBVIOUS
<1> QED
  BY <1>2, <1>3, AlignedIs

LEMMA RoundUpCovers ==
    ASSUME NEW n \in Nat
    PROVE  RoundUp(n, Alignment) \in Int /\ RoundUp(n, Alignment) >= n
<1>1. PICK a \in Int : a = n + Alignment - 1
  BY Positive
<1>2. PICK q \in Int, r \in Nat : /\ q = a \div Alignment
                                  /\ a = Alignment * q + r /\ r < Alignment
  BY Positive, DivisionIs
<1>3. RoundUp(n, Alignment) = q * Alignment
  BY <1>1, <1>2 DEF RoundUp
<1>4. q * Alignment \in Int /\ q * Alignment = Alignment * q
  BY Positive
<1> QED
  BY <1>1, <1>2, <1>3, <1>4, Positive

LEMMA Wraps ==
    ASSUME NEW n \in Nat, NEW d \in Nat, d > 0
    PROVE  /\ n < d => n % d = n
           /\ d <= n /\ n < d + d => n % d = n - d
<1>1. ASSUME n < d
      PROVE  n % d = n
  <2>1. (d * 0 + n) % d = n
    BY <1>1, RemainderIs
  <2> QED
    BY <2>1
<1>2. ASSUME d <= n, n < d + d
      PROVE  n % d = n - d
  <2>1. n - d \in Nat /\ n - d < d
    BY <1>2
  <2>2. (d * 1 + (n - d)) % d = n - d
    BY <2>1, RemainderIs
  <2>3. d * 1 + (n - d) = n
    OBVIOUS
  <2> QED
    BY <2>2, <2>3
<1> QED
  BY <1>1, <1>2

\* A chunk for a request is aligned and has room for it and the header, and the
\* size that stands for an overflow is none that a chunk has.
LEMMA ChunkSizeIs ==
    ASSUME NEW n \in 1..(SizeModulus - 1)
    PROVE  \/ UserSizeToChunkSize(n) = SizeModulus - 1
           \/ /\ UserSizeToChunkSize(n) \in Nat
              /\ UserSizeToChunkSize(n) >= SmallestBin
              /\ Aligned(UserSizeToChunkSize(n))
              /\ UserSizeToChunkSize(n) - ChunkOverheadSize >= n
<1> USE Positive
<1>1. PICK w \in Nat : w = (n + ChunkOverheadSize) % SizeModulus
  <2>1. SizeModulus > 0 /\ n + ChunkOverheadSize \in Int
    BY ArenaSizesAssumption
  <2> QED
    BY <2>1, DivisionIs
<1>2. PICK sum \in Nat : sum = (w + Alignment - 1) % SizeModulus
  <2>1. SizeModulus > 0 /\ w + Alignment - 1 \in Int
    BY ArenaSizesAssumption
  <2> QED
    BY <2>1, DivisionIs
<1>3. PICK r \in Nat : r = sum % Alignment /\ r < Alignment
  BY DivisionIs
<1>4. PICK aligned \in Int : aligned = sum - r
  OBVIOUS
<1>5. PICK size \in Nat : size = IF aligned < SmallestBin THEN SmallestBin ELSE aligned
  OBVIOUS
<1>6. UserSizeToChunkSize(n) = IF size < n THEN SizeModulus - 1 ELSE size
  BY <1>1, <1>2, <1>3, <1>4, <1>5 DEF UserSizeToChunkSize
<1>7. Aligned(size) /\ size >= SmallestBin
  <2>1. Aligned(aligned)
    <3>1. PICK q \in Int : q = sum \div Alignment
      BY DivisionIs
    <3>2. sum = Alignment * q + r
      BY <1>3, <3>1, DivisionIs
    <3>3. Alignment * q \in Int
      OBVIOUS
    <3>4. aligned = Alignment * q
      BY <1>4, <3>2, <3>3
    <3> QED
      BY <3>3, <3>4, AlignedIs
  <2> QED
    BY <1>5, <2>1
<1>8. /\ ChunkOverheadSize <= SmallestBin
      /\ SmallestBin + ChunkOverheadSize + Alignment <= SizeModulus
  BY ArenaSizesAssumption
<1>9. CASE n + ChunkOverheadSize < SizeModulus
  <2>1. w = n + ChunkOverheadSize
    BY <1>1, <1>9, Wraps
  <2>2. CASE w + Alignment - 1 < SizeModulus
    <3>1. sum = w + Alignment - 1
      BY <1>2, <2>2, Wraps
    <3>2. aligned >= n + ChunkOverheadSize
      BY <1>3, <1>4, <2>1, <3>1
    <3>3. size - ChunkOverheadSize >= n
      BY <1>5, <3>2
    <3> QED
      BY <1>6, <1>7, <3>3
  <2>3. CASE w + Alignment - 1 >= SizeModulus
    <3>1. w < SizeModulus /\ w + Alignment - 1 \in Nat /\ w + Alignment - 1 < SizeModulus + SizeModulus
      BY <1>8, <1>9, <2>1
    <3>2. sum = w + Alignment - 1 - SizeModulus
      BY <1>2, <1>8, <2>3, <3>1, Wraps
    <3>3. sum < Alignment
      BY <3>1, <3>2
    <3>4. aligned = 0
      BY <1>3, <1>4, <3>3, Wraps
    <3>5. size < n
      BY <1>5, <1>8, <2>1, <2>3, <3>4
    <3> QED
      BY <1>6, <3>5
  <2> QED
    BY <2>2, <2>3
<1>10. CASE n + ChunkOverheadSize >= SizeModulus
  <2>1. /\ n + ChunkOverheadSize < SizeModulus + SizeModulus
        /\ n + ChunkOverheadSize \in Nat /\ SizeModulus > 0
    BY <1>8
  <2>2. w = n + ChunkOverheadSize - SizeModulus
    BY <1>1, <1>10, <2>1, Wraps
  <2>3. w < ChunkOverheadSize
    BY <2>2
  <2>4. w + Alignment - 1 \in Nat /\ w + Alignment - 1 < SizeModulus
    BY <1>8, <2>3
  <2>5. sum = w + Alignment - 1
    BY <1>2, <2>1, <2>4, Wraps
  <2>6. aligned <= sum
    BY <1>3, <1>4
  <2>7. size < n
    BY <1>5, <1>8, <1>10, <2>3, <2>5, <2>6
  <2> QED
    BY <1>6, <2>7
<1> QED
  BY <1>9, <1>10

LEMMA EverySizeHasABinIndex ==
    ASSUME NEW size \in Nat, size > 0
    PROVE  SizeToBinIndex(size) \in BinIndex
<1>1. CASE size <= LargestBin
  BY <1>1, Positive, EverySizeHasABin
<1>2. CASE size > LargestBin
  <2>1. SizeToBinIndex(LargestBin) \in BinIndex
    BY Positive, EverySizeHasABin
  <2>2. BinCount \in Nat /\ BinCount > 0
    BY <2>1, EverySizeHasABin DEF BinIndex
  <2>3. SizeToBinIndex(size) \in {0, BinCount - 1}
    BY <1>2, Positive DEF SizeToBinIndex
  <2> QED
    BY <2>2, <2>3 DEF BinIndex
<1> QED
  BY <1>1, <1>2, Positive

-----------------------------------------------------------------------------
(* The lists of the bins *)

LEMMA LeastExists ==
    ASSUME NEW S, S \subseteq Nat, S # {}
    PROVE  \E m \in S : \A n \in S : m <= n
<1>1. PICK m \in S : \A n \in S : ~(<<n, m>> \in OpToRel(<, Nat))
  BY NatLessThanWellFounded, WFMin
<1>2. \A n \in S : ~(n < m)
  BY <1>1 DEF OpToRel
<1> QED
  BY <1>2

LEMMA InsertShape ==
    ASSUME NEW l \in Seq(Nat), NEW k \in 1..(Len(l) + 1), NEW p \in Nat
    PROVE  /\ InsertAt(l, k, p) \in Seq(Nat)
           /\ Len(InsertAt(l, k, p)) = Len(l) + 1
           /\ InsertAt(l, k, p)[k] = p
           /\ \A j \in 1..(k - 1) : InsertAt(l, k, p)[j] = l[j]
           /\ \A j \in (k + 1)..(Len(l) + 1) : InsertAt(l, k, p)[j] = l[j - 1]
<1>1. PICK n \in Nat : n = Len(l)
  OBVIOUS
<1>2. \A j \in 1..n : l[j] \in Nat
  BY <1>1
<1>3. PICK a : a = SubSeq(l, 1, k - 1)
  OBVIOUS
<1>4. PICK c : c = SubSeq(l, k, n)
  OBVIOUS
<1>5. a \in Seq(Nat) /\ Len(a) = k - 1 /\ \A j \in 1..(k - 1) : a[j] = l[j]
  <2>1. k - 1 \in Nat /\ \A j \in 1..(k - 1) : j \in 1..n
    BY <1>1
  <2> QED
    BY <1>2, <1>3, <2>1, SubSeqProperties
<1>6. c \in Seq(Nat) /\ Len(c) = n - k + 1 /\ \A j \in 1..(n - k + 1) : c[j] = l[k + j - 1]
  <2>1. \A j \in k..n : j \in 1..n
    BY <1>1
  <2> QED
    BY <1>1, <1>2, <1>4, <2>1, SubSeqProperties, SMTT(30)
<1>7. PICK b : b = a \o <<p>>
  OBVIOUS
<1>8. b \in Seq(Nat) /\ Len(b) = k /\ b[k] = p /\ \A j \in 1..(k - 1) : b[j] = l[j]
  <2>1. b = Append(a, p)
    BY <1>5, <1>7, AppendIsConcat
  <2>2. /\ Append(a, p) \in Seq(Nat) /\ Len(Append(a, p)) = Len(a) + 1
        /\ \A j \in 1..Len(a) : Append(a, p)[j] = a[j]
        /\ Append(a, p)[Len(a) + 1] = p
    BY <1>5, AppendProperties
  <2>3. Len(a) = k - 1 /\ Len(a) + 1 = k
    BY <1>5
  <2> QED
    BY <1>5, <2>1, <2>2, <2>3
<1>9. InsertAt(l, k, p) = b \o c
  BY <1>1, <1>3, <1>4, <1>7 DEF InsertAt
<1>10. /\ b \o c \in Seq(Nat) /\ Len(b \o c) = n + 1
       /\ \A j \in 1..(n + 1) : (b \o c)[j] = IF j <= k THEN b[j] ELSE c[j - k]
  <2>1. /\ b \o c \in Seq(Nat) /\ Len(b \o c) = Len(b) + Len(c)
        /\ \A j \in 1..(Len(b) + Len(c)) :
              (b \o c)[j] = IF j <= Len(b) THEN b[j] ELSE c[j - Len(b)]
    BY <1>6, <1>8, ConcatProperties
  <2>2. Len(b) = k /\ Len(b) + Len(c) = n + 1
    BY <1>1, <1>6, <1>8
  <2> QED
    BY <2>1, <2>2
<1>11. \A j \in (k + 1)..(n + 1) : (b \o c)[j] = l[j - 1]
  <2>1. TAKE j \in (k + 1)..(n + 1)
  <2>2. j \in 1..(n + 1) /\ ~(j <= k) /\ j - k \in 1..(n - k + 1) /\ k + (j - k) - 1 = j - 1
    BY <1>1
  <2> QED
    BY <1>6, <1>10, <2>2
<1>12. (b \o c)[k] = p /\ \A j \in 1..(k - 1) : (b \o c)[j] = l[j]
  <2>1. k \in 1..(n + 1) /\ \A j \in 1..(k - 1) : j \in 1..(n + 1) /\ j <= k
    BY <1>1
  <2> QED
    BY <1>8, <1>10, <2>1
<1> QED
  BY <1>1, <1>9, <1>10, <1>11, <1>12

LEMMA RemoveShape ==
    ASSUME NEW l \in Seq(Nat), NEW k \in 1..Len(l)
    PROVE  /\ RemoveAt(l, k) \in Seq(Nat)
           /\ Len(RemoveAt(l, k)) = Len(l) - 1
           /\ \A j \in 1..(k - 1) : RemoveAt(l, k)[j] = l[j]
           /\ \A j \in k..(Len(l) - 1) : RemoveAt(l, k)[j] = l[j + 1]
<1>1. PICK n \in Nat : n = Len(l)
  OBVIOUS
<1>2. \A j \in 1..n : l[j] \in Nat
  BY <1>1
<1>3. PICK a : a = SubSeq(l, 1, k - 1)
  OBVIOUS
<1>4. PICK c : c = SubSeq(l, k + 1, n)
  OBVIOUS
<1>5. a \in Seq(Nat) /\ Len(a) = k - 1 /\ \A j \in 1..(k - 1) : a[j] = l[j]
  <2>1. k - 1 \in Nat /\ \A j \in 1..(k - 1) : j \in 1..n
    BY <1>1
  <2> QED
    BY <1>2, <1>3, <2>1, SubSeqProperties
<1>6. c \in Seq(Nat) /\ Len(c) = n - k /\ \A j \in 1..(n - k) : c[j] = l[k + j]
  <2>1. k + 1 \in Int /\ n \in Int /\ \A j \in (k + 1)..n : l[j] \in Nat
    BY <1>1, <1>2
  <2>2. /\ c \in Seq(Nat) /\ Len(c) = IF k + 1 <= n THEN n - (k + 1) + 1 ELSE 0
        /\ \A j \in 1..(n - (k + 1) + 1) : c[j] = l[(k + 1) + j - 1]
    BY <1>4, <2>1, SubSeqProperties
  <2>3. n - (k + 1) + 1 = n - k /\ \A j \in 1..(n - k) : (k + 1) + j - 1 = k + j
    BY <1>1
  <2> QED
    BY <1>1, <2>2, <2>3, SMTT(30)
<1>7. RemoveAt(l, k) = a \o c
  BY <1>1, <1>3, <1>4 DEF RemoveAt
<1>8. /\ a \o c \in Seq(Nat) /\ Len(a \o c) = n - 1
      /\ \A j \in 1..(n - 1) : (a \o c)[j] = IF j <= k - 1 THEN a[j] ELSE c[j - (k - 1)]
  <2>1. /\ a \o c \in Seq(Nat) /\ Len(a \o c) = Len(a) + Len(c)
        /\ \A j \in 1..(Len(a) + Len(c)) :
              (a \o c)[j] = IF j <= Len(a) THEN a[j] ELSE c[j - Len(a)]
    BY <1>5, <1>6, ConcatProperties
  <2>2. Len(a) = k - 1 /\ Len(a) + Len(c) = n - 1
    BY <1>1, <1>5, <1>6
  <2> QED
    BY <2>1, <2>2
<1>9. \A j \in k..(n - 1) : (a \o c)[j] = l[j + 1]
  <2>1. TAKE j \in k..(n - 1)
  <2>2. /\ j \in 1..(n - 1) /\ ~(j <= k - 1)
        /\ j - (k - 1) \in 1..(n - k) /\ k + (j - (k - 1)) = j + 1
    BY <1>1
  <2> QED
    BY <1>6, <1>8, <2>2
<1>10. \A j \in 1..(k - 1) : (a \o c)[j] = l[j]
  <2>1. \A j \in 1..(k - 1) : j \in 1..(n - 1) /\ j <= k - 1
    BY <1>1
  <2> QED
    BY <1>5, <1>8, <2>1
<1> QED
  BY <1>1, <1>7, <1>8, <1>9, <1>10

\* The place before the first chunk that is not smaller, or at the end.
LEMMA PlaceIs ==
    ASSUME NEW l \in Seq(Nat), NEW h, NEW size \in Nat,
           \A j \in 1..Len(l) : h[l[j]].size \in Nat
    PROVE  /\ Place(l, h, size) \in 1..(Len(l) + 1)
           /\ \A j \in 1..(Place(l, h, size) - 1) : h[l[j]].size < size
           /\ Place(l, h, size) <= Len(l) => h[l[Place(l, h, size)]].size >= size
<1> DEFINE IsPlace(k) == /\ \A j \in 1..(k - 1) : h[l[j]].size < size
                         /\ k <= Len(l) => h[l[k]].size >= size
           S == {k \in 1..Len(l) : ~(h[l[k]].size < size)}
<1>1. PICK n \in Nat : n = Len(l)
  OBVIOUS
<1>2. \E k \in 1..(n + 1) : IsPlace(k)
  <2>1. CASE S = {}
    <3>1. n + 1 \in 1..(n + 1) /\ ~(n + 1 <= n) /\ (n + 1) - 1 = n
      OBVIOUS
    <3> QED
      BY <1>1, <2>1, <3>1
  <2>2. CASE S # {}
    <3>1. S \subseteq Nat
      OBVIOUS
    <3>2. PICK m \in S : \A k \in S : m <= k
      BY <2>2, <3>1, LeastExists
    <3>3. m \in 1..n /\ ~(h[l[m]].size < size)
      BY <1>1
    <3>4. \A j \in 1..(m - 1) : h[l[j]].size < size
      <4>1. TAKE j \in 1..(m - 1)
      <4>2. j \in 1..n /\ ~(m <= j)
        BY <1>1, <3>3
      <4>3. j \notin S
        BY <3>2, <4>2
      <4> QED
        BY <1>1, <4>2, <4>3
    <3>5. h[l[m]].size >= size
      BY <1>1, <3>3
    <3>6. m \in 1..(n + 1)
      BY <3>3
    <3> QED
      BY <1>1, <3>4, <3>5, <3>6
  <2> QED
    BY <2>1, <2>2
<1>3. Place(l, h, size) = CHOOSE k \in 1..(n + 1) : IsPlace(k)
  BY <1>1 DEF Place
<1> HIDE DEF IsPlace
<1>4. Place(l, h, size) \in 1..(n + 1) /\ IsPlace(Place(l, h, size))
  BY <1>2, <1>3
<1> QED
  BY <1>1, <1>4 DEF IsPlace

Sized(h, L) == \A q \in L : q \in Nat /\ h[q].size \in Nat /\ h[q].size > 0

LEMMA ListInsert ==
    ASSUME NEW h, NEW l \in Seq(Nat), NEW i, NEW L, NEW p,
           ListHolds(h, l, i, L), p \notin L, Sized(h, L \cup {p}),
           SizeToBinIndex(h[p].size) = i
    PROVE  ListHolds(h, InsertAt(l, Place(l, h, h[p].size), p), i, L \cup {p})
<1>1. PICK n \in Nat : n = Len(l)
  OBVIOUS
<1>2. PICK size \in Nat : size = h[p].size
  BY DEF Sized
<1>3. \A j \in 1..n : l[j] \in L /\ SizeToBinIndex(h[l[j]].size) = i /\ h[l[j]].size \in Nat
  BY <1>1 DEF ListHolds, Sized
<1>4. PICK k \in 1..(n + 1) : /\ k = Place(l, h, size)
                              /\ \A j \in 1..(k - 1) : h[l[j]].size < size
                              /\ k <= n => h[l[k]].size >= size
  BY <1>1, <1>3, PlaceIs
<1>5. PICK m : m = InsertAt(l, k, p)
  OBVIOUS
<1>6. /\ Len(m) = n + 1 /\ m[k] = p
      /\ \A j \in 1..(k - 1) : m[j] = l[j]
      /\ \A j \in (k + 1)..(n + 1) : m[j] = l[j - 1]
  <2>1. p \in Nat /\ k \in 1..(Len(l) + 1)
    BY <1>1 DEF Sized
  <2>2. /\ Len(InsertAt(l, k, p)) = Len(l) + 1
        /\ InsertAt(l, k, p)[k] = p
        /\ \A j \in 1..(k - 1) : InsertAt(l, k, p)[j] = l[j]
        /\ \A j \in (k + 1)..(Len(l) + 1) : InsertAt(l, k, p)[j] = l[j - 1]
    BY <2>1, InsertShape, SMTT(30)
  <2> QED
    BY <1>1, <1>5, <2>2
<1>7. \A j \in 1..(n + 1) : \/ j \in 1..(k - 1) /\ j \in 1..n
                            \/ j = k
                            \/ j \in (k + 1)..(n + 1) /\ j - 1 \in 1..n /\ k <= j - 1
  OBVIOUS
<1>8. \A j, c \in 1..n : j < c => l[j] # l[c] /\ h[l[j]].size <= h[l[c]].size
  BY <1>1 DEF ListHolds
<1>9. \A j \in 1..n : k <= j => h[l[j]].size >= size
  <2>1. TAKE j \in 1..n
  <2>2. HAVE k <= j
  <2>3. k \in 1..n /\ h[l[k]].size >= size
    BY <1>4, <2>2
  <2>4. j = k \/ h[l[k]].size <= h[l[j]].size
    BY <1>8, <2>2, <2>3
  <2> QED
    BY <1>3, <2>3, <2>4
<1>10. \A j \in 1..(n + 1) : m[j] \in L \cup {p} /\ SizeToBinIndex(h[m[j]].size) = i
  <2>1. TAKE j \in 1..(n + 1)
  <2> QED
    BY <1>3, <1>6, <1>7
<1>11. ASSUME NEW j \in 1..(n + 1), NEW c \in 1..(n + 1), j < c
       PROVE  m[j] # m[c] /\ h[m[j]].size <= h[m[c]].size
  <2>1. CASE j \in 1..(k - 1) /\ c \in 1..(k - 1)
    <3>1. j \in 1..n /\ c \in 1..n
      BY <2>1
    <3> QED
      BY <1>6, <1>8, <1>11, <2>1, <3>1
  <2>2. CASE j \in 1..(k - 1) /\ c = k
    <3>1. j \in 1..n
      BY <2>2
    <3>2. m[j] = l[j] /\ m[c] = p /\ l[j] \in L /\ h[l[j]].size < size
      BY <1>3, <1>4, <1>6, <2>2, <3>1
    <3> QED
      BY <1>2, <1>3, <3>1, <3>2
  <2>3. CASE j \in 1..(k - 1) /\ c \in (k + 1)..(n + 1)
    <3>1. j \in 1..n /\ c - 1 \in 1..n /\ j < c - 1
      BY <2>3
    <3> QED
      BY <1>6, <1>8, <2>3, <3>1
  <2>4. CASE j = k /\ c \in (k + 1)..(n + 1)
    <3>1. c - 1 \in 1..n /\ k <= c - 1
      BY <2>4
    <3>2. m[j] = p /\ m[c] = l[c - 1] /\ l[c - 1] \in L /\ h[l[c - 1]].size >= size
      BY <1>3, <1>6, <1>9, <2>4, <3>1
    <3> QED
      BY <1>2, <1>3, <3>1, <3>2
  <2>5. CASE j \in (k + 1)..(n + 1) /\ c \in (k + 1)..(n + 1)
    <3>1. j - 1 \in 1..n /\ c - 1 \in 1..n /\ j - 1 < c - 1
      BY <1>11, <2>5
    <3> QED
      BY <1>6, <1>8, <2>5, <3>1, SMTT(30)
  <2> QED
    BY <1>7, <1>11, <2>1, <2>2, <2>3, <2>4, <2>5
<1>12. ASSUME NEW q \in L \cup {p}, SizeToBinIndex(h[q].size) = i
       PROVE  \E j \in 1..(n + 1) : m[j] = q
  <2>1. CASE q = p
    BY <1>6, <2>1
  <2>2. CASE q \in L
    <3>1. PICK j \in 1..n : l[j] = q
      BY <1>1, <1>12, <2>2 DEF ListHolds
    <3>2. CASE j < k
      <4>1. j \in 1..(k - 1) /\ j \in 1..(n + 1)
        BY <3>2
      <4> QED
        BY <1>6, <3>1, <4>1
    <3>3. CASE ~(j < k)
      <4>1. j + 1 \in (k + 1)..(n + 1) /\ j + 1 \in 1..(n + 1) /\ (j + 1) - 1 = j
        BY <3>3
      <4> QED
        BY <1>6, <3>1, <4>1
    <3> QED
      BY <3>2, <3>3
  <2> QED
    BY <2>1, <2>2
<1>13. ListHolds(h, m, i, L \cup {p})
  BY <1>6, <1>10, <1>11, <1>12 DEF ListHolds
<1> QED
  BY <1>2, <1>4, <1>5, <1>13

LEMMA ListDelete ==
    ASSUME NEW h, NEW l \in Seq(Nat), NEW i, NEW L, NEW p,
           ListHolds(h, l, i, L), NEW k \in 1..Len(l), l[k] = p
    PROVE  ListHolds(h, RemoveAt(l, k), i, L \ {p})
<1>1. PICK n \in Nat : n = Len(l)
  OBVIOUS
<1>2. k \in 1..n /\ l[k] = p
  BY <1>1
<1>3. PICK m : m = RemoveAt(l, k)
  OBVIOUS
<1>4. /\ Len(m) = n - 1
      /\ \A j \in 1..(k - 1) : m[j] = l[j]
      /\ \A j \in k..(n - 1) : m[j] = l[j + 1]
  BY <1>1, <1>3, RemoveShape
<1>5. \A j, c \in 1..n : j < c => l[j] # l[c] /\ h[l[j]].size <= h[l[c]].size
  BY <1>1 DEF ListHolds
<1>6. \A j \in 1..n : j # k => l[j] # p
  <2>1. TAKE j \in 1..n
  <2>2. HAVE j # k
  <2>3. j < k \/ k < j
    BY <2>2
  <2> QED
    BY <1>2, <1>5, <2>3
<1>7. \A j \in 1..(n - 1) : \/ j \in 1..(k - 1) /\ j \in 1..n /\ j # k
                            \/ j \in k..(n - 1) /\ j + 1 \in 1..n /\ j + 1 # k
  OBVIOUS
<1>8. \A j \in 1..n : l[j] \in L /\ SizeToBinIndex(h[l[j]].size) = i
  BY <1>1 DEF ListHolds
<1>9. \A j \in 1..(n - 1) : m[j] \in L \ {p} /\ SizeToBinIndex(h[m[j]].size) = i
  BY <1>4, <1>6, <1>7, <1>8
<1>10. ASSUME NEW j \in 1..(n - 1), NEW c \in 1..(n - 1), j < c
       PROVE  m[j] # m[c] /\ h[m[j]].size <= h[m[c]].size
  <2>1. CASE j \in 1..(k - 1) /\ c \in 1..(k - 1)
    <3>1. j \in 1..n /\ c \in 1..n
      OBVIOUS
    <3> QED
      BY <1>4, <1>5, <1>10, <2>1, <3>1
  <2>2. CASE j \in 1..(k - 1) /\ c \in k..(n - 1)
    <3>1. j \in 1..n /\ c + 1 \in 1..n /\ j < c + 1
      BY <2>2
    <3> QED
      BY <1>4, <1>5, <2>2, <3>1
  <2>3. CASE j \in k..(n - 1) /\ c \in k..(n - 1)
    <3>1. j + 1 \in 1..n /\ c + 1 \in 1..n /\ j + 1 < c + 1
      BY <1>10
    <3>2. m[j] = l[j + 1] /\ m[c] = l[c + 1]
      BY <1>4, <2>3
    <3> QED
      BY <1>5, <3>1, <3>2
  <2> QED
    BY <1>7, <1>10, <2>1, <2>2, <2>3
<1>11. ASSUME NEW q \in L \ {p}, SizeToBinIndex(h[q].size) = i
       PROVE  \E j \in 1..(n - 1) : m[j] = q
  <2>1. PICK j \in 1..n : l[j] = q
    BY <1>1, <1>11 DEF ListHolds
  <2>2. CASE j < k
    <3>1. j \in 1..(k - 1) /\ j \in 1..(n - 1)
      BY <1>2, <2>2
    <3> QED
      BY <1>4, <2>1, <3>1
  <2>3. CASE k < j
    <3>1. j - 1 \in k..(n - 1) /\ j - 1 \in 1..(n - 1) /\ (j - 1) + 1 = j
      BY <2>3
    <3> QED
      BY <1>4, <2>1, <3>1
  <2> QED
    BY <1>2, <2>1, <2>2, <2>3
<1>12. ListHolds(h, m, i, L \ {p})
  BY <1>4, <1>9, <1>10, <1>11 DEF ListHolds
<1> QED
  BY <1>1, <1>2, <1>3, <1>12

LEMMA BinsAdd ==
    ASSUME NEW h, NEW b, NEW L, NEW p,
           BinsHold(h, b, L), p \notin L, Sized(h, L \cup {p})
    PROVE  BinsHold(h, AddFreeChunk(b, h, p), L \cup {p})
<1>1. PICK i \in BinIndex : i = SizeToBinIndex(h[p].size)
  BY EverySizeHasABinIndex DEF Sized
<1>2. PICK l \in Seq(Nat) : l = b[i]
  BY DEF BinsHold
<1>3. PICK m : m = InsertAt(l, Place(l, h, h[p].size), p)
  OBVIOUS
<1>4. m \in Seq(Nat)
  <2>1. \A j \in 1..Len(l) : h[l[j]].size \in Nat
    BY <1>1, <1>2 DEF BinsHold, ListHolds, Sized
  <2>2. h[p].size \in Nat /\ p \in Nat
    BY DEF Sized
  <2>3. Place(l, h, h[p].size) \in 1..(Len(l) + 1)
    BY <2>1, <2>2, PlaceIs
  <2> QED
    BY <1>3, <2>2, <2>3, InsertShape
<1>5. ListHolds(h, m, i, L \cup {p})
  <2>1. ListHolds(h, l, i, L)
    BY <1>1, <1>2 DEF BinsHold
  <2> QED
    BY <1>1, <1>3, <2>1, ListInsert
<1>6. AddFreeChunk(b, h, p) = [b EXCEPT ![i] = m]
  BY <1>1, <1>2, <1>3 DEF AddFreeChunk
<1>7. [b EXCEPT ![i] = m] \in [BinIndex -> Seq(Nat)]
  BY <1>1, <1>4 DEF BinsHold
<1>8. ASSUME NEW j \in BinIndex
      PROVE  ListHolds(h, [b EXCEPT ![i] = m][j], j, L \cup {p})
  <2>1. CASE j = i
    BY <1>5, <2>1 DEF BinsHold
  <2>2. CASE j # i
    <3>1. [b EXCEPT ![i] = m][j] = b[j] /\ ListHolds(h, b[j], j, L)
      BY <2>2 DEF BinsHold
    <3>2. ListHolds(h, b[j], j, L \cup {p})
      BY <1>1, <2>2, <3>1 DEF ListHolds
    <3> QED
      BY <3>1, <3>2
  <2> QED
    BY <2>1, <2>2
<1> QED
  BY <1>6, <1>7, <1>8 DEF BinsHold

LEMMA BinsRemove ==
    ASSUME NEW h, NEW b, NEW L, NEW p,
           BinsHold(h, b, L), p \in L, Sized(h, L)
    PROVE  BinsHold(h, RemoveChunkFromBin(b, h, p), L \ {p})
<1>1. PICK i \in BinIndex : i = SizeToBinIndex(h[p].size)
  BY EverySizeHasABinIndex DEF Sized
<1>2. PICK l \in Seq(Nat) : l = b[i]
  BY DEF BinsHold
<1>3. PICK k : k = CHOOSE j \in DOMAIN l : l[j] = p
  OBVIOUS
<1>4. PICK m : m = RemoveAt(l, k)
  OBVIOUS
<1>5. k \in 1..Len(l) /\ ListHolds(h, m, i, L \ {p})
  <2>1. ListHolds(h, l, i, L)
    BY <1>1, <1>2 DEF BinsHold
  <2>2. \E j \in DOMAIN l : l[j] = p
    BY <1>1, <2>1 DEF ListHolds
  <2>3. k \in 1..Len(l) /\ l[k] = p
    BY <1>3, <2>2
  <2>4. ListHolds(h, RemoveAt(l, k), i, L \ {p})
    BY <2>1, <2>3, ListDelete
  <2> QED
    BY <1>4, <2>3, <2>4
<1>6. m \in Seq(Nat)
  BY <1>4, <1>5, RemoveShape
<1>7. RemoveChunkFromBin(b, h, p) = [b EXCEPT ![i] = m]
  BY <1>1, <1>2, <1>3, <1>4 DEF RemoveChunkFromBin
<1>8. [b EXCEPT ![i] = m] \in [BinIndex -> Seq(Nat)]
  BY <1>1, <1>6 DEF BinsHold
<1>9. ASSUME NEW j \in BinIndex
      PROVE  ListHolds(h, [b EXCEPT ![i] = m][j], j, L \ {p})
  <2>1. CASE j = i
    BY <1>5, <2>1 DEF BinsHold
  <2>2. CASE j # i
    <3>1. [b EXCEPT ![i] = m][j] = b[j] /\ ListHolds(h, b[j], j, L)
      BY <2>2 DEF BinsHold
    <3>2. ListHolds(h, b[j], j, L \ {p})
      BY <1>1, <2>2, <3>1 DEF ListHolds
    <3> QED
      BY <3>1, <3>2
  <2> QED
    BY <2>1, <2>2
<1> QED
  BY <1>7, <1>8, <1>9 DEF BinsHold

LEMMA BinsSame ==
    ASSUME NEW h, NEW k, NEW b, NEW L,
           BinsHold(h, b, L), \A q \in L : h[q].size = k[q].size
    PROVE  BinsHold(k, b, L)
<1>1. ASSUME NEW i \in BinIndex
      PROVE  ListHolds(k, b[i], i, L)
  <2>1. ListHolds(h, b[i], i, L)
    BY DEF BinsHold
  <2>2. \A j \in 1..Len(b[i]) : b[i][j] \in L
    BY <2>1 DEF ListHolds
  <2> QED
    BY <2>1, <2>2 DEF ListHolds
<1> QED
  BY <1>1 DEF BinsHold

-----------------------------------------------------------------------------
(* Chunks that tile the blocks *)

LEMMA BlockFacts ==
    ASSUME NEW b \in Block
    PROVE  /\ b \in Nat /\ Aligned(b)
           /\ BlockSize[b] \in Nat /\ Aligned(BlockSize[b])
           /\ SmallestBin <= BlockSize[b] /\ BlockSize[b] <= SizeModulus - 2
           /\ BlockEnd(b) \in Nat /\ b < BlockEnd(b)
           /\ \A c \in Block : b < c => BlockEnd(b) < c
<1>1. b \in Nat /\ b % Alignment = 0
  BY ClassicArenaAssumption
<1>2. BlockSize[b] \in {n \in SmallestBin..(SizeModulus - 2) : n % Alignment = 0}
  BY ClassicArenaAssumption
<1>3. \A c \in Block : b < c => b + BlockSize[b] < c
  BY ClassicArenaAssumption
<1>4. PICK n \in Nat : n = BlockSize[b] /\ SmallestBin <= n /\ n <= SizeModulus - 2
  BY <1>2, Positive
<1>5. Aligned(BlockSize[b])
  BY <1>2 DEF Aligned
<1>6. b + n \in Nat /\ b < b + n
  BY <1>1, <1>4, Positive
<1> QED
  BY <1>1, <1>3, <1>4, <1>5, <1>6 DEF Aligned, BlockEnd

LEMMA ChunkFacts ==
    ASSUME NEW h, Tiled(h), NEW p \in DOMAIN h
    PROVE  /\ p \in Nat /\ Aligned(p)
           /\ h[p] \in Header
           /\ h[p].size \in Nat /\ h[p].size >= SmallestBin /\ Aligned(h[p].size)
           /\ h[p].size > 0
           /\ h[p].free \in BOOLEAN /\ h[p].predFree \in BOOLEAN /\ h[p].last \in BOOLEAN
           /\ Successor(h, p) \in Nat /\ p < Successor(h, p)
           /\ Successor(h, p) = p + h[p].size
<1>1. /\ p \in Nat /\ Aligned(p)
      /\ h[p] \in Header /\ h[p].size >= SmallestBin /\ Aligned(h[p].size)
  BY DEF Tiled
<1>2. /\ h[p].size \in Nat
      /\ h[p].free \in BOOLEAN /\ h[p].predFree \in BOOLEAN /\ h[p].last \in BOOLEAN
  BY <1>1 DEF Header
<1>3. h[p].size > 0
  BY <1>1, <1>2, Positive
<1>4. Successor(h, p) \in Nat /\ p < Successor(h, p)
  BY <1>1, <1>2, <1>3 DEF Successor
<1> QED
  BY <1>1, <1>2, <1>3, <1>4 DEF Successor

LEMMA ChunksAreSized ==
    ASSUME NEW h, Tiled(h), NEW L, L \subseteq DOMAIN h
    PROVE  Sized(h, L)
BY ChunkFacts DEF Sized

\* A chunk is no larger than its block.
LEMMA ChunkIsBelowModulus ==
    ASSUME NEW h, Tiled(h), NEW p \in DOMAIN h
    PROVE  h[p].size <= SizeModulus - 2
<1>1. PICK b \in Block \cap DOMAIN h : LiesIn(h, p, b)
  BY DEF Tiled
<1>2. b <= p /\ p + h[p].size <= b + BlockSize[b]
  BY <1>1 DEF LiesIn, Successor, BlockEnd
<1> QED
  BY <1>2, BlockFacts, ChunkFacts, Positive

\* No block begins inside of a chunk or where one ends.
LEMMA BlocksBeginApart ==
    ASSUME NEW h, Tiled(h), NEW p \in DOMAIN h, NEW b \in Block,
           p < b, b <= Successor(h, p)
    PROVE  FALSE
<1>1. PICK c \in Block \cap DOMAIN h : LiesIn(h, p, c)
  BY DEF Tiled
<1>2. c \in Nat /\ BlockEnd(c) \in Nat /\ b \in Nat /\ (c < b => BlockEnd(c) < b)
  BY BlockFacts
<1>3. p \in Nat /\ Successor(h, p) \in Nat
  BY ChunkFacts
<1> QED
  BY <1>1, <1>2, <1>3 DEF LiesIn

LEMMA EndsDiffer ==
    ASSUME NEW h, Tiled(h), NEW p \in DOMAIN h, NEW q \in DOMAIN h, p # q
    PROVE  /\ Successor(h, q) <= p \/ Successor(h, p) < Successor(h, q)
           /\ Successor(h, q) # Successor(h, p)
           /\ p < q => Successor(h, p) <= q
<1>1. /\ p \in Nat /\ Successor(h, p) \in Nat /\ p < Successor(h, p)
      /\ q \in Nat /\ Successor(h, q) \in Nat /\ q < Successor(h, q)
  BY ChunkFacts
<1>2. /\ p < q => Successor(h, p) <= q
      /\ q < p => Successor(h, q) <= p
  BY DEF Tiled
<1> QED
  BY <1>1, <1>2

LEMMA SameBlock ==
    ASSUME NEW h, Tiled(h), NEW p \in DOMAIN h, ~h[p].last,
           NEW b \in Block, LiesIn(h, p, b)
    PROVE  /\ Successor(h, p) \in DOMAIN h
           /\ LiesIn(h, Successor(h, p), b)
<1>1. PICK s : s = Successor(h, p)
  OBVIOUS
<1>2. s \in DOMAIN h
  BY <1>1 DEF Tiled
<1>3. PICK c \in Block \cap DOMAIN h : LiesIn(h, s, c)
  BY <1>2 DEF Tiled
<1>4. /\ p \in Nat /\ p < s /\ s \in Nat
      /\ Successor(h, s) \in Nat /\ s < Successor(h, s)
  BY <1>1, <1>2, ChunkFacts
<1>5. /\ b \in Nat /\ BlockEnd(b) \in Nat /\ c \in Nat /\ BlockEnd(c) \in Nat
      /\ c < b => BlockEnd(c) < b
      /\ b < c => BlockEnd(b) < c
  BY BlockFacts
<1>6. b <= p /\ s <= BlockEnd(b) /\ c <= s /\ Successor(h, s) <= BlockEnd(c)
  BY <1>1, <1>3 DEF LiesIn
<1>7. b = c
  BY <1>4, <1>5, <1>6
<1> QED
  BY <1>1, <1>2, <1>3, <1>7

LEMMA FollowedIsNotLast ==
    ASSUME NEW h, Tiled(h), NEW p \in DOMAIN h, Successor(h, p) \in DOMAIN h
    PROVE  ~h[p].last
<1>1. PICK s : s = Successor(h, p)
  OBVIOUS
<1>2. PICK b \in Block \cap DOMAIN h : LiesIn(h, p, b)
  BY DEF Tiled
<1>3. PICK c \in Block \cap DOMAIN h : LiesIn(h, s, c)
  BY <1>1 DEF Tiled
<1>4. /\ p \in Nat /\ p < s /\ s \in Nat
      /\ Successor(h, s) \in Nat /\ s < Successor(h, s)
  BY <1>1, ChunkFacts
<1>5. /\ b \in Nat /\ BlockEnd(b) \in Nat /\ c \in Nat /\ BlockEnd(c) \in Nat
      /\ c < b => BlockEnd(c) < b
      /\ b < c => BlockEnd(b) < c
  BY BlockFacts
<1>6. b <= p /\ s <= BlockEnd(b) /\ c <= s /\ Successor(h, s) <= BlockEnd(c)
  BY <1>1, <1>2, <1>3 DEF LiesIn
<1>7. s # BlockEnd(b)
  BY <1>4, <1>5, <1>6
<1> QED
  BY <1>1, <1>2, <1>7 DEF LiesIn

\* The tiling is made by the sizes and the marks of the last chunks alone.
LEMMA TiledSame ==
    ASSUME NEW h, NEW k, Tiled(h), DOMAIN k = DOMAIN h,
           \A q \in DOMAIN h :
              k[q] \in Header /\ k[q].size = h[q].size /\ k[q].last = h[q].last
    PROVE  Tiled(k)
<1>1. \A q \in DOMAIN h : Successor(k, q) = Successor(h, q)
  BY DEF Successor
<1>2. \A q \in DOMAIN h, b \in Block : LiesIn(h, q, b) => LiesIn(k, q, b)
  BY <1>1 DEF LiesIn
<1>3. ASSUME NEW q \in DOMAIN k
      PROVE  /\ q \in Nat /\ Aligned(q)
             /\ k[q] \in Header /\ k[q].size >= SmallestBin /\ Aligned(k[q].size)
             /\ \E b \in Block \cap DOMAIN k : LiesIn(k, q, b)
             /\ ~k[q].last => Successor(k, q) \in DOMAIN k
  BY <1>1, <1>2 DEF Tiled
<1>4. \A p, q \in DOMAIN k : p < q => Successor(k, p) <= q
  BY <1>1 DEF Tiled
<1> QED
  BY <1>3, <1>4 DEF Tiled

\* The headers k are h, but for the flags that say whether p is free.
IsMarked(h, k, p, x) ==
    /\ Tiled(k) /\ DOMAIN k = DOMAIN h
    /\ \A q \in DOMAIN h : /\ k[q].size = h[q].size /\ k[q].last = h[q].last
                           /\ Successor(k, q) = Successor(h, q)
    /\ k[p].free = x /\ k[p].predFree = h[p].predFree
    /\ \A q \in DOMAIN h \ {p} :
          /\ k[q].free = h[q].free
          /\ k[q].predFree = IF q = Successor(h, p) /\ ~h[p].last
                             THEN x ELSE h[q].predFree

LEMMA MarkFacts ==
    ASSUME NEW h, Tiled(h), NEW p \in DOMAIN h, NEW x \in BOOLEAN,
           NEW k, k = MarkFree(h, p, x)
    PROVE  IsMarked(h, k, p, x)
<1>1. DOMAIN k = DOMAIN h
  BY DEF MarkFree
<1>2. k[p] = [h[p] EXCEPT !.free = x]
  BY DEF MarkFree
<1>3. \A q \in DOMAIN h \ {p} :
         k[q] = IF q = Successor(h, p) /\ ~h[p].last
                THEN [h[q] EXCEPT !.predFree = x] ELSE h[q]
  BY DEF MarkFree
<1>4. \A q \in DOMAIN h : h[q] \in Header
  BY ChunkFacts
<1>5. /\ k[p] \in Header /\ k[p].size = h[p].size /\ k[p].last = h[p].last
      /\ k[p].free = x /\ k[p].predFree = h[p].predFree
  BY <1>2, <1>4 DEF Header
<1>6. \A q \in DOMAIN h \ {p} :
         /\ k[q] \in Header /\ k[q].size = h[q].size /\ k[q].last = h[q].last
         /\ k[q].free = h[q].free
         /\ k[q].predFree = IF q = Successor(h, p) /\ ~h[p].last
                            THEN x ELSE h[q].predFree
  BY <1>3, <1>4 DEF Header
<1>7. \A q \in DOMAIN h :
         k[q] \in Header /\ k[q].size = h[q].size /\ k[q].last = h[q].last
  BY <1>5, <1>6
<1>8. Tiled(k)
  BY <1>1, <1>7, TiledSame
<1>9. \A q \in DOMAIN h : Successor(k, q) = Successor(h, q)
  BY <1>7 DEF Successor
<1> QED
  BY <1>1, <1>5, <1>6, <1>7, <1>8, <1>9 DEF IsMarked

LEMMA MarkTrueFacts ==
    ASSUME NEW h, Tiled(h), NEW p \in DOMAIN h, NEW k, k = MarkFree(h, p, TRUE)
    PROVE  IsMarked(h, k, p, TRUE)
<1>1. \A x \in BOOLEAN : k = MarkFree(h, p, x) => IsMarked(h, k, p, x)
  BY MarkFacts
<1> QED
  BY <1>1, Zenon

\* The headers k are h with the chunks at p and s in one.
IsMerged(h, k, p, s) ==
    /\ s \in DOMAIN h /\ s # p
    /\ Tiled(k) /\ DOMAIN k = DOMAIN h \ {s}
    /\ k[p].free = h[p].free /\ k[p].predFree = h[p].predFree
    /\ k[p].last = h[s].last
    /\ k[p].size = h[p].size + h[s].size
    /\ Successor(k, p) = Successor(h, s)
    /\ \A q \in DOMAIN h \ {p, s} :
          k[q] = h[q] /\ Successor(k, q) = Successor(h, q)
    /\ Block \cap DOMAIN k = Block \cap DOMAIN h

LEMMA MergeFacts ==
    ASSUME NEW h, Tiled(h), NEW p \in DOMAIN h, ~h[p].last,
           NEW s, s = Successor(h, p), NEW k, k = MergeWithSuccessor(h, p)
    PROVE  IsMerged(h, k, p, s)
<1>1. s \in DOMAIN h /\ p < s /\ s \in Nat /\ p \in Nat
  BY ChunkFacts DEF Tiled
<1>2. DOMAIN k = DOMAIN h \ {s}
  BY DEF MergeWithSuccessor
<1>3. k[p] = [h[p] EXCEPT !.size = h[p].size + h[s].size, !.last = h[s].last]
  BY <1>1 DEF MergeWithSuccessor
<1>4. \A q \in DOMAIN h \ {p, s} : k[q] = h[q]
  BY DEF MergeWithSuccessor
<1>5. /\ h[p] \in Header /\ h[s] \in Header
      /\ h[p].size \in Nat /\ h[s].size \in Nat /\ h[s].last \in BOOLEAN
      /\ h[p].size >= SmallestBin /\ Aligned(h[p].size) /\ Aligned(h[s].size)
      /\ s = p + h[p].size /\ Successor(h, s) = s + h[s].size
      /\ s < Successor(h, s) /\ Successor(h, s) \in Nat
  BY <1>1, ChunkFacts
<1>6. /\ k[p].free = h[p].free /\ k[p].predFree = h[p].predFree
      /\ k[p].last = h[s].last
      /\ k[p].size = h[p].size + h[s].size
      /\ k[p] \in Header
  <2>1. PICK m \in Nat : m = h[p].size + h[s].size
    BY <1>5
  <2>2. k[p] = [h[p] EXCEPT !.size = m, !.last = h[s].last]
    BY <1>3, <2>1
  <2> QED
    BY <1>5, <2>1, <2>2 DEF Header
<1>7. Successor(k, p) = Successor(h, s)
  BY <1>1, <1>5, <1>6 DEF Successor
<1>8. \A q \in DOMAIN h \ {p, s} : Successor(k, q) = Successor(h, q)
  BY <1>4 DEF Successor
<1>9. s \notin Block
  BY <1>1, BlocksBeginApart
<1>10. Block \cap DOMAIN k = Block \cap DOMAIN h
  BY <1>2, <1>9
<1>11. ASSUME NEW q \in DOMAIN k
       PROVE  /\ q \in Nat /\ Aligned(q)
              /\ k[q] \in Header /\ k[q].size >= SmallestBin /\ Aligned(k[q].size)
              /\ \E b \in Block \cap DOMAIN k : LiesIn(k, q, b)
              /\ ~k[q].last => Successor(k, q) \in DOMAIN k
  <2>1. q \in DOMAIN h /\ q # s /\ q \in Nat /\ Aligned(q)
    BY <1>2, ChunkFacts
  <2>2. PICK b \in Block \cap DOMAIN h : LiesIn(h, q, b)
    BY <2>1 DEF Tiled
  <2>3. CASE q = p
    <3>1. LiesIn(h, s, b)
      BY <2>2, <2>3, SameBlock
    <3>2. LiesIn(k, q, b)
      BY <1>6, <1>7, <2>2, <2>3, <3>1 DEF LiesIn
    <3>3. Aligned(k[p].size) /\ k[p].size >= SmallestBin
      <4>1. PICK x \in Nat, y \in Nat : x = h[p].size /\ y = h[s].size
        BY <1>5
      <4>2. Aligned(x + y)
        <5>1. x \in Int /\ y \in Int /\ Aligned(x) /\ Aligned(y)
          BY <1>5, <4>1
        <5> QED
          BY <5>1, AlignedSums
      <4>3. x + y >= SmallestBin
        BY <1>5, <4>1, Positive
      <4> QED
        BY <1>6, <4>1, <4>2, <4>3
    <3>4. ~h[s].last => Successor(h, s) \in DOMAIN h /\ Successor(h, s) # s
      BY <1>1, <1>5 DEF Tiled
    <3> QED
      BY <1>2, <1>6, <1>7, <1>10, <2>1, <2>2, <2>3, <3>2, <3>3, <3>4
  <2>4. CASE q # p
    <3>1. k[q] = h[q] /\ Successor(k, q) = Successor(h, q)
      BY <1>4, <1>8, <2>1, <2>4
    <3>2. LiesIn(k, q, b)
      BY <2>2, <3>1 DEF LiesIn
    <3>3. /\ h[q] \in Header /\ h[q].size >= SmallestBin /\ Aligned(h[q].size)
          /\ ~h[q].last => Successor(h, q) \in DOMAIN h
      BY <2>1 DEF Tiled
    <3>4. Successor(h, q) # s
      BY <2>1, <2>4, EndsDiffer
    <3> QED
      BY <1>2, <1>10, <2>1, <2>2, <3>1, <3>2, <3>3, <3>4
  <2> QED
    BY <2>3, <2>4
<1>12. ASSUME NEW x \in DOMAIN k, NEW y \in DOMAIN k, x < y
       PROVE  Successor(k, x) <= y
  <2>1. x \in DOMAIN h /\ y \in DOMAIN h /\ y # s /\ x # s /\ x \in Nat /\ y \in Nat
    BY <1>2, ChunkFacts
  <2>2. CASE x = p
    <3>1. s <= y
      BY <1>12, <2>1, <2>2 DEF Tiled
    <3>2. s < y
      BY <1>1, <2>1, <3>1
    <3> QED
      BY <1>1, <1>7, <2>1, <2>2, <3>2 DEF Tiled
  <2>3. CASE x # p
    <3>1. Successor(h, x) <= y
      BY <1>12, <2>1 DEF Tiled
    <3> QED
      BY <1>8, <2>1, <2>3, <3>1
  <2> QED
    BY <2>2, <2>3
<1>13. IsFiniteSet(DOMAIN k)
  <2>1. IsFiniteSet(DOMAIN h)
    BY DEF Tiled
  <2> QED
    BY <1>2, <2>1, FS_RemoveElement
<1>14. Tiled(k)
  BY <1>11, <1>12, <1>13 DEF Tiled
<1> QED
  BY <1>1, <1>2, <1>4, <1>6, <1>7, <1>8, <1>10, <1>14 DEF IsMerged

\* The chunk at p becomes one of the size n and, after it, one of the rest.
Cut(h, p, n) ==
    [q \in DOMAIN h \cup {p + n} |->
        IF q = p THEN [h[p] EXCEPT !.size = n, !.last = FALSE]
        ELSE IF q = p + n
             THEN [size |-> h[p].size - n, free |-> FALSE,
                   predFree |-> h[p].free, last |-> h[p].last]
        ELSE h[q]]

IsCut(h, p, n) ==
    n \in Nat /\ Aligned(n) /\ n >= SmallestBin /\ h[p].size - n >= SmallestBin

\* The headers k are h with the chunk at p divided at r.
IsDivided(h, k, p, n, r) ==
    /\ r \in Nat /\ p < r /\ r < Successor(h, p) /\ r \notin DOMAIN h
    /\ Tiled(k) /\ DOMAIN k = DOMAIN h \cup {r}
    /\ k[p].free = h[p].free /\ k[p].predFree = h[p].predFree
    /\ k[p].size = n /\ ~k[p].last /\ Successor(k, p) = r
    /\ k[r].size = h[p].size - n /\ k[r].last = h[p].last
    /\ Successor(k, r) = Successor(h, p)
    /\ \A q \in DOMAIN h \ {p} :
          k[q] = h[q] /\ Successor(k, q) = Successor(h, q)
    /\ Block \cap DOMAIN k = Block \cap DOMAIN h

LEMMA CutFacts ==
    ASSUME NEW h, Tiled(h), NEW p \in DOMAIN h, NEW n, IsCut(h, p, n),
           NEW r, r = p + n, NEW k, k = Cut(h, p, n)
    PROVE  IsDivided(h, k, p, n, r)
<1>1. /\ p \in Nat /\ Aligned(p) /\ h[p].size \in Nat /\ Aligned(h[p].size)
      /\ h[p] \in Header /\ h[p].free \in BOOLEAN /\ h[p].last \in BOOLEAN
      /\ Successor(h, p) = p + h[p].size /\ Successor(h, p) \in Nat
  BY ChunkFacts
<1>2. n \in Nat /\ Aligned(n) /\ n >= SmallestBin /\ h[p].size - n >= SmallestBin
  BY DEF IsCut
<1>3. /\ r \in Nat /\ p < r /\ r < Successor(h, p)
      /\ h[p].size - n \in Nat /\ r + (h[p].size - n) = Successor(h, p)
  BY <1>1, <1>2, Positive
<1>4. Aligned(r) /\ Aligned(h[p].size - n)
  <2>1. PICK x \in Nat : x = h[p].size
    BY <1>1
  <2>2. p \in Int /\ n \in Int /\ x \in Int /\ Aligned(p) /\ Aligned(n) /\ Aligned(x)
    BY <1>1, <1>2, <2>1
  <2>3. Aligned(p + n) /\ Aligned(x - n)
    BY <2>2, AlignedSums
  <2> QED
    BY <2>1, <2>3
<1>5. r \notin DOMAIN h
  <2>1. SUFFICES ASSUME r \in DOMAIN h
                 PROVE  FALSE
    OBVIOUS
  <2>2. Successor(h, p) <= r
    BY <1>3, <2>1 DEF Tiled
  <2> QED
    BY <1>3, <2>2
<1>6. r \notin Block
  BY <1>3, BlocksBeginApart
<1>7. DOMAIN k = DOMAIN h \cup {r}
  BY DEF Cut
<1>8. k[p] = [h[p] EXCEPT !.size = n, !.last = FALSE]
  BY DEF Cut
<1>9. k[r] = [size |-> h[p].size - n, free |-> FALSE,
              predFree |-> h[p].free, last |-> h[p].last]
  BY <1>1, <1>3 DEF Cut
<1>10. \A q \in DOMAIN h \ {p} : k[q] = h[q]
  BY <1>5 DEF Cut
<1>11. /\ k[p] \in Header /\ k[p].size = n /\ ~k[p].last
       /\ k[p].free = h[p].free /\ k[p].predFree = h[p].predFree
  BY <1>1, <1>2, <1>8 DEF Header
<1>12. k[r] \in Header /\ k[r].size = h[p].size - n /\ k[r].last = h[p].last
  BY <1>1, <1>3, <1>9 DEF Header
<1>13. Successor(k, p) = r /\ Successor(k, r) = Successor(h, p)
  BY <1>3, <1>11, <1>12 DEF Successor
<1>14. \A q \in DOMAIN h \ {p} : Successor(k, q) = Successor(h, q)
  BY <1>10 DEF Successor
<1>15. Block \cap DOMAIN k = Block \cap DOMAIN h
  BY <1>6, <1>7
<1>16. ASSUME NEW q \in DOMAIN k
       PROVE  /\ q \in Nat /\ Aligned(q)
              /\ k[q] \in Header /\ k[q].size >= SmallestBin /\ Aligned(k[q].size)
              /\ \E b \in Block \cap DOMAIN k : LiesIn(k, q, b)
              /\ ~k[q].last => Successor(k, q) \in DOMAIN k
  <2>1. PICK b \in Block \cap DOMAIN h : LiesIn(h, p, b)
    BY DEF Tiled
  <2>2. /\ b \in Nat /\ BlockEnd(b) \in Nat
        /\ b <= p /\ Successor(h, p) <= BlockEnd(b)
        /\ h[p].last <=> Successor(h, p) = BlockEnd(b)
    BY <2>1, BlockFacts DEF LiesIn
  <2>3. CASE q = p
    <3>1. b <= p /\ r <= BlockEnd(b) /\ r # BlockEnd(b)
      BY <1>1, <1>3, <2>2
    <3>2. LiesIn(k, p, b)
      BY <1>11, <1>13, <3>1 DEF LiesIn
    <3> QED
      BY <1>1, <1>2, <1>7, <1>11, <1>13, <1>15, <2>1, <2>3, <3>2
  <2>4. CASE q = r
    <3>1. LiesIn(k, r, b)
      BY <1>1, <1>3, <1>12, <1>13, <2>2 DEF LiesIn
    <3>2. ~k[r].last => Successor(k, r) \in DOMAIN k
      BY <1>7, <1>12, <1>13 DEF Tiled
    <3> QED
      BY <1>2, <1>3, <1>4, <1>12, <1>15, <2>1, <2>4, <3>1, <3>2
  <2>5. CASE q \in DOMAIN h \ {p}
    <3>1. k[q] = h[q] /\ Successor(k, q) = Successor(h, q)
      BY <1>10, <1>14, <2>5
    <3>2. PICK c \in Block \cap DOMAIN h : LiesIn(h, q, c)
      BY <2>5 DEF Tiled
    <3>3. LiesIn(k, q, c)
      BY <3>1, <3>2 DEF LiesIn
    <3>4. /\ q \in Nat /\ Aligned(q)
          /\ h[q] \in Header /\ h[q].size >= SmallestBin /\ Aligned(h[q].size)
          /\ ~h[q].last => Successor(h, q) \in DOMAIN h
      BY <2>5 DEF Tiled
    <3> QED
      BY <1>7, <1>15, <3>1, <3>2, <3>3, <3>4
  <2> QED
    BY <1>7, <2>3, <2>4, <2>5
<1>17. ASSUME NEW x \in DOMAIN k, NEW y \in DOMAIN k, x < y
       PROVE  Successor(k, x) <= y
  <2>1. \A q \in DOMAIN h : q \in Nat /\ Successor(h, q) \in Nat /\ q < Successor(h, q)
    BY ChunkFacts
  <2>2. CASE x = p /\ y = r
    BY <1>3, <1>13, <2>2
  <2>3. CASE x = p /\ y \in DOMAIN h
    <3>1. Successor(h, p) <= y
      BY <1>17, <2>3 DEF Tiled
    <3> QED
      BY <1>3, <1>13, <2>1, <2>3, <3>1
  <2>4. CASE x = r /\ y \in DOMAIN h
    <3>1. y \in Nat /\ p < y
      BY <1>3, <1>17, <2>1, <2>4
    <3>2. Successor(h, p) <= y
      BY <2>4, <3>1 DEF Tiled
    <3> QED
      BY <1>13, <2>4, <3>2
  <2>5. CASE x \in DOMAIN h \ {p} /\ y = r
    <3>1. x < p \/ p < x
      BY <1>1, <2>1, <2>5
    <3>2. ~(p < x)
      <4>1. p < x => Successor(h, p) <= x
        BY <2>5 DEF Tiled
      <4> QED
        BY <1>3, <1>17, <2>1, <2>5, <4>1
    <3>3. Successor(h, x) <= p
      BY <2>5, <3>1, <3>2 DEF Tiled
    <3> QED
      BY <1>1, <1>3, <1>14, <2>1, <2>5, <3>3
  <2>6. CASE x \in DOMAIN h \ {p} /\ y \in DOMAIN h
    BY <1>14, <1>17, <2>6 DEF Tiled
  <2> QED
    BY <1>3, <1>7, <1>17, <2>2, <2>3, <2>4, <2>5, <2>6
<1>18. IsFiniteSet(DOMAIN k)
  <2>1. IsFiniteSet(DOMAIN h)
    BY DEF Tiled
  <2> QED
    BY <1>7, <2>1, FS_AddElement
<1>19. Tiled(k)
  BY <1>16, <1>17, <1>18 DEF Tiled
<1> QED
  BY <1>3, <1>5, <1>7, <1>10, <1>11, <1>12, <1>13, <1>14, <1>15, <1>19 DEF IsDivided

-----------------------------------------------------------------------------
(* The parts of an operation *)

\* A chunk is taken in hand, to be given away or to be merged with another.
LEMMA TakeFreeKeeps ==
    ASSUME NEW h, NEW b, NEW f, NEW g, NEW o, NEW p,
           Consistent(h, b, f, g, o, NoChunk), p \in DOMAIN h, h[p].free
    PROVE  Consistent(h, RemoveChunkFromBin(b, h, p), f, g, o, p)
<1>1. Tiled(h) /\ OverheadOf(h, o)
  BY DEF Consistent
<1>2. \A q \in DOMAIN h : q # NoChunk
  BY <1>1, ChunkFacts DEF NoChunk
<1>3. PICK L : L = FreeBut(h, NoChunk)
  OBVIOUS
<1>4. p \in L /\ FreeBut(h, p) = L \ {p} /\ L \subseteq DOMAIN h
  BY <1>2, <1>3 DEF FreeBut
<1>5. BinsHold(h, RemoveChunkFromBin(b, h, p), L \ {p})
  <2>1. Sized(h, L)
    BY <1>1, <1>4, ChunksAreSized
  <2>2. BinsHold(h, b, L)
    BY <1>3 DEF Consistent
  <2> QED
    BY <1>4, <2>1, <2>2, BinsRemove
<1>6. FootersOf(h, f, L \ {p}, p)
  <2>1. FootersOf(h, f, L, NoChunk)
    BY <1>3 DEF Consistent
  <2>2. \A e \in DOMAIN f : \E q \in L : Successor(h, q) = e
    BY <1>2, <2>1 DEF FootersOf
  <2>3. p < Successor(h, p) /\ Successor(h, p) <= Successor(h, p) /\ \A e \in DOMAIN f : e \in Nat
    BY <1>1, <2>1, ChunkFacts DEF FootersOf
  <2> QED
    BY <2>1, <2>2, <2>3 DEF FootersOf
<1>7. FlagsOf(h, L \ {p})
  BY <1>3 DEF Consistent, FlagsOf
<1>8. GrantsOf(h, g, p)
  <2>1. GrantsOf(h, g, NoChunk)
    BY DEF Consistent
  <2>2. {q \in DOMAIN h \ {NoChunk} : ~h[q].free} = {q \in DOMAIN h \ {p} : ~h[q].free}
    BY <1>2
  <2> QED
    BY <2>1, <2>2 DEF GrantsOf
<1> QED
  BY <1>1, <1>4, <1>5, <1>6, <1>7, <1>8 DEF Consistent

\* The client of p gives it back, or asks for another size.
LEMMA TakeUsedKeeps ==
    ASSUME NEW h, NEW b, NEW f, NEW g, NEW o, NEW p,
           Consistent(h, b, f, g, o, NoChunk), p \in DOMAIN g
    PROVE  /\ p \in DOMAIN h /\ ~h[p].free /\ g[p] = h[p].size
           /\ Consistent(h, b, f, Restrict(g, DOMAIN g \ {p}), o, p)
<1>1. Tiled(h) /\ OverheadOf(h, o) /\ GrantsOf(h, g, NoChunk)
  BY DEF Consistent
<1>2. \A q \in DOMAIN h : q # NoChunk
  BY <1>1, ChunkFacts DEF NoChunk
<1>3. p \in DOMAIN h /\ ~h[p].free /\ g[p] = h[p].size
  BY <1>1 DEF GrantsOf
<1>4. FreeBut(h, p) = FreeBut(h, NoChunk)
  BY <1>2, <1>3 DEF FreeBut
<1>5. FootersOf(h, f, FreeBut(h, p), p)
  <2>1. FootersOf(h, f, FreeBut(h, p), NoChunk)
    BY <1>4 DEF Consistent
  <2> QED
    BY <1>2, <2>1 DEF FootersOf
<1>6. GrantsOf(h, Restrict(g, DOMAIN g \ {p}), p)
  BY <1>1, <1>2 DEF GrantsOf, Restrict
<1> QED
  BY <1>1, <1>3, <1>4, <1>5, <1>6 DEF Consistent

LEMMA MarkKeeps ==
    ASSUME NEW h, NEW b, NEW f, NEW g, NEW o, NEW p, NEW x \in BOOLEAN,
           Consistent(h, b, f, g, o, p), p \in DOMAIN h
    PROVE  Consistent(MarkFree(h, p, x), b, f, g, o, p)
<1>1. PICK k : k = MarkFree(h, p, x)
  OBVIOUS
<1>2. Tiled(h)
  BY DEF Consistent
<1>3. /\ Tiled(k) /\ DOMAIN k = DOMAIN h
      /\ \A q \in DOMAIN h : /\ k[q].size = h[q].size /\ k[q].last = h[q].last
                             /\ Successor(k, q) = Successor(h, q)
      /\ k[p].free = x /\ k[p].predFree = h[p].predFree
      /\ \A q \in DOMAIN h \ {p} :
            /\ k[q].free = h[q].free
            /\ k[q].predFree = IF q = Successor(h, p) /\ ~h[p].last
                               THEN x ELSE h[q].predFree
  BY <1>1, <1>2, MarkFacts DEF IsMarked
<1>4. FreeBut(k, p) = FreeBut(h, p) /\ FreeBut(h, p) \subseteq DOMAIN h
  BY <1>3 DEF FreeBut
<1>5. BinsHold(k, b, FreeBut(k, p))
  <2>1. \A q \in FreeBut(h, p) : h[q].size = k[q].size
    BY <1>3, <1>4
  <2>2. BinsHold(h, b, FreeBut(h, p))
    BY DEF Consistent
  <2>3. BinsHold(k, b, FreeBut(h, p))
    BY <2>1, <2>2, BinsSame
  <2> QED
    BY <1>4, <2>3
<1>6. FootersOf(k, f, FreeBut(k, p), p)
  <2>1. FootersOf(h, f, FreeBut(h, p), p)
    BY DEF Consistent
  <2> QED
    BY <1>3, <1>4, <2>1 DEF FootersOf
<1>7. FlagsOf(k, FreeBut(k, p))
  <2>1. SUFFICES ASSUME NEW q \in FreeBut(h, p), ~h[q].last
                 PROVE  k[Successor(h, q)].predFree
    BY <1>3, <1>4 DEF FlagsOf
  <2>2. h[Successor(h, q)].predFree
    BY <2>1 DEF Consistent, FlagsOf
  <2>3. q \in DOMAIN h /\ q # p /\ Successor(h, q) \in DOMAIN h
    BY <1>2, <2>1 DEF FreeBut, Tiled
  <2>4. Successor(h, q) # Successor(h, p)
    BY <1>2, <2>3, EndsDiffer
  <2> QED
    BY <1>3, <2>2, <2>3, <2>4
<1>8. GrantsOf(k, g, p)
  <2>1. GrantsOf(h, g, p)
    BY DEF Consistent
  <2>2. {q \in DOMAIN k \ {p} : ~k[q].free} = {q \in DOMAIN h \ {p} : ~h[q].free}
    BY <1>3
  <2> QED
    BY <1>3, <2>1, <2>2 DEF GrantsOf
<1>9. OverheadOf(k, o)
  BY <1>3 DEF Consistent, OverheadOf
<1> QED
  BY <1>1, <1>3, <1>5, <1>6, <1>7, <1>8, <1>9 DEF Consistent

\* Of two neighbours, one is in hand and the other one free: they become one
\* chunk, which is then in hand.
LEMMA MergeKeeps ==
    ASSUME NEW h, NEW b, NEW f, NEW g, NEW o, NEW p, NEW x, NEW c, NEW s,
           NEW k, k = MergeWithSuccessor(h, c), Consistent(h, b, f, g, o, p),
           c \in DOMAIN h, ~h[c].last, s = Successor(h, c),
           \/ p = c /\ x = s
           \/ p = s /\ x = c,
           h[x].free
    PROVE  /\ c \in DOMAIN k /\ IsMerged(h, k, c, s)
           /\ Consistent(k, RemoveChunkFromBin(b, h, x),
                         f, g, o - ChunkOverheadSize, c)
<1>1. Tiled(h)
  BY DEF Consistent
<1>2. IsMerged(h, k, c, s)
  BY <1>1, MergeFacts
<1>3. /\ s \in DOMAIN h /\ s # c
      /\ Tiled(k) /\ DOMAIN k = DOMAIN h \ {s}
      /\ k[c].free = h[c].free /\ k[c].predFree = h[c].predFree
      /\ k[c].last = h[s].last
      /\ k[c].size = h[c].size + h[s].size
      /\ Successor(k, c) = Successor(h, s)
      /\ \A q \in DOMAIN h \ {c, s} :
            k[q] = h[q] /\ Successor(k, q) = Successor(h, q)
      /\ Block \cap DOMAIN k = Block \cap DOMAIN h
  BY <1>2 DEF IsMerged
<1>4. x \in DOMAIN h /\ p \in DOMAIN h /\ x # p /\ {p, x} = {c, s}
  BY <1>3
<1>5. PICK L : L = FreeBut(h, p)
  OBVIOUS
<1>6. PICK M : M = FreeBut(k, c)
  OBVIOUS
<1>7. x \in L /\ M = L \ {x} /\ L \subseteq DOMAIN h /\ M \subseteq DOMAIN h \ {c, s}
  <2>1. M = {q \in DOMAIN h \ {c, s} : h[q].free}
    BY <1>3, <1>6 DEF FreeBut
  <2>2. L \ {x} = {q \in DOMAIN h \ {c, s} : h[q].free}
    BY <1>4, <1>5 DEF FreeBut
  <2> QED
    BY <1>4, <1>5, <2>1, <2>2 DEF FreeBut
<1>8. BinsHold(k, RemoveChunkFromBin(b, h, x), M)
  <2>1. Sized(h, L)
    BY <1>1, <1>7, ChunksAreSized
  <2>2. BinsHold(h, b, L)
    BY <1>5 DEF Consistent
  <2>3. BinsHold(h, RemoveChunkFromBin(b, h, x), M)
    BY <1>7, <2>1, <2>2, BinsRemove
  <2>4. \A q \in M : h[q].size = k[q].size
    BY <1>3, <1>7
  <2> QED
    BY <2>3, <2>4, BinsSame
<1>9. FootersOf(k, f, M, c)
  <2>1. FootersOf(h, f, L, p)
    BY <1>5 DEF Consistent
  <2>2. /\ c \in Nat /\ s \in Nat /\ c < s
        /\ Successor(h, s) \in Nat /\ s < Successor(h, s)
    BY <1>1, <1>3, ChunkFacts
  <2>3. \A q \in M : Successor(k, q) \in DOMAIN f /\ f[Successor(k, q)] = k[q].size
    BY <1>3, <1>7, <2>1 DEF FootersOf
  <2>4. ASSUME NEW e \in DOMAIN f
        PROVE  \/ \E q \in M : Successor(k, q) = e
               \/ c \in DOMAIN k /\ c < e /\ e <= Successor(k, c)
    <3>1. CASE \E q \in M : Successor(h, q) = e
      BY <1>3, <1>7, <3>1
    <3>2. CASE Successor(h, x) = e
      BY <1>3, <1>4, <2>2, <3>2
    <3>3. CASE p < e /\ e <= Successor(h, p)
      <4>1. c \in DOMAIN k /\ e \in Nat
        BY <1>3, <2>1 DEF FootersOf
      <4>2. c < e /\ e <= Successor(h, s)
        BY <1>3, <2>2, <3>3, <4>1
      <4> QED
        BY <1>3, <4>1, <4>2
    <3> QED
      BY <1>7, <2>1, <3>1, <3>2, <3>3 DEF FootersOf
  <2>5. \A e \in DOMAIN f : e \in Nat
    BY <2>1 DEF FootersOf
  <2> QED
    BY <2>3, <2>4, <2>5 DEF FootersOf
<1>10. FlagsOf(k, M)
  <2>1. SUFFICES ASSUME NEW q \in M, ~k[q].last
                 PROVE  k[Successor(k, q)].predFree
    BY DEF FlagsOf
  <2>2. q \in DOMAIN h \ {c, s} /\ k[q] = h[q] /\ Successor(k, q) = Successor(h, q)
    BY <1>3, <1>7
  <2>3. h[Successor(h, q)].predFree
    BY <1>5, <1>7, <2>1, <2>2 DEF Consistent, FlagsOf
  <2>4. Successor(h, q) # s /\ Successor(h, q) \in DOMAIN h
    BY <1>1, <2>1, <2>2, EndsDiffer DEF Tiled
  <2> QED
    BY <1>3, <2>2, <2>3, <2>4
<1>11. GrantsOf(k, g, c)
  <2>1. GrantsOf(h, g, p)
    BY DEF Consistent
  <2>2. {q \in DOMAIN k \ {c} : ~k[q].free} = {q \in DOMAIN h \ {c, s} : ~h[q].free}
    BY <1>3
  <2>3. {q \in DOMAIN h \ {p} : ~h[q].free} = {q \in DOMAIN h \ {c, s} : ~h[q].free}
    BY <1>4
  <2>4. \A q \in DOMAIN h \ {c, s} : k[q].size = h[q].size
    BY <1>3
  <2> QED
    BY <2>1, <2>2, <2>3, <2>4 DEF GrantsOf
<1>12. OverheadOf(k, o - ChunkOverheadSize)
  <2>1. IsFiniteSet(DOMAIN h)
    BY <1>1 DEF Tiled
  <2>2. PICK m \in Nat : m = Cardinality(DOMAIN h)
    BY <2>1, FS_CardinalityType
  <2>3. Cardinality(DOMAIN k) = m - 1
    BY <1>3, <2>1, <2>2, FS_RemoveElement
  <2>4. PICK n \in Nat : n = Cardinality(Block \cap DOMAIN h)
    <3>1. IsFiniteSet(Block \cap DOMAIN h)
      BY <2>1, FS_Subset
    <3> QED
      BY <3>1, FS_CardinalityType
  <2>5. o = ChunkOverheadSize * (m - n)
    BY <2>2, <2>4 DEF Consistent, OverheadOf
  <2>6. o - ChunkOverheadSize = ChunkOverheadSize * ((m - 1) - n)
    BY <2>5, Positive
  <2> QED
    BY <1>3, <2>3, <2>4, <2>6 DEF OverheadOf
<1>13. c \in DOMAIN k
  BY <1>3
<1> QED
  BY <1>2, <1>3, <1>6, <1>8, <1>9, <1>10, <1>11, <1>12, <1>13 DEF Consistent

\* The footer that is written at the end of a chunk replaces those within it.
IsWritten(f, w, p, s, size) ==
    /\ \A e : e \in DOMAIN w <=> \/ e = s
                                 \/ e \in DOMAIN f /\ (e <= p \/ e > s)
    /\ w[s] = size
    /\ \A e \in DOMAIN f : (e <= p \/ e > s) /\ e # s => w[e] = f[e]

LEMMA WriteFooterIs ==
    ASSUME NEW f, NEW h, NEW p, NEW s, s = Successor(h, p),
           NEW w, w = WriteFooter(f, h, p)
    PROVE  IsWritten(f, w, p, s, h[p].size)
<1>1. PICK E : E = {e \in DOMAIN f : e <= p \/ e > s}
  OBVIOUS
<1>2. PICK m : m = Clobber(f, p, h[p].size)
  OBVIOUS
<1>3. m = [e \in E |-> f[e]]
  BY <1>1, <1>2 DEF Clobber, Restrict, Successor
<1>4. w = [e \in DOMAIN m \cup {s} |-> IF e = s THEN h[p].size ELSE m[e]]
  BY <1>2 DEF WriteFooter, Put
<1>5. DOMAIN m = E /\ \A e \in E : m[e] = f[e]
  BY <1>3
<1>6. DOMAIN w = E \cup {s} /\ w[s] = h[p].size /\ \A e \in E : e # s => w[e] = f[e]
  BY <1>4, <1>5
<1> QED
  BY <1>1, <1>6 DEF IsWritten

\* The chunk in hand is marked as free, in its bin and with its footer.
LEMMA PutFreeKeeps ==
    ASSUME NEW h, NEW b, NEW f, NEW g, NEW o, NEW p,
           Consistent(h, b, f, g, o, p), p \in DOMAIN h
    PROVE  Consistent(MarkFree(h, p, TRUE), AddFreeChunk(b, h, p),
                      WriteFooter(f, h, p), g, o, NoChunk)
<1>1. PICK k : k = MarkFree(h, p, TRUE)
  OBVIOUS
<1>2. Tiled(h)
  BY DEF Consistent
<1>3. /\ Tiled(k) /\ DOMAIN k = DOMAIN h
      /\ \A q \in DOMAIN h : /\ k[q].size = h[q].size /\ k[q].last = h[q].last
                             /\ Successor(k, q) = Successor(h, q)
      /\ k[p].free /\ k[p].predFree = h[p].predFree
      /\ \A q \in DOMAIN h \ {p} :
            /\ k[q].free = h[q].free
            /\ h[q].predFree => k[q].predFree
            /\ q = Successor(h, p) /\ ~h[p].last => k[q].predFree
  <2>1. IsMarked(h, k, p, TRUE)
    BY <1>1, <1>2, MarkTrueFacts
  <2> QED
    BY <2>1 DEF IsMarked
<1>4. \A q \in DOMAIN h : q # NoChunk
  BY <1>2, ChunkFacts DEF NoChunk
<1>5. PICK L : L = FreeBut(h, p)
  OBVIOUS
<1>6. FreeBut(k, NoChunk) = L \cup {p} /\ p \notin L /\ L \subseteq DOMAIN h
  BY <1>3, <1>4, <1>5 DEF FreeBut
<1>7. BinsHold(k, AddFreeChunk(b, h, p), L \cup {p})
  <2>1. Sized(h, L \cup {p})
    BY <1>2, <1>6, ChunksAreSized
  <2>2. BinsHold(h, b, L)
    BY <1>5 DEF Consistent
  <2>3. BinsHold(h, AddFreeChunk(b, h, p), L \cup {p})
    BY <1>6, <2>1, <2>2, BinsAdd
  <2>4. \A q \in L \cup {p} : h[q].size = k[q].size
    BY <1>3, <1>6
  <2> QED
    BY <2>3, <2>4, BinsSame
<1>8. FootersOf(k, WriteFooter(f, h, p), L \cup {p}, NoChunk)
  <2>1. FootersOf(h, f, L, p)
    BY <1>5 DEF Consistent
  <2>2. PICK w : w = WriteFooter(f, h, p)
    OBVIOUS
  <2>3. PICK s \in Nat : s = Successor(h, p) /\ s = p + h[p].size /\ p < s /\ p \in Nat
    BY <1>2, ChunkFacts
  <2>4. /\ \A e : e \in DOMAIN w <=> \/ e = s
                                     \/ e \in DOMAIN f /\ (e <= p \/ e > s)
        /\ w[s] = h[p].size
        /\ \A e \in DOMAIN f : (e <= p \/ e > s) /\ e # s => w[e] = f[e]
    <3>1. IsWritten(f, w, p, s, h[p].size)
      BY <2>2, <2>3, WriteFooterIs
    <3> QED
      BY <3>1 DEF IsWritten
  <2>5. \A q \in L : /\ Successor(h, q) \in DOMAIN f /\ Successor(h, q) # s
                     /\ Successor(h, q) <= p \/ Successor(h, q) > s
                     /\ f[Successor(h, q)] = h[q].size
    <3>1. TAKE q \in L
    <3>2. q \in DOMAIN h /\ q # p
      BY <1>6
    <3>3. Successor(h, q) \in Nat
      BY <1>2, <3>2, ChunkFacts
    <3>4. /\ Successor(h, q) <= p \/ Successor(h, p) < Successor(h, q)
          /\ Successor(h, q) # Successor(h, p)
      BY <1>2, <3>2, EndsDiffer
    <3> QED
      BY <2>1, <2>3, <3>3, <3>4 DEF FootersOf
  <2>6. \A q \in L \cup {p} : Successor(k, q) \in DOMAIN w /\ w[Successor(k, q)] = k[q].size
    BY <1>3, <1>6, <2>3, <2>4, <2>5, ZenonT(30)
  <2>7. ASSUME NEW e \in DOMAIN w
        PROVE  e \in Nat /\ \E q \in L \cup {p} : Successor(k, q) = e
    <3>1. CASE e = s
      BY <1>3, <2>3, <3>1
    <3>2. CASE e \in DOMAIN f /\ (e <= p \/ e > s)
      <4>1. e \in Nat /\ ~(p < e /\ e <= s)
        BY <2>1, <2>3, <3>2 DEF FootersOf
      <4>2. \E q \in L : Successor(h, q) = e
        BY <2>1, <2>3, <3>2, <4>1 DEF FootersOf
      <4> QED
        BY <1>3, <1>6, <4>1, <4>2
    <3> QED
      BY <2>4, <3>1, <3>2
  <2> QED
    BY <2>2, <2>6, <2>7 DEF FootersOf
<1>9. FlagsOf(k, L \cup {p})
  <2>1. SUFFICES ASSUME NEW q \in L \cup {p}, ~h[q].last
                 PROVE  k[Successor(h, q)].predFree
    BY <1>3, <1>6 DEF FlagsOf
  <2>2. q \in DOMAIN h /\ Successor(h, q) \in DOMAIN h
    BY <1>2, <1>6, <2>1 DEF Tiled
  <2>3. CASE q = p
    <3>1. Successor(h, p) # p
      BY <1>2, ChunkFacts
    <3> QED
      BY <1>3, <2>1, <2>2, <2>3, <3>1
  <2>4. CASE q \in L
    <3>1. h[Successor(h, q)].predFree
      BY <1>5, <2>1, <2>4 DEF Consistent, FlagsOf
    <3>2. CASE Successor(h, q) = p
      BY <1>3, <3>1, <3>2
    <3>3. CASE Successor(h, q) # p
      BY <1>3, <2>2, <3>1, <3>3
    <3> QED
      BY <3>2, <3>3
  <2> QED
    BY <2>1, <2>3, <2>4
<1>10. GrantsOf(k, g, NoChunk)
  <2>1. GrantsOf(h, g, p)
    BY DEF Consistent
  <2>2. {q \in DOMAIN k \ {NoChunk} : ~k[q].free} = {q \in DOMAIN h \ {p} : ~h[q].free}
    BY <1>3, <1>4
  <2> QED
    BY <1>3, <2>1, <2>2 DEF GrantsOf
<1>11. OverheadOf(k, o)
  BY <1>3 DEF Consistent, OverheadOf
<1> QED
  BY <1>1, <1>3, <1>6, <1>7, <1>8, <1>9, <1>10, <1>11 DEF Consistent

\* The chunk in hand becomes a client's, who may write over what is in it.
LEMMA PutUsedKeeps ==
    ASSUME NEW h, NEW b, NEW f, NEW g, NEW o, NEW p,
           Consistent(h, b, f, g, o, p), p \in DOMAIN h, ~h[p].free
    PROVE  Consistent(h, b, Clobber(f, p, h[p].size), Put(g, p, h[p].size), o, NoChunk)
<1>1. Tiled(h) /\ OverheadOf(h, o)
  BY DEF Consistent
<1>2. \A q \in DOMAIN h : q # NoChunk
  BY <1>1, ChunkFacts DEF NoChunk
<1>3. PICK L : L = FreeBut(h, p)
  OBVIOUS
<1>4. FreeBut(h, NoChunk) = L /\ L \subseteq DOMAIN h /\ p \notin L
  BY <1>2, <1>3 DEF FreeBut
<1>5. FootersOf(h, Clobber(f, p, h[p].size), L, NoChunk)
  <2>1. FootersOf(h, f, L, p)
    BY <1>3 DEF Consistent
  <2>2. PICK s \in Nat : s = Successor(h, p) /\ s = p + h[p].size /\ p < s /\ p \in Nat
    BY <1>1, ChunkFacts
  <2>3. PICK w : w = Clobber(f, p, h[p].size)
    OBVIOUS
  <2>4. w = [e \in {e \in DOMAIN f : e <= p \/ e > s} |-> f[e]]
    BY <2>2, <2>3 DEF Clobber, Restrict
  <2>5. \A q \in L : Successor(h, q) \in DOMAIN w /\ w[Successor(h, q)] = h[q].size
    <3>1. TAKE q \in L
    <3>2. q \in DOMAIN h /\ q # p
      BY <1>4
    <3>3. Successor(h, q) \in Nat
      BY <1>1, <3>2, ChunkFacts
    <3>4. Successor(h, q) <= p \/ Successor(h, p) < Successor(h, q)
      BY <1>1, <3>2, EndsDiffer
    <3> QED
      BY <2>1, <2>2, <2>4, <3>3, <3>4 DEF FootersOf
  <2>6. ASSUME NEW e \in DOMAIN w
        PROVE  e \in Nat /\ \E q \in L : Successor(h, q) = e
    <3>1. e \in DOMAIN f /\ (e <= p \/ e > s)
      BY <2>4
    <3>2. e \in Nat /\ ~(p < e /\ e <= s)
      BY <2>1, <2>2, <3>1 DEF FootersOf
    <3> QED
      BY <2>1, <2>2, <3>1, <3>2 DEF FootersOf
  <2> QED
    BY <2>3, <2>5, <2>6 DEF FootersOf
<1>6. GrantsOf(h, Put(g, p, h[p].size), NoChunk)
  <2>1. GrantsOf(h, g, p)
    BY DEF Consistent
  <2>2. {q \in DOMAIN h \ {NoChunk} : ~h[q].free} = {q \in DOMAIN h \ {p} : ~h[q].free} \cup {p}
    BY <1>2
  <2> QED
    BY <2>1, <2>2 DEF GrantsOf, Put
<1>7. BinsHold(h, b, L) /\ FlagsOf(h, L)
  BY <1>3 DEF Consistent
<1> QED
  BY <1>1, <1>4, <1>5, <1>6, <1>7 DEF Consistent

\* The chunk in hand is divided.  The rest of it is a free chunk, in its bin and
\* with its footer.
LEMMA SplitKeeps ==
    ASSUME NEW h, NEW b, NEW f, NEW g, NEW o, NEW p, NEW n, NEW r, NEW k,
           Consistent(h, b, f, g, o, p), p \in DOMAIN h, IsCut(h, p, n),
           r = p + n, k = Split(h, p, n)
    PROVE  /\ p \in DOMAIN k /\ k[p].free = h[p].free /\ k[p].size = n
           /\ Consistent(k, AddFreeChunk(b, k, r), WriteFooter(f, k, r),
                         g, o + ChunkOverheadSize, p)
           /\ Block \cap DOMAIN k = Block \cap DOMAIN h
<1>1. PICK c : c = Cut(h, p, n)
  OBVIOUS
<1>2. k = MarkFree(c, r, TRUE)
  BY <1>1 DEF Split, Cut
<1>3. Tiled(h)
  BY DEF Consistent
<1>4. /\ r \in Nat /\ p < r /\ r < Successor(h, p) /\ r \notin DOMAIN h
      /\ Tiled(c) /\ DOMAIN c = DOMAIN h \cup {r}
      /\ c[p].free = h[p].free /\ c[p].predFree = h[p].predFree
      /\ c[p].size = n /\ Successor(c, p) = r
      /\ c[r].size = h[p].size - n /\ c[r].last = h[p].last
      /\ Successor(c, r) = Successor(h, p)
      /\ \A q \in DOMAIN h \ {p} :
            c[q] = h[q] /\ Successor(c, q) = Successor(h, q)
      /\ Block \cap DOMAIN c = Block \cap DOMAIN h
  <2>1. IsDivided(h, c, p, n, r)
    BY <1>1, <1>3, CutFacts
  <2> QED
    BY <2>1 DEF IsDivided
<1>5. p \in Nat /\ p # r /\ Successor(h, p) \in Nat
  BY <1>3, <1>4, ChunkFacts
<1>6. /\ Tiled(k) /\ DOMAIN k = DOMAIN c
      /\ \A q \in DOMAIN c : /\ k[q].size = c[q].size /\ k[q].last = c[q].last
                             /\ Successor(k, q) = Successor(c, q)
      /\ k[r].free
      /\ \A q \in DOMAIN c \ {r} :
            /\ k[q].free = c[q].free
            /\ c[q].predFree => k[q].predFree
            /\ q = Successor(c, r) /\ ~c[r].last => k[q].predFree
  <2>1. IsMarked(c, k, r, TRUE)
    BY <1>2, <1>4, MarkTrueFacts
  <2> QED
    BY <2>1 DEF IsMarked
<1>7. PICK L : L = FreeBut(h, p)
  OBVIOUS
<1>8. L \subseteq DOMAIN h \ {p} /\ r \notin L
  BY <1>4, <1>7 DEF FreeBut
<1>9. \A q \in DOMAIN h \ {p} :
         /\ q \in DOMAIN k /\ q # r
         /\ k[q].size = h[q].size /\ k[q].last = h[q].last /\ k[q].free = h[q].free
         /\ Successor(k, q) = Successor(h, q)
         /\ h[q].predFree => k[q].predFree
  BY <1>4, <1>6
<1>10. FreeBut(k, p) = L \cup {r}
  BY <1>4, <1>5, <1>6, <1>7, <1>9 DEF FreeBut
<1>11. BinsHold(k, AddFreeChunk(b, k, r), L \cup {r})
  <2>1. Sized(k, L \cup {r})
    <3>1. L \cup {r} \subseteq DOMAIN k
      BY <1>4, <1>6, <1>8
    <3> QED
      BY <1>6, <3>1, ChunksAreSized
  <2>2. BinsHold(h, b, L)
    BY <1>7 DEF Consistent
  <2>3. \A q \in L : h[q].size = k[q].size
    BY <1>8, <1>9
  <2>4. BinsHold(k, b, L)
    BY <2>2, <2>3, BinsSame
  <2> QED
    BY <1>8, <2>1, <2>4, BinsAdd
<1>12. FootersOf(k, WriteFooter(f, k, r), L \cup {r}, p)
  <2>1. FootersOf(h, f, L, p)
    BY <1>7 DEF Consistent
  <2>2. PICK s \in Nat : s = Successor(h, p)
    BY <1>5
  <2>3. s = Successor(k, r) /\ r < s
    BY <1>4, <1>6, <2>2
  <2>4. PICK w : w = WriteFooter(f, k, r)
    OBVIOUS
  <2>5. /\ \A e : e \in DOMAIN w <=> \/ e = s
                                     \/ e \in DOMAIN f /\ (e <= r \/ e > s)
        /\ w[s] = k[r].size
        /\ \A e \in DOMAIN f : (e <= r \/ e > s) /\ e # s => w[e] = f[e]
    <3>1. IsWritten(f, w, r, s, k[r].size)
      BY <2>3, <2>4, WriteFooterIs
    <3> QED
      BY <3>1 DEF IsWritten
  <2>6. \A q \in L : /\ Successor(h, q) \in DOMAIN f /\ Successor(h, q) # s
                     /\ Successor(h, q) <= r \/ Successor(h, q) > s
                     /\ f[Successor(h, q)] = h[q].size
    <3>1. TAKE q \in L
    <3>2. q \in DOMAIN h /\ q # p
      BY <1>8
    <3>3. Successor(h, q) \in Nat
      BY <1>3, <3>2, ChunkFacts
    <3>4. /\ Successor(h, q) <= p \/ Successor(h, p) < Successor(h, q)
          /\ Successor(h, q) # Successor(h, p)
      BY <1>3, <3>2, EndsDiffer
    <3>5. Successor(h, q) <= r \/ Successor(h, q) > s
      BY <1>4, <1>5, <2>2, <3>3, <3>4
    <3> QED
      BY <2>1, <2>2, <3>4, <3>5 DEF FootersOf
  <2>7. \A q \in L \cup {r} : Successor(k, q) \in DOMAIN w /\ w[Successor(k, q)] = k[q].size
    BY <1>8, <1>9, <2>3, <2>5, <2>6
  <2>8. Successor(k, p) = r /\ p \in DOMAIN k
    BY <1>4, <1>6
  <2>9. ASSUME NEW e \in DOMAIN w
        PROVE  /\ e \in Nat
               /\ \/ \E q \in L \cup {r} : Successor(k, q) = e
                  \/ p \in DOMAIN k /\ p < e /\ e <= Successor(k, p)
    <3>1. CASE e = s
      BY <2>3, <3>1
    <3>2. CASE e \in DOMAIN f /\ (e <= r \/ e > s)
      <4>1. e \in Nat
        BY <2>1, <3>2 DEF FootersOf
      <4>2. (\E q \in L : Successor(h, q) = e) \/ (p < e /\ e <= s)
        BY <2>1, <2>2, <3>2 DEF FootersOf
      <4>3. CASE \E q \in L : Successor(h, q) = e
        BY <1>8, <1>9, <4>1, <4>3
      <4>4. CASE p < e /\ e <= s
        <5>1. e <= r
          BY <3>2, <4>1, <4>4
        <5> QED
          BY <2>8, <4>1, <4>4, <5>1
      <4> QED
        BY <4>2, <4>3, <4>4
    <3> QED
      BY <2>5, <3>1, <3>2
  <2> QED
    BY <2>4, <2>7, <2>9 DEF FootersOf
<1>13. FlagsOf(k, L \cup {r})
  <2>1. SUFFICES ASSUME NEW q \in L \cup {r}, ~k[q].last
                 PROVE  k[Successor(k, q)].predFree
    BY DEF FlagsOf
  <2>2. CASE q = r
    <3>1. Successor(k, r) = Successor(c, r) /\ Successor(c, r) = Successor(h, p) /\ ~c[r].last
      BY <1>4, <1>6, <2>1, <2>2
    <3>2. Successor(h, p) \in DOMAIN h /\ Successor(h, p) # r
      BY <1>3, <1>4, <3>1 DEF Tiled
    <3> QED
      BY <1>4, <1>6, <2>2, <3>1, <3>2
  <2>3. CASE q \in L
    <3>1. q \in DOMAIN h \ {p} /\ ~h[q].last /\ Successor(k, q) = Successor(h, q)
      BY <1>8, <1>9, <2>1, <2>3
    <3>2. h[Successor(h, q)].predFree
      BY <1>7, <2>3, <3>1 DEF Consistent, FlagsOf
    <3>3. Successor(h, q) \in DOMAIN h /\ Successor(h, q) # r
      BY <1>3, <1>4, <3>1 DEF Tiled
    <3>4. CASE Successor(h, q) = p
      <4>1. p \in DOMAIN c \ {r} /\ c[p].predFree
        BY <1>4, <1>5, <3>2, <3>4
      <4> QED
        BY <1>6, <3>1, <3>4, <4>1
    <3>5. CASE Successor(h, q) # p
      BY <1>9, <3>1, <3>2, <3>3, <3>5
    <3> QED
      BY <3>4, <3>5
  <2> QED
    BY <2>1, <2>2, <2>3
<1>14. GrantsOf(k, g, p)
  <2>1. GrantsOf(h, g, p)
    BY DEF Consistent
  <2>2. {q \in DOMAIN k \ {p} : ~k[q].free} = {q \in DOMAIN h \ {p} : ~h[q].free}
    BY <1>4, <1>6, <1>9
  <2> QED
    BY <1>9, <2>1, <2>2 DEF GrantsOf
<1>15. OverheadOf(k, o + ChunkOverheadSize)
  <2>1. IsFiniteSet(DOMAIN h)
    BY <1>3 DEF Tiled
  <2>2. PICK m \in Nat : m = Cardinality(DOMAIN h)
    BY <2>1, FS_CardinalityType
  <2>3. Cardinality(DOMAIN k) = m + 1
    <3>1. Cardinality(DOMAIN h \cup {r}) = Cardinality(DOMAIN h) + 1
      BY <1>4, <2>1, FS_AddElement
    <3> QED
      BY <1>4, <1>6, <2>2, <3>1
  <2>4. PICK j \in Nat : j = Cardinality(Block \cap DOMAIN h)
    <3>1. IsFiniteSet(Block \cap DOMAIN h)
      BY <2>1, FS_Subset
    <3> QED
      BY <3>1, FS_CardinalityType
  <2>5. o = ChunkOverheadSize * (m - j)
    BY <2>2, <2>4 DEF Consistent, OverheadOf
  <2>6. o + ChunkOverheadSize = ChunkOverheadSize * ((m + 1) - j)
    BY <2>5, Positive
  <2> QED
    BY <1>4, <1>6, <2>3, <2>4, <2>6 DEF OverheadOf
<1>16. p \in DOMAIN k /\ k[p].free = h[p].free /\ k[p].size = n
  BY <1>4, <1>5, <1>6
<1>17. Consistent(k, AddFreeChunk(b, k, r), WriteFooter(f, k, r),
                  g, o + ChunkOverheadSize, p)
  BY <1>6, <1>10, <1>11, <1>12, <1>13, <1>14, <1>15 DEF Consistent
<1>18. Block \cap DOMAIN k = Block \cap DOMAIN h
  BY <1>4, <1>6
<1> QED
  BY <1>16, <1>17, <1>18

\* A footer that ends where the chunk in hand begins is that of the chunk there.
LEMMA PredecessorIs ==
    ASSUME NEW h, NEW b, NEW f, NEW g, NEW o, NEW p, NEW c,
           Consistent(h, b, f, g, o, p), p \in DOMAIN h, p \in DOMAIN f,
           c = p - f[p]
    PROVE  c \in DOMAIN h /\ h[c].free /\ Successor(h, c) = p /\ ~h[c].last /\ c # p
<1>1. Tiled(h) /\ FootersOf(h, f, FreeBut(h, p), p)
  BY DEF Consistent
<1>2. p \in Nat
  BY <1>1, ChunkFacts
<1>3. PICK q \in FreeBut(h, p) : Successor(h, q) = p /\ f[p] = h[q].size
  BY <1>1, <1>2 DEF FootersOf
<1>4. q \in DOMAIN h /\ h[q].free /\ q # p
  BY DEF FreeBut
<1>5. q \in Nat /\ h[q].size \in Nat /\ p = q + h[q].size
  BY <1>1, <1>3, <1>4, ChunkFacts
<1>6. c = q
  BY <1>3, <1>5
<1> QED
  BY <1>1, <1>3, <1>4, <1>6, FollowedIsNotLast

\* A new block is one chunk, and the operation that adds it has that in hand.
LEMMA AddBlockKeeps ==
    ASSUME NEW h, NEW b, NEW f, NEW g, NEW o, NEW p \in Block, NEW k, NEW x \in BOOLEAN,
           Consistent(h, b, f, g, o, NoChunk), p \notin DOMAIN h,
           k = Put(h, p, [size |-> BlockSize[p], free |-> TRUE,
                          predFree |-> x, last |-> TRUE])
    PROVE  /\ Consistent(k, b, f, g, o, p) /\ p \in DOMAIN k
           /\ MarkFree(k, p, TRUE) = k
           /\ DOMAIN k = DOMAIN h \cup {p}
<1>1. Tiled(h)
  BY DEF Consistent
<1>2. PICK s \in Nat : s = BlockEnd(p)
  BY BlockFacts
<1>3. /\ p \in Nat /\ Aligned(p) /\ BlockSize[p] \in Nat /\ Aligned(BlockSize[p])
      /\ SmallestBin <= BlockSize[p] /\ p < s
      /\ \A c \in Block : /\ p < c => s < c
                          /\ c \in Nat /\ BlockEnd(c) \in Nat
                          /\ c < p => BlockEnd(c) < p
  BY <1>2, BlockFacts
<1>4. DOMAIN k = DOMAIN h \cup {p} /\ \A q \in DOMAIN h : k[q] = h[q]
  BY DEF Put
<1>5. k[p] = [size |-> BlockSize[p], free |-> TRUE, predFree |-> x, last |-> TRUE]
  BY DEF Put
<1>6. k[p] \in Header /\ k[p].size = BlockSize[p] /\ k[p].free /\ k[p].last
  <2>1. PICK n \in Nat : n = BlockSize[p]
    BY <1>3
  <2>2. k[p] = [size |-> n, free |-> TRUE, predFree |-> x, last |-> TRUE]
    BY <1>5, <2>1
  <2>3. k[p] \in Header
    <3>1. \A u, v, w \in BOOLEAN :
             [size |-> n, free |-> u, predFree |-> v, last |-> w] \in Header
      BY DEF Header
    <3>2. TRUE \in BOOLEAN /\ x \in BOOLEAN
      OBVIOUS
    <3> QED
      BY <2>2, <3>1, <3>2, Zenon
  <2>4. k[p].size = n
    BY <2>2
  <2>5. k[p].free = TRUE /\ k[p].last = TRUE
    BY <2>2
  <2> QED
    BY <2>1, <2>3, <2>4, <2>5
<1>7. Successor(k, p) = s
  BY <1>2, <1>6 DEF Successor, BlockEnd
<1>8. \A q \in DOMAIN h : Successor(k, q) = Successor(h, q)
  BY <1>4 DEF Successor
<1>9. \A q \in DOMAIN h : /\ q \in Nat /\ Successor(h, q) \in Nat
                          /\ (q < p /\ Successor(h, q) <= p) \/ s < q
  <2>1. TAKE q \in DOMAIN h
  <2>2. PICK c \in Block \cap DOMAIN h : LiesIn(h, q, c)
    BY <1>1 DEF Tiled
  <2>3. q \in Nat /\ Successor(h, q) \in Nat /\ q < Successor(h, q)
    BY <1>1, ChunkFacts
  <2>4. c \in Nat /\ BlockEnd(c) \in Nat /\ c # p /\ c <= q /\ Successor(h, q) <= BlockEnd(c)
    BY <1>3, <2>2 DEF LiesIn
  <2>5. CASE c < p
    BY <1>3, <2>3, <2>4, <2>5
  <2>6. CASE p < c
    BY <1>3, <2>3, <2>4, <2>6
  <2> QED
    BY <1>3, <2>4, <2>5, <2>6
<1>10. Tiled(k)
  <2>1. ASSUME NEW q \in DOMAIN k
        PROVE  /\ q \in Nat /\ Aligned(q)
               /\ k[q] \in Header /\ k[q].size >= SmallestBin /\ Aligned(k[q].size)
               /\ \E c \in Block \cap DOMAIN k : LiesIn(k, q, c)
               /\ ~k[q].last => Successor(k, q) \in DOMAIN k
    <3>1. CASE q = p
      <4>1. LiesIn(k, p, p)
        BY <1>2, <1>3, <1>6, <1>7 DEF LiesIn
      <4> QED
        BY <1>3, <1>4, <1>6, <3>1, <4>1
    <3>2. CASE q \in DOMAIN h
      <4>1. PICK c \in Block \cap DOMAIN h : LiesIn(h, q, c)
        BY <1>1, <3>2 DEF Tiled
      <4>2. LiesIn(k, q, c)
        BY <1>4, <1>8, <3>2, <4>1 DEF LiesIn
      <4> QED
        BY <1>1, <1>4, <1>8, <3>2, <4>1, <4>2 DEF Tiled
    <3> QED
      BY <1>4, <3>1, <3>2
  <2>2. ASSUME NEW y \in DOMAIN k, NEW z \in DOMAIN k, y < z
        PROVE  Successor(k, y) <= z
    <3>1. CASE y \in DOMAIN h /\ z \in DOMAIN h
      BY <1>1, <1>8, <2>2, <3>1 DEF Tiled
    <3>2. CASE y = p /\ z \in DOMAIN h
      BY <1>3, <1>7, <1>9, <2>2, <3>2
    <3>3. CASE y \in DOMAIN h /\ z = p
      <4>1. ~(s < y)
        BY <1>3, <1>9, <2>2, <3>3
      <4> QED
        BY <1>8, <1>9, <3>3, <4>1
    <3> QED
      BY <1>3, <1>4, <2>2, <3>1, <3>2, <3>3
  <2>3. IsFiniteSet(DOMAIN k)
    <3>1. IsFiniteSet(DOMAIN h)
      BY <1>1 DEF Tiled
    <3> QED
      BY <1>4, <3>1, FS_AddElement
  <2> QED
    BY <2>1, <2>2, <2>3 DEF Tiled
<1>11. \A q \in DOMAIN h : q # NoChunk
  BY <1>9 DEF NoChunk
<1>12. PICK L : L = FreeBut(h, NoChunk)
  OBVIOUS
<1>13. FreeBut(k, p) = L /\ L \subseteq DOMAIN h
  BY <1>4, <1>11, <1>12 DEF FreeBut
<1>14. BinsHold(k, b, L)
  <2>1. BinsHold(h, b, L)
    BY <1>12 DEF Consistent
  <2>2. \A q \in L : h[q].size = k[q].size
    BY <1>4, <1>13
  <2> QED
    BY <2>1, <2>2, BinsSame
<1>15. FootersOf(k, f, L, p)
  <2>1. FootersOf(h, f, L, NoChunk)
    BY <1>12 DEF Consistent
  <2>2. \A e \in DOMAIN f : e \in Nat /\ \E q \in L : Successor(h, q) = e
    BY <1>11, <2>1 DEF FootersOf
  <2>3. \A e \in DOMAIN f : e \in Nat /\ \E q \in L : Successor(k, q) = e
    BY <1>8, <1>13, <2>2
  <2>4. \A q \in L : Successor(k, q) \in DOMAIN f /\ f[Successor(k, q)] = k[q].size
    BY <1>4, <1>8, <1>13, <2>1 DEF FootersOf
  <2> QED
    BY <2>3, <2>4 DEF FootersOf
<1>16. FlagsOf(k, L)
  <2>1. SUFFICES ASSUME NEW q \in L, ~h[q].last
                 PROVE  k[Successor(h, q)].predFree
    BY <1>4, <1>8, <1>13 DEF FlagsOf
  <2>2. Successor(h, q) \in DOMAIN h
    BY <1>1, <1>13, <2>1 DEF Tiled
  <2>3. h[Successor(h, q)].predFree
    BY <1>12, <2>1 DEF Consistent, FlagsOf
  <2> QED
    BY <1>4, <2>2, <2>3
<1>17. GrantsOf(k, g, p)
  <2>1. GrantsOf(h, g, NoChunk)
    BY DEF Consistent
  <2>2. {q \in DOMAIN k \ {p} : ~k[q].free} = {q \in DOMAIN h \ {NoChunk} : ~h[q].free}
    BY <1>4, <1>11
  <2> QED
    BY <1>4, <2>1, <2>2 DEF GrantsOf
<1>18. OverheadOf(k, o)
  <2>1. IsFiniteSet(DOMAIN h) /\ IsFiniteSet(Block \cap DOMAIN h)
    <3>1. IsFiniteSet(DOMAIN h)
      BY <1>1 DEF Tiled
    <3> QED
      BY <3>1, FS_Subset
  <2>2. PICK m \in Nat, n \in Nat :
           m = Cardinality(DOMAIN h) /\ n = Cardinality(Block \cap DOMAIN h)
    BY <2>1, FS_CardinalityType
  <2>3. Cardinality(DOMAIN h \cup {p}) = m + 1
    BY <2>1, <2>2, FS_AddElement
  <2>4. PICK B : B = Block \cap DOMAIN h
    OBVIOUS
  <2>5. Cardinality(B \cup {p}) = n + 1
    BY <2>1, <2>2, <2>4, FS_AddElement
  <2>6. Block \cap DOMAIN k = B \cup {p}
    BY <1>4, <2>4
  <2>7. o = ChunkOverheadSize * (m - n)
    BY <2>2 DEF Consistent, OverheadOf
  <2>8. m - n = (m + 1) - (n + 1)
    OBVIOUS
  <2> QED
    BY <1>4, <2>3, <2>5, <2>6, <2>7, <2>8 DEF OverheadOf
<1>19. MarkFree(k, p, TRUE) = k
  <2>1. MarkFree(k, p, TRUE) =
           [q \in DOMAIN k |-> IF q = p THEN [k[q] EXCEPT !.free = TRUE] ELSE k[q]]
    BY <1>6 DEF MarkFree
  <2>2. [k[p] EXCEPT !.free = TRUE] = k[p]
    <3>1. PICK n : n = BlockSize[p]
      OBVIOUS
    <3>2. \A u, v, w :
             [[size |-> n, free |-> u, predFree |-> v, last |-> w] EXCEPT !.free = u] =
                [size |-> n, free |-> u, predFree |-> v, last |-> w]
      OBVIOUS
    <3>3. [[size |-> n, free |-> TRUE, predFree |-> x, last |-> TRUE] EXCEPT !.free = TRUE] =
             [size |-> n, free |-> TRUE, predFree |-> x, last |-> TRUE]
      BY <3>2, Zenon
    <3>4. k[p] = [size |-> n, free |-> TRUE, predFree |-> x, last |-> TRUE]
      BY <1>5, <3>1
    <3> QED
      BY <3>3, <3>4, Zenon
  <2>3. k = [q \in DOMAIN k |-> k[q]]
    BY DEF Put
  <2> QED
    BY <2>1, <2>2, <2>3
<1> QED
  BY <1>4, <1>10, <1>13, <1>14, <1>15, <1>16, <1>17, <1>18, <1>19 DEF Consistent

-----------------------------------------------------------------------------
(* The operations *)

\* A request that is met by a chunk of a block has not overflowed.
IsRequestSize(n, size) ==
    /\ size \in Nat /\ size >= SmallestBin /\ Aligned(size)
    /\ size - ChunkOverheadSize >= n

LEMMA RequestSize ==
    ASSUME NEW n \in Request, NEW m \in Nat, NEW size,
           size = UserSizeToChunkSize(n), size <= m, m <= SizeModulus - 2
    PROVE  IsRequestSize(n, size)
<1>1. n \in 1..(SizeModulus - 1)
  BY ClassicArenaAssumption
<1>2. size # SizeModulus - 1
  BY Positive
<1> QED
  BY <1>1, <1>2, ChunkSizeIs DEF IsRequestSize

\* The end of resize.
LEMMA ResizeKeeps ==
    ASSUME NEW h, NEW b, NEW f, NEW g, NEW o, NEW p,
           NEW k, NEW b1, NEW f1, NEW o1, NEW n, NEW size,
           Consistent(h, b, f, g, o, p), p \in DOMAIN h, ~h[p].free,
           IsRequestSize(n, size), size <= h[p].size,
           \/ /\ h[p].size - size >= SmallestBin
              /\ k = Split(h, p, size)
              /\ f1 = Clobber(WriteFooter(f, k, p + size), p, size)
              /\ b1 = AddFreeChunk(b, k, p + size)
              /\ o1 = o + ChunkOverheadSize
           \/ /\ k = h
              /\ f1 = Clobber(f, p, h[p].size)
              /\ b1 = b
              /\ o1 = o
    PROVE  /\ p \in DOMAIN k /\ k[p].size >= size
           /\ Consistent(k, b1, f1, Put(g, p, k[p].size), o1, NoChunk)
           /\ Block \cap DOMAIN k = Block \cap DOMAIN h
<1>1. Tiled(h)
  BY DEF Consistent
<1>2. size \in Nat /\ h[p].size \in Nat
  BY <1>1, ChunkFacts DEF IsRequestSize
<1>3. CASE /\ h[p].size - size >= SmallestBin
           /\ k = Split(h, p, size)
           /\ f1 = Clobber(WriteFooter(f, k, p + size), p, size)
           /\ b1 = AddFreeChunk(b, k, p + size)
           /\ o1 = o + ChunkOverheadSize
  <2>1. IsCut(h, p, size)
    BY <1>3 DEF IsCut, IsRequestSize
  <2>2. PICK r : r = p + size
    OBVIOUS
  <2>3. /\ p \in DOMAIN k /\ k[p].free = h[p].free /\ k[p].size = size
        /\ Consistent(k, AddFreeChunk(b, k, r), WriteFooter(f, k, r),
                      g, o + ChunkOverheadSize, p)
        /\ Block \cap DOMAIN k = Block \cap DOMAIN h
    BY <1>3, <2>1, <2>2, SplitKeeps
  <2>4. Consistent(k, b1, WriteFooter(f, k, r), g, o1, p) /\ ~k[p].free
    BY <1>3, <2>2, <2>3
  <2>5. Consistent(k, b1, Clobber(WriteFooter(f, k, r), p, k[p].size),
                   Put(g, p, k[p].size), o1, NoChunk)
    BY <2>3, <2>4, PutUsedKeeps
  <2> QED
    BY <1>2, <1>3, <2>2, <2>3, <2>5
<1>4. CASE k = h /\ f1 = Clobber(f, p, h[p].size) /\ b1 = b /\ o1 = o
  <2>1. Consistent(h, b, Clobber(f, p, h[p].size), Put(g, p, h[p].size), o, NoChunk)
    BY PutUsedKeeps
  <2> QED
    BY <1>2, <1>4, <2>1
<1> QED
  BY <1>3, <1>4

LEMMA InitEstablishes == Init => IInv
<1> SUFFICES ASSUME Init
             PROVE  IInv
  OBVIOUS
<1>1. /\ DOMAIN chunk = {} /\ DOMAIN footer = {} /\ DOMAIN granted = {}
      /\ bins = [i \in BinIndex |-> <<>>] /\ overhead = 0 /\ undefined = FALSE
  BY DEF Init
<1>2. Tiled(chunk)
  BY <1>1, FS_EmptySet DEF Tiled
<1>3. FreeBut(chunk, NoChunk) = {}
  BY <1>1 DEF FreeBut
<1>4. BinsHold(chunk, bins, {})
  <2>1. bins \in [BinIndex -> Seq(Nat)] /\ \A i \in BinIndex : Len(bins[i]) = 0
    BY <1>1
  <2> QED
    BY <2>1 DEF BinsHold, ListHolds
<1>5. FootersOf(chunk, footer, {}, NoChunk) /\ FlagsOf(chunk, {})
  BY <1>1 DEF FootersOf, FlagsOf
<1>6. GrantsOf(chunk, granted, NoChunk)
  BY <1>1 DEF GrantsOf
<1>7. OverheadOf(chunk, overhead)
  <2>1. Block \cap DOMAIN chunk = {}
    BY <1>1
  <2> QED
    BY <1>1, <2>1, FS_EmptySet, Positive DEF OverheadOf
<1> QED
  BY <1>1, <1>2, <1>3, <1>4, <1>5, <1>6, <1>7 DEF IInv, Consistent

LEMMA AddMemoryBlockKeeps ==
    ASSUME IInv, NEW b \in Block, AddMemoryBlock(b)
    PROVE  IInv' /\ Added \subseteq Added' /\ granted' = granted
<1>0. PICK x \in BOOLEAN :
         chunk' = Put(chunk, b, [size |-> BlockSize[b], free |-> TRUE,
                                 predFree |-> x, last |-> TRUE])
  <2>1. \A x \in IF MemoryIsZeroed THEN {FALSE} ELSE BOOLEAN : x \in BOOLEAN
    OBVIOUS
  <2> QED
    BY <2>1 DEF AddMemoryBlock
<1>1. PICK k : /\ k = chunk'
               /\ k = Put(chunk, b, [size |-> BlockSize[b], free |-> TRUE,
                                     predFree |-> x, last |-> TRUE])
  BY <1>0
<1>2. Consistent(chunk, bins, footer, granted, overhead, NoChunk) /\ b \notin DOMAIN chunk
  BY DEF IInv, AddMemoryBlock
<1>3. /\ Consistent(k, bins, footer, granted, overhead, b) /\ b \in DOMAIN k
      /\ MarkFree(k, b, TRUE) = k
      /\ DOMAIN k = DOMAIN chunk \cup {b}
  BY <1>1, <1>2, AddBlockKeeps
<1>4. Consistent(MarkFree(k, b, TRUE), AddFreeChunk(bins, k, b),
                 WriteFooter(footer, k, b), granted, overhead, NoChunk)
  BY <1>3, PutFreeKeeps
<1>5. /\ footer' = WriteFooter(footer, k, b) /\ bins' = AddFreeChunk(bins, k, b)
      /\ UNCHANGED <<granted, overhead, undefined>>
  BY <1>1 DEF AddMemoryBlock
<1>6. Consistent(k, bins', footer', granted', overhead', NoChunk)
  BY <1>3, <1>4, <1>5
<1>7. IInv'
  BY <1>1, <1>5, <1>6 DEF IInv
<1> QED
  BY <1>1, <1>3, <1>5, <1>7 DEF Added

LEMMA BestFitIs ==
    ASSUME IInv, NEW n \in Request, NEW size, size = UserSizeToChunkSize(n),
           NEW p, IsBestFit(p, size)
    PROVE  /\ p \in DOMAIN chunk /\ chunk[p].free
           /\ IsRequestSize(n, size) /\ size <= chunk[p].size
<1>1. Consistent(chunk, bins, footer, granted, overhead, NoChunk)
  BY DEF IInv
<1>2. n \in 1..(SizeModulus - 1)
  BY ClassicArenaAssumption
<1>3. size \in Nat /\ size > 0
  <2>1. SizeModulus - 1 \in Nat /\ SizeModulus - 1 > 0
    BY Positive, ArenaSizesAssumption
  <2> QED
    BY <1>2, <2>1, ChunkSizeIs, Positive
<1>4. SizeToBinIndex(size) \in BinIndex /\ BinCount \in Nat
  BY <1>3, EverySizeHasABinIndex, EverySizeHasABin
<1>5. PICK i \in SizeToBinIndex(size)..(BinCount - 1) :
         \E k \in DOMAIN bins[i] : p = bins[i][k] /\ chunk[p].size >= size
  BY DEF IsBestFit
<1>6. i \in BinIndex
  BY <1>4, <1>5 DEF BinIndex
<1>7. bins[i] \in Seq(Nat) /\ ListHolds(chunk, bins[i], i, FreeBut(chunk, NoChunk))
  BY <1>1, <1>6 DEF Consistent, BinsHold
<1>8. p \in FreeBut(chunk, NoChunk)
  <2>1. PICK k \in 1..Len(bins[i]) : p = bins[i][k]
    BY <1>5, <1>7
  <2> QED
    BY <1>7, <2>1 DEF ListHolds
<1>9. p \in DOMAIN chunk /\ chunk[p].free
  BY <1>8 DEF FreeBut
<1>10. Tiled(chunk)
  BY <1>1 DEF Consistent
<1>11. chunk[p].size \in Nat /\ chunk[p].size <= SizeModulus - 2
  BY <1>9, <1>10, ChunkFacts, ChunkIsBelowModulus
<1>12. size <= chunk[p].size
  BY <1>3, <1>5, <1>11
<1>13. IsRequestSize(n, size)
  BY <1>11, <1>12, RequestSize
<1> QED
  BY <1>9, <1>12, <1>13

\* What the steps of a client that holds p, or is given it, do.
Granted(p, size) ==
    /\ p \in DOMAIN chunk' /\ granted' = Put(granted, p, size) /\ granted'[p] = size
    /\ Added' = Added

\* The chunk in hand is allocated.
MarkAllocated(h, p) == MarkFree(h, p, FALSE)

LEMMA GiveKeeps ==
    ASSUME NEW h, NEW b, NEW f, NEW g, NEW o, NEW p, NEW k, NEW size,
           Consistent(h, b, f, g, o, p), p \in DOMAIN h, k = MarkAllocated(h, p),
           size = h[p].size
    PROVE  /\ Consistent(k, b, Clobber(f, p, size), Put(g, p, size), o, NoChunk)
           /\ DOMAIN k = DOMAIN h /\ k[p].size = size
<1>1. Tiled(h)
  BY DEF Consistent
<1>2. Consistent(k, b, f, g, o, p)
  <2>1. \A x \in BOOLEAN : Consistent(MarkFree(h, p, x), b, f, g, o, p)
    BY MarkKeeps
  <2>2. Consistent(MarkFree(h, p, FALSE), b, f, g, o, p)
    BY <2>1, Zenon
  <2> QED
    BY <2>2 DEF MarkAllocated
<1>3. IsMarked(h, k, p, FALSE)
  <2>1. \A x \in BOOLEAN : k = MarkFree(h, p, x) => IsMarked(h, k, p, x)
    BY <1>1, MarkFacts
  <2> QED
    BY <2>1, Zenon DEF MarkAllocated
<1>4. DOMAIN k = DOMAIN h /\ k[p].size = h[p].size /\ ~k[p].free
  BY <1>3 DEF IsMarked
<1>5. Consistent(k, b, Clobber(f, p, k[p].size), Put(g, p, k[p].size), o, NoChunk)
  BY <1>2, <1>4, PutUsedKeeps
<1> QED
  BY <1>4, <1>5

LEMMA AllocateKeeps ==
    ASSUME IInv, NEW n \in Request, Allocate(n)
    PROVE  /\ IInv'
           /\ \E p \in DOMAIN chunk \ DOMAIN granted :
                 \E size \in Nat : Granted(p, size) /\ size - ChunkOverheadSize >= n
<1>1. PICK size : size = UserSizeToChunkSize(n)
  OBVIOUS
<1>2. PICK p \in DOMAIN chunk :
         /\ IsBestFit(p, size)
         /\ \/ /\ CanSplit(chunk[p].size, size)
               /\ chunk' = MarkFree(Split(chunk, p, size), p, FALSE)
               /\ footer' = Clobber(WriteFooter(footer, Split(chunk, p, size), p + size), p, size)
               /\ bins' = AddFreeChunk(RemoveChunkFromBin(bins, chunk, p),
                                       Split(chunk, p, size), p + size)
               /\ overhead' = overhead + ChunkOverheadSize
            \/ /\ ~CanSplit(chunk[p].size, size)
               /\ chunk' = MarkFree(chunk, p, FALSE)
               /\ footer' = Clobber(footer, p, chunk[p].size)
               /\ bins' = RemoveChunkFromBin(bins, chunk, p)
               /\ UNCHANGED overhead
         /\ granted' = Put(granted, p, chunk'[p].size)
  BY <1>1 DEF Allocate
<1>3. chunk[p].free /\ IsRequestSize(n, size) /\ size <= chunk[p].size
  BY <1>1, <1>2, BestFitIs
<1>4. Consistent(chunk, bins, footer, granted, overhead, NoChunk)
  BY DEF IInv
<1>5. Tiled(chunk) /\ p \notin DOMAIN granted
  BY <1>3, <1>4 DEF Consistent, GrantsOf
<1>6. PICK b : b = RemoveChunkFromBin(bins, chunk, p)
  OBVIOUS
<1>7. Consistent(chunk, b, footer, granted, overhead, p)
  BY <1>2, <1>3, <1>4, <1>6, TakeFreeKeeps
<1>8. /\ Consistent(chunk', bins', footer', granted', overhead', NoChunk)
      /\ chunk'[p].size \in Nat /\ chunk'[p].size >= size
      /\ p \in DOMAIN chunk' /\ Added' = Added
  <2>1. CASE /\ CanSplit(chunk[p].size, size)
             /\ chunk' = MarkFree(Split(chunk, p, size), p, FALSE)
             /\ footer' = Clobber(WriteFooter(footer, Split(chunk, p, size), p + size), p, size)
             /\ bins' = AddFreeChunk(RemoveChunkFromBin(bins, chunk, p),
                                     Split(chunk, p, size), p + size)
             /\ overhead' = overhead + ChunkOverheadSize
    <3>1. PICK h, r : h = Split(chunk, p, size) /\ r = p + size
      OBVIOUS
    <3>2. IsCut(chunk, p, size)
      <4>1. size \in Nat /\ chunk[p].size \in Nat
        BY <1>3, <1>5, ChunkFacts DEF IsRequestSize
      <4>2. PICK u \in Int : u = RoundUp(size, Alignment) /\ u >= size
        BY <4>1, RoundUpCovers
      <4>3. chunk[p].size - u >= SmallestBin
        BY <2>1, <4>2 DEF CanSplit
      <4>4. chunk[p].size - size >= SmallestBin
        BY <4>1, <4>2, <4>3, Positive
      <4> QED
        BY <1>3, <4>4 DEF IsCut, IsRequestSize
    <3>3. /\ p \in DOMAIN h /\ h[p].free = chunk[p].free /\ h[p].size = size
          /\ Consistent(h, AddFreeChunk(b, h, r), WriteFooter(footer, h, r),
                        granted, overhead + ChunkOverheadSize, p)
          /\ Block \cap DOMAIN h = Block \cap DOMAIN chunk
      BY <1>7, <3>1, <3>2, SplitKeeps
    <3>4. PICK k : k = MarkAllocated(h, p)
      OBVIOUS
    <3>5. /\ Consistent(k, AddFreeChunk(b, h, r),
                        Clobber(WriteFooter(footer, h, r), p, size),
                        Put(granted, p, size), overhead + ChunkOverheadSize, NoChunk)
          /\ DOMAIN k = DOMAIN h /\ k[p].size = size
      BY <3>3, <3>4, GiveKeeps
    <3>6. /\ chunk' = k /\ footer' = Clobber(WriteFooter(footer, h, r), p, size)
          /\ bins' = AddFreeChunk(b, h, r) /\ overhead' = overhead + ChunkOverheadSize
          /\ granted' = Put(granted, p, size)
      BY <1>2, <1>6, <2>1, <3>1, <3>3, <3>4, <3>5 DEF MarkAllocated
    <3>7. size \in Nat
      BY <1>3 DEF IsRequestSize
    <3> QED
      BY <3>3, <3>5, <3>6, <3>7 DEF Added
  <2>2. CASE /\ chunk' = MarkFree(chunk, p, FALSE)
             /\ footer' = Clobber(footer, p, chunk[p].size)
             /\ bins' = RemoveChunkFromBin(bins, chunk, p)
             /\ UNCHANGED overhead
    <3>1. PICK k : k = MarkAllocated(chunk, p)
      OBVIOUS
    <3>0. PICK m : m = chunk[p].size
      OBVIOUS
    <3>2. /\ Consistent(k, b, Clobber(footer, p, m), Put(granted, p, m), overhead, NoChunk)
          /\ DOMAIN k = DOMAIN chunk /\ k[p].size = m
      <4>1. p \in DOMAIN chunk
        BY <1>2
      <4> QED
        BY <1>7, <3>0, <3>1, <4>1, GiveKeeps
    <3>3. /\ chunk' = k /\ footer' = Clobber(footer, p, m)
          /\ bins' = b /\ overhead' = overhead
          /\ granted' = Put(granted, p, m)
      BY <1>2, <1>6, <2>2, <3>0, <3>1, <3>2 DEF MarkAllocated
    <3>4. size \in Nat /\ chunk[p].size \in Nat
      BY <1>2, <1>3, <1>5, ChunkFacts DEF IsRequestSize
    <3> QED
      BY <1>2, <1>3, <3>0, <3>2, <3>3, <3>4 DEF Added
  <2> QED
    BY <1>2, <2>1, <2>2
<1>9. PICK m \in Nat : m = chunk'[p].size /\ m >= size
  BY <1>8
<1>10. m - ChunkOverheadSize >= n
  <2>1. n \in Nat /\ size \in Nat /\ size - ChunkOverheadSize >= n
    BY <1>3, ClassicArenaAssumption DEF IsRequestSize
  <2> QED
    BY <1>9, <2>1, Positive
<1>11. Granted(p, m)
  <2>1. Put(granted, p, m)[p] = m
    BY DEF Put
  <2> QED
    BY <1>2, <1>8, <1>9, <2>1 DEF Granted
<1>12. IInv'
  <2>1. undefined' \in BOOLEAN
    BY DEF IInv, Allocate
  <2> QED
    BY <1>8, <2>1 DEF IInv
<1> QED
  BY <1>2, <1>5, <1>9, <1>10, <1>11, <1>12

LEMMA RegrantIs ==
    ASSUME NEW g, NEW p \in DOMAIN g, NEW v
    PROVE  /\ Put(Restrict(g, DOMAIN g \ {p}), p, v) = Put(g, p, v)
           /\ [g EXCEPT ![p] = v] = Put(g, p, v)
<1>1. PICK r : r = [q \in DOMAIN g \ {p} |-> g[q]]
  OBVIOUS
<1>2. Restrict(g, DOMAIN g \ {p}) = r
  BY <1>1 DEF Restrict
<1>3. DOMAIN r \cup {p} = DOMAIN g \cup {p} /\ \A q \in DOMAIN g \ {p} : r[q] = g[q]
  BY <1>1
<1>4. Put(r, p, v) = Put(g, p, v)
  BY <1>3 DEF Put
<1>5. [g EXCEPT ![p] = v] = Put(g, p, v)
  <2>1. DOMAIN g \cup {p} = DOMAIN g
    OBVIOUS
  <2> QED
    BY <2>1 DEF Put
<1> QED
  BY <1>2, <1>4, <1>5

\* The chunk of the client has grown as far as it has to, and what is too much of
\* it is given back.
LEMMA ResizeEnds ==
    ASSUME NEW h, NEW b, NEW o, NEW p \in DOMAIN granted, NEW n \in Request, NEW size,
           Consistent(h, b, footer, Restrict(granted, DOMAIN granted \ {p}), o, p),
           p \in DOMAIN h, ~h[p].free, IsRequestSize(n, size), size <= h[p].size,
           Block \cap DOMAIN h = Added,
           ResizeTo(h, b, o, p, size),
           granted' = [granted EXCEPT ![p] = chunk'[p].size],
           undefined' \in BOOLEAN
    PROVE  /\ IInv'
           /\ \E m \in Nat : Granted(p, m) /\ m - ChunkOverheadSize >= n
<1>1. PICK g : g = Restrict(granted, DOMAIN granted \ {p})
  OBVIOUS
<1>2. PICK k, b1, f1, o1 : k = chunk' /\ b1 = bins' /\ f1 = footer' /\ o1 = overhead'
  OBVIOUS
<1>3. \/ /\ h[p].size - size >= SmallestBin
         /\ k = Split(h, p, size)
         /\ f1 = Clobber(WriteFooter(footer, k, p + size), p, size)
         /\ b1 = AddFreeChunk(b, k, p + size)
         /\ o1 = o + ChunkOverheadSize
      \/ /\ k = h
         /\ f1 = Clobber(footer, p, h[p].size)
         /\ b1 = b
         /\ o1 = o
  BY <1>2 DEF ResizeTo
<1>4. Consistent(h, b, footer, g, o, p)
  BY <1>1
<1>5. /\ p \in DOMAIN k /\ k[p].size >= size
      /\ Consistent(k, b1, f1, Put(g, p, k[p].size), o1, NoChunk)
      /\ Block \cap DOMAIN k = Block \cap DOMAIN h
  BY <1>3, <1>4, ResizeKeeps
<1>6. Tiled(k)
  BY <1>5 DEF Consistent
<1>7. PICK m \in Nat : m = k[p].size
  BY <1>5, <1>6, ChunkFacts
<1>8. Put(g, p, m) = Put(granted, p, m) /\ granted' = Put(granted, p, m)
  <2>1. granted' = [granted EXCEPT ![p] = m]
    BY <1>2, <1>7
  <2> QED
    BY <1>1, <2>1, RegrantIs
<1>9. m - ChunkOverheadSize >= n
  <2>1. n \in Nat /\ size \in Nat /\ size - ChunkOverheadSize >= n
    BY ClassicArenaAssumption DEF IsRequestSize
  <2> QED
    BY <1>5, <1>7, <2>1, Positive
<1>10. Granted(p, m)
  <2>1. Put(granted, p, m)[p] = m
    BY DEF Put
  <2>2. Added' = Added
    BY <1>2, <1>5 DEF Added
  <2> QED
    BY <1>2, <1>5, <1>8, <2>1, <2>2 DEF Granted
<1>11. IInv'
  BY <1>2, <1>5, <1>7, <1>8 DEF IInv
<1> QED
  BY <1>9, <1>10, <1>11

LEMMA ShrinkKeeps ==
    ASSUME IInv, NEW p \in DOMAIN granted, NEW n \in Request, Shrink(p, n)
    PROVE  /\ IInv'
           /\ \E m \in Nat : Granted(p, m) /\ m - ChunkOverheadSize >= n
<1>1. PICK size : size = UserSizeToChunkSize(n)
  OBVIOUS
<1>2. /\ size <= chunk[p].size
      /\ ResizeTo(chunk, bins, overhead, p, size)
      /\ granted' = [granted EXCEPT ![p] = chunk'[p].size]
      /\ undefined' \in BOOLEAN
  BY <1>1 DEF Shrink, IInv
<1>3. Consistent(chunk, bins, footer, granted, overhead, NoChunk)
  BY DEF IInv
<1>4. /\ p \in DOMAIN chunk /\ ~chunk[p].free
      /\ Consistent(chunk, bins, footer, Restrict(granted, DOMAIN granted \ {p}), overhead, p)
  BY <1>3, TakeUsedKeeps
<1>5. Tiled(chunk)
  BY <1>3 DEF Consistent
<1>6. IsRequestSize(n, size)
  <2>1. PICK m \in Nat : m = chunk[p].size /\ m <= SizeModulus - 2
    BY <1>4, <1>5, ChunkFacts, ChunkIsBelowModulus
  <2> QED
    BY <1>1, <1>2, <2>1, RequestSize
<1>7. Block \cap DOMAIN chunk = Added
  BY DEF Added
<1> QED
  BY <1>2, <1>4, <1>6, <1>7, ResizeEnds

LEMMA GrowKeeps ==
    ASSUME IInv, NEW p \in DOMAIN granted, NEW n \in Request, Grow(p, n)
    PROVE  /\ IInv'
           /\ \E m \in Nat : Granted(p, m) /\ m - ChunkOverheadSize >= n
<1>1. PICK size : size = UserSizeToChunkSize(n)
  OBVIOUS
<1>2. PICK s : s = Successor(chunk, p)
  OBVIOUS
<1>3. PICK k, b, o : /\ k = MergeWithSuccessor(chunk, p)
                     /\ b = RemoveChunkFromBin(bins, chunk, s)
                     /\ o = overhead - ChunkOverheadSize
  OBVIOUS
<1>4. /\ ~chunk[p].last /\ chunk[s].free
      /\ chunk[p].size + chunk[s].size >= size
      /\ ResizeTo(k, b, o, p, size)
      /\ granted' = [granted EXCEPT ![p] = chunk'[p].size]
      /\ undefined' \in BOOLEAN
  BY <1>1, <1>2, <1>3 DEF Grow, IInv, SuccessorIsFree
<1>5. Consistent(chunk, bins, footer, granted, overhead, NoChunk)
  BY DEF IInv
<1>6. PICK g : g = Restrict(granted, DOMAIN granted \ {p})
  OBVIOUS
<1>7. /\ p \in DOMAIN chunk /\ ~chunk[p].free
      /\ Consistent(chunk, bins, footer, g, overhead, p)
  BY <1>5, <1>6, TakeUsedKeeps
<1>8. p \in DOMAIN k /\ IsMerged(chunk, k, p, s) /\ Consistent(k, b, footer, g, o, p)
  <2>1. \A c, x : /\ c \in DOMAIN chunk /\ ~chunk[c].last /\ s = Successor(chunk, c)
                  /\ k = MergeWithSuccessor(chunk, c)
                  /\ \/ p = c /\ x = s
                     \/ p = s /\ x = c
                  /\ chunk[x].free
                  => /\ c \in DOMAIN k /\ IsMerged(chunk, k, c, s)
                     /\ Consistent(k, RemoveChunkFromBin(bins, chunk, x),
                                   footer, g, overhead - ChunkOverheadSize, c)
    BY <1>7, MergeKeeps
  <2> QED
    BY <1>2, <1>3, <1>4, <1>7, <2>1
<1>9. /\ ~k[p].free /\ k[p].size = chunk[p].size + chunk[s].size /\ Tiled(k)
      /\ Block \cap DOMAIN k = Added
  BY <1>7, <1>8 DEF IsMerged, Added
<1>10. PICK m \in Nat : m = k[p].size /\ m <= SizeModulus - 2
  BY <1>8, <1>9, ChunkFacts, ChunkIsBelowModulus
<1>11. size <= m /\ IsRequestSize(n, size)
  <2>1. m >= size /\ size \in Nat
    <3>1. n \in 1..(SizeModulus - 1) /\ SizeModulus - 1 \in Nat
      BY ClassicArenaAssumption, ArenaSizesAssumption
    <3> QED
      BY <1>1, <1>4, <1>9, <1>10, <3>1, ChunkSizeIs
  <2>2. size <= m
    BY <2>1
  <2> QED
    BY <1>1, <1>10, <2>2, RequestSize
<1>12. size <= k[p].size
  BY <1>10, <1>11
<1> QED
  BY <1>4, <1>6, <1>8, <1>9, <1>11, <1>12, ResizeEnds

LEMMA OverheadIsInt ==
    ASSUME NEW h, NEW b, NEW f, NEW g, NEW o, NEW p, Consistent(h, b, f, g, o, p)
    PROVE  o \in Int
<1>1. IsFiniteSet(DOMAIN h) /\ IsFiniteSet(Block \cap DOMAIN h)
  <2>1. IsFiniteSet(DOMAIN h)
    BY DEF Consistent, Tiled
  <2> QED
    BY <2>1, FS_Subset
<1>2. Cardinality(DOMAIN h) \in Nat /\ Cardinality(Block \cap DOMAIN h) \in Nat
  BY <1>1, FS_CardinalityType
<1> QED
  BY <1>2, Positive DEF Consistent, OverheadOf

LEMMA FreeKeeps ==
    ASSUME IInv, NEW p \in DOMAIN granted, Free(p)
    PROVE  /\ IInv' /\ Added' = Added
           /\ granted' = Restrict(granted, DOMAIN granted \ {p})
<1>1. PICK h1 : h1 = MarkFree(chunk, p, TRUE)
  OBVIOUS
<1>2. PICK s, withNext : s = Successor(h1, p) /\ withNext = SuccessorIsFree(h1, p)
  OBVIOUS
<1>3. PICK h2, b2 :
         /\ h2 = IF withNext THEN MergeWithSuccessor(h1, p) ELSE h1
         /\ b2 = IF withNext THEN RemoveChunkFromBin(bins, h1, s) ELSE bins
  OBVIOUS
<1>4. PICK withPred, pred : withPred = h2[p].predFree /\ pred = p - footer[p]
  OBVIOUS
<1>5. PICK h3, b3, merged :
         /\ h3 = IF withPred THEN MergeWithSuccessor(h2, pred) ELSE h2
         /\ b3 = IF withPred THEN RemoveChunkFromBin(b2, h2, pred) ELSE b2
         /\ merged = IF withPred THEN pred ELSE p
  OBVIOUS
<1>6. /\ ~MissesFooter(chunk, p)
      /\ chunk' = MarkFree(h3, merged, TRUE)
      /\ footer' = WriteFooter(footer, h3, merged)
      /\ bins' = AddFreeChunk(b3, h3, merged)
      /\ granted' = Restrict(granted, DOMAIN granted \ {p})
      /\ overhead' = overhead - HeaderIf(withNext) - HeaderIf(withPred)
      /\ undefined' \in BOOLEAN
  BY <1>1, <1>2, <1>3, <1>4, <1>5 DEF Free, IInv
<1>7. Consistent(chunk, bins, footer, granted, overhead, NoChunk)
  BY DEF IInv
<1>8. PICK g : g = Restrict(granted, DOMAIN granted \ {p})
  OBVIOUS
<1>9. p \in DOMAIN chunk /\ Consistent(chunk, bins, footer, g, overhead, p)
  BY <1>7, <1>8, TakeUsedKeeps
<1>10. /\ Consistent(h1, bins, footer, g, overhead, p)
       /\ p \in DOMAIN h1 /\ h1[p].predFree = chunk[p].predFree
       /\ Block \cap DOMAIN h1 = Added
  <2>1. Tiled(chunk)
    BY <1>7 DEF Consistent
  <2>2. IsMarked(chunk, h1, p, TRUE)
    BY <1>1, <1>9, <2>1, MarkTrueFacts
  <2>3. \A x \in BOOLEAN : Consistent(MarkFree(chunk, p, x), bins, footer, g, overhead, p)
    BY <1>9, MarkKeeps
  <2>4. Consistent(h1, bins, footer, g, overhead, p)
    BY <1>1, <2>3, Zenon
  <2> QED
    BY <1>9, <2>2, <2>4 DEF IsMarked, Added
<1>11. PICK o2 : o2 = overhead - HeaderIf(withNext)
  OBVIOUS
<1>12. /\ Consistent(h2, b2, footer, g, o2, p)
       /\ p \in DOMAIN h2 /\ h2[p].predFree = chunk[p].predFree
       /\ Block \cap DOMAIN h2 = Added
  <2>1. CASE withNext
    <3>1. /\ h2 = MergeWithSuccessor(h1, p) /\ b2 = RemoveChunkFromBin(bins, h1, s)
          /\ o2 = overhead - ChunkOverheadSize
          /\ ~h1[p].last /\ h1[s].free /\ s = Successor(h1, p)
      BY <1>2, <1>3, <1>11, <2>1 DEF HeaderIf, SuccessorIsFree
    <3>2. p \in DOMAIN h2 /\ IsMerged(h1, h2, p, s) /\ Consistent(h2, b2, footer, g, o2, p)
      BY <1>10, <3>1, MergeKeeps
    <3> QED
      BY <1>10, <3>2 DEF IsMerged
  <2>2. CASE ~withNext
    <3>1. h2 = h1 /\ b2 = bins /\ o2 = overhead - 0
      BY <1>3, <1>11, <2>2 DEF HeaderIf
    <3>2. overhead - 0 = overhead
      BY <1>7, OverheadIsInt
    <3> QED
      BY <1>10, <3>1, <3>2
  <2> QED
    BY <2>1, <2>2
<1>13. PICK o3 : o3 = o2 - HeaderIf(withPred)
  OBVIOUS
<1>14. /\ Consistent(h3, b3, footer, g, o3, merged)
       /\ merged \in DOMAIN h3
       /\ Block \cap DOMAIN h3 = Added
  <2>1. CASE withPred
    <3>1. p \in DOMAIN footer
      BY <1>4, <1>6, <1>12, <2>1 DEF MissesFooter
    <3>2. /\ pred \in DOMAIN h2 /\ h2[pred].free /\ Successor(h2, pred) = p
          /\ ~h2[pred].last /\ pred # p
      BY <1>4, <1>12, <3>1, PredecessorIs
    <3>3. /\ h3 = MergeWithSuccessor(h2, pred) /\ b3 = RemoveChunkFromBin(b2, h2, pred)
          /\ o3 = o2 - ChunkOverheadSize /\ merged = pred
      BY <1>5, <1>13, <2>1 DEF HeaderIf
    <3>4. /\ pred \in DOMAIN h3 /\ IsMerged(h2, h3, pred, p)
          /\ Consistent(h3, b3, footer, g, o3, pred)
      BY <1>12, <3>2, <3>3, MergeKeeps
    <3> QED
      BY <1>12, <3>3, <3>4 DEF IsMerged
  <2>2. CASE ~withPred
    <3>1. h3 = h2 /\ b3 = b2 /\ o3 = o2 - 0 /\ merged = p
      BY <1>5, <1>13, <2>2 DEF HeaderIf
    <3>2. o2 - 0 = o2
      BY <1>12, OverheadIsInt
    <3> QED
      BY <1>12, <3>1, <3>2
  <2> QED
    BY <2>1, <2>2
<1>15. PICK k : k = MarkFree(h3, merged, TRUE)
  OBVIOUS
<1>16. Consistent(k, AddFreeChunk(b3, h3, merged), WriteFooter(footer, h3, merged),
                  g, o3, NoChunk)
  BY <1>14, <1>15, PutFreeKeeps
<1>17. /\ chunk' = k /\ bins' = AddFreeChunk(b3, h3, merged)
       /\ footer' = WriteFooter(footer, h3, merged) /\ granted' = g /\ overhead' = o3
  BY <1>6, <1>8, <1>11, <1>13, <1>15
<1>18. Added' = Added
  <2>1. Tiled(h3)
    BY <1>14 DEF Consistent
  <2>2. IsMarked(h3, k, merged, TRUE)
    BY <1>14, <1>15, <2>1, MarkTrueFacts
  <2>3. DOMAIN chunk' = DOMAIN h3
    BY <1>17, <2>2 DEF IsMarked
  <2> QED
    BY <1>14, <2>3 DEF Added
<1>19. IInv'
  BY <1>6, <1>16, <1>17 DEF IInv
<1> QED
  BY <1>6, <1>18, <1>19

-----------------------------------------------------------------------------
(* What holds of every reachable heap *)

\* The headers, bins, footers, grants and overhead agree after every operation.
THEOREM ClassicArenaInvariance == Spec => []IInv
<1>1. Init => IInv
  BY InitEstablishes
<1>2. IInv /\ [Next]_vars => IInv'
  <2>1. SUFFICES ASSUME IInv, [Next]_vars
                 PROVE  IInv'
    OBVIOUS
  <2>2. CASE UNCHANGED vars
    BY <2>1, <2>2 DEF IInv, vars
  <2>3. ASSUME NEW b \in Block, AddMemoryBlock(b)
        PROVE  IInv'
    BY <2>1, <2>3, AddMemoryBlockKeeps
  <2>4. ASSUME NEW n \in Request, Allocate(n)
        PROVE  IInv'
    BY <2>1, <2>4, AllocateKeeps
  <2>5. ASSUME NEW p \in DOMAIN granted, Free(p)
        PROVE  IInv'
    BY <2>1, <2>5, FreeKeeps
  <2>6. ASSUME NEW p \in DOMAIN granted, FreeMissesFooter(p)
        PROVE  IInv'
    BY <2>1, <2>6 DEF IInv, FreeMissesFooter
  <2>7. ASSUME NEW p \in DOMAIN granted, NEW n \in Request, Shrink(p, n)
        PROVE  IInv'
    BY <2>1, <2>7, ShrinkKeeps
  <2>8. ASSUME NEW p \in DOMAIN granted, NEW n \in Request, Grow(p, n)
        PROVE  IInv'
    BY <2>1, <2>8, GrowKeeps
  <2> QED
    BY <2>1, <2>2, <2>3, <2>4, <2>5, <2>6, <2>7, <2>8 DEF Next
<1> QED
  BY <1>1, <1>2, PTL DEF Spec

\* A chunk begins and ends at addresses of its block, and has a size of one.
LEMMA ChunkIsInBlock ==
    ASSUME NEW h, Tiled(h), NEW p \in DOMAIN h
    PROVE  \E b \in Block \cap DOMAIN h :
              /\ b \in Nat /\ BlockSize[b] \in Nat
              /\ b <= p /\ Successor(h, p) <= b + BlockSize[b]
              /\ h[p].last <=> Successor(h, p) = b + BlockSize[b]
              /\ h[p].size \in 1..BlockSize[b]
<1>1. PICK b \in Block \cap DOMAIN h : LiesIn(h, p, b)
  BY DEF Tiled
<1>2. b \in Nat /\ BlockSize[b] \in Nat
  BY BlockFacts
<1>3. /\ b <= p /\ Successor(h, p) <= b + BlockSize[b]
      /\ h[p].last <=> Successor(h, p) = b + BlockSize[b]
  BY <1>1 DEF LiesIn, BlockEnd
<1>4. p \in Nat /\ h[p].size \in Nat /\ h[p].size > 0 /\ Successor(h, p) = p + h[p].size
  BY ChunkFacts
<1>5. h[p].size \in 1..BlockSize[b]
  <2>1. PICK m \in Nat, n \in Nat : m = h[p].size /\ n = BlockSize[b]
    BY <1>2, <1>4
  <2>2. b <= p /\ p + m <= b + n /\ m > 0
    BY <1>3, <1>4, <2>1
  <2>3. m \in 1..n
    BY <1>2, <1>4, <2>2
  <2> QED
    BY <2>1, <2>3
<1> QED
  BY <1>1, <1>2, <1>3, <1>5

LEMMA ListOfSubset ==
    ASSUME NEW S, NEW l \in Seq(Nat), \A k \in 1..Len(l) : l[k] \in S
    PROVE  l \in Seq(S)
<1>1. Len(l) \in Nat /\ l \in [1..Len(l) -> Nat]
  BY LenProperties
<1>2. l = [k \in 1..Len(l) |-> l[k]]
  BY <1>1
<1>3. [k \in 1..Len(l) |-> l[k]] \in Seq(S)
  BY <1>1, IsASeq
<1> QED
  BY <1>2, <1>3

\* The heap's variables have their types, and clients hold chunks that exist.
THEOREM ClassicArenaTypes == Spec => []TypeOK
<1>1. IInv => TypeOK
  <2>1. SUFFICES ASSUME IInv
                 PROVE  TypeOK
    OBVIOUS
  <2>2. /\ Tiled(chunk) /\ BinsHold(chunk, bins, FreeBut(chunk, NoChunk))
        /\ FootersOf(chunk, footer, FreeBut(chunk, NoChunk), NoChunk)
        /\ GrantsOf(chunk, granted, NoChunk)
    BY <2>1 DEF IInv, Consistent
  <2>3. \A p \in DOMAIN chunk : p # NoChunk
    BY <2>2, ChunkFacts DEF NoChunk
  <2>4. \A p \in DOMAIN chunk : /\ p \in Address /\ Successor(chunk, p) \in Address
                                /\ chunk[p] \in Header
    <3>1. TAKE p \in DOMAIN chunk
    <3>2. PICK b \in Block \cap DOMAIN chunk :
             /\ b \in Nat /\ BlockSize[b] \in Nat
             /\ b <= p /\ Successor(chunk, p) <= b + BlockSize[b]
      BY <2>2, ChunkIsInBlock
    <3>3. /\ p \in Nat /\ Successor(chunk, p) \in Nat /\ p < Successor(chunk, p)
          /\ chunk[p] \in Header
      BY <2>2, ChunkFacts
    <3>4. p \in b..(b + BlockSize[b]) /\ Successor(chunk, p) \in b..(b + BlockSize[b])
      BY <3>2, <3>3
    <3> QED
      BY <3>3, <3>4 DEF Address
  <2>5. \A e \in DOMAIN footer : e \in Address /\ footer[e] \in Nat
    <3>1. TAKE e \in DOMAIN footer
    <3>2. PICK q \in FreeBut(chunk, NoChunk) : Successor(chunk, q) = e
      BY <2>2, <2>3 DEF FootersOf
    <3>3. q \in DOMAIN chunk
      BY DEF FreeBut
    <3>4. footer[e] = chunk[q].size
      BY <2>2, <3>2 DEF FootersOf
    <3> QED
      BY <2>2, <2>4, <3>2, <3>3, <3>4, ChunkFacts
  <2>6. bins \in [BinIndex -> Seq(DOMAIN chunk)]
    <3>1. ASSUME NEW i \in BinIndex
          PROVE  bins[i] \in Seq(DOMAIN chunk)
      <4>1. bins[i] \in Seq(Nat) /\ ListHolds(chunk, bins[i], i, FreeBut(chunk, NoChunk))
        BY <2>2 DEF BinsHold
      <4>2. \A k \in 1..Len(bins[i]) : bins[i][k] \in DOMAIN chunk
        BY <4>1 DEF ListHolds, FreeBut
      <4> QED
        BY <4>1, <4>2, ListOfSubset
    <3> QED
      BY <2>2, <3>1 DEF BinsHold
  <2>7. DOMAIN granted \subseteq DOMAIN chunk
    BY <2>2 DEF GrantsOf
  <2>8. overhead \in Int /\ undefined \in BOOLEAN
    BY <2>1, OverheadIsInt DEF IInv
  <2> QED
    BY <2>4, <2>5, <2>6, <2>7, <2>8 DEF TypeOK
<1> QED
  BY <1>1, ClassicArenaInvariance, PTL

\* The chunks cover the blocks without gap or overlap, and the clients hold what
\* is not free, whatever was allocated, freed and resized before.
THEOREM ClassicArenaTiling == Spec => []ChunksTileBlocks
<1>1. IInv => ChunksTileBlocks
  <2>1. SUFFICES ASSUME IInv
                 PROVE  ChunksTileBlocks
    OBVIOUS
  <2>2. Tiled(chunk) /\ GrantsOf(chunk, granted, NoChunk) /\ OverheadOf(chunk, overhead)
    BY <2>1 DEF IInv, Consistent
  <2>3. ASSUME NEW p \in DOMAIN chunk
        PROVE  /\ chunk[p].size >= SmallestBin
               /\ IF chunk[p].last
                  THEN \E b \in Added : Successor(chunk, p) = b + BlockSize[b]
                  ELSE Successor(chunk, p) \in DOMAIN chunk
               /\ ~\E q \in DOMAIN chunk : p < q /\ q < Successor(chunk, p)
               /\ \E b \in Added : b <= p /\ p < b + BlockSize[b]
    <3>1. PICK b \in Block \cap DOMAIN chunk :
             /\ b \in Nat /\ BlockSize[b] \in Nat
             /\ b <= p /\ Successor(chunk, p) <= b + BlockSize[b]
             /\ chunk[p].last <=> Successor(chunk, p) = b + BlockSize[b]
      BY <2>2, ChunkIsInBlock
    <3>2. /\ p \in Nat /\ Successor(chunk, p) \in Nat /\ p < Successor(chunk, p)
          /\ chunk[p].size >= SmallestBin /\ chunk[p].last \in BOOLEAN
      BY <2>2, ChunkFacts
    <3>3. ~chunk[p].last => Successor(chunk, p) \in DOMAIN chunk
      BY <2>2 DEF Tiled
    <3>4. ~\E q \in DOMAIN chunk : p < q /\ q < Successor(chunk, p)
      <4>1. SUFFICES ASSUME NEW q \in DOMAIN chunk, p < q, q < Successor(chunk, p)
                     PROVE  FALSE
        OBVIOUS
      <4>2. q \in Nat /\ Successor(chunk, p) <= q
        BY <2>2, <4>1, ChunkFacts DEF Tiled
      <4> QED
        BY <3>2, <4>1, <4>2
    <3>5. p < b + BlockSize[b]
      BY <3>1, <3>2
    <3> QED
      BY <3>1, <3>2, <3>3, <3>4, <3>5 DEF Added
  <2>4. DOMAIN granted = {p \in DOMAIN chunk : ~chunk[p].free}
    <3>1. \A p \in DOMAIN chunk : p # NoChunk
      BY <2>2, ChunkFacts DEF NoChunk
    <3> QED
      BY <2>2, <3>1 DEF GrantsOf
  <2>5. \A p \in DOMAIN granted : granted[p] = chunk[p].size
    BY <2>2 DEF GrantsOf
  <2>6. overhead = ChunkOverheadSize * (Cardinality(DOMAIN chunk) - Cardinality(Added))
    BY <2>2 DEF OverheadOf, Added
  <2> QED
    BY <2>3, <2>4, <2>5, <2>6 DEF ChunksTileBlocks
<1> QED
  BY <1>1, ClassicArenaInvariance, PTL

\* Each free chunk is in the list of its size once, and the lists are sorted.
THEOREM ClassicArenaBins == Spec => []BinsHoldTheFreeChunks
<1>1. IInv => BinsHoldTheFreeChunks
  <2>1. SUFFICES ASSUME IInv
                 PROVE  BinsHoldTheFreeChunks
    OBVIOUS
  <2>2. Tiled(chunk) /\ BinsHold(chunk, bins, FreeBut(chunk, NoChunk))
    BY <2>1 DEF IInv, Consistent
  <2>3. FreeBut(chunk, NoChunk) = {p \in DOMAIN chunk : chunk[p].free}
    <3>1. \A p \in DOMAIN chunk : p # NoChunk
      BY <2>2, ChunkFacts DEF NoChunk
    <3> QED
      BY <3>1 DEF FreeBut
  <2>4. ASSUME NEW i \in BinIndex
        PROVE  /\ \A p \in DOMAIN chunk :
                     Cardinality({k \in DOMAIN bins[i] : bins[i][k] = p}) =
                        IF chunk[p].free /\ i = SizeToBinIndex(chunk[p].size) THEN 1 ELSE 0
               /\ \A k \in 1..(Len(bins[i]) - 1) :
                     chunk[bins[i][k]].size <= chunk[bins[i][k + 1]].size
    <3>1. PICK l \in Seq(Nat) : l = bins[i] /\ ListHolds(chunk, l, i, FreeBut(chunk, NoChunk))
      BY <2>2 DEF BinsHold
    <3>2. PICK n \in Nat : n = Len(l) /\ DOMAIN l = 1..n
      OBVIOUS
    <3>3. \A j, k \in 1..n : j < k => l[j] # l[k] /\ chunk[l[j]].size <= chunk[l[k]].size
      BY <3>1, <3>2 DEF ListHolds
    <3>4. \A k \in 1..(n - 1) : chunk[l[k]].size <= chunk[l[k + 1]].size
      <4>1. TAKE k \in 1..(n - 1)
      <4>2. k \in 1..n /\ k + 1 \in 1..n /\ k < k + 1
        OBVIOUS
      <4> QED
        BY <3>3, <4>2
    <3>5. ASSUME NEW p \in DOMAIN chunk
          PROVE  Cardinality({k \in DOMAIN l : l[k] = p}) =
                    IF chunk[p].free /\ i = SizeToBinIndex(chunk[p].size) THEN 1 ELSE 0
      <4>1. PICK S : S = {k \in 1..n : l[k] = p}
        OBVIOUS
      <4>2. CASE chunk[p].free /\ i = SizeToBinIndex(chunk[p].size)
        <5>1. p \in FreeBut(chunk, NoChunk)
          BY <2>3, <4>2
        <5>2. PICK k \in 1..n : l[k] = p
          BY <3>1, <3>2, <4>2, <5>1 DEF ListHolds
        <5>3. \A j \in 1..n : l[j] = p => j = k
          <6>1. TAKE j \in 1..n
          <6>2. j < k \/ k < j \/ j = k
            OBVIOUS
          <6> QED
            BY <3>3, <5>2, <6>2
        <5>4. S = {k}
          BY <4>1, <5>2, <5>3
        <5> QED
          BY <3>2, <4>1, <4>2, <5>4, FS_Singleton
      <4>3. CASE ~(chunk[p].free /\ i = SizeToBinIndex(chunk[p].size))
        <5>1. S = {}
          BY <2>3, <3>1, <3>2, <4>1, <4>3 DEF ListHolds
        <5> QED
          BY <3>2, <4>1, <4>3, <5>1, FS_EmptySet
      <4> QED
        BY <4>2, <4>3
    <3> QED
      BY <3>1, <3>2, <3>4, <3>5
  <2> QED
    BY <2>4 DEF BinsHoldTheFreeChunks
<1> QED
  BY <1>1, ClassicArenaInvariance, PTL

\* The chunk after a free chunk has the flag and the footer by which it finds it.
THEOREM ClassicArenaFooters == Spec => []FreeChunksCanBeFound
<1>1. IInv => FreeChunksCanBeFound
  <2>1. SUFFICES ASSUME IInv, NEW p \in DOMAIN chunk, chunk[p].free, ~chunk[p].last,
                        NEW s, s = Successor(chunk, p)
                 PROVE  chunk[s].predFree /\ s \in DOMAIN footer /\ footer[s] = chunk[p].size
    BY DEF FreeChunksCanBeFound
  <2>2. /\ Tiled(chunk) /\ FlagsOf(chunk, FreeBut(chunk, NoChunk))
        /\ FootersOf(chunk, footer, FreeBut(chunk, NoChunk), NoChunk)
    BY <2>1 DEF IInv, Consistent
  <2>3. p \in FreeBut(chunk, NoChunk)
    <3>1. p # NoChunk
      BY <2>2, ChunkFacts DEF NoChunk
    <3> QED
      BY <2>1, <3>1 DEF FreeBut
  <2> QED
    BY <2>1, <2>2, <2>3 DEF FlagsOf, FootersOf
<1> QED
  BY <1>1, ClassicArenaInvariance, PTL

\* A client gets room for what it asked for.
THEOREM ClassicArenaRequests == Spec => RequestsAreMet
<1>1. IInv /\ [Next]_vars =>
         [\A n \in Request :
            /\ Allocate(n) => \A p \in DOMAIN granted' \ DOMAIN granted :
                  granted'[p] - ChunkOverheadSize >= n
            /\ \A p \in DOMAIN granted : Grow(p, n) \/ Shrink(p, n) =>
                  granted'[p] - ChunkOverheadSize >= n]_vars
  <2>1. SUFFICES ASSUME IInv, NEW n \in Request
                 PROVE  /\ Allocate(n) => \A p \in DOMAIN granted' \ DOMAIN granted :
                              granted'[p] - ChunkOverheadSize >= n
                        /\ \A p \in DOMAIN granted : Grow(p, n) \/ Shrink(p, n) =>
                              granted'[p] - ChunkOverheadSize >= n
    OBVIOUS
  <2>2. ASSUME Allocate(n), NEW p \in DOMAIN granted' \ DOMAIN granted
        PROVE  granted'[p] - ChunkOverheadSize >= n
    <3>1. PICK q \in DOMAIN chunk \ DOMAIN granted :
             \E size \in Nat : Granted(q, size) /\ size - ChunkOverheadSize >= n
      BY <2>1, <2>2, AllocateKeeps
    <3>2. PICK size \in Nat : Granted(q, size) /\ size - ChunkOverheadSize >= n
      BY <3>1
    <3>3. DOMAIN granted' = DOMAIN granted \cup {q}
      BY <3>2 DEF Granted, Put
    <3> QED
      BY <2>2, <3>2, <3>3 DEF Granted
  <2>3. ASSUME NEW p \in DOMAIN granted, Grow(p, n) \/ Shrink(p, n)
        PROVE  granted'[p] - ChunkOverheadSize >= n
    <3>1. PICK m \in Nat : Granted(p, m) /\ m - ChunkOverheadSize >= n
      BY <2>1, <2>3, GrowKeeps, ShrinkKeeps
    <3> QED
      BY <3>1 DEF Granted
  <2> QED
    BY <2>2, <2>3
<1> QED
  BY <1>1, ClassicArenaInvariance, PTL DEF Spec, RequestsAreMet

-----------------------------------------------------------------------------
(* The heap implements the allocator *)

\* The addresses of aligned memory in the blocks that were added.
Given == {a \in UNION {b..(b + BlockSize[b] - 1) : b \in Added} : a % Alignment = 0}

LEMMA BlocksAreGranules ==
    ASSUME NEW B \in SUBSET Block
    PROVE  {a \in UNION {b..(b + BlockSize[b] - 1) : b \in B} : a % Alignment = 0}
             \subseteq {a \in Address : a % Alignment = 0}
<1>1. SUFFICES ASSUME NEW a, NEW b \in B, a \in b..(b + BlockSize[b] - 1)
               PROVE  a \in Address
  OBVIOUS
<1>2. b \in Block /\ b \in Nat /\ BlockSize[b] \in Nat
  BY BlockFacts
<1>3. a \in b..(b + BlockSize[b])
  BY <1>1, <1>2
<1> QED
  BY <1>2, <1>3 DEF Address

\* The memory that the clients hold is given, and is not shared.
LEMMA HeldApart ==
    ASSUME NEW h, NEW g, Tiled(h), GrantsOf(h, g, NoChunk), NEW p \in DOMAIN g,
           NEW a \in Int, p <= a, a < p + g[p]
    PROVE  /\ \E b \in Block \cap DOMAIN h : a \in b..(b + BlockSize[b] - 1)
           /\ \A q \in DOMAIN g \ {p} : ~(q <= a /\ a < q + g[q])
<1>1. \A q \in DOMAIN g : /\ q \in DOMAIN h /\ q \in Nat /\ Successor(h, q) \in Nat
                          /\ q + g[q] = Successor(h, q)
  BY ChunkFacts DEF GrantsOf
<1>2. a < Successor(h, p)
  BY <1>1
<1>3. PICK b \in Block \cap DOMAIN h :
         /\ b \in Nat /\ BlockSize[b] \in Nat
         /\ b <= p /\ Successor(h, p) <= b + BlockSize[b]
  BY <1>1, ChunkIsInBlock
<1>4. a \in b..(b + BlockSize[b] - 1)
  BY <1>1, <1>2, <1>3
<1>5. ASSUME NEW q \in DOMAIN g \ {p}, q <= a, a < Successor(h, q)
      PROVE  FALSE
  <2>1. p < q \/ q < p
    BY <1>1
  <2>2. Successor(h, p) <= q \/ Successor(h, q) <= p
    BY <1>1, <2>1 DEF Tiled
  <2> QED
    BY <1>1, <1>2, <1>5, <2>2
<1> QED
  BY <1>1, <1>4, <1>5

LEMMA GrantedIsAvailable ==
    ASSUME IInv', NEW p, NEW size \in Nat, Granted(p, size)
    PROVE  /\ p \in {a \in Address : a % Alignment = 0}
           /\ size \in {n \in UNION {1..BlockSize[b] : b \in Block} : n % Alignment = 0}
           /\ Allocation!IsAvailable(p, size)
           /\ Allocation!Granting(p, size)
           /\ Given' = Given
<1>1. PICK h, g : h = chunk' /\ g = granted'
  OBVIOUS
<1>2. Tiled(h) /\ GrantsOf(h, g, NoChunk)
  BY <1>1 DEF IInv, Consistent
<1>3. /\ p \in DOMAIN h /\ g = Put(granted, p, size) /\ g[p] = size
      /\ Added' = Added /\ Block \cap DOMAIN h = Added
  BY <1>1 DEF Granted, Added
<1>4. DOMAIN g = DOMAIN granted \cup {p} /\ \A q \in DOMAIN granted \ {p} : g[q] = granted[q]
  BY <1>3 DEF Put
<1>5. size = h[p].size
  BY <1>2, <1>3, <1>4 DEF GrantsOf
<1>6. PICK b \in Block \cap DOMAIN h :
         /\ b \in Nat /\ BlockSize[b] \in Nat
         /\ b <= p /\ Successor(h, p) <= b + BlockSize[b]
         /\ h[p].size \in 1..BlockSize[b]
  BY <1>2, <1>3, ChunkIsInBlock
<1>7. /\ p \in Nat /\ Aligned(p) /\ Aligned(h[p].size)
      /\ p < Successor(h, p) /\ Successor(h, p) \in Nat
  BY <1>2, <1>3, ChunkFacts
<1>8. p \in {a \in Address : a % Alignment = 0}
  <2>1. p \in b..(b + BlockSize[b])
    BY <1>6, <1>7
  <2> QED
    BY <1>7, <2>1 DEF Address, Aligned
<1>9. size \in {n \in UNION {1..BlockSize[c] : c \in Block} : n % Alignment = 0}
  BY <1>5, <1>6, <1>7 DEF Aligned
<1>10. ASSUME NEW a \in Allocation!Extent(p, size)
       PROVE  a \in Given /\ \A q \in DOMAIN granted \ {p} : ~(q <= a /\ a < q + granted[q])
  <2>1. a \in Address /\ a % Alignment = 0 /\ p <= a /\ a < p + size
    BY DEF Allocation!Extent
  <2>2. a \in Int
    <3>1. \A c \in Block : c..(c + BlockSize[c]) \subseteq Int
      OBVIOUS
    <3> QED
      BY <2>1, <3>1 DEF Address
  <2>3. /\ \E c \in Block \cap DOMAIN h : a \in c..(c + BlockSize[c] - 1)
        /\ \A q \in DOMAIN g \ {p} : ~(q <= a /\ a < q + g[q])
    <3>1. p \in DOMAIN g /\ a < p + g[p]
      BY <1>3, <1>4, <2>1
    <3> QED
      BY <1>2, <2>1, <2>2, <3>1, HeldApart
  <2>4. a \in Given
    BY <1>3, <2>1, <2>3 DEF Given
  <2>5. \A q \in DOMAIN granted \ {p} : ~(q <= a /\ a < q + granted[q])
    BY <1>4, <2>3
  <2> QED
    BY <2>4, <2>5
<1>11. Allocation!IsAvailable(p, size)
  <2>1. Allocation!Extent(p, size) \subseteq Given
    BY <1>10
  <2>2. ASSUME NEW q \in DOMAIN granted \ {p}
        PROVE  Allocation!Extent(p, size) \cap Allocation!Extent(q, granted[q]) = {}
    <3>1. \A a \in Allocation!Extent(q, granted[q]) : q <= a /\ a < q + granted[q]
      BY DEF Allocation!Extent
    <3> QED
      BY <1>10, <3>1
  <2> QED
    BY <2>1, <2>2 DEF Allocation!IsAvailable, Given
<1>12. Allocation!Granting(p, size)
  BY <1>1, <1>3 DEF Allocation!Granting, Put
<1>13. Given' = Given
  BY <1>3 DEF Given
<1> QED
  BY <1>8, <1>9, <1>11, <1>12, <1>13

\* Each operation of the heap is one of the allocator, or none that it sees: no byte
\* is granted to two clients, or granted without having been given.
THEOREM ClassicArenaImplementsAllocator == Spec => ImplementsAllocator
<1>1. Init => Allocation!AllocatorInit
  <2>1. SUFFICES ASSUME Init
                 PROVE  Allocation!AllocatorInit
    OBVIOUS
  <2>2. Added = {} /\ granted = <<>>
    BY <2>1 DEF Init, Added
  <2>3. Given = {}
    BY <2>2 DEF Given
  <2> QED
    BY <2>2, <2>3 DEF Allocation!AllocatorInit, Given
<1>2. ASSUME IInv, IInv', [Next]_vars
      PROVE  [Allocation!AllocatorNext]_(Allocation!allocatorVars)
  <2>1. CASE granted' = granted /\ Added' = Added
    <3>1. Given' = Given
      BY <2>1 DEF Given
    <3> QED
      BY <2>1, <3>1 DEF Allocation!allocatorVars, Given
  <2>2. ASSUME NEW b \in Block, AddMemoryBlock(b)
        PROVE  Allocation!AllocatorNext
    <3>1. Added \subseteq Added' /\ granted' = granted
      BY <1>2, <2>2, AddMemoryBlockKeeps
    <3>2. Given \subseteq Given'
      BY <3>1 DEF Given
    <3>3. Given' \subseteq {a \in Address : a % Alignment = 0}
      <4>1. PICK B \in SUBSET Block : B = Added'
        BY DEF Added
      <4>2. Given' = {a \in UNION {c..(c + BlockSize[c] - 1) : c \in B} : a % Alignment = 0}
        BY <4>1 DEF Given
      <4> QED
        BY <4>2, BlocksAreGranules
    <3>4. Allocation!Extend
      BY <3>1, <3>2, <3>3 DEF Allocation!Extend, Given
    <3> QED
      BY <3>4 DEF Allocation!AllocatorNext
  <2>3. ASSUME NEW n \in Request, Allocate(n)
        PROVE  Allocation!AllocatorNext
    <3>1. PICK p \in DOMAIN chunk \ DOMAIN granted, size \in Nat : Granted(p, size)
      BY <1>2, <2>3, AllocateKeeps
    <3>2. Allocation!Grant(p, size)
      BY <1>2, <3>1, GrantedIsAvailable DEF Allocation!Grant, Given
    <3> QED
      BY <1>2, <3>1, <3>2, GrantedIsAvailable DEF Allocation!AllocatorNext
  <2>4. ASSUME NEW p \in DOMAIN granted, NEW n \in Request, Shrink(p, n) \/ Grow(p, n)
        PROVE  Allocation!AllocatorNext
    <3>1. PICK size \in Nat : Granted(p, size)
      BY <1>2, <2>4, ShrinkKeeps, GrowKeeps
    <3>2. Allocation!Resize(p, size)
      BY <1>2, <3>1, GrantedIsAvailable DEF Allocation!Resize, Given
    <3> QED
      BY <1>2, <3>1, <3>2, GrantedIsAvailable DEF Allocation!AllocatorNext
  <2>5. ASSUME NEW p \in DOMAIN granted, Free(p)
        PROVE  Allocation!AllocatorNext
    <3>1. /\ Added' = Added
          /\ granted' = Restrict(granted, DOMAIN granted \ {p})
      BY <1>2, <2>5, FreeKeeps
    <3>2. Given' = Given
      BY <3>1 DEF Given
    <3>3. Allocation!TakeBack(p)
      BY <3>1, <3>2 DEF Allocation!TakeBack, Restrict, Given
    <3> QED
      BY <3>3 DEF Allocation!AllocatorNext
  <2>6. ASSUME NEW p \in DOMAIN granted, FreeMissesFooter(p)
        PROVE  granted' = granted /\ Added' = Added
    BY <2>6 DEF FreeMissesFooter, Added
  <2>7. CASE UNCHANGED vars
    <3>1. granted' = granted /\ Added' = Added
      BY <2>7 DEF vars, Added
    <3> QED
      BY <2>1, <3>1
  <2> QED
    BY <1>2, <2>1, <2>2, <2>3, <2>4, <2>5, <2>6, <2>7 DEF Next
<1> QED
  BY <1>1, <1>2, ClassicArenaInvariance, PTL
     DEF Spec, ImplementsAllocator, Allocation!AllocatorSpec
=============================================================================
