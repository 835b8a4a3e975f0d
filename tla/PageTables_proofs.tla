-------------------------- MODULE PageTables_proofs --------------------------
(***************************************************************************)
(* Proofs about the page tables, for any processors, number of levels,     *)
(* size of tables, frames and requests, and for the clients that keep      *)
(* apart what the locks of the entries do not.                             *)
(*                                                                         *)
(* Each table has a place: a level and a number among the tables of that   *)
(* level.  The tree can then be seen as a flat map from places to entries, *)
(* of which a step changes at most one.  The invariant says of that map    *)
(* what the operations in progress have found and done so far, and that    *)
(* they do not come across each other.                                     *)
(***************************************************************************)
EXTENDS PageTables, FiniteSetTheorems, WellFoundedInduction, SequenceTheorems, TLAPS

Slot == 0 .. EntryCount - 1
AnyEntry == {Absent} \cup [kind : {"table"}, address : TableFrame]
                     \cup [kind : {"page"}, address : Int]

\* The number of a page's entry among those of a level.
Number(page, level) == page \div PageSize[level]

-----------------------------------------------------------------------------
(* The tree T, F of whose frames are free, with tables at level L, number N *)

IsPlaced(F, L, N) ==
    /\ F \subseteq TableFrame
    /\ L \in [(TableFrame \ F) \cup {Root} -> Level]
    /\ N \in [(TableFrame \ F) \cup {Root} -> Nat]
    /\ L[Root] = Levels - 1 /\ N[Root] = 0
    /\ \A t, u \in (TableFrame \ F) \cup {Root} : L[t] = L[u] /\ N[t] = N[u] => t = u

\* A table is at the place of the entry that refers to it, and there is one.
IsTree(T, F, L, N) ==
    /\ T \in [TableFrame \cup {Root} -> [Slot -> AnyEntry]]
    /\ IsPlaced(F, L, N)
    /\ \A f \in F, i \in Slot : T[f][i] = Absent
    /\ \A t \in (TableFrame \ F) \cup {Root}, i \in Slot : T[t][i].kind = "table" =>
          /\ L[t] > 0
          /\ T[t][i].address \notin F
          /\ L[T[t][i].address] = L[t] - 1
          /\ N[T[t][i].address] = N[t] * EntryCount + i
    /\ \A f \in TableFrame \ F :
          \E t \in (TableFrame \ F) \cup {Root}, i \in Slot : T[t][i] = SubTable(f)

-----------------------------------------------------------------------------
(* The entries of all pages at all levels, as a map G *)

Entries == [p \in Page |-> [l \in Level |-> Entry(p, l)]]

Unmapped(G, p) == \A l \in Level : G[p][l].kind # "page"

MapsTo(G, p, frame) ==
    \E l \in Level : G[p][l].kind = "page" /\ frame = G[p][l].address + (p % PageSize[l])

Upward(G, p, level) == \A l \in Level : l > level => G[p][l].kind = "table"

-----------------------------------------------------------------------------
(* Operations in progress *)

RequestFits(o) == o.first + o.size <= PageSize[Levels]

AddRequest == [kind : {"add"}, first : Page, size : Nat \ {0}, delta : Delta,
               page : Nat, level : Level, absent : BOOLEAN]

\* An add is on its way down to the entry of a page; it has mapped those before,
\* and neither those after nor a table are in its way.
AddOK(G, o) ==
    /\ o \in AddRequest /\ RequestFits(o)
    /\ o.first <= o.page /\ o.page <= o.first + o.size
    /\ o.page < o.first + o.size => o.level >= TargetLevel(o) /\ Upward(G, o.page, o.level)
    /\ o.absent => /\ o.page < o.first + o.size
                   /\ o.level > TargetLevel(o)
                   /\ G[o.page][o.level] = Absent
    /\ \A p \in Pages(o) :
          IF p < o.page THEN MapsTo(G, p, p + o.delta)
          ELSE /\ Unmapped(G, p)
               /\ \A l \in LargeLevel : G[p][l].kind = "table" =>
                     BestLevel(p, o.first + o.size - p, p + o.delta) < l

CallRecord == [level : Level, base : Nat, page : Nat, size : Nat \ {0}, done : Nat]
RemoveRequest == [kind : {"remove"}, first : Page, size : Nat \ {0},
                  step : {"visit", "clear", "flush"}, stack : Seq(CallRecord)]

\* From page on, size pages do not begin inside an entry and end outside it.
KeepsInside(page, size, level) ==
    \A l \in Level : l <= level =>
        page % PageSize[l] = 0 \/ (page % PageSize[l]) + size <= PageSize[l]

\* A call for the pages of request o works in the table of its first page.
CallOK(G, call, o) ==
    /\ o.first <= call.base /\ call.base + call.size <= o.first + o.size
    /\ call.page = call.base + call.done
    /\ \A p \in call.base .. call.base + call.size - 1 :
          Number(p, call.level + 1) = Number(call.base, call.level + 1)
    /\ call.done < call.size => KeepsInside(call.page, call.size - call.done, call.level)
    /\ Upward(G, call.base, call.level)

\* The call was made by its caller for an entry.
CalledBy(call, caller) ==
    /\ caller.done < caller.size
    /\ caller.level = call.level + 1
    /\ call.base = caller.page
    /\ call.size = Portion(caller)

\* An entry is all of what is to be removed.
WholeEntry(call) ==
    /\ call.done < call.size
    /\ Portion(call) = PageSize[call.level]
    /\ call.page % PageSize[call.level] = 0

EntryPages(call) == call.page .. call.page + PageSize[call.level] - 1

RemoveOK(G, o) ==
    /\ o \in RemoveRequest /\ RequestFits(o)
    /\ Len(o.stack) > 0
    /\ \A k \in 1 .. Len(o.stack) : CallOK(G, o.stack[k], o)
    /\ \A k \in 1 .. Len(o.stack) - 1 : CalledBy(o.stack[k], o.stack[k + 1])
    /\ LET bottom == o.stack[Len(o.stack)] IN
          bottom.level = Levels - 1 /\ bottom.base = o.first /\ bottom.size = o.size
    /\ LET call == o.stack[1] IN
       /\ \A p \in Pages(o) : p < call.page /\ p < call.base + call.size => Unmapped(G, p)
       /\ o.step = "clear" => WholeEntry(call) /\ G[call.page][call.level].kind = "page"
       /\ o.step = "flush" => WholeEntry(call) /\ \A p \in EntryPages(call) : Unmapped(G, p)

OpOK(G, o) ==
    \/ o \in [kind : {"returned"}, ok : BOOLEAN]
    \/ AddOK(G, o)
    \/ RemoveOK(G, o)

\* No two adds find the same entry absent.
AddsApart(G, o, r) ==
    \A p \in Pages(o), q \in Pages(r), l \in Level \ {0} :
        G[p][l] = Absent /\ G[q][l] = Absent => Number(p, l) # Number(q, l)

\* Operations of two processors are about pages of their own.
OpsApart(G, o, r) ==
    o.kind # "returned" /\ r.kind # "returned" =>
        /\ Pages(o) \cap Pages(r) = {}
        /\ o.kind = "add" /\ r.kind = "add" => AddsApart(G, o, r)

-----------------------------------------------------------------------------
(* Translations *)

\* What has been cached was an entry below the tables that are still there.
TlbOK(G, t) ==
    /\ t \in [cpu : Cpu, first : Page, size : Nat, address : Int]
    /\ \E l \in Level : /\ t.size = PageSize[l] /\ t.first % PageSize[l] = 0
                        /\ Upward(G, t.first, l)

Stale(G, R, t, p) ==
    Covers(t, p) /\ R[p] = t.cpu /\ ~MapsTo(G, p, t.address + p - t.first)

\* A translation that its processor has removed is about to be flushed.
FlushComes(o, t) ==
    o.kind = "remove" /\ o.step = "flush" /\ Covers(t, o.stack[1].page)

OpsOK(G, O) ==
    /\ \A c \in Cpu : OpOK(G, O[c])
    /\ \A c, d \in Cpu : c # d => OpsApart(G, O[c], O[d])

TlbsOK(G, O, B, R) ==
    /\ \A t \in B : TlbOK(G, t)
    /\ \A t \in B, p \in Page : Stale(G, R, t, p) => FlushComes(O[t.cpu], t)

IInv ==
    /\ \E L, N : IsTree(tables, free, L, N)
    /\ op \in [Cpu -> {op[c] : c \in Cpu}]
    /\ requests \in Nat
    /\ removedBy \in [Page -> Cpu \cup {Nobody}]
    /\ OpsOK(Entries, op)
    /\ TlbsOK(Entries, op, tlb, removedBy)

-----------------------------------------------------------------------------
(* Division *)

LEMMA DivisionIs ==
    ASSUME NEW a \in Int, NEW d \in Nat, d > 0
    PROVE  /\ a = d * (a \div d) + (a % d)
           /\ a \div d \in Int /\ a % d \in Nat /\ a % d < d
           /\ a \in Nat => a \div d \in Nat
OBVIOUS

LEMMA ProductGrows ==
    ASSUME NEW d \in Nat, NEW m \in Int, NEW n \in Int, m < n
    PROVE  d * m + d <= d * n
<1>1. PICK k \in Nat : n = m + 1 + k
  <2>1. n - m - 1 \in Nat /\ n = m + 1 + (n - m - 1)
    OBVIOUS
  <2> QED
    BY <2>1
<1>2. d * n = d * m + d + d * k
  BY <1>1
<1>3. d * k >= 0
  OBVIOUS
<1> QED
  BY <1>2, <1>3

\* Quotient and remainder are unique.
LEMMA QuotientIs ==
    ASSUME NEW d \in Nat, NEW k \in Int, NEW r \in Nat, r < d, NEW a \in Int, a = d * k + r
    PROVE  a \div d = k /\ a % d = r
<1>1. PICK q \in Int, m \in Nat : a = d * q + m /\ m < d /\ m = a % d /\ q = a \div d
  BY DivisionIs
<1>2. d * q \in Int /\ d * k \in Int
  OBVIOUS
<1>3. CASE q = k
  <2>1. d * q = d * k
    BY <1>3
  <2> QED
    BY <1>1, <1>2, <1>3, <2>1
<1>4. CASE q < k
  <2>1. d * q + d <= d * k
    BY <1>4, ProductGrows
  <2> QED
    BY <1>1, <1>2, <2>1
<1>5. CASE k < q
  <2>1. d * k + d <= d * q
    BY <1>5, ProductGrows
  <2> QED
    BY <1>1, <1>2, <2>1
<1> QED
  BY <1>3, <1>4, <1>5

\* To divide by a product is to divide by its factors, one after the other.
LEMMA DivideTwice ==
    ASSUME NEW a \in Nat, NEW d \in Nat, NEW m \in Nat, d > 0, m > 0
    PROVE  /\ d * m \in Nat /\ d * m > 0
           /\ a \div (d * m) = (a \div d) \div m
           /\ a % (d * m) = d * ((a \div d) % m) + (a % d)
<1>1. PICK q \in Nat, r \in Nat : q = a \div d /\ r = a % d /\ a = d * q + r /\ r < d
  BY DivisionIs
<1>2. PICK u \in Nat, v \in Nat : u = q \div m /\ v = q % m /\ q = m * u + v /\ v < m
  BY DivisionIs
<1>3. PICK e \in Nat : e = d * m /\ e > 0
  <2>1. d * 1 <= d * m
    <3>1. CASE m = 1
      BY <3>1
    <3>2. CASE 1 < m
      <4>1. d * 1 + d <= d * m
        BY <3>2, ProductGrows
      <4> QED
        BY <4>1
    <3> QED
      BY <3>1, <3>2
  <2>2. d * m \in Nat
    OBVIOUS
  <2> QED
    BY <2>1, <2>2
<1>4. PICK w \in Nat : w = d * v + r
  OBVIOUS
<1>5. w < e
  <2>1. d * v + d <= d * m
    BY <1>2, ProductGrows
  <2>2. d * v \in Int
    OBVIOUS
  <2> QED
    BY <1>1, <1>3, <1>4, <2>1, <2>2
<1>6. a = e * u + w
  <2>1. d * (m * u + v) = d * (m * u) + d * v
    OBVIOUS
  <2>2. d * (m * u) = (d * m) * u
    OBVIOUS
  <2>3. d * (m * u) \in Int /\ d * v \in Int
    OBVIOUS
  <2>4. d * q = e * u + d * v
    BY <1>2, <1>3, <2>1, <2>2
  <2> QED
    BY <1>1, <1>4, <2>3, <2>4
<1>7. a \div e = u /\ a % e = w
  BY <1>5, <1>6, QuotientIs
<1> QED
  BY <1>1, <1>2, <1>3, <1>4, <1>7

LEMMA LeastExists ==
    ASSUME NEW S, S \subseteq Nat, S # {}
    PROVE  \E m \in S : \A n \in S : m <= n
<1>1. PICK m \in S : \A n \in S : ~(<<n, m>> \in OpToRel(<, Nat))
  BY NatLessThanWellFounded, WFMin
<1>2. \A n \in S : ~(n < m)
  BY <1>1 DEF OpToRel
<1> QED
  BY <1>2

-----------------------------------------------------------------------------
(* The sizes of pages *)

SizesUpTo(n, g) == g = [l \in 0 .. n |-> IF l = 0 THEN 1 ELSE EntryCount * g[l - 1]]

LEMMA SizesExist == \A n \in Nat : \E g : SizesUpTo(n, g)
<1> DEFINE S == {n \in Nat : ~\E g : SizesUpTo(n, g)}
<1>1. SUFFICES ASSUME S # {}
               PROVE  FALSE
  OBVIOUS
<1>2. PICK m \in S : \A n \in S : m <= n
  BY <1>1, LeastExists
<1>3. CASE m = 0
  <2>1. SizesUpTo(0, [l \in 0 .. 0 |-> 1])
    BY DEF SizesUpTo
  <2> QED
    BY <1>2, <1>3, <2>1
<1>4. CASE m > 0
  <2>1. m - 1 \in Nat /\ m - 1 \notin S
    BY <1>2, <1>4
  <2>2. PICK g : SizesUpTo(m - 1, g)
    BY <2>1
  <2>3. PICK h : h = [l \in 0 .. m |-> IF l = 0 THEN 1 ELSE EntryCount * g[l - 1]]
    OBVIOUS
  <2>4. \A l \in 0 .. m - 1 : h[l] = g[l]
    BY <1>2, <2>2, <2>3 DEF SizesUpTo
  <2>5. \A l \in 0 .. m : l # 0 => l - 1 \in 0 .. m - 1
    BY <1>2
  <2>6. h = [l \in 0 .. m |-> IF l = 0 THEN 1 ELSE EntryCount * h[l - 1]]
    BY <2>3, <2>4, <2>5
  <2> QED
    BY <1>2, <2>6 DEF SizesUpTo
<1> QED
  BY <1>2, <1>3, <1>4

LEMMA ConstantsAre ==
    /\ Levels \in Nat /\ Levels > 0 /\ EntryCount \in Nat /\ EntryCount > 1
    /\ Level = 0 .. Levels - 1
    /\ LargeLevel \subseteq Level \ {0}
    /\ Root \notin TableFrame
BY PageTablesAssumption DEF Level

LEMMA PageSizeIs ==
    /\ PageSize[0] = 1
    /\ \A l \in Level : PageSize[l + 1] = EntryCount * PageSize[l]
<1>1. PageSize = CHOOSE g : SizesUpTo(Levels, g)
  BY Zenon DEF PageSize, SizesUpTo
<1>2. SizesUpTo(Levels, PageSize)
  <2>1. \E g : SizesUpTo(Levels, g)
    BY ConstantsAre, SizesExist
  <2> QED
    BY <1>1, <2>1, Zenon
<1>3. \A n \in 0 .. Levels : PageSize[n] = IF n = 0 THEN 1 ELSE EntryCount * PageSize[n - 1]
  BY <1>2, Zenon DEF SizesUpTo
<1>4. PICK g : g = PageSize
  OBVIOUS
<1>5. \A n \in 0 .. Levels : g[n] = IF n = 0 THEN 1 ELSE EntryCount * g[n - 1]
  BY <1>3, <1>4, Zenon
<1>6. 0 \in 0 .. Levels
  BY ConstantsAre
<1>7. g[0] = 1
  BY <1>5, <1>6
<1>8. ASSUME NEW l \in Level
      PROVE  g[l + 1] = EntryCount * g[l]
  <2>1. PICK n \in 0 .. Levels : n = l + 1 /\ n # 0 /\ n - 1 = l
    BY ConstantsAre
  <2>2. g[n] = EntryCount * g[n - 1]
    BY <1>5, <2>1
  <2> QED
    BY <2>1, <2>2
<1> QED
  BY <1>4, <1>7, <1>8, Zenon

LEMMA PageSizeTypes == \A l \in 0 .. Levels : PageSize[l] \in Nat /\ PageSize[l] > 0
<1> DEFINE S == {l \in 0 .. Levels : ~(PageSize[l] \in Nat /\ PageSize[l] > 0)}
<1>1. SUFFICES ASSUME S # {}
               PROVE  FALSE
  OBVIOUS
<1>2. PICK m \in S : \A n \in S : m <= n
  <2>1. S \subseteq Nat
    BY ConstantsAre
  <2> QED
    BY <1>1, <2>1, LeastExists
<1>3. m # 0
  BY <1>2, PageSizeIs
<1>4. m - 1 \in Level /\ m - 1 \in 0 .. Levels /\ m - 1 \notin S
  BY <1>2, <1>3, ConstantsAre
<1>5. PICK z \in Nat : z = PageSize[m - 1] /\ z > 0
  BY <1>4
<1>6. PageSize[m] = EntryCount * z
  BY <1>4, <1>5, PageSizeIs
<1>7. EntryCount * z \in Nat /\ EntryCount * z > 0
  BY <1>5, ConstantsAre, DivideTwice
<1> QED
  BY <1>2, <1>6, <1>7

\* Larger pages are made of whole smaller ones.
LEMMA SizesDivide ==
    \A k, l \in 0 .. Levels : k <= l => \E m \in Nat : m > 0 /\ PageSize[l] = PageSize[k] * m
<1>1. SUFFICES ASSUME NEW k \in 0 .. Levels
               PROVE  \A l \in 0 .. Levels : k <= l => \E m \in Nat : m > 0 /\ PageSize[l] = PageSize[k] * m
  OBVIOUS
<1> DEFINE S == {l \in 0 .. Levels : k <= l /\ ~\E m \in Nat : m > 0 /\ PageSize[l] = PageSize[k] * m}
<1>2. SUFFICES ASSUME S # {}
               PROVE  FALSE
  OBVIOUS
<1>3. PICK l \in S : \A n \in S : l <= n
  <2>1. S \subseteq Nat
    BY ConstantsAre
  <2> QED
    BY <1>2, <2>1, LeastExists
<1>4. PICK s \in Nat : s = PageSize[k]
  BY PageSizeTypes
<1>5. l # k
  <2>1. s = s * 1 /\ 1 \in Nat /\ 1 > 0
    OBVIOUS
  <2> QED
    BY <1>3, <1>4, <2>1
<1>6. l - 1 \in Level /\ l - 1 \in 0 .. Levels /\ k <= l - 1 /\ l - 1 \notin S /\ l - 1 + 1 = l
  BY <1>3, <1>5, ConstantsAre
<1>7. PICK m \in Nat : m > 0 /\ PageSize[l - 1] = s * m
  BY <1>4, <1>6
<1>8. PageSize[l] = EntryCount * (s * m)
  BY <1>6, <1>7, PageSizeIs
<1>9. EntryCount * (s * m) = s * (EntryCount * m)
  BY ConstantsAre
<1>10. EntryCount * m \in Nat /\ EntryCount * m > 0
  BY <1>7, ConstantsAre, DivideTwice
<1> QED
  BY <1>3, <1>4, <1>8, <1>9, <1>10

LEMMA SizesGrow ==
    \A k, l \in 0 .. Levels : k <= l => PageSize[k] <= PageSize[l]
<1>1. SUFFICES ASSUME NEW k \in 0 .. Levels, NEW l \in 0 .. Levels, k <= l
               PROVE  PageSize[k] <= PageSize[l]
  OBVIOUS
<1>2. PICK m \in Nat : m > 0 /\ PageSize[l] = PageSize[k] * m
  BY <1>1, SizesDivide
<1>3. PICK s \in Nat : s = PageSize[k]
  BY PageSizeTypes
<1>4. CASE m = 1
  BY <1>2, <1>3, <1>4
<1>5. CASE m > 1
  <2>1. s * 1 + s <= s * m
    BY <1>5, ProductGrows
  <2> QED
    BY <1>2, <1>3, <2>1
<1> QED
  BY <1>2, <1>4, <1>5

LEMMA NumberTypes ==
    \A p \in Nat, l \in 0 .. Levels : /\ Number(p, l) \in Nat
                                      /\ p % PageSize[l] \in Nat /\ p % PageSize[l] < PageSize[l]
                                      /\ p = PageSize[l] * Number(p, l) + (p % PageSize[l])
<1>1. SUFFICES ASSUME NEW p \in Nat, NEW l \in 0 .. Levels
               PROVE  /\ Number(p, l) \in Nat
                      /\ p % PageSize[l] \in Nat /\ p % PageSize[l] < PageSize[l]
                      /\ p = PageSize[l] * Number(p, l) + (p % PageSize[l])
  OBVIOUS
<1>2. PICK s \in Nat : s = PageSize[l] /\ s > 0
  BY PageSizeTypes
<1>3. p = s * (p \div s) + (p % s) /\ p \div s \in Nat /\ p % s \in Nat /\ p % s < s
  BY SMTT(30), <1>2, DivisionIs
<1> QED
  BY <1>2, <1>3 DEF Number

LEMMA IndexIs ==
    \A p \in Nat, l \in Level :
        /\ Index(p, l) \in Slot
        /\ Number(p, l + 1) \in Nat
        /\ Number(p, l) = Number(p, l + 1) * EntryCount + Index(p, l)
        /\ Index(p, l) = Number(p, l) % EntryCount
        /\ Number(p, l + 1) = Number(p, l) \div EntryCount
<1>1. SUFFICES ASSUME NEW p \in Nat, NEW l \in Level
               PROVE  /\ Index(p, l) \in Slot
                      /\ Number(p, l + 1) \in Nat
                      /\ Number(p, l) = Number(p, l + 1) * EntryCount + Index(p, l)
                      /\ Index(p, l) = Number(p, l) % EntryCount
                      /\ Number(p, l + 1) = Number(p, l) \div EntryCount
  OBVIOUS
<1>2. l \in 0 .. Levels /\ l + 1 \in 0 .. Levels
  BY ConstantsAre
<1>3. PICK s \in Nat : s = PageSize[l] /\ s > 0
  BY <1>2, PageSizeTypes
<1>4. PageSize[l + 1] = s * EntryCount
  <2>1. EntryCount * s = s * EntryCount
    BY ConstantsAre
  <2> QED
    BY <1>3, <2>1, PageSizeIs
<1>5. PICK e \in Nat : e = EntryCount /\ e > 0
  BY ConstantsAre
<1>6. PICK n \in Nat : n = p \div s
  BY <1>3, DivisionIs
<1>7. p \div (s * e) = n \div e
  BY <1>3, <1>5, <1>6, DivideTwice
<1>8. /\ n = e * (n \div e) + (n % e)
      /\ n \div e \in Nat /\ n % e \in Nat /\ n % e < e
  BY <1>5, DivisionIs
<1>9. Number(p, l) = n /\ Number(p, l + 1) = n \div e /\ Index(p, l) = n % e
  BY <1>3, <1>4, <1>5, <1>6, <1>7 DEF Number, Index
<1>10. PICK q \in Nat, i \in Nat : q = n \div e /\ i = n % e
  BY <1>8
<1>11. n = q * e + i /\ i \in 0 .. e - 1
  BY <1>8, <1>10
<1> QED
  BY <1>5, <1>9, <1>10, <1>11 DEF Slot

\* Entries at the same place of a level have the same number.
LEMMA PlaceIs ==
    \A n, m \in Nat, i, j \in Slot :
        n * EntryCount + i = m * EntryCount + j => n = m /\ i = j
<1>1. SUFFICES ASSUME NEW n \in Nat, NEW m \in Nat, NEW i \in Slot, NEW j \in Slot,
                      n * EntryCount + i = m * EntryCount + j
               PROVE  n = m /\ i = j
  OBVIOUS
<1>2. PICK e \in Nat : e = EntryCount
  BY ConstantsAre
<1>3. i \in Nat /\ i < e /\ j \in Nat /\ j < e
  BY <1>2, ConstantsAre DEF Slot
<1>4. PICK a \in Int : a = e * n + i /\ a = e * m + j
  BY <1>1, <1>2, <1>3
<1> QED
  BY <1>3, <1>4, QuotientIs

\* A page is one of one root table.
LEMMA NumberTop == \A p \in Page : p \in Nat /\ Number(p, Levels) = 0
<1>1. SUFFICES ASSUME NEW p \in Page
               PROVE  p \in Nat /\ Number(p, Levels) = 0
  OBVIOUS
<1>2. PICK s \in Nat : s = PageSize[Levels] /\ s > 0
  BY ConstantsAre, PageSizeTypes
<1>3. p \in Nat /\ p < s
  BY <1>1, <1>2 DEF Page
<1>4. p = s * 0 + p
  BY <1>2, <1>3
<1>5. p \div s = 0
  BY <1>2, <1>3, <1>4, QuotientIs
<1> QED
  BY <1>2, <1>3, <1>5 DEF Number

\* Pages below one entry are below the same entries above it.
LEMMA SameAbove ==
    \A p, q \in Nat, k, l \in 0 .. Levels :
        k <= l /\ Number(p, k) = Number(q, k) => Number(p, l) = Number(q, l)
<1>1. SUFFICES ASSUME NEW p \in Nat, NEW q \in Nat, NEW k \in 0 .. Levels, NEW l \in 0 .. Levels,
                      k <= l, Number(p, k) = Number(q, k)
               PROVE  Number(p, l) = Number(q, l)
  OBVIOUS
<1>2. PICK s \in Nat : s = PageSize[k] /\ s > 0
  BY PageSizeTypes
<1>3. PICK m \in Nat : m > 0 /\ PageSize[l] = s * m
  BY <1>1, <1>2, SizesDivide
<1>4. p \div (s * m) = (p \div s) \div m /\ q \div (s * m) = (q \div s) \div m
  BY <1>2, <1>3, DivideTwice
<1>5. p \div s = q \div s
  BY <1>1, <1>2 DEF Number
<1> QED
  BY <1>3, <1>4, <1>5 DEF Number

\* A boundary of a level is one of those below.
LEMMA AlignedBelow ==
    \A p \in Nat, k, l \in 0 .. Levels :
        k <= l /\ p % PageSize[l] = 0 => p % PageSize[k] = 0
<1>1. SUFFICES ASSUME NEW p \in Nat, NEW k \in 0 .. Levels, NEW l \in 0 .. Levels,
                      k <= l, p % PageSize[l] = 0
               PROVE  p % PageSize[k] = 0
  OBVIOUS
<1>2. PICK s \in Nat : s = PageSize[k] /\ s > 0
  BY PageSizeTypes
<1>3. PICK m \in Nat : m > 0 /\ PageSize[l] = s * m
  BY <1>1, <1>2, SizesDivide
<1>4. p % (s * m) = s * ((p \div s) % m) + (p % s)
  BY <1>2, <1>3, DivideTwice
<1>5. PICK v \in Nat, r \in Nat : v = (p \div s) % m /\ r = p % s
  BY <1>2, <1>3, DivisionIs
<1>6. s * v \in Nat
  OBVIOUS
<1>7. s * v + r = 0
  BY <1>1, <1>3, <1>4, <1>5
<1> QED
  BY <1>2, <1>5, <1>6, <1>7

\* The pages of an entry are those with its number.
LEMMA EntryPagesAre ==
    \A p, q \in Nat, l \in 0 .. Levels :
        p % PageSize[l] = 0 =>
            /\ q \in p .. p + PageSize[l] - 1 <=> Number(q, l) = Number(p, l)
            /\ Number(q, l) = Number(p, l) => q % PageSize[l] = q - p
<1>1. SUFFICES ASSUME NEW p \in Nat, NEW q \in Nat, NEW l \in 0 .. Levels, p % PageSize[l] = 0
               PROVE  /\ q \in p .. p + PageSize[l] - 1 <=> Number(q, l) = Number(p, l)
                      /\ Number(q, l) = Number(p, l) => q % PageSize[l] = q - p
  OBVIOUS
<1>2. PICK s \in Nat : s = PageSize[l] /\ s > 0
  BY PageSizeTypes
<1>3. PICK n \in Nat : n = Number(p, l) /\ p = s * n
  <2>1. Number(p, l) \in Nat /\ p = s * Number(p, l) + 0
    BY <1>1, <1>2, NumberTypes
  <2> QED
    BY <2>1
<1>4. PICK m \in Nat, r \in Nat : m = Number(q, l) /\ r = q % s /\ q = s * m + r /\ r < s
  BY <1>2, NumberTypes
<1>5. CASE m = n
  <2>1. s * m = s * n
    BY <1>5
  <2> QED
    BY <1>2, <1>3, <1>4, <1>5, <2>1
<1>6. CASE m < n
  <2>1. s * m + s <= s * n /\ s * m \in Nat
    BY <1>6, ProductGrows
  <2> QED
    BY <1>2, <1>3, <1>4, <1>6, <2>1
<1>7. CASE m > n
  <2>1. s * n + s <= s * m /\ s * m \in Nat
    BY <1>7, ProductGrows
  <2> QED
    BY <1>2, <1>3, <1>4, <1>7, <2>1
<1> QED
  BY <1>5, <1>6, <1>7

\* Pages that begin inside an entry and do not reach its end are below it.
LEMMA InsideEntry ==
    \A p, n, q \in Nat, l \in 0 .. Levels :
        (p % PageSize[l]) + n <= PageSize[l] /\ q \in p .. p + n - 1 => Number(q, l) = Number(p, l)
<1>1. SUFFICES ASSUME NEW p \in Nat, NEW n \in Nat, NEW q \in Nat, NEW l \in 0 .. Levels,
                      (p % PageSize[l]) + n <= PageSize[l], q \in p .. p + n - 1
               PROVE  Number(q, l) = Number(p, l)
  OBVIOUS
<1>2. PICK s \in Nat : s = PageSize[l] /\ s > 0
  BY PageSizeTypes
<1>3. PICK m \in Nat, r \in Nat : m = Number(p, l) /\ r = p % s /\ p = s * m + r /\ r < s
  BY ZenonT(30), <1>2, NumberTypes
<1>4. PICK x \in Nat : x = q - p /\ x < n
  BY <1>1
<1>5. r + x < s
  <2>1. r + n <= s
    BY <1>1, <1>2, <1>3
  <2> QED
    BY <1>4, <2>1
<1>6. q = s * m + (r + x)
  <2>1. p = s * m + r
    BY <1>3
  <2>2. q = p + x
    BY <1>4
  <2> QED
    BY <2>1, <2>2
<1>7. q \div s = m
  <2>1. r + x \in Nat
    OBVIOUS
  <2> QED
    BY <1>5, <1>6, <2>1, QuotientIs
<1> QED
  BY <1>2, <1>3, <1>7 DEF Number

\* After a boundary of a level, the next one of a level above is one too.
LEMMA NextAligned ==
    \A p \in Nat, k, l \in 0 .. Levels :
        k <= l /\ p % PageSize[l] = 0 => (p + PageSize[l]) % PageSize[k] = 0
<1>1. SUFFICES ASSUME NEW p \in Nat, NEW k \in 0 .. Levels, NEW l \in 0 .. Levels,
                      k <= l, p % PageSize[l] = 0
               PROVE  (p + PageSize[l]) % PageSize[k] = 0
  OBVIOUS
<1>2. PICK s \in Nat : s = PageSize[l] /\ s > 0
  BY PageSizeTypes
<1>3. PICK n \in Nat : p = s * n + 0
  BY <1>1, <1>2, NumberTypes
<1>4. p + s = s * (n + 1) + 0
  BY <1>3
<1>5. (p + s) % s = 0
  BY <1>2, <1>4, QuotientIs
<1> QED
  BY <1>1, <1>2, <1>5, AlignedBelow

-----------------------------------------------------------------------------
(* The level at which a page is mapped *)

IsBest(b, page, left, frame) ==
    /\ b \in LargeLevel \cup {0}
    /\ b = 0 \/ IsAligned(page, left, frame, b)
    /\ \A k \in LargeLevel : k > b => ~ IsAligned(page, left, frame, k)

LEMMA BestExists ==
    ASSUME NEW page, NEW left, NEW frame
    PROVE  IsBest(BestLevel(page, left, frame), page, left, frame)
<1> DEFINE S == {Levels - l : l \in {k \in LargeLevel \cup {0} : k = 0 \/ IsAligned(page, left, frame, k)}}
<1>1. PICK m \in S : \A n \in S : m <= n
  <2>1. S \subseteq Nat /\ Levels - 0 \in S
    BY ConstantsAre
  <2> QED
    BY <2>1, LeastExists
<1>2. PICK b \in LargeLevel \cup {0} : m = Levels - b /\ (b = 0 \/ IsAligned(page, left, frame, b))
  BY <1>1
<1>3. ASSUME NEW k \in LargeLevel, k > b, IsAligned(page, left, frame, k)
      PROVE  FALSE
  <2>1. Levels - k \in S
    BY <1>3
  <2>2. Levels - b <= Levels - k
    BY <1>1, <1>2, <2>1
  <2>3. b \in Int /\ k \in Int
    BY ConstantsAre
  <2> QED
    BY <1>3, <2>2, <2>3, ConstantsAre
<1>4. IsBest(b, page, left, frame)
  BY <1>2, <1>3 DEF IsBest
<1>5. BestLevel(page, left, frame) = CHOOSE l \in LargeLevel \cup {0} :
                                        /\ l = 0 \/ IsAligned(page, left, frame, l)
                                        /\ \A k \in LargeLevel : k > l => ~ IsAligned(page, left, frame, k)
  BY DEF BestLevel
<1> HIDE DEF S
<1> QED
  BY <1>4, <1>5 DEF IsBest

\* The best page is aligned, does not exceed what is left, and no larger one is.
LEMMA BestLevelIs ==
    ASSUME NEW page \in Nat, NEW left \in Nat, left > 0, NEW frame
    PROVE  LET b == BestLevel(page, left, frame) IN
           /\ b \in Level
           /\ b # 0 => b \in LargeLevel
           /\ page % PageSize[b] = 0 /\ PageSize[b] <= left
           /\ \A k \in LargeLevel : k > b => ~ IsAligned(page, left, frame, k)
<1>1. PICK b : b = BestLevel(page, left, frame) /\ IsBest(b, page, left, frame)
  BY BestExists
<1>2. b \in Level /\ (b # 0 => b \in LargeLevel)
  BY <1>1, ConstantsAre DEF IsBest
<1>3. page % PageSize[b] = 0 /\ PageSize[b] <= left
  <2>1. CASE b = 0
    <3>1. PageSize[b] = 1
      BY <2>1, PageSizeIs
    <3>2. page % 1 = 0
      <4>1. page = 1 * page + 0
        OBVIOUS
      <4> QED
        BY <4>1, QuotientIs
    <3> QED
      BY <3>1, <3>2
  <2>2. CASE b # 0
    <3>1. IsAligned(page, left, frame, b)
      BY <1>1, <2>2 DEF IsBest
    <3>2. PageSize[b] \in Nat
      BY <1>2, PageSizeTypes, ConstantsAre
    <3> QED
      BY <3>1, <3>2 DEF IsAligned
  <2> QED
    BY <2>1, <2>2
<1>4. \A k \in LargeLevel : k > b => ~ IsAligned(page, left, frame, k)
  BY <1>1 DEF IsBest
<1> QED
  BY <1>1, <1>2, <1>3, <1>4

-----------------------------------------------------------------------------
(* The way to a page *)

TablesBelow(T, page, level, above) ==
    {T[t][Index(page, level + 1)].address :
        t \in {u \in above : T[u][Index(page, level + 1)].kind = "table"}}

IsPath(T, page, path) ==
    path = [l \in Level |-> IF l = Levels - 1 THEN {Root} ELSE TablesBelow(T, page, l, path[l + 1])]

\* The tables of that level and number, of which there is at most one.
At(F, L, N, level, n) == {t \in (TableFrame \ F) \cup {Root} : L[t] = level /\ N[t] = n}

WayTo(F, L, N, page) == [l \in Level |-> At(F, L, N, l, Number(page, l + 1))]

LEMMA RootAtTop ==
    ASSUME NEW T, NEW F, NEW L, NEW N, IsTree(T, F, L, N), NEW page \in Page
    PROVE  At(F, L, N, Levels - 1, Number(page, Levels - 1 + 1)) = {Root}
<1>1. Levels - 1 + 1 = Levels /\ Number(page, Levels) = 0
  BY ConstantsAre, NumberTop
<1>2. IsPlaced(F, L, N)
  BY DEF IsTree
<1> QED
  BY <1>1, <1>2 DEF At, IsPlaced

LEMMA BelowIs ==
    ASSUME NEW T, NEW F, NEW L, NEW N, IsTree(T, F, L, N), NEW page \in Page,
           NEW l \in Level, l # Levels - 1
    PROVE  TablesBelow(T, page, l, At(F, L, N, l + 1, Number(page, l + 1 + 1)))
               = At(F, L, N, l, Number(page, l + 1))
<1> DEFINE Tables == (TableFrame \ F) \cup {Root}
           above == At(F, L, N, l + 1, Number(page, l + 1 + 1))
<1>1. l + 1 \in Level /\ page \in Nat
  BY ConstantsAre, NumberTop
<1>2. PICK i \in Slot, n \in Nat : /\ i = Index(page, l + 1)
                                   /\ n = Number(page, l + 1 + 1)
                                   /\ Number(page, l + 1) = n * EntryCount + i
  BY <1>1, IndexIs
<1>3. IsPlaced(F, L, N)
  BY DEF IsTree
<1>4. ASSUME NEW t \in above, T[t][i].kind = "table"
      PROVE  T[t][i].address \in At(F, L, N, l, n * EntryCount + i)
  <2>1. t \in Tables /\ L[t] = l + 1 /\ N[t] = n
    BY <1>2, <1>4 DEF At
  <2>2. /\ T[t][i].address \notin F
        /\ L[T[t][i].address] = L[t] - 1
        /\ N[T[t][i].address] = N[t] * EntryCount + i
    BY <1>2, <1>4, <2>1 DEF IsTree
  <2>3. T[t][i] \in AnyEntry
    BY <1>2, <2>1, <1>3 DEF IsTree, IsPlaced
  <2>4. T[t][i].address \in TableFrame
    BY <1>4, <2>3 DEF AnyEntry, Absent
  <2>5. L[T[t][i].address] = l
    BY <2>1, <2>2, ConstantsAre
  <2>6. N[T[t][i].address] = n * EntryCount + i
    BY <2>1, <2>2
  <2>7. T[t][i].address \in Tables
    BY <2>2, <2>4
  <2> QED
    BY <2>5, <2>6, <2>7 DEF At
<1>5. ASSUME NEW f \in At(F, L, N, l, n * EntryCount + i)
      PROVE  \E t \in above : T[t][i].kind = "table" /\ f = T[t][i].address
  <2>1. f \in TableFrame \ F /\ L[f] = l /\ N[f] = n * EntryCount + i
    BY <1>3, <1>5 DEF At, IsPlaced
  <2>2. PICK t \in Tables, j \in Slot : T[t][j] = SubTable(f)
    BY <2>1 DEF IsTree
  <2>3. T[t][j].kind = "table" /\ T[t][j].address = f
    BY <2>2 DEF SubTable
  <2>4. /\ L[f] = L[t] - 1
        /\ N[f] = N[t] * EntryCount + j
    BY <2>3 DEF IsTree
  <2>5. L[t] \in Int /\ N[t] \in Nat
    BY <1>3, ConstantsAre DEF IsPlaced
  <2>6. L[t] = l + 1
    BY <2>1, <2>4, <2>5, ConstantsAre
  <2>7. N[t] = n /\ j = i
    <3>1. N[t] * EntryCount + j = n * EntryCount + i
      BY <2>1, <2>4
    <3> QED
      BY <1>2, <2>5, <3>1, PlaceIs
  <2> QED
    BY <1>2, <2>3, <2>6, <2>7 DEF At
<1>6. TablesBelow(T, page, l, above) = {T[t][i].address : t \in {u \in above : T[u][i].kind = "table"}}
  BY <1>2 DEF TablesBelow
<1> HIDE DEF above
<1>7. TablesBelow(T, page, l, above) = At(F, L, N, l, n * EntryCount + i)
  BY <1>4, <1>5, <1>6
<1> QED
  BY <1>2, <1>7 DEF above

LEMMA WayExists ==
    ASSUME NEW T, NEW F, NEW L, NEW N, IsTree(T, F, L, N), NEW page \in Page
    PROVE  IsPath(T, page, WayTo(F, L, N, page))
<1>1. PICK g : g = WayTo(F, L, N, page)
  OBVIOUS
<1>2. g = [l \in Level |-> At(F, L, N, l, Number(page, l + 1))]
  BY <1>1 DEF WayTo
<1>3. ASSUME NEW l \in Level
      PROVE  At(F, L, N, l, Number(page, l + 1))
                 = IF l = Levels - 1 THEN {Root} ELSE TablesBelow(T, page, l, g[l + 1])
  <2>1. CASE l = Levels - 1
    BY <2>1, RootAtTop
  <2>2. CASE l # Levels - 1
    <3>1. l + 1 \in Level
      BY <2>2, ConstantsAre
    <3>2. g[l + 1] = At(F, L, N, l + 1, Number(page, l + 1 + 1))
      BY <1>2, <3>1
    <3> QED
      BY <2>2, <3>2, BelowIs
  <2> QED
    BY <2>1, <2>2
<1>4. g = [l \in Level |-> IF l = Levels - 1 THEN {Root} ELSE TablesBelow(T, page, l, g[l + 1])]
  BY <1>2, <1>3, Zenon
<1> QED
  BY <1>1, <1>4, Zenon DEF IsPath

LEMMA PathIs ==
    ASSUME NEW T, NEW page, NEW path, IsPath(T, page, path), NEW l \in Level
    PROVE  path[l] = IF l = Levels - 1 THEN {Root} ELSE TablesBelow(T, page, l, path[l + 1])
<1>1. path = [k \in Level |-> IF k = Levels - 1 THEN {Root} ELSE TablesBelow(T, page, k, path[k + 1])]
  BY DEF IsPath
<1>2. \A k \in Level : path[k] = IF k = Levels - 1 THEN {Root} ELSE TablesBelow(T, page, k, path[k + 1])
  BY <1>1, Zenon
<1> QED
  BY <1>2, Zenon

LEMMA WayUnique ==
    ASSUME NEW T, NEW page, NEW g, NEW h, IsPath(T, page, g), IsPath(T, page, h)
    PROVE  \A l \in Level : g[l] = h[l]
<1> DEFINE S == {Levels - 1 - l : l \in {k \in Level : g[k] # h[k]}}
<1>1. SUFFICES ASSUME S # {}
               PROVE  FALSE
  OBVIOUS
<1>2. PICK m \in S : \A n \in S : m <= n
  <2>1. S \subseteq Nat
    BY ConstantsAre
  <2> QED
    BY <1>1, <2>1, LeastExists
<1>3. PICK l \in Level : m = Levels - 1 - l /\ g[l] # h[l]
  BY <1>2
<1>4. l # Levels - 1
  BY <1>3, PathIs
<1>5. l + 1 \in Level /\ Levels - 1 - (l + 1) < m
  BY <1>3, <1>4, ConstantsAre
<1>6. g[l + 1] = h[l + 1]
  <2>1. CASE g[l + 1] # h[l + 1]
    <3>1. Levels - 1 - (l + 1) \in S
      BY <1>5, <2>1
    <3>2. m <= Levels - 1 - (l + 1)
      BY <1>2, <3>1
    <3>3. m \in Int /\ Levels - 1 - (l + 1) \in Int
      BY <1>3, ConstantsAre
    <3> QED
      BY <1>5, <3>2, <3>3
  <2> QED
    BY <2>1
<1>7. g[l] = h[l]
  <2>1. g[l] = TablesBelow(T, page, l, g[l + 1])
    BY <1>4, PathIs
  <2>2. h[l] = TablesBelow(T, page, l, h[l + 1])
    BY <1>4, PathIs
  <2> QED
    BY <1>6, <2>1, <2>2, Zenon
<1> QED
  BY <1>3, <1>7

\* The recursive mapping finds the table at the place.
LEMMA TablesForIs ==
    \A L, N : IsTree(tables, free, L, N) =>
        \A page \in Page, level \in Level :
            TablesFor(page, level) = At(free, L, N, level, Number(page, level + 1))
<1>1. SUFFICES ASSUME NEW L, NEW N, IsTree(tables, free, L, N),
                      NEW page \in Page, NEW level \in Level
               PROVE  TablesFor(page, level) = At(free, L, N, level, Number(page, level + 1))
  OBVIOUS
<1>2. PICK way : way = WayTo(free, L, N, page) /\ IsPath(tables, page, way)
  BY <1>1, WayExists
<1>3. PICK path : path = CHOOSE g : IsPath(tables, page, g)
  OBVIOUS
<1>4. IsPath(tables, page, path)
  BY <1>2, <1>3, Zenon
<1>5. TablesFor(page, level) = path[level]
  BY <1>3, Zenon DEF TablesFor, IsPath, TablesBelow
<1>6. path[level] = way[level]
  BY <1>2, <1>4, WayUnique
<1>7. way[level] = At(free, L, N, level, Number(page, level + 1))
  BY <1>2, Zenon DEF WayTo
<1> QED
  BY <1>5, <1>6, <1>7

\* An entry is the one of the table at the place, or is absent with it.
EntryAt(T, F, L, N, page, level, entry) ==
    /\ \A t \in (TableFrame \ F) \cup {Root} :
          L[t] = level /\ N[t] = Number(page, level + 1) => entry = T[t][Index(page, level)]
    /\ \/ entry = Absent
       \/ \E t \in (TableFrame \ F) \cup {Root} : L[t] = level /\ N[t] = Number(page, level + 1)

LEMMA EntryInIs ==
    \A L, N : IsTree(tables, free, L, N) =>
        \A base, page \in Page, level \in Level :
            Number(base, level + 1) = Number(page, level + 1) =>
                EntryAt(tables, free, L, N, page, level, EntryIn(base, page, level))
<1>1. SUFFICES ASSUME NEW L, NEW N, IsTree(tables, free, L, N),
                      NEW base \in Page, NEW page \in Page, NEW level \in Level,
                      Number(base, level + 1) = Number(page, level + 1)
               PROVE  EntryAt(tables, free, L, N, page, level, EntryIn(base, page, level))
  OBVIOUS
<1>2. PICK found : /\ found = TablesFor(base, level)
                   /\ found = At(free, L, N, level, Number(page, level + 1))
  BY <1>1, TablesForIs
<1>3. EntryIn(base, page, level) = IF found = {} THEN Absent
                                   ELSE tables[CHOOSE u \in found : TRUE][Index(page, level)]
  <2>1. EntryIn(base, page, level) =
            IF TablesFor(base, level) = {} THEN Absent
            ELSE tables[CHOOSE u \in TablesFor(base, level) : TRUE][Index(page, level)]
    BY DEF EntryIn
  <2> QED
    BY <1>2, <2>1
<1>4. ASSUME NEW t \in found, NEW u \in found
      PROVE  t = u
  BY <1>1, <1>2, <1>4 DEF At, IsTree, IsPlaced
<1>5. ASSUME NEW t \in found
      PROVE  (CHOOSE u \in found : TRUE) = t
  BY <1>4, <1>5
<1>6. CASE found = {}
  BY <1>2, <1>3, <1>6 DEF EntryAt, At
<1>7. CASE found # {}
  <2>1. PICK t \in found : EntryIn(base, page, level) = tables[t][Index(page, level)]
    BY <1>3, <1>5, <1>7
  <2> QED
    BY <1>2, <1>4, <2>1 DEF EntryAt, At
<1> QED
  BY <1>6, <1>7

LEMMA EntryIs ==
    \A L, N : IsTree(tables, free, L, N) =>
        \A page \in Page, level \in Level :
            EntryAt(tables, free, L, N, page, level, Entries[page][level])
BY EntryInIs DEF Entries, Entry

-----------------------------------------------------------------------------
(* The entries of a tree, as a flat map *)

\* Pages with the same number share an entry, and tables lead to an entry.
IsFlat(G) ==
    /\ G \in [Page -> [Level -> AnyEntry]]
    /\ \A p, q \in Page, l \in Level : Number(p, l) = Number(q, l) => G[p][l] = G[q][l]
    /\ \A p \in Page, l \in Level : G[p][l] # Absent => Upward(G, p, l)
    /\ \A p \in Page : G[p][0].kind # "table"

EntriesAt(T, F, L, N, G) ==
    /\ G = [p \in Page |-> [l \in Level |-> G[p][l]]]
    /\ \A p \in Page, l \in Level : EntryAt(T, F, L, N, p, l, G[p][l])

LEMMA EntriesAre == \A L, N : IsTree(tables, free, L, N) => EntriesAt(tables, free, L, N, Entries)
<1>1. Entries = [p \in Page |-> [l \in Level |-> Entries[p][l]]]
  <2>1. PICK G : G = Entries
    OBVIOUS
  <2>2. G = [p \in Page |-> [l \in Level |-> Entry(p, l)]]
    BY <2>1 DEF Entries
  <2>3. G = [p \in Page |-> [l \in Level |-> G[p][l]]]
    BY <2>2
  <2> QED
    BY <2>1, <2>3, Zenon
<1> QED
  BY <1>1, EntryIs, Zenon DEF EntriesAt

LEMMA TablesLead ==
    ASSUME NEW T, NEW F, NEW L, NEW N, NEW G, IsTree(T, F, L, N), EntriesAt(T, F, L, N, G),
           NEW p \in Page, NEW l \in Level, G[p][l] # Absent, l # Levels - 1
    PROVE  l + 1 \in Level /\ G[p][l + 1].kind = "table" /\ G[p][l + 1] # Absent
<1> DEFINE Tables == (TableFrame \ F) \cup {Root}
<1>1. l + 1 \in Level /\ p \in Nat
  BY ConstantsAre, NumberTop
<1>2. PICK i \in Slot, n \in Nat : /\ i = Index(p, l + 1)
                                   /\ n = Number(p, l + 1 + 1)
                                   /\ Number(p, l + 1) = n * EntryCount + i
  BY <1>1, IndexIs
<1>3. PICK t \in Tables : L[t] = l /\ N[t] = Number(p, l + 1)
  <2>1. EntryAt(T, F, L, N, p, l, G[p][l])
    BY DEF EntriesAt
  <2> QED
    BY <2>1 DEF EntryAt
<1>4. t \in TableFrame \ F
  BY <1>3 DEF IsTree, IsPlaced
<1>5. PICK u \in Tables, j \in Slot : T[u][j] = SubTable(t)
  BY <1>4 DEF IsTree
<1>6. T[u][j].kind = "table" /\ T[u][j].address = t
  BY <1>5 DEF SubTable
<1>7. L[t] = L[u] - 1 /\ N[t] = N[u] * EntryCount + j
  BY <1>6 DEF IsTree
<1>8. L[u] \in Int /\ N[u] \in Nat
  BY ConstantsAre DEF IsTree, IsPlaced
<1>9. L[u] = l + 1
  BY <1>3, <1>7, <1>8, ConstantsAre
<1>10. N[u] = n /\ j = i
  <2>1. N[u] * EntryCount + j = n * EntryCount + i
    BY <1>2, <1>3, <1>7
  <2> QED
    BY <1>2, <1>8, <2>1, PlaceIs
<1>11. G[p][l + 1] = T[u][i]
  <2>1. EntryAt(T, F, L, N, p, l + 1, G[p][l + 1])
    BY <1>1 DEF EntriesAt
  <2> QED
    BY <1>2, <1>9, <1>10, <2>1 DEF EntryAt
<1> QED
  BY <1>1, <1>6, <1>10, <1>11 DEF Absent

LEMMA LeadUpward ==
    ASSUME NEW G, NEW p \in Page, NEW k \in Level, G[p][k] # Absent,
           \A l \in Level : G[p][l] # Absent /\ l # Levels - 1 =>
               l + 1 \in Level /\ G[p][l + 1].kind = "table" /\ G[p][l + 1] # Absent
    PROVE  Upward(G, p, k)
<1> DEFINE S == {l \in Level : l > k /\ ~(G[p][l].kind = "table" /\ G[p][l] # Absent)}
<1>1. SUFFICES ASSUME S # {}
               PROVE  FALSE
  BY DEF Upward
<1>2. PICK m \in S : \A n \in S : m <= n
  <2>1. S \subseteq Nat
    BY ConstantsAre
  <2> QED
    BY <1>1, <2>1, LeastExists
<1>3. m - 1 \in Level /\ m - 1 >= k /\ m - 1 # Levels - 1 /\ m - 1 + 1 = m /\ m - 1 < m
  BY <1>2, ConstantsAre
<1>4. G[p][m - 1] # Absent
  <2>1. CASE m - 1 = k
    BY <2>1
  <2>2. CASE m - 1 > k
    <3>1. m - 1 \notin S
      <4>1. m \in Int /\ ~(m <= m - 1)
        BY <1>2, ConstantsAre
      <4> QED
        BY <1>2, <4>1
    <3> QED
      BY <1>3, <2>2, <3>1
  <2>3. m \in Int /\ k \in Int
    BY <1>2, ConstantsAre
  <2> QED
    BY <1>3, <2>1, <2>2, <2>3
<1> QED
  BY <1>2, <1>3, <1>4

LEMMA FlatFromTree ==
    ASSUME NEW T, NEW F, NEW L, NEW N, NEW G, IsTree(T, F, L, N), EntriesAt(T, F, L, N, G)
    PROVE  IsFlat(G)
<1> DEFINE Tables == (TableFrame \ F) \cup {Root}
<1>1. ASSUME NEW p \in Page, NEW l \in Level
      PROVE  /\ G[p][l] \in AnyEntry
             /\ Index(p, l) \in Slot
             /\ \/ G[p][l] = Absent
                \/ \E t \in Tables : /\ L[t] = l /\ N[t] = Number(p, l + 1)
                                     /\ G[p][l] = T[t][Index(p, l)]
  <2>1. EntryAt(T, F, L, N, p, l, G[p][l])
    BY DEF EntriesAt
  <2>2. Index(p, l) \in Slot
    BY IndexIs, NumberTop
  <2>3. Absent \in AnyEntry
    BY DEF AnyEntry
  <2>4. \A t \in Tables : T[t][Index(p, l)] \in AnyEntry
    BY <2>2 DEF IsTree, IsPlaced
  <2> QED
    BY <2>1, <2>2, <2>3, <2>4 DEF EntryAt
<1>2. G \in [Page -> [Level -> AnyEntry]]
  <2>1. G = [p \in Page |-> [l \in Level |-> G[p][l]]]
    BY DEF EntriesAt
  <2> QED
    BY <1>1, <2>1
<1>3. ASSUME NEW p \in Page, NEW q \in Page, NEW l \in Level, Number(p, l) = Number(q, l)
      PROVE  G[p][l] = G[q][l]
  <2>1. Number(p, l + 1) = Number(q, l + 1) /\ Index(p, l) = Index(q, l)
    <3>1. p \in Nat /\ q \in Nat
      BY NumberTop
    <3>2. /\ Index(p, l) = Number(p, l) % EntryCount
          /\ Number(p, l + 1) = Number(p, l) \div EntryCount
          /\ Index(q, l) = Number(q, l) % EntryCount
          /\ Number(q, l + 1) = Number(q, l) \div EntryCount
      BY <3>1, IndexIs
    <3> QED
      BY <1>3, <3>2, Zenon
  <2>2. EntryAt(T, F, L, N, p, l, G[p][l]) /\ EntryAt(T, F, L, N, q, l, G[q][l])
    BY DEF EntriesAt
  <2> QED
    BY <2>1, <2>2 DEF EntryAt
<1>4. ASSUME NEW p \in Page, NEW l \in Level, G[p][l] # Absent
      PROVE  Upward(G, p, l)
  BY <1>4, TablesLead, LeadUpward
<1>5. ASSUME NEW p \in Page, G[p][0].kind = "table"
      PROVE  FALSE
  <2>1. 0 \in Level
    BY ConstantsAre
  <2>2. PICK t \in Tables : L[t] = 0 /\ G[p][0] = T[t][Index(p, 0)]
    BY <1>1, <1>5, <2>1 DEF Absent
  <2> QED
    BY <1>1, <1>5, <2>1, <2>2 DEF IsTree
<1> QED
  BY <1>2, <1>3, <1>4, <1>5 DEF IsFlat

LEMMA TreeIsFlat == (\E L, N : IsTree(tables, free, L, N)) => IsFlat(Entries)
BY EntriesAre, FlatFromTree

-----------------------------------------------------------------------------
(* Writing an entry *)

\* The tables T with one entry of t replaced.
Overwritten(T, t, i, entry) ==
    [u \in TableFrame \cup {Root} |-> IF u = t THEN [T[u] EXCEPT ![i] = entry] ELSE T[u]]

IsOverwritten(T, t, i, entry, U) ==
    /\ U \in [TableFrame \cup {Root} -> [Slot -> AnyEntry]]
    /\ \A u \in TableFrame \cup {Root}, j \in Slot :
          U[u][j] = IF u = t /\ j = i THEN entry ELSE T[u][j]

LEMMA OverwrittenIs ==
    ASSUME NEW T, T \in [TableFrame \cup {Root} -> [Slot -> AnyEntry]],
           NEW t \in TableFrame \cup {Root}, NEW i \in Slot, NEW entry \in AnyEntry
    PROVE  IsOverwritten(T, t, i, entry, Overwritten(T, t, i, entry))
<1>1. \A u \in TableFrame \cup {Root} : T[u] \in [Slot -> AnyEntry]
  OBVIOUS
<1>2. \A u \in TableFrame \cup {Root} :
          Overwritten(T, t, i, entry)[u] = IF u = t THEN [T[u] EXCEPT ![i] = entry] ELSE T[u]
  BY DEF Overwritten
<1>3. \A u \in TableFrame \cup {Root} : [T[u] EXCEPT ![i] = entry] \in [Slot -> AnyEntry]
  BY <1>1
<1>4. Overwritten(T, t, i, entry) \in [TableFrame \cup {Root} -> [Slot -> AnyEntry]]
  BY <1>1, <1>3 DEF Overwritten
<1> QED
  BY <1>1, <1>2, <1>4 DEF IsOverwritten

\* A page entry, or none, where there was no table: the tables stay where they are.
LEMMA TreeOverwritten ==
    ASSUME NEW T, NEW F, NEW L, NEW N, IsTree(T, F, L, N),
           NEW t \in (TableFrame \ F) \cup {Root}, NEW i \in Slot, NEW entry \in AnyEntry,
           entry.kind # "table", T[t][i].kind # "table"
    PROVE  IsTree(Overwritten(T, t, i, entry), F, L, N)
<1> DEFINE Tables == (TableFrame \ F) \cup {Root}
<1>1. PICK U : U = Overwritten(T, t, i, entry)
  OBVIOUS
<1>2. IsPlaced(F, L, N) /\ F \subseteq TableFrame /\ Root \notin TableFrame
  BY ConstantsAre DEF IsTree, IsPlaced
<1>3. /\ U \in [TableFrame \cup {Root} -> [Slot -> AnyEntry]]
      /\ \A u \in TableFrame \cup {Root}, j \in Slot :
            U[u][j] = IF u = t /\ j = i THEN entry ELSE T[u][j]
  <2>1. T \in [TableFrame \cup {Root} -> [Slot -> AnyEntry]]
    BY DEF IsTree
  <2>2. t \in TableFrame \cup {Root}
    OBVIOUS
  <2>3. IsOverwritten(T, t, i, entry, U)
    BY <1>1, <2>1, <2>2, OverwrittenIs
  <2> QED
    BY <2>3 DEF IsOverwritten
<1>4. \A f \in F, j \in Slot : U[f][j] = Absent
  BY <1>2, <1>3 DEF IsTree
<1>5. ASSUME NEW u \in Tables, NEW j \in Slot, U[u][j].kind = "table"
      PROVE  /\ L[u] > 0
             /\ U[u][j].address \notin F
             /\ L[U[u][j].address] = L[u] - 1
             /\ N[U[u][j].address] = N[u] * EntryCount + j
  <2>1. U[u][j] = T[u][j]
    BY <1>3, <1>5
  <2> QED
    BY <1>5, <2>1 DEF IsTree
<1>6. ASSUME NEW f \in TableFrame \ F
      PROVE  \E u \in Tables, j \in Slot : U[u][j] = SubTable(f)
  <2>1. PICK u \in Tables, j \in Slot : T[u][j] = SubTable(f)
    BY DEF IsTree
  <2>2. T[u][j].kind = "table"
    BY <2>1 DEF SubTable
  <2>3. U[u][j] = T[u][j]
    BY <1>3, <2>2
  <2> QED
    BY <2>1, <2>3
<1>7. IsTree(U, F, L, N)
  BY <1>2, <1>3, <1>4, <1>5, <1>6 DEF IsTree
<1> QED
  BY <1>1, <1>7

\* A new table where there was none: it is at a place of its own.
LEMMA TreeExtended ==
    ASSUME NEW T, NEW F, NEW L, NEW N, IsTree(T, F, L, N),
           NEW t \in (TableFrame \ F) \cup {Root}, NEW i \in Slot, NEW f \in F,
           T[t][i] = Absent, L[t] > 0
    PROVE  \E M, K : /\ IsTree(Overwritten(T, t, i, SubTable(f)), F \ {f}, M, K)
                     /\ \A u \in (TableFrame \ F) \cup {Root} : M[u] = L[u] /\ K[u] = N[u]
<1> DEFINE Tables == (TableFrame \ F) \cup {Root}
           Tables2 == (TableFrame \ (F \ {f})) \cup {Root}
<1>1. PICK U : U = Overwritten(T, t, i, SubTable(f))
  OBVIOUS
<1>2. F \subseteq TableFrame /\ Root \notin TableFrame /\ f \notin Tables /\ Tables2 = Tables \cup {f}
  BY ConstantsAre DEF IsTree, IsPlaced
<1>3. PICK M : M = [u \in Tables2 |-> IF u = f THEN L[t] - 1 ELSE L[u]]
  OBVIOUS
<1>4. PICK K : K = [u \in Tables2 |-> IF u = f THEN N[t] * EntryCount + i ELSE N[u]]
  OBVIOUS
<1>5. \A u \in Tables : M[u] = L[u] /\ K[u] = N[u]
  BY <1>2, <1>3, <1>4
<1>6. M[f] = L[t] - 1 /\ K[f] = N[t] * EntryCount + i
  BY <1>2, <1>3, <1>4
<1>7. \A u \in Tables : L[u] \in Level /\ L[u] \in Int /\ N[u] \in Nat
  BY ConstantsAre DEF IsTree, IsPlaced
<1>8. ASSUME NEW u \in Tables, L[u] = L[t] - 1, N[u] = N[t] * EntryCount + i
      PROVE  FALSE
  <2>1. u \in TableFrame \ F
    BY <1>7, <1>8, ConstantsAre DEF IsTree, IsPlaced
  <2>2. PICK v \in Tables, j \in Slot : T[v][j] = SubTable(u)
    BY <2>1 DEF IsTree
  <2>3. T[v][j].kind = "table" /\ T[v][j].address = u
    BY <2>2 DEF SubTable
  <2>4. L[u] = L[v] - 1 /\ N[u] = N[v] * EntryCount + j
    BY <2>3 DEF IsTree
  <2>5. L[v] = L[t]
    BY <1>7, <1>8, <2>4
  <2>6. N[v] = N[t] /\ j = i
    <3>1. N[v] * EntryCount + j = N[t] * EntryCount + i
      BY <1>8, <2>4
    <3> QED
      BY <1>7, <3>1, PlaceIs
  <2>7. v = t
    BY <2>5, <2>6 DEF IsTree, IsPlaced
  <2> QED
    BY <2>3, <2>6, <2>7 DEF Absent
<1>9. SubTable(f) \in AnyEntry /\ SubTable(f).kind = "table" /\ SubTable(f).address = f
  BY <1>2 DEF SubTable, AnyEntry
<1>10. /\ U \in [TableFrame \cup {Root} -> [Slot -> AnyEntry]]
       /\ \A u \in TableFrame \cup {Root}, j \in Slot :
             U[u][j] = IF u = t /\ j = i THEN SubTable(f) ELSE T[u][j]
  <2>1. T \in [TableFrame \cup {Root} -> [Slot -> AnyEntry]]
    BY DEF IsTree
  <2>2. t \in TableFrame \cup {Root}
    OBVIOUS
  <2>3. PICK entry \in AnyEntry : entry = SubTable(f)
    BY <1>9
  <2>4. IsOverwritten(T, t, i, entry, U)
    BY <1>1, <2>1, <2>2, <2>3, OverwrittenIs
  <2> QED
    BY <2>3, <2>4 DEF IsOverwritten
<1>11. IsPlaced(F \ {f}, M, K)
  <2>1. L[t] - 1 \in Level
    BY <1>7, ConstantsAre
  <2>2. N[t] * EntryCount + i \in Nat
    <3>1. N[t] \in Nat /\ EntryCount \in Nat /\ i \in Nat
      BY <1>7, ConstantsAre DEF Slot
    <3>2. N[t] * EntryCount \in Nat
      BY <3>1
    <3> QED
      BY <3>1, <3>2
  <2>3. M \in [Tables2 -> Level]
    BY <1>2, <1>3, <1>7, <2>1
  <2>4. K \in [Tables2 -> Nat]
    BY <1>2, <1>4, <1>7, <2>2
  <2>5. M[Root] = Levels - 1 /\ K[Root] = 0
    BY <1>5 DEF IsTree, IsPlaced
  <2>6. ASSUME NEW u \in Tables2, NEW v \in Tables2, M[u] = M[v], K[u] = K[v]
        PROVE  u = v
    <3>1. CASE u \in Tables /\ v \in Tables
      BY <1>5, <2>6, <3>1 DEF IsTree, IsPlaced
    <3>2. CASE u = f /\ v \in Tables
      BY <1>5, <1>6, <1>8, <2>6, <3>2
    <3>3. CASE v = f /\ u \in Tables
      BY <1>5, <1>6, <1>8, <2>6, <3>3
    <3> QED
      BY <1>2, <3>1, <3>2, <3>3
  <2> QED
    BY <1>2, <2>3, <2>4, <2>5, <2>6 DEF IsPlaced
<1>12. ASSUME NEW g \in F \ {f}, NEW j \in Slot
       PROVE  U[g][j] = Absent
  BY <1>2, <1>10 DEF IsTree
<1>13. ASSUME NEW u \in Tables2, NEW j \in Slot, U[u][j].kind = "table"
       PROVE  /\ M[u] > 0
              /\ U[u][j].address \notin F \ {f}
              /\ M[U[u][j].address] = M[u] - 1
              /\ K[U[u][j].address] = K[u] * EntryCount + j
  <2>1. CASE u = t /\ j = i
    BY <1>5, <1>6, <1>9, <1>10, <2>1
  <2>2. CASE ~(u = t /\ j = i)
    <3>1. U[u][j] = T[u][j]
      BY <1>2, <1>10, <2>2
    <3>2. u \in Tables
      <4>1. u # f
        BY <1>13, <3>1 DEF IsTree, Absent
      <4> QED
        BY <1>2, <4>1
    <3>3. /\ L[u] > 0
          /\ T[u][j].address \notin F
          /\ L[T[u][j].address] = L[u] - 1
          /\ N[T[u][j].address] = N[u] * EntryCount + j
      BY <1>13, <3>1, <3>2 DEF IsTree
    <3>4. T[u][j] \in AnyEntry
      BY <1>2, <3>2 DEF IsTree
    <3>5. T[u][j].address \in Tables
      BY <1>13, <3>1, <3>3, <3>4 DEF AnyEntry, Absent
    <3> QED
      BY <1>5, <3>1, <3>2, <3>3, <3>5
  <2> QED
    BY <2>1, <2>2
<1>14. ASSUME NEW g \in TableFrame \ (F \ {f})
       PROVE  \E u \in Tables2, j \in Slot : U[u][j] = SubTable(g)
  <2>1. CASE g = f
    BY <1>2, <1>10, <2>1
  <2>2. CASE g # f
    <3>1. PICK u \in Tables, j \in Slot : T[u][j] = SubTable(g)
      BY <2>2 DEF IsTree
    <3>2. T[u][j] # Absent
      BY <3>1 DEF SubTable, Absent
    <3>3. U[u][j] = T[u][j]
      BY <1>2, <1>10, <3>2
    <3> QED
      BY <1>2, <3>1, <3>3
  <2> QED
    BY <2>1, <2>2
<1>15. IsTree(U, F \ {f}, M, K)
  BY <1>10, <1>11, <1>12, <1>13, <1>14 DEF IsTree
<1> QED
  BY <1>1, <1>5, <1>15

\* The entry of a page at a level, which is also that of its neighbours, becomes e.
Changed(G, H, page, level, e) ==
    \A p \in Page, l \in Level :
        H[p][l] = IF l = level /\ Number(p, level) = Number(page, level) THEN e ELSE G[p][l]

LEMMA SamePlace ==
    \A p, q \in Page, l \in Level :
        Number(p, l) = Number(q, l) <=>
            Number(p, l + 1) = Number(q, l + 1) /\ Index(p, l) = Index(q, l)
<1>1. SUFFICES ASSUME NEW p \in Page, NEW q \in Page, NEW l \in Level
               PROVE  Number(p, l) = Number(q, l) <=>
                          Number(p, l + 1) = Number(q, l + 1) /\ Index(p, l) = Index(q, l)
  OBVIOUS
<1>2. p \in Nat /\ q \in Nat
  BY NumberTop
<1>3. /\ Index(p, l) = Number(p, l) % EntryCount
      /\ Number(p, l + 1) = Number(p, l) \div EntryCount
      /\ Index(q, l) = Number(q, l) % EntryCount
      /\ Number(q, l + 1) = Number(q, l) \div EntryCount
  BY <1>2, IndexIs
<1>4. /\ Number(p, l) = Number(p, l + 1) * EntryCount + Index(p, l)
      /\ Number(q, l) = Number(q, l + 1) * EntryCount + Index(q, l)
  BY <1>2, IndexIs
<1> QED
  BY <1>3, <1>4, Zenon

\* The tables of the tree stay where they are, and a new one holds nothing.
LEMMA FlatChanged ==
    ASSUME NEW T, NEW F, NEW L, NEW N, IsTree(T, F, L, N),
           NEW U, NEW E, NEW M, NEW K, IsTree(U, E, M, K),
           NEW G, NEW H, EntriesAt(T, F, L, N, G), EntriesAt(U, E, M, K, H),
           NEW t \in (TableFrame \ F) \cup {Root}, NEW page \in Page, NEW level \in Level,
           NEW entry, IsOverwritten(T, t, Index(page, level), entry, U),
           L[t] = level, N[t] = Number(page, level + 1),
           E \subseteq F, \A u \in (TableFrame \ F) \cup {Root} : M[u] = L[u] /\ K[u] = N[u]
    PROVE  Changed(G, H, page, level, entry)
<1> DEFINE Tables == (TableFrame \ F) \cup {Root}
           Tables2 == (TableFrame \ E) \cup {Root}
<1>1. SUFFICES ASSUME NEW p \in Page, NEW l \in Level
               PROVE  H[p][l] = IF l = level /\ Number(p, level) = Number(page, level)
                                THEN entry ELSE G[p][l]
  BY DEF Changed
<1>2. PICK i \in Slot, j \in Slot : i = Index(page, level) /\ j = Index(p, l)
  BY IndexIs, NumberTop
<1>3. PICK n : n = Number(p, l + 1)
  OBVIOUS
<1>4. l = level => (Number(p, level) = Number(page, level) <=> n = N[t] /\ i = j)
  BY <1>2, <1>3, SamePlace
<1>5. \A u \in TableFrame \cup {Root}, k \in Slot :
          U[u][k] = IF u = t /\ k = i THEN entry ELSE T[u][k]
  BY <1>2 DEF IsOverwritten
<1>6. /\ \A u \in Tables : L[u] = l /\ N[u] = n => G[p][l] = T[u][j]
      /\ \/ G[p][l] = Absent
         \/ \E u \in Tables : L[u] = l /\ N[u] = n
  BY <1>2, <1>3 DEF EntriesAt, EntryAt
<1>7. /\ \A u \in Tables2 : M[u] = l /\ K[u] = n => H[p][l] = U[u][j]
      /\ \/ H[p][l] = Absent
         \/ \E u \in Tables2 : M[u] = l /\ K[u] = n
  BY <1>2, <1>3 DEF EntriesAt, EntryAt
<1>8. Tables \subseteq Tables2 /\ t \in Tables /\ M[t] = level /\ K[t] = N[t]
  OBVIOUS
<1>9. \A u, v \in Tables2 : M[u] = M[v] /\ K[u] = K[v] => u = v
  BY DEF IsTree, IsPlaced
<1>10. CASE \E u \in Tables : L[u] = l /\ N[u] = n
  <2>1. PICK u \in Tables : L[u] = l /\ N[u] = n
    BY <1>10
  <2>2. M[u] = l /\ K[u] = n /\ u \in Tables2
    BY <1>8, <2>1
  <2>3. G[p][l] = T[u][j] /\ H[p][l] = U[u][j]
    BY <1>6, <1>7, <2>1, <2>2
  <2>4. u = t <=> l = level /\ n = N[t]
    BY <1>8, <1>9, <2>1, <2>2
  <2>5. U[u][j] = IF u = t /\ j = i THEN entry ELSE T[u][j]
    BY <1>5
  <2> QED
    BY <1>4, <2>3, <2>4, <2>5
<1>11. CASE ~\E u \in Tables : L[u] = l /\ N[u] = n
  <2>1. ~(l = level /\ n = N[t])
    BY <1>11
  <2>2. G[p][l] = Absent
    BY <1>6, <1>11
  <2>3. H[p][l] = Absent
    <3>1. ASSUME NEW u \in Tables2, M[u] = l, K[u] = n
          PROVE  U[u][j] = Absent
      <4>1. u \notin Tables
        BY <1>11, <3>1
      <4>2. u \in F
        BY <4>1
      <4>3. T[u][j] = Absent
        BY <4>2 DEF IsTree
      <4>4. u # t /\ u \in TableFrame \cup {Root}
        BY <4>1
      <4> QED
        BY <1>5, <4>3, <4>4
    <3> QED
      BY <1>7, <3>1
  <2> QED
    BY <1>4, <2>1, <2>2, <2>3
<1> QED
  BY <1>10, <1>11

\* Below entries that are tables there is a table.
LEMMA TableThere ==
    ASSUME NEW T, NEW F, NEW L, NEW N, IsTree(T, F, L, N), NEW G, EntriesAt(T, F, L, N, G),
           NEW page \in Page, NEW level \in Level, Upward(G, page, level)
    PROVE  \E t \in (TableFrame \ F) \cup {Root} : L[t] = level /\ N[t] = Number(page, level + 1)
<1> DEFINE Tables == (TableFrame \ F) \cup {Root}
<1>1. CASE level = Levels - 1
  <2>1. level + 1 = Levels
    BY <1>1, ConstantsAre
  <2> QED
    BY <1>1, <2>1, NumberTop DEF IsTree, IsPlaced
<1>2. CASE level # Levels - 1
  <2>1. level + 1 \in Level /\ level + 1 > level /\ page \in Nat /\ level \in Int
    BY <1>2, ConstantsAre, NumberTop
  <2>2. G[page][level + 1].kind = "table"
    BY <2>1 DEF Upward
  <2>3. PICK i \in Slot, n \in Nat : /\ i = Index(page, level + 1)
                                     /\ n = Number(page, level + 1 + 1)
                                     /\ Number(page, level + 1) = n * EntryCount + i
    BY <2>1, IndexIs
  <2>4. PICK t \in Tables : L[t] = level + 1 /\ N[t] = n /\ G[page][level + 1] = T[t][i]
    <3>1. EntryAt(T, F, L, N, page, level + 1, G[page][level + 1])
      BY <2>1 DEF EntriesAt
    <3> QED
      BY <2>2, <2>3, <3>1 DEF EntryAt, Absent
  <2>5. /\ T[t][i].address \notin F
        /\ L[T[t][i].address] = L[t] - 1
        /\ N[T[t][i].address] = N[t] * EntryCount + i
    BY <2>2, <2>4 DEF IsTree
  <2>6. T[t][i] \in AnyEntry
    BY DEF IsTree, IsPlaced
  <2>7. T[t][i].address \in Tables
    BY <2>2, <2>4, <2>5, <2>6 DEF AnyEntry, Absent
  <2>8. L[T[t][i].address] = level
    BY <2>1, <2>4, <2>5
  <2> QED
    BY <2>3, <2>4, <2>5, <2>7, <2>8
<1> QED
  BY <1>1, <1>2

LEMMA EntriesAreNext ==
    \A L, N : IsTree(tables', free', L, N) => EntriesAt(tables', free', L, N, Entries')
<1>1. (\A L, N : IsTree(tables, free, L, N) => EntriesAt(tables, free, L, N, Entries))'
  BY EntriesAre, PTL
<1> QED
  BY <1>1

\* Write finds the table of the page, and replaces its entry there.
LEMMA WriteIs ==
    ASSUME NEW L, NEW N, IsTree(tables, free, L, N),
           NEW base \in Page, NEW page \in Page, NEW level \in Level, NEW entry \in AnyEntry,
           Number(base, level + 1) = Number(page, level + 1),
           Upward(Entries, page, level), Write(base, page, level, entry)
    PROVE  \E t \in (TableFrame \ free) \cup {Root} :
              /\ L[t] = level /\ N[t] = Number(page, level + 1)
              /\ tables' = Overwritten(tables, t, Index(page, level), entry)
              /\ IsOverwritten(tables, t, Index(page, level), entry, tables')
              /\ Entries[page][level] = tables[t][Index(page, level)]
<1>1. EntriesAt(tables, free, L, N, Entries)
  BY EntriesAre
<1>2. PICK t \in (TableFrame \ free) \cup {Root} : L[t] = level /\ N[t] = Number(page, level + 1)
  BY <1>1, TableThere
<1>3. TablesFor(base, level) = {t}
  <2>1. TablesFor(base, level) = At(free, L, N, level, Number(page, level + 1))
    BY TablesForIs
  <2>2. \A u \in At(free, L, N, level, Number(page, level + 1)) : u = t
    BY <1>2 DEF At, IsTree, IsPlaced
  <2>3. t \in At(free, L, N, level, Number(page, level + 1))
    BY <1>2 DEF At
  <2> QED
    BY <2>1, <2>2, <2>3
<1>4. tables \in [TableFrame \cup {Root} -> [Slot -> AnyEntry]]
  BY DEF IsTree
<1>5. PICK i \in Slot : i = Index(page, level)
  BY IndexIs, NumberTop
<1>6. tables' = Overwritten(tables, t, i, entry)
  <2>1. DOMAIN tables = TableFrame \cup {Root}
    BY <1>4
  <2>2. tables' = [u \in DOMAIN tables |-> IF u \in {t} THEN [tables[u] EXCEPT ![i] = entry]
                                           ELSE tables[u]]
    BY <1>3, <1>5 DEF Write
  <2> QED
    BY <2>1, <2>2 DEF Overwritten
<1>7. IsOverwritten(tables, t, i, entry, tables')
  <2>1. t \in TableFrame \cup {Root}
    OBVIOUS
  <2> QED
    BY <1>4, <1>6, <2>1, OverwrittenIs
<1>8. Entries[page][level] = tables[t][i]
  BY <1>1, <1>2, <1>5 DEF EntriesAt, EntryAt
<1> QED
  BY <1>2, <1>5, <1>6, <1>7, <1>8

LEMMA WriteEntry ==
    ASSUME \E L, N : IsTree(tables, free, L, N),
           NEW base \in Page, NEW page \in Page, NEW level \in Level, NEW entry \in AnyEntry,
           Number(base, level + 1) = Number(page, level + 1),
           Upward(Entries, page, level), Write(base, page, level, entry),
           entry.kind # "table", Entries[page][level].kind # "table", free' = free
    PROVE  /\ \E L, N : IsTree(tables', free', L, N)
           /\ Changed(Entries, Entries', page, level, entry)
<1>1. PICK L, N : IsTree(tables, free, L, N)
  OBVIOUS
<1>2. PICK t \in (TableFrame \ free) \cup {Root} :
              /\ L[t] = level /\ N[t] = Number(page, level + 1)
              /\ tables' = Overwritten(tables, t, Index(page, level), entry)
              /\ IsOverwritten(tables, t, Index(page, level), entry, tables')
              /\ Entries[page][level] = tables[t][Index(page, level)]
  BY <1>1, WriteIs
<1>3. Index(page, level) \in Slot
  BY IndexIs, NumberTop
<1>4. IsTree(tables', free', L, N)
  <2>1. IsTree(Overwritten(tables, t, Index(page, level), entry), free, L, N)
    BY <1>1, <1>2, <1>3, TreeOverwritten
  <2> QED
    BY <1>2, <2>1
<1>5. EntriesAt(tables, free, L, N, Entries) /\ EntriesAt(tables', free', L, N, Entries')
  BY <1>1, <1>4, EntriesAre, EntriesAreNext
<1>6. Changed(Entries, Entries', page, level, entry)
  <2>1. free' \subseteq free
    OBVIOUS
  <2> QED
    BY <1>1, <1>2, <1>4, <1>5, <2>1, FlatChanged
<1> QED
  BY <1>4, <1>6

LEMMA WriteTable ==
    ASSUME \E L, N : IsTree(tables, free, L, N),
           NEW page \in Page, NEW level \in Level, level > 0, NEW frame \in free,
           Upward(Entries, page, level), Write(page, page, level, SubTable(frame)),
           Entries[page][level] = Absent, free' = free \ {frame}
    PROVE  /\ \E L, N : IsTree(tables', free', L, N)
           /\ Changed(Entries, Entries', page, level, SubTable(frame))
<1>1. PICK L, N : IsTree(tables, free, L, N)
  OBVIOUS
<1>2. PICK entry \in AnyEntry : entry = SubTable(frame)
  BY <1>1 DEF IsTree, IsPlaced, AnyEntry, SubTable
<1>3. PICK t \in (TableFrame \ free) \cup {Root} :
              /\ L[t] = level /\ N[t] = Number(page, level + 1)
              /\ tables' = Overwritten(tables, t, Index(page, level), entry)
              /\ IsOverwritten(tables, t, Index(page, level), entry, tables')
              /\ Entries[page][level] = tables[t][Index(page, level)]
  BY <1>1, <1>2, WriteIs
<1>4. Index(page, level) \in Slot
  BY IndexIs, NumberTop
<1>5. PICK M, K : /\ IsTree(tables', free', M, K)
                  /\ \A u \in (TableFrame \ free) \cup {Root} : M[u] = L[u] /\ K[u] = N[u]
  <2>1. tables[t][Index(page, level)] = Absent /\ L[t] > 0
    BY <1>3
  <2>2. \E M, K :
            /\ IsTree(Overwritten(tables, t, Index(page, level), SubTable(frame)), free \ {frame}, M, K)
            /\ \A u \in (TableFrame \ free) \cup {Root} : M[u] = L[u] /\ K[u] = N[u]
    BY <1>1, <1>4, <2>1, TreeExtended
  <2> QED
    BY <1>2, <1>3, <2>2
<1>6. EntriesAt(tables, free, L, N, Entries) /\ EntriesAt(tables', free', M, K, Entries')
  BY <1>1, <1>5, EntriesAre, EntriesAreNext
<1>7. Changed(Entries, Entries', page, level, entry)
  <2>1. free' \subseteq free
    OBVIOUS
  <2> QED
    BY <1>1, <1>3, <1>5, <1>6, <2>1, FlatChanged
<1> QED
  BY <1>2, <1>5, <1>7

\* Other steps leave the tables alone.
LEMMA EntriesUnchanged == tables' = tables => Entries' = Entries
BY DEF Entries, Entry, EntryIn, TablesFor

-----------------------------------------------------------------------------
(* Translations *)

LEMMA AtMostOnePage ==
    ASSUME NEW G, IsFlat(G), NEW p \in Page, NEW k \in Level, NEW l \in Level,
           G[p][k].kind = "page", G[p][l].kind = "page"
    PROVE  k = l
<1>1. G[p][k] # Absent /\ G[p][l] # Absent
  BY DEF Absent
<1>2. Upward(G, p, k) /\ Upward(G, p, l)
  BY <1>1 DEF IsFlat
<1> QED
  BY <1>2, ConstantsAre DEF Upward

TranslatesTo(G, p, x) ==
    /\ x = NoMapping <=> Unmapped(G, p)
    /\ x = NoMapping \/ x \in Int
    /\ \A a \in Int : x = a <=> MapsTo(G, p, a)

LEMMA TranslationIs ==
    IsFlat(Entries) => \A p \in Page : TranslatesTo(Entries, p, Translation(p))
<1>1. SUFFICES ASSUME IsFlat(Entries), NEW p \in Page
               PROVE  TranslatesTo(Entries, p, Translation(p))
  OBVIOUS
<1>2. PICK G : G = Entries
  OBVIOUS
<1>3. \A l \in Level : G[p][l] = Entry(p, l)
  BY <1>2 DEF Entries
<1>4. PICK levels : levels = {l \in Level : G[p][l].kind = "page"} /\ levels = MappingLevels(p)
  BY <1>3 DEF MappingLevels
<1>5. Translation(p) = IF MappingLevels(p) = {} THEN NoMapping
                       ELSE Entry(p, CHOOSE k \in MappingLevels(p) : TRUE).address
                               + (p % PageSize[CHOOSE k \in MappingLevels(p) : TRUE])
  BY DEF Translation
<1>6. CASE levels = {}
  <2>1. Translation(p) = NoMapping
    BY <1>4, <1>5, <1>6
  <2>2. Unmapped(G, p)
    BY <1>4, <1>6 DEF Unmapped
  <2>3. \A a \in Int : ~MapsTo(G, p, a)
    BY <1>4, <1>6 DEF MapsTo
  <2> QED
    BY <1>2, <2>1, <2>2, <2>3, PageTablesAssumption DEF TranslatesTo
<1>7. CASE levels # {}
  <2>1. PICK l \in Level : l \in levels /\ l = CHOOSE k \in MappingLevels(p) : TRUE
    BY <1>4, <1>7
  <2>2. PICK r \in Nat : r = p % PageSize[l]
    <3>1. p \in Nat /\ l \in 0 .. Levels
      BY NumberTop, ConstantsAre
    <3> QED
      BY <3>1, NumberTypes
  <2>3. Translation(p) = G[p][l].address + r
    BY <1>3, <1>4, <1>5, <1>7, <2>1, <2>2
  <2>4. G[p][l].kind = "page" /\ G[p][l].address \in Int
    <3>1. G[p][l] \in AnyEntry
      BY <1>1, <1>2 DEF IsFlat
    <3> QED
      BY <1>4, <2>1, <3>1 DEF AnyEntry, Absent
  <2>5. \A k \in Level : G[p][k].kind = "page" => k = l
    BY <1>1, <1>2, <2>4, AtMostOnePage
  <2>6. ~Unmapped(G, p)
    BY <2>4 DEF Unmapped
  <2>7. \A a : MapsTo(G, p, a) <=> a = G[p][l].address + r
    BY <2>2, <2>4, <2>5 DEF MapsTo
  <2>8. G[p][l].address + r \in Int
    BY <2>4
  <2> QED
    BY <1>2, <2>3, <2>6, <2>7, <2>8, PageTablesAssumption DEF TranslatesTo
<1> QED
  BY <1>6, <1>7

-----------------------------------------------------------------------------
(* What the entries of a step change, and what they keep *)

LEMMA RequestPages ==
    ASSUME NEW o, o.first \in Page, o.size \in Nat, RequestFits(o)
    PROVE  Pages(o) \subseteq Page
<1>1. PICK s \in Nat : s = PageSize[Levels]
  BY PageSizeTypes, ConstantsAre
<1> QED
  BY <1>1 DEF Pages, Page, RequestFits

TablesPersist(G, H) ==
    \A p \in Page, l \in Level : G[p][l].kind = "table" => H[p][l].kind = "table"

PagesKept(G, H, X) ==
    \A p \in X, l \in Level : G[p][l].kind = "page" \/ H[p][l].kind = "page" => H[p][l] = G[p][l]

LEMMA UpwardPersists ==
    ASSUME NEW G, NEW H, TablesPersist(G, H), NEW p \in Page, NEW level, Upward(G, p, level)
    PROVE  Upward(H, p, level)
BY DEF TablesPersist, Upward

LEMMA MappingsKept ==
    ASSUME NEW G, NEW H, NEW X, PagesKept(G, H, X), NEW p \in X
    PROVE  /\ Unmapped(H, p) <=> Unmapped(G, p)
           /\ \A a : MapsTo(H, p, a) <=> MapsTo(G, p, a)
<1>1. \A l \in Level : G[p][l].kind = "page" \/ H[p][l].kind = "page" => H[p][l] = G[p][l]
  BY DEF PagesKept
<1>2. Unmapped(H, p) <=> Unmapped(G, p)
  BY <1>1 DEF Unmapped
<1>3. ASSUME NEW a
      PROVE  MapsTo(H, p, a) <=> MapsTo(G, p, a)
  BY <1>1, Zenon DEF MapsTo
<1> QED
  BY <1>2, <1>3

LEMMA AddTypes ==
    ASSUME NEW G, NEW o, AddOK(G, o)
    PROVE  /\ o.kind = "add" /\ o.first \in Page /\ o.first \in Nat /\ o.size \in Nat /\ o.size > 0
           /\ o.delta \in Delta /\ o.delta \in Int
           /\ o.page \in Nat /\ o.level \in Level /\ o.absent \in BOOLEAN
           /\ RequestFits(o) /\ o.first <= o.page /\ o.page <= o.first + o.size
           /\ Pages(o) \subseteq Page
           /\ o.page < o.first + o.size => o.page \in Pages(o)
<1>1. o \in AddRequest /\ RequestFits(o) /\ o.first <= o.page /\ o.page <= o.first + o.size
  BY DEF AddOK
<1>2. /\ o.kind = "add" /\ o.first \in Page /\ o.size \in Nat /\ o.size > 0
      /\ o.delta \in Delta /\ o.delta \in Int
      /\ o.page \in Nat /\ o.level \in Level /\ o.absent \in BOOLEAN
  <2>1. /\ o.kind = "add" /\ o.first \in Page /\ o.size \in Nat \ {0}
        /\ o.delta \in Delta
        /\ o.page \in Nat /\ o.level \in Level /\ o.absent \in BOOLEAN
    BY <1>1, Zenon DEF AddRequest
  <2>2. o.size \in Nat /\ o.size > 0
    BY <2>1
  <2>3. o.delta \in Int
    BY <2>1, PageTablesAssumption
  <2> QED
    BY <2>1, <2>2, <2>3
<1>3. o.first \in Nat
  BY <1>2, NumberTop
<1>4. Pages(o) \subseteq Page
  BY <1>1, <1>2, RequestPages
<1>5. o.page < o.first + o.size => o.page \in Pages(o)
  BY <1>1, <1>2, <1>3 DEF Pages
<1> QED
  BY <1>1, <1>2, <1>3, <1>4, <1>5

LEMMA AddKept ==
    ASSUME NEW G, NEW H, NEW o, AddOK(G, o), \A p \in Pages(o) : H[p] = G[p]
    PROVE  AddOK(H, o)
<1>1. o.page < o.first + o.size => o.page \in Pages(o)
  BY AddTypes
<1>2. o.page < o.first + o.size => H[o.page] = G[o.page]
  BY <1>1
<1>3. o.page < o.first + o.size => o.level >= TargetLevel(o) /\ Upward(H, o.page, o.level)
  BY <1>2 DEF AddOK, Upward
<1>4. o.absent => /\ o.page < o.first + o.size
                  /\ o.level > TargetLevel(o)
                  /\ H[o.page][o.level] = Absent
  BY <1>2 DEF AddOK
<1>5. \A p \in Pages(o) :
          IF p < o.page THEN MapsTo(H, p, p + o.delta)
          ELSE /\ Unmapped(H, p)
               /\ \A l \in LargeLevel : H[p][l].kind = "table" =>
                     BestLevel(p, o.first + o.size - p, p + o.delta) < l
  BY DEF AddOK, MapsTo, Unmapped
<1>6. /\ o \in AddRequest /\ RequestFits(o)
      /\ o.first <= o.page /\ o.page <= o.first + o.size
  BY DEF AddOK
<1> QED
  BY <1>3, <1>4, <1>5, <1>6 DEF AddOK

LEMMA RemoveTypes ==
    ASSUME NEW G, NEW o, RemoveOK(G, o)
    PROVE  /\ o.kind = "remove" /\ o.first \in Page /\ o.first \in Nat /\ o.size \in Nat /\ o.size > 0
           /\ o.step \in {"visit", "clear", "flush"}
           /\ o.stack \in Seq(CallRecord) /\ Len(o.stack) \in Nat /\ Len(o.stack) > 0
           /\ RequestFits(o) /\ Pages(o) \subseteq Page
<1>1. o \in RemoveRequest /\ RequestFits(o) /\ Len(o.stack) > 0
  BY DEF RemoveOK
<1>2. /\ o.kind = "remove" /\ o.first \in Page /\ o.size \in Nat /\ o.size > 0
      /\ o.step \in {"visit", "clear", "flush"} /\ o.stack \in Seq(CallRecord)
  BY <1>1 DEF RemoveRequest
<1>3. o.first \in Nat
  BY <1>2, NumberTop
<1>4. Pages(o) \subseteq Page
  BY <1>1, <1>2, RequestPages
<1>5. Len(o.stack) \in Nat
  BY <1>2
<1> QED
  BY <1>1, <1>2, <1>3, <1>4, <1>5

LEMMA CallTypes ==
    ASSUME NEW G, NEW o, RemoveOK(G, o), NEW k \in 1 .. Len(o.stack),
           NEW call, call = o.stack[k]
    PROVE  /\ call \in CallRecord /\ CallOK(G, call, o)
           /\ call.level \in Level /\ call.level \in 0 .. Levels
           /\ call.base \in Page /\ call.base \in Nat /\ call.page \in Nat
           /\ call.size \in Nat /\ call.size > 0 /\ call.done \in Nat
           /\ call.page = call.base + call.done
           /\ o.first <= call.base /\ call.base + call.size <= o.first + o.size
           /\ call.base .. call.base + call.size - 1 \subseteq Pages(o)
           /\ call.done < call.size => call.page \in Pages(o) /\ call.page \in Page
<1>1. call \in CallRecord /\ CallOK(G, call, o)
  <2>1. o.stack \in Seq(CallRecord)
    BY RemoveTypes
  <2>2. call \in CallRecord
    BY <2>1
  <2> QED
    BY <2>2 DEF RemoveOK
<1>2. /\ call.level \in Level /\ call.base \in Nat /\ call.page \in Nat
      /\ call.size \in Nat /\ call.size > 0 /\ call.done \in Nat
  BY <1>1 DEF CallRecord
<1>3. /\ call.page = call.base + call.done
      /\ o.first <= call.base /\ call.base + call.size <= o.first + o.size
  BY <1>1 DEF CallOK
<1>4. o.first \in Nat /\ o.size \in Nat /\ Pages(o) \subseteq Page
  BY RemoveTypes
<1>5. PICK b \in Nat, n \in Nat, d \in Nat, f \in Nat, z \in Nat :
          /\ b = call.base /\ n = call.size /\ d = call.done /\ f = o.first /\ z = o.size
          /\ call.page = b + d /\ f <= b /\ b + n <= f + z /\ n > 0
          /\ Pages(o) = f .. f + z - 1
  BY <1>2, <1>3, <1>4 DEF Pages
<1>6. b .. b + n - 1 \subseteq Pages(o) /\ b \in Pages(o) /\ (d < n => b + d \in Pages(o))
  <2>1. f <= b /\ b + n <= f + z /\ n > 0
    BY <1>5
  <2>2. b .. b + n - 1 \subseteq f .. f + z - 1
    BY <2>1
  <2>3. b \in f .. f + z - 1 /\ (d < n => b + d \in f .. f + z - 1)
    BY <2>1
  <2> QED
    BY <1>5, <2>2, <2>3, Zenon
<1>7. /\ call.base .. call.base + call.size - 1 \subseteq Pages(o)
      /\ call.base \in Pages(o)
      /\ call.done < call.size => call.page \in Pages(o)
  BY <1>5, <1>6
<1>8. call.level \in 0 .. Levels
  BY <1>2, ConstantsAre
<1> QED
  BY <1>1, <1>2, <1>3, <1>4, <1>7, <1>8

\* A whole entry is inside the request.
LEMMA WholeInside ==
    ASSUME NEW G, NEW o, RemoveOK(G, o), NEW call, call = o.stack[1], WholeEntry(call)
    PROVE  /\ EntryPages(call) \subseteq Pages(o)
           /\ call.page \in EntryPages(call)
           /\ call.done + PageSize[call.level] <= call.size
<1>1. 1 \in 1 .. Len(o.stack)
  BY RemoveTypes
<1>2. /\ call.level \in 0 .. Levels /\ call.base \in Nat /\ call.page \in Nat
      /\ call.size \in Nat /\ call.done \in Nat /\ call.page = call.base + call.done
      /\ o.first <= call.base /\ call.base + call.size <= o.first + o.size
  BY <1>1, CallTypes
<1>3. PICK s \in Nat : s = PageSize[call.level] /\ s > 0
  BY <1>2, PageSizeTypes
<1>4. s <= call.size - call.done
  BY <1>2, <1>3 DEF WholeEntry, Portion, Least
<1>5. o.first \in Nat /\ o.size \in Nat
  BY RemoveTypes
<1> QED
  BY <1>2, <1>3, <1>4, <1>5 DEF EntryPages, Pages

LEMMA RemoveKept ==
    ASSUME NEW G, NEW H, NEW o, RemoveOK(G, o), TablesPersist(G, H), PagesKept(G, H, Pages(o))
    PROVE  RemoveOK(H, o)
<1>1. ASSUME NEW k \in 1 .. Len(o.stack)
      PROVE  CallOK(H, o.stack[k], o)
  <2>1. PICK call : call = o.stack[k]
    OBVIOUS
  <2>2. CallOK(G, call, o) /\ call.base \in Page
    BY <2>1, CallTypes
  <2>3. Upward(H, call.base, call.level)
    BY <2>2, UpwardPersists DEF CallOK
  <2>4. CallOK(H, call, o)
    BY <2>2, <2>3 DEF CallOK
  <2> QED
    BY <2>1, <2>4
<1>2. PICK call : call = o.stack[1]
  OBVIOUS
<1>3. 1 \in 1 .. Len(o.stack)
  BY RemoveTypes
<1>4. call.level \in Level /\ (call.done < call.size => call.page \in Pages(o))
  BY <1>2, <1>3, CallTypes
<1>5. \A p \in Pages(o) : p < call.page /\ p < call.base + call.size => Unmapped(H, p)
  BY <1>2, MappingsKept DEF RemoveOK
<1>6. o.step = "clear" => WholeEntry(call) /\ H[call.page][call.level].kind = "page"
  <2>1. SUFFICES ASSUME o.step = "clear"
                 PROVE  WholeEntry(call) /\ H[call.page][call.level].kind = "page"
    OBVIOUS
  <2>2. WholeEntry(call) /\ G[call.page][call.level].kind = "page"
    BY <1>2, <2>1 DEF RemoveOK
  <2>3. call.page \in Pages(o)
    BY <1>4, <2>2 DEF WholeEntry
  <2> QED
    BY <1>4, <2>2, <2>3 DEF PagesKept
<1>7. o.step = "flush" => WholeEntry(call) /\ \A p \in EntryPages(call) : Unmapped(H, p)
  <2>1. SUFFICES ASSUME o.step = "flush"
                 PROVE  WholeEntry(call) /\ \A p \in EntryPages(call) : Unmapped(H, p)
    OBVIOUS
  <2>2. WholeEntry(call) /\ \A p \in EntryPages(call) : Unmapped(G, p)
    BY <1>2, <2>1 DEF RemoveOK
  <2>3. EntryPages(call) \subseteq Pages(o)
    BY <1>2, <2>2, WholeInside
  <2> QED
    BY <2>2, <2>3, MappingsKept
<1> QED
  BY <1>1, <1>2, <1>5, <1>6, <1>7 DEF RemoveOK

LEMMA OpKinds ==
    ASSUME NEW G, NEW o, OpOK(G, o)
    PROVE  /\ o.kind \in {"returned", "add", "remove"}
           /\ o.kind = "returned" => o \in [kind : {"returned"}, ok : BOOLEAN]
           /\ o.kind = "add" => AddOK(G, o)
           /\ o.kind = "remove" => RemoveOK(G, o)
BY AddTypes, RemoveTypes DEF OpOK

\* What the entries of a step leave to the operation of another processor.
KeepsOther(G, H, o) ==
    /\ o.kind = "add" => \A p \in Pages(o) : H[p] = G[p]
    /\ o.kind = "remove" => PagesKept(G, H, Pages(o))

LEMMA OpKept ==
    ASSUME NEW G, NEW H, NEW o, OpOK(G, o), TablesPersist(G, H), KeepsOther(G, H, o)
    PROVE  OpOK(H, o)
<1>1. CASE o.kind = "returned"
  BY <1>1, OpKinds DEF OpOK
<1>2. CASE o.kind = "add"
  BY <1>2, OpKinds, AddKept DEF OpOK, KeepsOther
<1>3. CASE o.kind = "remove"
  BY <1>3, OpKinds, RemoveKept DEF OpOK, KeepsOther
<1> QED
  BY <1>1, <1>2, <1>3, OpKinds

LEMMA OpsApartSymmetric ==
    ASSUME NEW G, NEW o, NEW r, OpsApart(G, o, r)
    PROVE  OpsApart(G, r, o)
BY DEF OpsApart, AddsApart

\* An operation that goes on with the same request stays apart from others.
GoesOn(G, H, o, next) ==
    \/ next.kind = "returned"
    \/ /\ next.kind = o.kind /\ next.first = o.first /\ next.size = o.size
       /\ o.kind = "add" => \A p \in Pages(o), l \in Level : H[p][l] = Absent => G[p][l] = Absent

LEMMA ApartKept ==
    ASSUME NEW G, NEW H, NEW o, NEW next, NEW r,
           OpsApart(G, o, r), GoesOn(G, H, o, next), KeepsOther(G, H, r)
    PROVE  OpsApart(H, next, r)
<1>1. CASE next.kind = "returned"
  BY <1>1 DEF OpsApart
<1>2. CASE next.kind # "returned"
  <2>1. SUFFICES ASSUME r.kind # "returned"
                 PROVE  OpsApart(H, next, r)
    BY DEF OpsApart
  <2>2. next.kind = o.kind /\ Pages(next) = Pages(o)
    BY <1>2 DEF GoesOn, Pages
  <2>3. Pages(o) \cap Pages(r) = {}
    BY <1>2, <2>1, <2>2 DEF OpsApart
  <2>4. ASSUME o.kind = "add", r.kind = "add"
        PROVE  AddsApart(H, next, r)
    <3>1. AddsApart(G, o, r)
      BY <2>4 DEF OpsApart
    <3>2. \A p \in Pages(o), l \in Level : H[p][l] = Absent => G[p][l] = Absent
      BY <1>2, <2>4 DEF GoesOn
    <3>3. \A q \in Pages(r) : H[q] = G[q]
      BY <2>4 DEF KeepsOther
    <3> QED
      BY <2>2, <3>1, <3>2, <3>3 DEF AddsApart
  <2> QED
    BY <2>2, <2>3, <2>4 DEF OpsApart
<1> QED
  BY <1>1, <1>2

LEMMA OthersApart ==
    ASSUME NEW G, NEW H, NEW o, NEW r,
           OpsApart(G, o, r), KeepsOther(G, H, o), KeepsOther(G, H, r)
    PROVE  OpsApart(H, o, r)
<1>1. GoesOn(G, H, o, o)
  BY DEF GoesOn, KeepsOther
<1> QED
  BY <1>1, ApartKept

\* What the operations in progress may rely on is kept by a step of one of them.
LEMMA OpsKept ==
    ASSUME NEW G, NEW H, NEW O, NEW P, NEW c \in Cpu, OpsOK(G, O),
           \A d \in Cpu \ {c} : P[d] = O[d] /\ KeepsOther(G, H, O[d]),
           TablesPersist(G, H), OpOK(H, P[c]),
           \/ GoesOn(G, H, O[c], P[c])
           \/ \A d \in Cpu \ {c} : OpsApart(H, P[c], P[d])
    PROVE  OpsOK(H, P)
<1>1. ASSUME NEW d \in Cpu
      PROVE  OpOK(H, P[d])
  <2>1. CASE d = c
    BY <2>1
  <2>2. CASE d # c
    BY <2>2, OpKept DEF OpsOK
  <2> QED
    BY <2>1, <2>2
<1>2. ASSUME NEW d \in Cpu \ {c}
      PROVE  OpsApart(H, P[c], P[d])
  BY ApartKept DEF OpsOK
<1>3. ASSUME NEW d \in Cpu, NEW e \in Cpu, d # e
      PROVE  OpsApart(H, P[d], P[e])
  <2>1. CASE d = c
    BY <1>2, <1>3, <2>1
  <2>2. CASE e = c
    BY <1>2, <1>3, <2>2, OpsApartSymmetric
  <2>3. CASE d # c /\ e # c
    BY <1>3, <2>3, OthersApart DEF OpsOK
  <2> QED
    BY <2>1, <2>2, <2>3
<1> QED
  BY <1>1, <1>3 DEF OpsOK

-----------------------------------------------------------------------------
(* The effects of the three writes on the operations of others *)

LEMMA SameEntries ==
    ASSUME NEW G, NEW H, IsFlat(G), IsFlat(H), NEW p \in Page, \A l \in Level : H[p][l] = G[p][l]
    PROVE  H[p] = G[p]
<1>1. H[p] \in [Level -> AnyEntry] /\ G[p] \in [Level -> AnyEntry]
  BY DEF IsFlat
<1> QED
  BY <1>1

\* A table for an entry that was absent changes nothing for other adds.
LEMMA TableEffect ==
    ASSUME NEW G, NEW H, IsFlat(G), IsFlat(H), NEW page \in Page, NEW level \in Level, level > 0,
           NEW f, Changed(G, H, page, level, SubTable(f)), G[page][level] = Absent
    PROVE  /\ TablesPersist(G, H)
           /\ PagesKept(G, H, Page)
           /\ \A p \in Page, l \in Level : H[p][l] = Absent => G[p][l] = Absent
           /\ \A o, r : /\ OpOK(G, o) /\ OpsApart(G, o, r) /\ r.kind = "add" /\ page \in Pages(r)
                        => KeepsOther(G, H, o)
<1>1. ASSUME NEW p \in Page, NEW l \in Level
      PROVE  \/ H[p][l] = G[p][l]
             \/ /\ l = level /\ Number(p, level) = Number(page, level)
                /\ G[p][l] = Absent /\ H[p][l] = SubTable(f)
  BY DEF Changed, IsFlat
<1>2. SubTable(f).kind = "table" /\ Absent.kind = "absent" /\ SubTable(f) # Absent
  BY DEF SubTable, Absent
<1>3. TablesPersist(G, H)
  BY <1>1, <1>2 DEF TablesPersist
<1>4. PagesKept(G, H, Page)
  BY <1>1, <1>2 DEF PagesKept
<1>5. \A p \in Page, l \in Level : H[p][l] = Absent => G[p][l] = Absent
  BY <1>1, <1>2
<1>6. ASSUME NEW o, NEW r, OpOK(G, o), OpsApart(G, o, r), r.kind = "add", page \in Pages(r)
      PROVE  KeepsOther(G, H, o)
  <2>1. ASSUME o.kind = "add", NEW p \in Pages(o)
        PROVE  H[p] = G[p]
    <3>1. p \in Page
      BY <1>6, <2>1, OpKinds, AddTypes
    <3>2. AddsApart(G, o, r)
      BY <1>6, <2>1 DEF OpsApart
    <3>3. level \in Level \ {0}
      BY ConstantsAre
    <3>4. ASSUME NEW l \in Level
          PROVE  H[p][l] = G[p][l]
      BY <1>1, <1>6, <2>1, <3>1, <3>2, <3>3 DEF AddsApart
    <3> QED
      BY <3>1, <3>4, SameEntries
  <2>2. ASSUME o.kind = "remove"
        PROVE  PagesKept(G, H, Pages(o))
    <3>1. Pages(o) \subseteq Page
      BY <1>6, <2>2, OpKinds, RemoveTypes
    <3> QED
      BY <1>4, <3>1 DEF PagesKept
  <2> QED
    BY <2>1, <2>2 DEF KeepsOther
<1> QED
  BY <1>3, <1>4, <1>5, <1>6

\* An entry all of whose pages belong to an operation is its own matter.
LEMMA OwnEffect ==
    ASSUME NEW G, NEW H, IsFlat(G), IsFlat(H), NEW page \in Page, NEW level \in Level,
           NEW e, Changed(G, H, page, level, e), G[page][level].kind # "table",
           NEW r, r.kind # "returned",
           \A p \in Page : Number(p, level) = Number(page, level) => p \in Pages(r)
    PROVE  /\ TablesPersist(G, H)
           /\ \A p \in Page : p \notin Pages(r) => H[p] = G[p]
           /\ \A o : OpOK(G, o) /\ OpsApart(G, o, r) => KeepsOther(G, H, o)
<1>1. TablesPersist(G, H)
  BY DEF Changed, IsFlat, TablesPersist
<1>2. ASSUME NEW p \in Page, p \notin Pages(r)
      PROVE  H[p] = G[p]
  <2>1. \A l \in Level : H[p][l] = G[p][l]
    BY <1>2 DEF Changed
  <2> QED
    BY <2>1, SameEntries
<1>3. ASSUME NEW o, OpOK(G, o), OpsApart(G, o, r), o.kind # "returned"
      PROVE  \A p \in Pages(o) : H[p] = G[p]
  <2>1. Pages(o) \subseteq Page
    BY <1>3, OpKinds, AddTypes, RemoveTypes
  <2>2. Pages(o) \cap Pages(r) = {}
    BY <1>3 DEF OpsApart
  <2> QED
    BY <1>2, <2>1, <2>2
<1>4. ASSUME NEW o, OpOK(G, o), OpsApart(G, o, r)
      PROVE  KeepsOther(G, H, o)
  BY <1>3, <1>4 DEF KeepsOther, PagesKept
<1> QED
  BY <1>1, <1>2, <1>4

-----------------------------------------------------------------------------
(* The steps of an add *)

LEMMA TargetIs ==
    ASSUME NEW G, NEW o, AddOK(G, o), o.page < o.first + o.size
    PROVE  LET b == TargetLevel(o) IN
           /\ b \in Level
           /\ b # 0 => b \in LargeLevel
           /\ o.page % PageSize[b] = 0 /\ o.page + PageSize[b] <= o.first + o.size
           /\ \A k \in LargeLevel : k > b =>
                 ~ IsAligned(o.page, o.first + o.size - o.page, o.page + o.delta, k)
<1>1. PICK p \in Nat, n \in Nat, frame \in Int :
          /\ p = o.page /\ n = o.first + o.size - o.page /\ n > 0
          /\ p + n = o.first + o.size
          /\ frame = o.page + o.delta
  BY AddTypes
<1>2. PICK b : b = BestLevel(p, n, frame)
  OBVIOUS
<1>3. b = TargetLevel(o)
  BY <1>1, <1>2 DEF TargetLevel
<1>4. /\ b \in Level
      /\ b # 0 => b \in LargeLevel
      /\ p % PageSize[b] = 0 /\ PageSize[b] <= n
      /\ \A k \in LargeLevel : k > b => ~ IsAligned(p, n, frame, k)
  BY <1>1, <1>2, BestLevelIs
<1>5. PageSize[b] \in Nat
  BY <1>4, PageSizeTypes, ConstantsAre
<1>6. p + PageSize[b] <= p + n
  BY <1>4, <1>5
<1> QED
  BY <1>1, <1>3, <1>4, <1>6

\* The parts of AddOK that say what the entries are.
AddEntries(G, o) ==
    /\ o.page < o.first + o.size => o.level >= TargetLevel(o) /\ Upward(G, o.page, o.level)
    /\ o.absent => /\ o.page < o.first + o.size
                   /\ o.level > TargetLevel(o)
                   /\ G[o.page][o.level] = Absent
    /\ \A p \in Pages(o) :
          IF p < o.page THEN MapsTo(G, p, p + o.delta)
          ELSE /\ Unmapped(G, p)
               /\ \A l \in LargeLevel : G[p][l].kind = "table" =>
                     BestLevel(p, o.first + o.size - p, p + o.delta) < l

LEMMA AddParts ==
    ASSUME NEW G, NEW o
    PROVE  AddOK(G, o) <=> /\ o \in AddRequest /\ RequestFits(o)
                           /\ o.first <= o.page /\ o.page <= o.first + o.size
                           /\ AddEntries(G, o)
BY DEF AddOK, AddEntries

\* An add with another place, for the same request.
Moved(o, next, page, level, absent) ==
    /\ next \in AddRequest /\ RequestFits(next)
    /\ next.first <= next.page /\ next.page <= next.first + next.size
    /\ next.kind = o.kind /\ next.first = o.first /\ next.size = o.size /\ next.delta = o.delta
    /\ next.page = page /\ next.level = level /\ next.absent = absent
    /\ Pages(next) = Pages(o)
    /\ page = o.page => TargetLevel(next) = TargetLevel(o)

LEMMA AddMoves ==
    ASSUME NEW G, NEW o, AddOK(G, o),
           NEW page \in Nat, NEW level \in Level, NEW absent \in BOOLEAN,
           o.first <= page, page <= o.first + o.size,
           NEW next, next = [o EXCEPT !.page = page, !.level = level, !.absent = absent]
    PROVE  Moved(o, next, page, level, absent)
<1>1. o \in AddRequest /\ RequestFits(o)
  BY DEF AddOK
<1>2. next \in AddRequest
  BY <1>1 DEF AddRequest
<1>3. /\ next.kind = o.kind /\ next.first = o.first /\ next.size = o.size /\ next.delta = o.delta
      /\ next.page = page /\ next.level = level /\ next.absent = absent
  BY <1>1 DEF AddRequest
<1>4. RequestFits(next) /\ Pages(next) = Pages(o)
  BY <1>1, <1>3 DEF RequestFits, Pages
<1>5. page = o.page => TargetLevel(next) = TargetLevel(o)
  BY <1>3 DEF TargetLevel
<1> QED
  BY <1>2, <1>3, <1>4, <1>5 DEF Moved

LEMMA AddUpdate ==
    ASSUME NEW o \in AddRequest
    PROVE  /\ [o EXCEPT !.absent = TRUE]
                  = [o EXCEPT !.page = o.page, !.level = o.level, !.absent = TRUE]
           /\ [o EXCEPT !.level = @ - 1]
                  = [o EXCEPT !.page = o.page, !.level = o.level - 1, !.absent = o.absent]
           /\ [o EXCEPT !.absent = FALSE, !.level = @ - 1]
                  = [o EXCEPT !.page = o.page, !.level = o.level - 1, !.absent = FALSE]
           /\ [o EXCEPT !.page = @ + PageSize[TargetLevel(o)], !.level = Levels - 1]
                  = [o EXCEPT !.page = o.page + PageSize[TargetLevel(o)], !.level = Levels - 1,
                              !.absent = o.absent]
BY DEF AddRequest

LEMMA DescendKeeps ==
    ASSUME NEW G, IsFlat(G), NEW o, AddOK(G, o), ~ o.absent, o.page < o.first + o.size,
           o.level > TargetLevel(o),
           NEW next, next = IF G[o.page][o.level].kind = "absent" THEN [o EXCEPT !.absent = TRUE]
                            ELSE [o EXCEPT !.level = @ - 1]
    PROVE  AddOK(G, next) /\ next.kind = o.kind /\ next.first = o.first /\ next.size = o.size
<1>1. /\ o.page \in Page /\ o.page \in Nat /\ o.page \in Pages(o) /\ o.level \in Level
      /\ o.first <= o.page /\ o.page <= o.first + o.size /\ o \in AddRequest
  BY AddTypes DEF AddOK
<1>2. TargetLevel(o) \in Level
  BY TargetIs
<1>3. G[o.page][o.level] \in AnyEntry
  BY <1>1 DEF IsFlat
<1>4. AddEntries(G, o)
  BY AddParts
<1>5. CASE G[o.page][o.level].kind = "absent"
  <2>1. PICK absent \in BOOLEAN :
              absent = TRUE /\ next = [o EXCEPT !.page = o.page, !.level = o.level, !.absent = absent]
    BY <1>1, <1>5, AddUpdate
  <2>2. Moved(o, next, o.page, o.level, absent)
    BY <1>1, <2>1, AddMoves
  <2>3. G[o.page][o.level] = Absent
    BY <1>3, <1>5 DEF AnyEntry
  <2>4. AddEntries(G, next)
    BY <1>4, <2>1, <2>2, <2>3 DEF AddEntries, Moved
  <2> QED
    BY <2>2, <2>4, AddParts DEF Moved
<1>6. CASE G[o.page][o.level].kind # "absent"
  <2>1. o.level - 1 \in Level /\ o.level - 1 >= TargetLevel(o)
    BY <1>1, <1>2, ConstantsAre
  <2>2. PICK absent \in BOOLEAN :
              absent = FALSE /\ next = [o EXCEPT !.page = o.page, !.level = o.level - 1, !.absent = absent]
    <3>1. o.absent = FALSE
      BY <1>1 DEF AddRequest
    <3> QED
      BY <1>1, <1>6, <3>1, AddUpdate
  <2>3. Moved(o, next, o.page, o.level - 1, absent)
    BY <1>1, <2>1, <2>2, AddMoves
  <2>4. G[o.page][o.level].kind = "table"
    <3>1. Unmapped(G, o.page)
      BY <1>1, <1>4 DEF AddEntries
    <3> QED
      BY <1>1, <1>3, <1>6, <3>1 DEF Unmapped, AnyEntry, Absent
  <2>5. Upward(G, o.page, o.level - 1)
    <3>1. Upward(G, o.page, o.level)
      BY <1>4 DEF AddEntries
    <3> QED
      BY <1>1, <2>4, <3>1, ConstantsAre DEF Upward
  <2>6. AddEntries(G, next)
    BY <1>4, <2>1, <2>2, <2>3, <2>5 DEF AddEntries, Moved
  <2> QED
    BY <2>3, <2>6, AddParts DEF Moved
<1> QED
  BY <1>5, <1>6

\* Only the first page of an entry can be mapped at its level or above.
LEMMA InnerPage ==
    ASSUME NEW page \in Nat, NEW p \in Nat, page < p, NEW l \in Level, Number(p, l) = Number(page, l),
           NEW left \in Nat, left > 0, NEW frame
    PROVE  BestLevel(p, left, frame) < l
<1>1. l \in 0 .. Levels /\ l \in Int
  BY ConstantsAre
<1>2. PICK s \in Nat : s = PageSize[l]
  BY <1>1, PageSizeTypes
<1>3. p % PageSize[l] # 0
  <2>1. CASE p % PageSize[l] = 0
    <3>1. page \in p .. p + s - 1
      BY <1>1, <1>2, <2>1, EntryPagesAre
    <3> QED
      BY <3>1
  <2> QED
    BY <2>1
<1>4. PICK b : b = BestLevel(p, left, frame)
  OBVIOUS
<1>5. b \in Level /\ p % PageSize[b] = 0
  BY <1>4, BestLevelIs
<1>6. b \in 0 .. Levels /\ b \in Int
  BY <1>5, ConstantsAre
<1>7. ~(l <= b)
  BY <1>1, <1>3, <1>5, <1>6, AlignedBelow
<1> QED
  BY <1>1, <1>4, <1>6, <1>7

SubTableAdded(o) == [o EXCEPT !.absent = FALSE, !.level = @ - 1]

LEMMA AddSubTableKeeps ==
    ASSUME NEW G, NEW H, IsFlat(G), IsFlat(H), NEW o, AddOK(G, o), o.absent,
           NEW f, Changed(G, H, o.page, o.level, SubTable(f)),
           NEW next, next = SubTableAdded(o)
    PROVE  /\ AddOK(H, next) /\ next.kind = o.kind /\ next.first = o.first /\ next.size = o.size
           /\ o.level > 0 /\ o.page \in Page /\ o.page \in Pages(o)
           /\ G[o.page][o.level] = Absent
<1>1. AddEntries(G, o)
  BY AddParts
<1>2. o.page < o.first + o.size /\ o.level > TargetLevel(o) /\ G[o.page][o.level] = Absent
  BY <1>1 DEF AddEntries
<1>3. /\ o.page \in Page /\ o.page \in Nat /\ o.page \in Pages(o) /\ o.level \in Level
      /\ o.first \in Nat /\ o.size \in Nat /\ Pages(o) \subseteq Page
      /\ o.first <= o.page /\ o.page <= o.first + o.size /\ o \in AddRequest
  BY <1>2, AddTypes DEF AddOK
<1>4. TargetLevel(o) \in Level
  BY <1>2, TargetIs
<1>5. o.level > 0 /\ o.level - 1 \in Level /\ o.level - 1 >= TargetLevel(o)
  BY <1>2, <1>3, <1>4, ConstantsAre
<1>6. TablesPersist(G, H) /\ PagesKept(G, H, Page)
  BY <1>2, <1>3, <1>5, TableEffect
<1>7. PICK absent \in BOOLEAN :
          absent = FALSE /\ next = [o EXCEPT !.page = o.page, !.level = o.level - 1, !.absent = absent]
  BY <1>3, AddUpdate DEF SubTableAdded
<1>8. Moved(o, next, o.page, o.level - 1, absent)
  BY <1>3, <1>5, <1>7, AddMoves
<1>9. Upward(H, o.page, o.level - 1)
  <2>1. Upward(H, o.page, o.level)
    BY <1>1, <1>2, <1>3, <1>6, UpwardPersists DEF AddEntries
  <2>2. H[o.page][o.level].kind = "table"
    BY <1>3 DEF Changed, SubTable
  <2> QED
    BY <1>3, <2>1, <2>2, ConstantsAre DEF Upward
<1>10. ASSUME NEW p \in Pages(o), p < o.page
       PROVE  MapsTo(H, p, p + o.delta)
  BY <1>1, <1>3, <1>6, <1>10, MappingsKept DEF AddEntries
<1>11. ASSUME NEW p \in Pages(o), ~(p < o.page)
       PROVE  Unmapped(H, p)
  BY <1>1, <1>3, <1>6, <1>11, MappingsKept DEF AddEntries
<1>12. ASSUME NEW p \in Pages(o), ~(p < o.page), NEW l \in LargeLevel, H[p][l].kind = "table"
       PROVE  BestLevel(p, o.first + o.size - p, p + o.delta) < l
  <2>1. l \in Level
    BY ConstantsAre
  <2>2. CASE G[p][l].kind = "table"
    BY <1>1, <1>12, <2>2 DEF AddEntries
  <2>3. CASE l = o.level /\ Number(p, l) = Number(o.page, l)
    <3>1. CASE p = o.page
      BY <1>2, <2>3, <3>1 DEF TargetLevel
    <3>2. CASE p # o.page
      <4>1. PICK page \in Nat, left \in Nat : page = o.page /\ left = o.first + o.size - p /\ left > 0
        BY <1>3 DEF Pages
      <4>2. p \in Nat /\ page < p
        BY <1>3, <1>12, <3>2, <4>1 DEF Pages
      <4> QED
        BY <2>1, <2>3, <4>1, <4>2, InnerPage
    <3> QED
      BY <3>1, <3>2
  <2>4. \/ G[p][l].kind = "table"
        \/ l = o.level /\ Number(p, l) = Number(o.page, l)
    BY <1>3, <1>12, <2>1 DEF Changed
  <2> QED
    BY <2>2, <2>3, <2>4
<1>13. AddEntries(H, next)
  <2>1. \A p \in Pages(o) :
            IF p < o.page THEN MapsTo(H, p, p + o.delta)
            ELSE /\ Unmapped(H, p)
                 /\ \A l \in LargeLevel : H[p][l].kind = "table" =>
                       BestLevel(p, o.first + o.size - p, p + o.delta) < l
    BY <1>10, <1>11, <1>12
  <2> QED
    BY <1>5, <1>7, <1>8, <1>9, <2>1 DEF AddEntries, Moved
<1> QED
  BY <1>2, <1>3, <1>5, <1>8, <1>13, AddParts DEF Moved

\* The page is mapped over an absent entry, all of whose pages are asked for.
LEMMA TargetEntry ==
    ASSUME NEW G, IsFlat(G), NEW o, AddOK(G, o), o.page < o.first + o.size, o.level = TargetLevel(o)
    PROVE  /\ o.page \in Page /\ o.level \in Level /\ Upward(G, o.page, o.level)
           /\ G[o.page][o.level] = Absent
           /\ \A p \in Page : Number(p, o.level) = Number(o.page, o.level)
                 <=> p \in o.page .. o.page + PageSize[o.level] - 1
           /\ \A p \in o.page .. o.page + PageSize[o.level] - 1 :
                 p \in Pages(o) /\ p % PageSize[o.level] = p - o.page
<1>1. AddEntries(G, o)
  BY AddParts
<1>2. /\ o.page \in Page /\ o.page \in Nat /\ o.page \in Pages(o) /\ o.level \in Level
      /\ o.first \in Nat /\ o.size \in Nat /\ Pages(o) \subseteq Page /\ o.first <= o.page
  BY AddTypes
<1>3. PICK b \in Level, page \in Nat : b = TargetLevel(o) /\ b = o.level /\ page = o.page
  BY <1>2
<1>4. /\ b \in Level /\ (b # 0 => b \in LargeLevel)
      /\ page % PageSize[b] = 0 /\ page + PageSize[b] <= o.first + o.size
  BY <1>3, TargetIs
<1>5. b \in 0 .. Levels
  BY <1>4, ConstantsAre
<1>6. PICK s \in Nat : s = PageSize[b]
  BY <1>5, PageSizeTypes
<1>7. G[page][b] = Absent
  <2>1. G[page][b] \in AnyEntry /\ G[page][0].kind # "table"
    BY <1>2, <1>3, <1>4 DEF IsFlat
  <2>2. G[page][b].kind # "page"
    BY <1>1, <1>2, <1>3, <1>4 DEF AddEntries, Unmapped
  <2>3. ASSUME b \in LargeLevel
        PROVE  G[page][b].kind # "table"
    <3>1. ASSUME G[page][b].kind = "table"
          PROVE  b < b
      <4>1. ~(page < o.page)
        BY <1>3
      <4>2. BestLevel(page, o.first + o.size - page, page + o.delta) < b
        BY <1>1, <1>2, <1>3, <2>3, <3>1, <4>1 DEF AddEntries
      <4> QED
        BY <1>3, <4>2 DEF TargetLevel
    <3> QED
      BY <1>5, <3>1
  <2> QED
    BY <1>4, <2>1, <2>2, <2>3 DEF AnyEntry
<1>8. \A p \in Page : Number(p, b) = Number(page, b) <=> p \in page .. page + s - 1
  <2>1. \A p \in Page : p \in Nat
    BY NumberTop
  <2> QED
    BY <1>4, <1>5, <1>6, <2>1, EntryPagesAre
<1>9. \A p \in page .. page + s - 1 : p \in Pages(o) /\ p % PageSize[b] = p - page
  <2>1. SUFFICES ASSUME NEW p \in page .. page + s - 1
                 PROVE  p \in Pages(o) /\ p % PageSize[b] = p - page
    OBVIOUS
  <2>2. p \in Nat
    OBVIOUS
  <2>3. p \in Pages(o)
    BY <1>2, <1>3, <1>4, <1>6 DEF Pages
  <2>4. p % PageSize[b] = p - page
    BY <1>4, <1>5, <1>6, <2>2, EntryPagesAre
  <2> QED
    BY <2>3, <2>4
<1> QED
  BY <1>1, <1>2, <1>3, <1>6, <1>7, <1>8, <1>9 DEF AddEntries

MappingWritten(o) == [o EXCEPT !.page = @ + PageSize[TargetLevel(o)], !.level = Levels - 1]

LEMMA WriteMappingKeeps ==
    ASSUME NEW G, NEW H, IsFlat(G), IsFlat(H), NEW o, AddOK(G, o), ~ o.absent,
           o.page < o.first + o.size, o.level = TargetLevel(o),
           Changed(G, H, o.page, o.level, PageAt(o.page + o.delta)),
           NEW next, next = MappingWritten(o)
    PROVE  /\ AddOK(H, next) /\ next.kind = o.kind /\ next.first = o.first /\ next.size = o.size
           /\ \A p \in Page, l \in Level :
                 \/ H[p][l] = G[p][l]
                 \/ G[p][l] = Absent /\ H[p][l].kind = "page" /\ p \in Pages(o) /\ MapsTo(H, p, p + o.delta)
<1>1. AddEntries(G, o)
  BY AddParts
<1>2. /\ o.page \in Page /\ o.page \in Nat /\ o.page \in Pages(o) /\ o.level \in Level
      /\ o.first \in Nat /\ o.size \in Nat /\ Pages(o) \subseteq Page
      /\ o.first <= o.page /\ o.page <= o.first + o.size /\ o \in AddRequest /\ o.delta \in Int
  BY ZenonT(30), AddTypes DEF AddOK
<1>3. PICK b \in Level, page \in Nat : b = TargetLevel(o) /\ b = o.level /\ page = o.page
  BY <1>2
<1>4. PICK s \in Nat : s = PageSize[b] /\ s > 0
  BY PageSizeTypes, ConstantsAre
<1>5. /\ G[page][b] = Absent
      /\ \A p \in Page : Number(p, b) = Number(page, b) <=> p \in page .. page + s - 1
      /\ \A p \in page .. page + s - 1 : p \in Pages(o) /\ p % PageSize[b] = p - page
  BY <1>3, <1>4, TargetEntry
<1>6. page + s <= o.first + o.size
  BY <1>3, <1>4, TargetIs
<1>7. \A p \in Page, l \in Level :
          H[p][l] = IF l = b /\ p \in page .. page + s - 1 THEN PageAt(page + o.delta) ELSE G[p][l]
  BY <1>3, <1>5 DEF Changed
<1>8. \A p \in Page : p \in page .. page + s - 1 => G[p][b] = Absent
  <2>1. SUFFICES ASSUME NEW p \in Page, p \in page .. page + s - 1
                 PROVE  G[p][b] = Absent
    OBVIOUS
  <2>2. Number(p, b) = Number(page, b)
    BY <1>5, <2>1
  <2> QED
    BY <1>2, <1>3, <1>5, <2>2 DEF IsFlat
<1>9. ASSUME NEW p \in page .. page + s - 1
      PROVE  p \in Page /\ MapsTo(H, p, p + o.delta)
  <2>1. p \in Page
    BY <1>2, <1>5
  <2>2. H[p][b] = PageAt(page + o.delta)
    BY <1>7, <2>1
  <2>3. p % PageSize[b] = p - page
    BY <1>5
  <2>4. p + o.delta = page + o.delta + (p - page)
    BY <1>2
  <2> QED
    BY <2>1, <2>2, <2>3, <2>4 DEF MapsTo, PageAt
<1>10. ASSUME NEW p \in Page, p \notin page .. page + s - 1
       PROVE  H[p] = G[p]
  <2>1. \A l \in Level : H[p][l] = G[p][l]
    BY <1>7, <1>10
  <2> QED
    BY <2>1, SameEntries
<1>11. PICK absent \in BOOLEAN :
          absent = FALSE /\ next = [o EXCEPT !.page = page + s, !.level = Levels - 1, !.absent = absent]
  <2>1. o.absent = FALSE
    BY <1>2 DEF AddRequest
  <2> QED
    BY <1>2, <1>3, <1>4, <2>1, AddUpdate DEF MappingWritten
<1>12. Moved(o, next, page + s, Levels - 1, absent)
  <2>1. Levels - 1 \in Level /\ page + s \in Nat /\ o.first <= page + s
    BY <1>2, <1>3, ConstantsAre
  <2> QED
    BY <1>6, <1>11, <2>1, AddMoves
<1>13. ASSUME NEW p \in Pages(o)
       PROVE  IF p < page + s THEN MapsTo(H, p, p + o.delta)
              ELSE /\ Unmapped(H, p)
                   /\ \A l \in LargeLevel : H[p][l].kind = "table" =>
                         BestLevel(p, o.first + o.size - p, p + o.delta) < l
  <2>1. p \in Nat /\ p \in Page
    BY <1>2 DEF Pages
  <2>2. CASE p \in page .. page + s - 1
    BY <1>9, <2>1, <2>2
  <2>3. CASE p \notin page .. page + s - 1
    <3>1. H[p] = G[p]
      BY <1>10, <2>1, <2>3
    <3>2. IF p < page THEN MapsTo(G, p, p + o.delta)
          ELSE /\ Unmapped(G, p)
               /\ \A l \in LargeLevel : G[p][l].kind = "table" =>
                     BestLevel(p, o.first + o.size - p, p + o.delta) < l
      BY <1>1, <1>3 DEF AddEntries
    <3>3. p < page + s <=> p < page
      BY <2>1, <2>3
    <3> QED
      BY <3>1, <3>2, <3>3 DEF MapsTo, Unmapped
  <2> QED
    BY <2>2, <2>3
<1>14. TargetLevel(next) \in Level \/ ~(next.page < next.first + next.size)
  <2>1. ASSUME next.page < next.first + next.size
        PROVE  TargetLevel(next) \in Level
    <3>1. PICK q \in Nat, left \in Nat :
              q = next.page /\ left = next.first + next.size - next.page /\ left > 0
      BY <1>2, <1>12, <2>1, <1>3 DEF Moved
    <3> QED
      BY <3>1, BestLevelIs DEF TargetLevel
  <2> QED
    BY <2>1
<1>15. AddEntries(H, next)
  <2>1. Upward(H, next.page, Levels - 1)
    BY ConstantsAre DEF Upward
  <2>2. next.page < next.first + next.size => Levels - 1 >= TargetLevel(next)
    BY <1>14, ConstantsAre
  <2> QED
    BY <1>11, <1>12, <1>13, <2>1, <2>2 DEF AddEntries, Moved
<1>16. AddOK(H, next) /\ next.kind = o.kind /\ next.first = o.first /\ next.size = o.size
  BY <1>12, <1>15, AddParts DEF Moved
<1>17. \A p \in Page, l \in Level :
           \/ H[p][l] = G[p][l]
           \/ G[p][l] = Absent /\ H[p][l].kind = "page" /\ p \in Pages(o) /\ MapsTo(H, p, p + o.delta)
  BY <1>5, <1>7, <1>8, <1>9 DEF PageAt
<1> QED
  BY <1>16, <1>17

LEMMA BeginAddKeeps ==
    ASSUME NEW G, NEW first \in Page, NEW size \in Nat, size > 0, NEW delta \in Delta,
           NEW o, o = [kind |-> "add", first |-> first, size |-> size, delta |-> delta,
                       page |-> first, level |-> Levels - 1, absent |-> FALSE],
           first + size <= PageSize[Levels],
           \A p \in Pages(o) : Unmapped(G, p),
           \A p \in Pages(o), l \in LargeLevel : G[p][l].kind = "table" =>
               BestLevel(p, first + size - p, p + delta) < l
    PROVE  AddOK(G, o)
<1>1. first \in Nat /\ Levels - 1 \in Level
  BY NumberTop, ConstantsAre
<1>2. o \in AddRequest /\ RequestFits(o)
  BY <1>1 DEF AddRequest, RequestFits
<1>3. o.first <= o.page /\ o.page <= o.first + o.size
  BY <1>1
<1>4. TargetLevel(o) \in Level
  <2>1. PICK left \in Nat : left = o.first + o.size - o.page /\ left > 0
    BY <1>1
  <2> QED
    BY <1>1, <2>1, BestLevelIs DEF TargetLevel
<1>5. Levels - 1 >= TargetLevel(o) /\ Upward(G, o.page, Levels - 1)
  BY <1>4, ConstantsAre DEF Upward
<1>6. \A p \in Pages(o) : ~(p < o.page)
  BY <1>1 DEF Pages
<1>7. AddEntries(G, o)
  BY <1>5, <1>6 DEF AddEntries
<1> QED
  BY <1>2, <1>3, <1>7, AddParts

-----------------------------------------------------------------------------
(* The steps of a remove *)

\* Where a request keeps inside entries, a portion is below one entry ...
LEMMA PortionInside ==
    ASSUME NEW page \in Nat, NEW n \in Nat, NEW level \in Level, KeepsInside(page, n, level),
           NEW q \in Nat, q \in page .. page + Least(PageSize[level], n) - 1
    PROVE  Number(q, level) = Number(page, level)
<1>1. level \in 0 .. Levels /\ level <= level
  BY ConstantsAre
<1>2. PICK s \in Nat : s = PageSize[level]
  BY <1>1, PageSizeTypes
<1>3. q \in page .. page + s - 1 /\ q \in page .. page + n - 1
  BY <1>2 DEF Least
<1>4. CASE page % PageSize[level] = 0
  BY <1>1, <1>2, <1>3, <1>4, EntryPagesAre
<1>5. CASE (page % PageSize[level]) + n <= PageSize[level]
  BY <1>1, <1>3, <1>5, InsideEntry
<1> QED
  BY <1>1, <1>4, <1>5 DEF KeepsInside

\* ... and the next portion, if there is one, begins at a boundary.
LEMMA NextInside ==
    ASSUME NEW page \in Nat, NEW n \in Nat, NEW level \in Level, KeepsInside(page, n, level),
           PageSize[level] <= n
    PROVE  /\ page % PageSize[level] = 0
           /\ \A m : KeepsInside(page + PageSize[level], m, level)
<1>1. level \in 0 .. Levels /\ level <= level /\ level \in Int
  BY ConstantsAre
<1>2. PICK s \in Nat, r \in Nat : s = PageSize[level] /\ r = page % PageSize[level] /\ s > 0
  BY <1>1, PageSizeTypes, NumberTypes
<1>3. r = 0
  <2>1. r = 0 \/ r + n <= s
    BY <1>1, <1>2 DEF KeepsInside
  <2> QED
    BY <1>2, <2>1
<1>4. ASSUME NEW l \in Level, l <= level
      PROVE  (page + PageSize[level]) % PageSize[l] = 0
  BY <1>1, <1>2, <1>3, <1>4, ConstantsAre, NextAligned
<1> QED
  BY <1>2, <1>3, <1>4 DEF KeepsInside

LEMMA AbsentBelow ==
    ASSUME NEW G, IsFlat(G), NEW p \in Page, NEW l \in Level, G[p][l].kind # "table",
           NEW k \in Level, k < l
    PROVE  G[p][k] = Absent
BY DEF IsFlat, Upward

LEMMA SameUpward ==
    ASSUME NEW G, IsFlat(G), NEW p \in Page, NEW q \in Page, NEW l \in Level,
           Number(p, l + 1) = Number(q, l + 1), Upward(G, p, l)
    PROVE  Upward(G, q, l)
<1>1. SUFFICES ASSUME NEW j \in Level, j > l
               PROVE  G[q][j].kind = "table"
  BY DEF Upward
<1>2. l + 1 \in 0 .. Levels /\ j \in 0 .. Levels /\ l + 1 <= j
  BY <1>1, ConstantsAre
<1>3. Number(p, j) = Number(q, j)
  BY <1>2, NumberTop, SameAbove
<1> QED
  BY <1>1, <1>3 DEF IsFlat, Upward

\* The part of RemoveOK about the calls.
StackOK(G, stack, o) ==
    /\ stack \in Seq(CallRecord) /\ Len(stack) > 0
    /\ \A k \in 1 .. Len(stack) : CallOK(G, stack[k], o)
    /\ \A k \in 1 .. Len(stack) - 1 : CalledBy(stack[k], stack[k + 1])
    /\ LET bottom == stack[Len(stack)] IN
          bottom.level = Levels - 1 /\ bottom.base = o.first /\ bottom.size = o.size

\* ... and about what the last of them has done.
TopOK(G, call, step, o) ==
    /\ \A p \in Pages(o) : p < call.page /\ p < call.base + call.size => Unmapped(G, p)
    /\ step = "clear" => WholeEntry(call) /\ G[call.page][call.level].kind = "page"
    /\ step = "flush" => WholeEntry(call) /\ \A p \in EntryPages(call) : Unmapped(G, p)

LEMMA RemoveParts ==
    ASSUME NEW G, NEW o
    PROVE  RemoveOK(G, o) <=> /\ o \in RemoveRequest /\ RequestFits(o)
                              /\ StackOK(G, o.stack, o)
                              /\ TopOK(G, o.stack[1], o.step, o)
<1>1. RemoveOK(G, o) => /\ o \in RemoveRequest /\ RequestFits(o)
                        /\ StackOK(G, o.stack, o)
                        /\ TopOK(G, o.stack[1], o.step, o)
  <2>1. SUFFICES ASSUME RemoveOK(G, o)
                 PROVE  /\ o \in RemoveRequest /\ RequestFits(o)
                        /\ StackOK(G, o.stack, o)
                        /\ TopOK(G, o.stack[1], o.step, o)
    OBVIOUS
  <2>2. o.stack \in Seq(CallRecord)
    BY <2>1, RemoveTypes
  <2>3. StackOK(G, o.stack, o)
    BY <2>1, <2>2 DEF RemoveOK, StackOK
  <2>4. TopOK(G, o.stack[1], o.step, o)
    BY <2>1 DEF RemoveOK, TopOK
  <2> QED
    BY <2>1, <2>3, <2>4 DEF RemoveOK
<1>2. ASSUME o \in RemoveRequest, RequestFits(o), StackOK(G, o.stack, o), TopOK(G, o.stack[1], o.step, o)
      PROVE  RemoveOK(G, o)
  BY <1>2 DEF RemoveOK, StackOK, TopOK
<1> QED
  BY <1>1, <1>2

LEMMA AdvancedIs ==
    ASSUME NEW call \in CallRecord
    PROVE  /\ Advanced(call) \in CallRecord
           /\ Advanced(call).level = call.level /\ Advanced(call).base = call.base
           /\ Advanced(call).size = call.size
           /\ Advanced(call).page = call.page + PageSize[call.level]
           /\ Advanced(call).done = call.done + PageSize[call.level]
<1>1. call.level \in Level /\ call.page \in Nat /\ call.done \in Nat
  BY DEF CallRecord
<1>2. PageSize[call.level] \in Nat
  BY <1>1, PageSizeTypes, ConstantsAre
<1>3. call.page + PageSize[call.level] \in Nat /\ call.done + PageSize[call.level] \in Nat
  BY <1>1, <1>2
<1> QED
  BY <1>3 DEF Advanced, CallRecord

LEMMA CallAdvances ==
    ASSUME NEW G, NEW call \in CallRecord, NEW o, CallOK(G, call, o), call.done < call.size
    PROVE  CallOK(G, Advanced(call), o)
<1>1. PICK next : next = Advanced(call)
  OBVIOUS
<1>2. /\ next.level = call.level /\ next.base = call.base /\ next.size = call.size
      /\ next.page = call.page + PageSize[call.level]
      /\ next.done = call.done + PageSize[call.level]
  BY <1>1, AdvancedIs
<1>3. PICK level \in Level, base \in Nat, page \in Nat, size \in Nat, done \in Nat :
          /\ level = call.level /\ base = call.base /\ page = call.page /\ size = call.size
          /\ done = call.done /\ done < size /\ page = base + done
  BY DEF CallRecord, CallOK
<1>4. PICK s \in Nat : s = PageSize[level]
  BY PageSizeTypes, ConstantsAre
<1>5. next.page = next.base + next.done
  BY <1>2, <1>3, <1>4
<1>6. ASSUME next.done < next.size
      PROVE  KeepsInside(next.page, next.size - next.done, next.level)
  <2>1. PICK n \in Nat : n = size - done /\ s <= n
    BY <1>2, <1>3, <1>4, <1>6
  <2>2. KeepsInside(page, n, level)
    BY <1>3, <2>1 DEF CallOK
  <2>3. \A m : KeepsInside(page + s, m, level)
    BY <1>4, <2>1, <2>2, NextInside
  <2> QED
    BY <1>2, <1>3, <1>4, <2>3
<1>7. CallOK(G, next, o)
  BY <1>2, <1>5, <1>6 DEF CallOK
<1> QED
  BY <1>1, <1>7

LEMMA StackAdvances ==
    ASSUME NEW G, NEW stack, NEW o, StackOK(G, stack, o), stack[1].done < stack[1].size
    PROVE  StackOK(G, AdvancedTop(stack), o) /\ AdvancedTop(stack)[1] = Advanced(stack[1])
<1>1. stack \in Seq(CallRecord) /\ Len(stack) > 0 /\ Len(stack) \in Nat
  BY DEF StackOK
<1>2. stack[1] \in CallRecord /\ Head(stack) = stack[1]
  BY <1>1
<1>3. PICK x \in CallRecord : x = Advanced(stack[1])
  BY <1>2, AdvancedIs
<1>4. PICK next : next = <<x>> \o Tail(stack)
  OBVIOUS
<1>5. next = AdvancedTop(stack)
  BY <1>2, <1>3, <1>4 DEF AdvancedTop
<1>6. /\ next \in Seq(CallRecord) /\ Len(next) = Len(stack) /\ next[1] = x
      /\ \A k \in 2 .. Len(stack) : next[k] = stack[k]
  BY <1>1, <1>4
<1>7. x.level = stack[1].level /\ x.base = stack[1].base /\ x.size = stack[1].size
  BY <1>2, <1>3, AdvancedIs
<1>8. ASSUME NEW k \in 1 .. Len(next)
      PROVE  CallOK(G, next[k], o)
  <2>1. CASE k = 1
    <3>1. CallOK(G, stack[1], o)
      BY <1>1 DEF StackOK
    <3>2. CallOK(G, x, o)
      BY <1>2, <1>3, <3>1, CallAdvances
    <3> QED
      BY <1>6, <2>1, <3>2
  <2>2. CASE k # 1
    <3>1. k \in 2 .. Len(stack) /\ k \in 1 .. Len(stack)
      BY <1>1, <1>6, <1>8, <2>2
    <3> QED
      BY <1>6, <3>1 DEF StackOK
  <2> QED
    BY <2>1, <2>2
<1>9. ASSUME NEW k \in 1 .. Len(next) - 1
      PROVE  CalledBy(next[k], next[k + 1])
  <2>1. k \in 1 .. Len(stack) - 1 /\ k + 1 \in 2 .. Len(stack)
    BY <1>1, <1>6
  <2>2. CalledBy(stack[k], stack[k + 1]) /\ next[k + 1] = stack[k + 1]
    BY <1>6, <2>1 DEF StackOK
  <2>3. next[k].level = stack[k].level /\ next[k].base = stack[k].base /\ next[k].size = stack[k].size
    <3>1. CASE k = 1
      BY <1>6, <1>7, <3>1
    <3>2. CASE k # 1
      <4>1. k \in 2 .. Len(stack)
        BY <1>1, <2>1, <3>2
      <4> QED
        BY <1>6, <4>1
    <3> QED
      BY <3>1, <3>2
  <2> QED
    BY <2>2, <2>3 DEF CalledBy
<1>10. LET bottom == next[Len(next)] IN
          bottom.level = Levels - 1 /\ bottom.base = o.first /\ bottom.size = o.size
  <2>1. LET bottom == stack[Len(stack)] IN
          bottom.level = Levels - 1 /\ bottom.base = o.first /\ bottom.size = o.size
    BY DEF StackOK
  <2>2. CASE Len(stack) = 1
    BY <1>6, <1>7, <2>1, <2>2
  <2>3. CASE Len(stack) # 1
    <3>1. PICK n \in Nat : n = Len(stack) /\ n > 0 /\ n # 1
      BY <1>1, <2>3
    <3>2. n \in 2 .. n
      BY <3>1
    <3>3. next[n] = stack[n]
      BY <1>6, <3>1, <3>2
    <3> QED
      BY <1>6, <2>1, <3>1, <3>3
  <2> QED
    BY <2>2, <2>3
<1>11. StackOK(G, next, o)
  BY <1>1, <1>6, <1>8, <1>9, <1>10 DEF StackOK
<1> QED
  BY <1>3, <1>5, <1>6, <1>11

LEMMA StackPushed ==
    ASSUME NEW G, NEW stack, NEW o, StackOK(G, stack, o),
           NEW call \in CallRecord, CallOK(G, call, o), CalledBy(call, stack[1])
    PROVE  StackOK(G, <<call>> \o stack, o) /\ (<<call>> \o stack)[1] = call
<1>1. stack \in Seq(CallRecord) /\ Len(stack) > 0 /\ Len(stack) \in Nat
  BY DEF StackOK
<1>2. PICK next : next = <<call>> \o stack
  OBVIOUS
<1>3. /\ next \in Seq(CallRecord) /\ Len(next) = Len(stack) + 1 /\ next[1] = call
      /\ \A k \in 1 .. Len(stack) : next[k + 1] = stack[k]
  BY <1>1, <1>2
<1>4. ASSUME NEW k \in 1 .. Len(next)
      PROVE  CallOK(G, next[k], o)
  <2>1. CASE k = 1
    BY <1>3, <2>1
  <2>2. CASE k # 1
    <3>1. PICK j \in 1 .. Len(stack) : k = j + 1
      BY <1>1, <1>3, <1>4, <2>2
    <3> QED
      BY <1>3, <3>1 DEF StackOK
  <2> QED
    BY <2>1, <2>2
<1>5. ASSUME NEW k \in 1 .. Len(next) - 1
      PROVE  CalledBy(next[k], next[k + 1])
  <2>1. k \in 1 .. Len(stack)
    BY <1>1, <1>3
  <2>2. next[k + 1] = stack[k]
    BY <1>3, <2>1
  <2>3. CASE k = 1
    BY <1>3, <2>2, <2>3
  <2>4. CASE k # 1
    <3>1. PICK j \in 1 .. Len(stack) - 1 : k = j + 1
      BY <1>1, <2>1, <2>4
    <3>2. next[j + 1] = stack[j] /\ CalledBy(stack[j], stack[j + 1])
      BY <1>1, <1>3, <3>1 DEF StackOK
    <3> QED
      BY <2>2, <3>1, <3>2
  <2> QED
    BY <2>3, <2>4
<1>6. next[Len(next)] = stack[Len(stack)]
  <2>1. Len(stack) \in 1 .. Len(stack)
    BY <1>1
  <2> QED
    BY <1>3, <2>1
<1>7. StackOK(G, next, o)
  <2>1. LET bottom == stack[Len(stack)] IN
          bottom.level = Levels - 1 /\ bottom.base = o.first /\ bottom.size = o.size
    BY DEF StackOK
  <2>2. Len(next) > 0
    BY <1>1, <1>3
  <2> QED
    BY <1>3, <1>4, <1>5, <1>6, <2>1, <2>2 DEF StackOK
<1> QED
  BY <1>2, <1>3, <1>7

LEMMA StackPopped ==
    ASSUME NEW G, NEW stack, NEW o, StackOK(G, stack, o), Tail(stack) # <<>>
    PROVE  StackOK(G, Tail(stack), o) /\ Tail(stack)[1] = stack[2] /\ CalledBy(stack[1], stack[2])
<1>1. stack \in Seq(CallRecord) /\ Len(stack) > 0 /\ Len(stack) \in Nat
  BY DEF StackOK
<1>2. PICK next : next = Tail(stack)
  OBVIOUS
<1>3. /\ next \in Seq(CallRecord) /\ Len(next) = Len(stack) - 1 /\ Len(next) > 0
      /\ \A k \in 1 .. Len(next) : next[k] = stack[k + 1]
  BY <1>1, <1>2
<1>4. \A k \in 1 .. Len(next) : k + 1 \in 1 .. Len(stack)
  BY <1>1, <1>3
<1>5. \A k \in 1 .. Len(next) : CallOK(G, next[k], o)
  BY <1>3, <1>4 DEF StackOK
<1>6. ASSUME NEW k \in 1 .. Len(next) - 1
      PROVE  CalledBy(next[k], next[k + 1])
  <2>1. k + 1 \in 1 .. Len(stack) - 1 /\ k \in 1 .. Len(next) /\ k + 1 \in 1 .. Len(next)
    BY <1>1, <1>3
  <2>2. CalledBy(stack[k + 1], stack[k + 1 + 1])
    BY <2>1 DEF StackOK
  <2> QED
    BY <1>3, <2>1, <2>2
<1>7. next[Len(next)] = stack[Len(stack)]
  <2>1. Len(next) \in 1 .. Len(next) /\ Len(next) + 1 = Len(stack)
    BY <1>1, <1>3
  <2> QED
    BY <1>3, <2>1
<1>8. StackOK(G, next, o)
  <2>1. LET bottom == stack[Len(stack)] IN
          bottom.level = Levels - 1 /\ bottom.base = o.first /\ bottom.size = o.size
    BY DEF StackOK
  <2> QED
    BY <1>3, <1>5, <1>6, <1>7, <2>1 DEF StackOK
<1>9. next[1] = stack[2]
  <2>1. 1 \in 1 .. Len(next) /\ 1 + 1 = 2
    BY <1>1, <1>3
  <2> QED
    BY <1>3, <2>1
<1>10. CalledBy(stack[1], stack[2])
  <2>1. 1 \in 1 .. Len(stack) - 1 /\ 1 + 1 = 2
    BY <1>1, <1>3
  <2> QED
    BY <2>1 DEF StackOK
<1> QED
  BY <1>2, <1>8, <1>9, <1>10

With(o, step, stack) == [o EXCEPT !.step = step, !.stack = stack]

SameRequest(o, next) == next.kind = o.kind /\ next.first = o.first /\ next.size = o.size

\* A remove with other calls, for the same request.
LEMMA RemoveMoves ==
    ASSUME NEW G, NEW o \in RemoveRequest, RequestFits(o),
           NEW step \in {"visit", "clear", "flush"}, NEW stack,
           StackOK(G, stack, o), TopOK(G, stack[1], step, o)
    PROVE  RemoveOK(G, With(o, step, stack)) /\ SameRequest(o, With(o, step, stack))
<1> DEFINE next == With(o, step, stack)
<1>1. stack \in Seq(CallRecord)
  BY DEF StackOK
<1>2. next \in RemoveRequest
  BY <1>1 DEF RemoveRequest, With
<1>3. /\ next.kind = o.kind /\ next.first = o.first /\ next.size = o.size
      /\ next.step = step /\ next.stack = stack
  BY DEF RemoveRequest, With
<1> HIDE DEF next
<1>4. RequestFits(next) /\ Pages(next) = Pages(o)
  BY <1>3 DEF RequestFits, Pages
<1>5. StackOK(G, stack, next)
  BY <1>3 DEF StackOK, CallOK
<1>6. TopOK(G, stack[1], step, next)
  BY <1>4 DEF TopOK
<1> QED
  BY <1>2, <1>3, <1>4, <1>5, <1>6, RemoveParts DEF SameRequest, next

LEMMA RemoveUpdate ==
    ASSUME NEW o \in RemoveRequest, NEW stack
    PROVE  /\ [o EXCEPT !.stack = stack] = With(o, o.step, stack)
           /\ \A step : [o EXCEPT !.step = step] = With(o, step, o.stack)
BY DEF RemoveRequest, With

\* The portion of a call that is next, and its entry.
LEMMA TopEntry ==
    ASSUME NEW G, IsFlat(G), NEW o, RemoveOK(G, o), NEW call, call = o.stack[1],
           call.done < call.size
    PROVE  /\ call.page \in Page /\ call.level \in Level
           /\ Number(call.base, call.level + 1) = Number(call.page, call.level + 1)
           /\ Upward(G, call.page, call.level)
           /\ Portion(call) \in Nat /\ Portion(call) > 0
           /\ Portion(call) <= call.size - call.done /\ Portion(call) <= PageSize[call.level]
           /\ \A q \in Pages(o) : q < call.page + Portion(call) /\ ~(q < call.page) =>
                 /\ q \in Page /\ Number(q, call.level) = Number(call.page, call.level)
                 /\ G[q][call.level] = G[call.page][call.level]
                 /\ Upward(G, q, call.level)
<1>1. 1 \in 1 .. Len(o.stack)
  BY RemoveTypes
<1>2. /\ call \in CallRecord /\ CallOK(G, call, o)
      /\ call.base \in Page
      /\ call.base .. call.base + call.size - 1 \subseteq Pages(o)
      /\ call.page \in Page
  BY <1>1, CallTypes
<1>3. PICK level \in Level, base \in Nat, page \in Nat, size \in Nat, done \in Nat, n \in Nat :
          /\ level = call.level /\ base = call.base /\ page = call.page /\ size = call.size
          /\ done = call.done /\ page = base + done /\ n = size - done /\ n > 0
  <2>1. /\ call.level \in Level /\ call.base \in Nat /\ call.page \in Nat /\ call.size \in Nat
        /\ call.done \in Nat /\ call.page = call.base + call.done
    BY <1>1, CallTypes
  <2>2. call.size - call.done \in Nat /\ call.size - call.done > 0
    BY <2>1
  <2> QED
    BY <2>1, <2>2
<1>4. PICK s \in Nat : s = PageSize[level] /\ s > 0
  BY PageSizeTypes, ConstantsAre
<1>5. PICK r \in Nat : r = Portion(call) /\ r > 0 /\ r <= n /\ r <= s /\ r = Least(PageSize[level], n)
  BY <1>3, <1>4 DEF Portion, Least
<1>6. /\ \A p \in base .. base + size - 1 : Number(p, level + 1) = Number(base, level + 1)
      /\ KeepsInside(page, n, level) /\ Upward(G, base, level)
  BY <1>2, <1>3 DEF CallOK
<1>7. ASSUME NEW q \in page .. page + r - 1
      PROVE  q \in Page /\ Number(q, level) = Number(page, level) /\ Upward(G, q, level)
  <2>1. q \in base .. base + size - 1
    BY <1>3, <1>5
  <2>2. q \in Page
    <3>1. Pages(o) \subseteq Page
      BY RemoveTypes
    <3> QED
      BY <1>2, <1>3, <2>1, <3>1
  <2>3. Upward(G, q, level)
    BY <1>2, <1>3, <1>6, <2>1, <2>2, SameUpward
  <2>4. Number(q, level) = Number(page, level)
    BY <1>5, <1>6, PortionInside
  <2> QED
    BY <2>2, <2>3, <2>4
<1>8. page \in page .. page + r - 1 /\ page \in base .. base + size - 1
  BY <1>3, <1>5
<1>9. ASSUME NEW q \in Pages(o), q < page + r, ~(q < page)
      PROVE  /\ q \in Page /\ Number(q, level) = Number(page, level)
             /\ G[q][level] = G[page][level]
             /\ Upward(G, q, level)
  <2>1. q \in page .. page + r - 1
    <3>1. q \in Int
      BY RemoveTypes DEF Pages
    <3> QED
      BY <1>9, <3>1
  <2>2. q \in Page /\ Number(q, level) = Number(page, level) /\ Upward(G, q, level)
    BY <1>7, <2>1
  <2>3. page \in Page
    BY <1>2, <1>3
  <2> QED
    BY <2>2, <2>3 DEF IsFlat
<1> QED
  BY <1>2, <1>3, <1>4, <1>5, <1>6, <1>7, <1>8, <1>9

LEMMA UnmappedBelow ==
    ASSUME NEW G, IsFlat(G), NEW p \in Page, NEW l \in Level, Upward(G, p, l), G[p][l] = Absent
    PROVE  Unmapped(G, p)
<1>1. SUFFICES ASSUME NEW k \in Level
               PROVE  G[p][k].kind # "page"
  BY DEF Unmapped
<1>2. CASE k < l
  BY <1>2, AbsentBelow DEF Absent
<1>3. CASE k = l
  BY <1>3 DEF Absent
<1>4. CASE k > l
  BY <1>4 DEF Upward
<1> QED
  BY <1>2, <1>3, <1>4, ConstantsAre

\* A call goes on when no page before its next portion is mapped.
LEMMA AdvanceKeeps ==
    ASSUME NEW G, NEW o \in RemoveRequest, RequestFits(o), StackOK(G, o.stack, o),
           NEW call, call = o.stack[1], call.done < call.size,
           \A p \in Pages(o) : p < call.page + PageSize[call.level] /\ p < call.base + call.size =>
               Unmapped(G, p),
           NEW next, next = [o EXCEPT !.step = "visit", !.stack = AdvancedTop(@)]
    PROVE  RemoveOK(G, next) /\ SameRequest(o, next)
<1>1. PICK stack : stack = AdvancedTop(o.stack)
  OBVIOUS
<1>2. StackOK(G, stack, o) /\ stack[1] = Advanced(call)
  BY <1>1, StackAdvances
<1>3. call \in CallRecord
  BY DEF StackOK
<1>4. PICK step \in {"visit", "clear", "flush"} : step = "visit"
  OBVIOUS
<1>5. TopOK(G, stack[1], step, o)
  BY <1>2, <1>3, <1>4, AdvancedIs DEF TopOK
<1>6. next = With(o, step, stack)
  BY <1>1, <1>4 DEF RemoveRequest, With
<1>7. RemoveOK(G, With(o, step, stack)) /\ SameRequest(o, With(o, step, stack))
  BY <1>2, <1>5, RemoveMoves
<1> QED
  BY <1>6, <1>7

LEMMA VisitAbsentKeeps ==
    ASSUME NEW G, IsFlat(G), NEW o, RemoveOK(G, o), o.step = "visit",
           NEW call, call = o.stack[1], call.done < call.size,
           G[call.page][call.level].kind = "absent",
           NEW next, next = [o EXCEPT !.stack = AdvancedTop(@)]
    PROVE  RemoveOK(G, next) /\ SameRequest(o, next)
<1>1. o \in RemoveRequest /\ RequestFits(o) /\ StackOK(G, o.stack, o) /\ TopOK(G, call, o.step, o)
  BY RemoveParts
<1>2. /\ call.page \in Page /\ call.level \in Level
      /\ \A q \in Pages(o) : q < call.page + Portion(call) /\ ~(q < call.page) =>
            q \in Page /\ G[q][call.level] = G[call.page][call.level] /\ Upward(G, q, call.level)
  BY TopEntry
<1>3. G[call.page][call.level] = Absent
  <2>1. G[call.page][call.level] \in AnyEntry
    BY <1>2 DEF IsFlat
  <2> QED
    BY <2>1 DEF AnyEntry
<1>4. PICK page \in Nat, base \in Nat, size \in Nat, done \in Nat, s \in Nat :
          /\ page = call.page /\ base = call.base /\ size = call.size /\ done = call.done
          /\ s = PageSize[call.level] /\ page = base + done
  <2>1. 1 \in 1 .. Len(o.stack)
    BY RemoveTypes
  <2>2. /\ call.base \in Nat /\ call.page \in Nat /\ call.size \in Nat /\ call.done \in Nat
        /\ call.page = call.base + call.done /\ call.level \in 0 .. Levels
    BY <2>1, CallTypes
  <2>3. PageSize[call.level] \in Nat
    BY <2>2, PageSizeTypes
  <2> QED
    BY <2>2, <2>3
<1>5. ASSUME NEW p \in Pages(o), p < page + s, p < base + size
      PROVE  Unmapped(G, p)
  <2>1. p \in Nat
    BY RemoveTypes DEF Pages
  <2>2. CASE p < page
    BY <1>1, <1>4, <1>5, <2>2 DEF TopOK
  <2>3. CASE ~(p < page)
    <3>1. Portion(call) = IF s < size - done THEN s ELSE size - done
      BY <1>4 DEF Portion, Least
    <3>2. p < page + Portion(call)
      BY <1>4, <1>5, <2>1, <3>1
    <3>3. p \in Page /\ G[p][call.level] = Absent /\ Upward(G, p, call.level)
      BY <1>2, <1>3, <1>4, <2>3, <3>2
    <3> QED
      BY <1>2, <3>3, UnmappedBelow
  <2> QED
    BY <2>2, <2>3
<1>6. next = [o EXCEPT !.step = "visit", !.stack = AdvancedTop(@)]
  BY <1>1 DEF RemoveRequest
<1> QED
  BY <1>1, <1>4, <1>5, <1>6, AdvanceKeeps

LEMMA VisitTableKeeps ==
    ASSUME NEW G, IsFlat(G), NEW o, RemoveOK(G, o), o.step = "visit",
           NEW call, call = o.stack[1], call.done < call.size,
           G[call.page][call.level].kind = "table",
           NEW next, next = [o EXCEPT !.stack = <<Call(call.level - 1, call.page, Portion(call))>> \o @]
    PROVE  RemoveOK(G, next) /\ SameRequest(o, next)
<1>1. o \in RemoveRequest /\ RequestFits(o) /\ StackOK(G, o.stack, o) /\ TopOK(G, call, o.step, o)
  BY RemoveParts
<1>2. /\ call.page \in Page /\ call.level \in Level /\ Upward(G, call.page, call.level)
      /\ Portion(call) \in Nat /\ Portion(call) > 0
      /\ Portion(call) <= call.size - call.done
      /\ \A q \in Pages(o) : q < call.page + Portion(call) /\ ~(q < call.page) =>
            Number(q, call.level) = Number(call.page, call.level)
  BY TopEntry
<1>3. PICK page \in Nat, base \in Nat, size \in Nat, done \in Nat, r \in Nat :
          /\ page = call.page /\ base = call.base /\ size = call.size /\ done = call.done
          /\ r = Portion(call) /\ r > 0 /\ r <= size - done /\ page = base + done
          /\ o.first <= base /\ base + size <= o.first + o.size
  <2>1. 1 \in 1 .. Len(o.stack)
    BY RemoveTypes
  <2>2. /\ call.base \in Nat /\ call.page \in Nat /\ call.size \in Nat /\ call.done \in Nat
        /\ call.page = call.base + call.done
        /\ o.first <= call.base /\ call.base + call.size <= o.first + o.size
    BY <2>1, CallTypes
  <2> QED
    BY <1>2, <2>2
<1>4. PICK level \in Level : level = call.level - 1 /\ level + 1 = call.level
  <2>1. call.level # 0
    BY <1>2 DEF IsFlat
  <2> QED
    BY SMTT(30), <1>2, <2>1, ConstantsAre
<1>5. PICK new : new = Call(level, page, r)
  OBVIOUS
<1>6. /\ new \in CallRecord /\ new.level = level /\ new.base = page /\ new.page = page
      /\ new.size = r /\ new.done = 0
  BY <1>3, <1>5 DEF Call, CallRecord
<1>7. CallOK(G, new, o)
  <2>1. PICK f \in Nat, z \in Nat : f = o.first /\ z = o.size
    BY RemoveTypes
  <2>2. f <= page /\ page + r <= f + z /\ page = page + 0
    <3>1. f <= base /\ base + size <= f + z /\ page = base + done /\ r <= size - done
      BY <1>3, <2>1
    <3> QED
      BY <3>1
  <2>3. ASSUME NEW p \in page .. page + r - 1
        PROVE  Number(p, level + 1) = Number(page, level + 1)
    <3>1. p \in Pages(o)
      <4>1. Pages(o) = f .. f + z - 1
        BY <2>1 DEF Pages
      <4> QED
        BY <2>2, <4>1
    <3>2. p < page + r /\ ~(p < page)
      OBVIOUS
    <3> QED
      BY <1>2, <1>3, <1>4, <3>1, <3>2
  <2>4. KeepsInside(page, r, level)
    <3>1. CallOK(G, call, o)
      <4>1. 1 \in 1 .. Len(o.stack)
        BY RemoveTypes
      <4> QED
        BY <4>1, CallTypes
    <3>2. PICK n \in Nat : n = size - done /\ r <= n
      BY <1>3
    <3>3. KeepsInside(page, n, level + 1)
      BY <1>3, <1>4, <3>1, <3>2 DEF CallOK
    <3>4. ASSUME NEW l \in Level, l <= level
          PROVE  page % PageSize[l] = 0 \/ (page % PageSize[l]) + r <= PageSize[l]
      <4>1. l <= level + 1
        BY <3>4, ConstantsAre
      <4>2. page % PageSize[l] = 0 \/ (page % PageSize[l]) + n <= PageSize[l]
        BY <3>3, <4>1 DEF KeepsInside
      <4>3. PICK x \in Nat, s \in Nat : x = page % PageSize[l] /\ s = PageSize[l]
        <5>1. l \in 0 .. Levels
          BY ConstantsAre
        <5> QED
          BY <5>1, NumberTypes, PageSizeTypes
      <4> QED
        BY <3>2, <4>2, <4>3
    <3> QED
      BY <3>4 DEF KeepsInside
  <2>5. Upward(G, page, level)
    <3>1. Upward(G, page, level + 1) /\ G[page][level + 1].kind = "table"
      BY <1>2, <1>3, <1>4
    <3> QED
      BY <3>1, ConstantsAre DEF Upward
  <2>6. r - 0 = r
    OBVIOUS
  <2> QED
    BY <1>6, <2>1, <2>2, <2>3, <2>4, <2>5, <2>6 DEF CallOK
<1>8. CalledBy(new, call)
  BY <1>3, <1>4, <1>6 DEF CalledBy
<1>9. PICK stack : stack = <<new>> \o o.stack
  OBVIOUS
<1>10. StackOK(G, stack, o) /\ stack[1] = new
  BY <1>1, <1>6, <1>7, <1>8, <1>9, StackPushed
<1>11. PICK step \in {"visit", "clear", "flush"} : step = "visit" /\ step = o.step
  OBVIOUS
<1>12. TopOK(G, stack[1], step, o)
  <2>1. \A p \in Pages(o) : p < page => p < base + size
    <3>1. \A p \in Pages(o) : p \in Int
      BY RemoveTypes DEF Pages
    <3> QED
      BY SMTT(30), <1>3, <3>1
  <2>2. \A p \in Pages(o) : p < page => Unmapped(G, p)
    BY <1>1, <1>3, <2>1 DEF TopOK
  <2> QED
    BY <1>6, <1>10, <1>11, <2>2 DEF TopOK
<1>13. next = With(o, step, stack)
  <2>1. next = [o EXCEPT !.stack = stack]
    BY <1>3, <1>4, <1>5, <1>9
  <2> QED
    BY <1>1, <1>11, <2>1, RemoveUpdate
<1>14. o \in RemoveRequest /\ RequestFits(o) /\ StackOK(G, stack, o)
  BY <1>1, <1>10
<1>15. RemoveOK(G, With(o, step, stack)) /\ SameRequest(o, With(o, step, stack))
  BY <1>12, <1>14, RemoveMoves
<1> QED
  BY <1>13, <1>15

LEMMA VisitPageKeeps ==
    ASSUME NEW G, IsFlat(G), NEW o, RemoveOK(G, o), o.step = "visit",
           NEW call, call = o.stack[1], call.done < call.size,
           G[call.page][call.level].kind = "page",
           ~(call.level > 0 /\ Portion(call) # PageSize[call.level]),
           NEW next, next = [o EXCEPT !.step = "clear"]
    PROVE  RemoveOK(G, next) /\ SameRequest(o, next)
<1>1. o \in RemoveRequest /\ RequestFits(o) /\ StackOK(G, o.stack, o) /\ TopOK(G, call, o.step, o)
  BY RemoveParts
<1>2. /\ call.level \in Level /\ Portion(call) \in Nat /\ Portion(call) > 0
      /\ Portion(call) <= call.size - call.done /\ Portion(call) <= PageSize[call.level]
  BY TopEntry
<1>3. Portion(call) = PageSize[call.level]
  <2>1. CASE call.level = 0
    BY <1>2, <2>1, PageSizeIs
  <2>2. CASE call.level # 0
    BY <1>2, <2>2, ConstantsAre
  <2> QED
    BY <2>1, <2>2
<1>4. call.page % PageSize[call.level] = 0
  <2>1. 1 \in 1 .. Len(o.stack)
    BY RemoveTypes
  <2>2. CallOK(G, call, o) /\ call.page \in Nat /\ call.size \in Nat /\ call.done \in Nat
    BY <2>1, CallTypes
  <2>3. PICK n \in Nat : n = call.size - call.done
    BY <2>2
  <2>4. KeepsInside(call.page, n, call.level)
    BY <2>2, <2>3 DEF CallOK
  <2>5. PageSize[call.level] <= n
    BY <1>2, <1>3, <2>3
  <2> QED
    BY <1>2, <2>2, <2>4, <2>5, NextInside
<1>5. WholeEntry(call)
  BY <1>3, <1>4 DEF WholeEntry
<1>6. PICK step \in {"visit", "clear", "flush"} : step = "clear"
  OBVIOUS
<1>7. TopOK(G, o.stack[1], step, o)
  BY <1>1, <1>5, <1>6 DEF TopOK
<1>8. next = With(o, step, o.stack)
  BY <1>1, <1>6, RemoveUpdate
<1>9. RemoveOK(G, With(o, step, o.stack)) /\ SameRequest(o, With(o, step, o.stack))
  BY <1>1, <1>7, RemoveMoves
<1> QED
  BY <1>8, <1>9

LEMMA StackKept ==
    ASSUME NEW G, NEW H, NEW o, RemoveOK(G, o), TablesPersist(G, H)
    PROVE  StackOK(H, o.stack, o)
<1>1. StackOK(G, o.stack, o)
  BY RemoveParts
<1>2. ASSUME NEW k \in 1 .. Len(o.stack)
      PROVE  CallOK(H, o.stack[k], o)
  <2>1. PICK call : call = o.stack[k]
    OBVIOUS
  <2>2. CallOK(G, call, o) /\ call.base \in Page
    BY <2>1, CallTypes
  <2>3. Upward(H, call.base, call.level)
    BY <2>2, UpwardPersists DEF CallOK
  <2>4. CallOK(H, call, o)
    BY <2>2, <2>3 DEF CallOK
  <2> QED
    BY <2>1, <2>4
<1> QED
  BY <1>1, <1>2 DEF StackOK

\* The entry that is to be cleared maps pages of the request only.
LEMMA ClearEntry ==
    ASSUME NEW G, IsFlat(G), NEW o, RemoveOK(G, o), o.step = "clear", NEW call, call = o.stack[1]
    PROVE  /\ call.page \in Page /\ call.base \in Page /\ call.level \in Level
           /\ Number(call.base, call.level + 1) = Number(call.page, call.level + 1)
           /\ Upward(G, call.page, call.level)
           /\ G[call.page][call.level].kind = "page"
           /\ call.page \in EntryPages(call)
           /\ EntryPages(call) \subseteq Pages(o) /\ Pages(o) \subseteq Page
           /\ \A p \in Page : p \in EntryPages(call) <=> Number(p, call.level) = Number(call.page, call.level)
<1>1. TopOK(G, call, o.step, o)
  BY RemoveParts
<1>2. WholeEntry(call) /\ G[call.page][call.level].kind = "page"
  BY <1>1 DEF TopOK
<1>3. call.done < call.size /\ call.page % PageSize[call.level] = 0
  BY <1>2 DEF WholeEntry
<1>4. /\ call.page \in Page /\ call.level \in Level
      /\ Number(call.base, call.level + 1) = Number(call.page, call.level + 1)
      /\ Upward(G, call.page, call.level)
  BY <1>3, TopEntry
<1>5. call.base \in Page /\ call.level \in 0 .. Levels /\ call.page \in Nat
  <2>1. 1 \in 1 .. Len(o.stack)
    BY RemoveTypes
  <2> QED
    BY <2>1, CallTypes
<1>6. EntryPages(call) \subseteq Pages(o) /\ call.page \in EntryPages(call) /\ Pages(o) \subseteq Page
  BY <1>2, WholeInside, RemoveTypes
<1>7. ASSUME NEW p \in Page
      PROVE  p \in EntryPages(call) <=> Number(p, call.level) = Number(call.page, call.level)
  <2>1. p \in Nat
    BY NumberTop
  <2> QED
    BY <1>3, <1>5, <2>1, EntryPagesAre DEF EntryPages
<1> QED
  BY <1>2, <1>4, <1>5, <1>6, <1>7

LEMMA ClearKeeps ==
    ASSUME NEW G, NEW H, IsFlat(G), IsFlat(H), NEW o, RemoveOK(G, o), o.step = "clear",
           NEW call, call = o.stack[1], Changed(G, H, call.page, call.level, Absent),
           NEW next, next = [o EXCEPT !.step = "flush"]
    PROVE  /\ RemoveOK(H, next) /\ SameRequest(o, next)
           /\ \A p \in EntryPages(call) : Unmapped(H, p)
<1>1. o \in RemoveRequest /\ RequestFits(o) /\ TopOK(G, call, o.step, o)
  BY RemoveParts
<1>2. /\ call.page \in Page /\ call.level \in Level
      /\ G[call.page][call.level].kind = "page"
      /\ EntryPages(call) \subseteq Pages(o) /\ Pages(o) \subseteq Page
      /\ \A p \in Page : p \in EntryPages(call) <=> Number(p, call.level) = Number(call.page, call.level)
  BY ClearEntry
<1>3. TablesPersist(G, H)
  <2>1. ASSUME NEW p \in Page, NEW l \in Level, G[p][l].kind = "table"
        PROVE  H[p][l] = G[p][l]
    BY <1>2, <2>1 DEF Changed, IsFlat
  <2> QED
    BY <2>1 DEF TablesPersist
<1>4. StackOK(H, o.stack, o)
  BY <1>3, StackKept
<1>5. ASSUME NEW p \in Page, Unmapped(G, p)
      PROVE  Unmapped(H, p)
  BY <1>5 DEF Changed, Unmapped, Absent
<1>6. ASSUME NEW p \in EntryPages(call)
      PROVE  Unmapped(H, p)
  <2>1. p \in Page /\ Number(p, call.level) = Number(call.page, call.level)
    BY <1>2
  <2>2. G[p][call.level].kind = "page"
    BY <1>2, <2>1 DEF IsFlat
  <2>3. SUFFICES ASSUME NEW l \in Level
                 PROVE  H[p][l].kind # "page"
    BY DEF Unmapped
  <2>4. CASE l = call.level
    BY <2>1, <2>4 DEF Changed, Absent
  <2>5. CASE l # call.level
    <3>1. G[p][l].kind # "page"
      BY <1>2, <2>1, <2>2, <2>5, AtMostOnePage
    <3> QED
      BY <2>1, <2>5, <3>1 DEF Changed
  <2> QED
    BY <2>4, <2>5
<1>7. WholeEntry(call)
  BY <1>1 DEF TopOK
<1>8. PICK step \in {"visit", "clear", "flush"} : step = "flush"
  OBVIOUS
<1>9. TopOK(H, o.stack[1], step, o)
  <2>1. \A p \in Pages(o) : p < call.page /\ p < call.base + call.size => Unmapped(H, p)
    BY <1>1, <1>2, <1>5 DEF TopOK
  <2> QED
    BY <1>6, <1>7, <1>8, <2>1 DEF TopOK
<1>10. next = With(o, step, o.stack)
  BY <1>1, <1>8, RemoveUpdate
<1>11. RemoveOK(H, With(o, step, o.stack)) /\ SameRequest(o, With(o, step, o.stack))
  BY <1>1, <1>4, <1>9, RemoveMoves
<1> QED
  BY <1>6, <1>10, <1>11

LEMMA FlushKeeps ==
    ASSUME NEW G, NEW o, RemoveOK(G, o), o.step = "flush",
           NEW next, next = [o EXCEPT !.step = "visit", !.stack = AdvancedTop(@)]
    PROVE  RemoveOK(G, next) /\ SameRequest(o, next)
<1>1. PICK call : call = o.stack[1]
  OBVIOUS
<1>2. o \in RemoveRequest /\ RequestFits(o) /\ StackOK(G, o.stack, o) /\ TopOK(G, call, o.step, o)
  BY <1>1, RemoveParts
<1>3. WholeEntry(call) /\ \A p \in EntryPages(call) : Unmapped(G, p)
  BY <1>2 DEF TopOK
<1>4. call.done < call.size
  BY <1>3 DEF WholeEntry
<1>5. PICK page \in Nat, base \in Nat, size \in Nat, s \in Nat :
          page = call.page /\ base = call.base /\ size = call.size /\ s = PageSize[call.level]
  <2>1. 1 \in 1 .. Len(o.stack)
    BY RemoveTypes
  <2>2. call.base \in Nat /\ call.page \in Nat /\ call.size \in Nat /\ call.level \in 0 .. Levels
    BY <1>1, <2>1, CallTypes
  <2>3. PageSize[call.level] \in Nat
    BY <2>2, PageSizeTypes
  <2> QED
    BY <2>2, <2>3
<1>6. ASSUME NEW p \in Pages(o), p < page + s, p < base + size
      PROVE  Unmapped(G, p)
  <2>1. p \in Nat
    BY RemoveTypes DEF Pages
  <2>2. CASE p < page
    BY <1>2, <1>5, <1>6, <2>2 DEF TopOK
  <2>3. CASE ~(p < page)
    <3>1. p \in EntryPages(call)
      BY <1>5, <1>6, <2>1, <2>3 DEF EntryPages
    <3> QED
      BY <1>3, <3>1
  <2> QED
    BY <2>2, <2>3
<1> QED
  BY <1>1, <1>2, <1>4, <1>5, <1>6, AdvanceKeeps

LEMMA ReturnKeeps ==
    ASSUME NEW G, NEW o, RemoveOK(G, o), o.step = "visit",
           o.stack[1].done >= o.stack[1].size, Tail(o.stack) # <<>>,
           NEW next, next = [o EXCEPT !.stack = AdvancedTop(Tail(o.stack))]
    PROVE  RemoveOK(G, next) /\ SameRequest(o, next)
<1>1. PICK call, caller : call = o.stack[1] /\ caller = o.stack[2]
  OBVIOUS
<1>2. o \in RemoveRequest /\ RequestFits(o) /\ StackOK(G, o.stack, o) /\ TopOK(G, call, o.step, o)
  BY <1>1, RemoveParts
<1>3. PICK stack : stack = Tail(o.stack)
  OBVIOUS
<1>4. StackOK(G, stack, o) /\ stack[1] = caller /\ CalledBy(call, caller)
  BY <1>1, <1>2, <1>3, StackPopped
<1>5. caller.done < caller.size
  BY <1>4 DEF CalledBy
<1>6. PICK base \in Nat, size \in Nat, done \in Nat :
          /\ base = call.base /\ size = call.size /\ done = call.done
          /\ call.page = base + done /\ done >= size
  <2>1. 1 \in 1 .. Len(o.stack)
    BY RemoveTypes
  <2>2. call.base \in Nat /\ call.size \in Nat /\ call.done \in Nat /\ call.page = call.base + call.done
    BY <1>1, <2>1, CallTypes
  <2> QED
    BY <1>1, <2>2
<1>7. PICK b \in Nat, z \in Nat, d \in Nat, s \in Nat :
          /\ b = caller.base /\ z = caller.size /\ d = caller.done /\ s = PageSize[caller.level]
          /\ caller.page = b + d /\ d < z
          /\ base = b + d /\ size = (IF s < z - d THEN s ELSE z - d)
  <2>1. caller \in CallRecord /\ CallOK(G, caller, o)
    BY <1>4 DEF StackOK
  <2>2. /\ caller.level \in Level /\ caller.base \in Nat /\ caller.size \in Nat /\ caller.done \in Nat
        /\ caller.page = caller.base + caller.done
    BY <2>1 DEF CallRecord, CallOK
  <2>3. PageSize[caller.level] \in Nat
    BY <2>2, PageSizeTypes, ConstantsAre
  <2>4. call.base = caller.page /\ call.size = Portion(caller)
    BY <1>4 DEF CalledBy
  <2> QED
    BY <1>5, <1>6, <2>2, <2>3, <2>4 DEF Portion, Least
<1>8. ASSUME NEW p \in Pages(o), p < caller.page + PageSize[caller.level], p < caller.base + caller.size
      PROVE  Unmapped(G, p)
  <2>1. p \in Nat
    BY RemoveTypes DEF Pages
  <2>2. p < b + d + s /\ p < b + z
    BY <1>7, <1>8
  <2>3. p < base + size
    BY <1>7, <2>1, <2>2
  <2>4. p < base + done
    BY <1>6, <2>1, <2>3
  <2> QED
    BY <1>2, <1>6, <2>3, <2>4 DEF TopOK
<1>9. StackOK(G, AdvancedTop(stack), o) /\ AdvancedTop(stack)[1] = Advanced(caller)
  BY <1>4, <1>5, StackAdvances
<1>10. PICK step \in {"visit", "clear", "flush"} : step = "visit" /\ step = o.step
  OBVIOUS
<1>11. caller \in CallRecord
  BY <1>4 DEF StackOK
<1>12. TopOK(G, AdvancedTop(stack)[1], step, o)
  BY <1>8, <1>9, <1>10, <1>11, AdvancedIs DEF TopOK
<1>13. next = With(o, step, AdvancedTop(stack))
  BY <1>2, <1>3, <1>10, RemoveUpdate
<1>14. PICK new : new = AdvancedTop(stack)
  OBVIOUS
<1>15. StackOK(G, new, o) /\ TopOK(G, new[1], step, o)
  BY <1>9, <1>12, <1>14
<1>16. RemoveOK(G, With(o, step, new)) /\ SameRequest(o, With(o, step, new))
  BY <1>2, <1>15, RemoveMoves
<1> QED
  BY <1>13, <1>14, <1>16

LEMMA BeginRemoveKeeps ==
    ASSUME NEW G, NEW first \in Page, NEW size \in Nat, size > 0, first + size <= PageSize[Levels],
           \A l \in 1 .. Levels - 1 :
               first % PageSize[l] = 0 \/ (first % PageSize[l]) + size <= PageSize[l],
           NEW o, o = [kind |-> "remove", first |-> first, size |-> size, step |-> "visit",
                       stack |-> <<Call(Levels - 1, first, size)>>]
    PROVE  RemoveOK(G, o)
<1>1. first \in Nat /\ Levels - 1 \in Level /\ Levels - 1 + 1 = Levels
  BY NumberTop, ConstantsAre
<1>2. PICK call : call = Call(Levels - 1, first, size)
  OBVIOUS
<1>3. /\ call \in CallRecord /\ call.level = Levels - 1 /\ call.base = first /\ call.page = first
      /\ call.size = size /\ call.done = 0
  BY <1>1, <1>2 DEF Call, CallRecord
<1>4. o.first = first /\ o.size = size /\ o.step = "visit" /\ o.stack = <<call>>
  BY <1>2
<1>5. o \in RemoveRequest /\ RequestFits(o)
  BY <1>2, <1>3 DEF RemoveRequest, RequestFits
<1>6. Pages(o) = first .. first + size - 1 /\ Pages(o) \subseteq Page
  <2>1. Pages(o) \subseteq Page
    BY <1>4, <1>5, RequestPages
  <2> QED
    BY <1>4, <2>1 DEF Pages
<1>7. CallOK(G, call, o)
  <2>1. o.first <= first /\ first + size <= o.first + o.size /\ first = first + 0 /\ size - 0 = size
    BY <1>1, <1>4
  <2>2. \A p \in first .. first + size - 1 : Number(p, Levels) = Number(first, Levels)
    BY <1>6, NumberTop
  <2>3. KeepsInside(first, size, Levels - 1)
    <3>1. ASSUME NEW l \in Level
          PROVE  first % PageSize[l] = 0 \/ (first % PageSize[l]) + size <= PageSize[l]
      <4>1. CASE l = 0
        <5>1. PageSize[l] = 1
          BY <4>1, PageSizeIs
        <5>2. first % PageSize[l] \in Nat /\ first % PageSize[l] < PageSize[l]
          <6>1. l \in 0 .. Levels
            BY ConstantsAre
          <6> QED
            BY <1>1, <6>1, NumberTypes
        <5> QED
          BY <5>1, <5>2
      <4>2. CASE l # 0
        <5>1. l \in 1 .. Levels - 1
          BY <4>2, ConstantsAre
        <5> QED
          BY <5>1
      <4> QED
        BY <4>1, <4>2
    <3> QED
      BY <3>1 DEF KeepsInside
  <2>4. Upward(G, first, Levels - 1)
    BY ConstantsAre DEF Upward
  <2> QED
    BY <1>1, <1>3, <2>1, <2>2, <2>3, <2>4 DEF CallOK
<1>8. StackOK(G, o.stack, o)
  <2>1. /\ o.stack \in Seq(CallRecord) /\ Len(o.stack) = 1 /\ o.stack[1] = call
        /\ 1 .. Len(o.stack) = {1} /\ 1 .. Len(o.stack) - 1 = {}
    BY <1>3, <1>4
  <2> QED
    BY <1>3, <1>4, <1>7, <2>1 DEF StackOK
<1>9. TopOK(G, o.stack[1], o.step, o)
  <2>1. \A p \in Pages(o) : ~(p < first)
    BY <1>1, <1>6
  <2>2. o.stack[1] = call
    BY <1>4
  <2> QED
    BY <1>3, <1>4, <2>1, <2>2 DEF TopOK
<1> QED
  BY <1>5, <1>8, <1>9, RemoveParts

-----------------------------------------------------------------------------
(* The translations that processors have cached *)

LEMMA TlbKept ==
    ASSUME NEW G, NEW H, TablesPersist(G, H), NEW t, TlbOK(G, t)
    PROVE  TlbOK(H, t)
<1>1. t.first \in Page
  BY DEF TlbOK
<1> QED
  BY <1>1, UpwardPersists DEF TlbOK

LEMMA CachedOK ==
    ASSUME NEW G, IsFlat(G), NEW c \in Cpu, NEW p \in Page, NEW l \in Level, G[p][l].kind = "page",
           NEW t, t = [cpu |-> c, first |-> p - (p % PageSize[l]), size |-> PageSize[l],
                       address |-> G[p][l].address]
    PROVE  /\ TlbOK(G, t)
           /\ \A q \in Page : Covers(t, q) => MapsTo(G, q, t.address + q - t.first)
<1>1. p \in Nat /\ l \in 0 .. Levels
  BY NumberTop, ConstantsAre
<1>2. PICK s \in Nat : s = PageSize[l] /\ s > 0
  BY <1>1, PageSizeTypes
<1>3. PICK n \in Nat, r \in Nat : n = Number(p, l) /\ r = p % s /\ p = s * n + r /\ r < s
  BY <1>1, <1>2, NumberTypes
<1>4. PICK first \in Nat : first = s * n + 0 /\ first = p - r /\ first <= p
  <2>1. s * n \in Nat
    OBVIOUS
  <2> QED
    BY <1>3, <2>1
<1>5. first \div s = n /\ first % s = 0
  <2>1. 0 \in Nat /\ 0 < s /\ n \in Int /\ first \in Int /\ first = s * n + 0
    BY <1>2, <1>4
  <2> QED
    BY <2>1, QuotientIs
<1>6. Number(first, l) = Number(p, l) /\ first % PageSize[l] = 0
  BY <1>2, <1>3, <1>5 DEF Number
<1>7. first \in Page
  <2>1. PageSize[Levels] \in Nat
    BY PageSizeTypes, ConstantsAre
  <2> QED
    BY <1>4, <2>1 DEF Page
<1>8. G[first][l] = G[p][l]
  BY <1>6, <1>7 DEF IsFlat
<1>9. Upward(G, first, l)
  BY <1>7, <1>8 DEF IsFlat, Absent
<1>10. PICK a \in Int : a = G[p][l].address
  <2>1. G[p][l] \in AnyEntry
    BY DEF IsFlat
  <2> QED
    BY <2>1 DEF AnyEntry, Absent
<1>11. t.first = first /\ t.size = s /\ t.cpu = c /\ t.address = a
  BY <1>2, <1>3, <1>4, <1>10
<1>12. TlbOK(G, t)
  BY <1>2, <1>6, <1>7, <1>9, <1>10, <1>11 DEF TlbOK
<1>13. ASSUME NEW q \in Page, Covers(t, q)
       PROVE  MapsTo(G, q, t.address + q - t.first)
  <2>1. q \in Nat
    BY NumberTop
  <2>2. q \in first .. first + s - 1
    BY <1>11, <1>13 DEF Covers
  <2>3. Number(q, l) = Number(first, l) /\ q % PageSize[l] = q - first
    BY <1>1, <1>2, <1>6, <2>1, <2>2, EntryPagesAre
  <2>4. G[q][l] = G[p][l]
    BY <1>6, <2>3 DEF IsFlat
  <2>5. a + q - first = a + (q - first)
    BY <2>1
  <2> QED
    BY <1>10, <1>11, <2>3, <2>4, <2>5 DEF MapsTo
<1> QED
  BY <1>12, <1>13

\* A cached translation that covers one page of a mapped entry covers them all.
LEMMA CoversEntry ==
    ASSUME NEW G, IsFlat(G), NEW t, TlbOK(G, t),
           NEW page \in Page, NEW level \in Level, G[page][level].kind = "page",
           NEW p \in Page, Number(p, level) = Number(page, level), Covers(t, p)
    PROVE  Covers(t, page)
<1>1. PICK k \in Level : t.size = PageSize[k] /\ t.first % PageSize[k] = 0 /\ Upward(G, t.first, k)
  BY DEF TlbOK
<1>2. /\ t.first \in Page /\ t.first \in Nat /\ p \in Nat /\ page \in Nat
      /\ k \in 0 .. Levels /\ level \in 0 .. Levels /\ k \in Int /\ level \in Int
  BY NumberTop, ConstantsAre DEF TlbOK
<1>3. Number(p, k) = Number(t.first, k)
  BY <1>1, <1>2, EntryPagesAre DEF Covers
<1>4. CASE level <= k
  <2>1. Number(page, k) = Number(t.first, k)
    BY <1>2, <1>3, <1>4, SameAbove
  <2> QED
    BY <1>1, <1>2, <2>1, EntryPagesAre DEF Covers
<1>5. CASE k < level
  <2>1. Number(t.first, level) = Number(page, level)
    <3>1. k <= level
      BY <1>2, <1>5
    <3> QED
      BY <1>2, <1>3, <3>1, SameAbove
  <2>2. G[t.first][level] = G[page][level]
    BY <1>2, <2>1 DEF IsFlat
  <2>3. G[t.first][level].kind = "table"
    BY <1>1, <1>5 DEF Upward
  <2> QED
    BY <2>2, <2>3
<1> QED
  BY <1>2, <1>4, <1>5

\* Steps that unmap nothing, and end no flush.
LEMMA TlbsKept ==
    ASSUME NEW G, NEW H, NEW O, NEW P, NEW B, NEW R, NEW c \in Cpu, TlbsOK(G, O, B, R),
           TablesPersist(G, H), \A p \in Page : \A a : MapsTo(G, p, a) => MapsTo(H, p, a),
           \A d \in Cpu \ {c} : P[d] = O[d],
           ~(O[c].kind = "remove" /\ O[c].step = "flush")
    PROVE  TlbsOK(H, P, B, R)
<1>1. \A t \in B : TlbOK(H, t) /\ t.cpu \in Cpu
  <2>1. ASSUME NEW t \in B
        PROVE  TlbOK(H, t) /\ t.cpu \in Cpu
    <3>1. TlbOK(G, t)
      BY DEF TlbsOK
    <3> QED
      BY <3>1, TlbKept DEF TlbOK
  <2> QED
    BY <2>1
<1>2. ASSUME NEW t \in B, NEW p \in Page, Stale(H, R, t, p)
      PROVE  FlushComes(P[t.cpu], t)
  <2>1. Stale(G, R, t, p)
    BY <1>2 DEF Stale
  <2>2. FlushComes(O[t.cpu], t)
    BY <2>1 DEF TlbsOK
  <2>3. t.cpu # c
    BY <2>2 DEF FlushComes
  <2> QED
    BY <1>1, <2>2, <2>3
<1> QED
  BY <1>1, <1>2 DEF TlbsOK

-----------------------------------------------------------------------------
(* Steps that write no entry *)

LEMMA InvariantIs ==
    ASSUME IInv
    PROVE  /\ \E L, N : IsTree(tables, free, L, N)
           /\ IsFlat(Entries)
           /\ OpsOK(Entries, op) /\ TlbsOK(Entries, op, tlb, removedBy)
           /\ DOMAIN op = Cpu /\ requests \in Nat
           /\ removedBy \in [Page -> Cpu \cup {Nobody}]
BY TreeIsFlat DEF IInv

LEMMA OpUpdate ==
    ASSUME DOMAIN op = Cpu, NEW c \in Cpu, NEW x, op' = [op EXCEPT ![c] = x]
    PROVE  /\ op' \in [Cpu -> {op'[d] : d \in Cpu}]
           /\ op'[c] = x
           /\ \A d \in Cpu \ {c} : op'[d] = op[d]
<1>1. PICK O, P : O = op /\ P = op'
  OBVIOUS
<1>2. P = [d \in Cpu |-> IF d = c THEN x ELSE O[d]]
  BY <1>1
<1>3. P \in [Cpu -> {P[d] : d \in Cpu}] /\ P[c] = x /\ \A d \in Cpu \ {c} : P[d] = O[d]
  BY <1>2
<1> QED
  BY <1>1, <1>3

LEMMA KeepsSame ==
    ASSUME NEW G
    PROVE  TablesPersist(G, G) /\ \A o : KeepsOther(G, G, o)
BY DEF TablesPersist, KeepsOther, PagesKept

\* A processor goes on with its operation, or begins one apart from the others.
LEMMA QuietStep ==
    ASSUME IInv, NEW c \in Cpu, NEW x, op' = [op EXCEPT ![c] = x],
           UNCHANGED <<tables, free, tlb, removedBy>>, requests' \in Nat,
           ~(op[c].kind = "remove" /\ op[c].step = "flush"),
           OpOK(Entries, x),
           \/ GoesOn(Entries, Entries, op[c], x)
           \/ \A d \in Cpu \ {c} : OpsApart(Entries, x, op[d])
    PROVE  IInv'
<1>1. PICK G, O, P, B, R : /\ G = Entries /\ G = Entries' /\ O = op /\ P = op'
                           /\ B = tlb /\ B = tlb' /\ R = removedBy /\ R = removedBy'
  BY EntriesUnchanged
<1>2. /\ \E L, N : IsTree(tables, free, L, N)
      /\ IsFlat(G) /\ OpsOK(G, O) /\ TlbsOK(G, O, B, R)
      /\ DOMAIN op = Cpu
      /\ removedBy \in [Page -> Cpu \cup {Nobody}]
  BY <1>1, InvariantIs
<1>3. op' \in [Cpu -> {op'[d] : d \in Cpu}] /\ P[c] = x /\ \A d \in Cpu \ {c} : P[d] = O[d]
  BY <1>1, <1>2, OpUpdate
<1>4. OpsOK(G, P)
  <2>1. \A d \in Cpu \ {c} : P[d] = O[d] /\ KeepsOther(G, G, O[d])
    BY <1>3, KeepsSame
  <2>2. \/ GoesOn(G, G, O[c], P[c])
        \/ \A d \in Cpu \ {c} : OpsApart(G, P[c], P[d])
    BY <1>1, <1>3
  <2>3. OpOK(G, P[c])
    BY <1>1, <1>3
  <2> QED
    BY <1>2, <2>1, <2>2, <2>3, KeepsSame, OpsKept
<1>5. TlbsOK(G, P, B, R)
  BY <1>1, <1>2, <1>3, KeepsSame, TlbsKept
<1>6. \E L, N : IsTree(tables', free', L, N)
  BY <1>2
<1> QED
  BY <1>1, <1>2, <1>3, <1>4, <1>5, <1>6 DEF IInv

LEMMA ReturnedIs ==
    ASSUME NEW ok \in BOOLEAN
    PROVE  /\ Returned(ok).kind = "returned"
           /\ \A G : OpOK(G, Returned(ok))
           /\ \A G, o : GoesOn(G, G, o, Returned(ok))
BY DEF Returned, OpOK, GoesOn

LEMMA OpsAre ==
    ASSUME IInv, NEW c \in Cpu
    PROVE  /\ OpOK(Entries, op[c])
           /\ op[c].kind = "add" => AddOK(Entries, op[c])
           /\ op[c].kind = "remove" => RemoveOK(Entries, op[c])
<1>1. OpOK(Entries, op[c])
  BY InvariantIs DEF OpsOK
<1> QED
  BY <1>1, OpKinds

LEMMA SameGoesOn ==
    ASSUME NEW G, NEW o, NEW next, next.kind = o.kind, next.first = o.first, next.size = o.size
    PROVE  GoesOn(G, G, o, next)
BY DEF GoesOn

LEMMA StepDescend ==
    ASSUME IInv, NEW c \in Cpu, Descend(c)
    PROVE  IInv'
<1>1. AddOK(Entries, op[c]) /\ op[c].kind = "add" /\ ~op[c].absent
      /\ op[c].page < op[c].first + op[c].size /\ op[c].level > TargetLevel(op[c])
  BY OpsAre DEF Descend, Adding
<1>2. op[c].page \in Page /\ op[c].level \in Level
  <2>1. op[c].page \in Pages(op[c]) /\ Pages(op[c]) \subseteq Page /\ op[c].level \in Level
    BY <1>1, AddTypes
  <2> QED
    BY <2>1
<1>3. Entry(op[c].page, op[c].level) = Entries[op[c].page][op[c].level]
  BY <1>2 DEF Entries
<1>4. PICK x : x = IF Entries[op[c].page][op[c].level].kind = "absent"
                   THEN [op[c] EXCEPT !.absent = TRUE] ELSE [op[c] EXCEPT !.level = @ - 1]
  OBVIOUS
<1>5. op' = [op EXCEPT ![c] = x]
  <2>1. op' = IF Entry(op[c].page, op[c].level).kind = "absent"
              THEN [op EXCEPT ![c].absent = TRUE] ELSE [op EXCEPT ![c].level = @ - 1]
    BY DEF Descend
  <2>2. CASE Entries[op[c].page][op[c].level].kind = "absent"
    BY <1>3, <1>4, <2>1, <2>2
  <2>3. CASE Entries[op[c].page][op[c].level].kind # "absent"
    BY <1>3, <1>4, <2>1, <2>3
  <2> QED
    BY <2>2, <2>3
<1>6. AddOK(Entries, x) /\ x.kind = op[c].kind /\ x.first = op[c].first /\ x.size = op[c].size
  BY <1>1, <1>4, InvariantIs, DescendKeeps
<1>7. OpOK(Entries, x) /\ GoesOn(Entries, Entries, op[c], x)
  BY <1>6, SameGoesOn DEF OpOK
<1>8. UNCHANGED <<tables, free, tlb, removedBy>> /\ requests' \in Nat
  BY InvariantIs DEF Descend
<1> QED
  BY <1>1, <1>5, <1>7, <1>8, QuietStep

LEMMA StepReturned ==
    ASSUME IInv, NEW c \in Cpu, NEW ok \in BOOLEAN, op' = [op EXCEPT ![c] = Returned(ok)],
           UNCHANGED <<tables, free, tlb, removedBy, requests>>,
           op[c].kind = "add" \/ op[c].step = "visit"
    PROVE  IInv'
<1>1. PICK x : x = Returned(ok)
  OBVIOUS
<1>2. OpOK(Entries, x) /\ GoesOn(Entries, Entries, op[c], x) /\ op' = [op EXCEPT ![c] = x]
  BY <1>1, ReturnedIs
<1>3. requests' \in Nat
  BY InvariantIs
<1>4. ~(op[c].kind = "remove" /\ op[c].step = "flush")
  OBVIOUS
<1> QED
  BY <1>2, <1>3, <1>4, QuietStep

LEMMA StepNoSubTable ==
    ASSUME IInv, NEW c \in Cpu, NoSubTable(c)
    PROVE  IInv'
<1>1. PICK ok \in BOOLEAN : ok = FALSE
  OBVIOUS
<1>2. op' = [op EXCEPT ![c] = Returned(ok)]
  BY <1>1 DEF NoSubTable
<1> QED
  BY <1>2, StepReturned DEF NoSubTable

LEMMA StepMapped ==
    ASSUME IInv, NEW c \in Cpu, Mapped(c)
    PROVE  IInv'
<1>1. PICK ok \in BOOLEAN : ok = TRUE
  OBVIOUS
<1>2. op' = [op EXCEPT ![c] = Returned(ok)]
  BY <1>1 DEF Mapped
<1> QED
  BY <1>2, StepReturned DEF Mapped

LEMMA StepReturn ==
    ASSUME IInv, NEW c \in Cpu, Return(c)
    PROVE  IInv'
<1>1. RemoveOK(Entries, op[c]) /\ op[c].kind = "remove" /\ op[c].step = "visit"
      /\ Head(op[c].stack).done >= Head(op[c].stack).size
  BY OpsAre DEF Return, Removing
<1>2. Head(op[c].stack) = op[c].stack[1]
  OBVIOUS
<1>3. CASE Tail(op[c].stack) = <<>>
  <2>1. PICK ok \in BOOLEAN : ok = TRUE
    OBVIOUS
  <2>2. op' = [op EXCEPT ![c] = Returned(ok)]
    BY <1>3, <2>1 DEF Return
  <2> QED
    BY <1>1, <2>2, StepReturned DEF Return
<1>4. CASE Tail(op[c].stack) # <<>>
  <2>1. PICK x : x = [op[c] EXCEPT !.stack = AdvancedTop(Tail(op[c].stack))]
    OBVIOUS
  <2>2. op' = [op EXCEPT ![c] = x]
    <3>1. op' = [op EXCEPT ![c].stack = AdvancedTop(Tail(@))]
      BY <1>4 DEF Return
    <3> QED
      BY <2>1, <3>1
  <2>3. RemoveOK(Entries, x) /\ SameRequest(op[c], x)
    BY <1>1, <1>2, <1>4, <2>1, ReturnKeeps
  <2>4. OpOK(Entries, x) /\ GoesOn(Entries, Entries, op[c], x)
    BY <2>3, SameGoesOn DEF OpOK, SameRequest
  <2>5. UNCHANGED <<tables, free, tlb, removedBy>> /\ requests' \in Nat
    BY InvariantIs DEF Return
  <2> QED
    BY <1>1, <2>2, <2>4, <2>5, QuietStep
<1> QED
  BY <1>3, <1>4

\* The entry of a call is found in the table of its first page.
LEMMA BaseEntry ==
    (\E L, N : IsTree(tables, free, L, N)) =>
        \A base, page \in Page, level \in Level :
            Number(base, level + 1) = Number(page, level + 1) =>
                EntryIn(base, page, level) = Entries[page][level]
<1> SUFFICES ASSUME NEW L, NEW N, IsTree(tables, free, L, N),
                    NEW base \in Page, NEW page \in Page, NEW level \in Level,
                    Number(base, level + 1) = Number(page, level + 1)
             PROVE  EntryIn(base, page, level) = Entries[page][level]
  OBVIOUS
<1>1. TablesFor(base, level) = TablesFor(page, level)
  BY TablesForIs
<1>2. EntryIn(base, page, level) = EntryIn(page, page, level)
  BY <1>1 DEF EntryIn
<1>3. Entries[page][level] = EntryIn(page, page, level)
  BY DEF Entries, Entry
<1> QED
  BY <1>2, <1>3

LEMMA StepVisit ==
    ASSUME IInv, NEW c \in Cpu, Visit(c)
    PROVE  IInv'
<1>1. RemoveOK(Entries, op[c]) /\ op[c].kind = "remove" /\ op[c].step = "visit"
  BY OpsAre DEF Visit, Removing
<1>2. PICK call : call = op[c].stack[1] /\ call = Head(op[c].stack)
  OBVIOUS
<1>3. call.done < call.size
  BY <1>2 DEF Visit
<1>4. IsFlat(Entries) /\ \E L, N : IsTree(tables, free, L, N)
  BY InvariantIs
<1>5. /\ call.page \in Page /\ call.level \in Level
      /\ Number(call.base, call.level + 1) = Number(call.page, call.level + 1)
  BY <1>1, <1>2, <1>3, <1>4, TopEntry
<1>6. call.base \in Page
  <2>1. 1 \in 1 .. Len(op[c].stack)
    BY <1>1, RemoveTypes
  <2> QED
    BY <1>1, <1>2, <2>1, CallTypes
<1>7. EntryIn(call.base, call.page, call.level) = Entries[call.page][call.level]
  BY <1>4, <1>5, <1>6, BaseEntry
<1>8. PICK entry : entry = Entries[call.page][call.level]
  OBVIOUS
<1>9. UNCHANGED <<tables, free, tlb, removedBy, requests>>
  BY DEF Visit
<1>10. requests' \in Nat
  BY <1>9, InvariantIs
<1>11. \/ entry.kind = "absent" /\ op' = [op EXCEPT ![c].stack = AdvancedTop(@)]
       \/ /\ entry.kind = "table"
          /\ op' = [op EXCEPT ![c].stack =
                       <<Call(call.level - 1, call.page, Portion(call))>> \o @]
       \/ /\ entry.kind = "page"
          /\ op' = IF call.level > 0 /\ Portion(call) # PageSize[call.level]
                   THEN [op EXCEPT ![c] = Returned(FALSE)]
                   ELSE [op EXCEPT ![c].step = "clear"]
  BY <1>2, <1>7, <1>8 DEF Visit
<1>12. ASSUME NEW x, RemoveOK(Entries, x), SameRequest(op[c], x), op' = [op EXCEPT ![c] = x]
       PROVE  IInv'
  <2>1. OpOK(Entries, x) /\ GoesOn(Entries, Entries, op[c], x)
    BY <1>12, SameGoesOn DEF OpOK, SameRequest
  <2> QED
    BY <1>1, <1>9, <1>10, <1>12, <2>1, QuietStep
<1>13. CASE entry.kind = "absent"
  <2>1. PICK x : x = [op[c] EXCEPT !.stack = AdvancedTop(@)]
    OBVIOUS
  <2>2. RemoveOK(Entries, x) /\ SameRequest(op[c], x)
    BY <1>1, <1>2, <1>3, <1>4, <1>8, <1>13, <2>1, VisitAbsentKeeps
  <2>3. op' = [op EXCEPT ![c] = x]
    BY <1>11, <1>13, <2>1
  <2> QED
    BY <1>12, <2>2, <2>3
<1>14. CASE entry.kind = "table"
  <2>1. PICK x : x = [op[c] EXCEPT !.stack = <<Call(call.level - 1, call.page, Portion(call))>> \o @]
    OBVIOUS
  <2>2. RemoveOK(Entries, x) /\ SameRequest(op[c], x)
    BY <1>1, <1>2, <1>3, <1>4, <1>8, <1>14, <2>1, VisitTableKeeps
  <2>3. op' = [op EXCEPT ![c] = x]
    BY <1>11, <1>14, <2>1
  <2> QED
    BY <1>12, <2>2, <2>3
<1>15. CASE entry.kind = "page" /\ call.level > 0 /\ Portion(call) # PageSize[call.level]
  <2>1. PICK ok \in BOOLEAN : ok = FALSE
    OBVIOUS
  <2>2. op' = [op EXCEPT ![c] = Returned(ok)]
    BY <1>11, <1>15, <2>1
  <2> QED
    BY <1>1, <1>9, <2>2, StepReturned
<1>16. CASE entry.kind = "page" /\ ~(call.level > 0 /\ Portion(call) # PageSize[call.level])
  <2>1. PICK x : x = [op[c] EXCEPT !.step = "clear"]
    OBVIOUS
  <2>2. RemoveOK(Entries, x) /\ SameRequest(op[c], x)
    BY <1>1, <1>2, <1>3, <1>4, <1>8, <1>16, <2>1, VisitPageKeeps
  <2>3. op' = [op EXCEPT ![c] = x]
    BY <1>11, <1>16, <2>1
  <2> QED
    BY <1>12, <2>2, <2>3
<1> QED
  BY <1>11, <1>13, <1>14, <1>15, <1>16

LEMMA StepAdd ==
    ASSUME IInv, ~AnyClient, NEW c \in Cpu, Add(c)
    PROVE  IInv'
<1>1. PICK first \in Page, size \in 1 .. MaxSize, delta \in Delta :
         LET request == [kind |-> "add", first |-> first, size |-> size, delta |-> delta,
                         page |-> first, level |-> Levels - 1, absent |-> FALSE]
         IN  Begin(c, request) /\ CarefulAdd(c, request)
  BY DEF Add
<1>2. PICK o : o = [kind |-> "add", first |-> first, size |-> size, delta |-> delta,
                    page |-> first, level |-> Levels - 1, absent |-> FALSE]
  OBVIOUS
<1>3. Begin(c, o) /\ CarefulAdd(c, o)
  BY <1>1, <1>2
<1>4. /\ o.kind = "add" /\ o.first = first /\ o.size = size /\ o.delta = delta
      /\ size \in Nat /\ size > 0
  BY <1>2, PageTablesAssumption
<1>5. first + size <= PageSize[Levels] /\ RequestFits(o)
  BY <1>3, <1>4 DEF Begin, RequestFits
<1>6. Pages(o) \subseteq Page
  BY <1>4, <1>5, RequestPages
<1>7. IsFlat(Entries)
  BY InvariantIs
<1>8. \A p \in Pages(o) : Unmapped(Entries, p)
  <2> TAKE p \in Pages(o)
  <2>1. Translation(p) = NoMapping
    BY <1>3 DEF CarefulAdd
  <2>2. TranslatesTo(Entries, p, Translation(p))
    BY <1>6, <1>7, TranslationIs
  <2> QED
    BY <2>1, <2>2 DEF TranslatesTo
<1>9. \A p \in Pages(o), l \in Level : Entry(p, l) = Entries[p][l]
  BY <1>6 DEF Entries
<1>10. \A p \in Pages(o), l \in LargeLevel : Entries[p][l].kind = "table" =>
           BestLevel(p, first + size - p, p + delta) < l
  <2> TAKE p \in Pages(o), l \in LargeLevel
  <2>1. Entry(p, l).kind = "table" => BestLevel(p, o.first + o.size - p, p + o.delta) < l
    BY <1>3 DEF CarefulAdd
  <2>2. l \in Level
    BY ConstantsAre
  <2> QED
    BY <1>4, <1>9, <2>1, <2>2
<1>11. OpOK(Entries, o)
  <2>1. AddOK(Entries, o)
    BY <1>2, <1>4, <1>5, <1>8, <1>10, BeginAddKeeps
  <2> QED
    BY <2>1 DEF OpOK
<1>12. \A d \in Cpu \ {c} : OpsApart(Entries, o, op[d])
  <2> SUFFICES ASSUME NEW d \in Cpu \ {c}, op[d].kind # "returned"
               PROVE  /\ Pages(o) \cap Pages(op[d]) = {}
                      /\ op[d].kind = "add" => AddsApart(Entries, o, op[d])
    BY DEF OpsApart
  <2>1. d \in Others(c)
    BY DEF Others, Busy
  <2>2. Pages(op[d]) \cap Pages(o) = {}
    BY <1>3, <2>1 DEF CarefulAdd
  <2>3. ASSUME op[d].kind = "add"
        PROVE  AddsApart(Entries, o, op[d])
    <3> SUFFICES ASSUME NEW p \in Pages(o), NEW q \in Pages(op[d]), NEW l \in Level \ {0},
                        Entries[p][l] = Absent, Entries[q][l] = Absent
                 PROVE  Number(p, l) # Number(q, l)
      BY DEF AddsApart
    <3>1. Missing(op[d]) \cap Missing(o) = {}
      BY <1>3, <2>1, <2>3 DEF CarefulAdd
    <3>2. l \in 1 .. Levels - 1
      BY ConstantsAre
    <3>3. q \in Page
      BY <2>3, OpsAre, AddTypes
    <3>4. Entry(p, l) = Absent /\ Entry(q, l) = Absent
      BY <1>9, <3>3 DEF Entries
    <3>5. <<l, p \div PageSize[l]>> \in Missing(o)
      BY <3>2, <3>4 DEF Missing
    <3>6. <<l, q \div PageSize[l]>> \in Missing(op[d])
      BY <3>2, <3>4 DEF Missing
    <3> QED
      BY <3>1, <3>5, <3>6 DEF Number
  <2> QED
    BY <2>2, <2>3
<1>13. /\ op' = [op EXCEPT ![c] = o] /\ UNCHANGED <<tables, free, tlb, removedBy>>
       /\ op[c].kind = "returned" /\ requests' = requests + 1
  BY <1>3 DEF Begin, Busy
<1>14. requests' \in Nat
  BY <1>13, InvariantIs
<1>15. ~(op[c].kind = "remove" /\ op[c].step = "flush")
  BY <1>13
<1> QED
  BY <1>11, <1>12, <1>13, <1>14, <1>15, QuietStep

LEMMA StepRemove ==
    ASSUME IInv, ~AnyClient, NEW c \in Cpu, Remove(c)
    PROVE  IInv'
<1>1. PICK first \in Page, size \in 1 .. MaxSize :
         LET request == [kind |-> "remove", first |-> first, size |-> size, step |-> "visit",
                         stack |-> <<Call(Levels - 1, first, size)>>]
         IN  Begin(c, request) /\ CarefulRemove(c, request)
  BY DEF Remove
<1>2. PICK o : o = [kind |-> "remove", first |-> first, size |-> size, step |-> "visit",
                    stack |-> <<Call(Levels - 1, first, size)>>]
  OBVIOUS
<1>3. Begin(c, o) /\ CarefulRemove(c, o)
  BY <1>1, <1>2
<1>4. o.kind = "remove" /\ o.first = first /\ o.size = size /\ size \in Nat /\ size > 0
  BY <1>2, PageTablesAssumption
<1>5. first + size <= PageSize[Levels]
  BY <1>3, <1>4 DEF Begin
<1>6. \A l \in 1 .. Levels - 1 :
         first % PageSize[l] = 0 \/ (first % PageSize[l]) + size <= PageSize[l]
  BY <1>3, <1>4 DEF CarefulRemove
<1>7. OpOK(Entries, o)
  <2>1. RemoveOK(Entries, o)
    BY <1>2, <1>4, <1>5, <1>6, BeginRemoveKeeps
  <2> QED
    BY <2>1 DEF OpOK
<1>8. \A d \in Cpu \ {c} : OpsApart(Entries, o, op[d])
  <2> SUFFICES ASSUME NEW d \in Cpu \ {c}, op[d].kind # "returned"
               PROVE  Pages(o) \cap Pages(op[d]) = {}
    BY <1>4 DEF OpsApart
  <2>1. d \in Others(c)
    BY DEF Others, Busy
  <2> QED
    BY <1>3, <2>1 DEF CarefulRemove
<1>9. /\ op' = [op EXCEPT ![c] = o] /\ UNCHANGED <<tables, free, tlb, removedBy>>
      /\ op[c].kind = "returned" /\ requests' = requests + 1
  BY <1>3 DEF Begin, Busy
<1>10. requests' \in Nat
  BY <1>9, InvariantIs
<1>11. ~(op[c].kind = "remove" /\ op[c].step = "flush")
  BY <1>9
<1> QED
  BY <1>7, <1>8, <1>9, <1>10, <1>11, QuietStep

LEMMA TreeIsFlatNext == (\E L, N : IsTree(tables', free', L, N)) => IsFlat(Entries')
<1> SUFFICES ASSUME NEW L, NEW N, IsTree(tables', free', L, N)
             PROVE  IsFlat(Entries')
  OBVIOUS
<1>1. EntriesAt(tables', free', L, N, Entries')
  BY EntriesAreNext
<1> QED
  BY <1>1, FlatFromTree

\* What is left to show of a step that writes.
LEMMA InvariantNext ==
    ASSUME IInv, NEW c \in Cpu, NEW x, op' = [op EXCEPT ![c] = x],
           \E L, N : IsTree(tables', free', L, N), requests' \in Nat,
           removedBy' \in [Page -> Cpu \cup {Nobody}],
           OpsOK(Entries', op'), TlbsOK(Entries', op', tlb', removedBy')
    PROVE  IInv'
<1>1. op' \in [Cpu -> {op'[d] : d \in Cpu}]
  BY InvariantIs, OpUpdate
<1> QED
  BY <1>1 DEF IInv

\* Pages are as they were, or changed as the request of o asks.
MapsPages(G, H, o) ==
    \A p \in Page : \/ \A l \in Level : H[p][l] = G[p][l]
                    \/ p \in Pages(o) /\ MapsTo(H, p, p + o.delta)
UnmapsPages(G, H, o) ==
    \A p \in Page : \/ \A l \in Level : H[p][l] = G[p][l]
                    \/ p \in Pages(o) /\ Unmapped(H, p)

LEMMA StepAddSubTable ==
    ASSUME IInv, NEW c \in Cpu, AddSubTable(c)
    PROVE  IInv' /\ PagesKept(Entries, Entries', Page)
<1>1. PICK frame \in free : /\ free' = free \ {frame}
                            /\ Write(op[c].page, op[c].page, op[c].level, SubTable(frame))
  BY DEF AddSubTable
<1>2. PICK o : o = op[c]
  OBVIOUS
<1>3. AddOK(Entries, o) /\ o.absent /\ o.kind = "add" /\ OpOK(Entries, o)
  BY <1>2, OpsAre DEF AddSubTable
<1>4. /\ o.page < o.first + o.size /\ o.level > TargetLevel(o)
      /\ Entries[o.page][o.level] = Absent /\ Upward(Entries, o.page, o.level)
  BY <1>3 DEF AddOK
<1>5. o.page \in Pages(o) /\ o.page \in Page /\ o.level \in Level /\ o.level > 0
  <2>1. o.page \in Pages(o) /\ Pages(o) \subseteq Page /\ o.level \in Level
    BY <1>3, <1>4, AddTypes
  <2>2. TargetLevel(o) \in Level
    BY <1>3, <1>4, TargetIs
  <2> QED
    BY <1>4, <2>1, <2>2, ConstantsAre
<1>6. /\ \E L, N : IsTree(tables, free, L, N)
      /\ IsFlat(Entries) /\ OpsOK(Entries, op) /\ TlbsOK(Entries, op, tlb, removedBy)
      /\ DOMAIN op = Cpu /\ requests \in Nat /\ removedBy \in [Page -> Cpu \cup {Nobody}]
  BY InvariantIs
<1>7. Write(o.page, o.page, o.level, SubTable(frame))
  BY <1>1, <1>2
<1>8. /\ \E L, N : IsTree(tables', free', L, N)
      /\ Changed(Entries, Entries', o.page, o.level, SubTable(frame))
  BY <1>1, <1>4, <1>5, <1>6, <1>7, WriteTable
<1>9. IsFlat(Entries')
  BY <1>8, TreeIsFlatNext
<1>10. PICK H : H = Entries'
  OBVIOUS
<1>11. IsFlat(H) /\ Changed(Entries, H, o.page, o.level, SubTable(frame))
  BY <1>8, <1>9, <1>10
<1>12. PICK x : x = SubTableAdded(o)
  OBVIOUS
<1>13. op' = [op EXCEPT ![c] = x]
  BY <1>2, <1>12 DEF AddSubTable, SubTableAdded
<1>14. AddOK(H, x) /\ x.kind = o.kind /\ x.first = o.first /\ x.size = o.size
  <2> HIDE DEF SubTable
  <2>1. AddOK(Entries, o) /\ o.absent /\ IsFlat(Entries) /\ IsFlat(H)
        /\ Changed(Entries, H, o.page, o.level, SubTable(frame))
    BY <1>3, <1>6, <1>11
  <2> QED
    BY <1>12, <2>1, AddSubTableKeeps
<1>15. /\ TablesPersist(Entries, H) /\ PagesKept(Entries, H, Page)
       /\ \A p \in Page, l \in Level : H[p][l] = Absent => Entries[p][l] = Absent
       /\ \A a, r : OpOK(Entries, a) /\ OpsApart(Entries, a, r) /\ r.kind = "add" /\ o.page \in Pages(r)
                        => KeepsOther(Entries, H, a)
  BY <1>4, <1>5, <1>6, <1>11, TableEffect
<1>16. op'[c] = x /\ \A d \in Cpu \ {c} : op'[d] = op[d]
  BY <1>6, <1>13, OpUpdate
<1>17. \A d \in Cpu \ {c} : op'[d] = op[d] /\ KeepsOther(Entries, H, op[d])
  <2> TAKE d \in Cpu \ {c}
  <2>1. OpOK(Entries, op[d]) /\ OpsApart(Entries, op[d], o)
    BY <1>2, <1>6 DEF OpsOK
  <2>2. KeepsOther(Entries, H, op[d])
    BY <1>3, <1>5, <1>15, <2>1
  <2> QED
    BY <1>16, <2>2
<1>18. OpOK(H, op'[c]) /\ GoesOn(Entries, H, op[c], op'[c])
  <2>1. \A p \in Pages(o), l \in Level : H[p][l] = Absent => Entries[p][l] = Absent
    BY <1>3, <1>15, AddTypes
  <2> QED
    BY <1>2, <1>14, <1>16, <2>1 DEF OpOK, GoesOn
<1>19. OpsOK(H, op')
  BY <1>6, <1>15, <1>17, <1>18, OpsKept
<1>20. TlbsOK(H, op', tlb, removedBy)
  <2>1. \A p \in Page : \A a : MapsTo(Entries, p, a) => MapsTo(H, p, a)
    BY <1>15, MappingsKept
  <2>2. ~(op[c].kind = "remove" /\ op[c].step = "flush")
    BY <1>2, <1>3
  <2> QED
    BY <1>6, <1>15, <1>16, <2>1, <2>2, TlbsKept
<1>21. tlb' = tlb /\ removedBy' = removedBy /\ requests' = requests
  BY DEF AddSubTable
<1>22. OpsOK(Entries', op') /\ TlbsOK(Entries', op', tlb', removedBy')
  BY <1>10, <1>19, <1>20, <1>21
<1>23. requests' \in Nat /\ removedBy' \in [Page -> Cpu \cup {Nobody}]
  BY <1>6, <1>21
<1>24. IInv'
  BY <1>8, <1>13, <1>22, <1>23, InvariantNext
<1>25. PagesKept(Entries, Entries', Page)
  BY <1>10, <1>15
<1> QED
  BY <1>24, <1>25

LEMMA StepWriteMapping ==
    ASSUME IInv, NEW c \in Cpu, WriteMapping(c)
    PROVE  IInv' /\ MapsPages(Entries, Entries', op[c])
<1>1. PICK o : o = op[c]
  OBVIOUS
<1>2. AddOK(Entries, o) /\ ~o.absent /\ o.kind = "add" /\ o.page < o.first + o.size
      /\ o.level = TargetLevel(o)
  BY <1>1, OpsAre DEF WriteMapping, Adding
<1>3. /\ \E L, N : IsTree(tables, free, L, N)
      /\ IsFlat(Entries) /\ OpsOK(Entries, op) /\ TlbsOK(Entries, op, tlb, removedBy)
      /\ DOMAIN op = Cpu /\ requests \in Nat /\ removedBy \in [Page -> Cpu \cup {Nobody}]
  BY InvariantIs
<1>4. /\ o.page \in Page /\ o.level \in Level /\ Upward(Entries, o.page, o.level)
      /\ Entries[o.page][o.level] = Absent
      /\ \A p \in Page : Number(p, o.level) = Number(o.page, o.level)
            <=> p \in o.page .. o.page + PageSize[o.level] - 1
      /\ \A p \in o.page .. o.page + PageSize[o.level] - 1 :
            p \in Pages(o) /\ p % PageSize[o.level] = p - o.page
  BY <1>2, <1>3, TargetEntry
<1>5. PICK e : e = PageAt(o.page + o.delta)
  OBVIOUS
<1>6. e \in AnyEntry /\ e.kind # "table" /\ Entries[o.page][o.level].kind # "table"
  <2>1. o.page \in Int /\ o.delta \in Int
    BY <1>2, AddTypes
  <2> QED
    BY <1>4, <1>5, <2>1 DEF PageAt, AnyEntry, Absent
<1>7. Write(o.page, o.page, o.level, e) /\ free' = free
  BY <1>1, <1>5 DEF WriteMapping
<1>8. /\ \E L, N : IsTree(tables', free', L, N)
      /\ Changed(Entries, Entries', o.page, o.level, e)
  BY <1>3, <1>4, <1>6, <1>7, WriteEntry
<1>9. IsFlat(Entries')
  BY <1>8, TreeIsFlatNext
<1>10. PICK H : H = Entries'
  OBVIOUS
<1>11. IsFlat(H) /\ Changed(Entries, H, o.page, o.level, e)
  BY <1>8, <1>9, <1>10
<1>12. PICK x : x = MappingWritten(o)
  OBVIOUS
<1>13. op' = [op EXCEPT ![c] = x]
  BY <1>1, <1>12 DEF WriteMapping, MappingWritten
<1>14. /\ AddOK(H, x) /\ x.kind = o.kind /\ x.first = o.first /\ x.size = o.size
       /\ \A p \in Page, l \in Level :
             \/ H[p][l] = Entries[p][l]
             \/ Entries[p][l] = Absent /\ H[p][l].kind = "page" /\ p \in Pages(o)
                /\ MapsTo(H, p, p + o.delta)
  <2>1. Changed(Entries, H, o.page, o.level, PageAt(o.page + o.delta))
    BY <1>5, <1>11
  <2>2. IsFlat(Entries) /\ IsFlat(H)
    BY <1>3, <1>11
  <2> QED
    BY <1>2, <1>12, <2>1, <2>2, WriteMappingKeeps
<1>15. /\ TablesPersist(Entries, H)
       /\ \A a : OpOK(Entries, a) /\ OpsApart(Entries, a, o) => KeepsOther(Entries, H, a)
  <2>1. \A p \in Page : Number(p, o.level) = Number(o.page, o.level) => p \in Pages(o)
    BY <1>4
  <2>2. o.kind # "returned"
    BY <1>2
  <2> QED
    BY <1>3, <1>4, <1>6, <1>11, <2>1, <2>2, OwnEffect
<1>16. op'[c] = x /\ \A d \in Cpu \ {c} : op'[d] = op[d]
  BY <1>3, <1>13, OpUpdate
<1>17. \A d \in Cpu \ {c} : op'[d] = op[d] /\ KeepsOther(Entries, H, op[d])
  <2> TAKE d \in Cpu \ {c}
  <2>1. OpOK(Entries, op[d]) /\ OpsApart(Entries, op[d], o)
    BY <1>1, <1>3 DEF OpsOK
  <2>2. KeepsOther(Entries, H, op[d])
    BY <1>15, <2>1
  <2> QED
    BY <1>16, <2>2
<1>18. OpOK(H, op'[c]) /\ GoesOn(Entries, H, op[c], op'[c])
  <2>1. \A p \in Pages(o), l \in Level : H[p][l] = Absent => Entries[p][l] = Absent
    <3> TAKE p \in Pages(o), l \in Level
    <3>1. p \in Page
      BY <1>2, AddTypes
    <3> QED
      BY <1>14, <3>1 DEF Absent
  <2> QED
    BY <1>1, <1>14, <1>16, <2>1 DEF OpOK, GoesOn
<1>19. OpsOK(H, op')
  BY <1>3, <1>15, <1>17, <1>18, OpsKept
<1>20. TlbsOK(H, op', tlb, removedBy)
  <2>1. \A p \in Page : \A a : MapsTo(Entries, p, a) => MapsTo(H, p, a)
    <3> SUFFICES ASSUME NEW p \in Page, NEW a, NEW l \in Level, Entries[p][l].kind = "page",
                        a = Entries[p][l].address + (p % PageSize[l])
                 PROVE  MapsTo(H, p, a)
      BY DEF MapsTo
    <3>1. H[p][l] = Entries[p][l]
      BY <1>14 DEF Absent
    <3> QED
      BY <3>1 DEF MapsTo
  <2>2. ~(op[c].kind = "remove" /\ op[c].step = "flush")
    BY <1>1, <1>2
  <2> QED
    BY <1>3, <1>15, <1>16, <2>1, <2>2, TlbsKept
<1>21. tlb' = tlb /\ removedBy' = removedBy /\ requests' = requests
  BY DEF WriteMapping
<1>22. OpsOK(Entries', op') /\ TlbsOK(Entries', op', tlb', removedBy')
  BY <1>10, <1>19, <1>20, <1>21
<1>23. requests' \in Nat /\ removedBy' \in [Page -> Cpu \cup {Nobody}]
  BY <1>3, <1>21
<1>24. IInv'
  BY <1>8, <1>13, <1>22, <1>23, InvariantNext
<1>25. MapsPages(Entries, H, o)
  BY <1>14 DEF MapsPages
<1>26. MapsPages(Entries, Entries', op[c])
  BY <1>1, <1>10, <1>25
<1> QED
  BY <1>24, <1>26

LEMMA StepClear ==
    ASSUME IInv, NEW c \in Cpu, Clear(c)
    PROVE  IInv' /\ UnmapsPages(Entries, Entries', op[c])
<1>1. PICK o : o = op[c]
  OBVIOUS
<1>2. PICK call : call = o.stack[1] /\ call = Head(o.stack)
  OBVIOUS
<1>3. RemoveOK(Entries, o) /\ o.kind = "remove" /\ o.step = "clear"
  BY <1>1, OpsAre DEF Clear, Removing
<1>4. /\ \E L, N : IsTree(tables, free, L, N)
      /\ IsFlat(Entries) /\ OpsOK(Entries, op) /\ TlbsOK(Entries, op, tlb, removedBy)
      /\ DOMAIN op = Cpu /\ requests \in Nat /\ removedBy \in [Page -> Cpu \cup {Nobody}]
  BY InvariantIs
<1>5. /\ call.page \in Page /\ call.base \in Page /\ call.level \in Level
      /\ Number(call.base, call.level + 1) = Number(call.page, call.level + 1)
      /\ Upward(Entries, call.page, call.level)
      /\ Entries[call.page][call.level].kind = "page"
      /\ call.page \in EntryPages(call)
      /\ EntryPages(call) \subseteq Pages(o) /\ Pages(o) \subseteq Page
      /\ \A p \in Page : p \in EntryPages(call) <=> Number(p, call.level) = Number(call.page, call.level)
  BY <1>2, <1>3, <1>4, ClearEntry
<1>6. PICK e : e = Absent
  OBVIOUS
<1>7. e \in AnyEntry /\ e.kind # "table" /\ Entries[call.page][call.level].kind # "table"
  BY <1>5, <1>6 DEF AnyEntry, Absent
<1>8. Write(call.base, call.page, call.level, e) /\ free' = free
  BY <1>1, <1>2, <1>6 DEF Clear
<1>9. /\ \E L, N : IsTree(tables', free', L, N)
      /\ Changed(Entries, Entries', call.page, call.level, e)
  BY <1>4, <1>5, <1>7, <1>8, WriteEntry
<1>10. PICK H : H = Entries'
  OBVIOUS
<1>11. IsFlat(H) /\ Changed(Entries, H, call.page, call.level, Absent)
  BY <1>6, <1>9, <1>10, TreeIsFlatNext
<1>12. PICK x : x = [o EXCEPT !.step = "flush"]
  OBVIOUS
<1>13. op' = [op EXCEPT ![c] = x]
  BY <1>1, <1>12 DEF Clear
<1>14. RemoveOK(H, x) /\ SameRequest(o, x) /\ \A p \in EntryPages(call) : Unmapped(H, p)
  BY <1>2, <1>3, <1>4, <1>11, <1>12, ClearKeeps
<1>15. /\ TablesPersist(Entries, H)
       /\ \A a : OpOK(Entries, a) /\ OpsApart(Entries, a, o) => KeepsOther(Entries, H, a)
  <2>1. \A p \in Page : Number(p, call.level) = Number(call.page, call.level) => p \in Pages(o)
    BY <1>5
  <2>2. o.kind # "returned"
    BY <1>3
  <2> QED
    BY <1>4, <1>5, <1>7, <1>11, <2>1, <2>2, OwnEffect
<1>16. op'[c] = x /\ \A d \in Cpu \ {c} : op'[d] = op[d]
  BY <1>4, <1>13, OpUpdate
<1>17. \A d \in Cpu \ {c} : op'[d] = op[d] /\ KeepsOther(Entries, H, op[d])
  <2> TAKE d \in Cpu \ {c}
  <2>1. OpOK(Entries, op[d]) /\ OpsApart(Entries, op[d], o)
    BY <1>1, <1>4 DEF OpsOK
  <2>2. KeepsOther(Entries, H, op[d])
    BY <1>15, <2>1
  <2> QED
    BY <1>16, <2>2
<1>18. OpOK(H, op'[c]) /\ GoesOn(Entries, H, op[c], op'[c])
  BY <1>1, <1>3, <1>14, <1>16 DEF OpOK, GoesOn, SameRequest
<1>19. OpsOK(H, op')
  BY <1>4, <1>15, <1>17, <1>18, OpsKept
<1>20. /\ removedBy' \in [Page -> Cpu \cup {Nobody}]
       /\ \A p \in Page : removedBy'[p] = IF p \in EntryPages(call) THEN c ELSE removedBy[p]
  BY <1>1, <1>2, <1>4 DEF Clear, EntryPages
<1>21. PICK R : R = removedBy'
  OBVIOUS
<1>22. TlbsOK(H, op', tlb, R)
  <2>1. \A t \in tlb : TlbOK(Entries, t)
    BY <1>4 DEF TlbsOK
  <2>2. \A t \in tlb : TlbOK(H, t)
    BY <1>15, <2>1, TlbKept
  <2>3. ASSUME NEW t \in tlb, NEW p \in Page, Stale(H, R, t, p)
        PROVE  FlushComes(op'[t.cpu], t)
    <3>1. TlbOK(Entries, t) /\ t.cpu \in Cpu
      BY <2>1 DEF TlbOK
    <3>2. Covers(t, p) /\ R[p] = t.cpu
      BY <2>3 DEF Stale
    <3>3. CASE p \in EntryPages(call)
      <4>1. Number(p, call.level) = Number(call.page, call.level)
        BY <1>5, <3>3
      <4>2. Covers(t, call.page)
        BY <1>4, <1>5, <3>1, <3>2, <4>1, CoversEntry
      <4>3. t.cpu = c
        BY <1>20, <1>21, <3>2, <3>3
      <4>4. x.kind = "remove" /\ x.step = "flush" /\ x.stack[1].page = call.page
        BY <1>2, <1>3, <1>12 DEF RemoveOK, RemoveRequest
      <4> QED
        BY <1>16, <4>2, <4>3, <4>4 DEF FlushComes
    <3>4. CASE p \notin EntryPages(call)
      <4>1. Number(p, call.level) # Number(call.page, call.level)
        BY <1>5, <3>4
      <4>2. \A l \in Level : H[p][l] = Entries[p][l]
        BY <1>11, <4>1 DEF Changed
      <4>3. ~MapsTo(Entries, p, t.address + p - t.first)
        BY <2>3, <4>2 DEF Stale, MapsTo
      <4>4. Stale(Entries, removedBy, t, p)
        BY <1>20, <1>21, <3>2, <3>4, <4>3 DEF Stale
      <4>5. FlushComes(op[t.cpu], t)
        BY <1>4, <4>4 DEF TlbsOK
      <4>6. t.cpu # c
        BY <1>1, <1>3, <4>5 DEF FlushComes
      <4> QED
        BY <1>16, <3>1, <4>5, <4>6
    <3> QED
      BY <3>3, <3>4
  <2> QED
    BY <2>2, <2>3 DEF TlbsOK
<1>23. tlb' = tlb /\ requests' = requests
  BY DEF Clear
<1>24. OpsOK(Entries', op') /\ TlbsOK(Entries', op', tlb', removedBy')
  BY <1>10, <1>19, <1>21, <1>22, <1>23
<1>25. requests' \in Nat
  BY <1>4, <1>23
<1>26. IInv'
  BY <1>9, <1>13, <1>20, <1>24, <1>25, InvariantNext
<1>27. UnmapsPages(Entries, H, o)
  <2>1. ASSUME NEW p \in Page, p \notin EntryPages(call), NEW l \in Level
        PROVE  H[p][l] = Entries[p][l]
    BY <1>5, <1>11, <2>1 DEF Changed
  <2> QED
    BY <1>5, <1>14, <2>1 DEF UnmapsPages
<1>28. UnmapsPages(Entries, Entries', op[c])
  BY <1>1, <1>10, <1>27
<1> QED
  BY <1>26, <1>28

LEMMA StepFlush ==
    ASSUME IInv, NEW c \in Cpu, Flush(c)
    PROVE  IInv'
<1>1. PICK o : o = op[c]
  OBVIOUS
<1>2. RemoveOK(Entries, o) /\ o.kind = "remove" /\ o.step = "flush"
  BY <1>1, OpsAre DEF Flush, Removing
<1>3. /\ \E L, N : IsTree(tables, free, L, N)
      /\ IsFlat(Entries) /\ OpsOK(Entries, op) /\ TlbsOK(Entries, op, tlb, removedBy)
      /\ DOMAIN op = Cpu /\ requests \in Nat /\ removedBy \in [Page -> Cpu \cup {Nobody}]
  BY InvariantIs
<1>4. PICK x : x = [o EXCEPT !.step = "visit", !.stack = AdvancedTop(@)]
  OBVIOUS
<1>5. op' = [op EXCEPT ![c] = x]
  BY <1>1, <1>4 DEF Flush
<1>6. RemoveOK(Entries, x) /\ SameRequest(o, x)
  BY <1>2, <1>4, FlushKeeps
<1>7. op'[c] = x /\ \A d \in Cpu \ {c} : op'[d] = op[d]
  BY <1>3, <1>5, OpUpdate
<1>8. OpsOK(Entries, op')
  <2>1. TablesPersist(Entries, Entries) /\ \A a : KeepsOther(Entries, Entries, a)
    BY KeepsSame
  <2>2. OpOK(Entries, op'[c]) /\ GoesOn(Entries, Entries, op[c], op'[c])
    BY <1>1, <1>6, <1>7, SameGoesOn DEF OpOK, SameRequest
  <2>3. \A d \in Cpu \ {c} : op'[d] = op[d] /\ KeepsOther(Entries, Entries, op[d])
    BY <1>7, <2>1
  <2> QED
    BY <1>3, <2>1, <2>2, <2>3, OpsKept
<1>9. tlb' = {t \in tlb : ~(t.cpu = c /\ Covers(t, o.stack[1].page))}
  <2>1. Head(o.stack) = o.stack[1]
    OBVIOUS
  <2> QED
    BY <1>1, <2>1 DEF Flush, InvalidatePage
<1>10. TlbsOK(Entries, op', tlb', removedBy)
  <2>1. ASSUME NEW t \in tlb', NEW p \in Page, Stale(Entries, removedBy, t, p)
        PROVE  FlushComes(op'[t.cpu], t)
    <3>1. t \in tlb /\ ~(t.cpu = c /\ Covers(t, o.stack[1].page))
      BY <1>9
    <3>2. t.cpu \in Cpu /\ FlushComes(op[t.cpu], t)
      BY <1>3, <2>1, <3>1 DEF TlbsOK, TlbOK
    <3>3. t.cpu # c
      BY <1>1, <3>1, <3>2 DEF FlushComes
    <3> QED
      BY <1>7, <3>2, <3>3
  <2>2. \A t \in tlb' : TlbOK(Entries, t)
    BY <1>3, <1>9 DEF TlbsOK
  <2> QED
    BY <2>1, <2>2 DEF TlbsOK
<1>11. UNCHANGED <<tables, free, removedBy, requests>>
  BY DEF Flush
<1>12. Entries' = Entries
  BY <1>11, EntriesUnchanged
<1>13. OpsOK(Entries', op') /\ TlbsOK(Entries', op', tlb', removedBy')
  BY <1>8, <1>10, <1>11, <1>12
<1>14. /\ \E L, N : IsTree(tables', free', L, N)
       /\ requests' \in Nat /\ removedBy' \in [Page -> Cpu \cup {Nobody}]
  BY <1>3, <1>11
<1> QED
  BY <1>5, <1>13, <1>14, InvariantNext

LEMMA StepFillTlb ==
    ASSUME IInv, NEW c \in Cpu, FillTlb(c)
    PROVE  IInv'
<1>1. PICK page \in Page : \E l \in MappingLevels(page) : tlb' = {Cached(c, page, l)}
  BY DEF FillTlb
<1>2. PICK l \in MappingLevels(page) : tlb' = {Cached(c, page, l)}
  BY <1>1
<1>3. /\ \E L, N : IsTree(tables, free, L, N)
      /\ IsFlat(Entries) /\ OpsOK(Entries, op)
      /\ DOMAIN op = Cpu /\ requests \in Nat /\ removedBy \in [Page -> Cpu \cup {Nobody}]
  BY InvariantIs
<1>4. l \in Level /\ Entries[page][l].kind = "page" /\ Entry(page, l) = Entries[page][l]
  BY DEF MappingLevels, Entries
<1>5. PICK t : t = [cpu |-> c, first |-> page - (page % PageSize[l]), size |-> PageSize[l],
                    address |-> Entries[page][l].address]
  OBVIOUS
<1>6. tlb' = {t}
  BY <1>2, <1>4, <1>5 DEF Cached
<1>7. TlbOK(Entries, t) /\ \A q \in Page : Covers(t, q) => MapsTo(Entries, q, t.address + q - t.first)
  BY <1>3, <1>4, <1>5, CachedOK
<1>8. TlbsOK(Entries, op, tlb', removedBy)
  BY <1>6, <1>7 DEF TlbsOK, Stale
<1>9. UNCHANGED <<tables, free, op, removedBy, requests>>
  BY DEF FillTlb
<1>10. Entries' = Entries
  BY <1>9, EntriesUnchanged
<1>11. op' \in [Cpu -> {op'[d] : d \in Cpu}]
  BY <1>9 DEF IInv
<1>12. OpsOK(Entries', op') /\ TlbsOK(Entries', op', tlb', removedBy')
  BY <1>3, <1>8, <1>9, <1>10
<1>13. /\ \E L, N : IsTree(tables', free', L, N)
       /\ requests' \in Nat /\ removedBy' \in [Page -> Cpu \cup {Nobody}]
  BY <1>3, <1>9
<1> QED
  BY <1>11, <1>12, <1>13 DEF IInv

LEMMA StepNothing ==
    ASSUME IInv, UNCHANGED vars
    PROVE  IInv'
<1>1. UNCHANGED <<tables, free, op, tlb, removedBy, requests>>
  BY DEF vars
<1>2. Entries' = Entries
  BY <1>1, EntriesUnchanged
<1> QED
  BY <1>1, <1>2 DEF IInv

-----------------------------------------------------------------------------
(* The invariant *)

LEMMA Initially == Init => IInv
<1> SUFFICES ASSUME Init
             PROVE  IInv
  OBVIOUS
<1>1. \E L, N : IsTree(tables, free, L, N)
  <2>1. PICK F : F = TableFrame
    OBVIOUS
  <2>2. (TableFrame \ F) \cup {Root} = {Root} /\ free = F
    BY <2>1 DEF Init
  <2>3. PICK L : L = [t \in {Root} |-> Levels - 1]
    OBVIOUS
  <2>4. PICK N : N = [t \in {Root} |-> 0]
    OBVIOUS
  <2>5. IsPlaced(F, L, N)
    <3>1. Levels - 1 \in Level /\ 0 \in Nat
      BY ConstantsAre
    <3>2. L \in [{Root} -> Level] /\ N \in [{Root} -> Nat]
      BY <2>3, <2>4, <3>1
    <3> QED
      BY <2>1, <2>2, <2>3, <2>4, <3>2 DEF IsPlaced
  <2>6. tables = [t \in TableFrame \cup {Root} |-> [i \in Slot |-> Absent]]
    BY DEF Init, Slot
  <2>7. tables \in [TableFrame \cup {Root} -> [Slot -> AnyEntry]]
    <3>1. Absent \in AnyEntry
      BY DEF AnyEntry
    <3> QED
      BY <2>6, <3>1
  <2>8. \A t \in TableFrame \cup {Root}, i \in Slot : tables[t][i] = Absent
    BY <2>6
  <2>9. \A t \in {Root}, i \in Slot : tables[t][i].kind # "table"
    BY <2>8 DEF Absent
  <2>10. IsTree(tables, F, L, N)
    BY <2>1, <2>2, <2>5, <2>7, <2>8, <2>9 DEF IsTree
  <2> QED
    BY <2>2, <2>10
<1>2. op = [c \in Cpu |-> Returned(TRUE)] /\ \A c \in Cpu : op[c] = Returned(TRUE)
  BY DEF Init
<1>3. \A c \in Cpu : op[c].kind = "returned" /\ OpOK(Entries, op[c])
  BY <1>2 DEF Returned, OpOK
<1>4. OpsOK(Entries, op)
  BY <1>3 DEF OpsOK, OpsApart
<1>5. TlbsOK(Entries, op, tlb, removedBy)
  BY DEF Init, TlbsOK
<1>6. removedBy \in [Page -> Cpu \cup {Nobody}] /\ requests \in Nat
  BY DEF Init
<1>7. op \in [Cpu -> {op[c] : c \in Cpu}]
  BY <1>2
<1> QED
  BY <1>1, <1>4, <1>5, <1>6, <1>7 DEF IInv

LEMMA InvariantKept == ~AnyClient /\ IInv /\ [Next]_vars => IInv'
<1> SUFFICES ASSUME ~AnyClient, IInv, [Next]_vars
             PROVE  IInv'
  OBVIOUS
<1>1. CASE UNCHANGED vars
  BY <1>1, StepNothing
<1>2. ASSUME NEW c \in Cpu, Add(c) \/ Remove(c)
      PROVE  IInv'
  BY <1>2, StepAdd, StepRemove
<1>3. ASSUME NEW c \in Cpu, Descend(c) \/ AddSubTable(c) \/ NoSubTable(c)
                            \/ WriteMapping(c) \/ Mapped(c)
      PROVE  IInv'
  BY <1>3, StepDescend, StepAddSubTable, StepNoSubTable, StepWriteMapping, StepMapped
<1>4. ASSUME NEW c \in Cpu, Visit(c) \/ Clear(c) \/ Flush(c) \/ Return(c)
      PROVE  IInv'
  BY <1>4, StepVisit, StepClear, StepFlush, StepReturn
<1>5. ASSUME NEW c \in Cpu, FillTlb(c)
      PROVE  IInv'
  BY <1>5, StepFillTlb
<1> QED
  BY <1>1, <1>2, <1>3, <1>4, <1>5 DEF Next

\* With careful clients, the tables always form a tree of which the operations
\* in progress have a true picture, whatever the interleaving of the loads and
\* stores of addMapping and removeMapping on the processors.
THEOREM PageTablesInvariance == ~AnyClient => (Spec => []IInv)
<1> SUFFICES ASSUME ~AnyClient
             PROVE  Spec => []IInv
  OBVIOUS
<1>1. Init => IInv
  BY Initially
<1>2. IInv /\ [Next]_vars => IInv'
  BY InvariantKept
<1> QED
  BY <1>1, <1>2, PTL DEF Spec

-----------------------------------------------------------------------------
(* What it implies *)

LEMMA TreeOfReferences == IInv => TablesFormATree
<1> SUFFICES ASSUME IInv, NEW frame \in TableFrame
             PROVE  Cardinality(References(frame)) = IF frame \in free THEN 0 ELSE 1
  BY DEF TablesFormATree
<1>1. PICK L, N : IsTree(tables, free, L, N)
  BY DEF IInv
<1>2. PICK S : S = (TableFrame \ free) \cup {Root}
  OBVIOUS
<1>3. /\ DOMAIN tables = TableFrame \cup {Root}
      /\ free \subseteq TableFrame
      /\ L \in [S -> Level] /\ N \in [S -> Nat]
      /\ \A t, u \in S : L[t] = L[u] /\ N[t] = N[u] => t = u
      /\ \A f \in free, i \in Slot : tables[f][i] = Absent
      /\ \A t \in S, i \in Slot : tables[t][i].kind = "table" =>
            /\ L[t] > 0
            /\ tables[t][i].address \notin free
            /\ L[tables[t][i].address] = L[t] - 1
            /\ N[tables[t][i].address] = N[t] * EntryCount + i
      /\ \A f \in TableFrame \ free : \E t \in S, i \in Slot : tables[t][i] = SubTable(f)
  BY <1>1, <1>2 DEF IsTree, IsPlaced
<1>4. \A slot : slot \in References(frame) <=>
          \E t \in S, i \in Slot : slot = <<t, i>> /\ tables[t][i] = SubTable(frame)
  <2>1. \A slot : slot \in References(frame) <=>
            \E t \in TableFrame \cup {Root}, i \in Slot :
                slot = <<t, i>> /\ tables[t][i] = SubTable(frame)
    BY <1>3 DEF References, Slot
  <2>2. \A f \in free, i \in Slot : tables[f][i] # SubTable(frame)
    BY <1>3 DEF Absent, SubTable
  <2>3. \A t \in TableFrame \cup {Root} : t \in S \/ t \in free
    BY <1>2
  <2>4. S \subseteq TableFrame \cup {Root}
    BY <1>2
  <2> QED
    BY <2>1, <2>2, <2>3, <2>4
<1>5. \A t \in S, i \in Slot : tables[t][i] = SubTable(frame) =>
          frame \notin free /\ L[frame] = L[t] - 1 /\ N[frame] = N[t] * EntryCount + i
  BY <1>3 DEF SubTable
<1>6. CASE frame \in free
  <2>1. References(frame) = {}
    BY <1>4, <1>5, <1>6
  <2> QED
    BY <1>6, <2>1, FS_EmptySet
<1>7. CASE frame \notin free
  <2>1. PICK t \in S : \E i \in Slot : tables[t][i] = SubTable(frame)
    BY <1>3, <1>7
  <2>2. PICK i \in Slot : tables[t][i] = SubTable(frame)
    BY <2>1
  <2>3. ASSUME NEW u \in S, NEW j \in Slot, tables[u][j] = SubTable(frame)
        PROVE  u = t /\ j = i
    <3>1. L[t] \in Int /\ L[u] \in Int /\ N[t] \in Nat /\ N[u] \in Nat
      BY <1>3, ConstantsAre
    <3>2. L[u] = L[t]
      BY <1>5, <2>2, <2>3, <3>1
    <3>3. PICK m \in Nat, n \in Nat : m = N[t] /\ n = N[u]
      BY <3>1
    <3>4. m * EntryCount + i = n * EntryCount + j
      BY <1>5, <2>2, <2>3, <3>3
    <3>5. m = n /\ i = j
      <4>1. PICK d \in Nat : d = EntryCount
        BY ConstantsAre
      <4>2. i \in Nat /\ j \in Nat /\ i < d /\ j < d
        BY <4>1 DEF Slot
      <4>3. PICK k \in Int : k = d * m + i /\ k = d * n + j
        <5>1. d * m + i \in Int /\ d * m + i = d * n + j
          BY <3>4, <4>1, <4>2
        <5> QED
          BY <5>1
      <4>4. m \in Int /\ n \in Int
        OBVIOUS
      <4>5. k \div d = m /\ k % d = i
        BY <4>2, <4>3, <4>4, QuotientIs
      <4>6. k \div d = n /\ k % d = j
        BY <4>2, <4>3, <4>4, QuotientIs
      <4> QED
        BY <4>5, <4>6
    <3> QED
      BY <1>3, <3>2, <3>3, <3>5
  <2>4. References(frame) = {<<t, i>>}
    BY <1>4, <2>2, <2>3
  <2>5. Cardinality({<<t, i>>}) = 1
    BY FS_Singleton
  <2> QED
    BY <1>7, <2>4, <2>5
<1> QED
  BY <1>6, <1>7

LEMMA Forgotten == IInv => RemovedPagesAreForgotten
<1> SUFFICES ASSUME IInv, NEW t \in tlb, NEW page \in Page,
                    Covers(t, page), removedBy[page] = t.cpu,
                    Translation(page) # t.address + page - t.first
             PROVE  Removing(t.cpu, "flush")
  BY DEF RemovedPagesAreForgotten
<1>1. IsFlat(Entries) /\ TlbsOK(Entries, op, tlb, removedBy)
  BY InvariantIs
<1>2. TranslatesTo(Entries, page, Translation(page))
  BY <1>1, TranslationIs
<1>3. t.address + page - t.first \in Int
  <2>1. TlbOK(Entries, t)
    BY <1>1 DEF TlbsOK
  <2>2. t.address \in Int /\ t.first \in Page /\ page \in Int /\ t.first \in Int
    BY <2>1 DEF TlbOK, Page
  <2> QED
    BY <2>2
<1>4. ~MapsTo(Entries, page, t.address + page - t.first)
  BY <1>2, <1>3 DEF TranslatesTo
<1>5. FlushComes(op[t.cpu], t)
  BY <1>1, <1>4 DEF TlbsOK, Stale
<1> QED
  BY <1>5 DEF FlushComes, Removing

\* With careful clients, every frame that allocatePageTable has handed out holds
\* the table of exactly one entry of the tree and the others of none, although
\* addMapping loads an entry and stores a new table there in two steps.
THEOREM PageTablesTree == ~AnyClient => (Spec => []TablesFormATree)
BY PageTablesInvariance, TreeOfReferences, PTL

\* With careful clients, a processor on which removeMapping has cleared an entry
\* and flushed does not use the old translation of any page of that entry.
THEOREM PageTablesForgotten == ~AnyClient => (Spec => []RemovedPagesAreForgotten)
BY PageTablesInvariance, Forgotten, PTL

-----------------------------------------------------------------------------
(* The page tables implement an address space *)

AskedOf(o) ==
    IF o.kind = "returned" THEN o
    ELSE [kind |-> o.kind, first |-> o.first, size |-> o.size,
          delta |-> IF o.kind = "add" THEN o.delta ELSE CHOOSE d \in Delta : TRUE]

Mapping == [p \in Page |-> Translation(p)]

LEMMA AskedIs == Asked = [c \in Cpu |-> AskedOf(op[c])]
BY DEF Asked, AskedOf, Busy

LEMMA AskedNext == Asked' = [c \in Cpu |-> AskedOf(op'[c])]
BY DEF Asked, AskedOf, Busy

LEMMA AskedChanges ==
    ASSUME DOMAIN op = Cpu, NEW c \in Cpu, NEW x, op' = [op EXCEPT ![c] = x]
    PROVE  /\ Asked' = [Asked EXCEPT ![c] = AskedOf(x)]
           /\ AskedOf(x) = AskedOf(op[c]) => Asked' = Asked
<1> HIDE DEF AskedOf
<1>1. \A d \in Cpu : op'[d] = IF d = c THEN x ELSE op[d]
  OBVIOUS
<1>2. \A d \in Cpu : AskedOf(op'[d]) = IF d = c THEN AskedOf(x) ELSE AskedOf(op[d])
  BY <1>1
<1> QED
  BY <1>2, AskedIs, AskedNext

MappingOK == IsFlat(Entries) => \A p \in Page : TranslatesTo(Entries, p, Mapping[p])

LEMMA MappingIs == MappingOK
BY TranslationIs DEF MappingOK, Mapping

LEMMA MappingNext == MappingOK'
BY MappingIs, PTL

LEMMA SameTranslation ==
    ASSUME NEW G, NEW H, NEW p, NEW x, NEW y, TranslatesTo(G, p, x), TranslatesTo(H, p, y),
           Unmapped(H, p) <=> Unmapped(G, p), \A a : MapsTo(H, p, a) <=> MapsTo(G, p, a)
    PROVE  x = y
BY DEF TranslatesTo

\* The mappings before and after a step, with the invariant before and after.
LEMMA MappingsAre ==
    ASSUME IInv, IInv', NEW p \in Page
    PROVE  /\ TranslatesTo(Entries, p, Mapping[p])
           /\ TranslatesTo(Entries', p, Mapping'[p])
<1>1. IsFlat(Entries) /\ IsFlat(Entries')
  <2>1. \E L, N : IsTree(tables', free', L, N)
    BY DEF IInv
  <2> QED
    BY <2>1, InvariantIs, TreeIsFlatNext
<1> QED
  BY <1>1, MappingIs, MappingNext DEF MappingOK

LEMMA MappingSame ==
    ASSUME IInv, IInv', PagesKept(Entries, Entries', Page)
    PROVE  Mapping' = Mapping
<1>1. ASSUME NEW p \in Page
      PROVE  Mapping'[p] = Mapping[p]
  <2>1. PICK H : H = Entries'
    OBVIOUS
  <2>2. /\ Unmapped(H, p) <=> Unmapped(Entries, p)
        /\ \A a : MapsTo(H, p, a) <=> MapsTo(Entries, p, a)
    BY <2>1, MappingsKept
  <2>3. TranslatesTo(Entries, p, Mapping[p]) /\ TranslatesTo(H, p, Mapping'[p])
    BY <2>1, MappingsAre
  <2> QED
    BY <2>2, <2>3, SameTranslation
<1> QED
  BY <1>1 DEF Mapping

LEMMA MappingUnchanged ==
    ASSUME IInv, IInv', tables' = tables
    PROVE  Mapping' = Mapping
<1>1. Entries' = Entries
  BY EntriesUnchanged
<1>2. PagesKept(Entries, Entries', Page)
  BY <1>1 DEF PagesKept
<1> QED
  BY <1>2, MappingSame

LEMMA InitIsAddressSpaceInit == Init => AddressSpace!Init
<1> SUFFICES ASSUME Init
             PROVE  AddressSpace!Init
  OBVIOUS
<1>1. IInv
  BY Initially
<1>2. PICK L, N : IsTree(tables, free, L, N)
  BY <1>1 DEF IInv
<1>3. ASSUME NEW p \in Page
      PROVE  Translation(p) = NoMapping
  <2>1. ASSUME NEW l \in Level
        PROVE  Entries[p][l].kind # "page"
    <3>1. EntryAt(tables, free, L, N, p, l, Entries[p][l])
      BY <1>2, EntryIs
    <3>2. Index(p, l) \in Slot
      BY IndexIs DEF Page
    <3>3. \A t \in TableFrame \cup {Root} : tables[t][Index(p, l)] = Absent
      BY <3>2 DEF Init, Slot
    <3>4. Entries[p][l] = Absent
      BY <3>1, <3>3 DEF EntryAt
    <3> QED
      BY <3>4 DEF Absent
  <2>2. Unmapped(Entries, p)
    BY <2>1 DEF Unmapped
  <2>3. TranslatesTo(Entries, p, Translation(p))
    BY <1>1, InvariantIs, TranslationIs
  <2> QED
    BY <2>2, <2>3 DEF TranslatesTo
<1>4. Asked = [c \in Cpu |-> AddressSpace!Returned(TRUE)]
  <2>1. \A c \in Cpu : op[c] = Returned(TRUE) /\ Returned(TRUE).kind = "returned"
    BY DEF Init, Returned
  <2>2. \A c \in Cpu : AskedOf(op[c]) = Returned(TRUE)
    BY <2>1 DEF AskedOf
  <2>3. AddressSpace!Returned(TRUE) = Returned(TRUE)
    BY DEF Returned, AddressSpace!Returned
  <2> QED
    BY <2>2, <2>3, AskedIs
<1> QED
  BY <1>3, <1>4 DEF AddressSpace!Init

\* A step asks for nothing, and changes no mapping.
Stutters == Mapping' = Mapping /\ Asked' = Asked

LEMMA IsAsk ==
    ASSUME DOMAIN op = Cpu, NEW c \in Cpu, op[c].kind = "returned", Mapping' = Mapping,
           NEW kind \in {"add", "remove"}, NEW first \in Page, NEW size \in Nat, size > 0,
           first + size <= PageSize[Levels], NEW delta \in Delta,
           Asked' = [Asked EXCEPT ![c] = [kind |-> kind, first |-> first, size |-> size,
                                          delta |-> delta]]
    PROVE  AddressSpace!Ask(c)
<1>1. PICK last \in Nat : last = first + size - 1
  BY DEF Page
<1>2. last \in Page /\ first <= last /\ size = last + 1 - first
  <2>1. PICK n \in Nat : n = PageSize[Levels]
    BY PageSizeTypes, ConstantsAre
  <2> QED
    BY <1>1, <2>1 DEF Page
<1>3. Asked[c].kind = "returned"
  BY AskedIs DEF AskedOf
<1>4. Asked' = [Asked EXCEPT ![c] = [kind |-> kind, first |-> first, size |-> last + 1 - first,
                                     delta |-> delta]]
  BY <1>2
<1> QED
  BY <1>2, <1>3, <1>4 DEF AddressSpace!Ask, Mapping

LEMMA IsChange ==
    ASSUME DOMAIN op = Cpu, NEW c \in Cpu, op[c].kind # "returned", Asked' = Asked,
           \A p \in Page : \/ Mapping'[p] = Mapping[p]
                           \/ p \in Pages(op[c]) /\ Mapping'[p] = AddressSpace!Wanted(AskedOf(op[c]), p)
    PROVE  AddressSpace!Change(c)
<1>1. Asked[c] = AskedOf(op[c])
  BY AskedIs
<1>2. Asked[c].kind # "returned" /\ AddressSpace!Pages(Asked[c]) = Pages(op[c])
  BY <1>1 DEF AskedOf, AddressSpace!Pages, Pages
<1>3. \A p \in Page : \/ Mapping'[p] = Mapping[p]
                      \/ /\ p \in AddressSpace!Pages(Asked[c])
                         /\ Mapping'[p] = AddressSpace!Wanted(Asked[c], p)
  BY <1>1, <1>2
<1> QED
  BY <1>2, <1>3 DEF AddressSpace!Change, Mapping

LEMMA IsReturn ==
    ASSUME DOMAIN op = Cpu, NEW c \in Cpu, op[c].kind # "returned", Mapping' = Mapping,
           NEW ok \in BOOLEAN, op' = [op EXCEPT ![c] = Returned(ok)],
           ok => \A p \in Pages(op[c]) : Mapping[p] = AddressSpace!Wanted(AskedOf(op[c]), p)
    PROVE  AddressSpace!Return(c)
<1>1. Asked[c] = AskedOf(op[c])
  BY AskedIs
<1>2. Asked[c].kind # "returned" /\ AddressSpace!Pages(Asked[c]) = Pages(op[c])
  BY <1>1 DEF AskedOf, AddressSpace!Pages, Pages
<1>3. ok => AddressSpace!Done(Asked[c])
  BY <1>1, <1>2 DEF AddressSpace!Done, Mapping
<1>4. Asked' = [Asked EXCEPT ![c] = AddressSpace!Returned(ok)]
  <2>1. PICK x : x = Returned(ok)
    OBVIOUS
  <2>2. AskedOf(x) = AddressSpace!Returned(ok)
    BY <2>1 DEF AskedOf, Returned, AddressSpace!Returned
  <2> QED
    BY <2>1, <2>2, AskedChanges
<1> QED
  BY <1>2, <1>3, <1>4 DEF AddressSpace!Return, Mapping

\* What is wanted, for both kinds of requests.
LEMMA WantedIs ==
    ASSUME NEW o, NEW p
    PROVE  /\ o.kind = "add" => AddressSpace!Wanted(AskedOf(o), p) = p + o.delta
           /\ o.kind = "remove" => AddressSpace!Wanted(AskedOf(o), p) = NoMapping
BY DEF AskedOf, AddressSpace!Wanted

LEMMA AddAsks ==
    ASSUME IInv, IInv', NEW c \in Cpu, Add(c)
    PROVE  AddressSpace!Ask(c)
<1>1. PICK first \in Page, size \in 1 .. MaxSize, delta \in Delta :
         LET request == [kind |-> "add", first |-> first, size |-> size, delta |-> delta,
                         page |-> first, level |-> Levels - 1, absent |-> FALSE]
         IN  Begin(c, request) /\ CarefulAdd(c, request)
  BY DEF Add
<1>2. PICK o : o = [kind |-> "add", first |-> first, size |-> size, delta |-> delta,
                    page |-> first, level |-> Levels - 1, absent |-> FALSE]
  OBVIOUS
<1>3. /\ op[c].kind = "returned" /\ op' = [op EXCEPT ![c] = o] /\ tables' = tables
      /\ first + size <= PageSize[Levels]
  <2>1. Begin(c, o)
    BY <1>1, <1>2
  <2>2. o.first = first /\ o.size = size
    BY <1>2
  <2> QED
    BY <2>1, <2>2 DEF Begin, Busy
<1>4. DOMAIN op = Cpu /\ Mapping' = Mapping
  BY <1>3, InvariantIs, MappingUnchanged
<1>5. PICK kind \in {"add", "remove"} : kind = "add"
  OBVIOUS
<1>6. AskedOf(o) = [kind |-> kind, first |-> first, size |-> size, delta |-> delta]
  BY <1>2, <1>5 DEF AskedOf
<1>7. Asked' = [Asked EXCEPT ![c] = [kind |-> kind, first |-> first, size |-> size, delta |-> delta]]
  BY <1>3, <1>4, <1>6, AskedChanges
<1>8. size \in Nat /\ size > 0
  BY PageTablesAssumption
<1> QED
  BY <1>3, <1>4, <1>7, <1>8, IsAsk

LEMMA RemoveAsks ==
    ASSUME IInv, IInv', NEW c \in Cpu, Remove(c)
    PROVE  AddressSpace!Ask(c)
<1>1. PICK first \in Page, size \in 1 .. MaxSize :
         LET request == [kind |-> "remove", first |-> first, size |-> size, step |-> "visit",
                         stack |-> <<Call(Levels - 1, first, size)>>]
         IN  Begin(c, request) /\ CarefulRemove(c, request)
  BY DEF Remove
<1>2. PICK o : o = [kind |-> "remove", first |-> first, size |-> size, step |-> "visit",
                    stack |-> <<Call(Levels - 1, first, size)>>]
  OBVIOUS
<1>3. /\ op[c].kind = "returned" /\ op' = [op EXCEPT ![c] = o] /\ tables' = tables
      /\ first + size <= PageSize[Levels]
  <2>1. Begin(c, o)
    BY <1>1, <1>2
  <2>2. o.first = first /\ o.size = size
    BY <1>2
  <2> QED
    BY <2>1, <2>2 DEF Begin, Busy
<1>4. DOMAIN op = Cpu /\ Mapping' = Mapping
  BY <1>3, InvariantIs, MappingUnchanged
<1>5. PICK kind \in {"add", "remove"} : kind = "remove"
  OBVIOUS
<1>6. PICK delta \in Delta : delta = CHOOSE d \in Delta : TRUE
  BY PageTablesAssumption
<1>7. AskedOf(o) = [kind |-> kind, first |-> first, size |-> size, delta |-> delta]
  BY <1>2, <1>5, <1>6 DEF AskedOf
<1>8. Asked' = [Asked EXCEPT ![c] = [kind |-> kind, first |-> first, size |-> size, delta |-> delta]]
  BY <1>3, <1>4, <1>7, AskedChanges
<1>9. size \in Nat /\ size > 0
  BY PageTablesAssumption
<1> QED
  BY <1>3, <1>4, <1>8, <1>9, IsAsk

LEMMA IsStutter ==
    ASSUME IInv, IInv', NEW c \in Cpu, NEW x, op' = [op EXCEPT ![c] = x], tables' = tables,
           AskedOf(x) = AskedOf(op[c])
    PROVE  Stutters
BY InvariantIs, MappingUnchanged, AskedChanges DEF Stutters

LEMMA DescendStutters ==
    ASSUME IInv, IInv', NEW c \in Cpu, Descend(c)
    PROVE  Stutters
<1>1. PICK o : o = op[c]
  OBVIOUS
<1>2. o \in AddRequest
  BY <1>1, OpsAre DEF Descend, Adding, AddOK
<1>3. PICK x : /\ x = [o EXCEPT !.absent = TRUE] \/ x = [o EXCEPT !.level = @ - 1]
               /\ op' = [op EXCEPT ![c] = x]
  <2>1. \/ op' = [op EXCEPT ![c].absent = TRUE]
        \/ op' = [op EXCEPT ![c].level = @ - 1]
    BY DEF Descend
  <2>2. CASE op' = [op EXCEPT ![c].absent = TRUE]
    BY <1>1, <2>2
  <2>3. CASE op' = [op EXCEPT ![c].level = @ - 1]
    BY <1>1, <2>3
  <2> QED
    BY <2>1, <2>2, <2>3
<1>4. AskedOf(x) = AskedOf(o)
  BY <1>2, <1>3 DEF AskedOf, AddRequest
<1> QED
  BY <1>1, <1>3, <1>4, IsStutter DEF Descend

\* A step of a removal on its stack.
LEMMA StackStutters ==
    ASSUME IInv, IInv', NEW c \in Cpu, op[c].kind = "remove", tables' = tables,
           NEW x, op' = [op EXCEPT ![c] = x], SameRequest(op[c], x)
    PROVE  Stutters
<1>1. AskedOf(x) = AskedOf(op[c])
  BY DEF AskedOf, SameRequest
<1> QED
  BY <1>1, IsStutter

LEMMA AddSubTableStutters ==
    ASSUME IInv, IInv', NEW c \in Cpu, AddSubTable(c)
    PROVE  Stutters
<1>1. PICK o : o = op[c]
  OBVIOUS
<1>2. o \in AddRequest
  BY <1>1, OpsAre DEF AddSubTable, AddOK
<1>3. PICK x : x = [o EXCEPT !.absent = FALSE, !.level = @ - 1]
  OBVIOUS
<1>4. op' = [op EXCEPT ![c] = x]
  BY <1>1, <1>3 DEF AddSubTable
<1>5. AskedOf(x) = AskedOf(o)
  BY <1>2, <1>3 DEF AskedOf, AddRequest
<1>6. Mapping' = Mapping
  BY StepAddSubTable, MappingSame
<1> QED
  BY <1>1, <1>4, <1>5, <1>6, InvariantIs, AskedChanges DEF Stutters

LEMMA WriteMappingChanges ==
    ASSUME IInv, IInv', NEW c \in Cpu, WriteMapping(c)
    PROVE  AddressSpace!Change(c)
<1>1. PICK o : o = op[c]
  OBVIOUS
<1>2. o \in AddRequest /\ o.kind = "add" /\ AddOK(Entries, o)
  BY <1>1, OpsAre DEF WriteMapping, Adding, AddOK
<1>3. PICK x : x = MappingWritten(o)
  OBVIOUS
<1>4. op' = [op EXCEPT ![c] = x]
  BY <1>1, <1>3 DEF WriteMapping, MappingWritten
<1>5. AskedOf(x) = AskedOf(o)
  BY <1>2, <1>3 DEF AskedOf, AddRequest, MappingWritten
<1>6. Asked' = Asked /\ DOMAIN op = Cpu
  BY <1>1, <1>4, <1>5, InvariantIs, AskedChanges
<1>7. ASSUME NEW p \in Page, Mapping'[p] # Mapping[p]
      PROVE  p \in Pages(o) /\ Mapping'[p] = AddressSpace!Wanted(AskedOf(o), p)
  <2>1. PICK H : H = Entries'
    OBVIOUS
  <2>2. TranslatesTo(Entries, p, Mapping[p]) /\ TranslatesTo(H, p, Mapping'[p])
    BY <2>1, MappingsAre
  <2>3. ~\A l \in Level : H[p][l] = Entries[p][l]
    <3>1. ASSUME \A l \in Level : H[p][l] = Entries[p][l]
          PROVE  /\ Unmapped(H, p) <=> Unmapped(Entries, p)
                 /\ \A a : MapsTo(H, p, a) <=> MapsTo(Entries, p, a)
      BY <3>1 DEF Unmapped, MapsTo
    <3> QED
      BY <1>7, <2>2, <3>1, SameTranslation
  <2>4. p \in Pages(o) /\ MapsTo(H, p, p + o.delta)
    BY <1>1, <2>1, <2>3, StepWriteMapping DEF MapsPages
  <2>5. p + o.delta \in Int
    <3>1. p \in Int /\ o.delta \in Int
      BY <1>2, AddTypes DEF Page
    <3> QED
      BY <3>1
  <2>6. Mapping'[p] = p + o.delta
    BY <2>2, <2>4, <2>5 DEF TranslatesTo
  <2> QED
    BY <1>2, <2>4, <2>6, WantedIs
<1>8. o.kind # "returned"
  BY <1>2
<1> QED
  BY <1>1, <1>6, <1>7, <1>8, IsChange

LEMMA ClearChanges ==
    ASSUME IInv, IInv', NEW c \in Cpu, Clear(c)
    PROVE  AddressSpace!Change(c)
<1>1. PICK o : o = op[c]
  OBVIOUS
<1>2. o \in RemoveRequest /\ o.kind = "remove"
  BY <1>1, OpsAre DEF Clear, Removing, RemoveOK
<1>3. PICK x : x = [o EXCEPT !.step = "flush"]
  OBVIOUS
<1>4. op' = [op EXCEPT ![c] = x]
  BY <1>1, <1>3 DEF Clear
<1>5. AskedOf(x) = AskedOf(o)
  BY <1>2, <1>3 DEF AskedOf, RemoveRequest
<1>6. Asked' = Asked /\ DOMAIN op = Cpu
  BY <1>1, <1>4, <1>5, InvariantIs, AskedChanges
<1>7. ASSUME NEW p \in Page, Mapping'[p] # Mapping[p]
      PROVE  p \in Pages(o) /\ Mapping'[p] = AddressSpace!Wanted(AskedOf(o), p)
  <2>1. PICK H : H = Entries'
    OBVIOUS
  <2>2. TranslatesTo(Entries, p, Mapping[p]) /\ TranslatesTo(H, p, Mapping'[p])
    BY <2>1, MappingsAre
  <2>3. ~\A l \in Level : H[p][l] = Entries[p][l]
    <3>1. ASSUME \A l \in Level : H[p][l] = Entries[p][l]
          PROVE  /\ Unmapped(H, p) <=> Unmapped(Entries, p)
                 /\ \A a : MapsTo(H, p, a) <=> MapsTo(Entries, p, a)
      BY <3>1 DEF Unmapped, MapsTo
    <3> QED
      BY <1>7, <2>2, <3>1, SameTranslation
  <2>4. p \in Pages(o) /\ Unmapped(H, p)
    BY <1>1, <2>1, <2>3, StepClear DEF UnmapsPages
  <2>5. Mapping'[p] = NoMapping
    BY <2>2, <2>4 DEF TranslatesTo
  <2> QED
    BY <1>2, <2>4, <2>5, WantedIs
<1>8. o.kind # "returned"
  BY <1>2
<1> QED
  BY <1>1, <1>6, <1>7, <1>8, IsChange

\* An operation fails, whatever it has done.
LEMMA FailureReturns ==
    ASSUME IInv, IInv', NEW c \in Cpu, op[c].kind # "returned", tables' = tables,
           NEW ok \in BOOLEAN, ~ok, op' = [op EXCEPT ![c] = Returned(ok)]
    PROVE  AddressSpace!Return(c)
BY InvariantIs, MappingUnchanged, IsReturn

LEMMA NoSubTableReturns ==
    ASSUME IInv, IInv', NEW c \in Cpu, NoSubTable(c)
    PROVE  AddressSpace!Return(c)
<1>1. PICK ok \in BOOLEAN : ok = FALSE
  OBVIOUS
<1>2. op' = [op EXCEPT ![c] = Returned(ok)] /\ tables' = tables /\ op[c].kind # "returned" /\ ~ok
  BY <1>1 DEF NoSubTable
<1> QED
  BY <1>2, FailureReturns

LEMMA MappedReturns ==
    ASSUME IInv, IInv', NEW c \in Cpu, Mapped(c)
    PROVE  AddressSpace!Return(c)
<1>1. PICK o : o = op[c]
  OBVIOUS
<1>2. AddOK(Entries, o) /\ o.kind = "add" /\ o.page = o.first + o.size
  BY <1>1, OpsAre DEF Mapped
<1>3. ASSUME NEW p \in Pages(o)
      PROVE  Mapping[p] = AddressSpace!Wanted(AskedOf(o), p)
  <2>1. p \in Page /\ p \in Int /\ o.delta \in Int /\ o.first \in Nat /\ o.size \in Nat
    BY <1>2, AddTypes DEF Page
  <2>2. p < o.page
    BY <1>2, <2>1 DEF Pages
  <2>3. MapsTo(Entries, p, p + o.delta)
    BY <1>2, <2>2 DEF AddOK
  <2>4. p + o.delta \in Int
    BY <2>1
  <2>5. TranslatesTo(Entries, p, Mapping[p])
    BY <2>1, MappingsAre
  <2>6. Mapping[p] = p + o.delta
    BY <2>3, <2>4, <2>5 DEF TranslatesTo
  <2> QED
    BY <1>2, <2>6, WantedIs
<1>4. PICK ok \in BOOLEAN : ok = TRUE
  OBVIOUS
<1>5. op' = [op EXCEPT ![c] = Returned(ok)] /\ tables' = tables /\ op[c].kind # "returned"
  BY <1>4 DEF Mapped
<1>6. DOMAIN op = Cpu /\ Mapping' = Mapping
  BY <1>5, InvariantIs, MappingUnchanged
<1> QED
  BY <1>1, <1>3, <1>5, <1>6, IsReturn

LEMMA ReturnReturns ==
    ASSUME IInv, IInv', NEW c \in Cpu, Return(c)
    PROVE  AddressSpace!Return(c) \/ Stutters
<1>1. PICK o : o = op[c]
  OBVIOUS
<1>2. /\ RemoveOK(Entries, o) /\ o.kind = "remove" /\ o.step = "visit"
      /\ Head(o.stack).done >= Head(o.stack).size /\ tables' = tables
  BY <1>1, OpsAre DEF Return, Removing
<1>3. PICK call : call = o.stack[1] /\ call = Head(o.stack)
  OBVIOUS
<1>4. CASE Tail(o.stack) = <<>>
  <2>1. Len(o.stack) = 1
    <3>1. o.stack \in Seq(CallRecord) /\ Len(o.stack) \in Nat /\ Len(o.stack) > 0
      BY <1>2, RemoveTypes
    <3>2. Len(Tail(o.stack)) = Len(o.stack) - 1
      BY <3>1
    <3>3. Len(Tail(o.stack)) = 0
      <4>1. Tail(o.stack) \in Seq(CallRecord)
        BY <3>1
      <4> QED
        BY <1>4, <4>1, EmptySeq
    <3> QED
      BY <3>1, <3>2, <3>3
  <2>2. call.base = o.first /\ call.size = o.size
    BY <1>2, <1>3, <2>1 DEF RemoveOK
  <2>3. call.page = call.base + call.done /\ call.done \in Nat
    <3>1. 1 \in 1 .. Len(o.stack)
      BY <2>1
    <3> QED
      BY <1>2, <1>3, <3>1, CallTypes
  <2>4. ASSUME NEW p \in Pages(o)
        PROVE  Mapping[p] = AddressSpace!Wanted(AskedOf(o), p)
    <3>1. p \in Page /\ o.first \in Nat /\ o.size \in Nat
      BY <1>2, RemoveTypes
    <3>2. p \in Int /\ p < call.page /\ p < call.base + call.size
      BY <1>2, <1>3, <2>2, <2>3, <3>1 DEF Pages
    <3>3. Unmapped(Entries, p)
      BY <1>2, <1>3, <3>2 DEF RemoveOK
    <3>4. TranslatesTo(Entries, p, Mapping[p])
      BY <3>1, MappingsAre
    <3>5. Mapping[p] = NoMapping
      BY <3>3, <3>4 DEF TranslatesTo
    <3> QED
      BY <1>2, <3>5, WantedIs
  <2>5. PICK ok \in BOOLEAN : ok = TRUE
    OBVIOUS
  <2>6. op' = [op EXCEPT ![c] = Returned(ok)] /\ op[c].kind # "returned"
    BY <1>1, <1>2, <1>4, <2>5 DEF Return
  <2>7. DOMAIN op = Cpu /\ Mapping' = Mapping
    BY <1>2, InvariantIs, MappingUnchanged
  <2> QED
    BY <1>1, <2>4, <2>6, <2>7, IsReturn
<1>5. CASE Tail(o.stack) # <<>>
  <2>1. PICK x : x = [o EXCEPT !.stack = AdvancedTop(Tail(o.stack))]
    OBVIOUS
  <2>2. op' = [op EXCEPT ![c] = x]
    BY <1>1, <1>5, <2>1 DEF Return
  <2>3. SameRequest(op[c], x)
    BY <1>1, <1>2, <2>1 DEF SameRequest, RemoveOK, RemoveRequest
  <2> QED
    BY <1>1, <1>2, <2>2, <2>3, StackStutters
<1> QED
  BY <1>4, <1>5

LEMMA FlushStutters ==
    ASSUME IInv, IInv', NEW c \in Cpu, Flush(c)
    PROVE  Stutters
<1>1. PICK o : o = op[c]
  OBVIOUS
<1>2. o \in RemoveRequest /\ o.kind = "remove" /\ tables' = tables
  BY <1>1, OpsAre DEF Flush, Removing, RemoveOK
<1>3. PICK x : x = [o EXCEPT !.step = "visit", !.stack = AdvancedTop(@)]
  OBVIOUS
<1>4. op' = [op EXCEPT ![c] = x]
  BY <1>1, <1>3 DEF Flush
<1>5. SameRequest(op[c], x)
  BY <1>1, <1>2, <1>3 DEF SameRequest, RemoveRequest
<1> QED
  BY <1>1, <1>2, <1>4, <1>5, StackStutters

LEMMA VisitReturns ==
    ASSUME IInv, IInv', NEW c \in Cpu, Visit(c)
    PROVE  AddressSpace!Return(c) \/ Stutters
<1>1. PICK o : o = op[c]
  OBVIOUS
<1>2. o \in RemoveRequest /\ o.kind = "remove" /\ tables' = tables
  BY <1>1, OpsAre DEF Visit, Removing, RemoveOK
<1>3. ASSUME NEW x, SameRequest(o, x), op' = [op EXCEPT ![c] = x]
      PROVE  Stutters
  BY <1>1, <1>2, <1>3, StackStutters
<1>4. \/ \E stack : op' = [op EXCEPT ![c].stack = stack]
      \/ op' = [op EXCEPT ![c] = Returned(FALSE)]
      \/ op' = [op EXCEPT ![c].step = "clear"]
  <2>1. PICK call, entry :
           \/ entry.kind = "absent" /\ op' = [op EXCEPT ![c].stack = AdvancedTop(@)]
           \/ /\ entry.kind = "table"
              /\ op' = [op EXCEPT ![c].stack =
                           <<Call(call.level - 1, call.page, Portion(call))>> \o @]
           \/ /\ entry.kind = "page"
              /\ op' = IF call.level > 0 /\ Portion(call) # PageSize[call.level]
                       THEN [op EXCEPT ![c] = Returned(FALSE)]
                       ELSE [op EXCEPT ![c].step = "clear"]
    BY DEF Visit
  <2>2. CASE op' = [op EXCEPT ![c].stack = AdvancedTop(@)]
    <3>1. PICK stack : stack = AdvancedTop(op[c].stack)
      OBVIOUS
    <3> QED
      BY <2>2, <3>1
  <2>3. CASE op' = [op EXCEPT ![c].stack = <<Call(call.level - 1, call.page, Portion(call))>> \o @]
    <3>1. PICK stack : stack = <<Call(call.level - 1, call.page, Portion(call))>> \o op[c].stack
      OBVIOUS
    <3> QED
      BY <2>3, <3>1
  <2> QED
    BY <2>1, <2>2, <2>3
<1>5. CASE \E stack : op' = [op EXCEPT ![c].stack = stack]
  <2>1. PICK stack : op' = [op EXCEPT ![c].stack = stack]
    BY <1>5
  <2>2. PICK x : x = [o EXCEPT !.stack = stack]
    OBVIOUS
  <2>3. op' = [op EXCEPT ![c] = x]
    BY <1>1, <2>1, <2>2
  <2>4. SameRequest(o, x)
    BY <1>2, <2>2 DEF SameRequest, RemoveRequest
  <2> QED
    BY <1>3, <2>3, <2>4
<1>6. CASE op' = [op EXCEPT ![c].step = "clear"]
  <2>1. PICK x : x = [o EXCEPT !.step = "clear"]
    OBVIOUS
  <2>2. op' = [op EXCEPT ![c] = x]
    BY <1>1, <1>6, <2>1
  <2>3. SameRequest(o, x)
    BY <1>2, <2>1 DEF SameRequest, RemoveRequest
  <2> QED
    BY <1>3, <2>2, <2>3
<1>7. CASE op' = [op EXCEPT ![c] = Returned(FALSE)]
  <2>1. PICK ok \in BOOLEAN : ok = FALSE
    OBVIOUS
  <2>2. op' = [op EXCEPT ![c] = Returned(ok)] /\ op[c].kind # "returned" /\ ~ok
    BY <1>1, <1>2, <1>7, <2>1
  <2> QED
    BY <1>2, <2>2, FailureReturns
<1> QED
  BY <1>4, <1>5, <1>6, <1>7

LEMMA FillTlbStutters ==
    ASSUME IInv, IInv', NEW c \in Cpu, FillTlb(c)
    PROVE  Stutters
<1>1. Asked' = Asked
  BY DEF FillTlb, Asked, Busy
<1>2. Mapping' = Mapping
  BY MappingUnchanged DEF FillTlb
<1> QED
  BY <1>1, <1>2 DEF Stutters

LEMMA StepIsAddressSpaceStep ==
    IInv /\ IInv' /\ [Next]_vars
        => [AddressSpace!Next]_<<[p \in Page |-> Translation(p)], Asked>>
<1> SUFFICES ASSUME IInv, IInv', [Next]_vars
             PROVE  AddressSpace!Next \/ Stutters
  BY DEF Stutters, Mapping
<1>1. CASE UNCHANGED vars
  <2>1. Asked' = Asked /\ tables' = tables
    BY <1>1 DEF vars, Asked, Busy
  <2> QED
    BY <2>1, MappingUnchanged DEF Stutters
<1>2. ASSUME NEW c \in Cpu, Add(c) \/ Remove(c)
      PROVE  AddressSpace!Next
  <2>1. AddressSpace!Ask(c)
    BY <1>2, AddAsks, RemoveAsks
  <2> QED
    BY <2>1 DEF AddressSpace!Next
<1>3. ASSUME NEW c \in Cpu, WriteMapping(c) \/ Clear(c)
      PROVE  AddressSpace!Next
  <2>1. AddressSpace!Change(c)
    BY <1>3, WriteMappingChanges, ClearChanges
  <2> QED
    BY <2>1 DEF AddressSpace!Next
<1>4. ASSUME NEW c \in Cpu, NoSubTable(c) \/ Mapped(c) \/ Return(c) \/ Visit(c)
      PROVE  AddressSpace!Next \/ Stutters
  <2>1. AddressSpace!Return(c) \/ Stutters
    BY <1>4, NoSubTableReturns, MappedReturns, ReturnReturns, VisitReturns
  <2> QED
    BY <2>1 DEF AddressSpace!Next
<1>5. ASSUME NEW c \in Cpu, Descend(c) \/ AddSubTable(c) \/ Flush(c) \/ FillTlb(c)
      PROVE  Stutters
  BY <1>5, DescendStutters, AddSubTableStutters, FlushStutters, FillTlbStutters
<1> QED
  BY <1>1, <1>2, <1>3, <1>4, <1>5 DEF Next

\* With careful clients, mapRange and unmapPages, also when they run in parallel,
\* change the translations of the pages they were called for and of no others,
\* to what they were called for; they report success when all of it is done.
THEOREM PageTablesImplementsAddressSpace == ~AnyClient => (Spec => ImplementsAddressSpace)
<1> SUFFICES ASSUME ~AnyClient
             PROVE  Spec => ImplementsAddressSpace
  OBVIOUS
<1>1. Init => AddressSpace!Init
  BY InitIsAddressSpaceInit
<1>2. IInv /\ IInv' /\ [Next]_vars
          => [AddressSpace!Next]_<<[p \in Page |-> Translation(p)], Asked>>
  BY StepIsAddressSpaceStep
<1>3. Spec => []IInv
  BY PageTablesInvariance
<1> QED
  BY <1>1, <1>2, <1>3, PTL DEF Spec, ImplementsAddressSpace, AddressSpace!Spec
=============================================================================
