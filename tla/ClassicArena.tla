---------------------------- MODULE ClassicArena ----------------------------
(***************************************************************************)
(* The classic heap (Allocator/Classic, Arena.cc and Chunk.hh).            *)
(*                                                                         *)
(* Blocks of memory are tiled with chunks.  The header of a chunk holds    *)
(* its size and three flags; a free chunk also has its size in a footer,   *)
(* where the chunk after it finds it, and is in the bin of its size.  The  *)
(* flag that says whether there is a footer to look at is kept in the      *)
(* chunk after it.                                                         *)
(*                                                                         *)
(* Every operation runs under the mutex of the arena and is one step.  A   *)
(* reallocation is a resize and, if that does not do, an allocation and a  *)
(* free, each under the mutex of its own: three steps of the same client.  *)
(* The block header is not part of the addresses of a block, and addresses *)
(* count from where the chunks of aligned data begin.                      *)
(***************************************************************************)
EXTENDS ArenaSizes, FiniteSets, Sequences, SequencesExt

CONSTANTS Block,           \* the addresses of the first chunk of each block
          BlockSize,       \* BlockSize[b]: the size of that first chunk
          Request,         \* the sizes that clients ask for
          MemoryIsZeroed   \* FALSE: a new block holds anything

ASSUME ClassicArenaAssumption ==
    /\ Block \subseteq {n \in Nat : n % Alignment = 0}
    /\ BlockSize \in [Block -> {n \in SmallestBin..(SizeModulus - 2) : n % Alignment = 0}]
    /\ \A b, c \in Block : b < c => b + BlockSize[b] < c
    /\ Request \subseteq 1..(SizeModulus - 1)
    /\ MemoryIsZeroed \in BOOLEAN

VARIABLES chunk,      \* chunk[p]: the header at p
          footer,     \* footer[e]: the size in the footer that ends at e
          bins,       \* bins[i]: the free chunks of bin i, in list order
          granted,    \* granted[p]: the size of the chunk a client holds at p
          overhead,   \* m_accounting.overhead_size, without the block headers
          undefined   \* the heap has followed a footer that was not there

vars == <<chunk, footer, bins, granted, overhead, undefined>>

Init ==
    /\ chunk = <<>>
    /\ footer = <<>>
    /\ bins = [i \in BinIndex |-> <<>>]
    /\ granted = <<>>
    /\ overhead = 0
    /\ undefined = FALSE

-----------------------------------------------------------------------------
(* Chunk headers and footers: h is a function from addresses to headers *)

\* f with the value v at p.
Put(f, p, v) == [q \in DOMAIN f \cup {p} |-> IF q = p THEN v ELSE f[q]]

Successor(h, p) == p + h[p].size

SuccessorIsFree(h, p) == ~h[p].last /\ h[Successor(h, p)].free

\* Mutant: the chunk that follows is not told.
MutMarkFree(h, p, isFree) ==
    [q \in DOMAIN h |-> IF q = p THEN [h[q] EXCEPT !.free = isFree] ELSE h[q]]

\* The header at p and the flag kept for it in the chunk that follows.
MarkFree(h, p, isFree) ==
    [q \in DOMAIN h |->
        IF q = p THEN [h[q] EXCEPT !.free = isFree]
        ELSE IF q = Successor(h, p) /\ ~h[p].last
             THEN [h[q] EXCEPT !.predFree = isFree]
        ELSE h[q]]

\* Mutant: the merged chunk is never marked as the last one.
MutMergeWithSuccessor(h, p) ==
    LET s == Successor(h, p)
        merged == [h[p] EXCEPT !.size = h[p].size + h[s].size]
    IN  [q \in DOMAIN h \ {s} |-> IF q = p THEN merged ELSE h[q]]

\* p takes in the free chunk that follows it.
MergeWithSuccessor(h, p) ==
    LET s == Successor(h, p)
        merged == [h[p] EXCEPT !.size = h[p].size + h[s].size, !.last = h[s].last]
    IN  [q \in DOMAIN h \ {s} |-> IF q = p THEN merged ELSE h[q]]

\* Mutant: the size of the rest is taken before the chunk is divided.
MutSplit(h, p, newSize) ==
    LET rest == [size |-> h[p].size, free |-> FALSE,
                 predFree |-> h[p].free, last |-> h[p].last]
        kept == [h[p] EXCEPT !.size = newSize, !.last = FALSE]
        r == p + newSize
    IN  MarkFree([q \in DOMAIN h \cup {r} |->
                     IF q = p THEN kept ELSE IF q = r THEN rest ELSE h[q]],
                 r, TRUE)

\* p keeps the first newSize bytes, and the rest becomes a free chunk.
Split(h, p, newSize) ==
    LET rest == [size |-> h[p].size - newSize, free |-> FALSE,
                 predFree |-> h[p].free, last |-> h[p].last]
        kept == [h[p] EXCEPT !.size = newSize, !.last = FALSE]
        r == p + newSize
    IN  MarkFree([q \in DOMAIN h \cup {r} |->
                     IF q = p THEN kept ELSE IF q = r THEN rest ELSE h[q]],
                 r, TRUE)

\* The client may write what it likes into the size bytes at p.
Clobber(f, p, size) ==
    Restrict(f, {e \in DOMAIN f : e <= p \/ e > p + size})

\* Footers within the chunk are stale: nothing refers to them any more.
WriteFooter(f, h, p) == Put(Clobber(f, p, h[p].size), Successor(h, p), h[p].size)

-----------------------------------------------------------------------------
(* The bins *)

\* Mutant: a chunk is always put first in its list.
MutAddFreeChunk(b, h, p) ==
    [b EXCEPT ![SizeToBinIndex(h[p].size)] = <<p>> \o @]

\* Where a chunk is put in a list: before the first that is not smaller.
Place(list, h, size) ==
    CHOOSE k \in 1..(Len(list) + 1) :
        /\ \A j \in 1..(k - 1) : h[list[j]].size < size
        /\ k <= Len(list) => h[list[k]].size >= size

\* The list of a bin is sorted by size, the newest first among equals.
AddFreeChunk(b, h, p) ==
    LET i == SizeToBinIndex(h[p].size) IN
    [b EXCEPT ![i] = InsertAt(@, Place(@, h, h[p].size), p)]

\* Mutant: the chunk stays in its bin.
MutRemoveChunkFromBin(b, h, p) == b

RemoveChunkFromBin(b, h, p) ==
    [b EXCEPT ![SizeToBinIndex(h[p].size)] =
        RemoveAt(@, CHOOSE k \in DOMAIN @ : @[k] = p)]

\* The chunks of bin i that are large enough.
Fits(i, size) == {p \in Range(bins[i]) : chunk[p].size >= size}

\* The first fit in the sorted list of the first bin that has one.
IsBestFit(p, size) ==
    \E i \in SizeToBinIndex(size)..(BinCount - 1) :
        /\ \A j \in SizeToBinIndex(size)..(i - 1) : Fits(j, size) = {}
        /\ \E k \in DOMAIN bins[i] :
              /\ p = bins[i][k]
              /\ chunk[p].size >= size
              /\ \A j \in 1..(k - 1) : chunk[bins[i][j]].size < size

-----------------------------------------------------------------------------
(* The operations of the arena *)

\* The flags of a new chunk are those in the memory of the block.
AddMemoryBlock(b) ==
    /\ ~undefined
    /\ b \notin DOMAIN chunk
    /\ \E predFree \in IF MemoryIsZeroed THEN {FALSE} ELSE BOOLEAN :
          chunk' = Put(chunk, b, [size |-> BlockSize[b], free |-> TRUE,
                                  predFree |-> predFree, last |-> TRUE])
    /\ footer' = WriteFooter(footer, chunk', b)
    /\ bins' = AddFreeChunk(bins, chunk', b)
    /\ UNCHANGED <<granted, overhead, undefined>>

Allocate(userSize) ==
    LET size == UserSizeToChunkSize(userSize) IN
    /\ ~undefined
    /\ size < LargestBin
    /\ \E p \in DOMAIN chunk :
          LET rest == p + size
              divided == Split(chunk, p, size)
              remaining == RemoveChunkFromBin(bins, chunk, p)
          IN  /\ IsBestFit(p, size)
              /\ \/ /\ CanSplit(chunk[p].size, size)
                    /\ chunk' = MarkFree(divided, p, FALSE)
                    /\ footer' = Clobber(WriteFooter(footer, divided, rest), p, size)
                    /\ bins' = AddFreeChunk(remaining, divided, rest)
                    /\ overhead' = overhead + ChunkOverheadSize
                 \/ /\ ~CanSplit(chunk[p].size, size)
                    /\ chunk' = MarkFree(chunk, p, FALSE)
                    /\ footer' = Clobber(footer, p, chunk[p].size)
                    /\ bins' = remaining
                    /\ UNCHANGED overhead
              /\ granted' = Put(granted, p, chunk'[p].size)
    /\ UNCHANGED undefined

\* The flag of a chunk says that there is a footer before it, and there is none.
MissesFooter(h, p) == h[p].predFree /\ p \notin DOMAIN footer

HeaderIf(made) == IF made THEN ChunkOverheadSize ELSE 0

\* The chunk takes in the free chunks on both sides; those leave their bins.
Free(p) ==
    LET h1 == MarkFree(chunk, p, TRUE)
        s == Successor(h1, p)
        withNext == SuccessorIsFree(h1, p)
        h2 == IF withNext THEN MergeWithSuccessor(h1, p) ELSE h1
        b2 == IF withNext THEN RemoveChunkFromBin(bins, h1, s) ELSE bins
        withPred == h2[p].predFree
        pred == p - footer[p]
        h3 == IF withPred THEN MergeWithSuccessor(h2, pred) ELSE h2
        b3 == IF withPred THEN RemoveChunkFromBin(b2, h2, pred) ELSE b2
        merged == IF withPred THEN pred ELSE p
    IN
    /\ ~undefined
    /\ p \in DOMAIN granted
    /\ ~MissesFooter(chunk, p)
    /\ chunk' = MarkFree(h3, merged, TRUE)
    /\ footer' = WriteFooter(footer, h3, merged)
    /\ bins' = AddFreeChunk(b3, h3, merged)
    /\ granted' = Restrict(granted, DOMAIN granted \ {p})
    /\ overhead' = overhead - HeaderIf(withNext) - HeaderIf(withPred)
    /\ UNCHANGED undefined

\* What the client has written is taken for the size of a chunk before p, and
\* what happens from here on is not modelled.
FreeMissesFooter(p) ==
    /\ ~undefined
    /\ p \in DOMAIN granted
    /\ MissesFooter(chunk, p)
    /\ undefined' = TRUE
    /\ UNCHANGED <<chunk, footer, bins, granted, overhead>>

\* The end of resize: what is too much of the chunk becomes a free chunk.
ResizeTo(h, b, o, p, size) ==
    LET divided == Split(h, p, size)
        rest == p + size
    IN
    \/ /\ h[p].size - size >= SmallestBin
       /\ chunk' = divided
       /\ footer' = Clobber(WriteFooter(footer, divided, rest), p, size)
       /\ bins' = AddFreeChunk(b, divided, rest)
       /\ overhead' = o + ChunkOverheadSize
    \/ /\ h[p].size - size < SmallestBin
       /\ chunk' = h
       /\ footer' = Clobber(footer, p, h[p].size)
       /\ bins' = b
       /\ overhead' = o

Shrink(p, userSize) ==
    LET size == UserSizeToChunkSize(userSize) IN
    /\ ~undefined
    /\ p \in DOMAIN granted
    /\ size <= chunk[p].size
    /\ ResizeTo(chunk, bins, overhead, p, size)
    /\ granted' = [granted EXCEPT ![p] = chunk'[p].size]
    /\ UNCHANGED undefined

\* A chunk grows only into a free chunk that follows it and is large enough.
Grow(p, userSize) ==
    LET size == UserSizeToChunkSize(userSize)
        s == Successor(chunk, p)
    IN
    /\ ~undefined
    /\ p \in DOMAIN granted
    /\ size > chunk[p].size
    /\ SuccessorIsFree(chunk, p)
    /\ chunk[p].size + chunk[s].size >= size
    /\ ResizeTo(MergeWithSuccessor(chunk, p), RemoveChunkFromBin(bins, chunk, s),
                overhead - ChunkOverheadSize, p, size)
    /\ granted' = [granted EXCEPT ![p] = chunk'[p].size]
    /\ UNCHANGED undefined

-----------------------------------------------------------------------------
Next ==
    \/ \E b \in Block : AddMemoryBlock(b)
    \/ \E n \in Request : Allocate(n)
    \/ \E p \in DOMAIN granted : Free(p) \/ FreeMissesFooter(p)
    \/ \E p \in DOMAIN granted, n \in Request : Shrink(p, n) \/ Grow(p, n)

Spec == Init /\ [][Next]_vars

-----------------------------------------------------------------------------
(* Properties *)

\* The addresses of the blocks, their ends included.
Address == UNION {b..(b + BlockSize[b]) : b \in Block}
Header == [size : Nat, free : BOOLEAN, predFree : BOOLEAN, last : BOOLEAN]

\* The variables have their types, and clients hold chunks that exist.
TypeOK ==
    /\ DOMAIN chunk \subseteq Address
    /\ \A p \in DOMAIN chunk : chunk[p] \in Header
    /\ \A e \in DOMAIN footer : e \in Address /\ footer[e] \in Nat
    /\ bins \in [BinIndex -> Seq(DOMAIN chunk)]
    /\ DOMAIN granted \subseteq DOMAIN chunk
    /\ overhead \in Int
    /\ undefined \in BOOLEAN

Added == Block \cap DOMAIN chunk

\* The chunks cover every block without gap or overlap, and the last one of a
\* block, and only that one, is marked as such.  Each is either free or held by
\* one client, in whole, and the overhead counts the headers splits have made.
ChunksTileBlocks ==
    /\ \A p \in DOMAIN chunk :
          /\ chunk[p].size >= SmallestBin
          /\ IF chunk[p].last
             THEN \E b \in Added : Successor(chunk, p) = b + BlockSize[b]
             ELSE Successor(chunk, p) \in DOMAIN chunk
          /\ ~\E q \in DOMAIN chunk : p < q /\ q < Successor(chunk, p)
    /\ \A p \in DOMAIN chunk : \E b \in Added : b <= p /\ p < b + BlockSize[b]
    /\ DOMAIN granted = {p \in DOMAIN chunk : ~chunk[p].free}
    /\ \A p \in DOMAIN granted : granted[p] = chunk[p].size
    /\ overhead = ChunkOverheadSize * (Cardinality(DOMAIN chunk) - Cardinality(Added))

\* The bins hold the free chunks, each once, in the bin of its present size, in
\* the order of their sizes.
BinsHoldTheFreeChunks ==
    /\ \A i \in BinIndex, p \in DOMAIN chunk :
          Cardinality({k \in DOMAIN bins[i] : bins[i][k] = p}) =
              IF chunk[p].free /\ i = SizeToBinIndex(chunk[p].size) THEN 1 ELSE 0
    /\ \A i \in BinIndex : \A k \in 1..(Len(bins[i]) - 1) :
          chunk[bins[i][k]].size <= chunk[bins[i][k + 1]].size

\* The chunk after a free chunk knows it, and finds its beginning.
FreeChunksCanBeFound ==
    \A p \in DOMAIN chunk : chunk[p].free /\ ~chunk[p].last =>
        LET s == Successor(chunk, p) IN
        chunk[s].predFree /\ s \in DOMAIN footer /\ footer[s] = chunk[p].size

\* A client gets room for what it asked for: the size of the chunk has not
\* overflowed, and the split has left enough.
RequestsAreMet ==
    [][\A n \in Request :
          /\ Allocate(n) => \A p \in DOMAIN granted' \ DOMAIN granted :
                granted'[p] - ChunkOverheadSize >= n
          /\ \A p \in DOMAIN granted : Grow(p, n) \/ Shrink(p, n) =>
                granted'[p] - ChunkOverheadSize >= n]_vars

\* The heap grants each byte it was given to one client at a time.
Allocation == INSTANCE Allocator
                 WITH Granule <- {a \in Address : a % Alignment = 0},
                      Size <- {n \in UNION {1..BlockSize[b] : b \in Block} :
                                  n % Alignment = 0},
                      given <- {a \in UNION {b..(b + BlockSize[b] - 1) : b \in Added} :
                                   a % Alignment = 0}

ImplementsAllocator == Allocation!AllocatorSpec

-----------------------------------------------------------------------------
(* What the comments of the sources say and the code does not do *)

\* Chunk.hh:26: the flag is "set if the chunk before this one in memory is free".
PredFreeIsTrue ==
    \A p, q \in DOMAIN chunk :
        ~chunk[p].last /\ Successor(chunk, p) = q =>
            chunk[q].predFree = chunk[p].free
=============================================================================
