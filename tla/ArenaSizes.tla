----------------------------- MODULE ArenaSizes -----------------------------
(***************************************************************************)
(* The size arithmetic of the classic heap (Allocator/Classic, Arena.hh    *)
(* and Arena.cc): how large a chunk a request needs, whether a chunk is    *)
(* worth splitting, and which bin holds chunks of a size.  Sizes are in    *)
(* bytes.                                                                  *)
(***************************************************************************)
EXTENDS Integers

CONSTANTS Alignment,        \* of the chunks and their sizes
          ChunkOverheadSize,
          SmallestBin,      \* the size of the smallest chunk
          FirstInexactBin,  \* up to this size every chunk size has its bin
          LargestBin,       \* a bin for all sizes from here on
          BinsPerOctave,
          SizeModulus       \* size_t counts modulo this power of two

ASSUME ArenaSizesAssumption ==
    /\ {Alignment, ChunkOverheadSize, SmallestBin, FirstInexactBin, LargestBin,
        BinsPerOctave, SizeModulus} \subseteq Nat \ {0}
    /\ SmallestBin % Alignment = 0
    /\ FirstInexactBin % Alignment = 0
    /\ SmallestBin <= FirstInexactBin
    /\ FirstInexactBin % BinsPerOctave = 0
    /\ LargestBin < SizeModulus
    /\ ChunkOverheadSize <= SmallestBin
    /\ SmallestBin + ChunkOverheadSize + Alignment <= SizeModulus

RoundUp(size, unit) == ((size + unit - 1) \div unit) * unit

\* Mutant: the sum is not checked for an overflow.
MutUserSizeToChunkSize(userSize) ==
    LET withHeader == (userSize + ChunkOverheadSize) % SizeModulus
        sum == (withHeader + Alignment - 1) % SizeModulus
        aligned == sum - (sum % Alignment)
    IN  IF aligned < SmallestBin THEN SmallestBin ELSE aligned

\* The chunk for a request: header included, rounded up, not below the minimum.
\* Where the sum overflows, the result is a size that no chunk has.
UserSizeToChunkSize(userSize) ==
    LET withHeader == (userSize + ChunkOverheadSize) % SizeModulus
        sum == (withHeader + Alignment - 1) % SizeModulus
        aligned == sum - (sum % Alignment)
        size == IF aligned < SmallestBin THEN SmallestBin ELSE aligned
    IN  IF size < userSize THEN SizeModulus - 1 ELSE size

\* What is left over of the chunk is enough for another one.
CanSplit(chunkSize, requestedSize) ==
    chunkSize - RoundUp(requestedSize, Alignment) >= SmallestBin

Octaves ==
    CHOOSE n \in 0..LargestBin : FirstInexactBin * 2 ^ n = LargestBin
ExactBinCount == (FirstInexactBin - SmallestBin) \div Alignment
BinCount == ExactBinCount + Octaves * BinsPerOctave
BinIndex == 0..(BinCount - 1)

\* Sizes above FirstInexactBin are rounded up to a subdivision of their octave.
\* The last part of an octave rounds up to the next one, and its offset to 0.
SizeToBinIndex(size) ==
    LET octave == CHOOSE n \in 0..(Octaves - 1) :
                      /\ FirstInexactBin * 2 ^ n <= size
                      /\ size < FirstInexactBin * 2 ^ (n + 1)
        subdivision == (FirstInexactBin * 2 ^ octave) \div BinsPerOctave
        offset == (RoundUp(size, subdivision) \div subdivision) % BinsPerOctave
    IN  IF size <= SmallestBin THEN 0
        ELSE IF size >= LargestBin THEN BinCount - 1
        ELSE IF size <= FirstInexactBin
             THEN (RoundUp(size, Alignment) - SmallestBin) \div Alignment
        ELSE ExactBinCount + octave * BinsPerOctave + offset

\* The octaves end with the largest bin.
ASSUME EverySizeHasABin ==
    /\ BinCount \in Nat
    /\ \A size \in 1..LargestBin : SizeToBinIndex(size) \in BinIndex
=============================================================================
