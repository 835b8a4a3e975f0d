--------------------------- MODULE FatFilesystem ---------------------------
(***************************************************************************)
(* Files of a FAT12 volume (Filesystem/FAT): the table, with its entries   *)
(* of a byte and a half, and the reading, writing and truncating of open   *)
(* files.  One client uses the volume.  One step is one write of one       *)
(* sector: a block handle is written back when it is released, so that the *)
(* power may fail after each (Crash), also between the two sectors that an *)
(* entry of the table may span.  All files are in one subdirectory, whose  *)
(* entries fill one sector.                                                *)
(***************************************************************************)
EXTENDS Integers, FiniteSets, Sequences

CONSTANTS File,
          ClusterCount,       \* m_clusterCount: clusters 2 .. ClusterCount + 1
          SectorSize,         \* in bytes
          SectorsPerCluster,
          MaxSize,            \* bound: bytes in a file
          MaxWrites,          \* bound: writes that are begun
          AnyClient           \* FALSE: only clients of Careful are considered

ASSUME FatAssumption ==
    /\ ClusterCount \in Nat /\ SectorSize \in Nat \ {0}
    /\ SectorsPerCluster \in Nat \ {0}
    /\ AnyClient \in BOOLEAN

VARIABLES table,      \* disk: the bytes of the file allocation table
          data,       \* disk: the bytes of each cluster
          entry,      \* disk: cluster and size in the directory entry
          half,       \* the half of a table entry that has yet to be written
          info,       \* m_info of the open file: cluster and size
          op,         \* the operation in progress
          writes,     \* history: the number of writes begun
          contents,   \* history: what was written to the open file
          recorded,   \* history: contents when the entry was last written
          truncated,  \* history: files truncated since then
          lost,       \* history: files in truncated when the power failed
          torn        \* history: files whose chain has a half-written entry

disk == <<table, data, entry>>
damage == <<lost, torn>>
vars == <<disk, half, info, op, writes, contents, recorded, truncated, damage>>

Cluster == 2 .. ClusterCount + 1
ClusterSize == SectorSize * SectorsPerCluster
Offset == 0 .. ClusterSize - 1

Least(a, b) == IF a < b THEN a ELSE b
Most(a, b) == IF a > b THEN a ELSE b
\* n rounded up and down to a multiple of m, a power of two in the code.
Up(n, m) == ((n + m - 1) \div m) * m
Down(n, m) == (n \div m) * m

-----------------------------------------------------------------------------
(* The file allocation table *)

FreeClusterMark == 0
BadClusterMark == 4087    \* 0xFF7
EndOfChain == 4088        \* 0xFF8, as are all values above it

\* Where the 16 bits that hold the entry of cluster c begin.
ByteOffset(c) == c + c \div 2

Word(t, c) == t[ByteOffset(c)] + 256 * t[ByteOffset(c) + 1]

\* getFATEntry
Next12(t, c) == IF c % 2 = 1 THEN Word(t, c) \div 16 ELSE Word(t, c) % 4096

Merged(word, from, to) ==
    IF from % 2 = 1 THEN (word % 16) + to * 16 ELSE (word \div 4096) * 4096 + to

\* The first byte of an entry is the last one of its sector.
Spans(c) == ByteOffset(c) % SectorSize = SectorSize - 1

NoCluster == 0
Written == [cluster |-> NoCluster]

\* writeClusterChainLink.  Of the two block handles of an entry that spans
\* sectors the second is released first, and with it the high byte written.
WriteClusterChainLink(from, to) ==
    LET word == Merged(Word(table, from), from, to)
        high == [table EXCEPT ![ByteOffset(from) + 1] = word \div 256]
    IN  IF Spans(from)
        THEN /\ table' = high
             /\ half' = [cluster |-> from, low |-> word % 256]
        ELSE /\ table' = [high EXCEPT ![ByteOffset(from)] = word % 256]
             /\ half' = Written

\* readClusterChain stops at a free or bad cluster, and here outside the table.
Readable(t, c) ==
    /\ c \in {0} \cup Cluster
    /\ Next12(t, c) \notin {FreeClusterMark, BadClusterMark}

\* nthChainEntry: the n-th cluster of the chain that begins at start, or 0.
NthChainEntry(t, start, n) ==
    LET at[k \in 0 .. n] ==
            LET last == at[k - 1]
                c == IF k = 0 THEN start
                     ELSE IF last = 0 \/ Next12(t, last) >= EndOfChain THEN 0
                     ELSE Next12(t, last)
            IN  IF Readable(t, c) THEN c ELSE 0
    IN  at[n]

\* The clusters that a walk from start meets.
Chain(start) == {NthChainEntry(table, start, n) : n \in 0 .. ClusterCount} \ {NoCluster}


\* findFreeCluster looks at the first ones, all but two.
FreeClusters == {c \in 2 .. ClusterCount - 1 : Next12(table, c) = FreeClusterMark}

Lowest(S) == CHOOSE c \in S : \A d \in S : c <= d

-----------------------------------------------------------------------------
(* Open files *)

Zero == [file |-> "none", write |-> 0]
Byte == [file : File, write : 1 .. MaxWrites] \cup {Zero}
Idle == [kind |-> "idle"]

\* The operation goes on once an entry is written as a whole.
At(kinds) == half = Written /\ op.kind \in kinds

\* clusterLookup; its hints only save a part of the walk.
ClusterLookup(f, index) ==
    IF info[f].cluster = NoCluster THEN NoCluster
    ELSE NthChainEntry(table, info[f].cluster, index)

\* readTo, for the i-th byte of an object that begins at the cluster start.
ByteAt(start, i) ==
    LET c == IF start = NoCluster THEN NoCluster
             ELSE NthChainEntry(table, start, i \div ClusterSize)
    IN  IF c = NoCluster THEN Zero ELSE data[c][i % ClusterSize]

Init ==
    /\ table = [[i \in 0 .. ByteOffset(ClusterCount + 1) + 1 |-> 0]
                    EXCEPT ![0] = 248, ![1] = 255, ![2] = 255]
    /\ data = [c \in Cluster |-> [i \in Offset |-> Zero]]
    /\ entry = [f \in File |-> [cluster |-> NoCluster, size |-> 0]]
    /\ half = Written
    /\ info = entry
    /\ op = Idle
    /\ writes = 0
    /\ contents = [f \in File |-> <<>>]
    /\ recorded = [f \in File |-> <<>>]
    /\ truncated = {}
    /\ lost = {}
    /\ torn = {}

\* What the code can do: truncate to nothing; leave no gap within the last
\* sector; give an empty file no more than a cluster at once.  After a power
\* failure, leave alone a file that was being truncated, and append to a file
\* whose last link is half-written before it is truncated.
CarefulTruncate(f, length) == AnyClient \/ (length = 0 /\ f \notin lost \cup torn)
CarefulWrite(f, offset, length) ==
    \/ AnyClient
    \/ /\ f \notin lost
       /\ offset \notin info[f].size + 1 .. Up(info[f].size, SectorSize)
       /\ info[f].size = 0 => length <= ClusterSize

-----------------------------------------------------------------------------
(* write *)

\* The loop of appendClusters begins: at which cluster the file ends.  A write
\* that would leave a gap fails.
BeginAppend(w) ==
    LET count == w.valid \div ClusterSize IN
    [w EXCEPT !.kind = IF w.pos > w.valid THEN "gap" ELSE "append",
              !.lastIndex = Most(count - 1, 0),
              !.last = IF count > 0 THEN ClusterLookup(w.file, count - 1) ELSE NoCluster]

\* The part below the boundary is overwritten, the rest appended.
BeginWrite(f, offset, length) ==
    LET valid == Up(info[f].size, SectorSize)
        boundary == Down(valid, ClusterSize)
        w == [kind |-> "overwrite", file |-> f, start |-> offset, pos |-> offset,
              end |-> offset + length, boundary |-> boundary, valid |-> valid,
              lastIndex |-> 0, last |-> NoCluster, new |-> NoCluster]
    IN  /\ At({"idle"})
        /\ writes < MaxWrites
        /\ length > 0 /\ offset + length <= MaxSize
        /\ CarefulWrite(f, offset, length)
        /\ op' = IF offset < boundary THEN w ELSE BeginAppend(w)
        /\ writes' = writes + 1
        /\ UNCHANGED <<disk, half, info, contents, recorded, truncated, damage>>

\* Mutant: the sector is written from its beginning.
MutSectorPart(pos, end) == Down(pos, SectorSize) .. Least(end, Up(pos + 1, SectorSize)) - 1

\* The bytes from pos that the write of one sector covers.
SectorPart(pos, end) == pos .. Least(end, Up(pos + 1, SectorSize)) - 1

\* overwritePartialSector, overwriteSector, appendSector and, where the sector
\* has held nothing before, appendPartialSector, which fills it up with zeroes.
WriteSector(cluster, bytes, fill) ==
    LET base == Down(op.pos, ClusterSize)
        sector == {i \in Offset : (base + i) \div SectorSize = op.pos \div SectorSize}
        stamp == [file |-> op.file, write |-> writes]
    IN  data' = [data EXCEPT ![cluster] = [i \in Offset |->
                    IF base + i \in bytes THEN stamp
                    ELSE IF fill /\ i \in sector THEN Zero ELSE @[i]]]

OverwriteEnd == Least(op.end, op.boundary)

\* overwriteClusters and overwriteCluster
OverwriteSector ==
    LET cluster == ClusterLookup(op.file, op.pos \div ClusterSize)
        bytes == SectorPart(op.pos, OverwriteEnd)
    IN  /\ At({"overwrite"})
        /\ op.pos < OverwriteEnd
        /\ cluster # NoCluster
        /\ WriteSector(cluster, bytes, FALSE)
        /\ op' = [op EXCEPT !.pos = Least(OverwriteEnd, Up(op.pos + 1, SectorSize))]
        /\ UNCHANGED <<table, entry, half, info, writes, contents, recorded, truncated, damage>>

OverwriteEnds ==
    /\ At({"overwrite"})
    /\ op.pos = OverwriteEnd
    /\ op.end > op.boundary
    /\ op' = BeginAppend(op)
    /\ UNCHANGED <<disk, half, info, writes, contents, recorded, truncated, damage>>

\* At the first byte that goes to a cluster, appendClusters asks whether the
\* file has this cluster.
NeedsCluster == op.last = NoCluster \/ op.lastIndex < op.pos \div ClusterSize

Appending == At({"append"}) /\ op.pos < op.end


AppendAllocate ==
    /\ Appending
    /\ NeedsCluster
    /\ op.new = NoCluster
    /\ FreeClusters # {}
    /\ WriteClusterChainLink(Lowest(FreeClusters), EndOfChain)
    /\ op' = [op EXCEPT !.new = Lowest(FreeClusters)]
    /\ UNCHANGED <<data, entry, info, writes, contents, recorded, truncated, damage>>

\* Where the file was empty, nothing is linked; the index goes up all the same.
\* The link replaces one that a power failure has left half-written.
AppendLink ==
    /\ Appending
    /\ op.new # NoCluster
    /\ IF op.last = NoCluster THEN UNCHANGED <<table, half>>
       ELSE WriteClusterChainLink(op.last, op.new)
    /\ info' = IF op.lastIndex = 0 /\ op.last = NoCluster
               THEN [info EXCEPT ![op.file].cluster = op.new] ELSE info
    /\ op' = [op EXCEPT !.lastIndex = @ + 1, !.last = op.new, !.new = NoCluster]
    /\ torn' = torn \ {op.file}
    /\ UNCHANGED <<data, entry, writes, contents, recorded, truncated, lost>>

\* appendCluster.  Where the chain does not reach the cluster, or the clusters
\* before it were not written, it fails, which appendClusters ignores.
AppendSector ==
    LET cluster == ClusterLookup(op.file, op.pos \div ClusterSize)
        partial == op.pos % SectorSize # 0
        sectorEnd == Up(op.pos + 1, SectorSize)
    IN  /\ Appending
        /\ op.new = NoCluster
        /\ ~NeedsCluster
        /\ IF cluster = NoCluster \/ op.pos > op.valid
           THEN /\ op' = [op EXCEPT !.pos = Least(op.end, Up(op.pos + 1, ClusterSize))]
                /\ UNCHANGED data
           ELSE /\ WriteSector(cluster, SectorPart(op.pos, op.end), ~partial)
                /\ op' = [op EXCEPT !.pos = Least(op.end, sectorEnd),
                                    !.valid = @ + SectorSize]
        /\ UNCHANGED <<table, entry, half, info, writes, contents, recorded, truncated, damage>>

\* The write returns false and leaves what it has done: no cluster is free, the
\* chain is too short, or the write would leave a gap.
WriteFails ==
    /\ \/ At({"overwrite"}) /\ op.pos < OverwriteEnd
            /\ ClusterLookup(op.file, op.pos \div ClusterSize) = NoCluster
       \/ Appending /\ NeedsCluster /\ op.new = NoCluster /\ FreeClusters = {}
       \/ At({"gap"})
    /\ op' = Idle
    /\ contents' = [contents EXCEPT ![op.file] =
           [i \in DOMAIN @ |-> IF i - 1 \in op.start .. op.pos - 1 THEN writes ELSE @[i]]]
    /\ UNCHANGED <<disk, half, info, writes, recorded, truncated, damage>>

WriteEnds ==
    LET f == op.file
        size == Most(op.end, info[f].size)
    IN  /\ At({"overwrite", "append"})
        /\ op.pos = op.end
        /\ info' = [info EXCEPT ![f].size = size]
        /\ contents' = [contents EXCEPT ![f] = [i \in 1 .. size |->
                            IF i - 1 \in op.start .. op.end - 1 THEN writes
                            ELSE IF i \in DOMAIN @ THEN @[i] ELSE 0]]
        /\ op' = Idle
        /\ UNCHANGED <<disk, half, writes, recorded, truncated, damage>>

-----------------------------------------------------------------------------
(* truncate *)

BeginTruncate(f, length) ==
    LET count == Up(length, ClusterSize) \div ClusterSize IN
    /\ At({"idle"})
    /\ length < info[f].size
    /\ CarefulTruncate(f, length)
    /\ op' = [kind |-> "free", file |-> f, length |-> length, count |-> count,
              from |-> NthChainEntry(table, info[f].cluster, count)]
    /\ truncated' = truncated \cup {f}
    /\ UNCHANGED <<disk, half, info, writes, contents, recorded, damage>>

\* freeClusterChain
FreeCluster ==
    LET next == Next12(table, op.from)
        f == op.file
    IN  /\ At({"free"})
        /\ WriteClusterChainLink(op.from, FreeClusterMark)
        /\ IF next >= EndOfChain
           THEN /\ info' = [info EXCEPT ![f] =
                       [cluster |-> IF op.count = 0 THEN NoCluster ELSE @.cluster,
                        size |-> op.length]]
                /\ contents' = [contents EXCEPT ![f] = SubSeq(@, 1, op.length)]
                /\ op' = Idle
           ELSE /\ op' = [op EXCEPT !.from = next]
                /\ UNCHANGED <<info, contents>>
        /\ UNCHANGED <<data, entry, writes, recorded, truncated, damage>>

-----------------------------------------------------------------------------
(* The directory, the second half of an entry, and a power failure *)

\* updateObjectMetadata overwrites the entry in its sector.
UpdateObjectMetadata(f) ==
    /\ At({"idle"})
    /\ entry[f] # info[f]
    /\ entry' = [entry EXCEPT ![f] = info[f]]
    /\ recorded' = [recorded EXCEPT ![f] = contents[f]]
    /\ truncated' = truncated \ {f}
    /\ UNCHANGED <<table, data, half, info, op, writes, contents, damage>>

\* The first of the two handles is released, and writes the low byte.
ReleaseFirst ==
    /\ half # Written
    /\ table' = [table EXCEPT ![ByteOffset(half.cluster)] = half.low]
    /\ half' = Written
    /\ UNCHANGED <<data, entry, info, op, writes, contents, recorded, truncated, damage>>

\* The power fails; the volume is mounted again and the files are opened.
Crash ==
    /\ op # Idle \/ info # entry \/ half # Written
    /\ op' = Idle
    /\ half' = Written
    /\ info' = entry
    /\ truncated' = {}
    /\ lost' = lost \cup truncated
    /\ torn' = torn \cup {f \in File : half.cluster \in Chain(entry[f].cluster)}
    /\ contents' = [f \in File |-> IF f \in lost' THEN <<>>
                        ELSE [i \in 1 .. entry[f].size |->
                                 ByteAt(entry[f].cluster, i - 1).write]]
    /\ recorded' = contents'
    /\ UNCHANGED <<disk, writes>>

-----------------------------------------------------------------------------
Next ==
    \/ \E f \in File :
          \/ \E offset \in 0 .. MaxSize - 1, length \in 1 .. MaxSize :
                BeginWrite(f, offset, length)
          \/ \E length \in 0 .. MaxSize - 1 : BeginTruncate(f, length)
          \/ UpdateObjectMetadata(f)
    \/ OverwriteSector
    \/ OverwriteEnds
    \/ AppendAllocate
    \/ AppendLink
    \/ AppendSector
    \/ WriteFails
    \/ WriteEnds
    \/ FreeCluster
    \/ ReleaseFirst
    \/ Crash

Spec == Init /\ [][Next]_vars

-----------------------------------------------------------------------------
(* Properties *)

\* The clusters that hold the first size bytes from start.
ClustersOf(o) ==
    IF o.cluster = NoCluster THEN {}
    ELSE {NthChainEntry(table, o.cluster, n) :
             n \in 0 .. Up(o.size, ClusterSize) \div ClusterSize - 1}

\* Files that a walk of the table finds as they are: not the one that is being
\* truncated, and none that was when the power failed.
Whole == File \ (lost \cup IF op.kind = "free" THEN {op.file} ELSE {})


\* Between two operations, what is read from a file is what was last written at
\* each place, however the writes were split over sectors and clusters, and
\* whatever a power failure has left in other files.
FilesReadBack ==
    At({"idle"}) => \A f \in Whole : \A i \in DOMAIN contents[f] :
        ByteAt(info[f].cluster, i - 1) = [file |-> f, write |-> contents[f][i]]

=============================================================================
