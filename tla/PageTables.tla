----------------------------- MODULE PageTables -----------------------------
(***************************************************************************)
(* The page tables of the x86 kernel (PageTableImpl.hh): processors add    *)
(* and remove mappings in one tree of tables, entry by entry, while the    *)
(* hardware of each of them walks the tree and caches what it finds.  The  *)
(* locks of the entries do nothing, and an entry is read and written in    *)
(* two steps.  Tables are reached through the recursive mapping, that is   *)
(* by the entries of the moment.  Addresses and sizes count small pages.   *)
(***************************************************************************)
EXTENDS Integers, Sequences, FiniteSets

CONSTANTS Cpu,
          Root, TableFrame,      \* the root table, frames for other tables
          Levels, EntryCount,    \* of the tree, of a table
          LargeLevel,            \* the levels above 0 at which pages can be mapped
          Delta,                 \* the distances of a frame from its page
          NoMapping, Nobody,
          AnyClient,             \* or only the clients of CarefulAdd, CarefulRemove
          MaxSize,               \* bound: pages in a request
          MaxRequests            \* bound: requests

ASSUME PageTablesAssumption ==
    /\ Levels \in Nat \ {0} /\ EntryCount \in Nat \ {0, 1}
    /\ LargeLevel \subseteq 1 .. Levels - 1
    /\ Root \notin TableFrame
    /\ Nobody \notin Cpu
    /\ Delta \subseteq Int /\ Delta # {}
    /\ NoMapping \notin Int
    /\ AnyClient \in BOOLEAN
    /\ MaxSize \in Nat /\ MaxRequests \in Nat

VARIABLES tables,      \* the contents of tables
          free,        \* the frames of the allocator of tables
          op,          \* of each processor: what it is doing
          tlb,         \* any one of the translations the processors have cached
          removedBy,   \* history: who last removed each page
          requests     \* bound: requests so far

vars == <<tables, free, op, tlb, removedBy, requests>>

PageSize[level \in 0 .. Levels] == IF level = 0 THEN 1 ELSE EntryCount * PageSize[level - 1]
Page == 0 .. PageSize[Levels] - 1
Level == 0 .. Levels - 1

Least(a, b) == IF a < b THEN a ELSE b

Index(page, level) == (page \div PageSize[level]) % EntryCount

Absent == [kind |-> "absent"]
SubTable(frame) == [kind |-> "table", address |-> frame]
PageAt(frame) == [kind |-> "page", address |-> frame]

Returned(ok) == [kind |-> "returned", ok |-> ok]

Init ==
    /\ tables = [t \in TableFrame \cup {Root} |-> [i \in 0 .. EntryCount - 1 |-> Absent]]
    /\ free = TableFrame
    /\ op = [c \in Cpu |-> Returned(TRUE)]
    /\ tlb = {}
    /\ removedBy = [p \in Page |-> Nobody]
    /\ requests = 0

-----------------------------------------------------------------------------
(* The tree, as the hardware and the recursive mapping follow it *)

\* The table at a level on the way to a page: none, or one
TablesFor(page, level) ==
    LET path[l \in Level] ==
            IF l = Levels - 1 THEN {Root}
            ELSE {tables[t][Index(page, l + 1)].address :
                     t \in {u \in path[l + 1] : tables[u][Index(page, l + 1)].kind = "table"}}
    IN  path[level]

\* The entry of a page, in the table of that level for another page, its base
EntryIn(base, page, level) ==
    LET found == TablesFor(base, level) IN
    IF found = {} THEN Absent
    ELSE LET t == CHOOSE u \in found : TRUE IN tables[t][Index(page, level)]

Entry(page, level) == EntryIn(page, page, level)

Write(base, page, level, entry) ==
    LET found == TablesFor(base, level) IN
    tables' = [t \in DOMAIN tables |->
                  IF t \in found THEN [tables[t] EXCEPT ![Index(page, level)] = entry]
                  ELSE tables[t]]

MappingLevels(page) == {l \in Level : Entry(page, l).kind = "page"}

Translation(page) ==
    LET levels == MappingLevels(page) IN
    IF levels = {} THEN NoMapping
    ELSE LET l == CHOOSE k \in levels : TRUE
         IN  Entry(page, l).address + (page % PageSize[l])

Cached(c, page, level) ==
    [cpu |-> c, first |-> page - (page % PageSize[level]), size |-> PageSize[level],
     address |-> Entry(page, level).address]

Covers(cached, page) == page \in cached.first .. cached.first + cached.size - 1

\* The hardware caches a translation whenever it likes.  (One that it drops
\* by itself is one that is not looked at.)
FillTlb(c) ==
    /\ tlb = {}
    /\ \E page \in Page : \E l \in MappingLevels(page) : tlb' = {Cached(c, page, l)}
    /\ UNCHANGED <<tables, free, op, removedBy, requests>>

MutInvalidatePage(c, page) == tlb' = {t \in tlb : ~(t.cpu = c /\ t.size = 1 /\ Covers(t, page))}
InvalidatePage(c, page) == tlb' = {t \in tlb : ~(t.cpu = c /\ Covers(t, page))}

-----------------------------------------------------------------------------
(* Requests *)

Pages(request) == request.first .. request.first + request.size - 1

\* bestPageSize, as a level
IsAligned(page, left, frame, level) ==
    page % PageSize[level] = 0 /\ frame % PageSize[level] = 0 /\ left >= PageSize[level]

MutBestLevel(page, left, frame) ==
    CHOOSE l \in LargeLevel \cup {0} :
        /\ l = 0 \/ (page % PageSize[l] = 0 /\ frame % PageSize[l] = 0 /\ left >= PageSize[l - 1])
        /\ \A k \in LargeLevel : k > l =>
               ~(page % PageSize[k] = 0 /\ frame % PageSize[k] = 0 /\ left >= PageSize[k - 1])
BestLevel(page, left, frame) ==
    CHOOSE l \in LargeLevel \cup {0} :
        /\ l = 0 \/ IsAligned(page, left, frame, l)
        /\ \A k \in LargeLevel : k > l => ~ IsAligned(page, left, frame, k)

Busy(c) == op[c].kind # "returned"

Others(c) == {d \in Cpu \ {c} : Busy(d)}

\* The entries an add will find absent on its way
Missing(request) ==
    UNION {{<<l, page \div PageSize[l]>> : page \in {p \in Pages(request) : Entry(p, l) = Absent}} :
              l \in 1 .. Levels - 1}

\* Clients map pages that are not mapped, and leave them alone meanwhile.
\* Careful ones do not put a large page where a table is, and do not add in
\* parallel below an entry for which there is no table yet.
CarefulAdd(c, request) ==
    /\ \A page \in Pages(request) : Translation(page) = NoMapping
    /\ \A d \in Others(c) : Pages(op[d]) \cap Pages(request) = {}
    /\ AnyClient \/
          /\ \A l \in LargeLevel : \A page \in Pages(request) :
                 Entry(page, l).kind = "table" =>
                     BestLevel(page, request.first + request.size - page, page + request.delta) < l
          /\ \A d \in Others(c) : op[d].kind = "add" => Missing(op[d]) \cap Missing(request) = {}

\* Clients remove ranges with a mapped page.  Careful ones remove a range that
\* begins at a boundary of each level at which it does not stay below one entry.
CarefulRemove(c, request) ==
    /\ \E page \in Pages(request) : Translation(page) # NoMapping
    /\ \A d \in Others(c) : Pages(op[d]) \cap Pages(request) = {}
    /\ AnyClient \/
          \A l \in 1 .. Levels - 1 :
              LET offset == request.first % PageSize[l] IN
              offset = 0 \/ offset + request.size <= PageSize[l]

Begin(c, request) ==
    /\ ~ Busy(c)
    /\ requests < MaxRequests
    /\ request.first + request.size <= PageSize[Levels]
    /\ op' = [op EXCEPT ![c] = request]
    /\ requests' = requests + 1
    /\ UNCHANGED <<tables, free, tlb, removedBy>>

-----------------------------------------------------------------------------
(* addMapping, called by mapRange for one page after the other *)

Add(c) ==
    \E first \in Page, size \in 1 .. MaxSize, delta \in Delta :
        LET request == [kind |-> "add", first |-> first, size |-> size, delta |-> delta,
                        page |-> first, level |-> Levels - 1, absent |-> FALSE]
        IN  Begin(c, request) /\ CarefulAdd(c, request)

Adding(c) ==
    /\ op[c].kind = "add"
    /\ ~ op[c].absent
    /\ op[c].page < op[c].first + op[c].size

TargetLevel(o) == BestLevel(o.page, o.first + o.size - o.page, o.page + o.delta)

MutDescend(c) ==
    /\ Adding(c)
    /\ op[c].level > TargetLevel(op[c])
    /\ op' = [op EXCEPT ![c].absent = TRUE]
    /\ UNCHANGED <<tables, free, tlb, removedBy, requests>>
\* The entry is loaded ...
Descend(c) ==
    /\ Adding(c)
    /\ op[c].level > TargetLevel(op[c])
    /\ op' = IF Entry(op[c].page, op[c].level).kind = "absent"
             THEN [op EXCEPT ![c].absent = TRUE]
             ELSE [op EXCEPT ![c].level = @ - 1]
    /\ UNCHANGED <<tables, free, tlb, removedBy, requests>>

\* ... and a sub-table is stored where none was.
AddSubTable(c) ==
    /\ op[c].kind = "add"
    /\ op[c].absent
    /\ \E frame \in free :
          /\ free' = free \ {frame}
          /\ Write(op[c].page, op[c].page, op[c].level, SubTable(frame))
    /\ op' = [op EXCEPT ![c].absent = FALSE, ![c].level = @ - 1]
    /\ UNCHANGED <<tlb, removedBy, requests>>

\* The pages mapped before stay mapped.
NoSubTable(c) ==
    /\ op[c].kind = "add"
    /\ op[c].absent
    /\ free = {}
    /\ op' = [op EXCEPT ![c] = Returned(FALSE)]
    /\ UNCHANGED <<tables, free, tlb, removedBy, requests>>

WriteMapping(c) ==
    LET o == op[c] IN
    /\ Adding(c)
    /\ o.level = TargetLevel(o)
    /\ Write(o.page, o.page, o.level, PageAt(o.page + o.delta))
    /\ op' = [op EXCEPT ![c].page = @ + PageSize[TargetLevel(o)], ![c].level = Levels - 1]
    /\ UNCHANGED <<free, tlb, removedBy, requests>>

Mapped(c) ==
    /\ op[c].kind = "add"
    /\ op[c].page = op[c].first + op[c].size
    /\ op' = [op EXCEPT ![c] = Returned(TRUE)]
    /\ UNCHANGED <<tables, free, tlb, removedBy, requests>>

-----------------------------------------------------------------------------
(* removeMapping and removeMappings, which call each other *)

\* A call goes on in the table it was made for.
Call(level, page, size) ==
    [level |-> level, base |-> page, page |-> page, size |-> size, done |-> 0]

Remove(c) ==
    \E first \in Page, size \in 1 .. MaxSize :
        LET request == [kind |-> "remove", first |-> first, size |-> size, step |-> "visit",
                        stack |-> <<Call(Levels - 1, first, size)>>]
        IN  Begin(c, request) /\ CarefulRemove(c, request)

Removing(c, step) == op[c].kind = "remove" /\ op[c].step = step

\* What a call of removeMapping is asked to remove
Portion(call) == Least(PageSize[call.level], call.size - call.done)

Advanced(call) ==
    [call EXCEPT !.done = @ + PageSize[call.level], !.page = @ + PageSize[call.level]]

AdvancedTop(stack) == <<Advanced(Head(stack))>> \o Tail(stack)

Visit(c) ==
    LET call == Head(op[c].stack)
        entry == EntryIn(call.base, call.page, call.level)
    IN  /\ Removing(c, "visit")
        /\ call.done < call.size
        /\ \/ /\ entry.kind = "absent"
              /\ op' = [op EXCEPT ![c].stack = AdvancedTop(@)]
           \/ /\ entry.kind = "table"
              /\ op' = [op EXCEPT ![c].stack =
                           <<Call(call.level - 1, call.page, Portion(call))>> \o @]
           \/ /\ entry.kind = "page"
              /\ op' = IF call.level > 0 /\ Portion(call) # PageSize[call.level]
                       THEN [op EXCEPT ![c] = Returned(FALSE)]
                       ELSE [op EXCEPT ![c].step = "clear"]
        /\ UNCHANGED <<tables, free, tlb, removedBy, requests>>

Clear(c) ==
    LET call == Head(op[c].stack) IN
    /\ Removing(c, "clear")
    /\ Write(call.base, call.page, call.level, Absent)
    /\ removedBy' = [p \in Page |-> IF p \in call.page .. call.page + PageSize[call.level] - 1
                                    THEN c ELSE removedBy[p]]
    /\ op' = [op EXCEPT ![c].step = "flush"]
    /\ UNCHANGED <<free, tlb, requests>>

Flush(c) ==
    /\ Removing(c, "flush")
    /\ InvalidatePage(c, Head(op[c].stack).page)
    /\ op' = [op EXCEPT ![c].step = "visit", ![c].stack = AdvancedTop(@)]
    /\ UNCHANGED <<tables, free, removedBy, requests>>

Return(c) ==
    /\ Removing(c, "visit")
    /\ Head(op[c].stack).done >= Head(op[c].stack).size
    /\ op' = IF Tail(op[c].stack) = <<>> THEN [op EXCEPT ![c] = Returned(TRUE)]
             ELSE [op EXCEPT ![c].stack = AdvancedTop(Tail(@))]
    /\ UNCHANGED <<tables, free, tlb, removedBy, requests>>

-----------------------------------------------------------------------------
Next ==
    \E c \in Cpu :
        \/ Add(c) \/ Descend(c) \/ AddSubTable(c) \/ NoSubTable(c) \/ WriteMapping(c) \/ Mapped(c)
        \/ Remove(c) \/ Visit(c) \/ Clear(c) \/ Flush(c) \/ Return(c)
        \/ FillTlb(c)

Spec == Init /\ [][Next]_vars

-----------------------------------------------------------------------------
(* Properties *)

\* Every frame taken from the allocator holds the table of one entry of the
\* tree: no table is lost, shared, or given out twice.
References(frame) ==
    {slot \in (DOMAIN tables) \X (0 .. EntryCount - 1) :
        tables[slot[1]][slot[2]] = SubTable(frame)}

TablesFormATree ==
    \A frame \in TableFrame : Cardinality(References(frame)) = IF frame \in free THEN 0 ELSE 1

\* A processor that has removed a page does not go on using its translation,
\* whenever its hardware reads the tables.
RemovedPagesAreForgotten ==
    \A t \in tlb : \A page \in Page :
        Covers(t, page) /\ removedBy[page] = t.cpu /\ Translation(page) # t.address + page - t.first
            => Removing(t.cpu, "flush")

\* Mappings change as they were asked for, also those added and removed in
\* parallel: no other page is touched, and success means that all is done.
Asked ==
    [c \in Cpu |-> IF Busy(c) THEN [kind |-> op[c].kind, first |-> op[c].first, size |-> op[c].size,
                                    delta |-> IF op[c].kind = "add" THEN op[c].delta
                                              ELSE CHOOSE d \in Delta : TRUE]
                   ELSE op[c]]

AddressSpace == INSTANCE AddressSpace
    WITH mapped <- [p \in Page |-> Translation(p)], asked <- Asked

ImplementsAddressSpace == AddressSpace!Spec
=============================================================================
