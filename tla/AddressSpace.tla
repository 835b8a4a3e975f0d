---------------------------- MODULE AddressSpace ----------------------------
(***************************************************************************)
(* What page tables promise: processors ask for pages to be mapped, each   *)
(* at the same distance from its frame, or to be unmapped.  A request      *)
(* changes its own pages only, in any portions, and reports success only   *)
(* once all of them are as asked.                                          *)
(***************************************************************************)
EXTENDS Integers

CONSTANTS Cpu, Page, Delta, NoMapping

VARIABLES mapped,   \* of each page: its frame, or NoMapping
          asked     \* of each processor: its request, or the answer to it

Returned(ok) == [kind |-> "returned", ok |-> ok]

Pages(request) == request.first .. request.first + request.size - 1

Init ==
    /\ mapped = [p \in Page |-> NoMapping]
    /\ asked = [c \in Cpu |-> Returned(TRUE)]

Ask(c) ==
    /\ asked[c].kind = "returned"
    /\ \E kind \in {"add", "remove"}, first, last \in Page, delta \in Delta :
          /\ first <= last
          /\ asked' = [asked EXCEPT ![c] = [kind |-> kind, first |-> first,
                                            size |-> last + 1 - first, delta |-> delta]]
    /\ UNCHANGED mapped

Wanted(request, p) == IF request.kind = "add" THEN p + request.delta ELSE NoMapping

\* Any of the pages asked for change to what is asked, the others do not.
Change(c) ==
    /\ asked[c].kind # "returned"
    /\ \A p \in Page :
          mapped'[p] = mapped[p]
            \/ (p \in Pages(asked[c]) /\ mapped'[p] = Wanted(asked[c], p))
    /\ UNCHANGED asked

Done(request) == \A p \in Pages(request) : mapped[p] = Wanted(request, p)

Return(c) ==
    /\ asked[c].kind # "returned"
    /\ \E ok \in BOOLEAN :
          /\ ok => Done(asked[c])
          /\ asked' = [asked EXCEPT ![c] = Returned(ok)]
    /\ UNCHANGED mapped

Next == \E c \in Cpu : Ask(c) \/ Change(c) \/ Return(c)

Spec == Init /\ [][Next]_<<mapped, asked>>
=============================================================================
