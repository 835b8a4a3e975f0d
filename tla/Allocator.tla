----------------------------- MODULE Allocator -----------------------------
(***************************************************************************)
(* What a heap promises to its users: the memory it grants to one of them  *)
(* is memory it was given, and nobody else's until it is returned.         *)
(***************************************************************************)
EXTENDS Integers

CONSTANTS Granule,   \* the addresses at which granted memory may begin
          Size       \* the sizes it may have

VARIABLES given,     \* the granules of the memory that the heap was given
          granted    \* granted[p]: the size of the memory granted at p

allocatorVars == <<given, granted>>

Extent(p, size) == {a \in Granule : p <= a /\ a < p + size}

\* The memory at p may become the user's: it overlaps nobody else's.
IsAvailable(p, size) ==
    /\ Extent(p, size) \subseteq given
    /\ \A q \in DOMAIN granted \ {p} :
          Extent(p, size) \cap Extent(q, granted[q]) = {}

Granting(p, size) ==
    granted' = [q \in DOMAIN granted \cup {p} |-> IF q = p THEN size ELSE granted[q]]

AllocatorInit == given = {} /\ granted = <<>>

\* The heap is given more memory.
Extend ==
    /\ given \subseteq given'
    /\ given' \subseteq Granule
    /\ UNCHANGED granted

Grant(p, size) ==
    /\ p \notin DOMAIN granted
    /\ Granting(p, size)
    /\ IsAvailable(p, size)
    /\ UNCHANGED given

Resize(p, size) ==
    /\ p \in DOMAIN granted
    /\ Granting(p, size)
    /\ IsAvailable(p, size)
    /\ UNCHANGED given

TakeBack(p) ==
    /\ granted' = [q \in DOMAIN granted \ {p} |-> granted[q]]
    /\ UNCHANGED given

AllocatorNext ==
    \/ Extend
    \/ \E p \in Granule, size \in Size : Grant(p, size) \/ Resize(p, size)
    \/ \E p \in DOMAIN granted : TakeBack(p)

AllocatorSpec == AllocatorInit /\ [][AllocatorNext]_allocatorVars
=============================================================================
