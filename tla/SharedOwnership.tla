-------------------------- MODULE SharedOwnership --------------------------
(* What shared_ptr promises of the objects it owns.  An object has a number  *)
(* of owners; only an owner, or an observer that finds it owned, can add one *)
(* more; it is deleted once, after its last owner has left.                  *)
EXTENDS Naturals

CONSTANT Object

VARIABLES owners, object

vars == <<owners, object>>

Init ==
    /\ owners = [o \in Object |-> 0]
    /\ object = [o \in Object |-> "none"]

Make(o) ==
    /\ object[o] = "none"
    /\ object' = [object EXCEPT ![o] = "live"]
    /\ owners' = [owners EXCEPT ![o] = 1]

Join(o) ==
    /\ owners[o] > 0
    /\ owners' = [owners EXCEPT ![o] = @ + 1]
    /\ UNCHANGED object

Leave(o) ==
    /\ owners[o] > 0
    /\ owners' = [owners EXCEPT ![o] = @ - 1]
    /\ UNCHANGED object

Delete(o) ==
    /\ object[o] = "live"
    /\ owners[o] = 0
    /\ object' = [object EXCEPT ![o] = "deleted"]
    /\ UNCHANGED owners

Next == \E o \in Object : Make(o) \/ Join(o) \/ Leave(o) \/ Delete(o)

Spec == Init /\ [][Next]_vars
=============================================================================
