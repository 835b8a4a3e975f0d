----------------------------- MODULE SharedPtr -----------------------------
(* shared_ptr and weak_ptr of System/C++/Utility/SharedPtr.hh.  An object and *)
(* its owner block (the two counts) are one value of Object.  A handle is a   *)
(* shared_ptr or a weak_ptr; some are members of objects, and die with them.  *)
(* A handle is used by one operation at a time; the counts are shared.        *)
(*                                                                            *)
(* An operation reads and writes its handles at once up to its next access    *)
(* to a count.  What it has still to do is its thread's list of calls, so a   *)
(* deletion puts the releases of the members before the caller's own rest.    *)
EXTENDS Integers, FiniteSets, Sequences, SequencesExt

CONSTANTS Thread, Object, Shared, Weak, Null,
          Where \* the object a handle is a member of, or Null

Handle == Shared \cup Weak

ASSUME HandlesAreApart ==
    /\ Shared \cap Weak = {}
    /\ Object \cap Handle = {}
    /\ Null \notin Object \cup Handle
    /\ Where \in [Handle -> Object \cup {Null}]

VARIABLES
    ptr,       \* _M_ptr of a shared_ptr
    own,       \* _M_owner of a handle
    strong,    \* _M_strong_ref
    weak,      \* _M_weak_ref
    object,    \* "none" before it is made, "live", "deleted"
    block,     \* the same of the owner block
    calls,     \* what a thread has still to do, first things first
    use,       \* the handles a thread's operation uses
    undefined  \* an operation has read through a null or dangling pointer

vars == <<ptr, own, strong, weak, object, block, calls, use, undefined>>

handles == <<ptr, own>>
counts  == <<strong, weak>>
memory  == <<object, block>>

Program == {h \in Shared : Where[h] = Null}

(* The handles a program goes through to get at a handle: none, or an owner  *)
(* of the object that it is a member of.                                     *)
Paths(h) ==
    IF Where[h] = Null THEN {{}} ELSE {{p} : p \in {q \in Program : own[q] = Where[h]}}

Alive(h) == Where[h] # Null => object[Where[h]] = "live"

Empty(h) == own[h] = Null /\ (h \in Shared => ptr[h] = Null)

Call(op, to, from) == [op |-> op, to |-> to, from |-> from, seen |-> 0]

(* A thread's remaining calls are replaced; the last one gives up the handles. *)
Continue(t, rest, using) ==
    /\ calls' = [calls EXCEPT ![t] = rest]
    /\ use'   = [use EXCEPT ![t] = IF rest = <<>> THEN {} ELSE using]

(* An operation of t on two handles, which nobody else is using.             *)
Begin(t, x, y, rest) ==
    \E p \in Paths(x), q \in Paths(y) :
        /\ calls[t] = <<>>
        /\ \A u \in Thread : use[u] \cap ({x, y} \cup p \cup q) = {}
        /\ Continue(t, rest, {x, y} \cup p \cup q)

SubStrong(o) == IF o = Null THEN <<>> ELSE <<Call("sub_strong", o, Null)>>
SubWeak(o)   == IF o = Null THEN <<>> ELSE <<Call("sub_weak", o, Null)>>

Init ==
    /\ ptr    = [h \in Shared |-> Null]
    /\ own    = [h \in Handle |-> Null]
    /\ strong = [o \in Object |-> 0]
    /\ weak   = [o \in Object |-> 0]
    /\ object = [o \in Object |-> "none"]
    /\ block  = [o \in Object |-> "none"]
    /\ calls  = [t \in Thread |-> <<>>]
    /\ use    = [t \in Thread |-> {}]
    /\ undefined = FALSE

----------------------------------------------------------------------------
(* Operations of shared_ptr.                                                 *)

(* reset(p): a shared_ptr of the new object is swapped in, and the temporary *)
(* releases what the handle owned.                                           *)
Make(t, h, o) ==
    /\ object[o] = "none"
    /\ Begin(t, h, h, SubStrong(own[h]))
    /\ ptr'    = [ptr EXCEPT ![h] = o]
    /\ own'    = [own EXCEPT ![h] = o]
    /\ strong' = [strong EXCEPT ![o] = 1]
    /\ weak'   = [weak EXCEPT ![o] = 1]
    /\ object' = [object EXCEPT ![o] = "live"]
    /\ block'  = [block EXCEPT ![o] = "live"]
    /\ UNCHANGED undefined

(* shared_ptr(const shared_ptr&).                                            *)
CopyShared(t, x, y) ==
    /\ Empty(x)
    /\ own[y] # Null
    /\ Begin(t, x, y, <<>>)
    /\ ptr'    = [ptr EXCEPT ![x] = ptr[y]]
    /\ own'    = [own EXCEPT ![x] = own[y]]
    /\ strong' = [strong EXCEPT ![own[y]] = @ + 1]
    /\ UNCHANGED <<weak, memory, undefined>>

(* operator=(const shared_ptr&).  The owner is taken over only if there was  *)
(* another one before.                                                       *)
MutReplacesOwner(x, y) == own[x] # Null

ReplacesOwner(x, y) == own[x] \notin {Null, own[y]}

AssignShared(t, x, y) ==
    /\ Begin(t, x, y,
             IF ReplacesOwner(x, y)
               THEN SubStrong(own[x]) \o <<Call("take_strong", x, y)>>
               ELSE <<>>)
    /\ ptr' = [ptr EXCEPT ![x] = ptr[y]]
    /\ UNCHANGED <<own, counts, memory, undefined>>

(* operator=(shared_ptr&&), and the move constructor.                        *)
MutMoveAssignShared(t, x, y) ==
    /\ ~(Empty(x) /\ Empty(y))
    /\ Begin(t, x, y, <<Call("move_owner", x, y)>>)
    /\ ptr' = [[ptr EXCEPT ![x] = ptr[y]] EXCEPT ![y] = Null]
    /\ UNCHANGED <<own, counts, memory, undefined>>

MoveAssignShared(t, x, y) ==
    /\ ~(Empty(x) /\ Empty(y))
    /\ Begin(t, x, y, SubStrong(own[x]) \o <<Call("move_owner", x, y)>>)
    /\ ptr' = [[ptr EXCEPT ![x] = ptr[y]] EXCEPT ![y] = Null]
    /\ UNCHANGED <<own, counts, memory, undefined>>

(* reset() and the destructor.                                               *)
ResetShared(t, x) ==
    /\ own[x] # Null \/ ptr[x] # Null
    /\ Begin(t, x, x, SubStrong(own[x]) \o <<Call("clear", x, Null)>>)
    /\ ptr' = [ptr EXCEPT ![x] = Null]
    /\ UNCHANGED <<own, counts, memory, undefined>>

Swap(t, x, y) ==
    /\ Begin(t, x, y, <<>>)
    /\ ptr' = [ptr EXCEPT ![x] = ptr[y], ![y] = ptr[x]]
    /\ own' = [own EXCEPT ![x] = own[y], ![y] = own[x]]
    /\ UNCHANGED <<counts, memory, undefined>>

----------------------------------------------------------------------------
(* Operations of weak_ptr.                                                   *)

(* operator=, of a weak_ptr or a shared_ptr; of an empty x it does what the  *)
(* copy constructors do.                                                     *)
AssignWeak(t, x, y) ==
    /\ own[x] # own[y]
    /\ Begin(t, x, y, SubWeak(own[x]) \o <<Call("take_weak", x, y)>>)
    /\ UNCHANGED <<handles, counts, memory, undefined>>

(* operator=(weak_ptr&&) and the move constructor.                           *)
MoveAssignWeak(t, x, y) ==
    /\ x # y
    /\ ~(Empty(x) /\ Empty(y))
    /\ Begin(t, x, y, SubWeak(own[x]) \o <<Call("move_owner", x, y)>>)
    /\ UNCHANGED <<handles, counts, memory, undefined>>

(* reset() and the destructor.                                               *)
ResetWeak(t, x) ==
    /\ own[x] # Null
    /\ Begin(t, x, x, SubWeak(own[x]) \o <<Call("clear", x, Null)>>)
    /\ UNCHANGED <<handles, counts, memory, undefined>>

(* lock() into an empty x, and shared_ptr(const weak_ptr&), up to the first  *)
(* load of the count.                                                        *)
Lock(t, x, y) ==
    /\ Empty(x)
    /\ own[y] # Null
    /\ Begin(t, x, y,
             IF strong[own[y]] = 0
               THEN <<>>
               ELSE <<[Call("try_add_strong", x, y) EXCEPT !.seen = strong[own[y]]]>>)
    /\ UNCHANGED <<handles, counts, memory, undefined>>

----------------------------------------------------------------------------
(* What operations have still to do.                                         *)


Top(t)  == Head(calls[t])
Rest(t) == Tail(calls[t])
Calls(t, op) == calls[t] # <<>> /\ Top(t).op = op

(* __sub_strong_ref: the last owner deletes the object, then lets go of the  *)
(* reference to the block that all owners share.                             *)
MutAfterLastOwner(o) == <<Call("sub_weak", o, Null), Call("delete_object", o, Null)>>

AfterLastOwner(o) == <<Call("delete_object", o, Null), Call("sub_weak", o, Null)>>

SubStrongRef(t) ==
    /\ Calls(t, "sub_strong")
    /\ LET o == Top(t).to
       IN  /\ strong' = [strong EXCEPT ![o] = @ - 1]
           /\ Continue(t,
                  (IF strong[o] = 1 THEN AfterLastOwner(o) ELSE <<>>) \o Rest(t), use[t])
    /\ UNCHANGED <<handles, weak, memory, undefined>>

(* __delete_object: the destructors of the members run on the same thread.   *)
Members(o) == {h \in Handle : Where[h] = o}

Releases(o) ==
    LET ms == SetToSeq({h \in Members(o) : own[h] # Null})
    IN  [i \in DOMAIN ms |->
            Call(IF ms[i] \in Shared THEN "sub_strong" ELSE "sub_weak", own[ms[i]], Null)]

DeleteObject(t) ==
    /\ Calls(t, "delete_object")
    /\ LET o == Top(t).to
       IN  /\ object' = [object EXCEPT ![o] = "deleted"]
           /\ ptr' = [h \in Shared |-> IF h \in Members(o) THEN Null ELSE ptr[h]]
           /\ own' = [h \in Handle |-> IF h \in Members(o) THEN Null ELSE own[h]]
           /\ Continue(t, Releases(o) \o Rest(t), use[t])
    /\ UNCHANGED <<counts, block, undefined>>

(* __sub_weak_ref: the last one deletes the block.                           *)
SubWeakRef(t) ==
    /\ Calls(t, "sub_weak")
    /\ LET o == Top(t).to
       IN  /\ weak'  = [weak EXCEPT ![o] = @ - 1]
           /\ block' = [block EXCEPT ![o] = IF weak[o] = 1 THEN "freed" ELSE @]
    /\ Continue(t, Rest(t), use[t])
    /\ UNCHANGED <<handles, strong, object, undefined>>

Defined(t) == Alive(Top(t).to) /\ Alive(Top(t).from)

(* The end of operator=(const shared_ptr&): the owner of the source, which   *)
(* must not be null and must not have gone with what was released.           *)
MutTakeStrong(t) ==
    /\ Calls(t, "take_strong")
    /\ Defined(t) /\ own[Top(t).from] # Null
    /\ own' = [own EXCEPT ![Top(t).to] = own[Top(t).from]]
    /\ Continue(t, Rest(t), use[t])
    /\ UNCHANGED <<ptr, counts, memory, undefined>>

TakeStrong(t) ==
    /\ Calls(t, "take_strong")
    /\ LET x == Top(t).to  y == Top(t).from
       IN  /\ Defined(t) /\ own[y] # Null
           /\ own'    = [own EXCEPT ![x] = own[y]]
           /\ strong' = [strong EXCEPT ![own[y]] = @ + 1]
    /\ Continue(t, Rest(t), use[t])
    /\ UNCHANGED <<ptr, weak, memory, undefined>>

MutTakeWeak(t) ==
    /\ Calls(t, "take_weak")
    /\ own' = [own EXCEPT ![Top(t).to] = own[Top(t).from]]
    /\ Continue(t, Rest(t), use[t])
    /\ UNCHANGED <<ptr, counts, memory, undefined>>

TakeWeak(t) ==
    /\ Calls(t, "take_weak")
    /\ LET x == Top(t).to  y == Top(t).from
       IN  /\ own'  = [own EXCEPT ![x] = own[y]]
           /\ weak' = [o \in Object |-> weak[o] + (IF o = own[y] THEN 1 ELSE 0)]
    /\ Continue(t, Rest(t), use[t])
    /\ UNCHANGED <<ptr, strong, memory, undefined>>

MoveOwner(t) ==
    /\ Calls(t, "move_owner")
    /\ Defined(t)
    /\ own' = [[own EXCEPT ![Top(t).to] = own[Top(t).from]] EXCEPT ![Top(t).from] = Null]
    /\ Continue(t, Rest(t), use[t])
    /\ UNCHANGED <<ptr, counts, memory, undefined>>

Clear(t) ==
    /\ Calls(t, "clear")
    /\ own' = [own EXCEPT ![Top(t).to] = Null]
    /\ Continue(t, Rest(t), use[t])
    /\ UNCHANGED <<ptr, counts, memory, undefined>>

CountIsAsSeen(t) == strong[own[Top(t).from]] = Top(t).seen

(* __try_add_strong_ref: the compare-exchange finds the value it expects ... *)
TryAddStrongRef(t) ==
    /\ Calls(t, "try_add_strong")
    /\ CountIsAsSeen(t)
    /\ LET x == Top(t).to  o == own[Top(t).from]
       IN  /\ strong' = [strong EXCEPT ![o] = @ + 1]
           /\ ptr' = [ptr EXCEPT ![x] = o]
           /\ own' = [own EXCEPT ![x] = o]
    /\ Continue(t, Rest(t), use[t])
    /\ UNCHANGED <<weak, memory, undefined>>

(* ... or another one, with which the loop goes on, or ends at zero.  A      *)
(* failure without cause leaves everything as it is.                         *)
TryAddStrongFails(t) ==
    /\ Calls(t, "try_add_strong")
    /\ ~CountIsAsSeen(t)
    /\ LET o == own[Top(t).from]
       IN  Continue(t, (IF strong[o] = 0 THEN <<>> ELSE <<[Top(t) EXCEPT !.seen = strong[o]]>>)
                         \o Rest(t), use[t])
    /\ UNCHANGED <<handles, counts, memory, undefined>>

UndefinedAssignment(t) ==
    /\ \/ Calls(t, "take_strong") /\ (~Defined(t) \/ own[Top(t).from] = Null)
       \/ Calls(t, "move_owner") /\ ~Defined(t)
    /\ undefined' = TRUE
    /\ UNCHANGED <<handles, counts, memory, calls, use>>

----------------------------------------------------------------------------
Operation(t) ==
    \/ \E x \in Shared, o \in Object : Make(t, x, o)
    \/ \E x, y \in Shared : CopyShared(t, x, y) \/ AssignShared(t, x, y)
                              \/ MoveAssignShared(t, x, y) \/ Swap(t, x, y)
    \/ \E x \in Shared : ResetShared(t, x)
    \/ \E x \in Weak, y \in Handle : AssignWeak(t, x, y)
    \/ \E x, y \in Weak : MoveAssignWeak(t, x, y)
    \/ \E x \in Weak : ResetWeak(t, x)
    \/ \E x \in Shared, y \in Weak : Lock(t, x, y)

Step(t) ==
    \/ SubStrongRef(t) \/ DeleteObject(t) \/ SubWeakRef(t)
    \/ TakeStrong(t) \/ TakeWeak(t) \/ MoveOwner(t) \/ Clear(t)
    \/ TryAddStrongRef(t) \/ TryAddStrongFails(t) \/ UndefinedAssignment(t)

Next == ~undefined /\ \E t \in Thread : Operation(t) \/ Step(t)

Fairness == \A t \in Thread : WF_vars(~undefined /\ Step(t))

Spec == Init /\ [][Next]_vars /\ Fairness

----------------------------------------------------------------------------
(* Properties.                                                               *)

Op == {"sub_strong", "sub_weak", "delete_object",
       "take_strong", "take_weak", "move_owner", "clear", "try_add_strong"}

(* The variables have their types; no count is decremented below zero.       *)
TypeOK ==
    /\ ptr \in [Shared -> Object \cup {Null}]
    /\ own \in [Handle -> Object \cup {Null}]
    /\ strong \in [Object -> Nat]
    /\ weak \in [Object -> Nat]
    /\ object \in [Object -> {"none", "live", "deleted"}]
    /\ block \in [Object -> {"none", "live", "freed"}]
    /\ calls \in [Thread -> Seq([op : Op, to : Object \cup Handle,
                                 from : Handle \cup {Null}, seen : Nat])]
    /\ use \in [Thread -> SUBSET Handle]
    /\ undefined \in BOOLEAN

Pending == UNION {{<<t, i>> : i \in DOMAIN calls[t]} : t \in Thread}
PendingCalls(op, o) == {c \in Pending : calls[c[1]][c[2]].op = op /\ calls[c[1]][c[2]].to = o}

(* The handles whose owner has been released and not yet replaced.           *)
Stale == {h \in Handle : \E c \in Pending : /\ calls[c[1]][c[2]].to = h
                                            /\ calls[c[1]][c[2]].op \in {"take_strong", "take_weak", "move_owner", "clear"}}
Holds(hs, o) == {h \in hs \ Stale : own[h] = o}

(* The counts are exact: one for each handle and each release that is still  *)
(* to be done, and all shared_ptrs together hold one weak reference.         *)
CountsAreExact ==
    \A o \in Object :
        /\ strong[o] = Cardinality(Holds(Shared, o)) + Cardinality(PendingCalls("sub_strong", o))
        /\ weak[o] = Cardinality(Holds(Weak, o)) + Cardinality(PendingCalls("sub_weak", o))
                       + (IF strong[o] > 0 THEN 1 ELSE 0)

(* An object lives for as long as a shared_ptr owns it, and its block for    *)
(* as long as a handle or an operation in progress refers to it.             *)
NothingDiesInUse ==
    /\ \A h \in Shared \ Stale : own[h] # Null => object[own[h]] = "live"
    /\ \A h \in Handle \ Stale : own[h] # Null => block[own[h]] = "live"
    /\ \A c \in Pending : \A o \in Object :
          calls[c[1]][c[2]].to = o => block[o] = "live"

(* The counts and objects behave as SharedOwnership says: nobody becomes an  *)
(* owner of an object without owners, and it is deleted once, after them.    *)
Ownership == INSTANCE SharedOwnership WITH owners <- strong
ImplementsOwnership == Ownership!Spec

(* What nobody owns is deleted, and what nobody refers to is freed.          *)
NothingLeaks ==
    \A o \in Object :
        /\ (object[o] = "live" /\ strong[o] = 0) ~> (object[o] = "deleted" \/ undefined)
        /\ (block[o] = "live" /\ \A h \in Handle : own[h] # o) ~> (block[o] = "freed" \/ undefined)
=============================================================================
