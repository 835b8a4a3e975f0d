--------------------------- MODULE CxxExceptions ---------------------------
(***************************************************************************)
(* The exceptions of the C++ ABI library (Exception.cc) and the            *)
(* exception_ptr built on them (ExceptionPtr.cc).                          *)
(*                                                                         *)
(* The calls into the library are made by compiled code, which is modelled *)
(* as external by a stack of frames per thread: an exception that is being *)
(* handled, one that is propagating, or a handler that was left by a throw *)
(* expression and whose landing pad has still to call __cxa_end_catch.     *)
(* Code that runs on top of a propagating exception is a destructor called *)
(* by the unwinder.  All exceptions are native.                            *)
(***************************************************************************)
EXTENDS Integers, FiniteSets, Sequences

CONSTANTS Thread,
          Exn,          \* the exceptions, each of which is made once
          Ptr,          \* the exception_ptr objects
          None,         \* a null pointer
          Memory,       \* what the heap's memory may hold in the place of a header
          MaxDepth,     \* bound: frames on the stack of a thread
          AnyProgram    \* FALSE: only the programs that are Careful

ASSUME CxxExceptionsAssumption ==
    /\ None \notin Exn
    /\ Memory \subseteq [refs : Int, handlers : Int]
    /\ IsFiniteSet(Thread) /\ IsFiniteSet(Ptr)
    /\ MaxDepth \in Nat
    /\ AnyProgram \in BOOLEAN

VARIABLES held,       \* held[x]: what the memory holds that x is going to be made in
          refs,       \* referenceCount
          handlers,   \* handlerCount
          next,       \* nextException
          object,     \* object[x]: none, live or deleted
          caught,     \* caughtExceptions of the thread
          uncaught,   \* uncaughtExceptions of the thread
          ptr,        \* ptr[p]: the exception p refers to
          stack,      \* external: the frames of the thread, innermost last
          dying,      \* dying[t]: the exception that t has still to delete
          ended       \* the program was terminated

header == <<refs, handlers, next>>
globals == <<caught, uncaught>>
vars == <<held, header, object, globals, ptr, stack, dying, ended>>

\* Nothing initialises a header: its two counts go on from what is in the memory.
\* A reference count just below 2^64 is a negative one.  nextException is written
\* before it is read.
Init ==
    /\ held \in [Exn -> Memory]
    /\ refs = [x \in Exn |-> held[x].refs]
    /\ handlers = [x \in Exn |-> held[x].handlers]
    /\ next = [x \in Exn |-> None]
    /\ object = [x \in Exn |-> "none"]
    /\ caught = [t \in Thread |-> None]
    /\ uncaught = [t \in Thread |-> 0]
    /\ ptr = [p \in Ptr |-> None]
    /\ stack = [t \in Thread |-> <<>>]
    /\ dying = [t \in Thread |-> None]
    /\ ended = FALSE

-----------------------------------------------------------------------------
(* The compiled code *)

Frame(k, x) == [kind |-> k, exn |-> x]

\* The n-th frame from the top of t's stack.
Top(t, n) ==
    IF Len(stack[t]) < n THEN Frame("code", None)
    ELSE stack[t][Len(stack[t]) + 1 - n]

Below(s) == SubSeq(s, 1, Len(s) - 1)

FramesOf(t, kind) == {i \in DOMAIN stack[t] : stack[t][i].kind = kind}

FramesWith(t, x) ==
    {i \in DOMAIN stack[t] : stack[t][i].exn = x /\ stack[t][i].kind # "left"}

Runs(t) == ~ended /\ dying[t] = None

Propagates(t) == Runs(t) /\ Top(t, 1).kind = "flight"

Push(t, kind, x) == stack' = [stack EXCEPT ![t] = Append(@, Frame(kind, x))]

\* The programs the library can serve: an exception that is thrown again is
\* thrown out of the only handler of its thread, and is not caught inside it;
\* an exception_ptr is thrown when no handler, or only the one it is thrown
\* from, has its exception, and nothing propagates it.
CarefulRethrow(t) == AnyProgram \/ FramesOf(t, "handler") = {Len(stack[t])}

CarefulCatch(t) == AnyProgram \/ Top(t, 1).exn # Top(t, 2).exn

CarefulThrowPtr(t, x) ==
    \/ AnyProgram
    \/ \A u \in Thread : FramesWith(u, x) \subseteq
           IF u = t /\ Top(t, 1).kind = "handler" THEN {Len(stack[t])} ELSE {}

-----------------------------------------------------------------------------
(* The reference count *)

\* Mutant: the last reference is taken for the last but one.
MutDecrementRefcount(t, x) ==
    /\ refs' = [refs EXCEPT ![x] = @ - 1]
    /\ dying' = [dying EXCEPT ![t] = IF refs[x] = 2 THEN x ELSE None]

\* The object is deleted in a step of its own.
DecrementRefcount(t, x) ==
    /\ refs' = [refs EXCEPT ![x] = @ - 1]
    /\ dying' = [dying EXCEPT ![t] = IF refs[x] = 1 THEN x ELSE None]

\* The destructor is called and the memory returned to the heap.
DeleteException(t) ==
    /\ ~ended
    /\ dying[t] # None
    /\ object' = [object EXCEPT ![dying[t]] = "deleted"]
    /\ dying' = [dying EXCEPT ![t] = None]
    /\ UNCHANGED <<header, globals, ptr, stack, ended>>

\* __cxa_allocate_exception.  The header is left as the memory was.
Allocate(x) ==
    /\ object[x] = "none"
    /\ object' = [object EXCEPT ![x] = "live"]

-----------------------------------------------------------------------------
(* Throwing and catching *)

Throw(t, x) ==
    /\ Runs(t)
    /\ Len(stack[t]) < MaxDepth
    /\ Allocate(x)
    /\ refs' = [refs EXCEPT ![x] = @ + 1]
    /\ uncaught' = [uncaught EXCEPT ![t] = @ + 1]
    /\ Push(t, "flight", x)
    /\ UNCHANGED <<handlers, next, caught, ptr, dying, ended>>

\* A count that a rethrow made negative is made positive again.
CountsHandler(h) == IF h >= 0 THEN h + 1 ELSE 1 - h

\* Mutant: any handler of the thread keeps the exception off the list.
MutIsHead(t, x) == caught[t] # None

IsHead(t, x) == caught[t] = x

\* __cxa_begin_catch, called for a try block above the frame below.
BeginCatch(t) ==
    LET x == Top(t, 1).exn IN
    /\ Propagates(t)
    /\ CarefulCatch(t)
    /\ handlers' = [handlers EXCEPT ![x] = CountsHandler(@)]
    /\ IF IsHead(t, x) THEN UNCHANGED <<next, caught>>
       ELSE /\ next' = [next EXCEPT ![x] = caught[t]]
            /\ caught' = [caught EXCEPT ![t] = x]
    /\ uncaught' = [uncaught EXCEPT ![t] = @ - 1]
    /\ stack' = [stack EXCEPT ![t] = Append(Below(@), Frame("handler", x))]
    /\ UNCHANGED <<refs, object, ptr, dying, ended>>

\* The handler that ends is the last one, and the exception is not rethrown.
Releases(h) == h = 1

\* __cxa_end_catch, with the handler counts as they are in h.
EndCatch(t, h) ==
    LET x == caught[t] IN
    IF x = None
    THEN /\ handlers' = h
         /\ UNCHANGED <<refs, caught, dying>>
    ELSE /\ handlers' = [h EXCEPT ![x] = IF @ < 0 THEN @ + 1 ELSE @ - 1]
         /\ caught' = IF handlers'[x] = 0 THEN [caught EXCEPT ![t] = next[x]] ELSE caught
         /\ IF Releases(h[x]) THEN DecrementRefcount(t, x)
            ELSE UNCHANGED <<refs, dying>>

\* A handler ends normally.
LeaveHandler(t) ==
    /\ Runs(t)
    /\ Top(t, 1).kind = "handler"
    /\ EndCatch(t, handlers)
    /\ stack' = [stack EXCEPT ![t] = Below(@)]
    /\ UNCHANGED <<next, object, uncaught, ptr, ended>>

\* The landing pad of a handler through which an exception propagates.
UnwindHandler(t) ==
    /\ Propagates(t)
    /\ Top(t, 2).kind \in {"handler", "left"}
    /\ EndCatch(t, handlers)
    /\ stack' = [stack EXCEPT ![t] = Append(Below(Below(@)), Top(t, 1))]
    /\ UNCHANGED <<next, object, uncaught, ptr, ended>>

\* Mutant: the handler count is not negated.
MutRethrown(x) == handlers

Rethrown(x) == [handlers EXCEPT ![x] = -@]

\* __cxa_rethrow, which ends the handler before it raises the exception.
Rethrow(t) ==
    LET x == caught[t] IN
    /\ Runs(t)
    /\ Top(t, 1).kind = "handler"
    /\ CarefulRethrow(t)
    /\ x # None
    /\ Len(stack[t]) < MaxDepth
    /\ EndCatch(t, Rethrown(x))
    /\ uncaught' = [uncaught EXCEPT ![t] = @ + 1]
    /\ stack' = [stack EXCEPT ![t] =
                    Below(@) \o <<Frame("left", Top(t, 1).exn), Frame("flight", x)>>]
    /\ UNCHANGED <<next, object, ptr, ended>>

\* The program ends: a rethrow outside of a handler, an exception nobody
\* catches, one that leaves a destructor called by the unwinder.
Terminate(t) ==
    /\ Runs(t)
    /\ \/ caught[t] = None /\ Top(t, 1).kind # "flight"
       \/ Propagates(t) /\ Top(t, 2).kind \in {"code", "flight"}
    /\ ended' = TRUE
    /\ UNCHANGED <<header, object, globals, ptr, stack, dying>>

-----------------------------------------------------------------------------
(* exception_ptr *)

\* make_exception_ptr.
MakePtr(t, p, x) ==
    /\ Runs(t)
    /\ ptr[p] = None
    /\ Allocate(x)
    /\ refs' = [refs EXCEPT ![x] = @ + 1]
    /\ ptr' = [ptr EXCEPT ![p] = x]
    /\ UNCHANGED <<handlers, next, globals, stack, dying, ended>>

\* Mutant: the exception_ptr takes no reference.
MutTakeRef(x) == refs

TakeRef(x) == [refs EXCEPT ![x] = @ + 1]

CurrentException(t, p) ==
    /\ Runs(t)
    /\ ptr[p] = None
    /\ caught[t] # None
    /\ ptr' = [ptr EXCEPT ![p] = caught[t]]
    /\ refs' = TakeRef(caught[t])
    /\ UNCHANGED <<handlers, next, object, globals, stack, dying, ended>>

\* The copy constructor.  A copy of a null pointer looks for a header before
\* address zero; the program ends at best.
CopyPtr(t, p, q) ==
    /\ Runs(t)
    /\ ptr[p] = None
    /\ p # q
    /\ IF ptr[q] = None
       THEN /\ ended' = TRUE
            /\ UNCHANGED <<refs, ptr>>
       ELSE /\ ptr' = [ptr EXCEPT ![p] = ptr[q]]
            /\ refs' = TakeRef(ptr[q])
            /\ UNCHANGED ended
    /\ UNCHANGED <<handlers, next, object, globals, stack, dying>>

\* The move constructor.
MovePtr(t, p, q) ==
    /\ Runs(t)
    /\ ptr[p] = None
    /\ ptr' = [ptr EXCEPT ![p] = ptr[q], ![q] = None]
    /\ UNCHANGED <<header, object, globals, stack, dying, ended>>

\* The destructor.  An assignment is this and a copy or a move.
ResetPtr(t, p) ==
    /\ Runs(t)
    /\ ptr[p] # None
    /\ DecrementRefcount(t, ptr[p])
    /\ ptr' = [ptr EXCEPT ![p] = None]
    /\ UNCHANGED <<handlers, next, object, globals, stack, ended>>

\* rethrow_exception.  A dependent exception is allocated, prepared and then
\* left alone: it is the primary exception that is raised.
ThrowPtr(t, p) ==
    LET x == ptr[p] IN
    /\ Runs(t)
    /\ Len(stack[t]) < MaxDepth
    /\ IF x = None
       THEN /\ ended' = TRUE
            /\ UNCHANGED <<refs, uncaught, stack>>
       ELSE /\ CarefulThrowPtr(t, x)
            /\ refs' = TakeRef(x)
            /\ uncaught' = [uncaught EXCEPT ![t] = @ + 1]
            /\ Push(t, "flight", x)
            /\ UNCHANGED ended
    /\ UNCHANGED <<handlers, next, object, caught, ptr, dying>>

-----------------------------------------------------------------------------
Next ==
    /\ UNCHANGED held
    /\ \E t \in Thread :
           \/ DeleteException(t)
           \/ \E x \in Exn : Throw(t, x)
           \/ BeginCatch(t)
           \/ LeaveHandler(t)
           \/ UnwindHandler(t)
           \/ Rethrow(t)
           \/ Terminate(t)
           \/ \E p \in Ptr, x \in Exn : MakePtr(t, p, x)
           \/ \E p \in Ptr : CurrentException(t, p) \/ ResetPtr(t, p) \/ ThrowPtr(t, p)
           \/ \E p, q \in Ptr : CopyPtr(t, p, q) \/ MovePtr(t, p, q)

Spec == Init /\ [][Next]_vars

-----------------------------------------------------------------------------
(* Properties *)

\* What refers to an exception: the frames that handle or propagate it, and the
\* exception_ptrs.
Owners(x) ==
    Cardinality({f \in Thread \X (1 .. MaxDepth) : f[2] \in FramesWith(f[1], x)})
        + Cardinality({p \in Ptr : ptr[p] = x})

\* Nothing in the library sees to this.  A handler that finds another count than
\* zero ends without leaving the list and without giving back its reference; a
\* reference count below zero deletes an exception that is in use.  No property
\* speaks of what follows.
HarmlessMemory == \A x \in Exn : held[x].handlers = 0 /\ held[x].refs >= 0

\* Every reference is counted once, whichever way an exception is thrown, caught,
\* left and thrown again, on top of the count that was in the memory; and an
\* exception whose count has gone is about to be deleted.  An exception leaks
\* exactly if its memory held a count other than zero.
ReferencesAreCounted ==
    HarmlessMemory =>
    \A x \in Exn :
        /\ refs[x] = held[x].refs + Owners(x)
        /\ object[x] = "live" /\ refs[x] = 0 => \E t \in Thread : dying[t] = x

\* c is the exception of the innermost handler among the first n frames of s.
Innermost(s, n, c) ==
    \/ c = None /\ \A i \in 1 .. n : s[i].kind # "handler"
    \/ \E i \in 1 .. n : /\ s[i] = Frame("handler", c)
                       /\ \A j \in i + 1 .. n : s[j].kind # "handler"

\* The list of caught exceptions holds the exceptions of the thread's handlers,
\* the innermost first, although it is linked through headers that exception_ptrs
\* share; handler counts and the count of uncaught exceptions agree with the
\* program.
GlobalsMatchTheProgram ==
    HarmlessMemory =>
    \A t \in Thread :
        /\ Innermost(stack[t], Len(stack[t]), caught[t])
        /\ \A i \in FramesOf(t, "handler") :
              /\ handlers[stack[t][i].exn] = 1
              /\ Innermost(stack[t], i - 1, next[stack[t][i].exn])
        /\ uncaught[t] = Cardinality(FramesOf(t, "flight"))

\* An exception has owners: its handlers, its flights and its exception_ptrs.
\* Only an owner makes another one, and it is deleted once, after the last has left,
\* whatever the reference count was that the memory held.
Ownership == INSTANCE SharedOwnership
                 WITH Object <- Exn, owners <- [x \in Exn |-> Owners(x)]

ImplementsOwnership ==
    Ownership!Init /\ [][HarmlessMemory => Ownership!Next]_(Ownership!vars)
=============================================================================
