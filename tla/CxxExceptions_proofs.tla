------------------------ MODULE CxxExceptions_proofs ------------------------
(***************************************************************************)
(* Proofs about the exceptions of the C++ ABI library, for any threads,    *)
(* exceptions, exception_ptrs and depth of the stacks, and for the         *)
(* programs that the library can serve.                                    *)
(*                                                                         *)
(* The list of caught exceptions is linked through headers that threads    *)
(* could share.  The invariant says that they do not: all frames of an     *)
(* exception are on one stack, where at most a handler and the flight      *)
(* above it have it in common, so that each header counts one handler and  *)
(* is linked once.                                                         *)
(***************************************************************************)
EXTENDS CxxExceptions, FiniteSetTheorems, TLAPS

-----------------------------------------------------------------------------
(* The cardinality of sets that differ in one element or two *)

In(x, S) == IF x \in S THEN 1 ELSE 0

LEMMA OneDiffers ==
    ASSUME NEW S, NEW T, NEW x, IsFiniteSet(S), IsFiniteSet(T),
           \A y : y # x => (y \in S <=> y \in T)
    PROVE  /\ Cardinality(S) \in Nat /\ Cardinality(T) \in Nat
           /\ Cardinality(T) + In(x, S) = Cardinality(S) + In(x, T)
<1>1. S \ {x} = T \ {x}
  OBVIOUS
<1>2. Cardinality(S) \in Nat /\ Cardinality(T) \in Nat
  BY FS_CardinalityType
<1>3. /\ Cardinality(S \ {x}) = IF x \in S THEN Cardinality(S) - 1 ELSE Cardinality(S)
      /\ Cardinality(T \ {x}) = IF x \in T THEN Cardinality(T) - 1 ELSE Cardinality(T)
  BY FS_RemoveElement
<1>4. Cardinality(S \ {x}) = Cardinality(T \ {x})
  BY <1>1
<1>5. CASE x \in S
  BY <1>2, <1>3, <1>4, <1>5 DEF In
<1>6. CASE x \notin S
  BY <1>2, <1>3, <1>4, <1>6 DEF In
<1> QED
  BY <1>5, <1>6

LEMMA TwoDiffer ==
    ASSUME NEW S, NEW T, NEW x, NEW y, x # y, IsFiniteSet(S), IsFiniteSet(T),
           \A z : z # x /\ z # y => (z \in S <=> z \in T)
    PROVE  /\ Cardinality(S) \in Nat /\ Cardinality(T) \in Nat
           /\ Cardinality(T) + In(x, S) + In(y, S) = Cardinality(S) + In(x, T) + In(y, T)
<1> DEFINE U == IF x \in T THEN S \cup {x} ELSE S \ {x}
<1>1. IsFiniteSet(U)
  BY FS_AddElement, FS_RemoveElement
<1>2. /\ \A z : z # x => (z \in S <=> z \in U)
      /\ \A z : z # y => (z \in U <=> z \in T)
      /\ In(x, U) = In(x, T) /\ In(y, U) = In(y, S)
  BY DEF In
<1> HIDE DEF U
<1>3. /\ Cardinality(S) \in Nat /\ Cardinality(U) \in Nat
      /\ Cardinality(U) + In(x, S) = Cardinality(S) + In(x, U)
  BY <1>1, <1>2, OneDiffers
<1>4. /\ Cardinality(T) \in Nat
      /\ Cardinality(T) + In(y, U) = Cardinality(U) + In(y, T)
  BY <1>1, <1>2, OneDiffers
<1>5. \A z, Z : In(z, Z) \in Nat
  BY DEF In
<1> QED
  BY <1>2, <1>3, <1>4, <1>5

-----------------------------------------------------------------------------
(* The invariant *)

Frames == [kind : {"handler", "flight", "left"}, exn : Exn]

TypeOK ==
    /\ held \in [Exn -> [refs : Int, handlers : Int]]
    /\ refs \in [Exn -> Int]
    /\ handlers \in [Exn -> Int]
    /\ next \in [Exn -> Exn \cup {None}]
    /\ object \in [Exn -> {"none", "live", "deleted"}]
    /\ caught \in [Thread -> Exn \cup {None}]
    /\ uncaught \in [Thread -> Int]
    /\ ptr \in [Ptr -> Exn \cup {None}]
    /\ stack \in [Thread -> Seq(Frames)]
    /\ dying \in [Thread -> Exn \cup {None}]
    /\ ended \in BOOLEAN
    /\ \A t \in Thread : Len(stack[t]) <= MaxDepth

\* The frames of s that handle or propagate x.
With(s, x) == {i \in DOMAIN s : s[i].exn = x /\ s[i].kind # "left"}

\* Two frames with the same exception are a handler and the flight out of it.
Alternate(s) ==
    \A i, j \in DOMAIN s :
        s[i].exn = s[j].exn /\ s[i].kind # "left" /\ s[j].kind # "left" /\ i < j =>
            j = i + 1 /\ s[i].kind = "handler" /\ s[j].kind = "flight"

\* A handler that was left was the outermost one, and what was thrown out of it
\* propagates until its landing pad has run.
LeftIsOutermost(s) ==
    \A i \in DOMAIN s : s[i].kind = "left" =>
        /\ i + 1 \in DOMAIN s
        /\ s[i + 1] = Frame("flight", s[i].exn)
        /\ \A j \in 1 .. i : s[j].kind # "handler"

StacksAreWellFormed ==
    /\ \A t \in Thread : Alternate(stack[t]) /\ LeftIsOutermost(stack[t])
    /\ \A t, u \in Thread, x \in Exn :
          t # u => With(stack[t], x) = {} \/ With(stack[u], x) = {}

Handles(s, x) == \E i \in DOMAIN s : s[i] = Frame("handler", x)

\* The header of an exception that no handler has counts none.
HandlersAreCounted ==
    \A x \in Exn :
        (\A t \in Thread : ~Handles(stack[t], x)) => handlers[x] = 0

\* An exception lives while it has owners, and is deleted by one thread.
LivesFollowReferences ==
    /\ \A x \in Exn : Owners(x) > 0 => object[x] = "live"
    /\ \A t \in Thread : dying[t] # None =>
          /\ refs[dying[t]] = 0
          /\ object[dying[t]] = "live"
          /\ \A u \in Thread : dying[u] = dying[t] => u = t

IInv ==
    /\ TypeOK
    /\ HarmlessMemory
    /\ StacksAreWellFormed
    /\ HandlersAreCounted
    /\ GlobalsMatchTheProgram
    /\ ReferencesAreCounted
    /\ LivesFollowReferences

-----------------------------------------------------------------------------
(* The innermost handler *)

LEMMA InnerSame ==
    ASSUME NEW s, NEW r, NEW n \in Nat, NEW c, \A i \in 1 .. n : r[i] = s[i],
           Innermost(s, n, c)
    PROVE  Innermost(r, n, c)
<1>1. \A i \in 1 .. n : \A j \in i + 1 .. n : j \in 1 .. n
  OBVIOUS
<1> QED
  BY <1>1 DEF Innermost

LEMMA InnerSkip ==
    ASSUME NEW s, NEW n \in Nat, NEW c, s[n + 1].kind # "handler", Innermost(s, n, c)
    PROVE  Innermost(s, n + 1, c)
<1>1. \A i : i \in 1 .. n + 1 <=> i \in 1 .. n \/ i = n + 1
  OBVIOUS
<1>2. \A i \in 1 .. n : \A j \in i + 1 .. n + 1 : j \in i + 1 .. n \/ j = n + 1
  OBVIOUS
<1> QED
  BY <1>1, <1>2 DEF Innermost

LEMMA InnerDrop ==
    ASSUME NEW s, NEW n \in Nat, NEW c, s[n + 1].kind # "handler", Innermost(s, n + 1, c)
    PROVE  Innermost(s, n, c)
<1>1. \A i : i \in 1 .. n + 1 <=> i \in 1 .. n \/ i = n + 1
  OBVIOUS
<1>2. \A i \in 1 .. n : \A j \in i + 1 .. n : j \in i + 1 .. n + 1
  OBVIOUS
<1>3. \A k : s[n + 1] # Frame("handler", k)
  BY DEF Frame
<1> QED
  BY <1>1, <1>2, <1>3 DEF Innermost

LEMMA InnerHere ==
    ASSUME NEW s, NEW n \in Nat, NEW c, s[n + 1] = Frame("handler", c)
    PROVE  Innermost(s, n + 1, c)
<1>1. n + 1 \in 1 .. n + 1 /\ (n + 1) + 1 .. n + 1 = {}
  OBVIOUS
<1> QED
  BY <1>1 DEF Innermost

LEMMA InnerIs ==
    ASSUME NEW s, NEW n \in Nat, NEW c, s[n + 1].kind = "handler", Innermost(s, n + 1, c)
    PROVE  s[n + 1].exn = c
<1>1. n + 1 \in 1 .. n + 1
  OBVIOUS
<1>2. \A i \in 1 .. n + 1 : i = n + 1 \/ n + 1 \in i + 1 .. n + 1
  OBVIOUS
<1>3. s[n + 1] = Frame("handler", c)
  BY <1>1, <1>2 DEF Innermost
<1> QED
  BY <1>3 DEF Frame

LEMMA InnerNone ==
    ASSUME NEW s, NEW n \in Nat, NEW c, \A i \in 1 .. n : s[i].kind # "handler",
           Innermost(s, n, c)
    PROVE  c = None
<1>1. \A i \in 1 .. n : s[i] # Frame("handler", c)
  BY DEF Frame
<1> QED
  BY <1>1 DEF Innermost

LEMMA InnerSome ==
    ASSUME NEW s, NEW n \in Nat, NEW c, c # None, Innermost(s, n, c)
    PROVE  \E i \in 1 .. n : s[i] = Frame("handler", c)
BY DEF Innermost

-----------------------------------------------------------------------------
(* The stacks that the actions make *)

LEMMA PushShape ==
    ASSUME NEW s \in Seq(Frames), NEW f \in Frames
    PROVE  LET r == Append(s, f) IN
           /\ r \in Seq(Frames) /\ Len(r) = Len(s) + 1
           /\ \A i \in 1 .. Len(s) : r[i] = s[i]
           /\ r[Len(s) + 1] = f
OBVIOUS

LEMMA BelowShape ==
    ASSUME NEW s \in Seq(Frames), Len(s) >= 1
    PROVE  LET r == Below(s) IN
           /\ r \in Seq(Frames) /\ Len(r) = Len(s) - 1
           /\ \A i \in 1 .. Len(s) - 1 : r[i] = s[i]
<1>1. Len(s) \in Nat /\ \A i \in 1 .. Len(s) - 1 : s[i] \in Frames
  OBVIOUS
<1>2. Len(SubSeq(s, 1, Len(s) - 1)) = Len(s) - 1
  <2>0. Len(s) - 1 \in Nat
    BY <1>1
  <2>1. PICK n \in Nat : n = Len(s) - 1
    BY <2>0
  <2>2. \A i \in 1 .. n : i \in 1 .. Len(s)
    BY <1>1, <2>1
  <2>3. Len(SubSeq(s, 1, n)) = n
    BY <2>1, <2>2
  <2> QED
    BY <2>1, <2>3
<1>3. \A i \in 1 .. Len(s) - 1 : SubSeq(s, 1, Len(s) - 1)[i] = s[i]
  BY <1>1
<1>4. SubSeq(s, 1, Len(s) - 1) \in Seq(Frames)
  BY <1>1
<1> QED
  BY <1>2, <1>3, <1>4 DEF Below

LEMMA CatchShape ==
    ASSUME NEW s \in Seq(Frames), NEW f \in Frames, Len(s) >= 1
    PROVE  LET r == Append(Below(s), f) IN
           /\ r \in Seq(Frames) /\ Len(r) = Len(s)
           /\ \A i \in 1 .. Len(s) - 1 : r[i] = s[i]
           /\ r[Len(s)] = f
<1> DEFINE b == Below(s)
<1>1. b \in Seq(Frames) /\ Len(b) = Len(s) - 1 /\ \A i \in 1 .. Len(s) - 1 : b[i] = s[i]
  BY BelowShape
<1> HIDE DEF b
<1>2. /\ Append(b, f) \in Seq(Frames) /\ Len(Append(b, f)) = Len(b) + 1
      /\ \A i \in 1 .. Len(b) : Append(b, f)[i] = b[i]
      /\ Append(b, f)[Len(b) + 1] = f
  BY <1>1, PushShape
<1>3. Len(s) \in Nat
  OBVIOUS
<1>4. Len(b) + 1 = Len(s)
  BY <1>1, <1>3
<1> QED
  BY <1>1, <1>2, <1>4 DEF b

LEMMA UnwindShape ==
    ASSUME NEW s \in Seq(Frames), NEW f \in Frames, Len(s) >= 2
    PROVE  LET r == Append(Below(Below(s)), f) IN
           /\ r \in Seq(Frames) /\ Len(r) = Len(s) - 1
           /\ \A i \in 1 .. Len(s) - 2 : r[i] = s[i]
           /\ r[Len(s) - 1] = f
<1> DEFINE b == Below(s)
<1>1. b \in Seq(Frames) /\ Len(b) = Len(s) - 1 /\ \A i \in 1 .. Len(s) - 1 : b[i] = s[i]
  BY BelowShape
<1>2. Len(s) \in Nat /\ Len(b) >= 1
  BY <1>1
<1> HIDE DEF b
<1>3. /\ Append(Below(b), f) \in Seq(Frames) /\ Len(Append(Below(b), f)) = Len(b)
      /\ \A i \in 1 .. Len(b) - 1 : Append(Below(b), f)[i] = b[i]
      /\ Append(Below(b), f)[Len(b)] = f
  BY <1>1, <1>2, CatchShape
<1>4. \A i \in 1 .. Len(s) - 2 : i \in 1 .. Len(b) - 1 /\ i \in 1 .. Len(s) - 1
  BY <1>1, <1>2
<1> QED
  BY <1>1, <1>3, <1>4 DEF b

TwoAbove(s, f, g) == Below(s) \o <<f, g>>

LEMMA RethrowShape ==
    \A s, f, g : s \in Seq(Frames) /\ f \in Frames /\ g \in Frames /\ Len(s) >= 1 =>
        /\ TwoAbove(s, f, g) \in Seq(Frames)
        /\ Len(TwoAbove(s, f, g)) = Len(s) + 1
        /\ \A i \in 1 .. Len(s) - 1 : TwoAbove(s, f, g)[i] = s[i]
        /\ TwoAbove(s, f, g)[Len(s)] = f
        /\ TwoAbove(s, f, g)[Len(s) + 1] = g
<1> SUFFICES ASSUME NEW s \in Seq(Frames), NEW f \in Frames, NEW g \in Frames, Len(s) >= 1
             PROVE  /\ TwoAbove(s, f, g) \in Seq(Frames)
                    /\ Len(TwoAbove(s, f, g)) = Len(s) + 1
                    /\ \A i \in 1 .. Len(s) - 1 : TwoAbove(s, f, g)[i] = s[i]
                    /\ TwoAbove(s, f, g)[Len(s)] = f
                    /\ TwoAbove(s, f, g)[Len(s) + 1] = g
  OBVIOUS
<1> DEFINE b == Below(s)
<1>1. b \in Seq(Frames) /\ Len(b) = Len(s) - 1 /\ \A i \in 1 .. Len(s) - 1 : b[i] = s[i]
  BY BelowShape
<1>2. Len(s) \in Nat
  OBVIOUS
<1> HIDE DEF b
<1>3. b \o <<f, g>> = Append(Append(b, f), g)
  BY <1>1
<1>4. /\ Append(b, f) \in Seq(Frames) /\ Len(Append(b, f)) = Len(b) + 1
      /\ \A i \in 1 .. Len(b) : Append(b, f)[i] = b[i]
      /\ Append(b, f)[Len(b) + 1] = f
  BY <1>1, PushShape
<1> DEFINE c == Append(b, f)
<1> HIDE DEF c
<1>5. /\ Append(c, g) \in Seq(Frames) /\ Len(Append(c, g)) = Len(c) + 1
      /\ \A i \in 1 .. Len(c) : Append(c, g)[i] = c[i]
      /\ Append(c, g)[Len(c) + 1] = g
  BY <1>4, PushShape DEF c
<1>6. Len(c) = Len(s) /\ Len(b) + 1 = Len(s)
  BY <1>1, <1>2, <1>4 DEF c
<1>7. \A i \in 1 .. Len(s) - 1 : i \in 1 .. Len(c) /\ i \in 1 .. Len(b)
  BY <1>1, <1>2, <1>6
<1>8. Len(s) \in 1 .. Len(c)
  BY <1>2, <1>6
<1> QED
  BY <1>1, <1>3, <1>4, <1>5, <1>6, <1>7, <1>8 DEF b, c, TwoAbove

-----------------------------------------------------------------------------
(* What becomes of a stack that is well formed and of its list *)

StackOK(s) == s \in Seq(Frames) /\ Alternate(s) /\ LeftIsOutermost(s)

\* The handlers among the first n frames are linked by nx and counted by h.
Linked(s, n, nx, h) ==
    \A i \in 1 .. n : s[i].kind = "handler" =>
        h[s[i].exn] = 1 /\ Innermost(s, i - 1, nx[s[i].exn])

ListOK(s, c, nx, h) == Innermost(s, Len(s), c) /\ Linked(s, Len(s), nx, h)

SameBut(x, nx, h, k, g) == \A y \in Exn : y # x => k[y] = nx[y] /\ g[y] = h[y]

Flights(s) == {i \in DOMAIN s : s[i].kind = "flight"}

LEMMA FlightsAreFinite ==
    ASSUME NEW s \in Seq(Frames)
    PROVE  IsFiniteSet(Flights(s))
<1>1. IsFiniteSet(1 .. Len(s))
  BY FS_Interval
<1>2. Flights(s) \in SUBSET (1 .. Len(s))
  BY DEF Flights
<1> QED
  BY <1>1, <1>2, FS_Subset

LEMMA FrameIs ==
    \A k, x : Frame(k, x).kind = k /\ Frame(k, x).exn = x
BY DEF Frame

\* The handlers that stay are linked as they were; the header of x may change.
LEMMA ListBelow ==
    ASSUME NEW s, NEW n \in Nat, NEW r, NEW m \in Nat, m <= n,
           \A i \in 1 .. n : s[i] \in Frames,
           \A i \in 1 .. m : r[i] = s[i],
           NEW nx, NEW h, Linked(s, n, nx, h),
           NEW x, \A i \in 1 .. m : s[i] # Frame("handler", x),
           NEW k, NEW g, SameBut(x, nx, h, k, g)
    PROVE  Linked(r, m, k, g)
<1>1. SUFFICES ASSUME NEW i \in 1 .. m, r[i].kind = "handler"
               PROVE  g[r[i].exn] = 1 /\ Innermost(r, i - 1, k[r[i].exn])
  BY DEF Linked
<1>2. i \in 1 .. n /\ r[i] = s[i] /\ s[i] \in Frames
  OBVIOUS
<1>3. h[s[i].exn] = 1 /\ Innermost(s, i - 1, nx[s[i].exn])
  BY <1>1, <1>2 DEF Linked
<1>4. s[i].exn \in Exn /\ s[i] = [kind |-> s[i].kind, exn |-> s[i].exn]
  BY <1>2 DEF Frames
<1>5. s[i].exn # x
  BY <1>1, <1>2, <1>4 DEF Frame
<1>6. PICK j \in Nat : j = i - 1
  OBVIOUS
<1>7. \A l \in 1 .. j : r[l] = s[l]
  BY <1>6
<1>8. PICK c : c = nx[s[i].exn]
  OBVIOUS
<1>9. Innermost(s, j, c)
  BY <1>3, <1>6, <1>8
<1>10. Innermost(r, j, c)
  BY <1>7, <1>9, InnerSame
<1>11. k[s[i].exn] = c /\ g[s[i].exn] = 1
  BY <1>3, <1>4, <1>5, <1>8 DEF SameBut
<1> QED
  BY <1>2, <1>6, <1>10, <1>11

LEMMA PushKeeps ==
    ASSUME NEW s, StackOK(s), NEW x \in Exn, NEW r \in Seq(Frames),
           Len(r) = Len(s) + 1, \A i \in 1 .. Len(s) : r[i] = s[i],
           r[Len(s) + 1] = Frame("flight", x),
           \A i \in With(s, x) : i = Len(s) /\ s[i].kind = "handler"
    PROVE  /\ StackOK(r)
           /\ \A c, nx, h : ListOK(s, c, nx, h) => ListOK(r, c, nx, h)
           /\ Cardinality(Flights(r)) = Cardinality(Flights(s)) + 1
           /\ \A y \in Exn : \A i : i # Len(s) + 1 => (i \in With(r, y) <=> i \in With(s, y))
           /\ \A y \in Exn : Len(s) + 1 \in With(r, y) <=> y = x
           /\ \A y \in Exn : Len(s) + 1 \notin With(s, y)
           /\ \A y \in Exn : Handles(s, y) => Handles(r, y)
<1> DEFINE n == Len(s)
<1>1. n \in Nat /\ s \in Seq(Frames)
  BY DEF StackOK
<1>2. /\ DOMAIN s = 1 .. n /\ DOMAIN r = 1 .. n + 1
      /\ \A i : i \in 1 .. n + 1 <=> i \in 1 .. n \/ i = n + 1
      /\ n + 1 \notin 1 .. n
  BY <1>1
<1>3. \A i \in 1 .. n : r[i] = s[i]
  OBVIOUS
<1>4. r[n + 1].kind = "flight" /\ r[n + 1].exn = x
  BY FrameIs
<1> HIDE DEF n
<1>5. /\ \A y \in Exn : \A i : i # n + 1 => (i \in With(r, y) <=> i \in With(s, y))
      /\ \A y \in Exn : n + 1 \in With(r, y) <=> y = x
      /\ \A y \in Exn : n + 1 \notin With(s, y)
  BY <1>2, <1>3, <1>4 DEF With
<1>6. Alternate(r)
  <2>1. SUFFICES ASSUME NEW i \in 1 .. n + 1, NEW j \in 1 .. n + 1,
                        r[i].exn = r[j].exn, r[i].kind # "left", r[j].kind # "left", i < j
                 PROVE  j = i + 1 /\ r[i].kind = "handler" /\ r[j].kind = "flight"
    BY <1>2 DEF Alternate
  <2>2. i \in 1 .. n
    BY <1>1, <2>1
  <2>3. CASE j \in 1 .. n
    BY <1>2, <1>3, <2>1, <2>2, <2>3 DEF StackOK, Alternate
  <2>4. CASE j = n + 1
    <3>1. i \in With(s, x)
      BY <1>2, <1>3, <1>4, <2>1, <2>2, <2>4 DEF With
    <3>2. i = n /\ s[i].kind = "handler"
      BY <3>1 DEF n
    <3> QED
      BY <1>3, <1>4, <2>2, <2>4, <3>2
  <2> QED
    BY <1>2, <2>3, <2>4
<1>7. LeftIsOutermost(r)
  <2>1. SUFFICES ASSUME NEW i \in 1 .. n + 1, r[i].kind = "left"
                 PROVE  /\ i + 1 \in 1 .. n + 1
                        /\ r[i + 1] = Frame("flight", r[i].exn)
                        /\ \A j \in 1 .. i : r[j].kind # "handler"
    BY <1>2 DEF LeftIsOutermost
  <2>2. i \in 1 .. n
    BY <1>2, <1>4, <2>1
  <2>3. /\ i + 1 \in 1 .. n
        /\ s[i + 1] = Frame("flight", s[i].exn)
        /\ \A j \in 1 .. i : s[j].kind # "handler"
    BY <1>2, <1>3, <2>1, <2>2 DEF StackOK, LeftIsOutermost
  <2>4. \A j \in 1 .. i : j \in 1 .. n
    BY <1>1, <2>2
  <2> QED
    BY <1>2, <1>3, <2>2, <2>3, <2>4
<1>8. ASSUME NEW c, NEW nx, NEW h, ListOK(s, c, nx, h)
      PROVE  ListOK(r, c, nx, h)
  <2>1. Innermost(r, n, c)
    <3>1. Innermost(s, n, c)
      BY <1>8 DEF ListOK, n
    <3> QED
      BY <1>1, <1>3, <3>1, InnerSame
  <2>2. Innermost(r, n + 1, c)
    BY <1>1, <1>4, <2>1, InnerSkip
  <2>3. Linked(s, n, nx, h)
    BY <1>8 DEF ListOK, n
  <2>4. \A i \in 1 .. n : s[i] # Frame("handler", None)
    <3>1. \A i \in 1 .. n : s[i] \in Frames
      BY <1>1, <1>2
    <3>2. \A i \in 1 .. n : s[i].exn # None
      BY <3>1, CxxExceptionsAssumption DEF Frames
    <3> QED
      BY <3>2, FrameIs
  <2>5. SameBut(None, nx, h, nx, h)
    BY DEF SameBut
  <2>6. Linked(r, n, nx, h)
    <3>1. n <= n /\ \A i \in 1 .. n : s[i] \in Frames
      BY <1>1, <1>2
    <3> QED
      BY <1>1, <1>3, <2>3, <2>4, <2>5, <3>1, ListBelow
  <2>7. Linked(r, n + 1, nx, h)
    BY <1>2, <1>4, <2>6 DEF Linked
  <2> QED
    BY <2>2, <2>7 DEF ListOK, n
<1>9. Cardinality(Flights(r)) = Cardinality(Flights(s)) + 1
  <2>1. \A i : i # n + 1 => (i \in Flights(s) <=> i \in Flights(r))
    BY <1>2, <1>3 DEF Flights
  <2>2. n + 1 \in Flights(r) /\ n + 1 \notin Flights(s)
    BY <1>2, <1>4 DEF Flights
  <2>3. /\ Cardinality(Flights(s)) \in Nat /\ Cardinality(Flights(r)) \in Nat
        /\ Cardinality(Flights(r)) + In(n + 1, Flights(s))
               = Cardinality(Flights(s)) + In(n + 1, Flights(r))
    BY <1>1, <2>1, FlightsAreFinite, OneDiffers
  <2> QED
    BY <2>2, <2>3 DEF In
<1>10. StackOK(r)
  BY <1>6, <1>7 DEF StackOK
<1>11. \A y \in Exn : Handles(s, y) => Handles(r, y)
  BY <1>2, <1>3 DEF Handles
<1> QED
  BY <1>5, <1>8, <1>9, <1>10, <1>11 DEF n

LEMMA CatchKeeps ==
    ASSUME NEW s, StackOK(s), NEW x \in Exn, NEW n \in Nat, Len(s) = n + 1,
           s[n + 1] = Frame("flight", x), n >= 1 => s[n].exn # x,
           NEW r \in Seq(Frames), Len(r) = n + 1,
           \A i \in 1 .. n : r[i] = s[i],
           r[n + 1] = Frame("handler", x)
    PROVE  /\ StackOK(r)
           /\ With(s, x) = {n + 1}
           /\ \A y \in Exn : With(r, y) = With(s, y)
           /\ \A y \in Exn : Handles(s, y) => Handles(r, y)
           /\ Handles(r, x) /\ ~Handles(s, x)
           /\ Cardinality(Flights(r)) = Cardinality(Flights(s)) - 1
<1>1. s \in Seq(Frames) /\ DOMAIN s = 1 .. n + 1 /\ DOMAIN r = 1 .. n + 1
  BY DEF StackOK
<1>2. /\ \A i : i \in 1 .. n + 1 <=> i \in 1 .. n \/ i = n + 1
      /\ n + 1 \notin 1 .. n
  OBVIOUS
<1>3. /\ s[n + 1].kind = "flight" /\ s[n + 1].exn = x
      /\ r[n + 1].kind = "handler" /\ r[n + 1].exn = x
  BY FrameIs
<1>4. With(s, x) = {n + 1}
  <2>1. n + 1 \in With(s, x)
    BY <1>1, <1>2, <1>3 DEF With
  <2>2. ASSUME NEW i \in 1 .. n, i \in With(s, x)
        PROVE  FALSE
    <3>1. n + 1 = i + 1
      BY <1>1, <1>2, <1>3, <2>2 DEF StackOK, Alternate, With
    <3> QED
      BY <2>2, <3>1 DEF With
  <2> QED
    BY <1>1, <1>2, <2>1, <2>2 DEF With
<1>5. \A y \in Exn : With(r, y) = With(s, y)
  BY <1>1, <1>2, <1>3 DEF With
<1>6. Alternate(r)
  <2>1. SUFFICES ASSUME NEW i \in 1 .. n + 1, NEW j \in 1 .. n + 1,
                        r[i].exn = r[j].exn, r[i].kind # "left", r[j].kind # "left", i < j
                 PROVE  j = i + 1 /\ r[i].kind = "handler" /\ r[j].kind = "flight"
    BY <1>1 DEF Alternate
  <2>2. i \in 1 .. n
    BY <2>1
  <2>3. CASE j \in 1 .. n
    BY <1>1, <1>2, <2>1, <2>2, <2>3 DEF StackOK, Alternate
  <2>4. CASE j = n + 1
    BY <1>1, <1>2, <1>3, <1>4, <2>1, <2>2, <2>4 DEF With
  <2> QED
    BY <1>2, <2>3, <2>4
<1>7. LeftIsOutermost(r)
  <2>1. SUFFICES ASSUME NEW i \in 1 .. n + 1, r[i].kind = "left"
                 PROVE  /\ i + 1 \in 1 .. n + 1
                        /\ r[i + 1] = Frame("flight", r[i].exn)
                        /\ \A j \in 1 .. i : r[j].kind # "handler"
    BY <1>1 DEF LeftIsOutermost
  <2>2. i \in 1 .. n
    BY <1>2, <1>3, <2>1
  <2>3. /\ s[i + 1] = Frame("flight", s[i].exn)
        /\ \A j \in 1 .. i : s[j].kind # "handler"
    BY <1>1, <1>2, <2>1, <2>2 DEF StackOK, LeftIsOutermost
  <2>4. \A j \in 1 .. i : j \in 1 .. n
    BY <2>2
  <2>5. i + 1 # n + 1
    BY <1>3, <2>2, <2>3, FrameIs
  <2>6. i + 1 \in 1 .. n
    BY <2>2, <2>5
  <2> QED
    BY <1>2, <2>2, <2>3, <2>4, <2>6
<1>8. \A y \in Exn : Handles(s, y) => Handles(r, y)
  <2>1. \A y : s[n + 1] # Frame("handler", y)
    BY <1>3, FrameIs
  <2> QED
    BY <1>1, <1>2, <2>1 DEF Handles
<1>9. Handles(r, x)
  BY <1>1, <1>2 DEF Handles
<1>10. ~Handles(s, x)
  <2>1. \A i \in DOMAIN s : s[i] = Frame("handler", x) => i \in With(s, x)
    BY FrameIs DEF With
  <2> QED
    BY <1>3, <1>4, <2>1, FrameIs DEF Handles
<1>11. Cardinality(Flights(r)) = Cardinality(Flights(s)) - 1
  <2>1. \A i : i # n + 1 => (i \in Flights(s) <=> i \in Flights(r))
    BY <1>1, <1>2 DEF Flights
  <2>2. n + 1 \in Flights(s) /\ n + 1 \notin Flights(r)
    BY <1>1, <1>2, <1>3 DEF Flights
  <2>3. /\ Cardinality(Flights(s)) \in Nat /\ Cardinality(Flights(r)) \in Nat
        /\ Cardinality(Flights(r)) + In(n + 1, Flights(s))
               = Cardinality(Flights(s)) + In(n + 1, Flights(r))
    BY <1>1, <2>1, FlightsAreFinite, OneDiffers
  <2> QED
    BY <2>2, <2>3 DEF In
<1>12. StackOK(r)
  BY <1>6, <1>7 DEF StackOK
<1> QED
  BY <1>4, <1>5, <1>8, <1>9, <1>10, <1>11, <1>12

\* The exception that is caught becomes the head of the list.
LEMMA CatchLinks ==
    ASSUME NEW s \in Seq(Frames), NEW x \in Exn, NEW n \in Nat, Len(s) = n + 1,
           s[n + 1].kind # "handler", ~Handles(s, x),
           NEW r \in Seq(Frames), Len(r) = n + 1,
           \A i \in 1 .. n : r[i] = s[i],
           r[n + 1] = Frame("handler", x),
           NEW c, NEW nx, NEW h, ListOK(s, c, nx, h),
           NEW k, NEW g, SameBut(x, nx, h, k, g), k[x] = c, g[x] = 1
    PROVE  ListOK(r, x, k, g)
<1>1. \A i \in 1 .. n : i \in DOMAIN s
  OBVIOUS
<1>2. \A i \in 1 .. n : s[i] # Frame("handler", x)
  BY <1>1 DEF Handles
<1>3. n + 1 \in Nat /\ n <= n + 1 /\ \A i \in 1 .. n + 1 : s[i] \in Frames
  OBVIOUS
<1>4. Linked(s, n + 1, nx, h)
  BY DEF ListOK
<1>5. Linked(r, n, k, g)
  BY <1>2, <1>3, <1>4, ListBelow
<1>6. Innermost(s, n, c)
  BY InnerDrop DEF ListOK
<1>7. Innermost(r, n, c)
  BY <1>6, InnerSame
<1>8. Innermost(r, n + 1, x)
  BY InnerHere
<1>9. r[n + 1].exn = x /\ (n + 1) - 1 = n
  BY FrameIs
<1>10. \A i \in 1 .. n + 1 : i \in 1 .. n \/ i = n + 1
  OBVIOUS
<1>11. Linked(r, n + 1, k, g)
  BY <1>5, <1>7, <1>9, <1>10 DEF Linked
<1> QED
  BY <1>8, <1>11 DEF ListOK

\* The only handler of x ends; what is above it in s and r handles nothing.
HandlerEnds(s, r, n, x) ==
    /\ Len(s) \in {n + 1, n + 2} /\ s[n + 1] = Frame("handler", x)
    /\ Len(s) = n + 2 => s[n + 2].kind # "handler"
    /\ \A i \in 1 .. n : s[i] # Frame("handler", x) /\ r[i] = s[i]
    /\ Len(r) \in {n, n + 1, n + 2}
    /\ \A i \in n + 1 .. Len(r) : r[i].kind # "handler"

LEMMA EndUnlinks ==
    ASSUME NEW s \in Seq(Frames), NEW r, NEW n \in Nat, NEW x \in Exn, HandlerEnds(s, r, n, x),
           NEW c, NEW nx, NEW h, ListOK(s, c, nx, h),
           NEW g, SameBut(x, nx, h, nx, g)
    PROVE  /\ c = x /\ h[x] = 1
           /\ ListOK(r, nx[x], nx, g)
<1> USE DEF HandlerEnds
<1>1. s[n + 1].kind = "handler" /\ s[n + 1].exn = x
  BY FrameIs
<1>2. n + 1 \in Nat /\ (n + 1) + 1 = n + 2 /\ (n + 1) - 1 = n
  OBVIOUS
<1>3. Innermost(s, n + 1, c)
  <2>1. CASE Len(s) = n + 1
    BY <2>1 DEF ListOK
  <2>2. CASE Len(s) = n + 2
    <3>1. PICK m \in Nat : m = n + 1
      OBVIOUS
    <3>2. Innermost(s, m + 1, c) /\ s[m + 1].kind # "handler"
      BY <2>2, <3>1, <1>2 DEF ListOK
    <3>3. Innermost(s, m, c)
      BY <3>2, InnerDrop
    <3> QED
      BY <3>1, <3>3
  <2> QED
    BY <2>1, <2>2
<1>4. c = x
  BY <1>1, <1>3, InnerIs
<1>5. h[x] = 1 /\ Innermost(s, n, nx[x])
  <2>1. n + 1 \in 1 .. Len(s)
    OBVIOUS
  <2> QED
    BY <1>1, <1>2, <2>1 DEF ListOK, Linked
<1>6. Linked(r, n, nx, g)
  <2>1. PICK m \in Nat : m = Len(s)
    OBVIOUS
  <2>2. n <= m /\ Linked(s, m, nx, h) /\ \A i \in 1 .. m : s[i] \in Frames
    BY <2>1 DEF ListOK
  <2> QED
    BY <2>1, <2>2, ListBelow
<1>7. PICK d : d = nx[x]
  OBVIOUS
<1>8. Innermost(r, n, d)
  BY <1>5, <1>7, InnerSame
<1>9. Len(r) >= n + 1 => Innermost(r, n + 1, d)
  BY <1>8, InnerSkip
<1>10. Len(r) = n + 2 => Innermost(r, n + 2, d)
  <2>1. PICK m \in Nat : m = n + 1
    OBVIOUS
  <2>2. Len(r) = n + 2 => Innermost(r, m, d) /\ r[m + 1].kind # "handler"
    BY <1>9, <2>1
  <2>3. Len(r) = n + 2 => Innermost(r, m + 1, d)
    BY <2>2, InnerSkip
  <2> QED
    BY <2>1, <2>3
<1>11. Linked(r, Len(r), nx, g)
  <2>1. \A i \in 1 .. Len(r) : i \in 1 .. n \/ i \in n + 1 .. Len(r)
    OBVIOUS
  <2> QED
    BY <1>6, <2>1 DEF Linked
<1> QED
  BY <1>4, <1>5, <1>7, <1>8, <1>9, <1>10, <1>11 DEF ListOK

LEMMA LeaveKeeps ==
    ASSUME NEW s, StackOK(s), NEW x \in Exn, NEW n \in Nat, Len(s) = n + 1,
           s[n + 1] = Frame("handler", x),
           NEW r \in Seq(Frames), Len(r) = n, \A i \in 1 .. n : r[i] = s[i]
    PROVE  /\ StackOK(r)
           /\ \A i \in 1 .. n : s[i] # Frame("handler", x)
           /\ \A y \in Exn : \A i : i # n + 1 => (i \in With(r, y) <=> i \in With(s, y))
           /\ \A y \in Exn : (n + 1 \in With(s, y) <=> y = x) /\ n + 1 \notin With(r, y)
           /\ \A y \in Exn : Handles(s, y) /\ y # x => Handles(r, y)
           /\ Cardinality(Flights(r)) = Cardinality(Flights(s))
<1>1. s \in Seq(Frames) /\ DOMAIN s = 1 .. n + 1 /\ DOMAIN r = 1 .. n
  BY DEF StackOK
<1>2. /\ \A i : i \in 1 .. n + 1 <=> i \in 1 .. n \/ i = n + 1
      /\ n + 1 \notin 1 .. n
  OBVIOUS
<1>3. s[n + 1].kind = "handler" /\ s[n + 1].exn = x
  BY FrameIs
<1>4. \A i \in 1 .. n : s[i] # Frame("handler", x)
  <2>1. SUFFICES ASSUME NEW i \in 1 .. n, s[i].kind = "handler", s[i].exn = x
                 PROVE  FALSE
    BY FrameIs
  <2> QED
    BY <1>1, <1>2, <1>3, <2>1 DEF StackOK, Alternate
<1>5. /\ \A y \in Exn : \A i : i # n + 1 => (i \in With(r, y) <=> i \in With(s, y))
      /\ \A y \in Exn : (n + 1 \in With(s, y) <=> y = x) /\ n + 1 \notin With(r, y)
  BY <1>1, <1>2, <1>3 DEF With
<1>6. Alternate(r)
  BY <1>1, <1>2 DEF StackOK, Alternate
<1>7. LeftIsOutermost(r)
  <2>1. SUFFICES ASSUME NEW i \in 1 .. n, r[i].kind = "left"
                 PROVE  /\ i + 1 \in 1 .. n
                        /\ r[i + 1] = Frame("flight", r[i].exn)
                        /\ \A j \in 1 .. i : r[j].kind # "handler"
    BY <1>1 DEF LeftIsOutermost
  <2>2. /\ s[i + 1] = Frame("flight", s[i].exn)
        /\ \A j \in 1 .. i : s[j].kind # "handler"
    BY <1>1, <1>2, <2>1 DEF StackOK, LeftIsOutermost
  <2>3. \A j \in 1 .. i : j \in 1 .. n
    OBVIOUS
  <2>4. i + 1 # n + 1
    BY <1>3, <2>2, FrameIs
  <2>5. i + 1 \in 1 .. n
    BY <2>4
  <2> QED
    BY <2>2, <2>3, <2>5
<1>8. \A y \in Exn : Handles(s, y) /\ y # x => Handles(r, y)
  <2>1. \A y : y # x => s[n + 1] # Frame("handler", y)
    BY <1>3, FrameIs
  <2> QED
    BY <1>1, <1>2, <2>1 DEF Handles
<1>9. Flights(r) = Flights(s)
  BY <1>1, <1>2, <1>3 DEF Flights
<1> QED
  BY <1>4, <1>5, <1>6, <1>7, <1>8, <1>9 DEF StackOK

LEMMA UnwindKeeps ==
    ASSUME NEW s, StackOK(s), NEW x \in Exn, NEW y \in Exn, NEW k \in {"handler", "left"},
           NEW n \in Nat, Len(s) = n + 2,
           s[n + 1] = Frame(k, x), s[n + 2] = Frame("flight", y),
           NEW r \in Seq(Frames), Len(r) = n + 1, \A i \in 1 .. n : r[i] = s[i],
           r[n + 1] = Frame("flight", y)
    PROVE  /\ StackOK(r)
           /\ k = "handler" => \A i \in 1 .. n : s[i] # Frame("handler", x)
           /\ k = "left" => y = x /\ \A i \in 1 .. n : s[i].kind # "handler"
           /\ \A z \in Exn : \A i : i # n + 1 /\ i # n + 2 =>
                  (i \in With(r, z) <=> i \in With(s, z))
           /\ \A z \in Exn : /\ n + 1 \in With(s, z) <=> k = "handler" /\ z = x
                             /\ n + 2 \in With(s, z) <=> z = y
                             /\ n + 1 \in With(r, z) <=> z = y
                             /\ n + 2 \notin With(r, z)
           /\ \A z \in Exn : Handles(s, z) /\ ~(k = "handler" /\ z = x) => Handles(r, z)
           /\ Cardinality(Flights(r)) = Cardinality(Flights(s))
<1>1. s \in Seq(Frames) /\ DOMAIN s = 1 .. n + 2 /\ DOMAIN r = 1 .. n + 1
  BY DEF StackOK
<1>2. /\ \A i : i \in 1 .. n + 2 <=> i \in 1 .. n \/ i = n + 1 \/ i = n + 2
      /\ \A i : i \in 1 .. n + 1 <=> i \in 1 .. n \/ i = n + 1
      /\ n + 1 \notin 1 .. n /\ n + 2 \notin 1 .. n /\ n + 1 # n + 2
  OBVIOUS
<1>3. /\ s[n + 1].kind = k /\ s[n + 1].exn = x
      /\ s[n + 2].kind = "flight" /\ s[n + 2].exn = y
      /\ r[n + 1].kind = "flight" /\ r[n + 1].exn = y
  BY FrameIs
<1>4. k = "handler" => \A i \in 1 .. n : s[i] # Frame("handler", x)
  <2>1. SUFFICES ASSUME k = "handler", NEW i \in 1 .. n, s[i].kind = "handler", s[i].exn = x
                 PROVE  FALSE
    BY FrameIs
  <2> QED
    BY <1>1, <1>2, <1>3, <2>1 DEF StackOK, Alternate
<1>5. k = "left" => y = x /\ \A i \in 1 .. n : s[i].kind # "handler"
  <2>1. SUFFICES ASSUME k = "left"
                 PROVE  y = x /\ \A i \in 1 .. n : s[i].kind # "handler"
    OBVIOUS
  <2>2. /\ s[(n + 1) + 1] = Frame("flight", x)
        /\ \A j \in 1 .. n + 1 : s[j].kind # "handler"
    BY <1>1, <1>2, <1>3, <2>1 DEF StackOK, LeftIsOutermost
  <2>3. (n + 1) + 1 = n + 2
    OBVIOUS
  <2> QED
    BY <1>2, <1>3, <2>2, <2>3, FrameIs
<1>6. \A z \in Exn : \A i : i # n + 1 /\ i # n + 2 =>
          (i \in With(r, z) <=> i \in With(s, z))
  BY <1>1, <1>2 DEF With
<1>7. \A z \in Exn : /\ n + 1 \in With(s, z) <=> k = "handler" /\ z = x
                     /\ n + 2 \in With(s, z) <=> z = y
                     /\ n + 1 \in With(r, z) <=> z = y
                     /\ n + 2 \notin With(r, z)
  BY <1>1, <1>2, <1>3 DEF With
<1>8. Alternate(r)
  <2>1. SUFFICES ASSUME NEW i \in 1 .. n + 1, NEW j \in 1 .. n + 1,
                        r[i].exn = r[j].exn, r[i].kind # "left", r[j].kind # "left", i < j
                 PROVE  j = i + 1 /\ r[i].kind = "handler" /\ r[j].kind = "flight"
    BY <1>1 DEF Alternate
  <2>2. i \in 1 .. n
    BY <2>1
  <2>3. CASE j \in 1 .. n
    BY <1>1, <1>2, <2>1, <2>2, <2>3 DEF StackOK, Alternate
  <2>4. CASE j = n + 1
    <3>1. s[i].exn = s[n + 2].exn /\ s[i].kind # "left" /\ s[n + 2].kind # "left" /\ i < n + 2
      BY <1>3, <2>1, <2>2, <2>4
    <3>2. n + 2 = i + 1
      BY <1>1, <1>2, <2>2, <3>1 DEF StackOK, Alternate
    <3> QED
      BY <2>2, <3>2
  <2> QED
    BY <1>2, <2>3, <2>4
<1>9. LeftIsOutermost(r)
  <2>1. SUFFICES ASSUME NEW i \in 1 .. n + 1, r[i].kind = "left"
                 PROVE  /\ i + 1 \in 1 .. n + 1
                        /\ r[i + 1] = Frame("flight", r[i].exn)
                        /\ \A j \in 1 .. i : r[j].kind # "handler"
    BY <1>1 DEF LeftIsOutermost
  <2>2. i \in 1 .. n
    BY <1>2, <1>3, <2>1
  <2>3. /\ s[i + 1] = Frame("flight", s[i].exn)
        /\ \A j \in 1 .. i : s[j].kind # "handler"
    BY <1>1, <1>2, <2>1, <2>2 DEF StackOK, LeftIsOutermost
  <2>4. \A j \in 1 .. i : j \in 1 .. n
    BY <2>2
  <2>5. i + 1 # n + 1
    BY <1>3, <2>3, FrameIs
  <2>6. i + 1 \in 1 .. n
    BY <2>2, <2>5
  <2> QED
    BY <1>2, <2>2, <2>3, <2>4, <2>6
<1>10. \A z \in Exn : Handles(s, z) /\ ~(k = "handler" /\ z = x) => Handles(r, z)
  <2>1. \A z : ~(k = "handler" /\ z = x) =>
            s[n + 1] # Frame("handler", z) /\ s[n + 2] # Frame("handler", z)
    BY <1>3, FrameIs
  <2> QED
    BY <1>1, <1>2, <2>1 DEF Handles
<1>11. Cardinality(Flights(r)) = Cardinality(Flights(s))
  <2>1. \A i : i # n + 1 /\ i # n + 2 => (i \in Flights(s) <=> i \in Flights(r))
    BY <1>1, <1>2 DEF Flights
  <2>2. /\ n + 2 \in Flights(s) /\ n + 1 \notin Flights(s)
        /\ n + 2 \notin Flights(r) /\ n + 1 \in Flights(r)
    BY <1>1, <1>2, <1>3 DEF Flights
  <2>3. IsFiniteSet(Flights(s)) /\ IsFiniteSet(Flights(r))
    BY <1>1, FlightsAreFinite
  <2>4. /\ Cardinality(Flights(s)) \in Nat /\ Cardinality(Flights(r)) \in Nat
        /\ Cardinality(Flights(r)) + In(n + 1, Flights(s)) + In(n + 2, Flights(s))
               = Cardinality(Flights(s)) + In(n + 1, Flights(r)) + In(n + 2, Flights(r))
    <3>1. PICK a, b : a = n + 1 /\ b = n + 2
      OBVIOUS
    <3>2. a # b /\ \A i : i # a /\ i # b => (i \in Flights(s) <=> i \in Flights(r))
      BY <1>2, <2>1, <3>1
    <3>3. /\ Cardinality(Flights(s)) \in Nat /\ Cardinality(Flights(r)) \in Nat
          /\ Cardinality(Flights(r)) + In(a, Flights(s)) + In(b, Flights(s))
                 = Cardinality(Flights(s)) + In(a, Flights(r)) + In(b, Flights(r))
      BY <2>3, <3>2, TwoDiffer
    <3> QED
      BY <3>1, <3>3
  <2> QED
    BY <2>2, <2>4 DEF In
<1> QED
  BY <1>4, <1>5, <1>6, <1>7, <1>8, <1>9, <1>10, <1>11 DEF StackOK

\* Nothing is linked below a handler that was left.
LEMMA LeftUnlinks ==
    ASSUME NEW s \in Seq(Frames), NEW r, NEW n \in Nat,
           Len(s) = n + 2, \A i \in 1 .. n + 2 : s[i].kind # "handler",
           Len(r) = n + 1, \A i \in 1 .. n + 1 : r[i].kind # "handler",
           NEW c, NEW nx, NEW h, ListOK(s, c, nx, h)
    PROVE  c = None /\ ListOK(r, c, nx, h)
<1>1. PICK m \in Nat : m = n + 2
  OBVIOUS
<1>2. Innermost(s, m, c)
  BY <1>1 DEF ListOK
<1>3. c = None
  BY <1>1, <1>2, InnerNone
<1>4. Innermost(r, n + 1, c) /\ Linked(r, n + 1, nx, h)
  BY <1>3 DEF Innermost, Linked
<1> QED
  BY <1>3, <1>4 DEF ListOK

LEMMA RethrowKeeps ==
    ASSUME NEW s, StackOK(s), NEW x \in Exn, NEW n \in Nat, Len(s) = n + 1,
           s[n + 1] = Frame("handler", x), \A i \in 1 .. n : s[i].kind # "handler",
           NEW r \in Seq(Frames), Len(r) = n + 2, \A i \in 1 .. n : r[i] = s[i],
           r[n + 1] = Frame("left", x), r[n + 2] = Frame("flight", x)
    PROVE  /\ StackOK(r)
           /\ \A z \in Exn : \A i : i # n + 1 /\ i # n + 2 =>
                  (i \in With(r, z) <=> i \in With(s, z))
           /\ \A z \in Exn : /\ n + 1 \in With(s, z) <=> z = x
                             /\ n + 2 \notin With(s, z)
                             /\ n + 1 \notin With(r, z)
                             /\ n + 2 \in With(r, z) <=> z = x
           /\ \A z \in Exn : Handles(s, z) => z = x
           /\ \A i \in 1 .. n + 2 : r[i].kind # "handler"
           /\ Cardinality(Flights(r)) = Cardinality(Flights(s)) + 1
<1>1. s \in Seq(Frames) /\ DOMAIN s = 1 .. n + 1 /\ DOMAIN r = 1 .. n + 2
  BY DEF StackOK
<1>2. /\ \A i : i \in 1 .. n + 2 <=> i \in 1 .. n \/ i = n + 1 \/ i = n + 2
      /\ \A i : i \in 1 .. n + 1 <=> i \in 1 .. n \/ i = n + 1
      /\ n + 1 \notin 1 .. n /\ n + 2 \notin 1 .. n /\ n + 1 # n + 2
  OBVIOUS
<1>3. /\ s[n + 1].kind = "handler" /\ s[n + 1].exn = x
      /\ r[n + 1].kind = "left" /\ r[n + 1].exn = x
      /\ r[n + 2].kind = "flight" /\ r[n + 2].exn = x
  BY FrameIs
<1>4. \A z \in Exn : \A i : i # n + 1 /\ i # n + 2 =>
          (i \in With(r, z) <=> i \in With(s, z))
  BY <1>1, <1>2 DEF With
<1>5. \A z \in Exn : /\ n + 1 \in With(s, z) <=> z = x
                     /\ n + 2 \notin With(s, z)
                     /\ n + 1 \notin With(r, z)
                     /\ n + 2 \in With(r, z) <=> z = x
  BY <1>1, <1>2, <1>3 DEF With
<1>6. Alternate(r)
  <2>1. SUFFICES ASSUME NEW i \in 1 .. n + 2, NEW j \in 1 .. n + 2,
                        r[i].exn = r[j].exn, r[i].kind # "left", r[j].kind # "left", i < j
                 PROVE  j = i + 1 /\ r[i].kind = "handler" /\ r[j].kind = "flight"
    BY <1>1 DEF Alternate
  <2>2. i \in 1 .. n
    BY <1>2, <1>3, <2>1
  <2>3. CASE j \in 1 .. n
    BY <1>1, <1>2, <2>1, <2>2, <2>3 DEF StackOK, Alternate
  <2>4. CASE j = n + 2
    <3>1. s[i].exn = s[n + 1].exn /\ s[i].kind # "left" /\ s[n + 1].kind # "left" /\ i < n + 1
      BY <1>3, <2>1, <2>2, <2>4
    <3>2. s[n + 1].kind = "flight"
      BY <1>1, <1>2, <2>2, <3>1 DEF StackOK, Alternate
    <3> QED
      BY <1>3, <3>2
  <2> QED
    BY <1>2, <1>3, <2>1, <2>3, <2>4
<1>7. LeftIsOutermost(r)
  <2>1. SUFFICES ASSUME NEW i \in 1 .. n + 2, r[i].kind = "left"
                 PROVE  /\ i + 1 \in 1 .. n + 2
                        /\ r[i + 1] = Frame("flight", r[i].exn)
                        /\ \A j \in 1 .. i : r[j].kind # "handler"
    BY <1>1 DEF LeftIsOutermost
  <2>2. CASE i = n + 1
    <3>1. i + 1 = n + 2
      BY <2>2
    <3>2. \A j \in 1 .. i : j \in 1 .. n \/ j = n + 1
      BY <2>2
    <3> QED
      BY <1>2, <1>3, <2>2, <3>1, <3>2
  <2>3. CASE i \in 1 .. n
    <3>1. /\ s[i + 1] = Frame("flight", s[i].exn)
          /\ \A j \in 1 .. i : s[j].kind # "handler"
      BY <1>1, <1>2, <2>1, <2>3 DEF StackOK, LeftIsOutermost
    <3>2. \A j \in 1 .. i : j \in 1 .. n
      BY <2>3
    <3>3. i + 1 # n + 1
      BY <1>3, <3>1, FrameIs
    <3>4. i + 1 \in 1 .. n
      BY <2>3, <3>3
    <3> QED
      BY <1>2, <2>3, <3>1, <3>2, <3>4
  <2> QED
    BY <1>2, <1>3, <2>1, <2>2, <2>3
<1>8. \A z \in Exn : Handles(s, z) => z = x
  BY <1>1, <1>2, <1>3, FrameIs DEF Handles
<1>9. \A i \in 1 .. n + 2 : r[i].kind # "handler"
  BY <1>2, <1>3
<1>10. Cardinality(Flights(r)) = Cardinality(Flights(s)) + 1
  <2>1. \A i : i # n + 2 => (i \in Flights(s) <=> i \in Flights(r))
    BY <1>1, <1>2, <1>3 DEF Flights
  <2>2. n + 2 \notin Flights(s) /\ n + 2 \in Flights(r)
    BY <1>1, <1>2, <1>3 DEF Flights
  <2>3. /\ Cardinality(Flights(s)) \in Nat /\ Cardinality(Flights(r)) \in Nat
        /\ Cardinality(Flights(r)) + In(n + 2, Flights(s))
               = Cardinality(Flights(s)) + In(n + 2, Flights(r))
    BY <1>1, <2>1, FlightsAreFinite, OneDiffers
  <2> QED
    BY <2>2, <2>3 DEF In
<1> QED
  BY <1>4, <1>5, <1>6, <1>7, <1>8, <1>9, <1>10 DEF StackOK

-----------------------------------------------------------------------------
(* The owners of an exception *)

FrameSet(x) == {f \in Thread \X (1 .. MaxDepth) : f[2] \in FramesWith(f[1], x)}
PtrSet(x) == {p \in Ptr : ptr[p] = x}

LEMMA OwnersAreFinite ==
    /\ \A S \in SUBSET (Thread \X (1 .. MaxDepth)) : IsFiniteSet(S)
    /\ \A S \in SUBSET Ptr : IsFiniteSet(S)
<1>1. IsFiniteSet(1 .. MaxDepth)
  BY CxxExceptionsAssumption, FS_Interval
<1>2. IsFiniteSet(Thread \X (1 .. MaxDepth))
  BY <1>1, CxxExceptionsAssumption, FS_Product
<1> QED
  BY <1>2, CxxExceptionsAssumption, FS_Subset

LEMMA OwnersAre ==
    \A x : /\ Owners(x) = Cardinality(FrameSet(x)) + Cardinality(PtrSet(x))
           /\ Cardinality(FrameSet(x)) \in Nat /\ Cardinality(PtrSet(x)) \in Nat
           /\ IsFiniteSet(FrameSet(x)) /\ IsFiniteSet(PtrSet(x))
<1>1. TAKE x
<1>2. FrameSet(x) \in SUBSET (Thread \X (1 .. MaxDepth)) /\ PtrSet(x) \in SUBSET Ptr
  BY DEF FrameSet, PtrSet
<1>3. IsFiniteSet(FrameSet(x)) /\ IsFiniteSet(PtrSet(x))
  BY <1>2, OwnersAreFinite
<1>4. Owners(x) = Cardinality(FrameSet(x)) + Cardinality(PtrSet(x))
  BY DEF Owners, FrameSet, PtrSet
<1> QED
  BY <1>3, <1>4, FS_CardinalityType

LEMMA OwnersAreNext ==
    (\A x : /\ Owners(x) = Cardinality(FrameSet(x)) + Cardinality(PtrSet(x))
            /\ Cardinality(FrameSet(x)) \in Nat /\ Cardinality(PtrSet(x)) \in Nat
            /\ IsFiniteSet(FrameSet(x)) /\ IsFiniteSet(PtrSet(x)))'
BY OwnersAre, PTL

LEMMA FramesChange ==
    ASSUME stack \in [Thread -> Seq(Frames)], NEW t \in Thread, NEW r,
           stack' = [stack EXCEPT ![t] = r], NEW y
    PROVE  \A f \in Thread \X (1 .. MaxDepth) :
              /\ f[1] # t => (f \in FrameSet(y)' <=> f \in FrameSet(y))
              /\ f[1] = t => /\ f \in FrameSet(y) <=> f[2] \in With(stack[t], y)
                             /\ f \in FrameSet(y)' <=> f[2] \in With(r, y)
BY DEF FrameSet, FramesWith, With

\* The stack of t changes in its m-th frame.
LEMMA OneFrameChanges ==
    ASSUME stack \in [Thread -> Seq(Frames)], NEW t \in Thread, NEW r,
           stack' = [stack EXCEPT ![t] = r], NEW y, NEW m \in 1 .. MaxDepth,
           \A i : i # m => (i \in With(r, y) <=> i \in With(stack[t], y))
    PROVE  Cardinality(FrameSet(y)') + In(m, With(stack[t], y))
               = Cardinality(FrameSet(y)) + In(m, With(r, y))
<1> DEFINE S == FrameSet(y)
           T == FrameSet(y)'
<1>1. IsFiniteSet(S) /\ IsFiniteSet(T)
  BY OwnersAre, OwnersAreNext
<1>2. S \subseteq Thread \X (1 .. MaxDepth) /\ T \subseteq Thread \X (1 .. MaxDepth)
  BY DEF FrameSet
<1>3. \A f \in Thread \X (1 .. MaxDepth) :
              /\ f[1] # t => (f \in T <=> f \in S)
              /\ f[1] = t => /\ f \in S <=> f[2] \in With(stack[t], y)
                             /\ f \in T <=> f[2] \in With(r, y)
  BY FramesChange
<1> HIDE DEF S, T
<1>4. <<t, m>> \in Thread \X (1 .. MaxDepth) /\ <<t, m>>[1] = t /\ <<t, m>>[2] = m
  OBVIOUS
<1>5. \A f \in Thread \X (1 .. MaxDepth) : f # <<t, m>> => f[1] # t \/ f[2] # m
  OBVIOUS
<1>6. \A f : f # <<t, m>> => (f \in S <=> f \in T)
  BY <1>2, <1>3, <1>5
<1>7. In(<<t, m>>, S) = In(m, With(stack[t], y)) /\ In(<<t, m>>, T) = In(m, With(r, y))
  BY <1>3, <1>4 DEF In
<1>8. Cardinality(T) + In(<<t, m>>, S) = Cardinality(S) + In(<<t, m>>, T)
  BY <1>1, <1>6, OneDiffers
<1> QED
  BY <1>7, <1>8 DEF S, T

LEMMA TwoFramesChange ==
    ASSUME stack \in [Thread -> Seq(Frames)], NEW t \in Thread, NEW r,
           stack' = [stack EXCEPT ![t] = r], NEW y,
           NEW m \in 1 .. MaxDepth, NEW n \in 1 .. MaxDepth, m # n,
           \A i : i # m /\ i # n => (i \in With(r, y) <=> i \in With(stack[t], y))
    PROVE  Cardinality(FrameSet(y)') + In(m, With(stack[t], y)) + In(n, With(stack[t], y))
               = Cardinality(FrameSet(y)) + In(m, With(r, y)) + In(n, With(r, y))
<1> DEFINE S == FrameSet(y)
           T == FrameSet(y)'
<1>1. IsFiniteSet(S) /\ IsFiniteSet(T)
  BY OwnersAre, OwnersAreNext
<1>2. S \subseteq Thread \X (1 .. MaxDepth) /\ T \subseteq Thread \X (1 .. MaxDepth)
  BY DEF FrameSet
<1>3. \A f \in Thread \X (1 .. MaxDepth) :
              /\ f[1] # t => (f \in T <=> f \in S)
              /\ f[1] = t => /\ f \in S <=> f[2] \in With(stack[t], y)
                             /\ f \in T <=> f[2] \in With(r, y)
  BY FramesChange
<1> HIDE DEF S, T
<1>4. /\ <<t, m>> \in Thread \X (1 .. MaxDepth) /\ <<t, m>>[1] = t /\ <<t, m>>[2] = m
      /\ <<t, n>> \in Thread \X (1 .. MaxDepth) /\ <<t, n>>[1] = t /\ <<t, n>>[2] = n
      /\ <<t, m>> # <<t, n>>
  OBVIOUS
<1>5. \A f \in Thread \X (1 .. MaxDepth) :
          f # <<t, m>> /\ f # <<t, n>> => f[1] # t \/ (f[2] # m /\ f[2] # n)
  OBVIOUS
<1>6. \A f : f # <<t, m>> /\ f # <<t, n>> => (f \in S <=> f \in T)
  BY <1>2, <1>3, <1>5
<1>7. /\ In(<<t, m>>, S) = In(m, With(stack[t], y)) /\ In(<<t, m>>, T) = In(m, With(r, y))
      /\ In(<<t, n>>, S) = In(n, With(stack[t], y)) /\ In(<<t, n>>, T) = In(n, With(r, y))
  BY <1>3, <1>4 DEF In
<1>8. Cardinality(T) + In(<<t, m>>, S) + In(<<t, n>>, S)
          = Cardinality(S) + In(<<t, m>>, T) + In(<<t, n>>, T)
  <2>1. PICK a, b : a = <<t, m>> /\ b = <<t, n>>
    OBVIOUS
  <2>2. a # b /\ \A f : f # a /\ f # b => (f \in S <=> f \in T)
    BY <1>4, <1>6, <2>1
  <2>3. Cardinality(T) + In(a, S) + In(b, S) = Cardinality(S) + In(a, T) + In(b, T)
    BY <1>1, <2>2, TwoDiffer
  <2> QED
    BY <2>1, <2>3
<1> QED
  BY <1>7, <1>8 DEF S, T

LEMMA FramesStay ==
    ASSUME UNCHANGED stack, NEW y
    PROVE  FrameSet(y)' = FrameSet(y)
BY DEF FrameSet, FramesWith

LEMMA PtrsStay ==
    ASSUME UNCHANGED ptr, NEW y
    PROVE  PtrSet(y)' = PtrSet(y)
BY DEF PtrSet

LEMMA OnePtrChanges ==
    ASSUME ptr \in [Ptr -> Exn \cup {None}], NEW p \in Ptr, NEW v,
           ptr' = [ptr EXCEPT ![p] = v], NEW y
    PROVE  Cardinality(PtrSet(y)') + (IF ptr[p] = y THEN 1 ELSE 0)
               = Cardinality(PtrSet(y)) + (IF v = y THEN 1 ELSE 0)
<1>1. IsFiniteSet(PtrSet(y)) /\ IsFiniteSet(PtrSet(y)')
  BY OwnersAre, OwnersAreNext
<1>2. \A q : q # p => (q \in PtrSet(y) <=> q \in PtrSet(y)')
  BY DEF PtrSet
<1>3. (p \in PtrSet(y) <=> ptr[p] = y) /\ (p \in PtrSet(y)' <=> v = y)
  BY DEF PtrSet
<1>4. Cardinality(PtrSet(y)') + In(p, PtrSet(y)) = Cardinality(PtrSet(y)) + In(p, PtrSet(y)')
  BY <1>1, <1>2, OneDiffers
<1> QED
  BY <1>3, <1>4 DEF In

-----------------------------------------------------------------------------
(* The parts of the invariant that an action changes *)

Stacked == stack \in [Thread -> Seq(Frames)]

GlobalsFit ==
    \A t \in Thread :
        /\ ListOK(stack[t], caught[t], next, handlers)
        /\ uncaught[t] = Cardinality(Flights(stack[t]))

LEMMA GlobalsAre == Stacked => (GlobalsMatchTheProgram <=> (HarmlessMemory => GlobalsFit))
<1> SUFFICES ASSUME Stacked
             PROVE  GlobalsMatchTheProgram <=> (HarmlessMemory => GlobalsFit)
  OBVIOUS
<1>1. ASSUME NEW t \in Thread
      PROVE  /\ FramesOf(t, "flight") = Flights(stack[t])
             /\ (\A i \in FramesOf(t, "handler") :
                    /\ handlers[stack[t][i].exn] = 1
                    /\ Innermost(stack[t], i - 1, next[stack[t][i].exn]))
                <=> Linked(stack[t], Len(stack[t]), next, handlers)
  <2>1. DOMAIN stack[t] = 1 .. Len(stack[t])
    BY DEF Stacked
  <2> QED
    BY <2>1 DEF FramesOf, Flights, Linked
<1> QED
  BY <1>1 DEF GlobalsMatchTheProgram, GlobalsFit, ListOK

LEMMA GlobalsAreNext ==
    Stacked' => (GlobalsMatchTheProgram' <=> (HarmlessMemory' => GlobalsFit'))
BY GlobalsAre, PTL

\* The stack of t becomes r, and no header changes but that of x, which no
\* other thread has.
StackBecomes(t, r, x) ==
    /\ stack' = [stack EXCEPT ![t] = r] /\ StackOK(r)
    /\ \A u \in Thread : u # t =>
          /\ caught'[u] = caught[u] /\ uncaught'[u] = uncaught[u]
          /\ With(stack[u], x) = {}
    /\ SameBut(x, next, handlers, next', handlers')
    /\ \A y \in Exn : y # x =>
          /\ With(stack[t], y) = {} => With(r, y) = {}
          /\ Handles(stack[t], y) => Handles(r, y)
    /\ ~Handles(r, x) => handlers'[x] = 0
    /\ ListOK(r, caught'[t], next', handlers')
    /\ uncaught'[t] = Cardinality(Flights(r))

LEMMA StackStep ==
    ASSUME Stacked, StacksAreWellFormed, HandlersAreCounted, GlobalsFit,
           NEW t \in Thread, NEW r, NEW x \in Exn, StackBecomes(t, r, x)
    PROVE  StacksAreWellFormed' /\ HandlersAreCounted' /\ GlobalsMatchTheProgram'
<1> USE DEF StackBecomes
<1>1. /\ \A u \in Thread : u # t => stack'[u] = stack[u]
      /\ stack'[t] = r
      /\ stack' \in [Thread -> Seq(Frames)]
  BY DEF Stacked, StackOK
<1>2. StacksAreWellFormed'
  <2>1. \A u \in Thread : Alternate(stack'[u]) /\ LeftIsOutermost(stack'[u])
    BY <1>1 DEF StacksAreWellFormed, StackOK
  <2>2. ASSUME NEW u \in Thread, NEW y \in Exn, u # t
        PROVE  With(r, y) = {} \/ With(stack[u], y) = {}
    BY <2>2 DEF StacksAreWellFormed
  <2>3. \A u, v \in Thread, y \in Exn :
            u # v => With(stack'[u], y) = {} \/ With(stack'[v], y) = {}
    BY <1>1, <2>2 DEF StacksAreWellFormed
  <2> QED
    BY <2>1, <2>3 DEF StacksAreWellFormed
<1>3. HandlersAreCounted'
  <2>1. SUFFICES ASSUME NEW y \in Exn, \A u \in Thread : ~Handles(stack'[u], y)
                 PROVE  handlers'[y] = 0
    BY DEF HandlersAreCounted
  <2>2. CASE y = x
    BY <1>1, <2>1, <2>2
  <2>3. CASE y # x
    <3>1. \A u \in Thread : ~Handles(stack[u], y)
      BY <1>1, <2>1, <2>3
    <3> QED
      BY <2>3, <3>1 DEF HandlersAreCounted, SameBut
  <2> QED
    BY <2>2, <2>3
<1>4. GlobalsFit'
  <2>1. SUFFICES ASSUME NEW u \in Thread
                 PROVE  /\ ListOK(stack'[u], caught'[u], next', handlers')
                        /\ uncaught'[u] = Cardinality(Flights(stack'[u]))
    BY DEF GlobalsFit
  <2>2. CASE u = t
    BY <1>1, <2>2
  <2>3. CASE u # t
    <3>1. stack'[u] = stack[u] /\ caught'[u] = caught[u] /\ uncaught'[u] = uncaught[u]
      BY <1>1, <2>3
    <3>2. PICK s \in Seq(Frames) : s = stack[u]
      BY DEF Stacked
    <3>3. PICK n \in Nat : n = Len(s)
      OBVIOUS
    <3>4. Linked(s, n, next, handlers) /\ Innermost(s, n, caught[u])
      BY <3>2, <3>3 DEF GlobalsFit, ListOK
    <3>5. \A i \in 1 .. n : s[i] \in Frames
      BY <3>3
    <3>6. \A i \in 1 .. n : s[i] # Frame("handler", x)
      <4>1. With(s, x) = {}
        BY <2>3, <3>2
      <4>2. \A i \in 1 .. n : s[i] = Frame("handler", x) => i \in With(s, x)
        BY <3>3, FrameIs DEF With
      <4> QED
        BY <4>1, <4>2
    <3>7. Linked(s, n, next', handlers')
      <4>1. PICK nx, h, k, g : nx = next /\ h = handlers /\ k = next' /\ g = handlers'
        OBVIOUS
      <4>2. n <= n /\ Linked(s, n, nx, h) /\ SameBut(x, nx, h, k, g)
        BY <3>4, <4>1
      <4>3. Linked(s, n, k, g)
        BY <3>5, <3>6, <4>2, ListBelow
      <4> QED
        BY <4>1, <4>3
    <3> QED
      BY <3>1, <3>2, <3>3, <3>4, <3>7 DEF GlobalsFit, ListOK
  <2> QED
    BY <2>2, <2>3
<1>5. Stacked'
  BY <1>1 DEF Stacked
<1> QED
  BY <1>2, <1>3, <1>4, <1>5, GlobalsAreNext

LEMMA StackStays ==
    ASSUME StacksAreWellFormed, HandlersAreCounted, GlobalsMatchTheProgram,
           UNCHANGED <<held, stack, caught, uncaught, next, handlers>>
    PROVE  StacksAreWellFormed' /\ HandlersAreCounted' /\ GlobalsMatchTheProgram'
<1>1. HarmlessMemory' => HarmlessMemory
  BY DEF HarmlessMemory
<1>2. GlobalsMatchTheProgram'
  BY <1>1 DEF GlobalsMatchTheProgram, FramesOf
<1> QED
  BY <1>2 DEF StacksAreWellFormed, HandlersAreCounted

LEMMA OwnersAreNat == \A x : Owners(x) \in Nat
BY OwnersAre

LEMMA OwnersAreNatNext == \A x : Owners(x)' \in Nat
BY OwnersAreNext

\* Somebody becomes an owner of x, which is new or has an owner.
LEMMA Gains ==
    ASSUME IInv, held' = held, NEW x \in Exn, object[x] = "none" \/ Owners(x) > 0,
           refs' = [refs EXCEPT ![x] = @ + 1],
           object' = [object EXCEPT ![x] = "live"],
           UNCHANGED dying,
           \A y \in Exn : Owners(y)' = Owners(y) + (IF y = x THEN 1 ELSE 0)
    PROVE  ReferencesAreCounted' /\ LivesFollowReferences'
<1>1. \A y \in Exn : /\ refs[y] = held[y].refs + Owners(y) /\ Owners(y) \in Nat
                     /\ held[y].refs \in Int /\ held[y].refs >= 0
                     /\ object[y] = "live" /\ refs[y] = 0 => \E t \in Thread : dying[t] = y
  BY OwnersAreNat DEF IInv, TypeOK, HarmlessMemory, ReferencesAreCounted
<1>2. /\ \A y \in Exn : refs'[y] = refs[y] + (IF y = x THEN 1 ELSE 0)
      /\ \A y \in Exn : object'[y] = IF y = x THEN "live" ELSE object[y]
  BY DEF IInv, TypeOK
<1>3. ReferencesAreCounted'
  <2>1. ASSUME NEW y \in Exn
        PROVE  refs'[y] = held'[y].refs + Owners(y)'
    BY <1>1, <1>2
  <2>2. ASSUME NEW y \in Exn, object'[y] = "live", refs'[y] = 0
        PROVE  \E t \in Thread : dying'[t] = y
    <3>1. y # x
      BY <1>1, <1>2, <2>2
    <3> QED
      BY <1>1, <1>2, <2>2, <3>1
  <2> QED
    BY <2>1, <2>2 DEF ReferencesAreCounted
<1>4. LivesFollowReferences'
  <2>1. \A t \in Thread : dying[t] # x
    <3>1. object[x] # "live" \/ refs[x] # 0
      BY <1>1
    <3>2. x # None
      BY CxxExceptionsAssumption
    <3> QED
      BY <3>1, <3>2 DEF IInv, LivesFollowReferences
  <2>2. \A y \in Exn : Owners(y)' > 0 => object'[y] = "live"
    BY <1>1, <1>2 DEF IInv, LivesFollowReferences
  <2>3. ASSUME NEW t \in Thread, dying[t] # None
        PROVE  /\ refs'[dying[t]] = 0 /\ object'[dying[t]] = "live"
               /\ \A u \in Thread : dying[u] = dying[t] => u = t
    <3>1. dying[t] \in Exn /\ dying[t] # x
      BY <2>1, <2>3 DEF IInv, TypeOK
    <3>2. /\ refs[dying[t]] = 0 /\ object[dying[t]] = "live"
          /\ \A u \in Thread : dying[u] = dying[t] => u = t
      BY <2>3 DEF IInv, LivesFollowReferences
    <3> QED
      BY <1>2, <3>1, <3>2
  <2> QED
    BY <2>2, <2>3 DEF LivesFollowReferences
<1> QED
  BY <1>3, <1>4

\* An owner of x leaves, and the last one is going to delete it.
LEMMA Loses ==
    ASSUME IInv, held' = held, NEW t \in Thread, dying[t] = None, NEW x \in Exn, Owners(x) > 0,
           DecrementRefcount(t, x), UNCHANGED object,
           \A y \in Exn : Owners(y)' = Owners(y) - (IF y = x THEN 1 ELSE 0)
    PROVE  ReferencesAreCounted' /\ LivesFollowReferences'
<1>1. \A y \in Exn : /\ refs[y] = held[y].refs + Owners(y) /\ Owners(y) \in Nat
                     /\ held[y].refs \in Int /\ held[y].refs >= 0
                     /\ object[y] = "live" /\ refs[y] = 0 => \E u \in Thread : dying[u] = y
  BY OwnersAreNat DEF IInv, TypeOK, HarmlessMemory, ReferencesAreCounted
<1>2. /\ \A y \in Exn : refs'[y] = refs[y] - (IF y = x THEN 1 ELSE 0)
      /\ \A u \in Thread : u # t => dying'[u] = dying[u]
      /\ dying'[t] = IF refs[x] = 1 THEN x ELSE None
  BY DEF IInv, TypeOK, DecrementRefcount
<1>3. x # None /\ \A y \in Exn : y # None
  BY CxxExceptionsAssumption
<1>4. refs[x] > 0 /\ object[x] = "live"
  <2>1. refs[x] > 0
    BY <1>1
  <2> QED
    BY <2>1 DEF IInv, LivesFollowReferences
<1>5. \A u \in Thread : dying[u] # x
  BY <1>3, <1>4 DEF IInv, LivesFollowReferences
<1>6. ReferencesAreCounted'
  <2>1. ASSUME NEW y \in Exn
        PROVE  refs'[y] = held'[y].refs + Owners(y)'
    BY <1>1, <1>2
  <2>2. ASSUME NEW y \in Exn, object'[y] = "live", refs'[y] = 0
        PROVE  \E u \in Thread : dying'[u] = y
    <3>1. CASE y = x
      <4>1. refs[x] = 1
        BY <1>1, <1>2, <2>2, <3>1
      <4> QED
        BY <1>2, <3>1, <4>1
    <3>2. CASE y # x
      <4>1. refs[y] = 0
        BY <1>1, <1>2, <2>2, <3>2
      <4>2. PICK u \in Thread : dying[u] = y
        BY <1>1, <2>2, <4>1
      <4> QED
        BY <1>2, <1>3, <4>2
    <3> QED
      BY <3>1, <3>2
  <2> QED
    BY <2>1, <2>2 DEF ReferencesAreCounted
<1>7. LivesFollowReferences'
  <2>1. \A y \in Exn : Owners(y)' > 0 => object'[y] = "live"
    BY <1>1, <1>2, <1>4 DEF IInv, LivesFollowReferences
  <2>2. ASSUME NEW u \in Thread, dying'[u] # None
        PROVE  /\ refs'[dying'[u]] = 0 /\ object'[dying'[u]] = "live"
               /\ \A v \in Thread : dying'[v] = dying'[u] => v = u
    <3>1. CASE u = t
      <4>1. dying'[t] = x /\ refs[x] = 1
        BY <1>2, <2>2, <3>1
      <4>2. refs'[x] = 0
        BY <1>1, <1>2, <4>1
      <4> QED
        BY <1>2, <1>4, <1>5, <3>1, <4>1, <4>2
    <3>2. CASE u # t
      <4>1. dying'[u] = dying[u] /\ dying[u] \in Exn /\ dying[u] # x /\ dying[u] # None
        BY <1>2, <1>5, <2>2, <3>2 DEF IInv, TypeOK
      <4>2. /\ refs[dying[u]] = 0 /\ object[dying[u]] = "live"
            /\ \A v \in Thread : dying[v] = dying[u] => v = u
        BY <4>1 DEF IInv, LivesFollowReferences
      <4>3. refs'[dying[u]] = 0
        BY <1>2, <4>1, <4>2
      <4>4. dying'[t] # dying[u]
        BY <1>2, <4>1
      <4> QED
        BY <1>2, <4>1, <4>2, <4>3, <4>4
    <3> QED
      BY <3>1, <3>2
  <2> QED
    BY <2>1, <2>2 DEF LivesFollowReferences
<1> QED
  BY <1>6, <1>7

LEMMA OwnersStay ==
    ASSUME IInv, held' = held, UNCHANGED <<refs, object, dying>>, \A y \in Exn : Owners(y)' = Owners(y)
    PROVE  ReferencesAreCounted' /\ LivesFollowReferences'
BY DEF IInv, HarmlessMemory, ReferencesAreCounted, LivesFollowReferences

-----------------------------------------------------------------------------
(* The actions on exception_ptrs *)

\* The null pointer of p becomes v, which is an exception, or the pointer is reset.
LEMMA PtrOwners ==
    ASSUME IInv, NEW p \in Ptr, NEW v \in Exn \cup {None},
           ptr' = [ptr EXCEPT ![p] = v], UNCHANGED stack
    PROVE  \A y \in Exn : Owners(y)' + (IF ptr[p] = y THEN 1 ELSE 0)
                              = Owners(y) + (IF v = y THEN 1 ELSE 0)
<1>1. TAKE y \in Exn
<1>2. ptr \in [Ptr -> Exn \cup {None}]
  BY DEF IInv, TypeOK
<1>3. Cardinality(PtrSet(y)') + (IF ptr[p] = y THEN 1 ELSE 0)
          = Cardinality(PtrSet(y)) + (IF v = y THEN 1 ELSE 0)
  BY <1>2, OnePtrChanges
<1>4. FrameSet(y)' = FrameSet(y)
  BY FramesStay
<1>5. /\ Owners(y) = Cardinality(FrameSet(y)) + Cardinality(PtrSet(y))
      /\ Cardinality(FrameSet(y)) \in Nat /\ Cardinality(PtrSet(y)) \in Nat
  BY OwnersAre
<1>6. /\ Owners(y)' = Cardinality(FrameSet(y)') + Cardinality(PtrSet(y)')
      /\ Cardinality(PtrSet(y)') \in Nat
  BY OwnersAreNext
<1> QED
  BY <1>3, <1>4, <1>5, <1>6

LEMMA MakePtrPreserves ==
    ASSUME IInv, held' = held, NEW t \in Thread, NEW p \in Ptr, NEW x \in Exn, MakePtr(t, p, x)
    PROVE  IInv'
<1>1. /\ ptr[p] = None /\ object[x] = "none"
      /\ object' = [object EXCEPT ![x] = "live"]
      /\ refs' = [refs EXCEPT ![x] = @ + 1]
      /\ ptr' = [ptr EXCEPT ![p] = x]
      /\ UNCHANGED <<handlers, next, caught, uncaught, stack, dying, ended>>
  BY DEF MakePtr, Allocate, globals
<1>2. TypeOK'
  BY <1>1 DEF IInv, TypeOK
<1>3. \A y \in Exn : Owners(y)' + 0 = Owners(y) + (IF y = x THEN 1 ELSE 0)
  <2>1. UNCHANGED stack /\ x \in Exn \cup {None}
    BY <1>1
  <2>2. \A y \in Exn : Owners(y)' + (IF ptr[p] = y THEN 1 ELSE 0)
                            = Owners(y) + (IF x = y THEN 1 ELSE 0)
    BY <1>1, <2>1, PtrOwners
  <2> QED
    BY <1>1, <2>2, CxxExceptionsAssumption
<1>4. \A y \in Exn : Owners(y)' = Owners(y) + (IF y = x THEN 1 ELSE 0)
  BY <1>3, OwnersAreNat, OwnersAreNatNext
<1>5. ReferencesAreCounted' /\ LivesFollowReferences'
  BY <1>1, <1>4, Gains
<1>6. StacksAreWellFormed' /\ HandlersAreCounted' /\ GlobalsMatchTheProgram'
  BY <1>1, StackStays DEF IInv
<1> QED
  BY <1>2, <1>5, <1>6 DEF IInv, HarmlessMemory

LEMMA OwnedIsLive ==
    ASSUME IInv, NEW x \in Exn, Owners(x) > 0
    PROVE  object[x] = "live"
BY DEF IInv, LivesFollowReferences

LEMMA PointedIsOwned ==
    ASSUME IInv, NEW q \in Ptr, NEW x \in Exn, ptr[q] = x
    PROVE  Owners(x) > 0
<1>1. q \in PtrSet(x)
  BY DEF PtrSet
<1>2. /\ Owners(x) = Cardinality(FrameSet(x)) + Cardinality(PtrSet(x))
      /\ Cardinality(FrameSet(x)) \in Nat /\ Cardinality(PtrSet(x)) \in Nat
      /\ IsFiniteSet(PtrSet(x))
  BY OwnersAre
<1>3. Cardinality(PtrSet(x)) # 0
  BY <1>1, <1>2, FS_EmptySet
<1> QED
  BY <1>2, <1>3

LEMMA FramedIsOwned ==
    ASSUME IInv, NEW t \in Thread, NEW i \in DOMAIN stack[t],
           stack[t][i].kind # "left", NEW x \in Exn, stack[t][i].exn = x
    PROVE  Owners(x) > 0
<1>1. stack[t] \in Seq(Frames) /\ Len(stack[t]) <= MaxDepth
  BY DEF IInv, TypeOK
<1>2. i \in 1 .. MaxDepth
  BY <1>1, CxxExceptionsAssumption
<1>3. <<t, i>> \in FrameSet(x)
  BY <1>2 DEF FrameSet, FramesWith
<1>4. /\ Owners(x) = Cardinality(FrameSet(x)) + Cardinality(PtrSet(x))
      /\ Cardinality(FrameSet(x)) \in Nat /\ Cardinality(PtrSet(x)) \in Nat
      /\ IsFiniteSet(FrameSet(x))
  BY OwnersAre
<1>5. Cardinality(FrameSet(x)) # 0
  BY <1>3, <1>4, FS_EmptySet
<1> QED
  BY <1>4, <1>5

\* The head of the list is the exception of a handler of the thread.
LEMMA CaughtIsHandled ==
    ASSUME IInv, NEW t \in Thread, caught[t] # None
    PROVE  /\ caught[t] \in Exn
           /\ \E i \in DOMAIN stack[t] : stack[t][i] = Frame("handler", caught[t])
<1>1. stack[t] \in Seq(Frames) /\ caught[t] \in Exn
  BY DEF IInv, TypeOK
<1>2. PICK n \in Nat : n = Len(stack[t])
  BY <1>1
<1>3. Innermost(stack[t], n, caught[t])
  BY <1>2 DEF IInv, GlobalsMatchTheProgram
<1>4. \E i \in 1 .. n : stack[t][i] = Frame("handler", caught[t])
  BY <1>3, InnerSome
<1> QED
  BY <1>1, <1>2, <1>4

LEMMA TakeRefPreserves ==
    ASSUME IInv, held' = held, NEW p \in Ptr, ptr[p] = None, NEW x \in Exn, Owners(x) > 0,
           ptr' = [ptr EXCEPT ![p] = x], refs' = TakeRef(x),
           UNCHANGED <<handlers, next, object, caught, uncaught, stack, dying, ended>>
    PROVE  IInv'
<1>1. refs' = [refs EXCEPT ![x] = @ + 1]
  BY DEF TakeRef
<1>2. TypeOK'
  BY <1>1 DEF IInv, TypeOK
<1>3. \A y \in Exn : Owners(y)' + 0 = Owners(y) + (IF y = x THEN 1 ELSE 0)
  BY PtrOwners, CxxExceptionsAssumption, ZenonT(30)
<1>4. \A y \in Exn : Owners(y)' = Owners(y) + (IF y = x THEN 1 ELSE 0)
  BY <1>3, OwnersAreNat, OwnersAreNatNext
<1>5. object' = [object EXCEPT ![x] = "live"]
  BY OwnedIsLive DEF IInv, TypeOK
<1>6. ReferencesAreCounted' /\ LivesFollowReferences'
  BY <1>1, <1>4, <1>5, Gains
<1>7. StacksAreWellFormed' /\ HandlersAreCounted' /\ GlobalsMatchTheProgram'
  BY StackStays DEF IInv
<1> QED
  BY <1>2, <1>6, <1>7 DEF IInv, HarmlessMemory

LEMMA CurrentExceptionPreserves ==
    ASSUME IInv, held' = held, NEW t \in Thread, NEW p \in Ptr, CurrentException(t, p)
    PROVE  IInv'
<1>1. PICK x : x = caught[t]
  OBVIOUS
<1>2. /\ ptr[p] = None /\ x # None
      /\ ptr' = [ptr EXCEPT ![p] = x] /\ refs' = TakeRef(x)
      /\ UNCHANGED <<handlers, next, object, caught, uncaught, stack, dying, ended>>
  BY <1>1 DEF CurrentException, globals
<1>3. PICK i \in DOMAIN stack[t] : stack[t][i] = Frame("handler", x)
  BY <1>1, <1>2, CaughtIsHandled
<1>4. x \in Exn /\ Owners(x) > 0
  <2>1. x \in Exn
    BY <1>1, <1>2, CaughtIsHandled
  <2> QED
    BY <1>3, <2>1, FramedIsOwned, FrameIs
<1> QED
  BY <1>2, <1>4, TakeRefPreserves

LEMMA OnlyTheEnd ==
    ASSUME IInv, held' = held, ended' \in BOOLEAN,
           UNCHANGED <<refs, handlers, next, object, caught, uncaught, ptr, stack, dying>>
    PROVE  IInv'
<1>1. TypeOK'
  BY DEF IInv, TypeOK
<1>2. \A y \in Exn : Owners(y)' = Owners(y)
  BY DEF Owners, FramesWith
<1>3. ReferencesAreCounted' /\ LivesFollowReferences'
  BY <1>2, OwnersStay
<1>4. StacksAreWellFormed' /\ HandlersAreCounted' /\ GlobalsMatchTheProgram'
  BY StackStays DEF IInv
<1> QED
  BY <1>1, <1>3, <1>4 DEF IInv, HarmlessMemory

LEMMA CopyPtrPreserves ==
    ASSUME IInv, held' = held, NEW t \in Thread, NEW p \in Ptr, NEW q \in Ptr, CopyPtr(t, p, q)
    PROVE  IInv'
<1>1. CASE ptr[q] = None
  BY <1>1, OnlyTheEnd DEF CopyPtr, globals
<1>2. CASE ptr[q] # None
  <2>1. PICK x : x = ptr[q]
    OBVIOUS
  <2>2. x \in Exn
    BY <1>2, <2>1 DEF IInv, TypeOK
  <2>3. /\ ptr[p] = None
        /\ ptr' = [ptr EXCEPT ![p] = x] /\ refs' = TakeRef(x)
        /\ UNCHANGED <<handlers, next, object, caught, uncaught, stack, dying, ended>>
    BY <1>2, <2>1 DEF CopyPtr, globals
  <2> QED
    BY <2>1, <2>2, <2>3, PointedIsOwned, TakeRefPreserves
<1> QED
  BY <1>1, <1>2

LEMMA MovePtrPreserves ==
    ASSUME IInv, held' = held, NEW t \in Thread, NEW p \in Ptr, NEW q \in Ptr, MovePtr(t, p, q)
    PROVE  IInv'
<1>1. /\ ptr[p] = None
      /\ ptr' = [ptr EXCEPT ![p] = ptr[q], ![q] = None]
      /\ UNCHANGED <<refs, handlers, next, object, caught, uncaught, stack, dying, ended>>
  BY DEF MovePtr, header, globals
<1>2. TypeOK'
  BY <1>1 DEF IInv, TypeOK
<1>3. ASSUME NEW y \in Exn
      PROVE  Cardinality(PtrSet(y)') = Cardinality(PtrSet(y))
  <2>1. y # None
    BY CxxExceptionsAssumption
  <2>2. IsFiniteSet(PtrSet(y)) /\ IsFiniteSet(PtrSet(y)')
    BY OwnersAre, OwnersAreNext
  <2>3. CASE p = q \/ ptr[q] # y
    <3>1. PtrSet(y)' = PtrSet(y)
      BY <1>1, <2>1, <2>3 DEF PtrSet, IInv, TypeOK
    <3> QED
      BY <3>1
  <2>4. CASE p # q /\ ptr[q] = y
    <3>1. \A z : z # p /\ z # q => (z \in PtrSet(y) <=> z \in PtrSet(y)')
      BY <1>1 DEF PtrSet, IInv, TypeOK
    <3>2. /\ p \notin PtrSet(y) /\ q \in PtrSet(y)
          /\ p \in PtrSet(y)' /\ q \notin PtrSet(y)'
      BY <1>1, <2>1, <2>4 DEF PtrSet, IInv, TypeOK
    <3>3. /\ Cardinality(PtrSet(y)) \in Nat /\ Cardinality(PtrSet(y)') \in Nat
          /\ Cardinality(PtrSet(y)') + In(p, PtrSet(y)) + In(q, PtrSet(y))
                 = Cardinality(PtrSet(y)) + In(p, PtrSet(y)') + In(q, PtrSet(y)')
      BY <2>2, <2>4, <3>1, TwoDiffer
    <3> QED
      BY <3>2, <3>3 DEF In
  <2> QED
    BY <2>3, <2>4
<1>4. \A y \in Exn : Owners(y)' = Owners(y)
  <2>1. \A y \in Exn : FrameSet(y)' = FrameSet(y)
    BY <1>1, FramesStay
  <2> QED
    BY <1>3, <2>1, OwnersAre, OwnersAreNext
<1>5. ReferencesAreCounted' /\ LivesFollowReferences'
  BY <1>1, <1>4, OwnersStay
<1>6. StacksAreWellFormed' /\ HandlersAreCounted' /\ GlobalsMatchTheProgram'
  BY <1>1, StackStays DEF IInv
<1> QED
  BY <1>2, <1>5, <1>6 DEF IInv, HarmlessMemory

LEMMA DecrementTypes ==
    ASSUME TypeOK, NEW t \in Thread, NEW x \in Exn, DecrementRefcount(t, x)
    PROVE  refs' \in [Exn -> Int] /\ dying' \in [Thread -> Exn \cup {None}]
BY DEF TypeOK, DecrementRefcount

LEMMA ResetPtrPreserves ==
    ASSUME IInv, held' = held, NEW t \in Thread, NEW p \in Ptr, ResetPtr(t, p)
    PROVE  IInv'
<1>1. PICK x : x = ptr[p]
  OBVIOUS
<1>2. /\ dying[t] = None /\ x # None
      /\ DecrementRefcount(t, x)
      /\ ptr' = [ptr EXCEPT ![p] = None]
      /\ UNCHANGED <<handlers, next, object, caught, uncaught, stack, ended>>
  BY <1>1 DEF ResetPtr, Runs, globals
<1>3. x \in Exn
  BY <1>1, <1>2 DEF IInv, TypeOK
<1>4. TypeOK'
  BY <1>2, <1>3, DecrementTypes DEF IInv, TypeOK
<1>5. \A y \in Exn : Owners(y)' + (IF y = x THEN 1 ELSE 0) = Owners(y) + 0
  <2>1. UNCHANGED stack /\ None \in Exn \cup {None}
    BY <1>2
  <2>2. \A y \in Exn : Owners(y)' + (IF ptr[p] = y THEN 1 ELSE 0)
                            = Owners(y) + (IF None = y THEN 1 ELSE 0)
    BY <1>2, <2>1, PtrOwners
  <2> QED
    BY <1>1, <2>2, CxxExceptionsAssumption
<1>6. \A y \in Exn : Owners(y)' = Owners(y) - (IF y = x THEN 1 ELSE 0)
  BY <1>5, OwnersAreNat, OwnersAreNatNext
<1>7. ReferencesAreCounted' /\ LivesFollowReferences'
  BY <1>1, <1>2, <1>3, <1>6, PointedIsOwned, Loses
<1>8. StacksAreWellFormed' /\ HandlersAreCounted' /\ GlobalsMatchTheProgram'
  BY <1>2, StackStays DEF IInv
<1> QED
  BY <1>4, <1>7, <1>8 DEF IInv, HarmlessMemory

LEMMA DeletePreserves ==
    ASSUME IInv, held' = held, NEW t \in Thread, DeleteException(t)
    PROVE  IInv'
<1>1. PICK x : x = dying[t]
  OBVIOUS
<1>2. /\ x # None
      /\ object' = [object EXCEPT ![x] = "deleted"]
      /\ dying' = [dying EXCEPT ![t] = None]
      /\ UNCHANGED <<refs, handlers, next, caught, uncaught, ptr, stack, ended>>
  BY <1>1 DEF DeleteException, header, globals
<1>3. x \in Exn /\ refs[x] = 0 /\ \A u \in Thread : dying[u] = x => u = t
  BY <1>1, <1>2 DEF IInv, TypeOK, LivesFollowReferences
<1>4. TypeOK'
  BY <1>2, <1>3 DEF IInv, TypeOK
<1>5. \A y \in Exn : Owners(y)' = Owners(y)
  BY <1>2 DEF Owners, FramesWith
<1>6. ReferencesAreCounted'
  <2>1. ASSUME NEW y \in Exn, object'[y] = "live", refs'[y] = 0
        PROVE  \E u \in Thread : dying'[u] = y
    <3>1. y # x /\ object[y] = "live" /\ refs[y] = 0
      BY <1>2, <1>3, <2>1 DEF IInv, TypeOK
    <3>2. PICK u \in Thread : dying[u] = y
      BY <3>1 DEF IInv, ReferencesAreCounted
    <3> QED
      BY <1>1, <1>2, <3>1, <3>2 DEF IInv, TypeOK
  <2> QED
    BY <1>2, <1>5, <2>1 DEF IInv, ReferencesAreCounted
<1>7. LivesFollowReferences'
  <2>0. ~(Owners(x) > 0)
    <3>1. held[x].refs \in Int /\ held[x].refs >= 0 /\ refs[x] = held[x].refs + Owners(x)
      BY <1>3 DEF IInv, TypeOK, HarmlessMemory, ReferencesAreCounted
    <3>2. Owners(x) \in Nat
      BY OwnersAreNat
    <3> QED
      BY <1>3, <3>1, <3>2
  <2>1. \A y \in Exn : Owners(y)' > 0 => object'[y] = "live"
    BY <1>2, <1>3, <1>5, <2>0 DEF IInv, TypeOK, LivesFollowReferences
  <2>2. ASSUME NEW u \in Thread, dying'[u] # None
        PROVE  /\ refs'[dying'[u]] = 0 /\ object'[dying'[u]] = "live"
               /\ \A v \in Thread : dying'[v] = dying'[u] => v = u
    <3>1. u # t /\ dying'[u] = dying[u] /\ dying[u] \in Exn
      BY <1>2, <2>2 DEF IInv, TypeOK
    <3>2. dying[u] # x
      BY <1>3, <3>1
    <3>3. /\ refs[dying[u]] = 0 /\ object[dying[u]] = "live"
          /\ \A v \in Thread : dying[v] = dying[u] => v = u
      BY <2>2, <3>1 DEF IInv, LivesFollowReferences
    <3>4. object'[dying[u]] = "live"
      BY <1>2, <3>1, <3>2, <3>3 DEF IInv, TypeOK
    <3>5. \A v \in Thread : dying'[v] = IF v = t THEN None ELSE dying[v]
      BY <1>2 DEF IInv, TypeOK
    <3> QED
      BY <1>2, <2>2, <3>1, <3>3, <3>4, <3>5
  <2> QED
    BY <2>1, <2>2 DEF LivesFollowReferences
<1>8. StacksAreWellFormed' /\ HandlersAreCounted' /\ GlobalsMatchTheProgram'
  BY <1>2, StackStays DEF IInv
<1> QED
  BY <1>4, <1>6, <1>7, <1>8 DEF IInv, HarmlessMemory

-----------------------------------------------------------------------------
(* The actions on stacks *)

LEMMA FrameOf ==
    \A f \in Frames : f = Frame(f.kind, f.exn) /\ f.exn \in Exn
BY DEF Frames, Frame

LEMMA StacksAre ==
    ASSUME IInv
    PROVE  /\ Stacked /\ GlobalsFit
           /\ \A t \in Thread : StackOK(stack[t])
           /\ \A t, u \in Thread, x \in Exn :
                 t # u /\ With(stack[t], x) # {} => With(stack[u], x) = {}
<1>1. Stacked
  BY DEF IInv, TypeOK, Stacked
<1>2. GlobalsFit
  BY <1>1, GlobalsAre DEF IInv
<1> QED
  BY <1>1, <1>2 DEF IInv, StacksAreWellFormed, StackOK, Stacked

LEMMA TopOne ==
    ASSUME IInv, NEW t \in Thread, Top(t, 1).kind # "code"
    PROVE  \E n \in Nat :
              /\ Len(stack[t]) = n + 1 /\ n + 1 \in 1 .. MaxDepth
              /\ Top(t, 1) = stack[t][n + 1]
              /\ stack[t][n + 1] \in Frames
<1>1. stack[t] \in Seq(Frames) /\ Len(stack[t]) <= MaxDepth
  BY DEF IInv, TypeOK
<1>2. Len(stack[t]) >= 1 /\ Top(t, 1) = stack[t][Len(stack[t]) + 1 - 1]
  BY <1>1, FrameIs DEF Top
<1>3. PICK n \in Nat : Len(stack[t]) = n + 1
  <2>1. Len(stack[t]) \in Nat
    BY <1>1
  <2>2. PICK n \in Nat : n = Len(stack[t]) - 1
    BY <1>2, <2>1
  <2>3. Len(stack[t]) = n + 1
    BY <2>1, <2>2
  <2> QED
    BY <2>3
<1>4. Len(stack[t]) + 1 - 1 = n + 1 /\ n + 1 \in 1 .. MaxDepth
  BY <1>1, <1>3, CxxExceptionsAssumption
<1>5. stack[t][n + 1] \in Frames
  BY <1>1, <1>3
<1> QED
  BY <1>2, <1>3, <1>4, <1>5

LEMMA TopTwo ==
    ASSUME IInv, NEW t \in Thread, Top(t, 2).kind # "code"
    PROVE  \E n \in Nat :
              /\ Len(stack[t]) = n + 2 /\ n + 2 \in 1 .. MaxDepth /\ n + 1 \in 1 .. MaxDepth
              /\ Top(t, 1) = stack[t][n + 2] /\ Top(t, 2) = stack[t][n + 1]
              /\ stack[t][n + 1] \in Frames /\ stack[t][n + 2] \in Frames
<1>1. stack[t] \in Seq(Frames) /\ Len(stack[t]) <= MaxDepth
  BY DEF IInv, TypeOK
<1>2. /\ Len(stack[t]) >= 2 /\ Top(t, 2) = stack[t][Len(stack[t]) + 1 - 2]
      /\ Top(t, 1) = stack[t][Len(stack[t]) + 1 - 1]
  BY <1>1, FrameIs DEF Top
<1>3. PICK n \in Nat : Len(stack[t]) = n + 2
  <2>1. Len(stack[t]) \in Nat
    BY <1>1
  <2>2. PICK n \in Nat : n = Len(stack[t]) - 2
    BY <1>2, <2>1
  <2>3. Len(stack[t]) = n + 2
    BY <2>1, <2>2
  <2> QED
    BY <2>3
<1>4. /\ Len(stack[t]) + 1 - 1 = n + 2 /\ Len(stack[t]) + 1 - 2 = n + 1
      /\ n + 2 \in 1 .. MaxDepth /\ n + 1 \in 1 .. MaxDepth
  BY <1>1, <1>3, CxxExceptionsAssumption
<1>5. stack[t][n + 1] \in Frames /\ stack[t][n + 2] \in Frames
  BY <1>1, <1>3
<1> QED
  BY <1>2, <1>3, <1>4, <1>5

LEMMA PushPreserves ==
    ASSUME IInv, held' = held, NEW t \in Thread, NEW x \in Exn, Len(stack[t]) < MaxDepth,
           \A u \in Thread : u # t => With(stack[u], x) = {},
           \A i \in With(stack[t], x) : i = Len(stack[t]) /\ stack[t][i].kind = "handler",
           object[x] = "none" \/ Owners(x) > 0,
           refs' = [refs EXCEPT ![x] = @ + 1],
           object' = [object EXCEPT ![x] = "live"],
           uncaught' = [uncaught EXCEPT ![t] = @ + 1],
           Push(t, "flight", x),
           UNCHANGED <<handlers, next, caught, ptr, dying, ended>>
    PROVE  IInv'
<1>1. PICK s : s = stack[t]
  OBVIOUS
<1>2. PICK r : r = Append(s, Frame("flight", x))
  OBVIOUS
<1>3. stack' = [stack EXCEPT ![t] = r]
  BY <1>1, <1>2 DEF Push
<1>4. Stacked /\ GlobalsFit /\ StackOK(s)
  BY <1>1, StacksAre
<1>5. /\ r \in Seq(Frames) /\ Len(r) = Len(s) + 1
      /\ \A i \in 1 .. Len(s) : r[i] = s[i]
      /\ r[Len(s) + 1] = Frame("flight", x)
  <2>1. s \in Seq(Frames) /\ Frame("flight", x) \in Frames
    BY <1>4 DEF StackOK, Frame, Frames
  <2> QED
    BY <1>2, <2>1, PushShape
<1>6. /\ StackOK(r)
      /\ \A c, nx, h : ListOK(s, c, nx, h) => ListOK(r, c, nx, h)
      /\ Cardinality(Flights(r)) = Cardinality(Flights(s)) + 1
      /\ \A y \in Exn : \A i : i # Len(s) + 1 => (i \in With(r, y) <=> i \in With(s, y))
      /\ \A y \in Exn : Len(s) + 1 \in With(r, y) <=> y = x
      /\ \A y \in Exn : Len(s) + 1 \notin With(s, y)
      /\ \A y \in Exn : Handles(s, y) => Handles(r, y)
  BY <1>1, <1>4, <1>5, PushKeeps
<1>7. TypeOK'
  <2>1. Len(r) <= MaxDepth
    <3>1. Len(s) \in Nat /\ Len(s) < MaxDepth
      BY <1>1, <1>4 DEF StackOK
    <3> QED
      BY <1>5, <3>1, CxxExceptionsAssumption
  <2> QED
    BY <1>3, <1>5, <2>1 DEF IInv, TypeOK
<1>8. StacksAreWellFormed' /\ HandlersAreCounted' /\ GlobalsMatchTheProgram'
  <2>1. SameBut(x, next, handlers, next', handlers')
    BY DEF SameBut
  <2>2. \A y \in Exn : y # x /\ With(s, y) = {} => With(r, y) = {}
    BY <1>6
  <2>3. ~Handles(r, x) => handlers'[x] = 0
    <3>1. SUFFICES ASSUME ~Handles(r, x)
                   PROVE  handlers[x] = 0
      OBVIOUS
    <3>2. ~Handles(s, x)
      BY <1>6, <3>1
    <3>3. \A u \in Thread : u # t => ~Handles(stack[u], x)
      BY FrameIs DEF Handles, With
    <3> QED
      BY <1>1, <3>2, <3>3 DEF IInv, HandlersAreCounted
  <2>4. ListOK(r, caught'[t], next', handlers')
    <3>1. ListOK(s, caught[t], next, handlers)
      BY <1>1, <1>4 DEF GlobalsFit
    <3> QED
      BY <1>6, <3>1
  <2>5. uncaught'[t] = Cardinality(Flights(r))
    BY <1>1, <1>4, <1>6 DEF GlobalsFit, IInv, TypeOK
  <2>6. \A u \in Thread : u # t => caught'[u] = caught[u] /\ uncaught'[u] = uncaught[u]
    BY DEF IInv, TypeOK
  <2>7. StacksAreWellFormed /\ HandlersAreCounted
    BY DEF IInv
  <2>8. /\ \A y \in Exn : y # x /\ Handles(stack[t], y) => Handles(r, y)
        /\ \A y \in Exn : y # x /\ With(stack[t], y) = {} => With(r, y) = {}
    BY <1>1, <1>6, <2>2
  <2>10. StackBecomes(t, r, x)
    BY <1>3, <1>4, <1>6, <2>1, <2>3, <2>4, <2>5, <2>6, <2>7, <2>8 DEF StackBecomes
  <2> QED
    BY <1>4, <2>7, <2>10, StackStep
<1>9. \A y \in Exn : Owners(y)' = Owners(y) + (IF y = x THEN 1 ELSE 0)
  <2>1. TAKE y \in Exn
  <2>2. PICK m : m = Len(s) + 1
    OBVIOUS
  <2>3. m \in 1 .. MaxDepth
    <3>1. Len(s) \in Nat /\ Len(s) < MaxDepth
      BY <1>1, <1>4 DEF StackOK
    <3> QED
      BY <2>2, <3>1, CxxExceptionsAssumption
  <2>4. Cardinality(FrameSet(y)') + In(m, With(s, y)) = Cardinality(FrameSet(y)) + In(m, With(r, y))
    <3>1. \A i : i # m => (i \in With(r, y) <=> i \in With(stack[t], y))
      BY <1>1, <1>6, <2>2
    <3>2. stack \in [Thread -> Seq(Frames)]
      BY <1>4 DEF Stacked
    <3>3. /\ Cardinality(FrameSet(y)') + In(m, With(stack[t], y))
                 = Cardinality(FrameSet(y)) + In(m, With(r, y))
      BY <1>3, <2>3, <3>1, <3>2, OneFrameChanges, ZenonT(30)
    <3> QED
      BY <1>1, <3>3
  <2>5. In(m, With(s, y)) = 0 /\ In(m, With(r, y)) = IF y = x THEN 1 ELSE 0
    BY <1>6, <2>2 DEF In
  <2>6. PtrSet(y)' = PtrSet(y)
    BY PtrsStay
  <2>7. /\ Owners(y) = Cardinality(FrameSet(y)) + Cardinality(PtrSet(y))
        /\ Cardinality(FrameSet(y)) \in Nat /\ Cardinality(PtrSet(y)) \in Nat
    BY OwnersAre
  <2>8. /\ Owners(y)' = Cardinality(FrameSet(y)') + Cardinality(PtrSet(y)')
        /\ Cardinality(FrameSet(y)') \in Nat
    BY OwnersAreNext
  <2> QED
    BY <2>4, <2>5, <2>6, <2>7, <2>8
<1>10. ReferencesAreCounted' /\ LivesFollowReferences'
  BY <1>9, Gains
<1> QED
  BY <1>7, <1>8, <1>10 DEF IInv, HarmlessMemory

LEMMA ThrowPreserves ==
    ASSUME IInv, held' = held, NEW t \in Thread, NEW x \in Exn, Throw(t, x)
    PROVE  IInv'
<1>1. /\ Len(stack[t]) < MaxDepth /\ object[x] = "none"
      /\ object' = [object EXCEPT ![x] = "live"]
      /\ refs' = [refs EXCEPT ![x] = @ + 1]
      /\ uncaught' = [uncaught EXCEPT ![t] = @ + 1]
      /\ Push(t, "flight", x)
      /\ UNCHANGED <<handlers, next, caught, ptr, dying, ended>>
  BY DEF Throw, Allocate
<1>2. \A u \in Thread : With(stack[u], x) = {}
  <2>1. SUFFICES ASSUME NEW u \in Thread, NEW i \in With(stack[u], x)
                 PROVE  FALSE
    OBVIOUS
  <2>2. Owners(x) > 0
    BY <2>1, FramedIsOwned DEF With
  <2> QED
    BY <1>1, <2>2, OwnedIsLive
<1> QED
  BY <1>1, <1>2, PushPreserves

LEMMA ThrowPtrPreserves ==
    ASSUME ~AnyProgram, IInv, held' = held, NEW t \in Thread, NEW p \in Ptr, ThrowPtr(t, p)
    PROVE  IInv'
<1>1. PICK x : x = ptr[p]
  OBVIOUS
<1>2. CASE x = None
  BY <1>1, <1>2, OnlyTheEnd DEF ThrowPtr
<1>3. CASE x # None
  <2>1. /\ Len(stack[t]) < MaxDepth
        /\ CarefulThrowPtr(t, x)
        /\ refs' = [refs EXCEPT ![x] = @ + 1]
        /\ uncaught' = [uncaught EXCEPT ![t] = @ + 1]
        /\ Push(t, "flight", x)
        /\ UNCHANGED <<handlers, next, object, caught, ptr, dying, ended>>
    BY <1>1, <1>3 DEF ThrowPtr, TakeRef
  <2>2. x \in Exn /\ Owners(x) > 0
    BY <1>1, <1>3, PointedIsOwned DEF IInv, TypeOK
  <2>3. object' = [object EXCEPT ![x] = "live"]
    BY <2>1, <2>2, OwnedIsLive DEF IInv, TypeOK
  <2>4. \A u \in Thread : With(stack[u], x) \subseteq
            IF u = t /\ Top(t, 1).kind = "handler" THEN {Len(stack[t])} ELSE {}
    BY <2>1 DEF CarefulThrowPtr, FramesWith, With
  <2>5. \A u \in Thread : u # t => With(stack[u], x) = {}
    BY <2>4
  <2>6. ASSUME NEW i \in With(stack[t], x)
        PROVE  i = Len(stack[t]) /\ stack[t][i].kind = "handler"
    <3>1. i = Len(stack[t]) /\ Top(t, 1).kind = "handler"
      BY <2>4, <2>6
    <3>2. PICK n \in Nat : Len(stack[t]) = n + 1 /\ Top(t, 1) = stack[t][n + 1]
      BY <3>1, TopOne
    <3> QED
      BY <3>1, <3>2
  <2> QED
    BY <2>1, <2>2, <2>3, <2>5, <2>6, PushPreserves
<1> QED
  BY <1>2, <1>3

\* The stacks of the other threads do not have the exception of a frame of t.
LEMMA OthersHaveNot ==
    ASSUME IInv, NEW t \in Thread, NEW x \in Exn, NEW i \in DOMAIN stack[t],
           stack[t][i].kind # "left", stack[t][i].exn = x
    PROVE  \A u \in Thread : u # t => With(stack[u], x) = {} /\ ~Handles(stack[u], x)
<1>1. i \in With(stack[t], x)
  BY DEF With
<1>2. \A u \in Thread : u # t => With(stack[u], x) = {}
  BY <1>1, StacksAre
<1>3. \A u \in Thread : \A j \in DOMAIN stack[u] :
          stack[u][j] = Frame("handler", x) => j \in With(stack[u], x)
  BY FrameIs DEF With
<1> QED
  BY <1>2, <1>3 DEF Handles

LEMMA BeginCatchPreserves ==
    ASSUME ~AnyProgram, IInv, held' = held, NEW t \in Thread, BeginCatch(t)
    PROVE  IInv'
<1>1. Top(t, 1).kind = "flight" /\ Top(t, 1).exn # Top(t, 2).exn
  BY DEF BeginCatch, Propagates, CarefulCatch
<1>2. PICK n \in Nat : /\ Len(stack[t]) = n + 1 /\ n + 1 \in 1 .. MaxDepth
                       /\ Top(t, 1) = stack[t][n + 1]
                       /\ stack[t][n + 1] \in Frames
  BY <1>1, TopOne
<1>3. PICK x : x = Top(t, 1).exn
  OBVIOUS
<1>4. x \in Exn /\ stack[t][n + 1] = Frame("flight", x)
  BY <1>1, <1>2, <1>3, FrameOf
<1>5. n >= 1 => stack[t][n].exn # x
  <2>1. SUFFICES ASSUME n >= 1
                 PROVE  stack[t][n].exn # x
    OBVIOUS
  <2>2. Len(stack[t]) + 1 - 2 = n /\ ~(Len(stack[t]) < 2)
    BY <1>2, <2>1
  <2>3. Top(t, 2) = stack[t][n]
    BY <2>2 DEF Top
  <2> QED
    BY <1>1, <1>3, <2>3
<1>6. PICK s : s = stack[t]
  OBVIOUS
<1>7. PICK r : r = Append(Below(s), Frame("handler", x))
  OBVIOUS
<1>8. Stacked /\ GlobalsFit /\ StackOK(s)
  BY <1>6, StacksAre
<1>9. r \in Seq(Frames) /\ Len(r) = n + 1 /\ r[n + 1] = Frame("handler", x)
      /\ \A i \in 1 .. n : r[i] = s[i]
  <2>1. s \in Seq(Frames) /\ Frame("handler", x) \in Frames /\ Len(s) >= 1
    BY <1>2, <1>4, <1>6, <1>8 DEF StackOK, Frame, Frames
  <2>2. /\ r \in Seq(Frames) /\ Len(r) = Len(s)
        /\ \A i \in 1 .. Len(s) - 1 : r[i] = s[i]
        /\ r[Len(s)] = Frame("handler", x)
    BY <1>7, <2>1, CatchShape
  <2>3. Len(s) = n + 1 /\ Len(s) - 1 = n
    BY <1>2, <1>6
  <2> QED
    BY <2>2, <2>3
<1>10. /\ StackOK(r)
       /\ \A y \in Exn : With(r, y) = With(s, y)
       /\ \A y \in Exn : Handles(s, y) => Handles(r, y)
       /\ Handles(r, x) /\ ~Handles(s, x)
       /\ Cardinality(Flights(r)) = Cardinality(Flights(s)) - 1
  <2>1. Len(s) = n + 1 /\ s[n + 1] = Frame("flight", x) /\ (n >= 1 => s[n].exn # x)
    BY <1>2, <1>4, <1>5, <1>6
  <2> QED
    BY <1>4, <1>8, <1>9, <2>1, CatchKeeps
<1>11. \A u \in Thread : u # t => With(stack[u], x) = {} /\ ~Handles(stack[u], x)
  <2>1. n + 1 \in DOMAIN stack[t]
    BY <1>2
  <2> QED
    BY <1>4, <2>1, OthersHaveNot, FrameIs
<1>12. handlers[x] = 0
  BY <1>4, <1>6, <1>10, <1>11 DEF IInv, HandlersAreCounted
<1>13. caught[t] # x
  <2>1. SUFFICES ASSUME caught[t] = x
                 PROVE  FALSE
    OBVIOUS
  <2>2. x # None
    BY <1>4, CxxExceptionsAssumption
  <2>3. Handles(stack[t], x)
    BY <2>1, <2>2, CaughtIsHandled DEF Handles
  <2> QED
    BY <1>6, <1>10, <2>3
<1>14. /\ handlers' = [handlers EXCEPT ![x] = 1]
       /\ next' = [next EXCEPT ![x] = caught[t]]
       /\ caught' = [caught EXCEPT ![t] = x]
       /\ uncaught' = [uncaught EXCEPT ![t] = @ - 1]
       /\ stack' = [stack EXCEPT ![t] = r]
       /\ UNCHANGED <<refs, object, ptr, dying, ended>>
  <2>1. CountsHandler(handlers[x]) = 1
    BY <1>12 DEF CountsHandler
  <2>2. handlers' = [handlers EXCEPT ![x] = CountsHandler(handlers[x])]
    BY <1>3 DEF BeginCatch
  <2> QED
    BY <1>3, <1>6, <1>7, <1>13, <2>1, <2>2 DEF BeginCatch, IsHead
<1>15. TypeOK'
  <2>1. Len(r) <= MaxDepth
    BY <1>2, <1>9, CxxExceptionsAssumption
  <2> QED
    BY <1>4, <1>9, <1>14, <2>1 DEF IInv, TypeOK
<1>16. StacksAreWellFormed' /\ HandlersAreCounted' /\ GlobalsMatchTheProgram'
  <2>1. SameBut(x, next, handlers, next', handlers') /\ next'[x] = caught[t] /\ handlers'[x] = 1
    BY <1>4, <1>14 DEF SameBut, IInv, TypeOK
  <2>2. ListOK(r, x, next', handlers')
    <3>1. PICK nx, h, k, g : nx = next /\ h = handlers /\ k = next' /\ g = handlers'
      OBVIOUS
    <3>2. PICK c : c = caught[t]
      OBVIOUS
    <3>3. ListOK(s, c, nx, h)
      BY <1>6, <1>8, <3>1, <3>2 DEF GlobalsFit
    <3>4. s \in Seq(Frames) /\ Len(s) = n + 1 /\ s[n + 1].kind # "handler"
      BY <1>2, <1>4, <1>6, <1>8, FrameIs DEF StackOK
    <3>5. SameBut(x, nx, h, k, g) /\ k[x] = c /\ g[x] = 1
      BY <2>1, <3>1, <3>2
    <3>6. ListOK(r, x, k, g)
      BY <1>4, <1>9, <1>10, <3>3, <3>4, <3>5, CatchLinks
    <3> QED
      BY <3>1, <3>6
  <2>3. caught'[t] = x
    BY <1>14 DEF IInv, TypeOK
  <2>4. uncaught'[t] = Cardinality(Flights(r))
    BY <1>6, <1>8, <1>10, <1>14 DEF GlobalsFit, IInv, TypeOK
  <2>5. \A u \in Thread : u # t => caught'[u] = caught[u] /\ uncaught'[u] = uncaught[u]
    BY <1>14 DEF IInv, TypeOK
  <2>6. StacksAreWellFormed /\ HandlersAreCounted
    BY DEF IInv
  <2>7. /\ \A y \in Exn : y # x /\ Handles(stack[t], y) => Handles(r, y)
        /\ \A y \in Exn : y # x /\ With(stack[t], y) = {} => With(r, y) = {}
        /\ ~Handles(r, x) => handlers'[x] = 0
        /\ \A u \in Thread : u # t => With(stack[u], x) = {}
    BY <1>6, <1>10, <1>11
  <2>8. ListOK(r, caught'[t], next', handlers')
    BY <2>2, <2>3
  <2>9. stack' = [stack EXCEPT ![t] = r] /\ SameBut(x, next, handlers, next', handlers')
    BY <1>14, <2>1
  <2>10. StackBecomes(t, r, x)
    BY <1>4, <1>8, <1>10, <2>4, <2>5, <2>6, <2>7, <2>8, <2>9 DEF StackBecomes
  <2> QED
    BY <1>4, <1>8, <2>6, <2>10, StackStep
<1>17. \A y \in Exn : Owners(y)' = Owners(y)
  <2>1. TAKE y \in Exn
  <2>2. FrameSet(y)' = FrameSet(y)
    <3>1. \A f \in Thread \X (1 .. MaxDepth) : f \in FrameSet(y)' <=> f \in FrameSet(y)
      <4>1. stack \in [Thread -> Seq(Frames)] /\ With(r, y) = With(stack[t], y)
        BY <1>6, <1>8, <1>10 DEF Stacked
      <4>2. \A f \in Thread \X (1 .. MaxDepth) :
              /\ f[1] # t => (f \in FrameSet(y)' <=> f \in FrameSet(y))
              /\ f[1] = t => /\ f \in FrameSet(y) <=> f[2] \in With(stack[t], y)
                             /\ f \in FrameSet(y)' <=> f[2] \in With(r, y)
        BY <1>14, <4>1, FramesChange
      <4> QED
        BY <4>1, <4>2
    <3> QED
      BY <3>1 DEF FrameSet
  <2>3. PtrSet(y)' = PtrSet(y)
    BY <1>14, PtrsStay
  <2> QED
    BY <2>2, <2>3, OwnersAre, OwnersAreNext
<1>18. ReferencesAreCounted' /\ LivesFollowReferences'
  BY <1>14, <1>17, OwnersStay
<1> QED
  BY <1>15, <1>16, <1>18 DEF IInv, HarmlessMemory

\* __cxa_end_catch for the innermost handler, which is not thrown out of.
LEMMA EndCatchIs ==
    ASSUME IInv, NEW t \in Thread, NEW x \in Exn, caught[t] = x, handlers[x] = 1,
           EndCatch(t, handlers)
    PROVE  /\ handlers' = [handlers EXCEPT ![x] = 0]
           /\ caught' = [caught EXCEPT ![t] = next[x]]
           /\ DecrementRefcount(t, x)
<1>1. x # None
  BY CxxExceptionsAssumption
<1>2. handlers' = [handlers EXCEPT ![x] = IF handlers[x] < 0 THEN handlers[x] + 1 ELSE handlers[x] - 1]
  BY <1>1 DEF EndCatch
<1>3. handlers' = [handlers EXCEPT ![x] = 0]
  BY <1>2
<1>4. handlers'[x] = 0
  BY <1>3 DEF IInv, TypeOK
<1> QED
  BY <1>1, <1>3, <1>4 DEF EndCatch, Releases

\* A handler of x is taken from the stack of t, which becomes r.
LEMMA EndPreserves ==
    ASSUME IInv, held' = held, NEW t \in Thread, dying[t] = None, NEW x \in Exn,
           NEW i \in DOMAIN stack[t], stack[t][i] = Frame("handler", x),
           NEW r, stack' = [stack EXCEPT ![t] = r], StackOK(r), Len(r) <= MaxDepth,
           EndCatch(t, handlers), caught[t] = x, handlers[x] = 1,
           UNCHANGED <<next, object, uncaught, ptr, ended>>,
           \A h : SameBut(x, next, handlers, next, h) => ListOK(r, next[x], next, h),
           Cardinality(Flights(r)) = Cardinality(Flights(stack[t])),
           \A y \in Exn : y # x /\ Handles(stack[t], y) => Handles(r, y),
           \A y \in Exn : y # x /\ With(stack[t], y) = {} => With(r, y) = {},
           \A y \in Exn : Cardinality(FrameSet(y)') + (IF y = x THEN 1 ELSE 0)
                              = Cardinality(FrameSet(y))
    PROVE  IInv'
<1>1. /\ handlers' = [handlers EXCEPT ![x] = 0]
      /\ caught' = [caught EXCEPT ![t] = next[x]]
      /\ DecrementRefcount(t, x)
  BY EndCatchIs
<1>2. Stacked /\ GlobalsFit
  BY StacksAre
<1>3. TypeOK'
  <2>1. stack' \in [Thread -> Seq(Frames)] /\ \A u \in Thread : Len(stack'[u]) <= MaxDepth
    BY DEF IInv, TypeOK, StackOK
  <2>2. refs' \in [Exn -> Int] /\ dying' \in [Thread -> Exn \cup {None}]
    BY <1>1, DecrementTypes DEF IInv
  <2>3. handlers' \in [Exn -> Int] /\ caught' \in [Thread -> Exn \cup {None}]
    BY <1>1 DEF IInv, TypeOK
  <2>4. /\ next' \in [Exn -> Exn \cup {None}]
        /\ object' \in [Exn -> {"none", "live", "deleted"}]
        /\ uncaught' \in [Thread -> Int] /\ ptr' \in [Ptr -> Exn \cup {None}]
        /\ ended' \in BOOLEAN /\ held' \in [Exn -> [refs : Int, handlers : Int]]
    BY DEF IInv, TypeOK
  <2> QED
    BY <2>1, <2>2, <2>3, <2>4 DEF TypeOK
<1>4. StacksAreWellFormed' /\ HandlersAreCounted' /\ GlobalsMatchTheProgram'
  <2>1. SameBut(x, next, handlers, next', handlers') /\ handlers'[x] = 0
    BY <1>1 DEF SameBut, IInv, TypeOK
  <2>2. ListOK(r, caught'[t], next', handlers')
    <3>1. SameBut(x, next, handlers, next, handlers')
      BY <2>1
    <3>2. ListOK(r, next[x], next, handlers')
      BY <3>1
    <3> QED
      BY <1>1, <3>2 DEF IInv, TypeOK
  <2>3. uncaught'[t] = Cardinality(Flights(r))
    BY <1>2 DEF GlobalsFit
  <2>4. \A u \in Thread : u # t => caught'[u] = caught[u] /\ uncaught'[u] = uncaught[u]
    BY <1>1 DEF IInv, TypeOK
  <2>5. StacksAreWellFormed /\ HandlersAreCounted
    BY DEF IInv
  <2>6. \A u \in Thread : u # t => With(stack[u], x) = {}
    BY OthersHaveNot, FrameIs, SMTT(30)
  <2>7. SameBut(x, next, handlers, next', handlers') /\ (~Handles(r, x) => handlers'[x] = 0)
    BY <2>1
  <2>8. /\ \A y \in Exn : y # x /\ Handles(stack[t], y) => Handles(r, y)
        /\ \A y \in Exn : y # x /\ With(stack[t], y) = {} => With(r, y) = {}
    OBVIOUS
  <2>10. StackBecomes(t, r, x)
    BY <1>2, <2>2, <2>3, <2>4, <2>5, <2>6, <2>7, <2>8 DEF StackBecomes
  <2> QED
    BY <1>2, <2>5, <2>10, StackStep
<1>5. \A y \in Exn : Owners(y)' = Owners(y) - (IF y = x THEN 1 ELSE 0)
  <2>1. TAKE y \in Exn
  <2>2. PtrSet(y)' = PtrSet(y)
    BY PtrsStay
  <2>3. /\ Owners(y) = Cardinality(FrameSet(y)) + Cardinality(PtrSet(y))
        /\ Cardinality(FrameSet(y)) \in Nat /\ Cardinality(PtrSet(y)) \in Nat
    BY OwnersAre
  <2>4. /\ Owners(y)' = Cardinality(FrameSet(y)') + Cardinality(PtrSet(y)')
        /\ Cardinality(FrameSet(y)') \in Nat
    BY OwnersAreNext
  <2>5. Cardinality(FrameSet(y)') + (IF y = x THEN 1 ELSE 0) = Cardinality(FrameSet(y))
    OBVIOUS
  <2> QED
    BY <2>2, <2>3, <2>4, <2>5
<1>6. Owners(x) > 0
  BY FramedIsOwned, FrameIs
<1>7. ReferencesAreCounted' /\ LivesFollowReferences'
  BY <1>1, <1>5, <1>6, Loses
<1> QED
  BY <1>3, <1>4, <1>7 DEF IInv, HarmlessMemory

LEMMA LeavePreserves ==
    ASSUME IInv, held' = held, NEW t \in Thread, LeaveHandler(t)
    PROVE  IInv'
<1>1. Top(t, 1).kind = "handler" /\ dying[t] = None
  BY DEF LeaveHandler, Runs
<1>2. PICK n \in Nat : /\ Len(stack[t]) = n + 1 /\ n + 1 \in 1 .. MaxDepth
                       /\ Top(t, 1) = stack[t][n + 1]
                       /\ stack[t][n + 1] \in Frames
  BY <1>1, TopOne
<1>3. PICK s : s = stack[t]
  OBVIOUS
<1>4. PICK x \in Exn : s[n + 1] = Frame("handler", x)
  BY <1>1, <1>2, <1>3, FrameOf
<1>5. PICK r : r = Below(s)
  OBVIOUS
<1>6. stack' = [stack EXCEPT ![t] = r] /\ EndCatch(t, handlers)
      /\ UNCHANGED <<next, object, uncaught, ptr, ended>>
  BY <1>3, <1>5 DEF LeaveHandler
<1>7. Stacked /\ GlobalsFit /\ StackOK(s) /\ s \in Seq(Frames) /\ Len(s) = n + 1
  BY <1>2, <1>3, StacksAre DEF StackOK
<1>8. r \in Seq(Frames) /\ Len(r) = n /\ \A i \in 1 .. n : r[i] = s[i]
  <2>1. Len(s) >= 1 /\ Len(s) - 1 = n
    BY <1>7
  <2> QED
    BY <1>5, <1>7, <2>1, BelowShape
<1>9. /\ StackOK(r)
      /\ \A i \in 1 .. n : s[i] # Frame("handler", x)
      /\ \A y \in Exn : \A i : i # n + 1 => (i \in With(r, y) <=> i \in With(s, y))
      /\ \A y \in Exn : (n + 1 \in With(s, y) <=> y = x) /\ n + 1 \notin With(r, y)
      /\ \A y \in Exn : Handles(s, y) /\ y # x => Handles(r, y)
      /\ Cardinality(Flights(r)) = Cardinality(Flights(s))
  BY <1>4, <1>7, <1>8, LeaveKeeps
<1>10. PICK c, nx, h : c = caught[t] /\ nx = next /\ h = handlers
  OBVIOUS
<1>11. ASSUME NEW g, SameBut(x, nx, h, nx, g)
       PROVE  c = x /\ h[x] = 1 /\ ListOK(r, nx[x], nx, g)
  <2>1. ListOK(s, c, nx, h)
    BY <1>3, <1>7, <1>10 DEF GlobalsFit
  <2>2. Len(s) \in {n + 1, n + 2} /\ (Len(s) = n + 2 => s[n + 2].kind # "handler")
    BY <1>7
  <2>3. Len(r) \in {n, n + 1, n + 2} /\ \A i \in n + 1 .. Len(r) : r[i].kind # "handler"
    BY <1>8
  <2>4. HandlerEnds(s, r, n, x)
    BY <1>4, <1>8, <1>9, <2>2, <2>3 DEF HandlerEnds
  <2> QED
    BY <1>7, <1>11, <2>1, <2>4, EndUnlinks
<1>12. caught[t] = x /\ handlers[x] = 1
  <2>1. SameBut(x, nx, h, nx, h)
    BY DEF SameBut
  <2> QED
    BY <1>10, <1>11, <2>1
<1>13. \A y \in Exn : Cardinality(FrameSet(y)') + (IF y = x THEN 1 ELSE 0)
                          = Cardinality(FrameSet(y))
  <2>1. TAKE y \in Exn
  <2>2. PICK m \in 1 .. MaxDepth : m = n + 1
    BY <1>2
  <2>3. \A i : i # m => (i \in With(r, y) <=> i \in With(stack[t], y))
    BY <1>3, <1>9, <2>2
  <2>4. stack \in [Thread -> Seq(Frames)]
    BY <1>7 DEF Stacked
  <2>5. Cardinality(FrameSet(y)') + In(m, With(stack[t], y))
            = Cardinality(FrameSet(y)) + In(m, With(r, y))
    BY <1>6, <2>3, <2>4, OneFrameChanges
  <2>6. In(m, With(stack[t], y)) = (IF y = x THEN 1 ELSE 0) /\ In(m, With(r, y)) = 0
    BY <1>3, <1>9, <2>2 DEF In
  <2>7. Cardinality(FrameSet(y)) \in Nat /\ Cardinality(FrameSet(y)') \in Nat
    BY OwnersAre, OwnersAreNext
  <2> QED
    BY <2>5, <2>6, <2>7
<1>14. Len(r) <= MaxDepth
  BY <1>2, <1>8, CxxExceptionsAssumption
<1>15. n + 1 \in DOMAIN stack[t] /\ stack[t][n + 1] = Frame("handler", x)
  BY <1>3, <1>4, <1>7
<1>16. \A g : SameBut(x, next, handlers, next, g) => ListOK(r, next[x], next, g)
  BY <1>10, <1>11
<1>17. /\ \A y \in Exn : y # x /\ Handles(stack[t], y) => Handles(r, y)
       /\ \A y \in Exn : y # x /\ With(stack[t], y) = {} => With(r, y) = {}
       /\ Cardinality(Flights(r)) = Cardinality(Flights(stack[t]))
  BY <1>3, <1>9
<1> QED
  BY <1>1, <1>6, <1>9, <1>12, <1>13, <1>14, <1>15, <1>16, <1>17, EndPreserves

\* The owners when the frames n + 1 and n + 2 of t are changed.
LEMMA TwoFrames ==
    ASSUME IInv, NEW t \in Thread, NEW r, stack' = [stack EXCEPT ![t] = r],
           NEW n \in Nat, n + 1 \in 1 .. MaxDepth, n + 2 \in 1 .. MaxDepth, NEW y,
           \A i : i # n + 1 /\ i # n + 2 => (i \in With(r, y) <=> i \in With(stack[t], y))
    PROVE  /\ Cardinality(FrameSet(y)) \in Nat /\ Cardinality(FrameSet(y)') \in Nat
           /\ Cardinality(FrameSet(y)') + In(n + 1, With(stack[t], y)) + In(n + 2, With(stack[t], y))
                 = Cardinality(FrameSet(y)) + In(n + 1, With(r, y)) + In(n + 2, With(r, y))
<1>1. PICK a \in 1 .. MaxDepth, b \in 1 .. MaxDepth : a = n + 1 /\ b = n + 2
  OBVIOUS
<1>2. a # b /\ \A i : i # a /\ i # b => (i \in With(r, y) <=> i \in With(stack[t], y))
  BY <1>1
<1>3. stack \in [Thread -> Seq(Frames)]
  BY StacksAre DEF Stacked
<1>4. Cardinality(FrameSet(y)') + In(a, With(stack[t], y)) + In(b, With(stack[t], y))
          = Cardinality(FrameSet(y)) + In(a, With(r, y)) + In(b, With(r, y))
  BY <1>2, <1>3, TwoFramesChange, ZenonT(30)
<1> QED
  BY <1>1, <1>4, OwnersAre, OwnersAreNext

LEMMA UnwindPreserves ==
    ASSUME IInv, held' = held, NEW t \in Thread, UnwindHandler(t)
    PROVE  IInv'
<1>1. /\ Top(t, 2).kind \in {"handler", "left"} /\ Top(t, 1).kind = "flight"
      /\ dying[t] = None
  BY DEF UnwindHandler, Propagates, Runs
<1>2. PICK n \in Nat :
          /\ Len(stack[t]) = n + 2 /\ n + 2 \in 1 .. MaxDepth /\ n + 1 \in 1 .. MaxDepth
          /\ Top(t, 1) = stack[t][n + 2] /\ Top(t, 2) = stack[t][n + 1]
          /\ stack[t][n + 1] \in Frames /\ stack[t][n + 2] \in Frames
  BY <1>1, TopTwo
<1>3. PICK s : s = stack[t]
  OBVIOUS
<1>4. PICK k \in {"handler", "left"}, x \in Exn, y \in Exn :
          s[n + 1] = Frame(k, x) /\ s[n + 2] = Frame("flight", y)
  BY <1>1, <1>2, <1>3, FrameOf
<1>5. PICK r : r = Append(Below(Below(s)), Frame("flight", y))
  OBVIOUS
<1>6. stack' = [stack EXCEPT ![t] = r] /\ EndCatch(t, handlers)
      /\ UNCHANGED <<next, object, uncaught, ptr, ended>>
  BY <1>2, <1>3, <1>4, <1>5 DEF UnwindHandler
<1>7. Stacked /\ GlobalsFit /\ StackOK(s) /\ s \in Seq(Frames) /\ Len(s) = n + 2
  BY <1>2, <1>3, StacksAre DEF StackOK
<1>8. /\ r \in Seq(Frames) /\ Len(r) = n + 1 /\ \A i \in 1 .. n : r[i] = s[i]
      /\ r[n + 1] = Frame("flight", y)
  <2>1. Len(s) >= 2 /\ Len(s) - 2 = n /\ Len(s) - 1 = n + 1 /\ Frame("flight", y) \in Frames
    BY <1>7 DEF Frame, Frames
  <2>2. /\ r \in Seq(Frames) /\ Len(r) = Len(s) - 1
        /\ \A i \in 1 .. Len(s) - 2 : r[i] = s[i]
        /\ r[Len(s) - 1] = Frame("flight", y)
    BY <1>5, <1>7, <2>1, UnwindShape
  <2> QED
    BY <2>1, <2>2
<1>9. /\ StackOK(r)
      /\ k = "handler" => \A i \in 1 .. n : s[i] # Frame("handler", x)
      /\ k = "left" => y = x /\ \A i \in 1 .. n : s[i].kind # "handler"
      /\ \A z \in Exn : \A i : i # n + 1 /\ i # n + 2 =>
             (i \in With(r, z) <=> i \in With(s, z))
      /\ \A z \in Exn : /\ n + 1 \in With(s, z) <=> k = "handler" /\ z = x
                        /\ n + 2 \in With(s, z) <=> z = y
                        /\ n + 1 \in With(r, z) <=> z = y
                        /\ n + 2 \notin With(r, z)
      /\ \A z \in Exn : Handles(s, z) /\ ~(k = "handler" /\ z = x) => Handles(r, z)
      /\ Cardinality(Flights(r)) = Cardinality(Flights(s))
  BY <1>4, <1>7, <1>8, UnwindKeeps
<1>10. PICK c, nx, h : c = caught[t] /\ nx = next /\ h = handlers
  OBVIOUS
<1>11. ListOK(s, c, nx, h)
  BY <1>3, <1>7, <1>10 DEF GlobalsFit
<1>12. Len(r) <= MaxDepth
  BY <1>2, <1>8, CxxExceptionsAssumption
<1>13. \A z \in Exn :
          /\ Cardinality(FrameSet(z)) \in Nat /\ Cardinality(FrameSet(z)') \in Nat
          /\ Cardinality(FrameSet(z)') + (IF k = "handler" /\ z = x THEN 1 ELSE 0)
                 = Cardinality(FrameSet(z))
  <2>1. TAKE z \in Exn
  <2>2. \A i : i # n + 1 /\ i # n + 2 => (i \in With(r, z) <=> i \in With(stack[t], z))
    BY <1>3, <1>9
  <2>3. /\ Cardinality(FrameSet(z)) \in Nat /\ Cardinality(FrameSet(z)') \in Nat
        /\ Cardinality(FrameSet(z)') + In(n + 1, With(stack[t], z)) + In(n + 2, With(stack[t], z))
              = Cardinality(FrameSet(z)) + In(n + 1, With(r, z)) + In(n + 2, With(r, z))
    BY <1>2, <1>6, <2>2, TwoFrames, ZenonT(30)
  <2>4. /\ In(n + 1, With(stack[t], z)) = IF k = "handler" /\ z = x THEN 1 ELSE 0
        /\ In(n + 2, With(stack[t], z)) = IF z = y THEN 1 ELSE 0
        /\ In(n + 1, With(r, z)) = IF z = y THEN 1 ELSE 0
        /\ In(n + 2, With(r, z)) = 0
    BY <1>3, <1>9 DEF In
  <2> QED
    BY <2>3, <2>4
<1>14. \A z \in Exn : ~(k = "handler" /\ z = x) /\ With(stack[t], z) = {} => With(r, z) = {}
  <2>1. SUFFICES ASSUME NEW z \in Exn, With(s, z) = {}, NEW i \in With(r, z)
                 PROVE  FALSE
    BY <1>3
  <2>2. CASE i = n + 1 \/ i = n + 2
    BY <1>9, <2>1, <2>2
  <2>3. CASE i # n + 1 /\ i # n + 2
    BY <1>9, <2>1, <2>3
  <2> QED
    BY <2>2, <2>3
<1>15. CASE k = "handler"
  <2>1. ASSUME NEW g, SameBut(x, nx, h, nx, g)
        PROVE  c = x /\ h[x] = 1 /\ ListOK(r, nx[x], nx, g)
    <3>1. /\ Len(s) \in {n + 1, n + 2} /\ (Len(s) = n + 2 => s[n + 2].kind # "handler")
          /\ s[n + 1] = Frame("handler", x)
      BY <1>4, <1>7, <1>15, FrameIs
    <3>2. Len(r) \in {n, n + 1, n + 2} /\ \A i \in n + 1 .. Len(r) : r[i].kind # "handler"
      <4>1. \A i \in n + 1 .. Len(r) : i = n + 1
        BY <1>8
      <4> QED
        BY <1>8, <4>1, FrameIs
    <3>3. \A i \in 1 .. n : s[i] # Frame("handler", x)
      BY <1>9, <1>15
    <3>4. HandlerEnds(s, r, n, x)
      BY <1>8, <3>1, <3>2, <3>3 DEF HandlerEnds
    <3> QED
      BY <1>7, <1>11, <2>1, <3>4, EndUnlinks
  <2>2. caught[t] = x /\ handlers[x] = 1
    <3>1. SameBut(x, nx, h, nx, h)
      BY DEF SameBut
    <3> QED
      BY <1>10, <2>1, <3>1
  <2>3. n + 1 \in DOMAIN stack[t] /\ stack[t][n + 1] = Frame("handler", x)
    BY <1>3, <1>4, <1>7, <1>15
  <2>4. \A g : SameBut(x, next, handlers, next, g) => ListOK(r, next[x], next, g)
    BY <1>10, <2>1
  <2>5. /\ \A z \in Exn : z # x /\ Handles(stack[t], z) => Handles(r, z)
        /\ \A z \in Exn : z # x /\ With(stack[t], z) = {} => With(r, z) = {}
        /\ Cardinality(Flights(r)) = Cardinality(Flights(stack[t]))
        /\ \A z \in Exn : Cardinality(FrameSet(z)') + (IF z = x THEN 1 ELSE 0)
                              = Cardinality(FrameSet(z))
    BY <1>3, <1>9, <1>13, <1>14, <1>15
  <2> QED
    BY <1>1, <1>6, <1>9, <1>12, <2>2, <2>3, <2>4, <2>5, EndPreserves
<1>16. CASE k = "left"
  <2>1. c = None /\ ListOK(r, c, nx, h)
    <3>1. \A i \in 1 .. n + 2 : s[i].kind # "handler"
      <4>1. \A i \in 1 .. n + 2 : i \in 1 .. n \/ i = n + 1 \/ i = n + 2
        OBVIOUS
      <4> QED
        BY <1>4, <1>9, <1>16, <4>1, FrameIs
    <3>2. \A i \in 1 .. n + 1 : r[i].kind # "handler"
      <4>1. \A i \in 1 .. n + 1 : i \in 1 .. n \/ i = n + 1
        OBVIOUS
      <4> QED
        BY <1>8, <1>9, <1>16, <4>1, FrameIs
    <3> QED
      BY <1>7, <1>8, <1>11, <3>1, <3>2, LeftUnlinks
  <2>2. UNCHANGED <<handlers, refs, caught, dying>>
    BY <1>6, <1>10, <2>1 DEF EndCatch
  <2>3. TypeOK'
    <3>1. stack' \in [Thread -> Seq(Frames)] /\ \A u \in Thread : Len(stack'[u]) <= MaxDepth
      BY <1>6, <1>8, <1>12 DEF IInv, TypeOK
    <3> QED
      BY <1>6, <2>2, <3>1 DEF IInv, TypeOK
  <2>4. StacksAreWellFormed' /\ HandlersAreCounted' /\ GlobalsMatchTheProgram'
    <3>1. SameBut(y, next, handlers, next', handlers')
      BY <1>6, <2>2 DEF SameBut
    <3>2. ListOK(r, caught'[t], next', handlers')
      BY <1>6, <1>10, <2>1, <2>2
    <3>3. uncaught'[t] = Cardinality(Flights(r))
      BY <1>3, <1>6, <1>7, <1>9 DEF GlobalsFit
    <3>4. \A u \in Thread : u # t => With(stack[u], y) = {} /\ ~Handles(stack[u], y)
      <4>1. PICK i \in DOMAIN stack[t] : stack[t][i] = Frame("flight", y)
        <5>1. n + 2 \in DOMAIN stack[t] /\ stack[t][n + 2] = Frame("flight", y)
          BY <1>3, <1>4, <1>7
        <5> QED
          BY <5>1
      <4>2. stack[t][i].kind # "left" /\ stack[t][i].exn = y
        BY <4>1, FrameIs
      <4> QED
        BY <4>2, OthersHaveNot
    <3>5. /\ \A z \in Exn : Handles(stack[t], z) => Handles(r, z)
          /\ \A z \in Exn : With(stack[t], z) = {} => With(r, z) = {}
      BY <1>3, <1>9, <1>14, <1>16
    <3>6. ~Handles(r, y) => handlers'[y] = 0
      BY <2>2, <3>4, <3>5 DEF IInv, HandlersAreCounted
    <3>7. StackBecomes(t, r, y)
      BY <1>6, <1>9, <2>2, <3>1, <3>2, <3>3, <3>4, <3>5, <3>6 DEF StackBecomes
    <3> QED
      BY <1>7, <3>7, StackStep DEF IInv
  <2>5. \A z \in Exn : Owners(z)' = Owners(z)
    <3>1. TAKE z \in Exn
    <3>2. Cardinality(FrameSet(z)') = Cardinality(FrameSet(z))
      BY <1>13, <1>16
    <3>3. PtrSet(z)' = PtrSet(z)
      BY <1>6, PtrsStay
    <3> QED
      BY <3>2, <3>3, OwnersAre, OwnersAreNext
  <2>6. ReferencesAreCounted' /\ LivesFollowReferences'
    BY <1>6, <2>2, <2>5, OwnersStay
  <2> QED
    BY <2>3, <2>4, <2>6 DEF IInv, HarmlessMemory
<1> QED
  BY <1>15, <1>16

LEMMA RethrowPreserves ==
    ASSUME ~AnyProgram, IInv, held' = held, NEW t \in Thread, Rethrow(t)
    PROVE  IInv'
<1>1. /\ Top(t, 1).kind = "handler"
      /\ FramesOf(t, "handler") = {Len(stack[t])}
      /\ Len(stack[t]) < MaxDepth
  BY DEF Rethrow, CarefulRethrow
<1>2. PICK n \in Nat : /\ Len(stack[t]) = n + 1 /\ n + 1 \in 1 .. MaxDepth
                       /\ Top(t, 1) = stack[t][n + 1]
                       /\ stack[t][n + 1] \in Frames
  BY <1>1, TopOne
<1>3. PICK s : s = stack[t]
  OBVIOUS
<1>4. PICK x \in Exn : s[n + 1] = Frame("handler", x)
  BY <1>1, <1>2, <1>3, FrameOf
<1>5. PICK r : r = Below(s) \o <<Frame("left", x), Frame("flight", x)>>
  OBVIOUS
<1>6. Stacked /\ GlobalsFit /\ StackOK(s) /\ s \in Seq(Frames) /\ Len(s) = n + 1
  BY <1>2, <1>3, StacksAre DEF StackOK
<1>7. \A i \in 1 .. n : s[i].kind # "handler"
  <2>1. SUFFICES ASSUME NEW i \in 1 .. n, s[i].kind = "handler"
                 PROVE  FALSE
    OBVIOUS
  <2>2. i \in FramesOf(t, "handler")
    BY <1>3, <1>6, <2>1 DEF FramesOf
  <2> QED
    BY <1>1, <1>2, <2>2
<1>8. /\ r \in Seq(Frames) /\ Len(r) = n + 2 /\ \A i \in 1 .. n : r[i] = s[i]
      /\ r[n + 1] = Frame("left", x) /\ r[n + 2] = Frame("flight", x)
  <2>1. /\ Len(s) >= 1 /\ Len(s) - 1 = n /\ Len(s) + 1 = n + 2
        /\ Frame("left", x) \in Frames /\ Frame("flight", x) \in Frames
    BY <1>6 DEF Frame, Frames
  <2>2. PICK f \in Frames, g \in Frames : f = Frame("left", x) /\ g = Frame("flight", x)
    BY <2>1
  <2>3. r = TwoAbove(s, f, g)
    BY <1>5, <2>2 DEF TwoAbove
  <2>4. /\ r \in Seq(Frames) /\ Len(r) = Len(s) + 1
        /\ \A i \in 1 .. Len(s) - 1 : r[i] = s[i]
        /\ r[Len(s)] = f /\ r[Len(s) + 1] = g
    <3>1. s \in Seq(Frames) /\ Len(s) >= 1
      BY <1>6
    <3> QED
      BY <2>3, <3>1, RethrowShape
  <2>5. \A i \in 1 .. n : i \in 1 .. Len(s) - 1
    BY <1>6
  <2>6. Len(s) + 1 = n + 2 /\ Len(s) = n + 1
    BY <1>6
  <2> QED
    BY <2>2, <2>4, <2>5, <2>6
<1>9. /\ StackOK(r)
      /\ \A z \in Exn : \A i : i # n + 1 /\ i # n + 2 =>
             (i \in With(r, z) <=> i \in With(s, z))
      /\ \A z \in Exn : /\ n + 1 \in With(s, z) <=> z = x
                        /\ n + 2 \notin With(s, z)
                        /\ n + 1 \notin With(r, z)
                        /\ n + 2 \in With(r, z) <=> z = x
      /\ \A z \in Exn : Handles(s, z) => z = x
      /\ \A i \in 1 .. n + 2 : r[i].kind # "handler"
      /\ Cardinality(Flights(r)) = Cardinality(Flights(s)) + 1
  BY <1>4, <1>6, <1>7, <1>8, RethrowKeeps
<1>10. PICK c, nx, h : c = caught[t] /\ nx = next /\ h = handlers
  OBVIOUS
<1>11. ASSUME NEW g, SameBut(x, nx, h, nx, g)
       PROVE  c = x /\ h[x] = 1 /\ ListOK(r, nx[x], nx, g)
  <2>1. ListOK(s, c, nx, h)
    BY <1>3, <1>6, <1>10 DEF GlobalsFit
  <2>2. Len(s) \in {n + 1, n + 2} /\ (Len(s) = n + 2 => s[n + 2].kind # "handler")
    BY <1>6
  <2>3. Len(r) \in {n, n + 1, n + 2} /\ \A i \in n + 1 .. Len(r) : r[i].kind # "handler"
    BY <1>8, <1>9
  <2>4. HandlerEnds(s, r, n, x)
    BY <1>4, <1>7, <1>8, <2>2, <2>3, FrameIs DEF HandlerEnds
  <2> QED
    BY <1>6, <1>11, <2>1, <2>4, EndUnlinks
<1>12. caught[t] = x /\ handlers[x] = 1
  <2>1. SameBut(x, nx, h, nx, h)
    BY DEF SameBut
  <2> QED
    BY <1>10, <1>11, <2>1
<1>13. /\ stack' = [stack EXCEPT ![t] = r]
       /\ EndCatch(t, Rethrown(x))
       /\ uncaught' = [uncaught EXCEPT ![t] = @ + 1]
       /\ UNCHANGED <<next, object, ptr, ended>>
  <2>1. Top(t, 1).exn = x
    BY <1>2, <1>3, <1>4, FrameIs
  <2> QED
    BY <1>3, <1>5, <1>12, <2>1 DEF Rethrow
<1>14. /\ handlers' = [handlers EXCEPT ![x] = 0]
       /\ caught' = [caught EXCEPT ![t] = next[x]]
       /\ UNCHANGED <<refs, dying>>
  <2>1. x # None
    BY CxxExceptionsAssumption
  <2>2. Rethrown(x) = [handlers EXCEPT ![x] = -1] /\ Rethrown(x)[x] = -1
    BY <1>12 DEF Rethrown, IInv, TypeOK
  <2>3. handlers' = [Rethrown(x) EXCEPT ![x] = IF Rethrown(x)[x] < 0 THEN Rethrown(x)[x] + 1
                                               ELSE Rethrown(x)[x] - 1]
    BY <1>12, <1>13, <2>1 DEF EndCatch
  <2>4. handlers' = [handlers EXCEPT ![x] = 0]
    <3>1. handlers' = [[handlers EXCEPT ![x] = -1] EXCEPT ![x] = 0]
      BY <2>2, <2>3
    <3> QED
      BY <3>1 DEF IInv, TypeOK
  <2>5. handlers'[x] = 0
    BY <2>4 DEF IInv, TypeOK
  <2>6. caught' = [caught EXCEPT ![t] = next[x]]
    BY <1>12, <1>13, <2>1, <2>5 DEF EndCatch
  <2>7. UNCHANGED <<refs, dying>>
    BY <1>12, <1>13, <2>1, <2>2 DEF EndCatch, Releases
  <2> QED
    BY <2>4, <2>6, <2>7
<1>15. n + 2 \in 1 .. MaxDepth
  BY <1>1, <1>2, CxxExceptionsAssumption
<1>16. TypeOK'
  <2>1. stack' \in [Thread -> Seq(Frames)] /\ \A u \in Thread : Len(stack'[u]) <= MaxDepth
    BY <1>8, <1>13, <1>15 DEF IInv, TypeOK
  <2>2. handlers' \in [Exn -> Int] /\ caught' \in [Thread -> Exn \cup {None}]
    BY <1>14 DEF IInv, TypeOK
  <2>3. /\ next' \in [Exn -> Exn \cup {None}]
        /\ object' \in [Exn -> {"none", "live", "deleted"}]
        /\ uncaught' \in [Thread -> Int] /\ ptr' \in [Ptr -> Exn \cup {None}]
        /\ ended' \in BOOLEAN
        /\ refs' \in [Exn -> Int] /\ dying' \in [Thread -> Exn \cup {None}]
        /\ held' \in [Exn -> [refs : Int, handlers : Int]]
    BY <1>13, <1>14 DEF IInv, TypeOK
  <2> QED
    BY <2>1, <2>2, <2>3 DEF TypeOK
<1>17. StacksAreWellFormed' /\ HandlersAreCounted' /\ GlobalsMatchTheProgram'
  <2>1. SameBut(x, next, handlers, next', handlers') /\ handlers'[x] = 0
    BY <1>13, <1>14 DEF SameBut, IInv, TypeOK
  <2>2. ListOK(r, caught'[t], next', handlers')
    <3>1. SameBut(x, nx, h, nx, handlers')
      BY <1>10, <1>13, <2>1
    <3>2. ListOK(r, nx[x], nx, handlers')
      BY <1>11, <3>1
    <3> QED
      BY <1>10, <1>13, <1>14, <3>2 DEF IInv, TypeOK
  <2>3. uncaught'[t] = Cardinality(Flights(r))
    BY <1>3, <1>6, <1>9, <1>13 DEF GlobalsFit, IInv, TypeOK
  <2>4. \A u \in Thread : u # t =>
            /\ caught'[u] = caught[u] /\ uncaught'[u] = uncaught[u]
            /\ With(stack[u], x) = {}
    <3>1. PICK i \in DOMAIN stack[t] : stack[t][i] = Frame("handler", x)
      <4>1. n + 1 \in DOMAIN stack[t] /\ stack[t][n + 1] = Frame("handler", x)
        BY <1>3, <1>4, <1>6
      <4> QED
        BY <4>1
    <3>2. \A u \in Thread : u # t => With(stack[u], x) = {}
      BY <3>1, OthersHaveNot, FrameIs
    <3> QED
      BY <1>13, <1>14, <3>2 DEF IInv, TypeOK
  <2>5. \A z \in Exn : z # x =>
            /\ With(stack[t], z) = {} => With(r, z) = {}
            /\ Handles(stack[t], z) => Handles(r, z)
    <3>1. SUFFICES ASSUME NEW z \in Exn, z # x
                   PROVE  /\ With(s, z) = {} => With(r, z) = {}
                          /\ Handles(s, z) => Handles(r, z)
      BY <1>3
    <3>2. \A i : i \in With(r, z) <=> i \in With(s, z)
      BY <1>9, <3>1
    <3> QED
      BY <1>9, <3>1, <3>2
  <2>6. StackBecomes(t, r, x)
    BY <1>9, <1>13, <2>1, <2>2, <2>3, <2>4, <2>5 DEF StackBecomes
  <2> QED
    BY <1>6, <2>6, StackStep DEF IInv
<1>18. \A z \in Exn : Owners(z)' = Owners(z)
  <2>1. TAKE z \in Exn
  <2>2. \A i : i # n + 1 /\ i # n + 2 => (i \in With(r, z) <=> i \in With(stack[t], z))
    BY <1>3, <1>9
  <2>3. stack' = [stack EXCEPT ![t] = r]
    BY <1>13
  <2>4. /\ Cardinality(FrameSet(z)) \in Nat /\ Cardinality(FrameSet(z)') \in Nat
        /\ Cardinality(FrameSet(z)') + In(n + 1, With(stack[t], z)) + In(n + 2, With(stack[t], z))
              = Cardinality(FrameSet(z)) + In(n + 1, With(r, z)) + In(n + 2, With(r, z))
    BY <1>2, <1>15, <2>2, <2>3, TwoFrames
  <2>5. /\ In(n + 1, With(stack[t], z)) = IF z = x THEN 1 ELSE 0
        /\ In(n + 2, With(stack[t], z)) = 0
        /\ In(n + 1, With(r, z)) = 0
        /\ In(n + 2, With(r, z)) = IF z = x THEN 1 ELSE 0
    BY <1>3, <1>9 DEF In
  <2>6. Cardinality(FrameSet(z)') = Cardinality(FrameSet(z))
    BY <2>4, <2>5
  <2>7. PtrSet(z)' = PtrSet(z)
    BY <1>13, PtrsStay
  <2> QED
    BY <2>6, <2>7, OwnersAre, OwnersAreNext
<1>19. ReferencesAreCounted' /\ LivesFollowReferences'
  BY <1>13, <1>14, <1>18, OwnersStay
<1> QED
  BY <1>16, <1>17, <1>19 DEF IInv, HarmlessMemory

-----------------------------------------------------------------------------
(* The theorems *)

LEMMA InitEstablishes == Init => (HarmlessMemory => IInv)
<1> SUFFICES ASSUME Init, HarmlessMemory
             PROVE  IInv
  OBVIOUS
<1>0. held \in [Exn -> [refs : Int, handlers : Int]]
  BY CxxExceptionsAssumption DEF Init
<1>1. /\ \A t \in Thread : stack[t] = <<>> /\ caught[t] = None /\ uncaught[t] = 0 /\ dying[t] = None
      /\ \A x \in Exn : refs[x] = held[x].refs /\ handlers[x] = 0 /\ object[x] = "none"
      /\ \A p \in Ptr : ptr[p] = None
  BY DEF Init, HarmlessMemory
<1>2. TypeOK
  <2>1. <<>> \in Seq(Frames) /\ Len(<<>>) = 0 /\ 0 <= MaxDepth
    BY CxxExceptionsAssumption
  <2>2. stack \in [Thread -> Seq(Frames)]
    BY <2>1 DEF Init
  <2>3. \A t \in Thread : Len(stack[t]) <= MaxDepth
    BY <1>1, <2>1
  <2>4. /\ refs \in [Exn -> Int] /\ handlers \in [Exn -> Int]
        /\ uncaught \in [Thread -> Int]
    BY <1>0 DEF Init
  <2>6. object \in [Exn -> {"none", "live", "deleted"}]
    BY DEF Init
  <2>7. ended \in BOOLEAN
    BY DEF Init
  <2>5. /\ next \in [Exn -> Exn \cup {None}]
        /\ caught \in [Thread -> Exn \cup {None}]
        /\ ptr \in [Ptr -> Exn \cup {None}]
        /\ dying \in [Thread -> Exn \cup {None}]
    BY DEF Init
  <2> QED
    BY <1>0, <2>2, <2>3, <2>4, <2>5, <2>6, <2>7 DEF TypeOK
<1>3. \A t \in Thread : DOMAIN stack[t] = {} /\ Len(stack[t]) = 0
  BY <1>1
<1>4. StacksAreWellFormed
  BY <1>3 DEF StacksAreWellFormed, Alternate, LeftIsOutermost, With
<1>5. HandlersAreCounted
  BY <1>1 DEF HandlersAreCounted
<1>6. GlobalsMatchTheProgram
  <2>1. \A t \in Thread, k \in {"handler", "flight"} : FramesOf(t, k) = {}
    BY <1>3 DEF FramesOf
  <2>2. \A t \in Thread : Innermost(stack[t], 0, None)
    BY DEF Innermost
  <2> QED
    BY <1>1, <1>3, <2>1, <2>2, FS_EmptySet DEF GlobalsMatchTheProgram
<1>7. \A x \in Exn : Owners(x) = 0
  <2>1. \A x \in Exn : FrameSet(x) = {} /\ PtrSet(x) = {}
    BY <1>1, <1>3, CxxExceptionsAssumption DEF FrameSet, FramesWith, PtrSet
  <2> QED
    BY <2>1, OwnersAre, FS_EmptySet
<1>8. ReferencesAreCounted
  <2>1. \A x \in Exn : refs[x] = held[x].refs + Owners(x)
    BY <1>0, <1>1, <1>7
  <2> QED
    BY <1>1, <2>1 DEF ReferencesAreCounted
<1>9. LivesFollowReferences
  BY <1>1, <1>7 DEF LivesFollowReferences
<1> QED
  BY <1>2, <1>4, <1>5, <1>6, <1>8, <1>9 DEF IInv

LEMMA MemoryStays == [Next]_vars => held' = held
BY DEF Next, vars

LEMMA NextPreserves == ~AnyProgram /\ IInv /\ [Next]_vars => IInv'
<1> SUFFICES ASSUME ~AnyProgram, IInv, [Next]_vars
             PROVE  IInv'
  OBVIOUS
<1>0. held' = held
  BY MemoryStays
<1>1. CASE UNCHANGED vars
  <2>1. ended' \in BOOLEAN
    BY <1>1 DEF vars, IInv, TypeOK
  <2> QED
    BY <1>0, <1>1, <2>1, OnlyTheEnd DEF vars, header, globals
<1>2. CASE Next
  <2>1. PICK t \in Thread :
        \/ DeleteException(t)
        \/ \E x \in Exn : Throw(t, x)
        \/ BeginCatch(t)
        \/ LeaveHandler(t)
        \/ UnwindHandler(t)
        \/ Rethrow(t)
        \/ Terminate(t)
        \/ \E p \in Ptr, x \in Exn : MakePtr(t, p, x)
        \/ \E p \in Ptr : CurrentException(t, p) \/ ResetPtr(t, p) \/ ThrowPtr(t, p)
        \/ \E p, q \in Ptr : CopyPtr(t, p, q) \/ MovePtr(t, p, q)
    BY <1>2 DEF Next
  <2>2. CASE DeleteException(t)
    BY <1>0, <2>2, DeletePreserves
  <2>3. CASE \E x \in Exn : Throw(t, x)
    BY <1>0, <2>3, ThrowPreserves
  <2>4. CASE BeginCatch(t)
    BY <1>0, <2>4, BeginCatchPreserves
  <2>5. CASE LeaveHandler(t)
    BY <1>0, <2>5, LeavePreserves
  <2>6. CASE UnwindHandler(t)
    BY <1>0, <2>6, UnwindPreserves
  <2>7. CASE Rethrow(t)
    BY <1>0, <2>7, RethrowPreserves
  <2>8. CASE Terminate(t)
    BY <1>0, <2>8, OnlyTheEnd DEF Terminate, header, globals
  <2>9. CASE \E p \in Ptr, x \in Exn : MakePtr(t, p, x)
    BY <1>0, <2>9, MakePtrPreserves
  <2>10. CASE \E p \in Ptr : CurrentException(t, p) \/ ResetPtr(t, p) \/ ThrowPtr(t, p)
    BY <1>0, <2>10, CurrentExceptionPreserves, ResetPtrPreserves, ThrowPtrPreserves
  <2>11. CASE \E p, q \in Ptr : CopyPtr(t, p, q) \/ MovePtr(t, p, q)
    BY <1>0, <2>11, CopyPtrPreserves, MovePtrPreserves
  <2> QED
    BY <2>1, <2>2, <2>3, <2>4, <2>5, <2>6, <2>7, <2>8, <2>9, <2>10, <2>11
<1> QED
  BY <1>1, <1>2

\* The inductive invariant holds in every state of a program that is Careful,
\* whatever reference counts the memory of its exceptions held.
THEOREM CxxExceptionsInvariance == ~AnyProgram => (Spec => [](HarmlessMemory => IInv))
<1> SUFFICES ASSUME ~AnyProgram
             PROVE  Spec => [](HarmlessMemory => IInv)
  OBVIOUS
<1>1. Init => (HarmlessMemory => IInv)
  BY InitEstablishes
<1>2. (HarmlessMemory => IInv) /\ [Next]_vars => (HarmlessMemory => IInv)'
  <2>1. [Next]_vars /\ HarmlessMemory' => HarmlessMemory
    BY MemoryStays DEF HarmlessMemory
  <2> QED
    BY <2>1, NextPreserves
<1> QED
  BY <1>1, <1>2, PTL DEF Spec

\* referenceCount is what the memory held and the handlers, the flights and the
\* exception_ptrs of an exception, and nothing that has lost its last reference
\* is forgotten.
THEOREM CxxExceptionsReferences == ~AnyProgram => (Spec => []ReferencesAreCounted)
<1> SUFFICES ASSUME ~AnyProgram
             PROVE  Spec => []ReferencesAreCounted
  OBVIOUS
<1>1. (HarmlessMemory => IInv) => ReferencesAreCounted
  BY DEF IInv, ReferencesAreCounted
<1>2. Spec => [](HarmlessMemory => IInv)
  BY CxxExceptionsInvariance
<1> QED
  BY <1>1, <1>2, PTL

\* caughtExceptions and nextException link the handlers of the thread, the
\* innermost first; handlerCount and uncaughtExceptions agree with them.
THEOREM CxxExceptionsGlobals == ~AnyProgram => (Spec => []GlobalsMatchTheProgram)
<1> SUFFICES ASSUME ~AnyProgram
             PROVE  Spec => []GlobalsMatchTheProgram
  OBVIOUS
<1>1. (HarmlessMemory => IInv) => GlobalsMatchTheProgram
  BY DEF IInv, GlobalsMatchTheProgram
<1>2. Spec => [](HarmlessMemory => IInv)
  BY CxxExceptionsInvariance
<1> QED
  BY <1>1, <1>2, PTL
-----------------------------------------------------------------------------
(* The owners of an exception *)

\* The owners of an exception are the references that its memory did not hold.
Owned ==
    \A x \in Exn : /\ held[x].refs \in Int /\ refs[x] \in Int
                  /\ Owners(x) = refs[x] - held[x].refs
                  /\ held[x].refs >= 0 /\ Owners(x) >= 0

LEMMA OwnersAreRefs == IInv => Owned
<1> SUFFICES ASSUME IInv, NEW x \in Exn
             PROVE  /\ held[x].refs \in Int /\ refs[x] \in Int
                    /\ Owners(x) = refs[x] - held[x].refs
                    /\ held[x].refs >= 0 /\ Owners(x) >= 0
  BY DEF Owned
<1>1. held[x].refs \in Int /\ refs[x] \in Int /\ held[x].refs >= 0
  BY DEF IInv, TypeOK, HarmlessMemory
<1>2. refs[x] = held[x].refs + Owners(x)
  BY DEF IInv, ReferencesAreCounted
<1>3. Owners(x) \in Nat
  BY OwnersAreNat
<1> QED
  BY <1>1, <1>2, <1>3

LEMMA OwnersAreRefsNext == IInv' => Owned'
BY OwnersAreRefs, PTL

LEMMA CaughtIsOwned ==
    ASSUME IInv, NEW t \in Thread, caught[t] # None
    PROVE  caught[t] \in Exn /\ Owners(caught[t]) > 0
<1>1. PICK i \in DOMAIN stack[t] : stack[t][i] = Frame("handler", caught[t])
  BY CaughtIsHandled
<1>2. caught[t] \in Exn
  BY CaughtIsHandled
<1>3. stack[t][i].kind # "left" /\ stack[t][i].exn = caught[t]
  BY <1>1, FrameIs
<1> QED
  BY <1>2, <1>3, FramedIsOwned

Counted == [x \in Exn |-> Owners(x)]

\* Every exception has owners, who are its handlers, flights and exception_ptrs:
\* only an owner makes another one, and it is deleted once, by the decrement of
\* referenceCount that finds no other.
THEOREM CxxExceptionsImplementsOwnership == ~AnyProgram => (Spec => ImplementsOwnership)
<1> SUFFICES ASSUME ~AnyProgram
             PROVE  Spec => ImplementsOwnership
  OBVIOUS
<1>1. Init => Ownership!Init
  <2> SUFFICES ASSUME Init
               PROVE  Ownership!Init
    OBVIOUS
  <2>1. \A x \in Exn : FrameSet(x) = {} /\ PtrSet(x) = {}
    <3>1. /\ \A t \in Thread : DOMAIN stack[t] = {}
          /\ \A p \in Ptr : ptr[p] = None
      BY DEF Init
    <3> QED
      BY <3>1, CxxExceptionsAssumption DEF FrameSet, FramesWith, PtrSet
  <2>2. \A x \in Exn : Owners(x) = 0
    BY <2>1, OwnersAre, FS_EmptySet
  <2> QED
    BY <2>2 DEF Init, Ownership!Init
<1>2. ASSUME IInv, IInv', [Next]_vars
      PROVE  [Ownership!Next]_(Ownership!vars)
  <2>0. /\ \A x \in Exn : /\ Owners(x) = refs[x] - held[x].refs
                           /\ Owners(x)' = refs'[x] - held[x].refs
                           /\ held[x].refs \in Int /\ refs[x] \in Int /\ held[x].refs >= 0
        /\ refs \in [Exn -> Int]
    BY <1>2, OwnersAreRefs, OwnersAreRefsNext, MemoryStays DEF Owned, IInv, TypeOK
  <2>1. /\ Counted = [x \in Exn |-> Owners(x)] /\ Counted' = [x \in Exn |-> Owners(x)]'
        /\ DOMAIN Counted = Exn /\ DOMAIN Counted' = Exn
        /\ \A x \in Exn : Counted[x] = refs[x] - held[x].refs
        /\ \A x \in Exn : Counted'[x] = refs'[x] - held[x].refs
    BY <2>0 DEF Counted
  <2>2. CASE UNCHANGED <<refs, object>>
    <3>1. \A x \in Exn : Counted'[x] = Counted[x]
      BY <2>1, <2>2
    <3>2. Counted' = Counted
      BY <2>1, <3>1 DEF Counted
    <3> QED
      BY <2>1, <2>2, <3>2 DEF Ownership!vars
  <2>3. ASSUME NEW x \in Exn, object[x] = "none",
               refs' = [refs EXCEPT ![x] = @ + 1],
               object' = [object EXCEPT ![x] = "live"]
        PROVE  Ownership!Next
    <3>1. Counted[x] = 0
      <4>1. Owners(x) \in Nat /\ ~(Owners(x) > 0)
        BY <1>2, <2>3, OwnersAreNat, OwnedIsLive
      <4> QED
        BY <2>1, <4>1
    <3>2. Counted'[x] = 1 /\ \A y \in Exn : y # x => Counted'[y] = Counted[y]
      BY <2>0, <2>1, <2>3, <3>1
    <3>3. Counted' = [Counted EXCEPT ![x] = 1]
      BY <2>1, <3>2 DEF Counted
    <3>4. Ownership!Make(x)
      BY <2>1, <2>3, <3>3 DEF Ownership!Make
    <3> QED
      BY <3>4 DEF Ownership!Next
  <2>4. ASSUME NEW x \in Exn, Owners(x) > 0, refs' = TakeRef(x), object' = object
        PROVE  Ownership!Next
    <3>1. /\ Counted'[x] = Counted[x] + 1
          /\ \A y \in Exn : y # x => Counted'[y] = Counted[y]
      BY <2>0, <2>1, <2>4 DEF TakeRef
    <3>2. Counted' = [Counted EXCEPT ![x] = @ + 1]
      BY <2>1, <3>1 DEF Counted
    <3>3. Ownership!Join(x)
      BY <2>1, <2>4, <3>2 DEF Ownership!Join
    <3> QED
      BY <3>3 DEF Ownership!Next
  <2>5. ASSUME NEW x \in Exn, Owners(x) > 0, refs' = [refs EXCEPT ![x] = @ - 1],
               object' = object
        PROVE  Ownership!Next
    <3>1. /\ Counted'[x] = Counted[x] - 1
          /\ \A y \in Exn : y # x => Counted'[y] = Counted[y]
      BY <2>0, <2>1, <2>5
    <3>2. Counted' = [Counted EXCEPT ![x] = @ - 1]
      BY <2>1, <3>1 DEF Counted
    <3>3. Ownership!Leave(x)
      BY <2>1, <2>5, <3>2 DEF Ownership!Leave
    <3> QED
      BY <3>3 DEF Ownership!Next
  <2>6. ASSUME NEW q \in Ptr, ptr[q] # None
        PROVE  ptr[q] \in Exn /\ Owners(ptr[q]) > 0
    <3>1. ptr[q] \in Exn
      BY <1>2, <2>6 DEF IInv, TypeOK
    <3> QED
      BY <1>2, <3>1, PointedIsOwned
  <2>7. ASSUME NEW t \in Thread, NEW h, EndCatch(t, h), object' = object
        PROVE  Ownership!Next \/ UNCHANGED <<refs, object>>
    <3>1. CASE caught[t] = None \/ ~Releases(h[caught[t]])
      BY <2>7, <3>1 DEF EndCatch
    <3>2. CASE caught[t] # None /\ Releases(h[caught[t]])
      BY <1>2, <2>5, <2>7, <3>2, CaughtIsOwned DEF EndCatch, DecrementRefcount
    <3> QED
      BY <3>1, <3>2
  <2>8. ASSUME NEW t \in Thread, DeleteException(t)
        PROVE  Ownership!Next
    <3>1. PICK x : x = dying[t]
      OBVIOUS
    <3>2. x \in Exn /\ refs[x] = 0 /\ object[x] = "live"
      BY <1>2, <2>8, <3>1 DEF DeleteException, IInv, TypeOK, LivesFollowReferences
    <3>3. object' = [object EXCEPT ![x] = "deleted"] /\ refs' = refs
      BY <2>8, <3>1 DEF DeleteException, header
    <3>5. Owners(x) = 0
      <4>1. Owners(x) \in Nat
        BY OwnersAreNat
      <4> QED
        BY <2>0, <3>2, <4>1
    <3>6. Counted' = Counted
      <4>1. \A y \in Exn : Counted'[y] = Counted[y]
        BY <2>1, <3>3
      <4> QED
        BY <2>1, <4>1 DEF Counted
    <3>4. Ownership!Delete(x)
      BY <2>1, <3>2, <3>3, <3>5, <3>6 DEF Ownership!Delete
    <3> QED
      BY <3>2, <3>4 DEF Ownership!Next
  <2>9. CASE UNCHANGED vars
    BY <2>2, <2>9 DEF vars, header
  <2>10. ASSUME NEW t \in Thread, NEW x \in Exn,
                Throw(t, x) \/ \E p \in Ptr : MakePtr(t, p, x)
         PROVE  Ownership!Next
    BY <2>3, <2>10 DEF Throw, MakePtr, Allocate
  <2>11. ASSUME NEW t \in Thread, LeaveHandler(t) \/ UnwindHandler(t) \/ Rethrow(t)
         PROVE  Ownership!Next \/ UNCHANGED <<refs, object>>
    BY <2>7, <2>11 DEF LeaveHandler, UnwindHandler, Rethrow
  <2>12. ASSUME NEW t \in Thread, NEW p \in Ptr,
                \/ CurrentException(t, p) \/ ThrowPtr(t, p)
                \/ \E q \in Ptr : CopyPtr(t, p, q)
         PROVE  Ownership!Next \/ UNCHANGED <<refs, object>>
    <3>1. CASE CurrentException(t, p)
      BY <1>2, <2>4, <3>1, CaughtIsOwned DEF CurrentException
    <3>2. CASE \E q \in Ptr : CopyPtr(t, p, q)
      BY <2>4, <2>6, <3>2 DEF CopyPtr
    <3>3. CASE ThrowPtr(t, p)
      BY <2>4, <2>6, <3>3 DEF ThrowPtr
    <3> QED
      BY <2>12, <3>1, <3>2, <3>3
  <2>13. ASSUME NEW t \in Thread, NEW p \in Ptr, ResetPtr(t, p)
         PROVE  Ownership!Next
    BY <2>5, <2>6, <2>13 DEF ResetPtr, DecrementRefcount
  <2>14. ASSUME NEW t \in Thread,
                \/ BeginCatch(t) \/ Terminate(t)
                \/ \E p, q \in Ptr : MovePtr(t, p, q)
         PROVE  UNCHANGED <<refs, object>>
    BY <2>14 DEF BeginCatch, Terminate, MovePtr, header
  <2>15. CASE Next
    <3>1. PICK t \in Thread :
          \/ DeleteException(t)
          \/ \E x \in Exn : Throw(t, x)
          \/ BeginCatch(t)
          \/ LeaveHandler(t)
          \/ UnwindHandler(t)
          \/ Rethrow(t)
          \/ Terminate(t)
          \/ \E p \in Ptr, x \in Exn : MakePtr(t, p, x)
          \/ \E p \in Ptr : CurrentException(t, p) \/ ResetPtr(t, p) \/ ThrowPtr(t, p)
          \/ \E p, q \in Ptr : CopyPtr(t, p, q) \/ MovePtr(t, p, q)
      BY <2>15 DEF Next
    <3>2. Ownership!Next \/ UNCHANGED <<refs, object>>
      BY <3>1, <2>8, <2>10, <2>11, <2>12, <2>13, <2>14
    <3> QED
      BY <2>2, <3>2
  <2> QED
    BY <1>2, <2>9, <2>15
<1>3. (HarmlessMemory => IInv) /\ (HarmlessMemory => IInv)' /\ [Next]_vars
          => [HarmlessMemory => Ownership!Next]_(Ownership!vars)
  <2>1. [Next]_vars /\ HarmlessMemory => HarmlessMemory'
    BY MemoryStays DEF HarmlessMemory
  <2> QED
    BY <1>2, <2>1
<1>4. Spec => [](HarmlessMemory => IInv)
  BY CxxExceptionsInvariance
<1> QED
  BY <1>1, <1>3, <1>4, PTL DEF Spec, ImplementsOwnership
=============================================================================
