-------------------------- MODULE SharedPtr_proofs --------------------------
(***************************************************************************)
(* Proofs about shared_ptr and weak_ptr, for any threads, objects and      *)
(* handles.                                                                *)
(*                                                                         *)
(* That the counts are exact is not inductive.  An operation releases what *)
(* a handle owned and replaces it later; in between, a chain of deletions  *)
(* runs on its thread.  The invariant says that these deletions do not     *)
(* reach the handles of the operation, since a handle that they are        *)
(* reached through keeps their objects alive, and that an object is        *)
(* deleted once, before the reference that its owners share is given up.   *)
(***************************************************************************)
EXTENDS SharedPtr, FiniteSetTheorems, TLAPS

-----------------------------------------------------------------------------
(* The cardinality of sets that differ in one element or two *)

In(x, S) == IF x \in S THEN 1 ELSE 0

LEMMA OneDiffers ==
    ASSUME NEW S, NEW T, NEW x, IsFiniteSet(S), IsFiniteSet(T),
           \A y : y # x => (y \in S <=> y \in T)
    PROVE  /\ Cardinality(S) \in Nat /\ Cardinality(T) \in Nat
           /\ Cardinality(T) + In(x, S) = Cardinality(S) + In(x, T)
<1>1. S \ {x} = T \ {x}
  OBVIOUS
<1>2. Cardinality(S) \in Nat /\ Cardinality(T) \in Nat
  BY FS_CardinalityType
<1>3. /\ Cardinality(S \ {x}) = IF x \in S THEN Cardinality(S) - 1 ELSE Cardinality(S)
      /\ Cardinality(T \ {x}) = IF x \in T THEN Cardinality(T) - 1 ELSE Cardinality(T)
  BY FS_RemoveElement
<1>4. Cardinality(S \ {x}) = Cardinality(T \ {x})
  BY <1>1
<1>5. CASE x \in S
  BY <1>2, <1>3, <1>4, <1>5 DEF In
<1>6. CASE x \notin S
  BY <1>2, <1>3, <1>4, <1>6 DEF In
<1> QED
  BY <1>5, <1>6

LEMMA TwoDiffer ==
    ASSUME NEW S, NEW T, NEW x, NEW y, x # y, IsFiniteSet(S), IsFiniteSet(T),
           \A z : z # x /\ z # y => (z \in S <=> z \in T)
    PROVE  /\ Cardinality(S) \in Nat /\ Cardinality(T) \in Nat
           /\ Cardinality(T) + In(x, S) + In(y, S) = Cardinality(S) + In(x, T) + In(y, T)
<1> DEFINE U == IF x \in T THEN S \cup {x} ELSE S \ {x}
<1>1. IsFiniteSet(U)
  BY FS_AddElement, FS_RemoveElement
<1>2. /\ \A z : z # x => (z \in S <=> z \in U)
      /\ \A z : z # y => (z \in U <=> z \in T)
      /\ In(x, U) = In(x, T) /\ In(y, U) = In(y, S)
  BY DEF In
<1> HIDE DEF U
<1>3. /\ Cardinality(S) \in Nat /\ Cardinality(U) \in Nat
      /\ Cardinality(U) + In(x, S) = Cardinality(S) + In(x, U)
  BY <1>1, <1>2, OneDiffers
<1>4. /\ Cardinality(T) \in Nat
      /\ Cardinality(T) + In(y, U) = Cardinality(U) + In(y, T)
  BY <1>1, <1>2, OneDiffers
<1>5. \A z, Z : In(z, Z) \in Nat
  BY DEF In
<1> QED
  BY <1>2, <1>3, <1>4, <1>5

-----------------------------------------------------------------------------
(* The invariant *)

Releasing == {"sub_strong", "sub_weak", "delete_object"}
Assigning == {"take_strong", "take_weak", "move_owner", "clear"}

\* Nobody else uses the handles of an operation.
UsesAreApart ==
    \A t, u \in Thread : t # u => use[t] \cap use[u] = {}

\* The object that h is a member of has an owner which t uses.
IsHeld(t, h) ==
    Where[h] # Null => \E p \in use[t] \cap Program : own[p] = Where[h]

\* The handles of the call that ends an operation.  The one that is to be
\* assigned, or the weak_ptr that is to be locked, is not going to be deleted.
HandlesFit(t, c) ==
    /\ c.to \in use[t]
    /\ c.op \in Assigning => IsHeld(t, c.to)
    /\ c.op = "take_strong" =>
          c.to \in Shared /\ c.from \in (Shared \cap use[t]) \ {c.to}
    /\ c.op = "take_weak" => c.to \in Weak /\ c.from \in use[t] \ {c.to}
    /\ c.op = "move_owner" => c.from \in use[t] /\ (c.to \in Shared <=> c.from \in Shared)
    /\ c.op = "try_add_strong" =>
          /\ c.to \in Shared /\ own[c.to] = Null
          /\ c.from \in Weak \cap use[t] /\ own[c.from] # Null /\ IsHeld(t, c.from)
          /\ c.seen > 0

\* An operation has releases to do, and at most one other call, the last.
InOrder(s) ==
    \A i \in DOMAIN s : IF s[i].op \in Releasing THEN s[i].to \in Object ELSE i = Len(s)

Finals(s) == IF s # <<>> /\ s[Len(s)].op \notin Releasing THEN {s[Len(s)]} ELSE {}

ReleasesComeFirst ==
    \A t \in Thread : InOrder(calls[t]) /\ \A c \in Finals(calls[t]) : HandlesFit(t, c)

\* An owner that deletes an object gives up the shared reference afterwards.
DeletesAreFollowed(s) ==
    \A i \in DOMAIN s : s[i].op = "delete_object" =>
        i + 1 \in DOMAIN s /\ s[i + 1].op = "sub_weak" /\ s[i + 1].to = s[i].to

DeletionsAreFollowed == \A t \in Thread : DeletesAreFollowed(calls[t])

\* Objects and blocks are there while they are counted, and an object is
\* deleted once.
LivesFollowCounts ==
    \A o \in Object :
        /\ object[o] = "none" => strong[o] = 0 /\ weak[o] = 0
        /\ strong[o] > 0 => object[o] = "live"
        /\ block[o] = "live" <=> weak[o] > 0
        /\ Cardinality(PendingCalls("delete_object", o)) > 0 =>
              /\ Cardinality(PendingCalls("delete_object", o)) = 1
              /\ strong[o] = 0
              /\ object[o] = "live"

\* There are finitely many calls to do and handles that own something.
FiniteInUse ==
    /\ IsFiniteSet(Pending)
    /\ IsFiniteSet({h \in Handle : own[h] # Null})

IInv ==
    /\ TypeOK
    /\ UsesAreApart
    /\ ReleasesComeFirst
    /\ DeletionsAreFollowed
    /\ FiniteInUse
    /\ CountsAreExact
    /\ LivesFollowCounts

-----------------------------------------------------------------------------
(* Counting calls *)

CallRecord == [op : Op, to : Object \cup Handle, from : Handle \cup {Null}, seen : Nat]

Places(s, kind, o) == {i \in DOMAIN s : s[i].op = kind /\ s[i].to = o}
Count(s, kind, o) == Cardinality(Places(s, kind, o))

Is(c, kind, o) == IF c.op = kind /\ c.to = o THEN 1 ELSE 0

LEMMA CountIsFinite ==
    ASSUME NEW s \in Seq(CallRecord), NEW kind, NEW o
    PROVE  IsFiniteSet(Places(s, kind, o)) /\ Count(s, kind, o) \in Nat
<1>1. IsFiniteSet(1 .. Len(s))
  BY FS_Interval
<1>2. Places(s, kind, o) \in SUBSET (1 .. Len(s))
  BY DEF Places
<1> QED
  BY <1>1, <1>2, FS_Subset, FS_CardinalityType DEF Count

\* A sequence and the one after it are counted apart.
LEMMA CountConcat ==
    ASSUME NEW r \in Seq(CallRecord), NEW s \in Seq(CallRecord), NEW kind, NEW o
    PROVE  Count(r \o s, kind, o) = Count(r, kind, o) + Count(s, kind, o)
<1> DEFINE n == Len(r)
           P == Places(r, kind, o)
           Q == Places(s, kind, o)
           R == {i \in n + 1 .. n + Len(s) : i - n \in Q}
           shift == [i \in Q |-> i + n]
<1>1. P \subseteq 1 .. n /\ Q \subseteq 1 .. Len(s)
  BY DEF Places
<1>2. shift \in Bijection(Q, R)
  <2>1. shift \in [Q -> R]
    BY <1>1
  <2>2. \A i, j \in Q : shift[i] = shift[j] => i = j
    BY <1>1
  <2>3. \A k \in R : \E i \in Q : shift[i] = k
    BY <1>1
  <2> HIDE DEF shift, R, Q
  <2>4. shift \in Injection(Q, R)
    BY <2>1, <2>2 DEF Injection, IsInjective
  <2>5. shift \in Surjection(Q, R)
    BY <2>1, <2>3, SMT DEF Surjection
  <2> QED
    BY <2>4, <2>5 DEF Bijection
<1>3. IsFiniteSet(P) /\ IsFiniteSet(Q)
  BY CountIsFinite
<1>4. IsFiniteSet(R) /\ Cardinality(R) = Cardinality(Q)
  <2> HIDE DEF shift, R, Q
  <2>1. ExistsBijection(Q, R)
    BY <1>2 DEF ExistsBijection
  <2> QED
    BY <1>3, <2>1, FS_Bijection
<1>5. Places(r \o s, kind, o) = P \cup R
  <2>1. DOMAIN (r \o s) = 1 .. n + Len(s)
    OBVIOUS
  <2>2. \A i \in 1 .. n + Len(s) :
            (r \o s)[i] = IF i <= n THEN r[i] ELSE s[i - n]
    OBVIOUS
  <2> QED
    BY <2>1, <2>2, <1>1 DEF Places
<1>6. P \cap R = {}
  BY <1>1
<1>7. Cardinality(P \cup R) = Cardinality(P) + Cardinality(R)
  <2> HIDE DEF P, R
  <2>1. Cardinality(P) \in Nat /\ Cardinality(R) \in Nat
    BY <1>3, <1>4, FS_CardinalityType
  <2>2. Cardinality(P \cap R) = 0
    BY <1>6, FS_EmptySet
  <2>3. Cardinality(P \cup R) = Cardinality(P) + Cardinality(R) - Cardinality(P \cap R)
    BY <1>3, <1>4, FS_Union
  <2> QED
    BY <2>1, <2>2, <2>3
<1> QED
  BY <1>4, <1>5, <1>7 DEF Count

LEMMA CountShort ==
    ASSUME NEW c \in CallRecord, NEW kind, NEW o
    PROVE  /\ Count(<<>>, kind, o) = 0
           /\ Count(<<c>>, kind, o) = Is(c, kind, o)
<1>1. Places(<<>>, kind, o) = {}
  BY DEF Places
<1>2. Places(<<c>>, kind, o) = IF c.op = kind /\ c.to = o THEN {1} ELSE {}
  BY DEF Places
<1> QED
  BY <1>1, <1>2, FS_EmptySet, FS_Singleton DEF Count, Is

LEMMA CountHead ==
    ASSUME NEW s \in Seq(CallRecord), s # <<>>, NEW kind, NEW o
    PROVE  Count(s, kind, o) = Is(Head(s), kind, o) + Count(Tail(s), kind, o)
<1>1. Head(s) \in CallRecord /\ Tail(s) \in Seq(CallRecord) /\ <<Head(s)>> \in Seq(CallRecord)
  OBVIOUS
<1>2. s = <<Head(s)>> \o Tail(s)
  OBVIOUS
<1>3. Count(<<Head(s)>>, kind, o) = Is(Head(s), kind, o)
  BY <1>1, CountShort
<1>4. Count(<<Head(s)>> \o Tail(s), kind, o)
        = Count(<<Head(s)>>, kind, o) + Count(Tail(s), kind, o)
  <2> DEFINE first == <<Head(s)>>
             rest == Tail(s)
  <2>1. first \in Seq(CallRecord) /\ rest \in Seq(CallRecord)
    BY <1>1
  <2> HIDE DEF first, rest
  <2>2. Count(first \o rest, kind, o) = Count(first, kind, o) + Count(rest, kind, o)
    BY <2>1, CountConcat
  <2> QED
    BY <2>2 DEF first, rest
<1> QED
  BY <1>2, <1>3, <1>4

\* What is pending changes by what one thread has to do.
LEMMA PendingCount ==
    ASSUME TypeOK, IsFiniteSet(Pending),
           NEW t \in Thread, NEW s \in Seq(CallRecord),
           calls' = [calls EXCEPT ![t] = s]
    PROVE  /\ IsFiniteSet(Pending')
           /\ \A kind, o :
                /\ Cardinality(PendingCalls(kind, o)) \in Nat
                /\ Cardinality(PendingCalls(kind, o)') \in Nat
                /\ Cardinality(PendingCalls(kind, o)') + Count(calls[t], kind, o)
                      = Cardinality(PendingCalls(kind, o)) + Count(s, kind, o)
<1> DEFINE Mine(S) == {t} \X S
           Others == {c \in Pending : c[1] # t}
<1>1. calls \in [Thread -> Seq(CallRecord)] /\ calls[t] \in Seq(CallRecord)
  BY DEF TypeOK, CallRecord
<1>2. Pending' = Others \cup Mine(1 .. Len(s))
  BY <1>1 DEF Pending
<1>3. \A S : IsFiniteSet(S) => IsFiniteSet(Mine(S)) /\ Cardinality(Mine(S)) = Cardinality(S)
  <2> SUFFICES ASSUME NEW S, IsFiniteSet(S)
               PROVE  IsFiniteSet(Mine(S)) /\ Cardinality(Mine(S)) = Cardinality(S)
    OBVIOUS
  <2>1. IsFiniteSet({t}) /\ Cardinality({t}) = 1 /\ Cardinality(S) \in Nat
    BY FS_Singleton, FS_CardinalityType
  <2> QED
    BY <2>1, FS_Product
<1>4. IsFiniteSet(Others)
  BY FS_Subset
<1>5. IsFiniteSet(Pending')
  <2>1. IsFiniteSet(1 .. Len(s))
    BY FS_Interval
  <2>2. IsFiniteSet(Mine(1 .. Len(s)))
    BY <1>3, <2>1
  <2> HIDE DEF Mine, Others
  <2> QED
    BY <1>2, <1>4, <2>2, FS_Union
<1>6. ASSUME NEW kind, NEW o
      PROVE  /\ Cardinality(PendingCalls(kind, o)) \in Nat
             /\ Cardinality(PendingCalls(kind, o)') \in Nat
             /\ Cardinality(PendingCalls(kind, o)') + Count(calls[t], kind, o)
                  = Cardinality(PendingCalls(kind, o)) + Count(s, kind, o)
  <2> DEFINE Same == {c \in Others : calls[c[1]][c[2]].op = kind /\ calls[c[1]][c[2]].to = o}
             Before == Places(calls[t], kind, o)
             After == Places(s, kind, o)
  <2>1. PendingCalls(kind, o) = Same \cup Mine(Before)
    BY <1>1 DEF PendingCalls, Pending, Places
  <2>2. PendingCalls(kind, o)' = Same \cup Mine(After)
    BY <1>1 DEF PendingCalls, Pending, Places
  <2>3. IsFiniteSet(Before) /\ IsFiniteSet(After)
    BY <1>1, CountIsFinite
  <2>4. IsFiniteSet(Same)
    BY <1>4, FS_Subset
  <2>5. Same \cap Mine(Before) = {} /\ Same \cap Mine(After) = {}
    OBVIOUS
  <2>6. \A S : IsFiniteSet(S) /\ Same \cap Mine(S) = {} =>
            /\ Cardinality(Same \cup Mine(S)) \in Nat
            /\ Cardinality(Same \cup Mine(S)) = Cardinality(Same) + Cardinality(S)
            /\ Cardinality(S) \in Nat
            /\ Cardinality(Same) \in Nat
    <3> SUFFICES ASSUME NEW S, IsFiniteSet(S), Same \cap Mine(S) = {}
                 PROVE  /\ Cardinality(Same \cup Mine(S)) \in Nat
                        /\ Cardinality(Same \cup Mine(S)) = Cardinality(Same) + Cardinality(S)
                        /\ Cardinality(S) \in Nat
                        /\ Cardinality(Same) \in Nat
      OBVIOUS
    <3>1. IsFiniteSet(Mine(S)) /\ Cardinality(Mine(S)) = Cardinality(S)
      BY <1>3
    <3> HIDE DEF Same, Mine
    <3>2. Cardinality(Same \cap Mine(S)) = 0
      BY FS_EmptySet
    <3>3. Cardinality(Same \cup Mine(S))
            = Cardinality(Same) + Cardinality(Mine(S)) - Cardinality(Same \cap Mine(S))
      BY <2>4, <3>1, FS_Union
    <3>4. Cardinality(S) \in Nat /\ Cardinality(Same) \in Nat
      BY <2>4, FS_CardinalityType
    <3> QED
      BY <3>1, <3>2, <3>3, <3>4
  <2> HIDE DEF Same, Mine, Before, After
  <2>7. /\ Cardinality(PendingCalls(kind, o)) = Cardinality(Same) + Cardinality(Before)
        /\ Cardinality(PendingCalls(kind, o)') = Cardinality(Same) + Cardinality(After)
        /\ Cardinality(Same) \in Nat /\ Cardinality(Before) \in Nat /\ Cardinality(After) \in Nat
    BY <2>1, <2>2, <2>3, <2>5, <2>6
  <2> QED
    BY <2>7 DEF Count, Before, After
<1> QED
  BY <1>5, <1>6

-----------------------------------------------------------------------------
(* What has been released and not yet replaced *)

AssignedBy(s) == {c.to : c \in {d \in Finals(s) : d.op \in Assigning}}

CallsOK == calls \in [Thread -> Seq(CallRecord)]

StaleIsWhatIsAssigned ==
    /\ \A h : h \in Stale <=> h \in Handle /\ \E t \in Thread : h \in AssignedBy(calls[t])
    /\ \A t \in Thread : AssignedBy(calls[t]) \subseteq use[t]

LEMMA StaleIsAssigned == CallsOK /\ ReleasesComeFirst => StaleIsWhatIsAssigned
<1> SUFFICES ASSUME CallsOK, ReleasesComeFirst
             PROVE  StaleIsWhatIsAssigned
  OBVIOUS
<1>1. \A t \in Thread : calls[t] \in Seq(CallRecord)
  BY DEF CallsOK
<1>2. \A t \in Thread : \A h :
         h \in AssignedBy(calls[t]) <=>
             \E i \in DOMAIN calls[t] : calls[t][i].op \in Assigning /\ calls[t][i].to = h
  <2> TAKE t \in Thread
  <2> TAKE h
  <2>1. Len(calls[t]) \in Nat /\ DOMAIN calls[t] = 1 .. Len(calls[t])
    BY <1>1
  <2>2. h \in AssignedBy(calls[t]) <=>
            \E c \in Finals(calls[t]) : c.op \in Assigning /\ c.to = h
    BY DEF AssignedBy
  <2>3. calls[t] # <<>> => Len(calls[t]) \in DOMAIN calls[t]
    BY <1>1
  <2>4. InOrder(calls[t]) /\ Assigning \cap Releasing = {}
    BY DEF ReleasesComeFirst, Assigning, Releasing
  <2>5. calls[t] = <<>> => DOMAIN calls[t] = {}
    OBVIOUS
  <2> QED
    BY <2>1, <2>2, <2>3, <2>4, <2>5 DEF Finals, InOrder
<1>3. \A h \in Handle : h \in Stale <=>
         \E t \in Thread : \E i \in DOMAIN calls[t] :
             calls[t][i].op \in Assigning /\ calls[t][i].to = h
  <2> TAKE h \in Handle
  <2>1. ASSUME NEW t \in Thread, NEW i \in DOMAIN calls[t],
               calls[t][i].op \in Assigning, calls[t][i].to = h
        PROVE  h \in Stale
    <3>1. <<t, i>> \in Pending
      BY DEF Pending
    <3> QED
      BY <2>1, <3>1 DEF Stale, Assigning
  <2>2. ASSUME h \in Stale
        PROVE  \E t \in Thread : \E i \in DOMAIN calls[t] :
                   calls[t][i].op \in Assigning /\ calls[t][i].to = h
    <3>1. PICK c \in Pending : calls[c[1]][c[2]].to = h /\ calls[c[1]][c[2]].op \in Assigning
      BY <2>2 DEF Stale, Assigning
    <3>2. PICK t \in Thread : \E i \in DOMAIN calls[t] : c = <<t, i>>
      BY DEF Pending
    <3> QED
      BY <3>1, <3>2
  <2> QED
    BY <2>1, <2>2
<1>4. \A t \in Thread : AssignedBy(calls[t]) \subseteq use[t]
  BY DEF AssignedBy, ReleasesComeFirst, HandlesFit
<1>5. Stale \subseteq Handle
  BY DEF Stale
<1> QED
  BY <1>2, <1>3, <1>4, <1>5 DEF StaleIsWhatIsAssigned

LEMMA StaleIsAssignedNext == CallsOK' /\ ReleasesComeFirst' => StaleIsWhatIsAssigned'
BY StaleIsAssigned, PTL


-----------------------------------------------------------------------------
(* The order of calls, whatever their effect on counts *)

LEMMA TailOf ==
    ASSUME NEW s \in Seq(CallRecord), s # <<>>
    PROVE  /\ Len(s) \in Nat \ {0}
           /\ Head(s) = s[1] /\ Head(s) \in CallRecord
           /\ Tail(s) \in Seq(CallRecord)
           /\ Len(Tail(s)) = Len(s) - 1
           /\ DOMAIN Tail(s) = 1 .. Len(s) - 1
           /\ \A i \in 1 .. Len(s) - 1 : Tail(s)[i] = s[i + 1]
OBVIOUS

LEMMA ConcatOf ==
    ASSUME NEW r \in Seq(CallRecord), NEW s \in Seq(CallRecord)
    PROVE  /\ r \o s \in Seq(CallRecord)
           /\ Len(r) \in Nat /\ Len(s) \in Nat
           /\ DOMAIN r = 1 .. Len(r) /\ DOMAIN s = 1 .. Len(s)
           /\ Len(r \o s) = Len(r) + Len(s)
           /\ DOMAIN (r \o s) = 1 .. Len(r) + Len(s)
           /\ \A i \in 1 .. Len(r) : (r \o s)[i] = r[i]
           /\ \A i \in 1 .. Len(s) : (r \o s)[Len(r) + i] = s[i]
           /\ \A i \in 1 .. Len(r) + Len(s) :
                i \in 1 .. Len(r) \/ \E j \in 1 .. Len(s) : i = Len(r) + j
<1>1. /\ Len(r) \in Nat /\ Len(s) \in Nat
      /\ DOMAIN r = 1 .. Len(r) /\ DOMAIN s = 1 .. Len(s)
      /\ r \o s \in Seq(CallRecord)
      /\ Len(r \o s) = Len(r) + Len(s)
      /\ DOMAIN (r \o s) = 1 .. Len(r) + Len(s)
  OBVIOUS
<1>2. \A i \in 1 .. Len(r) : (r \o s)[i] = r[i]
  OBVIOUS
<1>3. \A i \in 1 .. Len(s) : (r \o s)[Len(r) + i] = s[i]
  OBVIOUS
<1>4. \A m, n \in Nat : \A i \in 1 .. m + n : i \in 1 .. m \/ \E j \in 1 .. n : i = m + j
  <2> SUFFICES ASSUME NEW m \in Nat, NEW n \in Nat, NEW i \in 1 .. m + n, i \notin 1 .. m
               PROVE  \E j \in 1 .. n : i = m + j
    OBVIOUS
  <2>1. i - m \in 1 .. n /\ i = m + (i - m)
    OBVIOUS
  <2> QED
    BY <2>1
<1> QED
  BY <1>1, <1>2, <1>3, <1>4

\* What comes after the first call.
LEMMA OrderOfTail ==
    ASSUME NEW s \in Seq(CallRecord), s # <<>>, InOrder(s), DeletesAreFollowed(s)
    PROVE  /\ InOrder(Tail(s)) /\ DeletesAreFollowed(Tail(s))
           /\ IF Head(s).op \in Releasing
                THEN Head(s).to \in Object /\ Finals(Tail(s)) = Finals(s)
                ELSE s = <<Head(s)>> /\ Tail(s) = <<>> /\ Finals(s) = {Head(s)}
<1> DEFINE r == Tail(s)
<1>1. /\ Len(s) \in Nat \ {0} /\ DOMAIN s = 1 .. Len(s)
      /\ Head(s) = s[1] /\ r \in Seq(CallRecord)
      /\ Len(r) = Len(s) - 1 /\ DOMAIN r = 1 .. Len(s) - 1
      /\ \A i \in 1 .. Len(s) - 1 : r[i] = s[i + 1]
  BY TailOf
<1>2. r = <<>> <=> Len(r) = 0
  BY <1>1
<1>3. Len(s) = 1 => s = <<Head(s)>>
  OBVIOUS
<1> HIDE DEF r
<1>4. InOrder(r)
  BY <1>1, SMTT(30) DEF InOrder
<1>5. DeletesAreFollowed(r)
  <2> SUFFICES ASSUME NEW i \in DOMAIN r, r[i].op = "delete_object"
               PROVE  i + 1 \in DOMAIN r /\ r[i + 1].op = "sub_weak" /\ r[i + 1].to = r[i].to
    BY DEF DeletesAreFollowed
  <2>1. i + 1 \in DOMAIN s /\ r[i] = s[i + 1] /\ i \in Nat
    BY <1>1
  <2>2. (i + 1) + 1 \in DOMAIN s /\ s[(i + 1) + 1].op = "sub_weak" /\ s[(i + 1) + 1].to = s[i + 1].to
    BY <2>1 DEF DeletesAreFollowed
  <2>3. i + 1 \in 1 .. Len(s) - 1
    BY <1>1, <2>1, <2>2
  <2> QED
    BY <1>1, <2>1, <2>2, <2>3
<1>6. ASSUME Head(s).op \in Releasing
      PROVE  Head(s).to \in Object /\ Finals(r) = Finals(s)
  <2>1. Head(s).to \in Object
    BY <1>1, <1>6 DEF InOrder
  <2>2. CASE Len(s) = 1
    BY <1>1, <1>2, <1>6, <2>1, <2>2 DEF Finals
  <2>3. CASE Len(s) # 1
    <3>1. r # <<>> /\ r[Len(r)] = s[Len(s)]
      BY <1>1, <1>2, <2>3
    <3> QED
      BY <2>1, <3>1 DEF Finals
  <2> QED
    BY <2>2, <2>3
<1>7. ASSUME Head(s).op \notin Releasing
      PROVE  s = <<Head(s)>> /\ r = <<>> /\ Finals(s) = {Head(s)}
  <2>1. Len(s) = 1
    BY <1>1, <1>7 DEF InOrder
  <2> QED
    BY <1>1, <1>2, <1>3, <1>7, <2>1 DEF Finals
<1> QED
  BY <1>4, <1>5, <1>6, <1>7 DEF r

LEMMA DeletesFollowedConcat ==
    ASSUME NEW r \in Seq(CallRecord), NEW s \in Seq(CallRecord),
           DeletesAreFollowed(r), DeletesAreFollowed(s)
    PROVE  DeletesAreFollowed(r \o s)
<1> DEFINE q == r \o s
<1> SUFFICES ASSUME NEW i \in DOMAIN q, q[i].op = "delete_object"
             PROVE  i + 1 \in DOMAIN q /\ q[i + 1].op = "sub_weak" /\ q[i + 1].to = q[i].to
  BY DEF DeletesAreFollowed
<1>1. CASE i \in 1 .. Len(r)
  <2>1. i + 1 \in 1 .. Len(r) /\ r[i + 1].op = "sub_weak" /\ r[i + 1].to = r[i].to
    BY <1>1, ConcatOf DEF DeletesAreFollowed
  <2> QED
    BY <1>1, <2>1, ConcatOf
<1>2. CASE \E j \in 1 .. Len(s) : i = Len(r) + j
  <2>1. PICK j \in 1 .. Len(s) : i = Len(r) + j
    BY <1>2
  <2>2. j + 1 \in 1 .. Len(s) /\ s[j + 1].op = "sub_weak" /\ s[j + 1].to = s[j].to
    BY <2>1, ConcatOf DEF DeletesAreFollowed
  <2>3. i + 1 = Len(r) + (j + 1) /\ i + 1 \in 1 .. Len(r) + Len(s)
    BY <2>1, <2>2, ConcatOf
  <2>4. q[i] = s[j] /\ q[i + 1] = s[j + 1]
    BY <2>1, <2>2, <2>3, ConcatOf
  <2> QED
    BY <2>2, <2>3, <2>4, ConcatOf
<1> QED
  BY <1>1, <1>2, ConcatOf
\* Releases that are put before other calls.
OnlyReleases(r) == \A i \in DOMAIN r : r[i].op \in Releasing /\ r[i].to \in Object

LEMMA OrderOfConcat ==
    ASSUME NEW r \in Seq(CallRecord), NEW s \in Seq(CallRecord),
           OnlyReleases(r), InOrder(s), DeletesAreFollowed(r), DeletesAreFollowed(s)
    PROVE  /\ r \o s \in Seq(CallRecord)
           /\ InOrder(r \o s) /\ DeletesAreFollowed(r \o s)
           /\ Finals(r \o s) = Finals(s)
<1> DEFINE q == r \o s
<1>1. /\ q \in Seq(CallRecord)
      /\ Len(r) \in Nat /\ Len(s) \in Nat
      /\ DOMAIN r = 1 .. Len(r) /\ DOMAIN s = 1 .. Len(s)
      /\ Len(q) = Len(r) + Len(s)
      /\ DOMAIN q = 1 .. Len(r) + Len(s)
      /\ \A i \in 1 .. Len(r) : q[i] = r[i]
      /\ \A i \in 1 .. Len(s) : q[Len(r) + i] = s[i]
      /\ \A i \in 1 .. Len(r) + Len(s) :
             i \in 1 .. Len(r) \/ \E j \in 1 .. Len(s) : i = Len(r) + j
  BY ConcatOf
<1>2. (q = <<>> <=> Len(q) = 0) /\ (s = <<>> <=> Len(s) = 0)
  BY <1>1
<1>3. DeletesAreFollowed(q)
  BY DeletesFollowedConcat
<1> HIDE DEF q
<1>4. InOrder(q)
  <2> SUFFICES ASSUME NEW i \in DOMAIN q
               PROVE  IF q[i].op \in Releasing THEN q[i].to \in Object ELSE i = Len(q)
    BY DEF InOrder
  <2>1. CASE i \in 1 .. Len(r)
    BY <1>1, <2>1 DEF OnlyReleases
  <2>2. CASE \E j \in 1 .. Len(s) : i = Len(r) + j
    BY <1>1, <2>2, ZenonT(30) DEF InOrder
  <2> QED
    BY <1>1, <2>1, <2>2
<1>5. Finals(q) = Finals(s)
  <2>1. CASE Len(s) = 0
    <3>1. Len(q) = 0 \/ q[Len(q)].op \in Releasing
      <4>1. Len(r) = 0 \/ Len(r) \in 1 .. Len(r)
        BY <1>1
      <4> QED
        BY <4>1, <1>1, <2>1 DEF OnlyReleases
    <3> QED
      BY <1>2, <2>1, <3>1 DEF Finals
  <2>2. CASE Len(s) # 0
    <3>1. q # <<>> /\ q[Len(q)] = s[Len(s)]
      BY <1>1, <1>2, <2>2
    <3> QED
      BY <1>2, <2>2, <3>1 DEF Finals
  <2> QED
    BY <2>1, <2>2
<1> QED
  BY <1>1, <1>3, <1>4, <1>5 DEF q

LEMMA OrderOfShort ==
    /\ <<>> \in Seq(CallRecord)
    /\ InOrder(<<>>) /\ DeletesAreFollowed(<<>>) /\ OnlyReleases(<<>>) /\ Finals(<<>>) = {}
    /\ \A c \in CallRecord :
          /\ <<c>> \in Seq(CallRecord)
          /\ c.op # "delete_object" => DeletesAreFollowed(<<c>>)
          /\ c.op \notin Releasing => InOrder(<<c>>) /\ Finals(<<c>>) = {c}
          /\ c.op \in Releasing /\ c.to \in Object => OnlyReleases(<<c>>)
BY DEF InOrder, DeletesAreFollowed, OnlyReleases, Finals

-----------------------------------------------------------------------------
(* Steps *)

N(kind, o) == Cardinality(PendingCalls(kind, o))
H(hs, o) == Cardinality(Holds(hs, o))

\* A handle keeps its owner, or dies with an object that nobody owns.
StaysOrDies(h) ==
    own'[h] = own[h] \/ (own'[h] = Null /\ Where[h] # Null /\ strong[Where[h]] = 0)

Ordered == UsesAreApart /\ ReleasesComeFirst /\ DeletionsAreFollowed

LEMMA CountsAreNumbers ==
    ASSUME IInv, NEW o \in Object
    PROVE  /\ \A kind : N(kind, o) \in Nat
           /\ IsFiniteSet(Holds(Shared, o)) /\ IsFiniteSet(Holds(Weak, o))
           /\ H(Shared, o) \in Nat /\ H(Weak, o) \in Nat
           /\ strong[o] \in Nat /\ weak[o] \in Nat
           /\ strong[o] = H(Shared, o) + N("sub_strong", o)
           /\ weak[o] = H(Weak, o) + N("sub_weak", o) + (IF strong[o] > 0 THEN 1 ELSE 0)
<1>1. \A kind : N(kind, o) \in Nat
  <2> TAKE kind
  <2>1. PendingCalls(kind, o) \subseteq Pending
    BY DEF PendingCalls
  <2> QED
    BY <2>1, FS_Subset, FS_CardinalityType DEF IInv, FiniteInUse, N
<1>2. Holds(Shared, o) \subseteq {h \in Handle : own[h] # Null}
      /\ Holds(Weak, o) \subseteq {h \in Handle : own[h] # Null}
  BY HandlesAreApart DEF Holds, Handle
<1>3. IsFiniteSet(Holds(Shared, o)) /\ IsFiniteSet(Holds(Weak, o))
  BY <1>2, FS_Subset DEF IInv, FiniteInUse
<1>4. H(Shared, o) \in Nat /\ H(Weak, o) \in Nat
  BY <1>3, FS_CardinalityType DEF H
<1> QED
  BY <1>1, <1>3, <1>4 DEF IInv, TypeOK, CountsAreExact, N, H

\* What a handle refers to is counted.
LEMMA OwnersAreCounted ==
    ASSUME IInv, NEW h \in Handle \ Stale, own[h] # Null
    PROVE  /\ own[h] \in Object
           /\ h \in Shared => strong[own[h]] > 0
           /\ weak[own[h]] > 0
<1> DEFINE o == own[h]
<1>1. o \in Object
  BY DEF IInv, TypeOK
<1> HIDE DEF o
<1>2. /\ IsFiniteSet(Holds(Shared, o)) /\ IsFiniteSet(Holds(Weak, o))
      /\ H(Shared, o) \in Nat /\ H(Weak, o) \in Nat
      /\ N("sub_strong", o) \in Nat /\ N("sub_weak", o) \in Nat
      /\ strong[o] = H(Shared, o) + N("sub_strong", o)
      /\ weak[o] = H(Weak, o) + N("sub_weak", o) + (IF strong[o] > 0 THEN 1 ELSE 0)
  BY <1>1, CountsAreNumbers
<1>3. \A hs : h \in hs => h \in Holds(hs, o)
  BY DEF Holds, o
<1>4. h \in Shared => H(Shared, o) # 0
  BY <1>2, <1>3, FS_EmptySet DEF H
<1>5. h \in Weak => H(Weak, o) # 0
  BY <1>2, <1>3, FS_EmptySet DEF H
<1>6. h \in Shared \/ h \in Weak
  BY DEF Handle
<1> QED
  BY <1>1, <1>2, <1>4, <1>5, <1>6 DEF o

LEMMA StaleInUse ==
    ASSUME IInv
    PROVE  /\ CallsOK
           /\ StaleIsWhatIsAssigned
           /\ \A t \in Thread : \A h \in use[t] : h \in Stale => h \in AssignedBy(calls[t])
<1>1. CallsOK
  BY DEF IInv, TypeOK, CallsOK, CallRecord
<1>2. StaleIsWhatIsAssigned
  BY <1>1, StaleIsAssigned DEF IInv
<1> QED
  BY <1>1, <1>2 DEF StaleIsWhatIsAssigned, IInv, UsesAreApart

\* The handles of an operation go on to fit while others take their steps.
LEMMA OthersFit ==
    ASSUME IInv, NEW u \in Thread, NEW c \in Finals(calls[u]),
           use'[u] = use[u], \A h \in use[u] : StaysOrDies(h)
    PROVE  HandlesFit(u, c)'
<1>1. HandlesFit(u, c) /\ use[u] \subseteq Handle
  BY DEF IInv, ReleasesComeFirst, TypeOK
<1>2. \A h : IsHeld(u, h) => IsHeld(u, h)'
  <2> SUFFICES ASSUME NEW h, IsHeld(u, h), Where[h] # Null
               PROVE  \E p \in use'[u] \cap Program : own'[p] = Where[h]
    BY DEF IsHeld
  <2>1. PICK p \in use[u] \cap Program : own[p] = Where[h]
    BY DEF IsHeld
  <2>2. own'[p] = own[p]
    BY <2>1 DEF StaysOrDies, Program
  <2> QED
    BY <2>1, <2>2
<1>3. ASSUME c.op = "try_add_strong"
      PROVE  own'[c.to] = Null /\ own'[c.from] # Null
  <2>1. own[c.to] = Null /\ c.to \in use[u] /\ c.from \in use[u] /\ own[c.from] # Null
        /\ IsHeld(u, c.from)
    BY <1>1, <1>3 DEF HandlesFit
  <2>2. own'[c.to] = Null
    BY <2>1 DEF StaysOrDies
  <2>3. ASSUME Where[c.from] # Null, strong[Where[c.from]] = 0
        PROVE  FALSE
    <3>1. PICK p \in use[u] \cap Program : own[p] = Where[c.from]
      BY <2>1, <2>3 DEF IsHeld
    <3>2. AssignedBy(calls[u]) = {}
      BY <1>3 DEF AssignedBy, Finals, Assigning
    <3>3. p \notin Stale
      BY <3>1, <3>2, StaleInUse
    <3>4. p \in Handle \ Stale /\ p \in Shared
      BY <3>3 DEF Program, Handle
    <3>5. strong[own[p]] > 0
      BY <2>3, <3>1, <3>4, OwnersAreCounted
    <3> QED
      BY <2>3, <3>1, <3>5
  <2> QED
    BY <2>1, <2>2, <2>3 DEF StaysOrDies
<1> QED
  BY <1>1, <1>2, <1>3 DEF HandlesFit

\* What a step of t does to the order of the calls, to the handles that wait
\* for an assignment and to the calls that are counted.
LEMMA OrderStep ==
    ASSUME IInv, NEW t \in Thread, NEW s \in Seq(CallRecord),
           calls' = [calls EXCEPT ![t] = s],
           use' \in [Thread -> SUBSET Handle],
           \A u \in Thread \ {t} : use'[u] = use[u] /\ use'[t] \cap use[u] = {},
           \A u \in Thread \ {t} : \A h \in use[u] : StaysOrDies(h),
           InOrder(s), DeletesAreFollowed(s), \A c \in Finals(s) : HandlesFit(t, c)'
    PROVE  /\ CallsOK' /\ Ordered' /\ IsFiniteSet(Pending')
           /\ \A h : h \in Stale' <=>
                  h \in AssignedBy(s) \/ (h \in Stale /\ h \notin AssignedBy(calls[t]))
           /\ \A kind, o : /\ N(kind, o)' \in Nat
                           /\ N(kind, o)' + Count(calls[t], kind, o) = N(kind, o) + Count(s, kind, o)
<1>1. TypeOK /\ CallsOK /\ StaleIsWhatIsAssigned /\ UsesAreApart /\ ReleasesComeFirst
      /\ DeletionsAreFollowed /\ IsFiniteSet(Pending)
  BY StaleInUse DEF IInv, FiniteInUse
<1>2. CallsOK'
  BY <1>1 DEF CallsOK
<1>3. /\ calls'[t] = s
      /\ \A u \in Thread \ {t} : calls'[u] = calls[u]
  BY <1>1 DEF CallsOK
<1>4. UsesAreApart'
  BY <1>1 DEF UsesAreApart
<1>5. DeletionsAreFollowed'
  BY <1>1, <1>3 DEF DeletionsAreFollowed
<1>6. ReleasesComeFirst'
  <2> SUFFICES ASSUME NEW u \in Thread
               PROVE  InOrder(calls'[u]) /\ \A c \in Finals(calls'[u]) : HandlesFit(u, c)'
    BY DEF ReleasesComeFirst
  <2>1. CASE u = t
    BY <2>1, <1>3
  <2>2. CASE u # t
    <3>1. \A c \in Finals(calls[u]) : HandlesFit(u, c)'
      BY <2>2, OthersFit
    <3> QED
      BY <1>1, <1>3, <2>2, <3>1 DEF ReleasesComeFirst
  <2> QED
    BY <2>1, <2>2
<1>7. StaleIsWhatIsAssigned'
  BY <1>2, <1>6, StaleIsAssignedNext
<1>8. AssignedBy(s) \subseteq Handle
  <2>1. AssignedBy(s) \subseteq use'[t]
    BY <1>3, <1>7 DEF StaleIsWhatIsAssigned
  <2> QED
    BY <2>1
<1>9. \A u \in Thread \ {t} : AssignedBy(calls[u]) \cap AssignedBy(calls[t]) = {}
  BY <1>1 DEF StaleIsWhatIsAssigned, UsesAreApart
<1>10. ASSUME NEW h
       PROVE  h \in Stale' <=>
                  h \in AssignedBy(s) \/ (h \in Stale /\ h \notin AssignedBy(calls[t]))
  <2>1. h \in Stale' <=> h \in Handle /\ \E u \in Thread : h \in AssignedBy(calls'[u])
    BY <1>7 DEF StaleIsWhatIsAssigned
  <2>2. h \in Stale <=> h \in Handle /\ \E u \in Thread : h \in AssignedBy(calls[u])
    BY <1>1 DEF StaleIsWhatIsAssigned
  <2> QED
    BY <1>3, <1>8, <1>9, <2>1, <2>2
<1>11. /\ IsFiniteSet(Pending')
       /\ \A kind, o : /\ N(kind, o)' \in Nat
                       /\ N(kind, o)' + Count(calls[t], kind, o) = N(kind, o) + Count(s, kind, o)
  <2>1. /\ IsFiniteSet(Pending')
        /\ \A kind, o :
             /\ Cardinality(PendingCalls(kind, o)) \in Nat
             /\ Cardinality(PendingCalls(kind, o)') \in Nat
             /\ Cardinality(PendingCalls(kind, o)') + Count(calls[t], kind, o)
                   = Cardinality(PendingCalls(kind, o)) + Count(s, kind, o)
    BY <1>1, PendingCount
  <2>2. \A kind, o : /\ N(kind, o) = Cardinality(PendingCalls(kind, o))
                     /\ N(kind, o)' = Cardinality(PendingCalls(kind, o)')
    BY DEF N
  <2> QED
    BY <2>1, <2>2
<1> QED
  BY <1>2, <1>4, <1>5, <1>6, <1>10, <1>11 DEF Ordered

\* The first thing t has to do is a release, in whose place it does what is in pre.
LEMMA ReleaseStep ==
    ASSUME IInv, NEW t \in Thread, calls[t] # <<>>, Top(t).op \in Releasing,
           NEW pre \in Seq(CallRecord), OnlyReleases(pre), DeletesAreFollowed(pre),
           Continue(t, pre \o Rest(t), use[t]),
           \A h \in Handle : StaysOrDies(h)
    PROVE  /\ CallsOK' /\ Ordered' /\ IsFiniteSet(Pending')
           /\ use' \in [Thread -> SUBSET Handle]
           /\ Stale' = Stale
           /\ Top(t).to \in Object
           /\ \A kind, o : /\ N(kind, o)' \in Nat
                           /\ N(kind, o)' + Is(Top(t), kind, o) = N(kind, o) + Count(pre, kind, o)
<1> DEFINE c == Top(t)
           r == Rest(t)
           s == pre \o r
<1>1. /\ TypeOK /\ CallsOK /\ UsesAreApart
      /\ calls[t] \in Seq(CallRecord) /\ InOrder(calls[t]) /\ DeletesAreFollowed(calls[t])
      /\ \A d \in Finals(calls[t]) : HandlesFit(t, d)
  BY StaleInUse DEF IInv, CallsOK, ReleasesComeFirst, DeletionsAreFollowed
<1>2. /\ r \in Seq(CallRecord) /\ InOrder(r) /\ DeletesAreFollowed(r)
      /\ c.to \in Object /\ Finals(r) = Finals(calls[t])
  BY <1>1, TailOf, OrderOfTail DEF Top, Rest
<1>3. /\ calls' = [calls EXCEPT ![t] = s]
      /\ use' = [use EXCEPT ![t] = IF s = <<>> THEN {} ELSE use[t]]
  BY DEF Continue
<1>4. \A kind, o : /\ Count(calls[t], kind, o) = Is(c, kind, o) + Count(r, kind, o)
                   /\ Count(s, kind, o) = Count(pre, kind, o) + Count(r, kind, o)
                   /\ Count(r, kind, o) \in Nat /\ Count(pre, kind, o) \in Nat
                   /\ Is(c, kind, o) \in Nat
  <2> TAKE kind, o
  <2>1. Count(calls[t], kind, o) = Is(c, kind, o) + Count(r, kind, o)
    BY <1>1, CountHead DEF Top, Rest
  <2>2. Count(s, kind, o) = Count(pre, kind, o) + Count(r, kind, o)
    <3> HIDE DEF r
    <3> QED
      BY <1>2, CountConcat
  <2>3. Count(r, kind, o) \in Nat /\ Count(pre, kind, o) \in Nat
    BY <1>2, CountIsFinite
  <2> QED
    BY <2>1, <2>2, <2>3 DEF Is
<1> HIDE DEF c, r
<1>5. /\ s \in Seq(CallRecord) /\ InOrder(s) /\ DeletesAreFollowed(s)
      /\ Finals(s) = Finals(calls[t])
  BY <1>2, OrderOfConcat
<1> HIDE DEF s
<1>6. AssignedBy(s) = AssignedBy(calls[t])
  BY <1>5 DEF AssignedBy
<1>7. /\ use \in [Thread -> SUBSET Handle]
      /\ use' \in [Thread -> SUBSET Handle]
      /\ use'[t] \subseteq use[t]
      /\ \A u \in Thread \ {t} : use'[u] = use[u] /\ use'[t] \cap use[u] = {}
  BY <1>1, <1>3 DEF TypeOK, UsesAreApart
<1>8. \A u \in Thread : \A h \in use[u] : StaysOrDies(h)
  BY <1>7
<1>9. \A d \in Finals(s) : HandlesFit(t, d)'
  <2>1. Finals(s) # {} => use'[t] = use[t]
    BY <1>3, <1>7 DEF Finals
  <2>2. \A d \in Finals(calls[t]) : use'[t] = use[t] => HandlesFit(t, d)'
    BY <1>8, OthersFit
  <2> QED
    BY <1>5, <2>1, <2>2
<1>10. /\ CallsOK' /\ Ordered' /\ IsFiniteSet(Pending')
       /\ \A h : h \in Stale' <=>
              h \in AssignedBy(s) \/ (h \in Stale /\ h \notin AssignedBy(calls[t]))
       /\ \A kind, o : /\ N(kind, o)' \in Nat
                       /\ N(kind, o)' + Count(calls[t], kind, o) = N(kind, o) + Count(s, kind, o)
  BY <1>3, <1>5, <1>7, <1>8, <1>9, OrderStep
<1>11. Stale' = Stale
  <2>1. \A h \in AssignedBy(calls[t]) : h \in Stale
    <3>1. StaleIsWhatIsAssigned /\ AssignedBy(calls[t]) \subseteq Handle
      BY <1>7, StaleInUse DEF StaleIsWhatIsAssigned
    <3> QED
      BY <3>1 DEF StaleIsWhatIsAssigned
  <2> QED
    BY <1>6, <1>10, <2>1
<1>12. \A kind, o : N(kind, o) \in Nat
  <2> TAKE kind, o
  <2>1. PendingCalls(kind, o) \subseteq Pending
    BY DEF PendingCalls
  <2> QED
    BY <2>1, FS_Subset, FS_CardinalityType DEF IInv, FiniteInUse, N
<1>13. \A kind, o : N(kind, o)' + Is(c, kind, o) = N(kind, o) + Count(pre, kind, o)
  <2> TAKE kind, o
  <2>1. /\ N(kind, o)' \in Nat /\ N(kind, o) \in Nat
        /\ N(kind, o)' + Count(calls[t], kind, o) = N(kind, o) + Count(s, kind, o)
    BY <1>10, <1>12
  <2>2. /\ Count(calls[t], kind, o) = Is(c, kind, o) + Count(r, kind, o)
        /\ Count(s, kind, o) = Count(pre, kind, o) + Count(r, kind, o)
        /\ Count(r, kind, o) \in Nat /\ Count(pre, kind, o) \in Nat
        /\ Is(c, kind, o) \in Nat
    BY <1>4 DEF s
  <2> QED
    BY <2>1, <2>2
<1> QED
  BY <1>2, <1>7, <1>10, <1>11, <1>13 DEF c

\* The call that an operation on x and y is going to end with.
EndsWith(x, y, c) ==
    /\ c.to = x
    /\ c.op = "take_strong" => {x, y} \subseteq Shared /\ c.from = y /\ x # y
    /\ c.op = "take_weak" => x \in Weak /\ c.from = y /\ x # y
    /\ c.op = "move_owner" => c.from = y /\ (x \in Shared <=> y \in Shared)
    /\ c.op = "try_add_strong" =>
          /\ x \in Shared /\ own[x] = Null
          /\ c.from = y /\ y \in Weak /\ own[y] # Null
          /\ c.seen > 0

\* An operation begins.
LEMMA BeginStep ==
    ASSUME IInv, NEW t \in Thread, NEW x \in Handle, NEW y \in Handle,
           NEW rest \in Seq(CallRecord), InOrder(rest), DeletesAreFollowed(rest),
           Begin(t, x, y, rest),
           \A h \in Handle \ {x, y} : own'[h] = own[h],
           \A c \in Finals(rest) : own' = own /\ EndsWith(x, y, c)
    PROVE  /\ CallsOK' /\ Ordered' /\ IsFiniteSet(Pending')
           /\ use' \in [Thread -> SUBSET Handle]
           /\ x \notin Stale /\ y \notin Stale
           /\ \A h : h \in Stale' <=> h \in Stale \/ h \in AssignedBy(rest)
           /\ \A kind, o : N(kind, o)' \in Nat /\ N(kind, o)' = N(kind, o) + Count(rest, kind, o)
<1>1. PICK p \in Paths(x), q \in Paths(y) :
          /\ calls[t] = <<>>
          /\ \A u \in Thread : use[u] \cap ({x, y} \cup p \cup q) = {}
          /\ Continue(t, rest, {x, y} \cup p \cup q)
  BY DEF Begin
<1> DEFINE using == {x, y} \cup p \cup q
<1>2. /\ TypeOK /\ CallsOK /\ UsesAreApart /\ StaleIsWhatIsAssigned
      /\ calls' = [calls EXCEPT ![t] = rest]
      /\ use' = [use EXCEPT ![t] = IF rest = <<>> THEN {} ELSE using]
  BY <1>1, StaleInUse DEF IInv, Continue
<1>3. using \subseteq Handle
  BY <1>1 DEF Paths, Program, Handle
<1>4. x \notin Stale /\ y \notin Stale
  BY <1>1, <1>2 DEF StaleIsWhatIsAssigned
<1>5. /\ use' \in [Thread -> SUBSET Handle]
      /\ use'[t] = IF rest = <<>> THEN {} ELSE using
      /\ \A u \in Thread \ {t} : use'[u] = use[u] /\ use'[t] \cap use[u] = {}
      /\ \A u \in Thread : use[u] \subseteq Handle
  BY <1>1, <1>2, <1>3 DEF TypeOK
<1>6. \A u \in Thread : \A h \in use[u] : StaysOrDies(h)
  BY <1>1, <1>5 DEF StaysOrDies
<1>7. ASSUME NEW c \in Finals(rest)
      PROVE  HandlesFit(t, c)'
  <2>1. own' = own /\ EndsWith(x, y, c) /\ use'[t] = using
    BY <1>5 DEF Finals
  <2>2. IsHeld(t, x)' /\ IsHeld(t, y)'
    <3>1. Where[x] # Null => \E h \in p : h \in Program /\ own[h] = Where[x]
      BY <1>1 DEF Paths
    <3>2. Where[y] # Null => \E h \in q : h \in Program /\ own[h] = Where[y]
      BY <1>1 DEF Paths
    <3> QED
      BY <2>1, <3>1, <3>2 DEF IsHeld
  <2>3. c.to \in use'[t] /\ y \in use'[t]
    BY <2>1 DEF EndsWith
  <2> QED
    BY <2>1, <2>2, <2>3 DEF EndsWith, HandlesFit
<1>8. AssignedBy(<<>>) = {} /\ \A kind, o : Count(<<>>, kind, o) = 0
  <2>1. AssignedBy(<<>>) = {}
    BY OrderOfShort DEF AssignedBy
  <2>2. \A kind, o : Places(<<>>, kind, o) = {}
    BY DEF Places
  <2> QED
    BY <2>1, <2>2, FS_EmptySet DEF Count
<1>9. /\ CallsOK' /\ Ordered' /\ IsFiniteSet(Pending')
      /\ \A h : h \in Stale' <=>
             h \in AssignedBy(rest) \/ (h \in Stale /\ h \notin AssignedBy(calls[t]))
      /\ \A kind, o : /\ N(kind, o)' \in Nat
                      /\ N(kind, o)' + Count(calls[t], kind, o) = N(kind, o) + Count(rest, kind, o)
  BY <1>2, <1>5, <1>6, <1>7, OrderStep
<1>10. \A kind, o : N(kind, o) \in Nat
  <2> TAKE kind, o
  <2>1. PendingCalls(kind, o) \subseteq Pending
    BY DEF PendingCalls
  <2> QED
    BY <2>1, FS_Subset, FS_CardinalityType DEF IInv, FiniteInUse, N
<1>11. \A kind, o : N(kind, o)' = N(kind, o) + Count(rest, kind, o)
  <2> TAKE kind, o
  <2>1. N(kind, o)' \in Nat /\ N(kind, o) \in Nat /\ Count(rest, kind, o) \in Nat
    BY <1>9, <1>10, CountIsFinite
  <2>2. N(kind, o)' + 0 = N(kind, o) + Count(rest, kind, o)
    BY <1>1, <1>8, <1>9
  <2> QED
    BY <2>1, <2>2
<1> QED
  BY <1>1, <1>4, <1>5, <1>8, <1>9, <1>11

\* The last call of an operation of t is replaced by s.
LEMMA FinalStep ==
    ASSUME IInv, NEW t \in Thread, calls[t] # <<>>, Top(t).op \notin Releasing,
           NEW s \in Seq(CallRecord), InOrder(s), DeletesAreFollowed(s),
           Continue(t, s, use[t]),
           \A h \in Handle \ use[t] : own'[h] = own[h],
           \A c \in Finals(s) : own' = own /\ HandlesFit(t, c)
    PROVE  /\ CallsOK' /\ Ordered' /\ IsFiniteSet(Pending')
           /\ use' \in [Thread -> SUBSET Handle]
           /\ \A h : h \in Stale' <=>
                  \/ h \in AssignedBy(s)
                  \/ h \in Stale /\ ~(Top(t).op \in Assigning /\ h = Top(t).to)
           /\ \A kind, o : N(kind, o)' \in Nat
           /\ \A kind \in Releasing : \A o : N(kind, o)' = N(kind, o) + Count(s, kind, o)
<1>1. /\ TypeOK /\ CallsOK /\ UsesAreApart
      /\ calls[t] \in Seq(CallRecord) /\ InOrder(calls[t]) /\ DeletesAreFollowed(calls[t])
  BY StaleInUse DEF IInv, CallsOK, ReleasesComeFirst, DeletionsAreFollowed
<1>2. calls[t] = <<Top(t)>> /\ Finals(calls[t]) = {Top(t)} /\ Top(t) \in CallRecord
  BY <1>1, TailOf, OrderOfTail DEF Top
<1>3. /\ calls' = [calls EXCEPT ![t] = s]
      /\ use' = [use EXCEPT ![t] = IF s = <<>> THEN {} ELSE use[t]]
  BY DEF Continue
<1>4. /\ use \in [Thread -> SUBSET Handle]
      /\ use' \in [Thread -> SUBSET Handle]
      /\ s # <<>> => use'[t] = use[t]
      /\ \A u \in Thread \ {t} : use'[u] = use[u] /\ use'[t] \cap use[u] = {}
  BY <1>1, <1>3 DEF TypeOK, UsesAreApart
<1>5. \A u \in Thread \ {t} : \A h \in use[u] : StaysOrDies(h)
  BY <1>1, <1>4 DEF StaysOrDies, UsesAreApart
<1>6. \A c \in Finals(s) : HandlesFit(t, c)'
  <2>1. SUFFICES ASSUME NEW c \in Finals(s)
                 PROVE  HandlesFit(t, c)'
    OBVIOUS
  <2>2. own' = own /\ use'[t] = use[t] /\ HandlesFit(t, c)
    BY <1>4 DEF Finals
  <2> QED
    BY <2>2 DEF HandlesFit, IsHeld
<1>7. /\ CallsOK' /\ Ordered' /\ IsFiniteSet(Pending')
      /\ \A h : h \in Stale' <=>
             h \in AssignedBy(s) \/ (h \in Stale /\ h \notin AssignedBy(calls[t]))
      /\ \A kind, o : /\ N(kind, o)' \in Nat
                      /\ N(kind, o)' + Count(calls[t], kind, o) = N(kind, o) + Count(s, kind, o)
  BY <1>3, <1>4, <1>5, <1>6, OrderStep
<1>8. \A h : h \in AssignedBy(calls[t]) <=> Top(t).op \in Assigning /\ h = Top(t).to
  BY <1>2 DEF AssignedBy
<1>9. \A kind, o : N(kind, o) \in Nat
  <2> TAKE kind, o
  <2>1. PendingCalls(kind, o) \subseteq Pending
    BY DEF PendingCalls
  <2> QED
    BY <2>1, FS_Subset, FS_CardinalityType DEF IInv, FiniteInUse, N
<1>10. \A kind \in Releasing : \A o : N(kind, o)' = N(kind, o) + Count(s, kind, o)
  <2> TAKE kind \in Releasing
  <2> TAKE o
  <2>1. Count(calls[t], kind, o) = 0
    <3>1. Count(<<Top(t)>>, kind, o) = Is(Top(t), kind, o)
      BY <1>2, CountShort
    <3> QED
      BY <1>2, <3>1 DEF Is
  <2>2. N(kind, o)' \in Nat /\ N(kind, o) \in Nat /\ Count(s, kind, o) \in Nat
    BY <1>7, <1>9, CountIsFinite
  <2>3. N(kind, o)' + 0 = N(kind, o) + Count(s, kind, o)
    BY <1>7, <2>1
  <2> QED
    BY <2>2, <2>3
<1> QED
  BY <1>4, <1>7, <1>8, <1>10

-----------------------------------------------------------------------------
(* What the handles hold *)

Owning == {h \in Handle : own[h] # Null}

Own(hs, h, o) == IF h \in hs /\ h \notin Stale /\ own[h] = o THEN 1 ELSE 0

LEMMA OwningIsFinite ==
    ASSUME IInv, NEW x, NEW y,
           \A h \in Handle : own'[h] = own[h] \/ own'[h] = Null \/ h \in {x, y}
    PROVE  IsFiniteSet(Owning')
<1>1. IsFiniteSet(Owning)
  BY DEF IInv, FiniteInUse, Owning
<1>2. IsFiniteSet(Owning \cup {x, y})
  <2>1. IsFiniteSet(Owning \cup {x})
    BY <1>1, FS_AddElement
  <2>2. Owning \cup {x, y} = (Owning \cup {x}) \cup {y}
    OBVIOUS
  <2> QED
    BY <2>1, <2>2, FS_AddElement
<1>3. Owning' \subseteq Owning \cup {x, y}
  BY DEF Owning
<1> QED
  BY <1>2, <1>3, FS_Subset

\* Two handles, or one, change what is held.
LEMMA HoldsChange ==
    ASSUME IInv, IsFiniteSet(Owning'), NEW hs \in {Shared, Weak}, NEW o \in Object, NEW x, NEW y,
           \A h \in hs \ {x, y} : own'[h] = own[h] /\ (h \in Stale' <=> h \in Stale)
    PROVE  /\ H(hs, o) \in Nat /\ H(hs, o)' \in Nat
           /\ x # y => H(hs, o)' + Own(hs, x, o) + Own(hs, y, o)
                         = H(hs, o) + Own(hs, x, o)' + Own(hs, y, o)'
           /\ x = y => H(hs, o)' + Own(hs, x, o) = H(hs, o) + Own(hs, x, o)'
<1> DEFINE S == Holds(hs, o)
           T == Holds(hs, o)'
<1>1. S \subseteq Owning /\ T \subseteq Owning'
  BY HandlesAreApart DEF Holds, Owning, Handle
<1>2. IsFiniteSet(S) /\ IsFiniteSet(T)
  BY <1>1, FS_Subset DEF IInv, FiniteInUse, Owning
<1>3. \A h : h \notin {x, y} => (h \in S <=> h \in T)
  BY DEF Holds
<1>4. \A h : In(h, S) = Own(hs, h, o) /\ In(h, T) = Own(hs, h, o)'
  BY DEF Holds, In, Own
<1>5. Cardinality(S) = H(hs, o) /\ Cardinality(T) = H(hs, o)'
  BY DEF H
<1> HIDE DEF S, T
<1>6. Cardinality(S) \in Nat /\ Cardinality(T) \in Nat
  BY <1>2, FS_CardinalityType
<1>7. ASSUME x # y
      PROVE  Cardinality(T) + In(x, S) + In(y, S) = Cardinality(S) + In(x, T) + In(y, T)
  BY <1>2, <1>3, <1>7, TwoDiffer
<1>8. ASSUME x = y
      PROVE  Cardinality(T) + In(x, S) = Cardinality(S) + In(x, T)
  BY <1>2, <1>3, <1>8, OneDiffers
<1> QED
  BY <1>4, <1>5, <1>6, <1>7, <1>8

-----------------------------------------------------------------------------
(* Operations begin *)

\* What the owner of a handle is released with.
Sub(h) == IF h \in Shared THEN SubStrong(own[h]) ELSE SubWeak(own[h])

LEMMA SubIsRelease ==
    ASSUME TypeOK, NEW h \in Handle
    PROVE  /\ Sub(h) \in Seq(CallRecord) /\ OnlyReleases(Sub(h)) /\ DeletesAreFollowed(Sub(h))
           /\ \A o \in Object :
                /\ Count(Sub(h), "delete_object", o) = 0
                /\ Count(Sub(h), "sub_strong", o) = IF h \in Shared /\ own[h] = o THEN 1 ELSE 0
                /\ Count(Sub(h), "sub_weak", o) = IF h \in Weak /\ own[h] = o THEN 1 ELSE 0
<1> DEFINE c == Call(IF h \in Shared THEN "sub_strong" ELSE "sub_weak", own[h], Null)
<1>1. CASE own[h] = Null
  <2>1. Sub(h) = <<>>
    BY <1>1 DEF Sub, SubStrong, SubWeak
  <2>2. \A kind, o : Count(<<>>, kind, o) = 0
    <3>1. \A kind, o : Places(<<>>, kind, o) = {}
      BY DEF Places
    <3> QED
      BY <3>1, FS_EmptySet DEF Count
  <2> QED
    BY <1>1, <2>1, <2>2, OrderOfShort, HandlesAreApart
<1>2. CASE own[h] # Null
  <2>1. Sub(h) = <<c>> /\ own[h] \in Object
    BY <1>2 DEF Sub, SubStrong, SubWeak, TypeOK
  <2>2. c \in CallRecord /\ c.op = (IF h \in Shared THEN "sub_strong" ELSE "sub_weak") /\ c.to = own[h]
    BY <2>1 DEF Call, CallRecord, Op
  <2> HIDE DEF c
  <2>3. /\ <<c>> \in Seq(CallRecord) /\ DeletesAreFollowed(<<c>>) /\ OnlyReleases(<<c>>)
    BY <2>1, <2>2, OrderOfShort DEF Releasing
  <2>4. \A kind, o : Count(<<c>>, kind, o) = Is(c, kind, o)
    BY <2>2, CountShort
  <2> QED
    BY <2>1, <2>2, <2>3, <2>4, HandlesAreApart DEF Is, Handle
<1> QED
  BY <1>1, <1>2

\* Nothing is released and nothing is going to be assigned.
LEMMA BeginQuietly ==
    ASSUME IInv, NEW t \in Thread, NEW x \in Handle, NEW y \in Handle,
           NEW rest \in Seq(CallRecord),
           rest = <<>> \/ \E c \in CallRecord : /\ rest = <<c>>
                                                /\ c.op = "try_add_strong"
                                                /\ EndsWith(x, y, c),
           Begin(t, x, y, rest),
           UNCHANGED <<own, counts, memory, undefined>>,
           ptr' \in [Shared -> Object \cup {Null}]
    PROVE  IInv'
<1>1. /\ InOrder(rest) /\ DeletesAreFollowed(rest)
      /\ \A c \in Finals(rest) : EndsWith(x, y, c) /\ c.op = "try_add_strong"
      /\ \A kind \in Releasing : \A o : Count(rest, kind, o) = 0
  <2>1. CASE rest = <<>>
    <3>1. \A kind, o : Places(<<>>, kind, o) = {}
      BY DEF Places
    <3> QED
      BY <2>1, <3>1, FS_EmptySet, OrderOfShort DEF Count
  <2>2. CASE rest # <<>>
    <3>1. PICK c \in CallRecord : rest = <<c>> /\ c.op = "try_add_strong" /\ EndsWith(x, y, c)
      BY <2>2
    <3>2. \A kind, o : Count(<<c>>, kind, o) = Is(c, kind, o)
      BY CountShort
    <3> QED
      BY <3>1, <3>2, OrderOfShort DEF Releasing, Is
  <2> QED
    BY <2>1, <2>2
<1>2. /\ CallsOK' /\ Ordered' /\ IsFiniteSet(Pending')
      /\ use' \in [Thread -> SUBSET Handle]
      /\ \A h : h \in Stale' <=> h \in Stale \/ h \in AssignedBy(rest)
      /\ \A kind, o : N(kind, o)' \in Nat /\ N(kind, o)' = N(kind, o) + Count(rest, kind, o)
  BY <1>1, BeginStep
<1>3. AssignedBy(rest) = {} /\ Stale' = Stale
  <2>1. AssignedBy(rest) = {}
    BY <1>1 DEF AssignedBy, Assigning
  <2> QED
    BY <1>2, <2>1 DEF Stale
<1>4. \A kind \in Releasing : \A o \in Object : N(kind, o)' = N(kind, o)
  BY <1>1, <1>2, CountsAreNumbers
<1>5. TypeOK'
  BY <1>2 DEF IInv, TypeOK, CallsOK, CallRecord, counts, memory
<1>6. FiniteInUse'
  BY <1>2 DEF IInv, FiniteInUse
<1>7. \A hs, o : Holds(hs, o)' = Holds(hs, o)
  BY <1>3 DEF Holds
<1>8. CountsAreExact'
  BY <1>4, <1>7 DEF IInv, CountsAreExact, counts, N, Releasing
<1>9. LivesFollowCounts'
  BY <1>4 DEF IInv, LivesFollowCounts, counts, memory, N, Releasing
<1> QED
  BY <1>2, <1>5, <1>6, <1>8, <1>9 DEF IInv, Ordered

\* The owner of x is released, and x waits for its assignment.
LEMMA BeginAssignment ==
    ASSUME IInv, NEW t \in Thread, NEW x \in Handle, NEW y \in Handle,
           NEW c \in CallRecord, c.op \in Assigning, EndsWith(x, y, c),
           Begin(t, x, y, Sub(x) \o <<c>>),
           UNCHANGED <<own, counts, memory, undefined>>,
           ptr' \in [Shared -> Object \cup {Null}]
    PROVE  IInv'
<1> DEFINE rest == Sub(x) \o <<c>>
<1>1. TypeOK /\ c.op \notin Releasing /\ c.op # "delete_object"
  BY DEF IInv, Assigning, Releasing
<1>2. /\ <<c>> \in Seq(CallRecord) /\ DeletesAreFollowed(<<c>>)
      /\ InOrder(<<c>>) /\ Finals(<<c>>) = {c}
  BY <1>1, OrderOfShort
<1>3. /\ Sub(x) \in Seq(CallRecord) /\ OnlyReleases(Sub(x)) /\ DeletesAreFollowed(Sub(x))
      /\ \A o \in Object :
           /\ Count(Sub(x), "delete_object", o) = 0
           /\ Count(Sub(x), "sub_strong", o) = IF x \in Shared /\ own[x] = o THEN 1 ELSE 0
           /\ Count(Sub(x), "sub_weak", o) = IF x \in Weak /\ own[x] = o THEN 1 ELSE 0
  BY <1>1, SubIsRelease
<1>4. \A kind, o : Count(rest, kind, o) = Count(Sub(x), kind, o) + Is(c, kind, o)
  <2> TAKE kind, o
  <2> DEFINE r == Sub(x)
             s == <<c>>
  <2>1. Count(s, kind, o) = Is(c, kind, o)
    BY CountShort
  <2>2. r \in Seq(CallRecord) /\ s \in Seq(CallRecord)
    BY <1>2, <1>3
  <2> HIDE DEF r, s
  <2>3. Count(r \o s, kind, o) = Count(r, kind, o) + Count(s, kind, o)
    BY <2>2, CountConcat
  <2> QED
    BY <2>1, <2>3 DEF r, s
<1>5. /\ rest \in Seq(CallRecord) /\ InOrder(rest) /\ DeletesAreFollowed(rest)
      /\ Finals(rest) = {c}
  <2> DEFINE r == Sub(x)
             s == <<c>>
  <2>1. /\ r \in Seq(CallRecord) /\ OnlyReleases(r) /\ DeletesAreFollowed(r)
        /\ s \in Seq(CallRecord) /\ InOrder(s) /\ DeletesAreFollowed(s) /\ Finals(s) = {c}
    BY <1>2, <1>3
  <2> HIDE DEF r, s
  <2>2. /\ r \o s \in Seq(CallRecord)
        /\ InOrder(r \o s) /\ DeletesAreFollowed(r \o s)
        /\ Finals(r \o s) = Finals(s)
    BY <2>1, OrderOfConcat
  <2> QED
    BY <2>1, <2>2 DEF r, s
<1>6. AssignedBy(rest) = {x}
  BY <1>5 DEF AssignedBy, EndsWith
<1> HIDE DEF rest
<1>7. /\ CallsOK' /\ Ordered' /\ IsFiniteSet(Pending')
      /\ use' \in [Thread -> SUBSET Handle]
      /\ x \notin Stale
      /\ \A h : h \in Stale' <=> h \in Stale \/ h \in AssignedBy(rest)
      /\ \A kind, o : N(kind, o)' \in Nat /\ N(kind, o)' = N(kind, o) + Count(rest, kind, o)
  <2>1. Begin(t, x, y, rest)
    BY DEF rest
  <2>2. \A d \in Finals(rest) : own' = own /\ EndsWith(x, y, d)
    BY <1>5
  <2> QED
    BY <1>5, <2>1, <2>2, BeginStep
<1>8. TypeOK'
  BY <1>1, <1>7 DEF TypeOK, CallsOK, CallRecord, counts, memory
<1>9. FiniteInUse' /\ IsFiniteSet(Owning')
  BY <1>7 DEF IInv, FiniteInUse, Owning
<1>10. ASSUME NEW o \in Object
       PROVE  /\ N("delete_object", o)' = N("delete_object", o)
              /\ strong[o] = H(Shared, o)' + N("sub_strong", o)'
              /\ weak[o] = H(Weak, o)' + N("sub_weak", o)' + (IF strong[o] > 0 THEN 1 ELSE 0)
  <2>1. /\ \A kind : N(kind, o) \in Nat
        /\ strong[o] = H(Shared, o) + N("sub_strong", o)
        /\ weak[o] = H(Weak, o) + N("sub_weak", o) + (IF strong[o] > 0 THEN 1 ELSE 0)
    BY CountsAreNumbers
  <2>2. \A kind \in Releasing : N(kind, o)' = N(kind, o) + Count(Sub(x), kind, o)
    <3> TAKE kind \in Releasing
    <3>1. Is(c, kind, o) = 0
      BY <1>1 DEF Is
    <3>2. Count(Sub(x), kind, o) \in Nat
      BY <1>3, CountIsFinite
    <3> QED
      BY <1>4, <1>7, <3>1, <3>2
  <2>3. \A hs \in {Shared, Weak} :
            /\ H(hs, o) \in Nat /\ H(hs, o)' \in Nat
            /\ H(hs, o)' + Own(hs, x, o) = H(hs, o) + Own(hs, x, o)'
    BY <1>6, <1>7, <1>9, HoldsChange
  <2>4. \A hs : Own(hs, x, o)' = 0 /\ Own(hs, x, o) = IF x \in hs /\ own[x] = o THEN 1 ELSE 0
    BY <1>6, <1>7 DEF Own
  <2>5. N("delete_object", o)' = N("delete_object", o)
    BY <1>3, <2>1, <2>2 DEF Releasing
  <2>6. H(Shared, o)' + N("sub_strong", o)' = H(Shared, o) + N("sub_strong", o)
    <3> DEFINE one == IF x \in Shared /\ own[x] = o THEN 1 ELSE 0
    <3>1. N("sub_strong", o) \in Nat /\ N("sub_strong", o)' = N("sub_strong", o) + one
      BY <1>3, <2>1, <2>2 DEF Releasing
    <3>2. H(Shared, o) \in Nat /\ H(Shared, o)' \in Nat /\ H(Shared, o)' + one = H(Shared, o) + 0
      BY <2>3, <2>4
    <3>3. one \in Nat
      OBVIOUS
    <3> HIDE DEF one
    <3> QED
      BY <3>1, <3>2, <3>3
  <2>7. H(Weak, o)' + N("sub_weak", o)' = H(Weak, o) + N("sub_weak", o)
    <3> DEFINE one == IF x \in Weak /\ own[x] = o THEN 1 ELSE 0
    <3>1. N("sub_weak", o) \in Nat /\ N("sub_weak", o)' = N("sub_weak", o) + one
      BY <1>3, <2>1, <2>2 DEF Releasing
    <3>2. H(Weak, o) \in Nat /\ H(Weak, o)' \in Nat /\ H(Weak, o)' + one = H(Weak, o) + 0
      BY <2>3, <2>4
    <3>3. one \in Nat
      OBVIOUS
    <3> HIDE DEF one
    <3> QED
      BY <3>1, <3>2, <3>3
  <2> QED
    BY <2>1, <2>5, <2>6, <2>7
<1>11. CountsAreExact'
  BY <1>10 DEF CountsAreExact, counts, N, H
<1>12. LivesFollowCounts'
  BY <1>10 DEF IInv, LivesFollowCounts, counts, memory, N
<1> QED
  BY <1>7, <1>8, <1>9, <1>11, <1>12 DEF IInv, Ordered

LEMMA OperationsBegin ==
    ASSUME IInv, NEW t \in Thread,
           \/ \E x, y \in Shared : AssignShared(t, x, y) \/ MoveAssignShared(t, x, y)
           \/ \E x \in Shared : ResetShared(t, x)
           \/ \E x \in Weak, y \in Handle : AssignWeak(t, x, y)
           \/ \E x, y \in Weak : MoveAssignWeak(t, x, y)
           \/ \E x \in Weak : ResetWeak(t, x)
           \/ \E x \in Shared, y \in Weak : Lock(t, x, y)
    PROVE  IInv'
<1>1. TypeOK /\ Shared \subseteq Handle /\ Weak \subseteq Handle /\ Shared \cap Weak = {}
  BY HandlesAreApart DEF IInv, Handle
<1>2. /\ \A x \in Shared : x \in Handle /\ Sub(x) = SubStrong(own[x])
      /\ \A x \in Weak : x \in Handle /\ Sub(x) = SubWeak(own[x])
  BY <1>1 DEF Sub
<1>3. \A op \in Assigning : \A x, y \in Handle :
          LET c == Call(op, x, y)
          IN  c \in CallRecord /\ c.op = op /\ c.to = x /\ c.from = y
  BY DEF Call, CallRecord, Op, Assigning
<1>4. \A x \in Handle :
          LET c == Call("clear", x, Null)
          IN  c \in CallRecord /\ c.op = "clear" /\ c.to = x
  BY DEF Call, CallRecord, Op
<1>5. ASSUME NEW x \in Shared, NEW y \in Shared, AssignShared(t, x, y)
      PROVE  IInv'
  <2>1. /\ UNCHANGED <<own, counts, memory, undefined>>
        /\ ptr' \in [Shared -> Object \cup {Null}]
    BY <1>1, <1>5 DEF AssignShared, TypeOK
  <2>2. CASE ReplacesOwner(x, y)
    <3> DEFINE c == Call("take_strong", x, y)
    <3>1. c \in CallRecord /\ c.op = "take_strong" /\ c.to = x /\ c.from = y
      BY <1>1, <1>3 DEF Assigning
    <3>2. Begin(t, x, y, Sub(x) \o <<c>>)
      BY <1>2, <1>5, <2>2 DEF AssignShared
    <3> HIDE DEF c
    <3>3. EndsWith(x, y, c) /\ c.op \in Assigning
      BY <2>2, <3>1 DEF EndsWith, ReplacesOwner, Assigning
    <3> QED
      BY <1>1, <2>1, <3>1, <3>2, <3>3, BeginAssignment DEF IInv
  <2>3. CASE ~ReplacesOwner(x, y)
    <3>1. Begin(t, x, y, <<>>) /\ <<>> \in Seq(CallRecord)
      BY <1>5, <2>3 DEF AssignShared
    <3> QED
      BY <1>1, <2>1, <3>1, BeginQuietly
  <2> QED
    BY <2>2, <2>3
<1>6. ASSUME NEW x \in Shared, NEW y \in Shared, MoveAssignShared(t, x, y)
      PROVE  IInv'
  <2> DEFINE c == Call("move_owner", x, y)
  <2>1. /\ UNCHANGED <<own, counts, memory, undefined>>
        /\ ptr' \in [Shared -> Object \cup {Null}]
    BY <1>1, <1>6 DEF MoveAssignShared, TypeOK
  <2>2. c \in CallRecord /\ c.op = "move_owner" /\ c.to = x /\ c.from = y
    BY <1>1, <1>3 DEF Assigning
  <2>3. Begin(t, x, y, Sub(x) \o <<c>>)
    BY <1>2, <1>6 DEF MoveAssignShared
  <2> HIDE DEF c
  <2>4. EndsWith(x, y, c) /\ c.op \in Assigning
    BY <2>2 DEF EndsWith, Assigning
  <2> QED
    BY <1>1, <2>1, <2>2, <2>3, <2>4, BeginAssignment
<1>7. ASSUME NEW x \in Shared, ResetShared(t, x)
      PROVE  IInv'
  <2> DEFINE c == Call("clear", x, Null)
  <2>1. /\ UNCHANGED <<own, counts, memory, undefined>>
        /\ ptr' \in [Shared -> Object \cup {Null}]
    BY <1>1, <1>7 DEF ResetShared, TypeOK
  <2>2. c \in CallRecord /\ c.op = "clear" /\ c.to = x
    BY <1>1, <1>4
  <2>3. Begin(t, x, x, Sub(x) \o <<c>>)
    BY <1>2, <1>7 DEF ResetShared
  <2> HIDE DEF c
  <2>4. EndsWith(x, x, c) /\ c.op \in Assigning
    BY <2>2 DEF EndsWith, Assigning
  <2> QED
    BY <1>1, <2>1, <2>2, <2>3, <2>4, BeginAssignment
<1>8. ASSUME NEW x \in Weak, NEW y \in Handle, AssignWeak(t, x, y)
      PROVE  IInv'
  <2> DEFINE c == Call("take_weak", x, y)
  <2>1. /\ UNCHANGED <<own, counts, memory, undefined>>
        /\ ptr' \in [Shared -> Object \cup {Null}]
    BY <1>1, <1>8 DEF AssignWeak, TypeOK, handles
  <2>2. c \in CallRecord /\ c.op = "take_weak" /\ c.to = x /\ c.from = y
    BY <1>1, <1>3 DEF Assigning
  <2>3. Begin(t, x, y, Sub(x) \o <<c>>) /\ x # y
    BY <1>2, <1>8 DEF AssignWeak
  <2> HIDE DEF c
  <2>4. EndsWith(x, y, c) /\ c.op \in Assigning
    BY <2>2, <2>3 DEF EndsWith, Assigning
  <2> QED
    BY <1>1, <2>1, <2>2, <2>3, <2>4, BeginAssignment
<1>9. ASSUME NEW x \in Weak, NEW y \in Weak, MoveAssignWeak(t, x, y)
      PROVE  IInv'
  <2> DEFINE c == Call("move_owner", x, y)
  <2>1. /\ UNCHANGED <<own, counts, memory, undefined>>
        /\ ptr' \in [Shared -> Object \cup {Null}]
    BY <1>1, <1>9 DEF MoveAssignWeak, TypeOK, handles
  <2>2. c \in CallRecord /\ c.op = "move_owner" /\ c.to = x /\ c.from = y
    BY <1>1, <1>3 DEF Assigning
  <2>3. Begin(t, x, y, Sub(x) \o <<c>>)
    BY <1>2, <1>9 DEF MoveAssignWeak
  <2> HIDE DEF c
  <2>4. EndsWith(x, y, c) /\ c.op \in Assigning
    BY <1>1, <2>2 DEF EndsWith, Assigning
  <2> QED
    BY <1>1, <2>1, <2>2, <2>3, <2>4, BeginAssignment
<1>10. ASSUME NEW x \in Weak, ResetWeak(t, x)
       PROVE  IInv'
  <2> DEFINE c == Call("clear", x, Null)
  <2>1. /\ UNCHANGED <<own, counts, memory, undefined>>
        /\ ptr' \in [Shared -> Object \cup {Null}]
    BY <1>1, <1>10 DEF ResetWeak, TypeOK, handles
  <2>2. c \in CallRecord /\ c.op = "clear" /\ c.to = x
    BY <1>1, <1>4
  <2>3. Begin(t, x, x, Sub(x) \o <<c>>)
    BY <1>2, <1>10 DEF ResetWeak
  <2> HIDE DEF c
  <2>4. EndsWith(x, x, c) /\ c.op \in Assigning
    BY <2>2 DEF EndsWith, Assigning
  <2> QED
    BY <1>1, <2>1, <2>2, <2>3, <2>4, BeginAssignment
<1>11. ASSUME NEW x \in Shared, NEW y \in Weak, Lock(t, x, y)
       PROVE  IInv'
  <2>1. /\ UNCHANGED <<own, counts, memory, undefined>>
        /\ ptr' \in [Shared -> Object \cup {Null}]
        /\ own[x] = Null /\ own[y] # Null /\ own[y] \in Object /\ strong[own[y]] \in Nat
    BY <1>1, <1>11 DEF Lock, TypeOK, handles, Empty
  <2>2. CASE strong[own[y]] = 0
    <3>1. Begin(t, x, y, <<>>) /\ <<>> \in Seq(CallRecord)
      BY <1>11, <2>2 DEF Lock
    <3> QED
      BY <1>1, <2>1, <3>1, BeginQuietly
  <2>3. CASE strong[own[y]] # 0
    <3> DEFINE c == [Call("try_add_strong", x, y) EXCEPT !.seen = strong[own[y]]]
               rest == <<c>>
    <3>1. c \in CallRecord /\ c.op = "try_add_strong" /\ c.to = x /\ c.from = y
          /\ c.seen = strong[own[y]]
      BY <1>1, <2>1 DEF Call, CallRecord, Op
    <3>2. Begin(t, x, y, rest)
      BY <1>11, <2>3 DEF Lock
    <3> HIDE DEF c
    <3>3. EndsWith(x, y, c)
      BY <2>1, <2>3, <3>1 DEF EndsWith
    <3>4. rest \in Seq(CallRecord) /\ \E d \in CallRecord :
              rest = <<d>> /\ d.op = "try_add_strong" /\ EndsWith(x, y, d)
      BY <3>1, <3>3
    <3> HIDE DEF rest
    <3> QED
      BY <1>1, <2>1, <3>2, <3>4, BeginQuietly
  <2> QED
    BY <2>2, <2>3
<1> QED
  BY <1>5, <1>6, <1>7, <1>8, <1>9, <1>10, <1>11

LEMMA MakePreserves ==
    ASSUME IInv, NEW t \in Thread, NEW x \in Shared, NEW made \in Object, Make(t, x, made)
    PROVE  IInv'
<1> DEFINE rest == SubStrong(own[x])
<1>1. /\ TypeOK /\ x \in Handle /\ Null \notin Object /\ Shared \cap Weak = {}
      /\ rest = Sub(x)
      /\ rest \in Seq(CallRecord) /\ OnlyReleases(rest) /\ DeletesAreFollowed(rest)
      /\ \A o \in Object :
           /\ Count(rest, "delete_object", o) = 0
           /\ Count(rest, "sub_strong", o) = IF own[x] = o THEN 1 ELSE 0
           /\ Count(rest, "sub_weak", o) = 0
  <2>1. TypeOK /\ x \in Handle /\ Null \notin Object /\ x \notin Weak /\ Shared \cap Weak = {}
    BY HandlesAreApart DEF IInv, Handle
  <2>2. rest = Sub(x)
    BY DEF Sub
  <2> QED
    BY <2>1, <2>2, SubIsRelease
<1>2. /\ object[made] = "none" /\ Begin(t, x, x, rest)
      /\ ptr'    = [ptr EXCEPT ![x] = made]
      /\ own'    = [own EXCEPT ![x] = made]
      /\ strong' = [strong EXCEPT ![made] = 1]
      /\ weak'   = [weak EXCEPT ![made] = 1]
      /\ object' = [object EXCEPT ![made] = "live"]
      /\ block'  = [block EXCEPT ![made] = "live"]
      /\ undefined' = undefined
  BY DEF Make
<1> HIDE DEF rest
<1>3. InOrder(rest) /\ Finals(rest) = {} /\ AssignedBy(rest) = {}
  <2>1. rest \o <<>> = rest
    BY <1>1
  <2>2. InOrder(rest \o <<>>) /\ Finals(rest \o <<>>) = {}
    <3> DEFINE e == <<>>
    <3>1. e \in Seq(CallRecord) /\ InOrder(e) /\ DeletesAreFollowed(e) /\ Finals(e) = {}
      BY OrderOfShort
    <3> HIDE DEF e
    <3>2. InOrder(rest \o e) /\ Finals(rest \o e) = Finals(e)
      BY <1>1, <3>1, OrderOfConcat
    <3> QED
      BY <3>1, <3>2 DEF e
  <2> QED
    BY <2>1, <2>2 DEF AssignedBy
<1>4. /\ CallsOK' /\ Ordered' /\ IsFiniteSet(Pending')
      /\ use' \in [Thread -> SUBSET Handle]
      /\ x \notin Stale
      /\ \A h : h \in Stale' <=> h \in Stale \/ h \in AssignedBy(rest)
      /\ \A kind, o : N(kind, o)' \in Nat /\ N(kind, o)' = N(kind, o) + Count(rest, kind, o)
  <2>1. \A h \in Handle \ {x, x} : own'[h] = own[h]
    BY <1>1, <1>2 DEF TypeOK
  <2> QED
    BY <1>1, <1>2, <1>3, <2>1, BeginStep
<1>5. TypeOK'
  BY <1>1, <1>2, <1>4 DEF TypeOK, CallsOK, CallRecord
<1>6. IsFiniteSet(Owning') /\ FiniteInUse'
  <2>1. \A h \in Handle : own'[h] = own[h] \/ own'[h] = Null \/ h \in {x, x}
    BY <1>1, <1>2 DEF TypeOK
  <2> QED
    BY <1>4, <2>1, OwningIsFinite DEF FiniteInUse, Owning
<1>7. ASSUME NEW o \in Object
      PROVE  /\ N("delete_object", o)' = N("delete_object", o)
             /\ strong[o] \in Nat /\ weak[o] \in Nat
             /\ strong'[o] = H(Shared, o)' + N("sub_strong", o)'
             /\ weak'[o] = H(Weak, o)' + N("sub_weak", o)' + (IF strong'[o] > 0 THEN 1 ELSE 0)
  <2> DEFINE was == IF own[x] = o THEN 1 ELSE 0
             is == IF made = o THEN 1 ELSE 0
  <2>1. /\ \A kind : N(kind, o) \in Nat
        /\ strong[o] \in Nat /\ weak[o] \in Nat
        /\ strong[o] = H(Shared, o) + N("sub_strong", o)
        /\ weak[o] = H(Weak, o) + N("sub_weak", o) + (IF strong[o] > 0 THEN 1 ELSE 0)
    BY CountsAreNumbers
  <2>2. /\ N("delete_object", o)' = N("delete_object", o)
        /\ N("sub_strong", o)' = N("sub_strong", o) + was
        /\ N("sub_weak", o)' = N("sub_weak", o)
    BY <1>1, <1>4, <2>1
  <2>3. \A hs \in {Shared, Weak} :
            /\ H(hs, o) \in Nat /\ H(hs, o)' \in Nat
            /\ H(hs, o)' + Own(hs, x, o) = H(hs, o) + Own(hs, x, o)'
    <3> TAKE hs \in {Shared, Weak}
    <3>1. \A h \in hs \ {x, x} : own'[h] = own[h] /\ (h \in Stale' <=> h \in Stale)
      BY <1>1, <1>2, <1>3, <1>4 DEF TypeOK, Handle
    <3> QED
      BY <1>6, <3>1, HoldsChange
  <2>4. /\ Own(Shared, x, o) = was /\ Own(Shared, x, o)' = is
        /\ Own(Weak, x, o) = 0 /\ Own(Weak, x, o)' = 0
    BY <1>1, <1>2, <1>3, <1>4 DEF Own, TypeOK
  <2>5. H(Weak, o)' = H(Weak, o) /\ H(Weak, o) \in Nat
    BY <2>3, <2>4
  <2>6. was \in Nat /\ is \in Nat
    OBVIOUS
  <2>7. H(Shared, o)' + N("sub_strong", o)' = strong[o] + is
    <3>1. H(Shared, o)' + was = H(Shared, o) + is /\ H(Shared, o) \in Nat /\ H(Shared, o)' \in Nat
      BY <2>3, <2>4
    <3> HIDE DEF was, is
    <3> QED
      BY <2>1, <2>2, <2>6, <3>1
  <2>8. made = o => strong[o] = 0 /\ weak[o] = 0 /\ strong'[o] = 1 /\ weak'[o] = 1
    BY <1>1, <1>2 DEF TypeOK, IInv, LivesFollowCounts
  <2>9. made # o => strong'[o] = strong[o] /\ weak'[o] = weak[o]
    BY <1>1, <1>2 DEF TypeOK
  <2>10. strong'[o] = H(Shared, o)' + N("sub_strong", o)'
    BY <2>1, <2>7, <2>8, <2>9
  <2>11. weak'[o] = H(Weak, o)' + N("sub_weak", o)' + (IF strong'[o] > 0 THEN 1 ELSE 0)
    BY <2>1, <2>2, <2>5, <2>8, <2>9
  <2> QED
    BY <2>1, <2>2, <2>10, <2>11
<1>8. CountsAreExact'
  BY <1>7 DEF CountsAreExact, N, H
<1>9. LivesFollowCounts'
  <2> SUFFICES ASSUME NEW o \in Object
               PROVE  /\ object'[o] = "none" => strong'[o] = 0 /\ weak'[o] = 0
                      /\ strong'[o] > 0 => object'[o] = "live"
                      /\ block'[o] = "live" <=> weak'[o] > 0
                      /\ N("delete_object", o)' > 0 =>
                            N("delete_object", o)' = 1 /\ strong'[o] = 0 /\ object'[o] = "live"
    BY DEF LivesFollowCounts, N
  <2>1. /\ object[o] = "none" => strong[o] = 0 /\ weak[o] = 0
        /\ strong[o] > 0 => object[o] = "live"
        /\ block[o] = "live" <=> weak[o] > 0
        /\ N("delete_object", o) > 0 =>
              N("delete_object", o) = 1 /\ strong[o] = 0 /\ object[o] = "live"
    BY DEF IInv, LivesFollowCounts, N
  <2> QED
    BY <1>1, <1>2, <1>7, <2>1 DEF TypeOK
<1> QED
  BY <1>4, <1>5, <1>6, <1>8, <1>9 DEF IInv, Ordered

-----------------------------------------------------------------------------
(* Handles are assigned *)

\* What two handles, or one, contribute to the count of an object.
Both(hs, x, y, o) == Own(hs, x, o) + (IF x = y THEN 0 ELSE Own(hs, y, o))

\* Owners and counts change together, and no object gets or loses its last owner.
LEMMA AssignmentPreserves ==
    ASSUME IInv,
           CallsOK' /\ Ordered' /\ IsFiniteSet(Pending'),
           use' \in [Thread -> SUBSET Handle],
           ptr' \in [Shared -> Object \cup {Null}],
           own' \in [Handle -> Object \cup {Null}],
           strong' \in [Object -> Nat], weak' \in [Object -> Nat],
           UNCHANGED <<memory, undefined>>,
           NEW x \in Handle, NEW y \in Handle,
           \A h \in Handle \ {x, y} : own'[h] = own[h] /\ (h \in Stale' <=> h \in Stale),
           \A kind \in Releasing : \A o \in Object : N(kind, o)' = N(kind, o),
           \A o \in Object :
              /\ strong'[o] + Both(Shared, x, y, o) = strong[o] + Both(Shared, x, y, o)'
              /\ weak'[o] + Both(Weak, x, y, o) = weak[o] + Both(Weak, x, y, o)'
              /\ strong'[o] > 0 <=> strong[o] > 0
              /\ weak'[o] > 0 <=> weak[o] > 0
    PROVE  IInv'
<1>1. TypeOK'
  BY DEF IInv, TypeOK, CallsOK, CallRecord, memory
<1>2. IsFiniteSet(Owning') /\ FiniteInUse'
  <2>1. IsFiniteSet(Owning')
    <3>1. \A h \in Handle : own'[h] = own[h] \/ own'[h] = Null \/ h \in {x, y}
      OBVIOUS
    <3> QED
      BY <3>1, OwningIsFinite
  <2> QED
    BY <2>1 DEF FiniteInUse, Owning
<1>3. ASSUME NEW o \in Object
      PROVE  /\ strong'[o] = H(Shared, o)' + N("sub_strong", o)'
             /\ weak'[o] = H(Weak, o)' + N("sub_weak", o)' + (IF strong'[o] > 0 THEN 1 ELSE 0)
  <2>1. /\ \A kind : N(kind, o) \in Nat
        /\ strong[o] \in Nat /\ weak[o] \in Nat
        /\ strong[o] = H(Shared, o) + N("sub_strong", o)
        /\ weak[o] = H(Weak, o) + N("sub_weak", o) + (IF strong[o] > 0 THEN 1 ELSE 0)
    BY CountsAreNumbers
  <2>2. \A hs \in {Shared, Weak} :
            /\ H(hs, o) \in Nat /\ H(hs, o)' \in Nat
            /\ Both(hs, x, y, o) \in Nat /\ Both(hs, x, y, o)' \in Nat
            /\ H(hs, o)' + Both(hs, x, y, o) = H(hs, o) + Both(hs, x, y, o)'
    <3> TAKE hs \in {Shared, Weak}
    <3>1. \A h \in hs \ {x, y} : own'[h] = own[h] /\ (h \in Stale' <=> h \in Stale)
      BY DEF Handle
    <3>2. /\ H(hs, o) \in Nat /\ H(hs, o)' \in Nat
          /\ x # y => H(hs, o)' + Own(hs, x, o) + Own(hs, y, o)
                        = H(hs, o) + Own(hs, x, o)' + Own(hs, y, o)'
          /\ x = y => H(hs, o)' + Own(hs, x, o) = H(hs, o) + Own(hs, x, o)'
      BY <1>2, <3>1, HoldsChange, SMTT(60)
    <3>3. \A h : Own(hs, h, o) \in Nat /\ Own(hs, h, o)' \in Nat
      BY DEF Own
    <3> QED
      BY <3>2, <3>3 DEF Both
  <2>3. /\ strong'[o] \in Nat /\ weak'[o] \in Nat
        /\ strong'[o] + Both(Shared, x, y, o) = strong[o] + Both(Shared, x, y, o)'
        /\ weak'[o] + Both(Weak, x, y, o) = weak[o] + Both(Weak, x, y, o)'
        /\ strong'[o] > 0 <=> strong[o] > 0
        /\ N("sub_strong", o)' = N("sub_strong", o) /\ N("sub_weak", o)' = N("sub_weak", o)
    BY DEF Releasing
  <2>4. /\ H(Shared, o) \in Nat /\ H(Shared, o)' \in Nat
        /\ Both(Shared, x, y, o) \in Nat /\ Both(Shared, x, y, o)' \in Nat
        /\ H(Shared, o)' + Both(Shared, x, y, o) = H(Shared, o) + Both(Shared, x, y, o)'
    BY <2>2
  <2>5. /\ H(Weak, o) \in Nat /\ H(Weak, o)' \in Nat
        /\ Both(Weak, x, y, o) \in Nat /\ Both(Weak, x, y, o)' \in Nat
        /\ H(Weak, o)' + Both(Weak, x, y, o) = H(Weak, o) + Both(Weak, x, y, o)'
    BY <2>2
  <2>6. strong'[o] = H(Shared, o)' + N("sub_strong", o)'
    BY <2>1, <2>3, <2>4
  <2>7. weak'[o] = H(Weak, o)' + N("sub_weak", o)' + (IF strong'[o] > 0 THEN 1 ELSE 0)
    BY <2>1, <2>3, <2>5
  <2> QED
    BY <2>6, <2>7
<1>4. CountsAreExact'
  BY <1>3 DEF CountsAreExact, N, H
<1>5. LivesFollowCounts'
  <2> SUFFICES ASSUME NEW o \in Object
               PROVE  /\ object'[o] = "none" => strong'[o] = 0 /\ weak'[o] = 0
                      /\ strong'[o] > 0 => object'[o] = "live"
                      /\ block'[o] = "live" <=> weak'[o] > 0
                      /\ N("delete_object", o)' > 0 =>
                            N("delete_object", o)' = 1 /\ strong'[o] = 0 /\ object'[o] = "live"
    BY DEF LivesFollowCounts, N
  <2>1. /\ object[o] = "none" => strong[o] = 0 /\ weak[o] = 0
        /\ strong[o] > 0 => object[o] = "live"
        /\ block[o] = "live" <=> weak[o] > 0
        /\ N("delete_object", o) > 0 =>
              N("delete_object", o) = 1 /\ strong[o] = 0 /\ object[o] = "live"
    BY DEF IInv, LivesFollowCounts, N
  <2>2. /\ strong[o] \in Nat /\ strong'[o] \in Nat /\ weak[o] \in Nat /\ weak'[o] \in Nat
        /\ N("delete_object", o)' = N("delete_object", o)
        /\ object'[o] = object[o] /\ block'[o] = block[o]
        /\ strong'[o] > 0 <=> strong[o] > 0
        /\ weak'[o] > 0 <=> weak[o] > 0
    BY DEF IInv, TypeOK, memory, Releasing
  <2> QED
    BY <2>1, <2>2
<1> QED
  BY <1>1, <1>2, <1>4, <1>5 DEF IInv, Ordered

\* An operation that is over as soon as it has begun.
LEMMA BeginAndEnd ==
    ASSUME IInv, NEW t \in Thread, NEW x \in Handle, NEW y \in Handle, Begin(t, x, y, <<>>),
           \A h \in Handle \ {x, y} : own'[h] = own[h]
    PROVE  /\ CallsOK' /\ Ordered' /\ IsFiniteSet(Pending')
           /\ use' \in [Thread -> SUBSET Handle]
           /\ x \notin Stale /\ y \notin Stale
           /\ \A h : h \in Stale' <=> h \in Stale
           /\ \A kind \in Releasing : \A o \in Object : N(kind, o)' = N(kind, o)
<1> DEFINE rest == <<>>
<1>1. /\ rest \in Seq(CallRecord) /\ InOrder(rest) /\ DeletesAreFollowed(rest)
      /\ Finals(rest) = {} /\ AssignedBy(rest) = {}
  BY OrderOfShort DEF AssignedBy
<1>2. \A kind, o : Count(rest, kind, o) = 0
  <2>1. \A kind, o : Places(rest, kind, o) = {}
    BY DEF Places
  <2> QED
    BY <2>1, FS_EmptySet DEF Count
<1> HIDE DEF rest
<1>3. Begin(t, x, y, rest)
  BY DEF rest
<1>4. /\ CallsOK' /\ Ordered' /\ IsFiniteSet(Pending')
      /\ use' \in [Thread -> SUBSET Handle]
      /\ x \notin Stale /\ y \notin Stale
      /\ \A h : h \in Stale' <=> h \in Stale \/ h \in AssignedBy(rest)
      /\ \A kind, o : N(kind, o)' \in Nat /\ N(kind, o)' = N(kind, o) + Count(rest, kind, o)
  BY <1>1, <1>3, BeginStep
<1>5. \A kind : \A o \in Object : N(kind, o) \in Nat
  BY CountsAreNumbers
<1> QED
  BY <1>1, <1>2, <1>4, <1>5

LEMMA CopyPreserves ==
    ASSUME IInv, NEW t \in Thread, NEW x \in Shared, NEW y \in Shared, CopyShared(t, x, y)
    PROVE  IInv' /\ strong[own[y]] > 0 /\ own[y] \in Object
<1> DEFINE o1 == own[y]
<1>1. /\ TypeOK /\ x \in Handle /\ y \in Handle /\ Null \notin Object /\ x \notin Weak
      /\ y \notin Weak
  BY HandlesAreApart DEF IInv, Handle
<1>2. /\ own[x] = Null /\ o1 # Null /\ o1 \in Object /\ x # y
      /\ Begin(t, x, y, <<>>)
      /\ ptr'    = [ptr EXCEPT ![x] = ptr[y]]
      /\ own'    = [own EXCEPT ![x] = o1]
      /\ strong' = [strong EXCEPT ![o1] = @ + 1]
      /\ UNCHANGED <<weak, memory, undefined>>
  BY <1>1 DEF CopyShared, Empty, TypeOK
<1>3. \A h \in Handle \ {x, y} : own'[h] = own[h]
  BY <1>1, <1>2 DEF TypeOK
<1>4. /\ CallsOK' /\ Ordered' /\ IsFiniteSet(Pending')
      /\ use' \in [Thread -> SUBSET Handle]
      /\ x \notin Stale /\ y \notin Stale
      /\ \A h : h \in Stale' <=> h \in Stale
      /\ \A kind \in Releasing : \A o \in Object : N(kind, o)' = N(kind, o)
  BY <1>1, <1>2, <1>3, BeginAndEnd
<1>5. strong[o1] > 0
  BY <1>1, <1>2, <1>4, OwnersAreCounted
<1>6. /\ own' \in [Handle -> Object \cup {Null}] /\ own'[x] = o1 /\ own'[y] = o1
      /\ ptr' \in [Shared -> Object \cup {Null}]
      /\ strong' \in [Object -> Nat] /\ weak' \in [Object -> Nat]
  BY <1>1, <1>2 DEF TypeOK
<1>7. ASSUME NEW o \in Object
      PROVE  /\ strong'[o] + Both(Shared, x, y, o) = strong[o] + Both(Shared, x, y, o)'
             /\ weak'[o] + Both(Weak, x, y, o) = weak[o] + Both(Weak, x, y, o)'
             /\ strong'[o] > 0 <=> strong[o] > 0
             /\ weak'[o] > 0 <=> weak[o] > 0
  <2>1. /\ Both(Weak, x, y, o) = 0 /\ Both(Weak, x, y, o)' = 0
        /\ Both(Shared, x, y, o) = IF o1 = o THEN 1 ELSE 0
        /\ Both(Shared, x, y, o)' = IF o1 = o THEN 2 ELSE 0
    BY <1>1, <1>2, <1>4, <1>6 DEF Both, Own
  <2>2. /\ strong[o] \in Nat /\ weak[o] \in Nat /\ weak'[o] = weak[o]
        /\ strong'[o] = strong[o] + (IF o1 = o THEN 1 ELSE 0)
    BY <1>1, <1>2 DEF TypeOK
  <2> QED
    BY <1>5, <2>1, <2>2
<1>8. IInv'
  BY <1>1, <1>2, <1>3, <1>4, <1>6, <1>7, AssignmentPreserves
<1> QED
  BY <1>2, <1>5, <1>8

LEMMA SwapPreserves ==
    ASSUME IInv, NEW t \in Thread, NEW x \in Shared, NEW y \in Shared, Swap(t, x, y)
    PROVE  IInv'
<1>1. /\ TypeOK /\ x \in Handle /\ y \in Handle /\ x \notin Weak /\ y \notin Weak
  BY HandlesAreApart DEF IInv, Handle
<1>2. /\ Begin(t, x, y, <<>>)
      /\ ptr' = [ptr EXCEPT ![x] = ptr[y], ![y] = ptr[x]]
      /\ own' = [own EXCEPT ![x] = own[y], ![y] = own[x]]
      /\ UNCHANGED <<counts, memory, undefined>>
  BY DEF Swap
<1>3. \A h \in Handle \ {x, y} : own'[h] = own[h]
  BY <1>1, <1>2 DEF TypeOK
<1>4. /\ CallsOK' /\ Ordered' /\ IsFiniteSet(Pending')
      /\ use' \in [Thread -> SUBSET Handle]
      /\ x \notin Stale /\ y \notin Stale
      /\ \A h : h \in Stale' <=> h \in Stale
      /\ \A kind \in Releasing : \A o \in Object : N(kind, o)' = N(kind, o)
  BY <1>1, <1>2, <1>3, BeginAndEnd
<1>5. /\ own' \in [Handle -> Object \cup {Null}] /\ own'[x] = own[y] /\ own'[y] = own[x]
      /\ ptr' \in [Shared -> Object \cup {Null}]
      /\ strong' = strong /\ weak' = weak
      /\ strong \in [Object -> Nat] /\ weak \in [Object -> Nat]
  BY <1>1, <1>2 DEF TypeOK, counts
<1>6. ASSUME NEW o \in Object
      PROVE  /\ Both(Shared, x, y, o)' = Both(Shared, x, y, o)
             /\ Both(Weak, x, y, o)' = Both(Weak, x, y, o)
  BY <1>1, <1>4, <1>5 DEF Both, Own
<1> QED
  BY <1>1, <1>2, <1>3, <1>4, <1>5, <1>6, AssignmentPreserves

\* What is known when the last call of an operation is reached.
LEMMA AtLastCall ==
    ASSUME IInv, NEW t \in Thread, calls[t] # <<>>, Top(t).op \notin Releasing
    PROVE  /\ Top(t) \in CallRecord /\ Rest(t) = <<>>
           /\ HandlesFit(t, Top(t))
           /\ Top(t).to \in Handle /\ use[t] \subseteq Handle
           /\ \A h \in use[t] : h \in Stale <=> Top(t).op \in Assigning /\ h = Top(t).to
<1>1. /\ TypeOK /\ CallsOK /\ StaleIsWhatIsAssigned
      /\ calls[t] \in Seq(CallRecord) /\ InOrder(calls[t]) /\ DeletesAreFollowed(calls[t])
  BY StaleInUse DEF IInv, CallsOK, ReleasesComeFirst, DeletionsAreFollowed
<1>2. Rest(t) = <<>> /\ Finals(calls[t]) = {Top(t)} /\ Top(t) \in CallRecord
  BY <1>1, TailOf, OrderOfTail DEF Top, Rest
<1>3. HandlesFit(t, Top(t))
  BY <1>2 DEF IInv, ReleasesComeFirst
<1>4. use[t] \subseteq Handle /\ Top(t).to \in use[t]
  BY <1>1, <1>3 DEF TypeOK, HandlesFit
<1>5. \A h : h \in AssignedBy(calls[t]) <=> Top(t).op \in Assigning /\ h = Top(t).to
  BY <1>2 DEF AssignedBy
<1>6. \A h \in use[t] : h \in Stale <=> h \in AssignedBy(calls[t])
  BY <1>1, <1>4, StaleInUse DEF StaleIsWhatIsAssigned
<1> QED
  BY <1>2, <1>3, <1>4, <1>5, <1>6

\* An operation ends with its last call.
LEMMA LastCall ==
    ASSUME IInv, NEW t \in Thread, calls[t] # <<>>, Top(t).op \notin Releasing,
           Continue(t, Rest(t), use[t]),
           \A h \in Handle \ use[t] : own'[h] = own[h]
    PROVE  /\ CallsOK' /\ Ordered' /\ IsFiniteSet(Pending')
           /\ use' \in [Thread -> SUBSET Handle]
           /\ \A h : h \in Stale' <=> h \in Stale /\ ~(Top(t).op \in Assigning /\ h = Top(t).to)
           /\ \A kind \in Releasing : \A o \in Object : N(kind, o)' = N(kind, o)
<1> DEFINE s == <<>>
<1>1. Rest(t) = s
  BY AtLastCall
<1>2. /\ s \in Seq(CallRecord) /\ InOrder(s) /\ DeletesAreFollowed(s)
      /\ Finals(s) = {} /\ AssignedBy(s) = {}
  BY OrderOfShort DEF AssignedBy
<1>3. \A kind, o : Count(s, kind, o) = 0
  <2>1. \A kind, o : Places(s, kind, o) = {}
    BY DEF Places
  <2> QED
    BY <2>1, FS_EmptySet DEF Count
<1> HIDE DEF s
<1>4. /\ CallsOK' /\ Ordered' /\ IsFiniteSet(Pending')
      /\ use' \in [Thread -> SUBSET Handle]
      /\ \A h : h \in Stale' <=>
             \/ h \in AssignedBy(s)
             \/ h \in Stale /\ ~(Top(t).op \in Assigning /\ h = Top(t).to)
      /\ \A kind, o : N(kind, o)' \in Nat
      /\ \A kind \in Releasing : \A o : N(kind, o)' = N(kind, o) + Count(s, kind, o)
  <2>1. Continue(t, s, use[t])
    BY <1>1
  <2> QED
    BY <1>2, <2>1, FinalStep
<1>5. \A kind : \A o \in Object : N(kind, o) \in Nat
  BY CountsAreNumbers
<1> QED
  BY <1>2, <1>3, <1>4, <1>5

LEMMA TakeStrongPreserves ==
    ASSUME IInv, NEW t \in Thread, TakeStrong(t)
    PROVE  IInv' /\ strong[own[Top(t).from]] > 0 /\ own[Top(t).from] \in Object
<1>0. PICK x, y, o1 : x = Top(t).to /\ y = Top(t).from /\ o1 = own[y]
  OBVIOUS
<1>1. /\ calls[t] # <<>> /\ Top(t).op = "take_strong" /\ Top(t).op \notin Releasing
      /\ Top(t).op \in Assigning
      /\ o1 # Null
      /\ own'    = [own EXCEPT ![x] = o1]
      /\ strong' = [strong EXCEPT ![o1] = @ + 1]
      /\ Continue(t, Rest(t), use[t])
      /\ UNCHANGED <<ptr, weak, memory, undefined>>
  BY <1>0 DEF TakeStrong, Calls, Releasing, Assigning
<1>2. /\ x \in Shared /\ y \in Shared /\ x # y /\ x \in use[t] /\ y \in use[t]
      /\ use[t] \subseteq Handle
      /\ \A h \in use[t] : h \in Stale <=> h = x
  BY <1>0, <1>1, AtLastCall DEF HandlesFit
<1>3. /\ TypeOK /\ x \in Handle /\ y \in Handle /\ Null \notin Object /\ x \notin Weak
      /\ y \notin Weak /\ x \in Stale /\ y \notin Stale
  BY <1>2, HandlesAreApart DEF IInv, Handle
<1>4. /\ o1 \in Object /\ strong[o1] > 0
  BY <1>0, <1>1, <1>2, <1>3, OwnersAreCounted
<1>5. /\ \A h \in Handle \ {x, y} : own'[h] = own[h]
      /\ \A h \in Handle \ use[t] : own'[h] = own[h]
      /\ own'[x] = o1 /\ own'[y] = o1 /\ own[y] = o1
      /\ own' \in [Handle -> Object \cup {Null}]
      /\ ptr' \in [Shared -> Object \cup {Null}]
  BY <1>0, <1>1, <1>2, <1>3, <1>4 DEF TypeOK
<1>6. strong' \in [Object -> Nat] /\ weak' \in [Object -> Nat]
  BY <1>0, <1>1, <1>3, <1>4 DEF TypeOK
<1>7. /\ CallsOK' /\ Ordered' /\ IsFiniteSet(Pending')
      /\ use' \in [Thread -> SUBSET Handle]
      /\ \A h : h \in Stale' <=> h \in Stale /\ h # x
      /\ \A kind \in Releasing : \A o \in Object : N(kind, o)' = N(kind, o)
  BY <1>0, <1>1, <1>5, LastCall
<1>8. ASSUME NEW o \in Object
      PROVE  /\ strong'[o] + Both(Shared, x, y, o) = strong[o] + Both(Shared, x, y, o)'
             /\ weak'[o] + Both(Weak, x, y, o) = weak[o] + Both(Weak, x, y, o)'
             /\ strong'[o] > 0 <=> strong[o] > 0
             /\ weak'[o] > 0 <=> weak[o] > 0
  <2>1. /\ Both(Weak, x, y, o) = 0 /\ Both(Weak, x, y, o)' = 0
        /\ Both(Shared, x, y, o) = IF o1 = o THEN 1 ELSE 0
        /\ Both(Shared, x, y, o)' = IF o1 = o THEN 2 ELSE 0
    BY <1>2, <1>3, <1>5, <1>7 DEF Both, Own
  <2>2. /\ strong[o] \in Nat /\ weak[o] \in Nat /\ weak'[o] = weak[o]
        /\ strong'[o] = strong[o] + (IF o1 = o THEN 1 ELSE 0)
    BY <1>0, <1>1, <1>3, <1>4 DEF TypeOK
  <2> QED
    BY <1>4, <2>1, <2>2
<1>9. \A h \in Handle \ {x, y} : own'[h] = own[h] /\ (h \in Stale' <=> h \in Stale)
  BY <1>5, <1>7
<1>10. IInv'
  BY <1>1, <1>3, <1>5, <1>6, <1>7, <1>8, <1>9, AssignmentPreserves
<1> QED
  BY <1>0, <1>4, <1>10

LEMMA TakeWeakPreserves ==
    ASSUME IInv, NEW t \in Thread, TakeWeak(t)
    PROVE  IInv'
<1>0. PICK x, y, o1 : x = Top(t).to /\ y = Top(t).from /\ o1 = own[y]
  OBVIOUS
<1>1. /\ calls[t] # <<>> /\ Top(t).op = "take_weak" /\ Top(t).op \notin Releasing
      /\ Top(t).op \in Assigning
      /\ own'  = [own EXCEPT ![x] = o1]
      /\ weak' = [o \in Object |-> weak[o] + (IF o = o1 THEN 1 ELSE 0)]
      /\ Continue(t, Rest(t), use[t])
      /\ UNCHANGED <<ptr, strong, memory, undefined>>
  BY <1>0 DEF TakeWeak, Calls, Releasing, Assigning
<1>2. /\ x \in Weak /\ x # y /\ x \in use[t] /\ y \in use[t]
      /\ use[t] \subseteq Handle
      /\ \A h \in use[t] : h \in Stale <=> h = x
  BY <1>0, <1>1, AtLastCall DEF HandlesFit
<1>3. /\ TypeOK /\ x \in Handle /\ y \in Handle /\ Null \notin Object /\ x \notin Shared
      /\ x \in Stale /\ y \notin Stale
  BY <1>2, HandlesAreApart DEF IInv, Handle
<1>4. /\ o1 \in Object \cup {Null}
      /\ o1 # Null => weak[o1] > 0
  BY <1>0, <1>3, OwnersAreCounted DEF TypeOK
<1>5. /\ \A h \in Handle \ {x, y} : own'[h] = own[h]
      /\ \A h \in Handle \ use[t] : own'[h] = own[h]
      /\ own'[x] = o1 /\ own'[y] = o1 /\ own[y] = o1
      /\ own' \in [Handle -> Object \cup {Null}]
      /\ ptr' \in [Shared -> Object \cup {Null}]
  BY <1>0, <1>1, <1>2, <1>3, <1>4 DEF TypeOK
<1>6. strong' \in [Object -> Nat] /\ weak' \in [Object -> Nat]
  BY <1>0, <1>1, <1>3 DEF TypeOK
<1>7. /\ CallsOK' /\ Ordered' /\ IsFiniteSet(Pending')
      /\ use' \in [Thread -> SUBSET Handle]
      /\ \A h : h \in Stale' <=> h \in Stale /\ h # x
      /\ \A kind \in Releasing : \A o \in Object : N(kind, o)' = N(kind, o)
  BY <1>0, <1>1, <1>5, LastCall
<1>8. ASSUME NEW o \in Object
      PROVE  /\ strong'[o] + Both(Shared, x, y, o) = strong[o] + Both(Shared, x, y, o)'
             /\ weak'[o] + Both(Weak, x, y, o) = weak[o] + Both(Weak, x, y, o)'
             /\ strong'[o] > 0 <=> strong[o] > 0
             /\ weak'[o] > 0 <=> weak[o] > 0
  <2>1. Both(Shared, x, y, o)' = Both(Shared, x, y, o) /\ Both(Shared, x, y, o) \in Nat
    BY <1>2, <1>3, <1>5, <1>7 DEF Both, Own
  <2>2. /\ Both(Weak, x, y, o) \in Nat
        /\ Both(Weak, x, y, o)' = Both(Weak, x, y, o) + (IF o1 = o THEN 1 ELSE 0)
    BY <1>2, <1>3, <1>5, <1>7 DEF Both, Own
  <2>3. /\ strong[o] \in Nat /\ weak[o] \in Nat /\ strong'[o] = strong[o]
        /\ weak'[o] = weak[o] + (IF o1 = o THEN 1 ELSE 0)
        /\ o1 = o => weak[o] > 0
    BY <1>0, <1>1, <1>3, <1>4 DEF TypeOK
  <2> QED
    BY <2>1, <2>2, <2>3
<1>9. \A h \in Handle \ {x, y} : own'[h] = own[h] /\ (h \in Stale' <=> h \in Stale)
  BY <1>5, <1>7
<1> QED
  BY <1>1, <1>3, <1>5, <1>6, <1>7, <1>8, <1>9, AssignmentPreserves

LEMMA MovePreserves ==
    ASSUME IInv, NEW t \in Thread, MoveOwner(t)
    PROVE  IInv'
<1>0. PICK x, y : x = Top(t).to /\ y = Top(t).from
  OBVIOUS
<1>1. /\ calls[t] # <<>> /\ Top(t).op = "move_owner" /\ Top(t).op \notin Releasing
      /\ Top(t).op \in Assigning
      /\ own' = [[own EXCEPT ![x] = own[y]] EXCEPT ![y] = Null]
      /\ Continue(t, Rest(t), use[t])
      /\ UNCHANGED <<ptr, counts, memory, undefined>>
  BY <1>0 DEF MoveOwner, Calls, Releasing, Assigning
<1>2. /\ x \in use[t] /\ y \in use[t] /\ (x \in Shared <=> y \in Shared)
      /\ use[t] \subseteq Handle
      /\ \A h \in use[t] : h \in Stale <=> h = x
  BY <1>0, <1>1, AtLastCall DEF HandlesFit
<1>3. /\ TypeOK /\ x \in Handle /\ y \in Handle /\ Null \notin Object
      /\ (x \in Weak <=> y \in Weak) /\ x \in Stale /\ (x # y => y \notin Stale)
  BY <1>2, HandlesAreApart DEF IInv, Handle
<1>4. /\ \A h \in Handle \ {x, y} : own'[h] = own[h]
      /\ \A h \in Handle \ use[t] : own'[h] = own[h]
      /\ own'[y] = Null
      /\ x # y => own'[x] = own[y]
      /\ own' \in [Handle -> Object \cup {Null}]
      /\ ptr' \in [Shared -> Object \cup {Null}]
      /\ strong' = strong /\ weak' = weak
      /\ strong \in [Object -> Nat] /\ weak \in [Object -> Nat]
  BY <1>0, <1>1, <1>2, <1>3 DEF TypeOK, counts
<1>5. /\ CallsOK' /\ Ordered' /\ IsFiniteSet(Pending')
      /\ use' \in [Thread -> SUBSET Handle]
      /\ \A h : h \in Stale' <=> h \in Stale /\ h # x
      /\ \A kind \in Releasing : \A o \in Object : N(kind, o)' = N(kind, o)
  BY <1>0, <1>1, <1>4, LastCall
<1>6. ASSUME NEW o \in Object
      PROVE  /\ Both(Shared, x, y, o)' = Both(Shared, x, y, o)
             /\ Both(Weak, x, y, o)' = Both(Weak, x, y, o)
  BY <1>2, <1>3, <1>4, <1>5 DEF Both, Own
<1>7. \A h \in Handle \ {x, y} : own'[h] = own[h] /\ (h \in Stale' <=> h \in Stale)
  BY <1>4, <1>5
<1>8. \A o \in Object :
          /\ strong'[o] + Both(Shared, x, y, o) = strong[o] + Both(Shared, x, y, o)'
          /\ weak'[o] + Both(Weak, x, y, o) = weak[o] + Both(Weak, x, y, o)'
          /\ strong'[o] > 0 <=> strong[o] > 0
          /\ weak'[o] > 0 <=> weak[o] > 0
  BY <1>4, <1>6
<1> QED
  BY <1>1, <1>3, <1>4, <1>5, <1>7, <1>8, AssignmentPreserves

LEMMA ClearPreserves ==
    ASSUME IInv, NEW t \in Thread, Clear(t)
    PROVE  IInv'
<1>0. PICK x : x = Top(t).to
  OBVIOUS
<1>1. /\ calls[t] # <<>> /\ Top(t).op = "clear" /\ Top(t).op \notin Releasing
      /\ Top(t).op \in Assigning
      /\ own' = [own EXCEPT ![x] = Null]
      /\ Continue(t, Rest(t), use[t])
      /\ UNCHANGED <<ptr, counts, memory, undefined>>
  BY <1>0 DEF Clear, Calls, Releasing, Assigning
<1>2. /\ x \in use[t] /\ use[t] \subseteq Handle /\ x \in Stale
  BY <1>0, <1>1, AtLastCall DEF HandlesFit
<1>3. /\ TypeOK /\ x \in Handle /\ Null \notin Object
  BY <1>2, HandlesAreApart DEF IInv
<1>4. /\ \A h \in Handle \ {x, x} : own'[h] = own[h]
      /\ \A h \in Handle \ use[t] : own'[h] = own[h]
      /\ own'[x] = Null
      /\ own' \in [Handle -> Object \cup {Null}]
      /\ ptr' \in [Shared -> Object \cup {Null}]
      /\ strong' = strong /\ weak' = weak
      /\ strong \in [Object -> Nat] /\ weak \in [Object -> Nat]
  BY <1>0, <1>1, <1>2, <1>3 DEF TypeOK, counts
<1>5. /\ CallsOK' /\ Ordered' /\ IsFiniteSet(Pending')
      /\ use' \in [Thread -> SUBSET Handle]
      /\ \A h : h \in Stale' <=> h \in Stale /\ h # x
      /\ \A kind \in Releasing : \A o \in Object : N(kind, o)' = N(kind, o)
  BY <1>0, <1>1, <1>4, LastCall
<1>6. ASSUME NEW o \in Object
      PROVE  /\ Both(Shared, x, x, o)' = Both(Shared, x, x, o)
             /\ Both(Weak, x, x, o)' = Both(Weak, x, x, o)
  BY <1>2, <1>3, <1>4, <1>5 DEF Both, Own
<1>7. \A h \in Handle \ {x, x} : own'[h] = own[h] /\ (h \in Stale' <=> h \in Stale)
  BY <1>4, <1>5
<1> QED
  BY <1>1, <1>3, <1>4, <1>5, <1>6, <1>7, AssignmentPreserves

LEMMA TryAddPreserves ==
    ASSUME IInv, NEW t \in Thread, TryAddStrongRef(t)
    PROVE  IInv' /\ strong[own[Top(t).from]] > 0 /\ own[Top(t).from] \in Object
<1>0. PICK x, y, o1 : x = Top(t).to /\ y = Top(t).from /\ o1 = own[y]
  OBVIOUS
<1>1. /\ calls[t] # <<>> /\ Top(t).op = "try_add_strong" /\ Top(t).op \notin Releasing
      /\ Top(t).op \notin Assigning
      /\ strong[o1] = Top(t).seen
      /\ strong' = [strong EXCEPT ![o1] = @ + 1]
      /\ ptr' = [ptr EXCEPT ![x] = o1]
      /\ own' = [own EXCEPT ![x] = o1]
      /\ Continue(t, Rest(t), use[t])
      /\ UNCHANGED <<weak, memory, undefined>>
  BY <1>0 DEF TryAddStrongRef, CountIsAsSeen, Calls, Releasing, Assigning
<1>2. /\ x \in Shared /\ own[x] = Null /\ y \in Weak /\ x \in use[t] /\ y \in use[t]
      /\ use[t] \subseteq Handle /\ o1 # Null /\ strong[o1] > 0
      /\ \A h \in use[t] : h \notin Stale
  BY <1>0, <1>1, AtLastCall DEF HandlesFit
<1>3. /\ TypeOK /\ x \in Handle /\ y \in Handle /\ Null \notin Object /\ x \notin Weak
      /\ y \notin Shared /\ x \notin Stale /\ y \notin Stale
  BY <1>2, HandlesAreApart DEF IInv, Handle
<1>4. o1 \in Object
  BY <1>0, <1>2, <1>3 DEF TypeOK
<1>5. /\ \A h \in Handle \ {x, y} : own'[h] = own[h]
      /\ \A h \in Handle \ use[t] : own'[h] = own[h]
      /\ own'[x] = o1 /\ own'[y] = o1 /\ own[y] = o1
      /\ own' \in [Handle -> Object \cup {Null}]
      /\ ptr' \in [Shared -> Object \cup {Null}]
  BY <1>0, <1>1, <1>2, <1>3, <1>4 DEF TypeOK
<1>6. strong' \in [Object -> Nat] /\ weak' \in [Object -> Nat]
  BY <1>0, <1>1, <1>3, <1>4 DEF TypeOK
<1>7. /\ CallsOK' /\ Ordered' /\ IsFiniteSet(Pending')
      /\ use' \in [Thread -> SUBSET Handle]
      /\ \A h : h \in Stale' <=> h \in Stale
      /\ \A kind \in Releasing : \A o \in Object : N(kind, o)' = N(kind, o)
  BY <1>0, <1>1, <1>5, LastCall
<1>8. ASSUME NEW o \in Object
      PROVE  /\ strong'[o] + Both(Shared, x, y, o) = strong[o] + Both(Shared, x, y, o)'
             /\ weak'[o] + Both(Weak, x, y, o) = weak[o] + Both(Weak, x, y, o)'
             /\ strong'[o] > 0 <=> strong[o] > 0
             /\ weak'[o] > 0 <=> weak[o] > 0
  <2>1. /\ Both(Weak, x, y, o) = Both(Weak, x, y, o)' /\ Both(Weak, x, y, o) \in Nat
    BY <1>2, <1>3, <1>5, <1>7 DEF Both, Own
  <2>2. /\ Both(Shared, x, y, o) = 0
        /\ Both(Shared, x, y, o)' = IF o1 = o THEN 1 ELSE 0
    BY <1>2, <1>3, <1>5, <1>7 DEF Both, Own
  <2>3. /\ strong[o] \in Nat /\ weak[o] \in Nat /\ weak'[o] = weak[o]
        /\ strong'[o] = strong[o] + (IF o1 = o THEN 1 ELSE 0)
        /\ o1 = o => strong[o] > 0
    BY <1>0, <1>1, <1>2, <1>3, <1>4 DEF TypeOK
  <2> QED
    BY <2>1, <2>2, <2>3
<1>9. \A h \in Handle \ {x, y} : own'[h] = own[h] /\ (h \in Stale' <=> h \in Stale)
  BY <1>5, <1>7
<1>10. IInv'
  BY <1>1, <1>3, <1>5, <1>6, <1>7, <1>8, <1>9, AssignmentPreserves
<1> QED
  BY <1>0, <1>2, <1>4, <1>10

LEMMA TryAddFailsPreserves ==
    ASSUME IInv, NEW t \in Thread, TryAddStrongFails(t)
    PROVE  IInv'
<1>0. PICK c, o1 : c = Top(t) /\ o1 = own[Top(t).from]
  OBVIOUS
<1> DEFINE d == [c EXCEPT !.seen = strong[o1]]
           s == IF strong[o1] = 0 THEN <<>> ELSE <<d>>
<1>1. /\ calls[t] # <<>> /\ c.op = "try_add_strong" /\ c.op \notin Releasing
      /\ c.op \notin Assigning
      /\ Continue(t, s \o Rest(t), use[t])
      /\ UNCHANGED <<handles, counts, memory, undefined>>
  BY <1>0 DEF TryAddStrongFails, Calls, Releasing, Assigning
<1>2. /\ c \in CallRecord /\ Rest(t) = <<>> /\ HandlesFit(t, c) /\ c.to \in Handle
  BY <1>0, <1>1, AtLastCall
<1>3. TypeOK /\ o1 \in Object /\ strong[o1] \in Nat
  BY <1>0, <1>1, <1>2, HandlesAreApart DEF IInv, TypeOK, HandlesFit, Handle
<1>4. d \in CallRecord /\ d.op = "try_add_strong"
  BY <1>1, <1>2, <1>3 DEF CallRecord
<1>5. strong[o1] # 0 => HandlesFit(t, d)
  <2>1. /\ c.to = d.to /\ c.from = d.from /\ c.op = d.op /\ d.seen = strong[o1]
    BY <1>2 DEF CallRecord
  <2> HIDE DEF d
  <2> QED
    BY <1>1, <1>2, <1>3, <2>1 DEF HandlesFit, Assigning
<1>6. /\ s \in Seq(CallRecord) /\ InOrder(s) /\ DeletesAreFollowed(s)
      /\ Finals(s) \subseteq {d} /\ (strong[o1] = 0 => Finals(s) = {})
      /\ \A kind \in Releasing : \A o : Count(s, kind, o) = 0
  <2>1. CASE strong[o1] = 0
    <3>1. s = <<>>
      BY <2>1
    <3>2. \A kind, o : Places(<<>>, kind, o) = {}
      BY DEF Places
    <3> QED
      BY <2>1, <3>1, <3>2, FS_EmptySet, OrderOfShort DEF Count
  <2>2. CASE strong[o1] # 0
    <3>1. s = <<d>>
      BY <2>2
    <3> HIDE DEF d, s
    <3>2. \A kind, o : Count(<<d>>, kind, o) = Is(d, kind, o)
      BY <1>4, CountShort
    <3> QED
      BY <1>4, <2>2, <3>1, <3>2, OrderOfShort DEF Releasing, Is
  <2> QED
    BY <2>1, <2>2
<1> HIDE DEF d
<1>7. s \o Rest(t) = s
  BY <1>2, <1>6
<1> HIDE DEF s
<1>8. own' = own /\ ptr' = ptr /\ strong' = strong /\ weak' = weak
  BY <1>1 DEF handles, counts
<1>9. /\ CallsOK' /\ Ordered' /\ IsFiniteSet(Pending')
      /\ use' \in [Thread -> SUBSET Handle]
      /\ \A h : h \in Stale' <=>
             \/ h \in AssignedBy(s)
             \/ h \in Stale /\ ~(Top(t).op \in Assigning /\ h = Top(t).to)
      /\ \A kind, o : N(kind, o)' \in Nat
      /\ \A kind \in Releasing : \A o : N(kind, o)' = N(kind, o) + Count(s, kind, o)
  <2>1. Continue(t, s, use[t])
    BY <1>1, <1>7
  <2>2. \A f \in Finals(s) : own' = own /\ HandlesFit(t, f)
    BY <1>5, <1>6, <1>8
  <2>3. \A h \in Handle \ use[t] : own'[h] = own[h]
    BY <1>8
  <2> QED
    BY <1>0, <1>1, <1>6, <2>1, <2>2, <2>3, FinalStep
<1>10. AssignedBy(s) = {}
  BY <1>4, <1>6 DEF AssignedBy, Assigning
<1>11. \A kind \in Releasing : \A o \in Object : N(kind, o)' = N(kind, o)
  BY <1>6, <1>9, CountsAreNumbers
<1>12. PICK x \in Handle : x = c.to
  BY <1>2
<1>13. \A h : h \in Stale' <=> h \in Stale
  BY <1>0, <1>1, <1>9, <1>10
<1>14. \A hs, h, o : Own(hs, h, o)' = Own(hs, h, o)
  BY <1>8, <1>13 DEF Own
<1>15. \A o \in Object :
           /\ strong'[o] + Both(Shared, x, x, o) = strong[o] + Both(Shared, x, x, o)'
           /\ weak'[o] + Both(Weak, x, x, o) = weak[o] + Both(Weak, x, x, o)'
           /\ strong'[o] > 0 <=> strong[o] > 0
           /\ weak'[o] > 0 <=> weak[o] > 0
  BY <1>8, <1>14 DEF Both
<1>16. /\ ptr' \in [Shared -> Object \cup {Null}]
       /\ own' \in [Handle -> Object \cup {Null}]
       /\ strong' \in [Object -> Nat] /\ weak' \in [Object -> Nat]
       /\ \A h \in Handle \ {x, x} : own'[h] = own[h] /\ (h \in Stale' <=> h \in Stale)
       /\ UNCHANGED <<memory, undefined>>
  BY <1>1, <1>3, <1>8, <1>13 DEF TypeOK
<1> QED
  BY <1>9, <1>11, <1>15, <1>16, AssignmentPreserves

LEMMA UnchangedPreserves ==
    ASSUME IInv, UNCHANGED <<handles, counts, memory, calls, use>>, undefined' \in BOOLEAN
    PROVE  IInv'
<1>1. /\ own' = own /\ ptr' = ptr /\ strong' = strong /\ weak' = weak
      /\ object' = object /\ block' = block /\ calls' = calls /\ use' = use
  BY DEF handles, counts, memory
<1>2. Pending' = Pending /\ \A kind, o : PendingCalls(kind, o)' = PendingCalls(kind, o)
  BY <1>1 DEF Pending, PendingCalls
<1>3. Stale' = Stale /\ \A hs, o : Holds(hs, o)' = Holds(hs, o)
  BY <1>1, <1>2 DEF Stale, Holds
<1>4. TypeOK'
  BY <1>1 DEF IInv, TypeOK
<1>5. UsesAreApart' /\ DeletionsAreFollowed' /\ FiniteInUse'
  BY <1>1, <1>2 DEF IInv, UsesAreApart, DeletionsAreFollowed, FiniteInUse
<1>6. ReleasesComeFirst'
  BY <1>1 DEF IInv, ReleasesComeFirst, HandlesFit, IsHeld
<1>7. CountsAreExact' /\ LivesFollowCounts'
  BY <1>1, <1>2, <1>3 DEF IInv, CountsAreExact, LivesFollowCounts
<1> QED
  BY <1>4, <1>5, <1>6, <1>7 DEF IInv

-----------------------------------------------------------------------------
(* Releases *)

\* Owners stay as they are when a count is decremented.
LEMMA HoldsStay ==
    ASSUME own' = own, Stale' = Stale
    PROVE  \A hs, o : H(hs, o)' = H(hs, o)
<1>1. \A hs, o : Holds(hs, o)' = Holds(hs, o)
  BY DEF Holds
<1> QED
  BY <1>1 DEF H

LEMMA SubStrongPreserves ==
    ASSUME IInv, NEW t \in Thread, SubStrongRef(t)
    PROVE  IInv' /\ strong[Top(t).to] > 0 /\ Top(t).to \in Object
<1>0. PICK o1 : o1 = Top(t).to
  OBVIOUS
<1> DEFINE pre == IF strong[o1] = 1 THEN AfterLastOwner(o1) ELSE <<>>
<1>1. /\ calls[t] # <<>> /\ Top(t).op = "sub_strong" /\ Top(t).op \in Releasing
      /\ strong' = [strong EXCEPT ![o1] = @ - 1]
      /\ Continue(t, pre \o Rest(t), use[t])
      /\ ptr' = ptr /\ own' = own
      /\ UNCHANGED <<weak, memory, undefined>>
  BY <1>0 DEF SubStrongRef, Calls, Releasing, handles
<1>2. o1 \in Object /\ TypeOK
  <2>1. /\ calls[t] \in Seq(CallRecord) /\ InOrder(calls[t]) /\ DeletesAreFollowed(calls[t])
    BY StaleInUse DEF IInv, CallsOK, ReleasesComeFirst, DeletionsAreFollowed
  <2> QED
    BY <1>0, <1>1, <2>1, OrderOfTail DEF Top, IInv
<1>3. /\ pre \in Seq(CallRecord) /\ OnlyReleases(pre) /\ DeletesAreFollowed(pre)
      /\ \A o : Count(pre, "sub_strong", o) = 0
      /\ \A o : /\ Count(pre, "sub_weak", o) = IF strong[o1] = 1 /\ o = o1 THEN 1 ELSE 0
                /\ Count(pre, "delete_object", o) = IF strong[o1] = 1 /\ o = o1 THEN 1 ELSE 0
  <2>1. CASE strong[o1] # 1
    <3>1. pre = <<>>
      BY <2>1
    <3>2. \A kind, o : Places(<<>>, kind, o) = {}
      BY DEF Places
    <3> QED
      BY <2>1, <3>1, <3>2, FS_EmptySet, OrderOfShort DEF Count
  <2>2. CASE strong[o1] = 1
    <3> DEFINE a == Call("delete_object", o1, Null)
               b == Call("sub_weak", o1, Null)
    <3>1. /\ pre = <<a, b>>
          /\ a \in CallRecord /\ a.op = "delete_object" /\ a.to = o1
          /\ b \in CallRecord /\ b.op = "sub_weak" /\ b.to = o1
      BY <1>2, <2>2 DEF AfterLastOwner, Call, CallRecord, Op
    <3> HIDE DEF a, b, pre
    <3>2. pre \in Seq(CallRecord) /\ OnlyReleases(pre) /\ DeletesAreFollowed(pre)
      BY <1>2, <3>1 DEF OnlyReleases, DeletesAreFollowed, Releasing
    <3>3. ASSUME NEW o
          PROVE  /\ Places(pre, "sub_strong", o) = {}
                 /\ Places(pre, "sub_weak", o) = IF o = o1 THEN {2} ELSE {}
                 /\ Places(pre, "delete_object", o) = IF o = o1 THEN {1} ELSE {}
      BY <3>1 DEF Places
    <3> QED
      BY <2>2, <3>2, <3>3, FS_EmptySet, FS_Singleton DEF Count
  <2> QED
    BY <2>1, <2>2
<1> HIDE DEF pre
<1>4. /\ CallsOK' /\ Ordered' /\ IsFiniteSet(Pending')
      /\ use' \in [Thread -> SUBSET Handle]
      /\ Stale' = Stale
      /\ \A kind, o : /\ N(kind, o)' \in Nat
                      /\ N(kind, o)' + Is(Top(t), kind, o) = N(kind, o) + Count(pre, kind, o)
  <2>1. \A h \in Handle : StaysOrDies(h)
    BY <1>1 DEF StaysOrDies
  <2> QED
    BY <1>1, <1>3, <2>1, ReleaseStep
<1>5. /\ \A hs, o : H(hs, o)' = H(hs, o)
      /\ FiniteInUse'
  BY <1>1, <1>4, HoldsStay DEF IInv, FiniteInUse
<1>6. ASSUME NEW o \in Object
      PROVE  LET one == IF o = o1 THEN 1 ELSE 0
                 last == IF strong[o1] = 1 /\ o = o1 THEN 1 ELSE 0
             IN  /\ \A kind : N(kind, o) \in Nat
                 /\ N("sub_strong", o)' + one = N("sub_strong", o)
                 /\ N("sub_weak", o)' = N("sub_weak", o) + last
                 /\ N("delete_object", o)' = N("delete_object", o) + last
  <2>1. \A kind : N(kind, o) \in Nat
    BY CountsAreNumbers
  <2>2. /\ Is(Top(t), "sub_strong", o) = IF o = o1 THEN 1 ELSE 0
        /\ Is(Top(t), "sub_weak", o) = 0
        /\ Is(Top(t), "delete_object", o) = 0
    BY <1>0, <1>1 DEF Is
  <2> QED
    BY <1>3, <1>4, <2>1, <2>2
<1>7. strong[o1] > 0
  <2>1. /\ N("sub_strong", o1) \in Nat /\ N("sub_strong", o1)' \in Nat
        /\ N("sub_strong", o1)' + 1 = N("sub_strong", o1)
    BY <1>2, <1>4, <1>6
  <2>2. H(Shared, o1) \in Nat /\ strong[o1] = H(Shared, o1) + N("sub_strong", o1)
    BY <1>2, CountsAreNumbers
  <2> QED
    BY <2>1, <2>2
<1>8. \A o \in Object : /\ strong[o] \in Nat /\ weak[o] \in Nat
                        /\ strong'[o] = IF o = o1 THEN strong[o] - 1 ELSE strong[o]
                        /\ weak'[o] = weak[o]
                        /\ object'[o] = object[o] /\ block'[o] = block[o]
  BY <1>1, <1>2 DEF TypeOK, memory
<1>9. TypeOK'
  <2>1. strong' \in [Object -> Nat]
    BY <1>1, <1>2, <1>7 DEF TypeOK
  <2> QED
    BY <1>1, <1>2, <1>4, <2>1 DEF TypeOK, CallsOK, CallRecord, memory
<1>10. ASSUME NEW o \in Object
       PROVE  /\ strong'[o] = H(Shared, o)' + N("sub_strong", o)'
              /\ weak'[o] = H(Weak, o)' + N("sub_weak", o)' + (IF strong'[o] > 0 THEN 1 ELSE 0)
  <2>1. /\ strong[o] \in Nat /\ weak[o] \in Nat
        /\ H(Shared, o) \in Nat /\ H(Weak, o) \in Nat
        /\ strong[o] = H(Shared, o) + N("sub_strong", o)
        /\ weak[o] = H(Weak, o) + N("sub_weak", o) + (IF strong[o] > 0 THEN 1 ELSE 0)
    BY CountsAreNumbers
  <2>2. H(Shared, o)' = H(Shared, o) /\ H(Weak, o)' = H(Weak, o)
    BY <1>5
  <2>3. /\ N("sub_strong", o) \in Nat /\ N("sub_weak", o) \in Nat
        /\ N("sub_strong", o)' \in Nat /\ N("sub_weak", o)' \in Nat
        /\ N("sub_strong", o)' + (IF o = o1 THEN 1 ELSE 0) = N("sub_strong", o)
        /\ N("sub_weak", o)' = N("sub_weak", o) + (IF strong[o1] = 1 /\ o = o1 THEN 1 ELSE 0)
    BY <1>4, <1>6
  <2>4. CASE o = o1
    <3>1. /\ strong[o] > 0 /\ strong'[o] = strong[o] - 1 /\ weak'[o] = weak[o]
          /\ N("sub_strong", o)' + 1 = N("sub_strong", o)
          /\ N("sub_weak", o)' = N("sub_weak", o) + (IF strong[o] = 1 THEN 1 ELSE 0)
      BY <1>7, <1>8, <2>3, <2>4
    <3>2. CASE strong[o] = 1
      BY <2>1, <2>2, <2>3, <3>1, <3>2
    <3>3. CASE strong[o] > 1
      BY <2>1, <2>2, <2>3, <3>1, <3>3
    <3> QED
      BY <2>1, <3>1, <3>2, <3>3
  <2>5. CASE o # o1
    BY <1>8, <2>1, <2>2, <2>3, <2>5
  <2> QED
    BY <2>4, <2>5
<1>11. CountsAreExact'
  BY <1>10 DEF CountsAreExact, N, H
<1>12. LivesFollowCounts'
  <2> SUFFICES ASSUME NEW o \in Object
               PROVE  /\ object'[o] = "none" => strong'[o] = 0 /\ weak'[o] = 0
                      /\ strong'[o] > 0 => object'[o] = "live"
                      /\ block'[o] = "live" <=> weak'[o] > 0
                      /\ N("delete_object", o)' > 0 =>
                            N("delete_object", o)' = 1 /\ strong'[o] = 0 /\ object'[o] = "live"
    BY DEF LivesFollowCounts, N
  <2>1. /\ object[o] = "none" => strong[o] = 0 /\ weak[o] = 0
        /\ strong[o] > 0 => object[o] = "live"
        /\ block[o] = "live" <=> weak[o] > 0
        /\ N("delete_object", o) > 0 =>
              N("delete_object", o) = 1 /\ strong[o] = 0 /\ object[o] = "live"
    BY DEF IInv, LivesFollowCounts, N
  <2>2. /\ N("delete_object", o) \in Nat
        /\ N("delete_object", o)' = N("delete_object", o) + (IF strong[o1] = 1 /\ o = o1 THEN 1 ELSE 0)
    BY <1>6
  <2>3. CASE o = o1
    BY <1>7, <1>8, <2>1, <2>2, <2>3
  <2>4. CASE o # o1
    BY <1>8, <2>1, <2>2, <2>4
  <2> QED
    BY <2>3, <2>4
<1> QED
  BY <1>0, <1>2, <1>4, <1>5, <1>7, <1>9, <1>11, <1>12 DEF IInv, Ordered

LEMMA SubWeakPreserves ==
    ASSUME IInv, NEW t \in Thread, SubWeakRef(t)
    PROVE  IInv'
<1>0. PICK o1 : o1 = Top(t).to
  OBVIOUS
<1> DEFINE pre == <<>>
<1>1. /\ calls[t] # <<>> /\ Top(t).op = "sub_weak" /\ Top(t).op \in Releasing
      /\ weak'  = [weak EXCEPT ![o1] = @ - 1]
      /\ block' = [block EXCEPT ![o1] = IF weak[o1] = 1 THEN "freed" ELSE @]
      /\ Continue(t, Rest(t), use[t])
      /\ ptr' = ptr /\ own' = own
      /\ UNCHANGED <<strong, object, undefined>>
  BY <1>0 DEF SubWeakRef, Calls, Releasing, handles
<1>2. o1 \in Object /\ TypeOK /\ Rest(t) \in Seq(CallRecord)
  <2>1. /\ calls[t] \in Seq(CallRecord) /\ InOrder(calls[t]) /\ DeletesAreFollowed(calls[t])
    BY StaleInUse DEF IInv, CallsOK, ReleasesComeFirst, DeletionsAreFollowed
  <2> QED
    BY <1>0, <1>1, <2>1, OrderOfTail, TailOf DEF Top, IInv, Rest
<1>3. /\ pre \in Seq(CallRecord) /\ OnlyReleases(pre) /\ DeletesAreFollowed(pre)
      /\ \A kind, o : Count(pre, kind, o) = 0
      /\ pre \o Rest(t) = Rest(t)
  <2>1. \A kind, o : Places(<<>>, kind, o) = {}
    BY DEF Places
  <2>2. \A s \in Seq(CallRecord) : <<>> \o s = s
    OBVIOUS
  <2>3. \A kind, o : Count(<<>>, kind, o) = 0
    BY <2>1, FS_EmptySet DEF Count
  <2> QED
    BY <1>2, <2>2, <2>3, OrderOfShort
<1> HIDE DEF pre
<1>4. /\ CallsOK' /\ Ordered' /\ IsFiniteSet(Pending')
      /\ use' \in [Thread -> SUBSET Handle]
      /\ Stale' = Stale
      /\ \A kind, o : /\ N(kind, o)' \in Nat
                      /\ N(kind, o)' + Is(Top(t), kind, o) = N(kind, o) + Count(pre, kind, o)
  <2>1. \A h \in Handle : StaysOrDies(h)
    BY <1>1 DEF StaysOrDies
  <2>2. Continue(t, pre \o Rest(t), use[t])
    BY <1>1, <1>3
  <2> QED
    BY <1>1, <1>3, <2>1, <2>2, ReleaseStep
<1>5. /\ \A hs, o : H(hs, o)' = H(hs, o)
      /\ FiniteInUse'
  BY <1>1, <1>4, HoldsStay DEF IInv, FiniteInUse
<1>6. ASSUME NEW o \in Object
      PROVE  /\ \A kind : N(kind, o) \in Nat
             /\ N("sub_strong", o)' = N("sub_strong", o)
             /\ N("sub_weak", o)' + (IF o = o1 THEN 1 ELSE 0) = N("sub_weak", o)
             /\ N("delete_object", o)' = N("delete_object", o)
  <2>1. \A kind : N(kind, o) \in Nat
    BY CountsAreNumbers
  <2>2. /\ Is(Top(t), "sub_weak", o) = IF o = o1 THEN 1 ELSE 0
        /\ Is(Top(t), "sub_strong", o) = 0
        /\ Is(Top(t), "delete_object", o) = 0
    BY <1>0, <1>1 DEF Is
  <2> QED
    BY <1>3, <1>4, <2>1, <2>2
<1>7. weak[o1] > 0
  <2>1. /\ N("sub_weak", o1) \in Nat /\ N("sub_weak", o1)' \in Nat
        /\ N("sub_weak", o1)' + 1 = N("sub_weak", o1)
    BY <1>2, <1>4, <1>6
  <2>2. H(Weak, o1) \in Nat
        /\ weak[o1] = H(Weak, o1) + N("sub_weak", o1) + (IF strong[o1] > 0 THEN 1 ELSE 0)
    BY <1>2, CountsAreNumbers
  <2> QED
    BY <2>1, <2>2
<1>8. \A o \in Object : /\ strong[o] \in Nat /\ weak[o] \in Nat
                        /\ weak'[o] = IF o = o1 THEN weak[o] - 1 ELSE weak[o]
                        /\ strong'[o] = strong[o] /\ object'[o] = object[o]
                        /\ block'[o] = IF o = o1 /\ weak[o] = 1 THEN "freed" ELSE block[o]
  BY <1>1, <1>2 DEF TypeOK
<1>9. TypeOK'
  <2>1. weak' \in [Object -> Nat] /\ block' \in [Object -> {"none", "live", "freed"}]
    BY <1>1, <1>2, <1>7 DEF TypeOK
  <2> QED
    BY <1>1, <1>2, <1>4, <2>1 DEF TypeOK, CallsOK, CallRecord
<1>10. ASSUME NEW o \in Object
       PROVE  /\ strong'[o] = H(Shared, o)' + N("sub_strong", o)'
              /\ weak'[o] = H(Weak, o)' + N("sub_weak", o)' + (IF strong'[o] > 0 THEN 1 ELSE 0)
  <2>1. /\ strong[o] \in Nat /\ weak[o] \in Nat
        /\ H(Shared, o) \in Nat /\ H(Weak, o) \in Nat
        /\ strong[o] = H(Shared, o) + N("sub_strong", o)
        /\ weak[o] = H(Weak, o) + N("sub_weak", o) + (IF strong[o] > 0 THEN 1 ELSE 0)
    BY CountsAreNumbers
  <2>2. H(Shared, o)' = H(Shared, o) /\ H(Weak, o)' = H(Weak, o)
    BY <1>5
  <2>3. /\ N("sub_strong", o) \in Nat /\ N("sub_weak", o) \in Nat /\ N("sub_weak", o)' \in Nat
        /\ N("sub_strong", o)' = N("sub_strong", o)
        /\ N("sub_weak", o)' + (IF o = o1 THEN 1 ELSE 0) = N("sub_weak", o)
    BY <1>4, <1>6
  <2> QED
    BY <1>8, <2>1, <2>2, <2>3
<1>11. CountsAreExact'
  BY <1>10 DEF CountsAreExact, N, H
<1>12. LivesFollowCounts'
  <2> SUFFICES ASSUME NEW o \in Object
               PROVE  /\ object'[o] = "none" => strong'[o] = 0 /\ weak'[o] = 0
                      /\ strong'[o] > 0 => object'[o] = "live"
                      /\ block'[o] = "live" <=> weak'[o] > 0
                      /\ N("delete_object", o)' > 0 =>
                            N("delete_object", o)' = 1 /\ strong'[o] = 0 /\ object'[o] = "live"
    BY DEF LivesFollowCounts, N
  <2>1. /\ object[o] = "none" => strong[o] = 0 /\ weak[o] = 0
        /\ strong[o] > 0 => object[o] = "live"
        /\ block[o] = "live" <=> weak[o] > 0
        /\ N("delete_object", o) > 0 =>
              N("delete_object", o) = 1 /\ strong[o] = 0 /\ object[o] = "live"
    BY DEF IInv, LivesFollowCounts, N
  <2> QED
    BY <1>6, <1>7, <1>8, <2>1
<1> QED
  BY <1>4, <1>5, <1>9, <1>11, <1>12 DEF IInv, Ordered

LEMMA SetToSeqIsBijection ==
    ASSUME NEW D, IsFiniteSet(D)
    PROVE  /\ Cardinality(D) \in Nat
           /\ SetToSeq(D) \in Bijection(1 .. Cardinality(D), D)
<1> DEFINE n == Cardinality(D)
           F == {f \in [1 .. n -> D] : IsInjective(f)}
<1>1. n \in Nat /\ ExistsBijection(1 .. n, D)
  BY FS_CardinalityType
<1>2. PICK f : f \in Bijection(1 .. n, D)
  BY <1>1 DEF ExistsBijection
<1>3. f \in F
  BY <1>2 DEF Bijection, Injection
<1>4. SetToSeq(D) \in F
  BY <1>3 DEF SetToSeq
<1>5. SetToSeq(D) \in Injection(1 .. n, D)
  BY <1>4 DEF Injection
<1>6. IsFiniteSet(1 .. n) /\ Cardinality(1 .. n) = n
  BY <1>1, FS_Interval
<1> HIDE DEF n
<1>7. SetToSeq(D) \in Surjection(1 .. n, D)
  BY <1>5, <1>6, FS_Injection DEF n
<1> QED
  BY <1>1, <1>5, <1>7 DEF Bijection, n

\* The members that the destructor of o is going to release.
Dying(o) == {h \in Members(o) : own[h] # Null}

\* Each of them is released once.
LEMMA ReleasesOf ==
    ASSUME TypeOK, NEW o1 \in Object, IsFiniteSet(Dying(o1))
    PROVE  /\ Releases(o1) \in Seq(CallRecord)
           /\ OnlyReleases(Releases(o1)) /\ DeletesAreFollowed(Releases(o1))
           /\ \A o \in Object :
                /\ Count(Releases(o1), "delete_object", o) = 0
                /\ Count(Releases(o1), "sub_strong", o)
                     = Cardinality({h \in Dying(o1) \cap Shared : own[h] = o})
                /\ Count(Releases(o1), "sub_weak", o)
                     = Cardinality({h \in Dying(o1) \cap Weak : own[h] = o})
<1> DEFINE D == Dying(o1)
           n == Cardinality(D)
           ms == SetToSeq(D)
           r == Releases(o1)
<1>1. n \in Nat /\ ms \in Bijection(1 .. n, D)
  BY SetToSeqIsBijection
<1>2. /\ ms \in [1 .. n -> D]
      /\ \A i, j \in 1 .. n : ms[i] = ms[j] => i = j
      /\ \A h \in D : \E i \in 1 .. n : ms[i] = h
  BY <1>1 DEF Bijection, Injection, Surjection, IsInjective
<1>3. D \subseteq Handle /\ \A h \in D : own[h] \in Object
  BY DEF Dying, Members, TypeOK
<1>4. r = [i \in 1 .. n |->
             Call(IF ms[i] \in Shared THEN "sub_strong" ELSE "sub_weak", own[ms[i]], Null)]
  BY <1>2 DEF Releases, Dying
<1> HIDE DEF D, n, ms, r
<1>5. /\ DOMAIN r = 1 .. n
      /\ \A i \in 1 .. n : /\ r[i] \in CallRecord
                           /\ r[i].op = IF ms[i] \in Shared THEN "sub_strong" ELSE "sub_weak"
                           /\ r[i].to = own[ms[i]]
  BY <1>1, <1>2, <1>3, <1>4 DEF Call, CallRecord, Op
<1>6. r \in Seq(CallRecord)
  <2>1. r \in [1 .. n -> CallRecord]
    BY <1>4, <1>5
  <2> QED
    BY <1>1, <2>1
<1>7. OnlyReleases(r) /\ DeletesAreFollowed(r)
  BY <1>2, <1>3, <1>5 DEF OnlyReleases, DeletesAreFollowed, Releasing
<1>8. ASSUME NEW hs, NEW kind, NEW o,
             \A i \in 1 .. n : r[i].op = kind <=> ms[i] \in hs
      PROVE  Count(r, kind, o) = Cardinality({h \in D \cap hs : own[h] = o})
  <2> DEFINE P == Places(r, kind, o)
             G == {h \in D \cap hs : own[h] = o}
             f == [i \in P |-> ms[i]]
  <2>1. \A i : i \in P <=> i \in 1 .. n /\ ms[i] \in hs /\ own[ms[i]] = o
    BY <1>5, <1>8 DEF Places
  <2>2. P \subseteq 1 .. n
    BY <2>1
  <2>3. IsFiniteSet(P)
    BY <1>1, <2>2, FS_Interval, FS_Subset
  <2>4. f \in [P -> G]
    BY <1>2, <2>1
  <2>5. \A i, j \in P : f[i] = f[j] => i = j
    BY <1>2, <2>2
  <2>6. \A h \in G : \E i \in P : f[i] = h
    <3> TAKE h \in G
    <3>1. PICK i \in 1 .. n : ms[i] = h
      BY <1>2
    <3>2. i \in P
      BY <2>1, <3>1
    <3> QED
      BY <3>1, <3>2
  <2> HIDE DEF f, P, G
  <2>7. f \in Injection(P, G)
    BY <2>4, <2>5 DEF Injection, IsInjective
  <2>8. f \in Surjection(P, G)
    BY <2>4, <2>6, SMT DEF Surjection
  <2>9. ExistsBijection(P, G)
    BY <2>7, <2>8 DEF ExistsBijection, Bijection
  <2>10. Cardinality(G) = Cardinality(P)
    BY <2>3, <2>9, FS_Bijection
  <2> QED
    BY <2>10 DEF Count, P, G
<1>9. ASSUME NEW o
      PROVE  /\ Count(r, "sub_strong", o) = Cardinality({h \in D \cap Shared : own[h] = o})
             /\ Count(r, "sub_weak", o) = Cardinality({h \in D \cap Weak : own[h] = o})
             /\ Count(r, "delete_object", o) = 0
  <2>1. \A i \in 1 .. n : /\ r[i].op = "sub_strong" <=> ms[i] \in Shared
                          /\ r[i].op = "sub_weak" <=> ms[i] \in Weak
                          /\ r[i].op # "delete_object"
    BY <1>2, <1>3, <1>5, HandlesAreApart DEF Handle
  <2>2. Places(r, "delete_object", o) = {}
    BY <1>5, <2>1 DEF Places
  <2>3. Count(r, "sub_strong", o) = Cardinality({h \in D \cap Shared : own[h] = o})
    BY <1>8, <2>1
  <2>4. Count(r, "sub_weak", o) = Cardinality({h \in D \cap Weak : own[h] = o})
    BY <1>8, <2>1
  <2> QED
    BY <2>2, <2>3, <2>4, FS_EmptySet DEF Count
<1> QED
  BY <1>6, <1>7, <1>9 DEF D, r

\* An object is deleted while nobody owns it and no member of it is waiting
\* for an assignment.
LEMMA AtDeletion ==
    ASSUME IInv, NEW o1 \in Object, N("delete_object", o1) > 0
    PROVE  /\ N("delete_object", o1) = 1
           /\ strong[o1] = 0 /\ object[o1] = "live"
           /\ Members(o1) \cap Stale = {}
<1>1. N("delete_object", o1) = 1 /\ strong[o1] = 0 /\ object[o1] = "live"
  BY DEF IInv, LivesFollowCounts, N
<1>2. ASSUME NEW h \in Members(o1), h \in Stale
      PROVE  FALSE
  <2>1. PICK u \in Thread : h \in AssignedBy(calls[u])
    BY <1>2, StaleInUse DEF StaleIsWhatIsAssigned
  <2>2. PICK c \in Finals(calls[u]) : c.op \in Assigning /\ c.to = h
    BY <2>1 DEF AssignedBy
  <2>3. IsHeld(u, h)
    BY <2>2 DEF IInv, ReleasesComeFirst, HandlesFit
  <2>4. Where[h] = o1 /\ o1 # Null
    BY HandlesAreApart DEF Members
  <2>5. PICK p \in use[u] \cap Program : own[p] = o1
    BY <2>3, <2>4 DEF IsHeld
  <2>6. p # h
    BY <2>4, <2>5 DEF Program
  <2>7. p \notin AssignedBy(calls[u])
    BY <2>2, <2>6 DEF AssignedBy, Finals
  <2>8. p \in Handle \ Stale /\ p \in Shared
    BY <2>5, <2>7, StaleInUse DEF Program, Handle
  <2>9. strong[own[p]] > 0
    BY <2>4, <2>5, <2>8, OwnersAreCounted
  <2> QED
    BY <1>1, <2>5, <2>9
<1> QED
  BY <1>1, <1>2

LEMMA DeletePreserves ==
    ASSUME IInv, NEW t \in Thread, DeleteObject(t)
    PROVE  /\ IInv'
           /\ object[Top(t).to] = "live" /\ strong[Top(t).to] = 0 /\ Top(t).to \in Object
<1>0. PICK o1 : o1 = Top(t).to
  OBVIOUS
<1> DEFINE pre == Releases(o1)
           D == Dying(o1)
<1>1. /\ calls[t] # <<>> /\ Top(t).op = "delete_object" /\ Top(t).op \in Releasing
      /\ object' = [object EXCEPT ![o1] = "deleted"]
      /\ ptr' = [h \in Shared |-> IF h \in Members(o1) THEN Null ELSE ptr[h]]
      /\ own' = [h \in Handle |-> IF h \in Members(o1) THEN Null ELSE own[h]]
      /\ Continue(t, pre \o Rest(t), use[t])
      /\ UNCHANGED <<strong, weak, block, undefined>>
  BY <1>0 DEF DeleteObject, Calls, Releasing, counts
<1>2. /\ o1 \in Object /\ o1 # Null /\ TypeOK
      /\ calls[t] \in Seq(CallRecord)
  <2>1. /\ calls[t] \in Seq(CallRecord) /\ InOrder(calls[t]) /\ DeletesAreFollowed(calls[t])
    BY StaleInUse DEF IInv, CallsOK, ReleasesComeFirst, DeletionsAreFollowed
  <2> QED
    BY <1>0, <1>1, <2>1, OrderOfTail, HandlesAreApart DEF Top, IInv
<1>3. N("delete_object", o1) > 0
  <2>1. <<t, 1>> \in PendingCalls("delete_object", o1)
    <3>1. 1 \in DOMAIN calls[t] /\ calls[t][1] = Top(t)
      BY <1>1, <1>2, TailOf DEF Top
    <3> QED
      BY <1>0, <1>1, <3>1 DEF PendingCalls, Pending
  <2>2. IsFiniteSet(PendingCalls("delete_object", o1))
    <3>1. PendingCalls("delete_object", o1) \subseteq Pending
      BY DEF PendingCalls
    <3> QED
      BY <3>1, FS_Subset DEF IInv, FiniteInUse
  <2>3. N("delete_object", o1) # 0
    BY <2>1, <2>2, FS_EmptySet DEF N
  <2> QED
    BY <1>2, <2>3, CountsAreNumbers
<1>4. /\ N("delete_object", o1) = 1
      /\ strong[o1] = 0 /\ object[o1] = "live"
      /\ Members(o1) \cap Stale = {}
  BY <1>2, <1>3, AtDeletion
<1>5. IsFiniteSet(D)
  <2>1. D \subseteq {h \in Handle : own[h] # Null}
    BY DEF Dying, Members
  <2> QED
    BY <2>1, FS_Subset DEF IInv, FiniteInUse
<1>6. /\ pre \in Seq(CallRecord) /\ OnlyReleases(pre) /\ DeletesAreFollowed(pre)
      /\ \A o \in Object :
           /\ Count(pre, "delete_object", o) = 0
           /\ Count(pre, "sub_strong", o) = Cardinality({h \in D \cap Shared : own[h] = o})
           /\ Count(pre, "sub_weak", o) = Cardinality({h \in D \cap Weak : own[h] = o})
  BY <1>2, <1>5, ReleasesOf
<1> HIDE DEF pre
<1>7. \A h \in Handle : StaysOrDies(h)
  BY <1>1, <1>2, <1>4 DEF StaysOrDies, Members
<1>8. /\ CallsOK' /\ Ordered' /\ IsFiniteSet(Pending')
      /\ use' \in [Thread -> SUBSET Handle]
      /\ Stale' = Stale
      /\ \A kind, o : /\ N(kind, o)' \in Nat
                      /\ N(kind, o)' + Is(Top(t), kind, o) = N(kind, o) + Count(pre, kind, o)
  BY <1>1, <1>6, <1>7, ReleaseStep
<1>9. /\ own' \in [Handle -> Object \cup {Null}]
      /\ ptr' \in [Shared -> Object \cup {Null}]
      /\ object' \in [Object -> {"none", "live", "deleted"}]
  BY <1>1, <1>2 DEF TypeOK
<1>10. TypeOK'
  BY <1>1, <1>2, <1>8, <1>9 DEF TypeOK, CallsOK, CallRecord
<1>11. FiniteInUse'
  <2>1. \A h \in Handle : own'[h] = own[h] \/ own'[h] = Null \/ h \in {o1, o1}
    BY <1>7 DEF StaysOrDies
  <2>2. IsFiniteSet(Owning')
    BY <2>1, OwningIsFinite
  <2> QED
    BY <1>8, <2>2 DEF FiniteInUse, Owning
<1>12. ASSUME NEW o \in Object, NEW hs \in {Shared, Weak}
       PROVE  LET G == {h \in D \cap hs : own[h] = o}
              IN  /\ Cardinality(G) \in Nat /\ H(hs, o)' \in Nat /\ H(hs, o) \in Nat
                  /\ H(hs, o)' + Cardinality(G) = H(hs, o)
  <2> DEFINE G == {h \in D \cap hs : own[h] = o}
             S == Holds(hs, o)
             T == Holds(hs, o)'
  <2>1. IsFiniteSet(S) /\ H(hs, o) = Cardinality(S)
    BY CountsAreNumbers DEF H
  <2>2. o # Null /\ hs \subseteq Handle
    BY HandlesAreApart DEF Handle
  <2>3. T = S \ G
    BY <1>1, <1>8, <2>2 DEF Holds, Dying
  <2>4. G \subseteq S
    BY <1>4, <2>2 DEF Holds, Dying
  <2>5. H(hs, o)' = Cardinality(T)
    BY DEF H
  <2> HIDE DEF G, S, T
  <2>6. IsFiniteSet(G) /\ IsFiniteSet(T)
    BY <2>1, <2>3, <2>4, FS_Subset
  <2>7. Cardinality(G) \in Nat /\ Cardinality(T) \in Nat /\ Cardinality(S) \in Nat
    BY <2>1, <2>6, FS_CardinalityType
  <2>8. S = T \cup G /\ T \cap G = {}
    BY <2>3, <2>4
  <2>9. Cardinality(T \cap G) = 0
    BY <2>8, FS_EmptySet
  <2>10. Cardinality(T \cup G) = Cardinality(T) + Cardinality(G) - Cardinality(T \cap G)
    BY <2>6, FS_Union
  <2>11. Cardinality(T) + Cardinality(G) = Cardinality(S)
    BY <2>7, <2>8, <2>9, <2>10
  <2> QED
    BY <2>1, <2>5, <2>7, <2>11 DEF G
<1>13. ASSUME NEW o \in Object
       PROVE  /\ N("delete_object", o) \in Nat
              /\ N("delete_object", o)' + (IF o = o1 THEN 1 ELSE 0) = N("delete_object", o)
              /\ H(Shared, o)' + N("sub_strong", o)' = H(Shared, o) + N("sub_strong", o)
              /\ H(Weak, o)' + N("sub_weak", o)' = H(Weak, o) + N("sub_weak", o)
  <2>1. \A kind : N(kind, o) \in Nat
    BY CountsAreNumbers
  <2>2. /\ Is(Top(t), "delete_object", o) = IF o = o1 THEN 1 ELSE 0
        /\ Is(Top(t), "sub_strong", o) = 0
        /\ Is(Top(t), "sub_weak", o) = 0
    BY <1>0, <1>1 DEF Is
  <2>3. \A kind : /\ N(kind, o)' \in Nat
                  /\ N(kind, o)' + Is(Top(t), kind, o) = N(kind, o) + Count(pre, kind, o)
    BY <1>8
  <2>4. N("delete_object", o)' + (IF o = o1 THEN 1 ELSE 0) = N("delete_object", o)
    <3>1. Count(pre, "delete_object", o) = 0
      BY <1>6
    <3> QED
      BY <2>1, <2>2, <2>3, <3>1
  <2>5. H(Shared, o)' + N("sub_strong", o)' = H(Shared, o) + N("sub_strong", o)
    <3> DEFINE g == Cardinality({h \in D \cap Shared : own[h] = o})
    <3>1. g \in Nat /\ H(Shared, o)' \in Nat /\ H(Shared, o)' + g = H(Shared, o)
      BY <1>12
    <3>2. Count(pre, "sub_strong", o) = g
      BY <1>6
    <3> HIDE DEF g
    <3>3. N("sub_strong", o)' \in Nat /\ N("sub_strong", o)' + 0 = N("sub_strong", o) + g
      BY <2>2, <2>3, <3>2
    <3> QED
      BY <2>1, <3>1, <3>3
  <2>6. H(Weak, o)' + N("sub_weak", o)' = H(Weak, o) + N("sub_weak", o)
    <3> DEFINE g == Cardinality({h \in D \cap Weak : own[h] = o})
    <3>1. g \in Nat /\ H(Weak, o)' \in Nat /\ H(Weak, o)' + g = H(Weak, o)
      BY <1>12
    <3>2. Count(pre, "sub_weak", o) = g
      BY <1>6
    <3> HIDE DEF g
    <3>3. N("sub_weak", o)' \in Nat /\ N("sub_weak", o)' + 0 = N("sub_weak", o) + g
      BY <2>2, <2>3, <3>2
    <3> QED
      BY <2>1, <3>1, <3>3
  <2> QED
    BY <2>1, <2>4, <2>5, <2>6
<1>14. ASSUME NEW o \in Object
       PROVE  /\ strong'[o] = H(Shared, o)' + N("sub_strong", o)'
              /\ weak'[o] = H(Weak, o)' + N("sub_weak", o)' + (IF strong'[o] > 0 THEN 1 ELSE 0)
  BY <1>1, <1>13, CountsAreNumbers
<1>15. CountsAreExact'
  BY <1>14 DEF CountsAreExact, N, H
<1>16. LivesFollowCounts'
  <2> SUFFICES ASSUME NEW o \in Object
               PROVE  /\ object'[o] = "none" => strong'[o] = 0 /\ weak'[o] = 0
                      /\ strong'[o] > 0 => object'[o] = "live"
                      /\ block'[o] = "live" <=> weak'[o] > 0
                      /\ N("delete_object", o)' > 0 =>
                            N("delete_object", o)' = 1 /\ strong'[o] = 0 /\ object'[o] = "live"
    BY DEF LivesFollowCounts, N
  <2>1. /\ object[o] = "none" => strong[o] = 0 /\ weak[o] = 0
        /\ strong[o] > 0 => object[o] = "live"
        /\ block[o] = "live" <=> weak[o] > 0
        /\ N("delete_object", o) > 0 =>
              N("delete_object", o) = 1 /\ strong[o] = 0 /\ object[o] = "live"
    BY DEF IInv, LivesFollowCounts, N
  <2>2. /\ strong'[o] = strong[o] /\ weak'[o] = weak[o] /\ block'[o] = block[o]
        /\ object'[o] = IF o = o1 THEN "deleted" ELSE object[o]
    BY <1>1, <1>2 DEF TypeOK
  <2>3. N("delete_object", o) \in Nat /\ N("delete_object", o)' \in Nat
        /\ N("delete_object", o)' + (IF o = o1 THEN 1 ELSE 0) = N("delete_object", o)
    BY <1>8, <1>13
  <2>4. CASE o = o1
    BY <1>4, <2>1, <2>2, <2>3, <2>4
  <2>5. CASE o # o1
    BY <2>1, <2>2, <2>3, <2>5
  <2> QED
    BY <2>4, <2>5
<1> QED
  BY <1>0, <1>2, <1>4, <1>8, <1>10, <1>11, <1>15, <1>16 DEF IInv, Ordered

-----------------------------------------------------------------------------
(* The theorems *)

LEMMA InitEstablishes == Init => IInv
<1> SUFFICES ASSUME Init
             PROVE  IInv
  OBVIOUS
<1>1. TypeOK
  <2>1. calls \in [Thread -> Seq(CallRecord)]
    BY OrderOfShort DEF Init
  <2> QED
    BY <2>1 DEF Init, TypeOK, CallRecord
<1>2. \A t \in Thread : calls[t] = <<>> /\ use[t] = {}
  BY DEF Init
<1>3. Pending = {}
  BY <1>2 DEF Pending
<1>4. {h \in Handle : own[h] # Null} = {}
  BY DEF Init
<1>5. UsesAreApart /\ ReleasesComeFirst /\ DeletionsAreFollowed
  BY <1>2, OrderOfShort DEF UsesAreApart, ReleasesComeFirst, DeletionsAreFollowed
<1>6. FiniteInUse
  BY <1>3, <1>4, FS_EmptySet DEF FiniteInUse
<1>7. \A kind, o : Cardinality(PendingCalls(kind, o)) = 0
  <2>1. \A kind, o : PendingCalls(kind, o) = {}
    BY <1>3 DEF PendingCalls
  <2> QED
    BY <2>1, FS_EmptySet
<1>8. \A o \in Object : Cardinality(Holds(Shared, o)) = 0 /\ Cardinality(Holds(Weak, o)) = 0
  <2>1. \A o \in Object : Holds(Shared, o) = {} /\ Holds(Weak, o) = {}
    BY HandlesAreApart DEF Init, Holds, Handle
  <2> QED
    BY <2>1, FS_EmptySet
<1>9. \A o \in Object : /\ strong[o] = 0 /\ weak[o] = 0
                        /\ object[o] = "none" /\ block[o] = "none"
  BY DEF Init
<1>10. CountsAreExact
  BY <1>7, <1>8, <1>9 DEF CountsAreExact
<1>11. LivesFollowCounts
  BY <1>7, <1>9 DEF LivesFollowCounts
<1> QED
  BY <1>1, <1>5, <1>6, <1>10, <1>11 DEF IInv

LEMMA NextPreserves == IInv /\ [Next]_vars => IInv'
<1> SUFFICES ASSUME IInv, [Next]_vars
             PROVE  IInv'
  OBVIOUS
<1>1. CASE UNCHANGED vars
  <2>1. undefined \in BOOLEAN
    BY DEF IInv, TypeOK
  <2> QED
    BY <1>1, <2>1, UnchangedPreserves DEF vars, handles, counts, memory
<1>2. CASE \E t \in Thread : Operation(t)
  <2>1. PICK t \in Thread : Operation(t)
    BY <1>2
  <2>2. ASSUME NEW x \in Shared, NEW o \in Object, Make(t, x, o)
        PROVE  IInv'
    BY <2>2, MakePreserves
  <2>3. ASSUME NEW x \in Shared, NEW y \in Shared, CopyShared(t, x, y)
        PROVE  IInv'
    BY <2>3, CopyPreserves
  <2>4. ASSUME NEW x \in Shared, NEW y \in Shared, Swap(t, x, y)
        PROVE  IInv'
    BY <2>4, SwapPreserves
  <2>5. CASE \/ \E x, y \in Shared : AssignShared(t, x, y) \/ MoveAssignShared(t, x, y)
             \/ \E x \in Shared : ResetShared(t, x)
             \/ \E x \in Weak, y \in Handle : AssignWeak(t, x, y)
             \/ \E x, y \in Weak : MoveAssignWeak(t, x, y)
             \/ \E x \in Weak : ResetWeak(t, x)
             \/ \E x \in Shared, y \in Weak : Lock(t, x, y)
    BY <2>5, OperationsBegin
  <2> QED
    BY <2>1, <2>2, <2>3, <2>4, <2>5 DEF Operation
<1>3. CASE \E t \in Thread : Step(t)
  <2>1. PICK t \in Thread : Step(t)
    BY <1>3
  <2>2. CASE SubStrongRef(t)
    BY <2>2, SubStrongPreserves
  <2>3. CASE DeleteObject(t)
    BY <2>3, DeletePreserves
  <2>4. CASE SubWeakRef(t)
    BY <2>4, SubWeakPreserves
  <2>5. CASE TakeStrong(t)
    BY <2>5, TakeStrongPreserves
  <2>6. CASE TakeWeak(t)
    BY <2>6, TakeWeakPreserves
  <2>7. CASE MoveOwner(t)
    BY <2>7, MovePreserves
  <2>8. CASE Clear(t)
    BY <2>8, ClearPreserves
  <2>9. CASE TryAddStrongRef(t)
    BY <2>9, TryAddPreserves
  <2>10. CASE TryAddStrongFails(t)
    BY <2>10, TryAddFailsPreserves
  <2>11. CASE UndefinedAssignment(t)
    <3>1. UNCHANGED <<handles, counts, memory, calls, use>> /\ undefined' \in BOOLEAN
      BY <2>11 DEF UndefinedAssignment
    <3> QED
      BY <3>1, UnchangedPreserves
  <2> QED
    BY <2>1, <2>2, <2>3, <2>4, <2>5, <2>6, <2>7, <2>8, <2>9, <2>10, <2>11 DEF Step
<1> QED
  BY <1>1, <1>2, <1>3 DEF Next

\* The inductive invariant holds in every state of the program.
THEOREM SharedPtrInvariance == Spec => []IInv
<1>1. Init => IInv
  BY InitEstablishes
<1>2. IInv /\ [Next]_vars => IInv'
  BY NextPreserves
<1> QED
  BY <1>1, <1>2, PTL DEF Spec

\* The types are right; in particular no __sub_strong_ref and no
\* __sub_weak_ref takes a count below zero.
THEOREM SharedPtrTypes == Spec => []TypeOK
<1>1. IInv => TypeOK
  BY DEF IInv
<1> QED
  BY <1>1, SharedPtrInvariance, PTL

\* _M_strong_ref counts the shared_ptrs and the releases still to be done, and
\* _M_weak_ref the weak_ptrs, their releases and one for all the owners.
THEOREM SharedPtrCountsAreExact == Spec => []CountsAreExact
<1>1. IInv => CountsAreExact
  BY DEF IInv
<1> QED
  BY <1>1, SharedPtrInvariance, PTL

LEMMA PendingIsCounted ==
    ASSUME IInv, NEW t \in Thread, NEW i \in DOMAIN calls[t],
           calls[t][i].to \in Object
    PROVE  N(calls[t][i].op, calls[t][i].to) > 0
<1> DEFINE P == PendingCalls(calls[t][i].op, calls[t][i].to)
<1>1. <<t, i>> \in P
  BY DEF PendingCalls, Pending
<1>2. P \subseteq Pending
  BY DEF PendingCalls
<1>3. IsFiniteSet(P)
  BY <1>2, FS_Subset DEF IInv, FiniteInUse
<1> HIDE DEF P
<1>4. Cardinality(P) # 0 /\ Cardinality(P) \in Nat
  BY <1>1, <1>3, FS_EmptySet, FS_CardinalityType
<1> QED
  BY <1>4 DEF N, P

\* A shared_ptr's object is live; the block of a handle, or of a call that is
\* still to be made, has not been freed.
THEOREM SharedPtrNothingDies == Spec => []NothingDiesInUse
<1>1. IInv => NothingDiesInUse
  <2> SUFFICES ASSUME IInv
               PROVE  NothingDiesInUse
    OBVIOUS
  <2>1. \A o \in Object : /\ strong[o] > 0 => object[o] = "live" /\ weak[o] > 0
                          /\ weak[o] > 0 => block[o] = "live"
    <3> TAKE o \in Object
    <3>1. /\ strong[o] > 0 => object[o] = "live"
          /\ weak[o] > 0 => block[o] = "live"
      BY DEF IInv, LivesFollowCounts
    <3>2. /\ H(Weak, o) \in Nat /\ N("sub_weak", o) \in Nat
          /\ weak[o] = H(Weak, o) + N("sub_weak", o) + (IF strong[o] > 0 THEN 1 ELSE 0)
      BY CountsAreNumbers
    <3> QED
      BY <3>1, <3>2
  <2>2. \A h \in Shared \ Stale : own[h] # Null => object[own[h]] = "live"
    BY <2>1, OwnersAreCounted DEF Handle
  <2>3. \A h \in Handle \ Stale : own[h] # Null => block[own[h]] = "live"
    BY <2>1, OwnersAreCounted
  <2>4. ASSUME NEW t \in Thread, NEW i \in DOMAIN calls[t], NEW o \in Object,
               calls[t][i].to = o
        PROVE  block[o] = "live"
    <3>1. /\ calls[t] \in Seq(CallRecord) /\ DeletesAreFollowed(calls[t])
          /\ InOrder(calls[t]) /\ \A c \in Finals(calls[t]) : HandlesFit(t, c)
          /\ use[t] \subseteq Handle
      BY StaleInUse DEF IInv, TypeOK, CallsOK, ReleasesComeFirst, DeletionsAreFollowed
    <3>2. calls[t][i].op \in Releasing
      <4>1. SUFFICES ASSUME calls[t][i].op \notin Releasing
                     PROVE  FALSE
        OBVIOUS
      <4>2. i = Len(calls[t]) /\ calls[t] # <<>>
        BY <3>1, <4>1 DEF InOrder
      <4>3. calls[t][i] \in Finals(calls[t])
        BY <4>1, <4>2 DEF Finals
      <4>4. o \in Handle
        BY <2>4, <3>1, <4>3 DEF HandlesFit
      <4> QED
        BY <4>4, HandlesAreApart
    <3>3. CASE calls[t][i].op = "sub_strong"
      <4>1. N("sub_strong", o) > 0
        BY <2>4, <3>3, PendingIsCounted
      <4>2. H(Shared, o) \in Nat /\ N("sub_strong", o) \in Nat
            /\ strong[o] = H(Shared, o) + N("sub_strong", o)
        BY CountsAreNumbers
      <4> QED
        BY <2>1, <4>1, <4>2
    <3>4. ASSUME N("sub_weak", o) > 0
          PROVE  block[o] = "live"
      <4>1. H(Weak, o) \in Nat /\ N("sub_weak", o) \in Nat
            /\ weak[o] = H(Weak, o) + N("sub_weak", o) + (IF strong[o] > 0 THEN 1 ELSE 0)
        BY CountsAreNumbers
      <4> QED
        BY <2>1, <3>4, <4>1
    <3>5. CASE calls[t][i].op = "sub_weak"
      BY <2>4, <3>4, <3>5, PendingIsCounted
    <3>6. CASE calls[t][i].op = "delete_object"
      <4>1. PICK j \in DOMAIN calls[t] : calls[t][j].op = "sub_weak" /\ calls[t][j].to = o
        BY <2>4, <3>1, <3>6 DEF DeletesAreFollowed
      <4> QED
        BY <3>4, <4>1, PendingIsCounted
    <3> QED
      BY <3>2, <3>3, <3>5, <3>6 DEF Releasing
  <2>5. \A c \in Pending : \E t \in Thread : \E i \in DOMAIN calls[t] : c = <<t, i>>
    BY DEF Pending
  <2>6. \A c \in Pending : \A o \in Object :
            calls[c[1]][c[2]].to = o => block[o] = "live"
    BY <2>4, <2>5
  <2> QED
    BY <2>2, <2>3, <2>6 DEF NothingDiesInUse
<1> QED
  BY <1>1, SharedPtrInvariance, PTL

\* Each step of shared_ptr and weak_ptr makes an object, adds an owner to one
\* that has owners, takes one away, or deletes what nobody owns, or leaves all
\* that as it is.
THEOREM SharedPtrImplementsOwnership == Spec => ImplementsOwnership
<1>1. Init => Ownership!Init
  BY DEF Init, Ownership!Init
<1>2. ASSUME IInv, [Next]_vars
      PROVE  [Ownership!Next]_(Ownership!vars)
  <2>0. TypeOK
    BY <1>2 DEF IInv
  <2>1. CASE UNCHANGED <<strong, object>>
    BY <2>1 DEF Ownership!vars
  <2>2. ASSUME NEW t \in Thread, NEW x \in Shared, NEW o \in Object, Make(t, x, o)
        PROVE  Ownership!Make(o)
    BY <2>2 DEF Make, Ownership!Make
  <2>3. ASSUME NEW o \in Object, strong[o] > 0,
               strong' = [strong EXCEPT ![o] = @ + 1], object' = object
        PROVE  Ownership!Join(o)
    BY <2>3 DEF Ownership!Join
  <2>4. ASSUME NEW t \in Thread, NEW x \in Shared, NEW y \in Shared, CopyShared(t, x, y)
        PROVE  \E o \in Object : Ownership!Join(o)
    <3>1. strong[own[y]] > 0 /\ own[y] \in Object
      BY <1>2, <2>4, CopyPreserves
    <3> QED
      BY <2>3, <2>4, <3>1 DEF CopyShared, memory
  <2>5. ASSUME NEW t \in Thread, TakeStrong(t)
        PROVE  \E o \in Object : Ownership!Join(o)
    <3>1. strong[own[Top(t).from]] > 0 /\ own[Top(t).from] \in Object
      BY <1>2, <2>5, TakeStrongPreserves
    <3> QED
      BY <2>3, <2>5, <3>1 DEF TakeStrong, memory
  <2>6. ASSUME NEW t \in Thread, TryAddStrongRef(t)
        PROVE  \E o \in Object : Ownership!Join(o)
    <3>1. strong[own[Top(t).from]] > 0 /\ own[Top(t).from] \in Object
      BY <1>2, <2>6, TryAddPreserves
    <3> QED
      BY <2>3, <2>6, <3>1 DEF TryAddStrongRef, memory
  <2>7. ASSUME NEW t \in Thread, SubStrongRef(t)
        PROVE  \E o \in Object : Ownership!Leave(o)
    <3>1. strong[Top(t).to] > 0 /\ Top(t).to \in Object
      BY <1>2, <2>7, SubStrongPreserves
    <3> QED
      BY <2>7, <3>1 DEF SubStrongRef, memory, Ownership!Leave
  <2>8. ASSUME NEW t \in Thread, DeleteObject(t)
        PROVE  \E o \in Object : Ownership!Delete(o)
    <3>1. object[Top(t).to] = "live" /\ strong[Top(t).to] = 0 /\ Top(t).to \in Object
      BY <1>2, <2>8, DeletePreserves
    <3> QED
      BY <2>8, <3>1 DEF DeleteObject, counts, Ownership!Delete
  <2>9. CASE UNCHANGED vars
    BY <2>1, <2>9 DEF vars
  <2>10. ASSUME NEW t \in Thread, Operation(t)
         PROVE  Ownership!Next \/ UNCHANGED <<strong, object>>
    BY <2>2, <2>4, <2>10
       DEF Operation, Ownership!Next, AssignShared, MoveAssignShared, ResetShared, Swap,
           AssignWeak, MoveAssignWeak, ResetWeak, Lock, counts, memory
  <2>11. ASSUME NEW t \in Thread, Step(t)
         PROVE  Ownership!Next \/ UNCHANGED <<strong, object>>
    BY <2>5, <2>6, <2>7, <2>8, <2>11
       DEF Step, Ownership!Next, SubWeakRef, TakeWeak, MoveOwner, Clear, TryAddStrongFails,
           UndefinedAssignment, counts, memory
  <2> QED
    BY <1>2, <2>9, <2>10, <2>11 DEF Next, Ownership!vars
<1>3. IInv /\ [Next]_vars => [Ownership!Next]_(Ownership!vars)
  BY <1>2
<1> QED
  BY <1>1, <1>3, SharedPtrInvariance, PTL DEF Spec, ImplementsOwnership, Ownership!Spec
=============================================================================
