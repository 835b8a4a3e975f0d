----------------------- MODULE QueuedSpinlock_proofs -----------------------
(***************************************************************************)
(* Proofs about the queued spinlock, for any set of threads.               *)
(*                                                                         *)
(* Mutual exclusion does not follow from the Locked bits alone: a thread   *)
(* writes back, into the token before its own, a Locked bit it read        *)
(* earlier, and that must not release a thread that is still to wait.  The *)
(* invariant therefore says where in the order of arrival every pointer    *)
(* leads.                                                                  *)
(***************************************************************************)
EXTENDS QueuedSpinlock, TLAPS

Position == 1..Len(arrivals)

\* The threads that wait are those in arrivals, each once.
ArrivalsAreTheWaiters ==
    /\ \A i, j \in Position : arrivals[i] = arrivals[j] => i = j
    /\ \A i \in Position : pc[arrivals[i]] \in Waiting \cup {"faulted"}
    /\ \A t \in Thread : pc[t] \in Waiting \cup {"faulted"} =>
          \E i \in Position : arrivals[i] = t

\* The lock word names the last arrival or, when nobody waits, an owner; it is
\* locked whenever a thread owns the lock or waits for it.
LockWordIsTheTail ==
    /\ Len(arrivals) > 0 => lockword = LockedVal(arrivals[Len(arrivals)])
    /\ Len(arrivals) = 0 /\ lockword.next # Null =>
          lockword.locked /\ pc[lockword.next] \in Owning
    /\ Len(arrivals) = 0 /\ lockword.locked =>
          \E t \in Thread : pc[t] \in Owning
    /\ ~lockword.locked => \A t \in Thread : pc[t] \notin Owning

\* Only the first arrival can have its token unlocked, and then nobody owns.
OneGrant ==
    \A i \in Position : ~token[arrivals[i]].locked =>
        i = 1 /\ \A t \in Thread : pc[t] \notin Owning

\* A thread links itself behind the arrival before it, or behind the owner.
PredIsTheArrivalBefore ==
    /\ \A i \in Position : i > 1 => pred[arrivals[i]] = arrivals[i - 1]
    /\ \A t \in Thread :
          /\ pc[t] \in {"load", "link"}
          /\ Len(arrivals) > 0
          /\ arrivals[1] = t
          /\ pred[t] # Null
          =>
          /\ pc[pred[t]] \in Owning \ {"handOver"}
          /\ token[pred[t]].next = Null
    /\ \A t \in Thread : pc[t] = "link" => pred[t] # Null

\* The pointer in a token in the queue leads to the next arrival, which spins.
NextIsTheArrivalAfter ==
    /\ \A i \in Position : token[arrivals[i]].next # Null =>
          /\ i < Len(arrivals)
          /\ token[arrivals[i]].next = arrivals[i + 1]
          /\ pc[arrivals[i + 1]] = "spin"
    /\ \A t \in Thread : pc[t] \in Owning /\ token[t].next # Null =>
          /\ Len(arrivals) > 0
          /\ token[t].next = arrivals[1]
          /\ pc[arrivals[1]] = "spin"
    /\ \A t \in Thread : pc[t] = "handOver" =>
          next[t] = token[t].next /\ next[t] # Null

\* An unlocked bit that is about to be written back is still the truth.
FlagsReadAreCurrent ==
    \A i \in Position :
        i > 1 /\ pc[arrivals[i]] = "link" /\ ~flags[arrivals[i]] =>
            ~token[arrivals[i - 1]].locked

\* A thread enters the queue with its token locked and linked to nobody.
TokenIsCleared ==
    \A t \in Thread : pc[t] = "exchange" => token[t] = LockedFlag

IInv ==
    /\ TypeOK
    /\ MutualExclusion
    /\ ArrivalsAreTheWaiters
    /\ LockWordIsTheTail
    /\ OneGrant
    /\ PredIsTheArrivalBefore
    /\ NextIsTheArrivalAfter
    /\ FlagsReadAreCurrent
    /\ TokenIsCleared


-----------------------------------------------------------------------------
(* Every step preserves the invariant: one lemma per action. *)

USE SpinlockAssumption DEF Word, Pointer, Unlocked, LockedFlag, LockedVal,
    Waiting, Owning, Queued, Label, Goto, locals, Position, MayFail

\* The fast path of Acquire finds the lock free, so nobody owns or waits.
LEMMA AcquireFastPreserves ==
    ASSUME IInv, NEW t \in Thread, AcquireFast(t)
    PROVE  IInv'
<1> USE DEF AcquireFast, IInv
<1>1. TypeOK'
  BY DEF TypeOK
<1>2. MutualExclusion'
  BY DEF TypeOK, MutualExclusion, ArrivalsAreTheWaiters, LockWordIsTheTail
<1>3. ArrivalsAreTheWaiters'
  BY DEF TypeOK, ArrivalsAreTheWaiters
<1>4. LockWordIsTheTail'
  BY DEF TypeOK, LockWordIsTheTail
<1>5. OneGrant'
  BY DEF TypeOK, MutualExclusion, ArrivalsAreTheWaiters, LockWordIsTheTail, OneGrant
<1>6. PredIsTheArrivalBefore'
  BY DEF TypeOK, PredIsTheArrivalBefore
<1>7. NextIsTheArrivalAfter'
  BY DEF TypeOK, NextIsTheArrivalAfter
<1>8. FlagsReadAreCurrent'
  BY DEF TypeOK, FlagsReadAreCurrent
<1>9. TokenIsCleared'
  BY DEF TypeOK, TokenIsCleared
<1> QED
  BY <1>1, <1>2, <1>3, <1>4, <1>5, <1>6, <1>7, <1>8, <1>9 DEF IInv

\* A failed fast path changes only the caller's own, unqueued token.
LEMMA AcquireContendedPreserves ==
    ASSUME IInv, NEW t \in Thread, AcquireContended(t)
    PROVE  IInv'
<1> USE DEF AcquireContended, IInv
<1>1. TypeOK'
  BY DEF TypeOK
<1>2. MutualExclusion'
  BY DEF TypeOK, MutualExclusion
<1>3. ArrivalsAreTheWaiters'
  BY DEF TypeOK, ArrivalsAreTheWaiters
<1>4. LockWordIsTheTail'
  BY DEF TypeOK, LockWordIsTheTail
<1>5. OneGrant'
  BY DEF TypeOK, MutualExclusion, ArrivalsAreTheWaiters, OneGrant
<1>6. PredIsTheArrivalBefore'
  BY DEF TypeOK, PredIsTheArrivalBefore
<1>7. NextIsTheArrivalAfter'
  BY DEF TypeOK, NextIsTheArrivalAfter
<1>8. FlagsReadAreCurrent'
  BY DEF TypeOK, FlagsReadAreCurrent
<1>9. TokenIsCleared'
  BY DEF TypeOK, TokenIsCleared
<1> QED
  BY <1>1, <1>2, <1>3, <1>4, <1>5, <1>6, <1>7, <1>8, <1>9 DEF IInv

\* Clearing a token that is not in the queue disturbs no pointer.
LEMMA ClearTokenPreserves ==
    ASSUME IInv, NEW t \in Thread, ClearToken(t)
    PROVE  IInv'
<1> USE DEF ClearToken, IInv
<1>1. TypeOK'
  BY DEF TypeOK
<1>2. MutualExclusion'
  BY DEF TypeOK, MutualExclusion
<1>3. ArrivalsAreTheWaiters'
  BY DEF TypeOK, ArrivalsAreTheWaiters
<1>4. LockWordIsTheTail'
  BY DEF TypeOK, LockWordIsTheTail
<1>5. OneGrant'
  BY DEF TypeOK, OneGrant
<1>6. PredIsTheArrivalBefore'
  BY DEF TypeOK, PredIsTheArrivalBefore
<1>7. NextIsTheArrivalAfter'
  BY DEF TypeOK, NextIsTheArrivalAfter
<1>8. FlagsReadAreCurrent'
  BY SMTT(30) DEF TypeOK, MutualExclusion, ArrivalsAreTheWaiters, FlagsReadAreCurrent
<1>9. TokenIsCleared'
  BY DEF TypeOK, TokenIsCleared
<1> QED
  BY <1>1, <1>2, <1>3, <1>4, <1>5, <1>6, <1>7, <1>8, <1>9 DEF IInv

\* The exchange appends the caller to the arrivals, or finds the lock free.
LEMMA EnqueuePreserves ==
    ASSUME IInv, NEW t \in Thread, Enqueue(t)
    PROVE  IInv'
<1> USE DEF IInv
<1> DEFINE n == Len(arrivals)
<1>1. CASE ~lockword.locked
  <2> USE <1>1 DEF Enqueue
  <2>1. n = 0 /\ UNCHANGED arrivals
    BY DEF TypeOK, LockWordIsTheTail
  <2>2. TypeOK' /\ MutualExclusion' /\ TokenIsCleared'
    BY SMTT(30) DEF TypeOK, MutualExclusion, LockWordIsTheTail, TokenIsCleared
  <2>3. ArrivalsAreTheWaiters'
    BY <2>1 DEF TypeOK, ArrivalsAreTheWaiters
  <2>4. LockWordIsTheTail'
    BY <2>1 DEF TypeOK, LockWordIsTheTail
  <2>5. PredIsTheArrivalBefore' /\ OneGrant' /\ FlagsReadAreCurrent'
    BY <2>1 DEF TypeOK, PredIsTheArrivalBefore, OneGrant, FlagsReadAreCurrent
  <2>6. NextIsTheArrivalAfter'
    BY <2>1 DEF TypeOK, NextIsTheArrivalAfter, TokenIsCleared
  <2> QED
    BY <2>2, <2>3, <2>4, <2>5, <2>6
<1>2. CASE lockword.locked
  <2>1. /\ pc[t] = "exchange"
        /\ pc' = [pc EXCEPT ![t] = "load"]
        /\ pred' = [pred EXCEPT ![t] = lockword.next]
        /\ lockword' = LockedVal(t)
        /\ UNCHANGED <<token, flags, next>>
    BY <1>2 DEF Enqueue
  <2>2. arrivals \in Seq(Thread) /\ arrivals' = Append(arrivals, t)
    BY <1>2 DEF Enqueue, TypeOK
  <2>3. /\ n \in Nat
        /\ arrivals' \in Seq(Thread)
        /\ Len(arrivals') = n + 1
        /\ arrivals'[n + 1] = t
        /\ \A i \in 1..n : arrivals'[i] = arrivals[i]
    BY <2>2
  <2>4. \A i \in 1..n : arrivals[i] \in Thread /\ arrivals[i] # t
    <3>1. \A i \in 1..n : arrivals[i] \in Thread
      BY <2>2
    <3>2. \A i \in 1..n : pc[arrivals[i]] # "exchange"
      BY DEF ArrivalsAreTheWaiters
    <3> QED
      BY <2>1, <3>1, <3>2
  <2> HIDE DEF n
  <2>5. TypeOK'
    BY <2>1, <2>3 DEF TypeOK
  <2>6. MutualExclusion'
    BY <2>1 DEF TypeOK, MutualExclusion
  <2>7. ArrivalsAreTheWaiters'
    <3>1. \A i, j \in 1..(n + 1) : arrivals'[i] = arrivals'[j] => i = j
      BY <2>3, <2>4 DEF ArrivalsAreTheWaiters, n
    <3>2. \A i \in 1..(n + 1) : pc'[arrivals'[i]] \in Waiting \cup {"faulted"}
      <4>1. \A i \in 1..n : pc'[arrivals'[i]] \in Waiting \cup {"faulted"}
        BY <2>1, <2>3, <2>4 DEF TypeOK, ArrivalsAreTheWaiters, n
      <4>2. pc'[arrivals'[n + 1]] \in Waiting \cup {"faulted"}
        BY <2>1, <2>3 DEF TypeOK
      <4> QED
        BY <4>1, <4>2, <2>3
    <3>3. ASSUME NEW u \in Thread, pc'[u] \in Waiting \cup {"faulted"}
          PROVE  \E i \in 1..(n + 1) : arrivals'[i] = u
      <4>1. CASE u = t
        BY <4>1, <2>3
      <4>2. CASE u # t
        BY <4>2, <3>3, <2>1, <2>3 DEF TypeOK, ArrivalsAreTheWaiters, n
      <4> QED
        BY <4>1, <4>2
    <3> QED
      BY <3>1, <3>2, <3>3, <2>3 DEF ArrivalsAreTheWaiters
  <2>8. LockWordIsTheTail'
    BY <2>1, <2>3 DEF LockWordIsTheTail
  <2>9. OneGrant'
    BY <2>1, <2>3, SMTT(30) DEF TypeOK, OneGrant, TokenIsCleared, n
  <2>10. PredIsTheArrivalBefore'
    <3>1. ASSUME NEW i \in 1..(n + 1), i > 1
          PROVE  pred'[arrivals'[i]] = arrivals'[i - 1]
      <4>1. CASE i = n + 1
        BY <4>1, <3>1, <2>1, <2>3, SMTT(30) DEF TypeOK, LockWordIsTheTail, n
      <4>2. CASE i \in 1..n
        BY <4>2, <3>1, <2>1, <2>3, <2>4, SMTT(30) DEF TypeOK, PredIsTheArrivalBefore, n
      <4> QED
        BY <4>1, <4>2, <2>3
    <3>2. ASSUME NEW u \in Thread, pc'[u] \in {"load", "link"},
                 arrivals'[1] = u, pred'[u] # Null
          PROVE  pc'[pred'[u]] \in Owning \ {"handOver"} /\ token'[pred'[u]].next = Null
      <4>1. CASE n = 0
        <5>1. u = t /\ pred'[u] = lockword.next /\ lockword.next \in Thread
          BY <4>1, <3>2, <2>1, <2>3 DEF TypeOK
        <5>2. pc[lockword.next] \in Owning /\ lockword.next # t
          BY <5>1, <3>2, <4>1, <2>1 DEF LockWordIsTheTail, n
        <5>3. token[lockword.next].next = Null
          BY <5>1, <5>2, <4>1 DEF NextIsTheArrivalAfter, n
        <5>4. pc[lockword.next] # "handOver"
          BY <5>1, <5>3 DEF NextIsTheArrivalAfter
        <5> QED
          BY <5>1, <5>2, <5>3, <5>4, <2>1 DEF TypeOK
      <4>2. CASE n > 0
        <5>1. u = arrivals[1] /\ u # t
          BY <4>2, <3>2, <2>3, <2>4
        <5>2. /\ pc[pred[u]] \in Owning \ {"handOver"}
              /\ token[pred[u]].next = Null
              /\ pred'[u] = pred[u]
          BY <5>1, <4>2, <3>2, <2>1 DEF TypeOK, PredIsTheArrivalBefore, n
        <5> QED
          BY <5>1, <5>2, <3>2, <2>1 DEF TypeOK
      <4> QED
        BY <4>1, <4>2, <2>3
    <3>3. \A u \in Thread : pc'[u] = "link" => pred'[u] # Null
      BY <2>1 DEF TypeOK, PredIsTheArrivalBefore
    <3> QED
      BY <3>1, <3>2, <3>3, <2>3 DEF PredIsTheArrivalBefore
  <2>11. NextIsTheArrivalAfter'
    <3>1. ASSUME NEW i \in 1..(n + 1), token'[arrivals'[i]].next # Null
          PROVE  /\ i < n + 1
                 /\ token'[arrivals'[i]].next = arrivals'[i + 1]
                 /\ pc'[arrivals'[i + 1]] = "spin"
      <4>1. i \in 1..n
        BY <3>1, <2>1, <2>3 DEF TypeOK, TokenIsCleared
      <4> QED
        BY <4>1, <3>1, <2>1, <2>3, <2>4, SMTT(30) DEF TypeOK, NextIsTheArrivalAfter, n
    <3>2. ASSUME NEW u \in Thread, pc'[u] \in Owning, token'[u].next # Null
          PROVE  /\ n + 1 > 0
                 /\ token'[u].next = arrivals'[1]
                 /\ pc'[arrivals'[1]] = "spin"
      BY <3>2, <2>1, <2>3, <2>4, SMTT(30) DEF TypeOK, NextIsTheArrivalAfter, n
    <3>3. \A u \in Thread : pc'[u] = "handOver" =>
              next'[u] = token'[u].next /\ next'[u] # Null
      BY <2>1 DEF TypeOK, NextIsTheArrivalAfter
    <3> QED
      BY <3>1, <3>2, <3>3, <2>3 DEF NextIsTheArrivalAfter
  <2>12. FlagsReadAreCurrent'
    <3>1. ASSUME NEW i \in 1..(n + 1), i > 1, pc'[arrivals'[i]] = "link",
                 ~flags'[arrivals'[i]]
          PROVE  ~token'[arrivals'[i - 1]].locked
      <4>1. i \in 1..n
        BY <3>1, <2>1, <2>3 DEF TypeOK
      <4>2. arrivals'[i] = arrivals[i] /\ arrivals'[i - 1] = arrivals[i - 1]
        BY <4>1, <3>1, <2>3
      <4>3. pc[arrivals[i]] = "link" /\ ~flags[arrivals[i]]
        BY <4>1, <4>2, <3>1, <2>1, <2>4 DEF TypeOK
      <4>4. ~token[arrivals[i - 1]].locked
        BY <4>1, <4>3, <3>1 DEF FlagsReadAreCurrent, n
      <4> QED
        BY <4>2, <4>4, <2>1
    <3> QED
      BY <3>1, <2>3 DEF FlagsReadAreCurrent
  <2>13. TokenIsCleared'
    BY <2>1 DEF TypeOK, TokenIsCleared
  <2> QED
    BY <2>5, <2>6, <2>7, <2>8, <2>9, <2>10, <2>11, <2>12, <2>13
<1> QED
  BY <1>1, <1>2

\* The Locked bit read from the predecessor's token is current when read.
LEMMA LoadFlagsPreserves ==
    ASSUME IInv, NEW t \in Thread, LoadFlags(t)
    PROVE  IInv'
<1> USE DEF LoadFlags, IInv
<1>1. TypeOK'
  BY DEF TypeOK
<1>2. MutualExclusion'
  BY DEF TypeOK, MutualExclusion
<1>3. ArrivalsAreTheWaiters'
  BY DEF TypeOK, ArrivalsAreTheWaiters
<1>4. LockWordIsTheTail'
  BY DEF TypeOK, LockWordIsTheTail
<1>5. OneGrant'
  BY DEF TypeOK, OneGrant
<1>6. PredIsTheArrivalBefore'
  BY DEF TypeOK, PredIsTheArrivalBefore
<1>7. NextIsTheArrivalAfter'
  BY DEF TypeOK, NextIsTheArrivalAfter
<1>8. FlagsReadAreCurrent'
  BY DEF TypeOK, MutualExclusion, ArrivalsAreTheWaiters, PredIsTheArrivalBefore, NextIsTheArrivalAfter, FlagsReadAreCurrent
<1>9. TokenIsCleared'
  BY DEF TypeOK, TokenIsCleared
<1> QED
  BY <1>1, <1>2, <1>3, <1>4, <1>5, <1>6, <1>7, <1>8, <1>9 DEF IInv

\* A write through the null pointer reaches no token.
LEMMA LinkBehindNullPreserves ==
    ASSUME IInv, NEW t \in Thread, LinkBehindNull(t)
    PROVE  IInv'
<1> USE DEF LinkBehindNull, IInv
<1>1. TypeOK'
  BY DEF TypeOK
<1>2. MutualExclusion'
  BY DEF TypeOK, MutualExclusion
<1>3. ArrivalsAreTheWaiters'
  BY DEF TypeOK, MutualExclusion, ArrivalsAreTheWaiters, LockWordIsTheTail
<1>4. LockWordIsTheTail'
  BY DEF TypeOK, LockWordIsTheTail
<1>5. OneGrant'
  BY DEF TypeOK, OneGrant
<1>6. PredIsTheArrivalBefore'
  BY DEF TypeOK, PredIsTheArrivalBefore
<1>7. NextIsTheArrivalAfter'
  BY DEF TypeOK, NextIsTheArrivalAfter
<1>8. FlagsReadAreCurrent'
  BY DEF TypeOK, FlagsReadAreCurrent
<1>9. TokenIsCleared'
  BY DEF TypeOK, TokenIsCleared
<1> QED
  BY <1>1, <1>2, <1>3, <1>4, <1>5, <1>6, <1>7, <1>8, <1>9 DEF IInv

\* The link is written into the token of the arrival before, or of the owner.
LEMMA LinkPreserves ==
    ASSUME IInv, NEW t \in Thread, Link(t)
    PROVE  IInv'
<1> USE DEF Link, IInv
<1>1. TypeOK'
  BY DEF TypeOK
<1>2. MutualExclusion'
  BY DEF TypeOK, MutualExclusion
<1>3. ArrivalsAreTheWaiters'
  BY DEF TypeOK, ArrivalsAreTheWaiters
<1>4. LockWordIsTheTail'
  BY DEF TypeOK, LockWordIsTheTail
<1>5. OneGrant'
  BY DEF TypeOK, MutualExclusion, ArrivalsAreTheWaiters, OneGrant, PredIsTheArrivalBefore, NextIsTheArrivalAfter, FlagsReadAreCurrent
<1>6. PredIsTheArrivalBefore'
  BY DEF TypeOK, MutualExclusion, ArrivalsAreTheWaiters, PredIsTheArrivalBefore
<1>7. NextIsTheArrivalAfter'
  BY SMTT(30) DEF TypeOK, MutualExclusion, ArrivalsAreTheWaiters, PredIsTheArrivalBefore, NextIsTheArrivalAfter
<1>8. FlagsReadAreCurrent'
  BY DEF TypeOK, MutualExclusion, ArrivalsAreTheWaiters, PredIsTheArrivalBefore, NextIsTheArrivalAfter, FlagsReadAreCurrent
<1>9. TokenIsCleared'
  <2>1. PICK i \in Position : arrivals[i] = t
    BY DEF ArrivalsAreTheWaiters
  <2>2. pc[pred[t]] \in Queued
    <3>1. CASE i > 1
      BY <2>1, <3>1 DEF TypeOK, PredIsTheArrivalBefore, ArrivalsAreTheWaiters
    <3>2. CASE i = 1
      BY <2>1, <3>2 DEF TypeOK, PredIsTheArrivalBefore
    <3> QED
      BY <3>1, <3>2, <2>1 DEF TypeOK
  <2> QED
    BY <2>2 DEF TypeOK, TokenIsCleared
<1> QED
  BY <1>1, <1>2, <1>3, <1>4, <1>5, <1>6, <1>7, <1>8, <1>9 DEF IInv

\* The thread whose token is unlocked is the first arrival.
LEMMA GrantedPreserves ==
    ASSUME IInv, NEW t \in Thread, Granted(t)
    PROVE  IInv'
<1> USE DEF Granted, IInv
<1>1. TypeOK'
  BY DEF TypeOK, MutualExclusion, ArrivalsAreTheWaiters
<1>2. MutualExclusion'
  BY DEF TypeOK, MutualExclusion, ArrivalsAreTheWaiters, LockWordIsTheTail, OneGrant
<1>3. ArrivalsAreTheWaiters'
  <2>1. /\ Len(arrivals) > 0 /\ arrivals[1] = t
    BY DEF TypeOK, ArrivalsAreTheWaiters, OneGrant
  <2>2. /\ Len(arrivals') = Len(arrivals) - 1
        /\ \A i \in 1..(Len(arrivals) - 1) : arrivals'[i] = arrivals[i + 1]
    BY <2>1 DEF TypeOK
  <2>3. \A i \in 1..(Len(arrivals) - 1) : arrivals[i + 1] # t
    BY <2>1 DEF TypeOK, ArrivalsAreTheWaiters
  <2>4. \A i, j \in Position' : arrivals'[i] = arrivals'[j] => i = j
    BY <2>2 DEF TypeOK, ArrivalsAreTheWaiters
  <2>5. \A i \in Position' : pc'[arrivals'[i]] \in Waiting \cup {"faulted"}
    BY <2>2, <2>3 DEF TypeOK, ArrivalsAreTheWaiters
  <2>6. ASSUME NEW u \in Thread, pc'[u] \in Waiting \cup {"faulted"}
        PROVE  \E i \in Position' : arrivals'[i] = u
    <3>1. PICK i \in Position : arrivals[i] = u
      BY <2>6 DEF TypeOK, ArrivalsAreTheWaiters
    <3>2. i > 1
      BY <3>1, <2>1, <2>6 DEF TypeOK
    <3>3. i - 1 \in Position' /\ arrivals'[i - 1] = u
      BY <3>1, <3>2, <2>2 DEF TypeOK
    <3> QED
      BY <3>3
  <2> QED
    BY <2>4, <2>5, <2>6 DEF ArrivalsAreTheWaiters
<1>4. LockWordIsTheTail'
  BY DEF TypeOK, MutualExclusion, ArrivalsAreTheWaiters, LockWordIsTheTail
<1>5. OneGrant'
  BY DEF TypeOK, OneGrant
<1>6. PredIsTheArrivalBefore'
  BY DEF TypeOK, MutualExclusion, ArrivalsAreTheWaiters, OneGrant, PredIsTheArrivalBefore, NextIsTheArrivalAfter, FlagsReadAreCurrent
<1>7. NextIsTheArrivalAfter'
  BY DEF TypeOK, MutualExclusion, ArrivalsAreTheWaiters, LockWordIsTheTail, OneGrant, NextIsTheArrivalAfter
<1>8. FlagsReadAreCurrent'
  BY DEF TypeOK, FlagsReadAreCurrent
<1>9. TokenIsCleared'
  BY DEF TypeOK, TokenIsCleared
<1> QED
  BY <1>1, <1>2, <1>3, <1>4, <1>5, <1>6, <1>7, <1>8, <1>9 DEF IInv

\* The fast path of Release finds no queue, so nobody waits.
LEMMA ReleaseFastPreserves ==
    ASSUME IInv, NEW t \in Thread, ReleaseFast(t)
    PROVE  IInv'
<1> USE DEF ReleaseFast, IInv
<1>1. TypeOK'
  BY DEF TypeOK
<1>2. MutualExclusion'
  BY DEF TypeOK, MutualExclusion
<1>3. ArrivalsAreTheWaiters'
  BY DEF TypeOK, ArrivalsAreTheWaiters
<1>4. LockWordIsTheTail'
  BY DEF TypeOK, MutualExclusion, ArrivalsAreTheWaiters, LockWordIsTheTail
<1>5. OneGrant'
  BY DEF TypeOK, OneGrant
<1>6. PredIsTheArrivalBefore'
  BY DEF TypeOK, MutualExclusion, ArrivalsAreTheWaiters, LockWordIsTheTail, PredIsTheArrivalBefore
<1>7. NextIsTheArrivalAfter'
  BY DEF TypeOK, NextIsTheArrivalAfter
<1>8. FlagsReadAreCurrent'
  BY DEF TypeOK, FlagsReadAreCurrent
<1>9. TokenIsCleared'
  BY DEF TypeOK, TokenIsCleared
<1> QED
  BY <1>1, <1>2, <1>3, <1>4, <1>5, <1>6, <1>7, <1>8, <1>9 DEF IInv

\* A failed compare-exchange of Release changes no shared word.
LEMMA ReleaseContendedPreserves ==
    ASSUME IInv, NEW t \in Thread, ReleaseContended(t)
    PROVE  IInv'
<1> USE DEF ReleaseContended, IInv
<1>1. TypeOK'
  BY DEF TypeOK
<1>2. MutualExclusion'
  BY DEF TypeOK, MutualExclusion
<1>3. ArrivalsAreTheWaiters'
  BY SMTT(30) DEF TypeOK, ArrivalsAreTheWaiters
<1>4. LockWordIsTheTail'
  BY DEF TypeOK, LockWordIsTheTail
<1>5. OneGrant'
  BY DEF TypeOK, OneGrant
<1>6. PredIsTheArrivalBefore'
  BY DEF TypeOK, PredIsTheArrivalBefore
<1>7. NextIsTheArrivalAfter'
  BY DEF TypeOK, NextIsTheArrivalAfter
<1>8. FlagsReadAreCurrent'
  BY DEF TypeOK, FlagsReadAreCurrent
<1>9. TokenIsCleared'
  BY DEF TypeOK, TokenIsCleared
<1> QED
  BY <1>1, <1>2, <1>3, <1>4, <1>5, <1>6, <1>7, <1>8, <1>9 DEF IInv

\* The medium path frees the lock only while the owner is the last token.
LEMMA DequeuePreserves ==
    ASSUME IInv, NEW t \in Thread, Dequeue(t)
    PROVE  IInv'
<1> USE DEF Dequeue, IInv
<1>1. TypeOK'
  BY DEF TypeOK
<1>2. MutualExclusion'
  BY DEF TypeOK, MutualExclusion
<1>3. ArrivalsAreTheWaiters'
  BY DEF TypeOK, ArrivalsAreTheWaiters
<1>4. LockWordIsTheTail'
  BY DEF TypeOK, MutualExclusion, ArrivalsAreTheWaiters, LockWordIsTheTail
<1>5. OneGrant'
  BY DEF TypeOK, OneGrant
<1>6. PredIsTheArrivalBefore'
  BY DEF TypeOK, MutualExclusion, ArrivalsAreTheWaiters, LockWordIsTheTail, PredIsTheArrivalBefore
<1>7. NextIsTheArrivalAfter'
  BY DEF TypeOK, NextIsTheArrivalAfter
<1>8. FlagsReadAreCurrent'
  BY DEF TypeOK, FlagsReadAreCurrent
<1>9. TokenIsCleared'
  BY DEF TypeOK, TokenIsCleared
<1> QED
  BY <1>1, <1>2, <1>3, <1>4, <1>5, <1>6, <1>7, <1>8, <1>9 DEF IInv

\* Leaving the medium path changes no shared word.
LEMMA DequeueContendedPreserves ==
    ASSUME IInv, NEW t \in Thread, DequeueContended(t)
    PROVE  IInv'
<1> USE DEF DequeueContended, IInv
<1>1. TypeOK'
  BY DEF TypeOK
<1>2. MutualExclusion'
  BY DEF TypeOK, MutualExclusion
<1>3. ArrivalsAreTheWaiters'
  BY DEF TypeOK, ArrivalsAreTheWaiters
<1>4. LockWordIsTheTail'
  BY DEF TypeOK, LockWordIsTheTail
<1>5. OneGrant'
  BY DEF TypeOK, OneGrant
<1>6. PredIsTheArrivalBefore'
  BY DEF TypeOK, PredIsTheArrivalBefore
<1>7. NextIsTheArrivalAfter'
  BY DEF TypeOK, NextIsTheArrivalAfter
<1>8. FlagsReadAreCurrent'
  BY DEF TypeOK, FlagsReadAreCurrent
<1>9. TokenIsCleared'
  BY DEF TypeOK, TokenIsCleared
<1> QED
  BY <1>1, <1>2, <1>3, <1>4, <1>5, <1>6, <1>7, <1>8, <1>9 DEF IInv

\* The owner reads the link that the next arrival wrote.
LEMMA ReadNextPreserves ==
    ASSUME IInv, NEW t \in Thread, ReadNext(t)
    PROVE  IInv'
<1> USE DEF ReadNext, IInv
<1>1. TypeOK'
  BY DEF TypeOK
<1>2. MutualExclusion'
  BY DEF TypeOK, MutualExclusion
<1>3. ArrivalsAreTheWaiters'
  BY DEF TypeOK, ArrivalsAreTheWaiters
<1>4. LockWordIsTheTail'
  BY DEF TypeOK, LockWordIsTheTail
<1>5. OneGrant'
  BY DEF TypeOK, OneGrant
<1>6. PredIsTheArrivalBefore'
  BY DEF TypeOK, PredIsTheArrivalBefore
<1>7. NextIsTheArrivalAfter'
  BY DEF TypeOK, NextIsTheArrivalAfter
<1>8. FlagsReadAreCurrent'
  BY DEF TypeOK, FlagsReadAreCurrent
<1>9. TokenIsCleared'
  BY DEF TypeOK, TokenIsCleared
<1> QED
  BY <1>1, <1>2, <1>3, <1>4, <1>5, <1>6, <1>7, <1>8, <1>9 DEF IInv

\* The token unlocked by the owner is that of the first arrival.
LEMMA HandOverPreserves ==
    ASSUME IInv, NEW t \in Thread, HandOver(t)
    PROVE  IInv'
<1> USE DEF HandOver, IInv
<1>1. TypeOK'
  BY DEF TypeOK
<1>2. MutualExclusion'
  BY DEF TypeOK, MutualExclusion
<1>3. ArrivalsAreTheWaiters'
  BY DEF TypeOK, ArrivalsAreTheWaiters
<1>4. LockWordIsTheTail'
  BY DEF TypeOK, MutualExclusion, ArrivalsAreTheWaiters, LockWordIsTheTail, PredIsTheArrivalBefore, NextIsTheArrivalAfter
<1>5. OneGrant'
  BY DEF TypeOK, MutualExclusion, ArrivalsAreTheWaiters, OneGrant, PredIsTheArrivalBefore, NextIsTheArrivalAfter
<1>6. PredIsTheArrivalBefore'
  BY DEF TypeOK, PredIsTheArrivalBefore
<1>7. NextIsTheArrivalAfter'
  BY DEF TypeOK, NextIsTheArrivalAfter
<1>8. FlagsReadAreCurrent'
  BY DEF TypeOK, FlagsReadAreCurrent
<1>9. TokenIsCleared'
  <2>1. pc[next[t]] = "spin"
    BY DEF TypeOK, NextIsTheArrivalAfter
  <2> QED
    BY <2>1 DEF TypeOK, TokenIsCleared
<1> QED
  BY <1>1, <1>2, <1>3, <1>4, <1>5, <1>6, <1>7, <1>8, <1>9 DEF IInv

-----------------------------------------------------------------------------
(* The theorems *)

\* IInv holds in every reachable state of the spinlock.
THEOREM SpinlockInvariance == Spec => []IInv
<1>1. Init => IInv
  BY DEF Init, IInv, TypeOK, MutualExclusion, ArrivalsAreTheWaiters,
         LockWordIsTheTail, OneGrant, PredIsTheArrivalBefore,
         NextIsTheArrivalAfter, FlagsReadAreCurrent, TokenIsCleared
<1>2. IInv /\ [Next]_vars => IInv'
  <2> SUFFICES ASSUME IInv, [Next]_vars
               PROVE  IInv'
    OBVIOUS
  <2>1. CASE UNCHANGED vars
    BY <2>1 DEF vars, IInv, TypeOK, MutualExclusion, ArrivalsAreTheWaiters,
         LockWordIsTheTail, OneGrant, PredIsTheArrivalBefore,
         NextIsTheArrivalAfter, FlagsReadAreCurrent, TokenIsCleared
  <2>2. ASSUME NEW t \in Thread, Acquire(t)
        PROVE  IInv'
    BY <2>2, AcquireFastPreserves, AcquireContendedPreserves,
       ClearTokenPreserves, EnqueuePreserves, LoadFlagsPreserves,
       LinkBehindNullPreserves, LinkPreserves, GrantedPreserves DEF Acquire
  <2>3. ASSUME NEW t \in Thread, Release(t)
        PROVE  IInv'
    BY <2>3, ReleaseFastPreserves, ReleaseContendedPreserves,
       DequeuePreserves, DequeueContendedPreserves, ReadNextPreserves,
       HandOverPreserves DEF Release
  <2> QED
    BY <2>1, <2>2, <2>3 DEF Next
<1> QED
  BY <1>1, <1>2, PTL DEF Spec

\* Every variable of the lock keeps its type.
THEOREM SpinlockTypeCorrect == Spec => []TypeOK
BY SpinlockInvariance, PTL DEF IInv

\* At most one thread owns the spinlock, however fast, medium and slow paths of
\* any number of threads interleave.
THEOREM SpinlockMutualExclusion == Spec => []MutualExclusion
BY SpinlockInvariance, PTL DEF IInv

\* No thread ever accesses the token of a thread that has left the lock, so a
\* token may be destroyed as soon as QueuedSpinlockRelease returns.
THEOREM SpinlockTokenOutlivesItsUsers == Spec => []TokenOutlivesItsUsers
<1>1. IInv => TokenOutlivesItsUsers
  <2> SUFFICES ASSUME IInv, NEW t \in Thread
               PROVE  /\ pc[t] \in {"load", "link"} /\ pred[t] # Null =>
                             pc[pred[t]] \in Queued
                      /\ pc[t] = "handOver" => pc[next[t]] = "spin"
    BY DEF TokenOutlivesItsUsers
  <2> USE DEF IInv
  <2>1. ASSUME pc[t] \in {"load", "link"}, pred[t] # Null
        PROVE  pc[pred[t]] \in Queued
    <3>1. PICK i \in Position : arrivals[i] = t
      BY <2>1 DEF ArrivalsAreTheWaiters
    <3>2. CASE i > 1
      BY <3>1, <3>2 DEF TypeOK, PredIsTheArrivalBefore, ArrivalsAreTheWaiters
    <3>3. CASE i = 1
      BY <3>1, <3>3, <2>1 DEF TypeOK, PredIsTheArrivalBefore
    <3> QED
      BY <3>1, <3>2, <3>3 DEF TypeOK
  <2>2. ASSUME pc[t] = "handOver"
        PROVE  pc[next[t]] = "spin"
    BY <2>2 DEF TypeOK, NextIsTheArrivalAfter
  <2> QED
    BY <2>1, <2>2
<1> QED
  BY <1>1, SpinlockInvariance, PTL

\* An owner that waits for its successor in the slow path of Release waits for a
\* thread that is still in the queue: were nobody waiting, the lock word would
\* lead to a second owner.
THEOREM SpinlockSlowReleaseHasASuccessor == Spec => []SlowReleaseHasASuccessor
<1>1. IInv => SlowReleaseHasASuccessor
  <2> SUFFICES ASSUME IInv,
                      NEW t \in Thread,
                      pc[t] = "awaitNext",
                      lockword.next \in Thread \ {t}
               PROVE  pc[lockword.next] \in Waiting \cup {"faulted"}
    BY DEF SlowReleaseHasASuccessor
  <2>1. Len(arrivals) \in Nat
    BY DEF IInv, TypeOK
  <2>2. Len(arrivals) > 0
    <3> SUFFICES ASSUME Len(arrivals) = 0 PROVE FALSE
      BY <2>1
    <3>1. pc[lockword.next] \in Owning
      BY DEF IInv, LockWordIsTheTail
    <3> QED
      BY <3>1 DEF IInv, MutualExclusion
  <2>3. lockword.next = arrivals[Len(arrivals)]
    BY <2>2 DEF IInv, LockWordIsTheTail
  <2>4. Len(arrivals) \in Position
    BY <2>1, <2>2
  <2> QED
    BY <2>3, <2>4 DEF IInv, ArrivalsAreTheWaiters
<1> QED
  BY <1>1, SpinlockInvariance, PTL

-----------------------------------------------------------------------------
(* The spinlock implements the FIFO lock *)

\* The mapped owner is the one thread in its critical section, if there is one.
LEMMA OwnerIsUnique ==
    ASSUME NEW t \in Thread
    PROVE  /\ MutualExclusion /\ pc[t] \in Owning => OwnerOrNull = t
           /\ MutualExclusion' /\ pc'[t] \in Owning => OwnerOrNull' = t
BY DEF MutualExclusion, OwnerOrNull

LEMMA NoOwner ==
    /\ (\A t \in Thread : pc[t] \notin Owning) => OwnerOrNull = Null
    /\ (\A t \in Thread : pc'[t] \notin Owning) => OwnerOrNull' = Null
BY DEF OwnerOrNull

\* A step that neither starts nor ends an ownership keeps the mapped owner.
LEMMA OwnerUnchanged ==
    ASSUME \A t \in Thread : pc'[t] \in Owning <=> pc[t] \in Owning
    PROVE  OwnerOrNull' = OwnerOrNull
<1> DEFINE Owners == {t \in Thread : pc[t] \in Owning}
<1>1. OwnerOrNull = IF Owners # {} THEN CHOOSE t \in Thread : t \in Owners ELSE Null
  BY Zenon DEF OwnerOrNull
<1>2. OwnerOrNull' = IF Owners' # {} THEN CHOOSE t \in Thread : t \in Owners' ELSE Null
  BY Zenon DEF OwnerOrNull
<1>3. Owners' = Owners
  OBVIOUS
<1> HIDE DEF Owners
<1> QED
  BY <1>1, <1>2, <1>3

\* A step that takes the lock, or gives it up, is the FIFO lock's step; every
\* other step leaves both the mapped owner and the arrivals alone.
LEMMA AcquireStep ==
    ASSUME IInv, IInv', NEW t \in Thread, Acquire(t)
    PROVE  [Fifo!FifoNext]_(Fifo!fifoVars)
<1> USE DEF IInv
<1>1. CASE AcquireFast(t)
  <2>1. OwnerOrNull = Null
    BY <1>1, NoOwner DEF AcquireFast, LockWordIsTheTail
  <2>2. OwnerOrNull' = t
    BY <1>1, OwnerIsUnique DEF AcquireFast, TypeOK
  <2>3. arrivals = <<>> /\ arrivals' = arrivals
    BY <1>1 DEF AcquireFast, LockWordIsTheTail, TypeOK
  <2> QED
    BY <2>1, <2>2, <2>3 DEF Fifo!FifoNext, Fifo!AcquireFree
<1>2. CASE Enqueue(t) /\ ~lockword.locked
  <2>1. OwnerOrNull = Null
    BY <1>2, NoOwner DEF LockWordIsTheTail
  <2>2. OwnerOrNull' = t
    BY <1>2, OwnerIsUnique DEF Enqueue, TypeOK
  <2>3. arrivals = <<>> /\ arrivals' = arrivals
    BY <1>2 DEF Enqueue, LockWordIsTheTail, TypeOK
  <2> QED
    BY <2>1, <2>2, <2>3 DEF Fifo!FifoNext, Fifo!AcquireFree
<1>3. CASE Enqueue(t) /\ lockword.locked
  <2>1. OwnerOrNull' = OwnerOrNull
    BY <1>3, OwnerUnchanged DEF Enqueue, TypeOK
  <2>2. arrivals' = Append(arrivals, t)
    BY <1>3 DEF Enqueue
  <2>3. OwnerOrNull # Null \/ arrivals # <<>>
    BY <1>3, OwnerIsUnique DEF LockWordIsTheTail, TypeOK
  <2> QED
    BY <2>1, <2>2, <2>3 DEF Fifo!FifoNext, Fifo!Wait
<1>4. CASE Granted(t)
  <2>1. Len(arrivals) > 0 /\ arrivals[1] = t /\ OwnerOrNull = Null
    BY <1>4, NoOwner DEF Granted, TypeOK, ArrivalsAreTheWaiters, OneGrant
  <2>2. OwnerOrNull' = t
    BY <1>4, OwnerIsUnique DEF Granted, TypeOK
  <2>3. arrivals # <<>> /\ t = Head(arrivals) /\ arrivals' = Tail(arrivals)
    BY <1>4, <2>1 DEF Granted, TypeOK
  <2> QED
    BY <2>1, <2>2, <2>3 DEF Fifo!FifoNext, Fifo!Grant
<1>5. CASE AcquireContended(t) \/ ClearToken(t) \/ LoadFlags(t)
           \/ LinkBehindNull(t) \/ Link(t)
  <2>1. OwnerOrNull' = OwnerOrNull
    BY <1>5, OwnerUnchanged, SMTT(30) DEF TypeOK, AcquireContended, ClearToken,
       LoadFlags, LinkBehindNull, Link
  <2>2. arrivals' = arrivals
    BY <1>5 DEF AcquireContended, ClearToken, LoadFlags, LinkBehindNull, Link
  <2> QED
    BY <2>1, <2>2 DEF Fifo!fifoVars
<1> QED
  BY <1>1, <1>2, <1>3, <1>4, <1>5 DEF Acquire

LEMMA ReleaseStep ==
    ASSUME IInv, IInv', NEW t \in Thread, Release(t)
    PROVE  [Fifo!FifoNext]_(Fifo!fifoVars)
<1> USE DEF IInv
<1>1. CASE ReleaseFast(t) \/ Dequeue(t) \/ HandOver(t)
  <2>1. OwnerOrNull = t
    BY <1>1, OwnerIsUnique DEF ReleaseFast, Dequeue, HandOver
  <2>2. \A u \in Thread : pc'[u] \notin Owning
    BY <1>1 DEF ReleaseFast, Dequeue, HandOver, TypeOK, MutualExclusion
  <2>3. OwnerOrNull' = Null
    BY <2>2, NoOwner
  <2>4. arrivals' = arrivals
    BY <1>1 DEF ReleaseFast, Dequeue, HandOver
  <2> QED
    BY <2>1, <2>3, <2>4 DEF Fifo!FifoNext, Fifo!GiveUp
<1>2. CASE ReleaseContended(t) \/ DequeueContended(t) \/ ReadNext(t)
  <2>1. OwnerOrNull' = OwnerOrNull
    BY <1>2, OwnerUnchanged DEF ReleaseContended, DequeueContended, ReadNext, TypeOK
  <2>2. arrivals' = arrivals
    BY <1>2 DEF ReleaseContended, DequeueContended, ReadNext
  <2> QED
    BY <2>1, <2>2 DEF Fifo!fifoVars
<1> QED
  BY <1>1, <1>2 DEF Release

\* The spinlock implements the FIFO lock: it is owned by one thread at a time
\* and, among the threads that queue up, in the order of their exchanges.
THEOREM SpinlockImplementsFifoLock == Spec => ImplementsFifoLock
<1>1. Init => Fifo!FifoInit
  BY NoOwner DEF Init, Fifo!FifoInit
<1>2. IInv /\ IInv' /\ [Next]_vars => [Fifo!FifoNext]_(Fifo!fifoVars)
  <2> SUFFICES ASSUME IInv, IInv', [Next]_vars
               PROVE  [Fifo!FifoNext]_(Fifo!fifoVars)
    OBVIOUS
  <2>1. CASE UNCHANGED vars
    <3>1. OwnerOrNull' = OwnerOrNull
      BY <2>1, OwnerUnchanged DEF vars
    <3> QED
      BY <2>1, <3>1 DEF vars, Fifo!fifoVars
  <2>2. CASE Next
    BY <2>2, AcquireStep, ReleaseStep DEF Next
  <2> QED
    BY <2>1, <2>2
<1> QED
  BY <1>1, <1>2, SpinlockInvariance, PTL DEF Spec, ImplementsFifoLock, Fifo!FifoSpec
=============================================================================
