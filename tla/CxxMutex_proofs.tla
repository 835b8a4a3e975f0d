-------------------------- MODULE CxxMutex_proofs --------------------------
(***************************************************************************)
(* Proofs about the mutex, for any number of threads.                      *)
(***************************************************************************)
EXTENDS CxxMutex, TLAPS

\* Until the mutex is destroyed, its locked flag is set if and only if a thread
\* owns it.
LockedWhileOwned ==
    alive => ("locked" \in syncWord <=> \E t \in Thread : pc[t] = "owns")

\* The word a thread expects when it sets the flag is the locked word.
ExpectsLocked == \A t \in Thread : pc[t] = "setFlag" => expect[t] = {"locked"}

\* No thread is in lock() once the mutex has been destroyed.
NotLockedDestroyed == ~alive => \A t \in Thread : pc[t] \notin Locking

IInv ==
    /\ TypeOK
    /\ MutualExclusion
    /\ DestroyedUnowned
    /\ LockedWhileOwned
    /\ ExpectsLocked
    /\ NotLockedDestroyed

USE MutexAssumption DEF Flag, MutexUnlocked, Label, Locking, Goto

-----------------------------------------------------------------------------
(* Every step preserves the invariant. *)

LEMMA InitEstablishesIInv == Init => IInv
BY DEF Init, IInv, TypeOK, MutualExclusion, DestroyedUnowned, LockedWhileOwned,
   ExpectsLocked, NotLockedDestroyed

\* The mutex is taken only from the unlocked word, where nobody owns it.
LEMMA TakingKeepsIInv ==
    ASSUME IInv, NEW t \in Thread,
           LockFree(t) \/ TryLock(t)
    PROVE  IInv'
<1> USE DEF IInv, LockFree, TryLock
<1>1. TypeOK'
  BY DEF TypeOK
<1>2. MutualExclusion'
  BY DEF TypeOK, MutualExclusion, DestroyedUnowned, LockedWhileOwned,
     NotLockedDestroyed
<1>3. DestroyedUnowned'
  BY DEF TypeOK, DestroyedUnowned, NotLockedDestroyed
<1>4. LockedWhileOwned'
  BY DEF TypeOK, LockedWhileOwned
<1>5. ExpectsLocked'
  BY DEF TypeOK, ExpectsLocked
<1>6. NotLockedDestroyed'
  BY DEF TypeOK, NotLockedDestroyed
<1> QED
  BY <1>1, <1>2, <1>3, <1>4, <1>5, <1>6

\* A thread that goes round the loop of mutexLock changes only its own state.
LEMMA LoopKeepsIInv ==
    ASSUME IInv, NEW t \in Thread,
           BeginLock(t) \/ LockHeld(t) \/ SetWaitersFlagFails(t)
               \/ Wait(t) \/ WakeSpuriously(t)
    PROVE  IInv'
<1> USE DEF IInv, BeginLock, LockHeld, SetWaitersFlagFails, Wait,
    WaitOnAddress, WakeSpuriously
<1>1. TypeOK'
  BY DEF TypeOK
<1>2. MutualExclusion'
  BY DEF TypeOK, MutualExclusion
<1>3. DestroyedUnowned'
  BY DEF TypeOK, DestroyedUnowned
<1>4. LockedWhileOwned'
  BY DEF TypeOK, LockedWhileOwned
<1>5. ExpectsLocked'
  BY DEF TypeOK, ExpectsLocked
<1>6. NotLockedDestroyed'
  BY DEF TypeOK, NotLockedDestroyed
<1> QED
  BY <1>1, <1>2, <1>3, <1>4, <1>5, <1>6

\* The flag is added to a word that is locked.
LEMMA SetWaitersFlagKeepsIInv ==
    ASSUME IInv, NEW t \in Thread,
           SetWaitersFlag(t)
    PROVE  IInv'
<1> USE DEF IInv, SetWaitersFlag
<1>1. TypeOK'
  BY DEF TypeOK, ExpectsLocked
<1>2. MutualExclusion'
  BY DEF TypeOK, MutualExclusion
<1>3. DestroyedUnowned'
  BY DEF TypeOK, DestroyedUnowned
<1>4. LockedWhileOwned'
  BY DEF TypeOK, LockedWhileOwned, ExpectsLocked
<1>5. ExpectsLocked'
  BY DEF TypeOK, ExpectsLocked
<1>6. NotLockedDestroyed'
  BY DEF TypeOK, NotLockedDestroyed
<1> QED
  BY <1>1, <1>2, <1>3, <1>4, <1>5, <1>6

\* The owner is the only one, so nobody owns the unlocked mutex.
LEMMA UnlockKeepsIInv ==
    ASSUME IInv, NEW t \in Thread,
           Unlock(t)
    PROVE  IInv'
<1> USE DEF IInv, Unlock
<1>1. TypeOK'
  BY DEF TypeOK
<1>2. MutualExclusion'
  BY DEF TypeOK, MutualExclusion
<1>3. DestroyedUnowned'
  BY DEF TypeOK, DestroyedUnowned
<1>4. LockedWhileOwned'
  BY DEF TypeOK, LockedWhileOwned, MutualExclusion
<1>5. ExpectsLocked'
  BY DEF TypeOK, ExpectsLocked
<1>6. NotLockedDestroyed'
  BY DEF TypeOK, NotLockedDestroyed
<1> QED
  BY <1>1, <1>2, <1>3, <1>4, <1>5, <1>6

\* A woken thread is still in mutexLock.
LEMMA NotifyKeepsIInv ==
    ASSUME IInv, NEW t \in Thread,
           Notify(t)
    PROVE  IInv'
<1> USE DEF IInv, Notify, NotifyOne
<1>1. TypeOK'
  BY DEF TypeOK
<1>2. MutualExclusion'
  BY DEF TypeOK, MutualExclusion
<1>3. DestroyedUnowned'
  BY DEF TypeOK, DestroyedUnowned
<1>4. LockedWhileOwned'
  BY DEF TypeOK, LockedWhileOwned
<1>5. ExpectsLocked'
  BY DEF TypeOK, ExpectsLocked
<1>6. NotLockedDestroyed'
  BY DEF TypeOK, NotLockedDestroyed
<1> QED
  BY <1>1, <1>2, <1>3, <1>4, <1>5, <1>6

\* The destructor lets a mutex go only if its word is not locked.
LEMMA DestroyKeepsIInv ==
    ASSUME IInv, NEW t \in Thread,
           Destroy(t)
    PROVE  IInv'
<1> USE DEF IInv, Destroy, HeldAtDestroy
<1>1. TypeOK'
  BY DEF TypeOK
<1>2. MutualExclusion'
  BY DEF TypeOK, MutualExclusion
<1>3. DestroyedUnowned'
  BY DEF TypeOK, DestroyedUnowned, LockedWhileOwned
<1>4. LockedWhileOwned'
  BY DEF TypeOK, LockedWhileOwned
<1>5. ExpectsLocked'
  BY DEF TypeOK, ExpectsLocked
<1>6. NotLockedDestroyed'
  BY DEF TypeOK, NotLockedDestroyed
<1> QED
  BY <1>1, <1>2, <1>3, <1>4, <1>5, <1>6

LEMMA NextKeepsIInv == IInv /\ [Next]_vars => IInv'
<1> SUFFICES ASSUME IInv, [Next]_vars
             PROVE  IInv'
  OBVIOUS
<1>1. CASE UNCHANGED vars
  BY <1>1 DEF vars, IInv, TypeOK, MutualExclusion, DestroyedUnowned,
     LockedWhileOwned, ExpectsLocked, NotLockedDestroyed
<1>2. CASE Next
  BY <1>2, TakingKeepsIInv, LoopKeepsIInv, SetWaitersFlagKeepsIInv,
     UnlockKeepsIInv, NotifyKeepsIInv, DestroyKeepsIInv DEF Next, Step, Lock
<1> QED
  BY <1>1, <1>2

-----------------------------------------------------------------------------
\* The inductive invariant of the mutex holds in every reachable state.
THEOREM MutexInvariance == Spec => []IInv
BY InitEstablishesIInv, NextKeepsIInv, PTL DEF Spec

\* The sync word is unlocked, locked, or locked with the waiters flag: the flag
\* never outlives the lock it was set on.
THEOREM MutexTypeCorrect == Spec => []TypeOK
<1>1. IInv => TypeOK
  BY DEF IInv
<1> QED
  BY <1>1, MutexInvariance, PTL

\* No two threads are between mutexLock or mutexTryLock and mutexUnlock, with or
\* without spurious wake-ups.
THEOREM MutexMutualExclusion == Spec => []MutualExclusion
<1>1. IInv => MutualExclusion
  BY DEF IInv
<1> QED
  BY <1>1, MutexInvariance, PTL

\* mutexDestroy never leaves a destroyed mutex with an owner: it ends the program.
THEOREM MutexDestroyedUnowned == Spec => []DestroyedUnowned
<1>1. IInv => DestroyedUnowned
  BY DEF IInv
<1> QED
  BY <1>1, MutexInvariance, PTL
=============================================================================
