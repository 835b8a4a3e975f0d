------------------------------ MODULE CxxMutex ------------------------------
(***************************************************************************)
(* The mutex of the C++ library (C++/Threads, Mutex.cc).                   *)
(*                                                                         *)
(* A thread that finds the mutex locked sets the waiters flag in the sync  *)
(* word and sleeps on the address of the word; the unlock that finds the   *)
(* flag set wakes one sleeper.  One step is one access to the sync word,   *)
(* or one of the two system calls.  These are not in the repository: they  *)
(* are modelled from their declarations (MemoryWait.hh) and their use.     *)
(* Igniter's stubs, which return at once, are sleeps that end spuriously.  *)
(***************************************************************************)
EXTENDS Naturals

CONSTANTS Thread,
          SpuriousWakes    \* a sleeper may also wake without a notification

ASSUME MutexAssumption == SpuriousWakes \in BOOLEAN

VARIABLES syncWord,   \* the flags that are set in the word
          pc,         \* pc[t]: where t is in its operation
          expect,     \* expect[t]: the word t has seen
          alive       \* the mutex is neither destroyed nor the program ended

vars == <<syncWord, pc, expect, alive>>

Flag == {"locked", "waiters"}
MutexUnlocked == {}
Label == {"idle", "lock", "setFlag", "wait", "asleep", "owns", "notify"}
\* In mutexLock.
Locking == {"lock", "setFlag", "wait", "asleep"}

Goto(t, label) == pc' = [pc EXCEPT ![t] = label]

Init ==
    /\ syncWord = MutexUnlocked
    /\ pc = [t \in Thread |-> "idle"]
    /\ expect = [t \in Thread |-> MutexUnlocked]
    /\ alive = TRUE

-----------------------------------------------------------------------------
(* The system calls *)

\* The thread sleeps if the word still is what it expects.
WaitOnAddress(t) == Goto(t, IF syncWord = expect[t] THEN "asleep" ELSE "lock")

\* One of the sleepers, if there are any, returns to its loop.
NotifyOne(t) ==
    LET sleepers == {u \in Thread : pc[u] = "asleep"} IN
    \/ sleepers = {} /\ Goto(t, "idle")
    \/ \E u \in sleepers : pc' = [pc EXCEPT ![t] = "idle", ![u] = "lock"]

-----------------------------------------------------------------------------
(* mutexLock *)

BeginLock(t) ==
    /\ pc[t] = "idle"
    /\ alive
    /\ Goto(t, "lock")
    /\ UNCHANGED <<syncWord, expect, alive>>

\* Mutant: the word is loaded and stored instead of compared and exchanged.
MutLockStores(t) ==
    /\ pc[t] = "lock"
    /\ expect[t] = MutexUnlocked
    /\ syncWord' = {"locked"}
    /\ Goto(t, "owns")
    /\ UNCHANGED <<expect, alive>>

LockFree(t) ==
    /\ pc[t] = "lock"
    /\ syncWord = MutexUnlocked
    /\ syncWord' = {"locked"}
    /\ Goto(t, "owns")
    /\ UNCHANGED <<expect, alive>>

LockHeld(t) ==
    /\ pc[t] = "lock"
    /\ syncWord # MutexUnlocked
    /\ expect' = [expect EXCEPT ![t] = syncWord]
    /\ Goto(t, IF "waiters" \in syncWord THEN "wait" ELSE "setFlag")
    /\ UNCHANGED <<syncWord, alive>>

\* Mutant: the word is overwritten by the flag.
MutSetWaitersFlag(t) ==
    /\ pc[t] = "setFlag"
    /\ syncWord' = {"waiters"}
    /\ Goto(t, "wait")
    /\ UNCHANGED <<expect, alive>>

\* Where the exchange succeeds, expect keeps the word without the flag, so that
\* the first wait returns at once.
SetWaitersFlag(t) ==
    /\ pc[t] = "setFlag"
    /\ syncWord = expect[t]
    /\ syncWord' = expect[t] \cup {"waiters"}
    /\ Goto(t, "wait")
    /\ UNCHANGED <<expect, alive>>

\* The word has changed, or the weak compare-exchange fails spuriously.
SetWaitersFlagFails(t) ==
    /\ pc[t] = "setFlag"
    /\ Goto(t, "lock")
    /\ UNCHANGED <<syncWord, expect, alive>>

Wait(t) ==
    /\ pc[t] = "wait"
    /\ WaitOnAddress(t)
    /\ UNCHANGED <<syncWord, expect, alive>>

WakeSpuriously(t) ==
    /\ SpuriousWakes
    /\ pc[t] = "asleep"
    /\ Goto(t, "lock")
    /\ UNCHANGED <<syncWord, expect, alive>>

-----------------------------------------------------------------------------
(* mutexTryLock (where it fails, it changes nothing), mutexUnlock and      *)
(* mutexDestroy                                                            *)

TryLock(t) ==
    /\ pc[t] = "idle"
    /\ alive
    /\ syncWord = MutexUnlocked
    /\ syncWord' = {"locked"}
    /\ Goto(t, "owns")
    /\ UNCHANGED <<expect, alive>>

\* Mutant: only the waiters flag is cleared.
MutUnlockClearsWaiters(t) ==
    /\ pc[t] = "owns"
    /\ alive
    /\ syncWord' = syncWord \ {"waiters"}
    /\ Goto(t, IF "waiters" \in syncWord THEN "notify" ELSE "idle")
    /\ UNCHANGED <<expect, alive>>

Unlock(t) ==
    /\ pc[t] = "owns"
    /\ alive
    /\ syncWord' = MutexUnlocked
    /\ Goto(t, IF "waiters" \in syncWord THEN "notify" ELSE "idle")
    /\ UNCHANGED <<expect, alive>>

Notify(t) ==
    /\ pc[t] = "notify"
    /\ NotifyOne(t)
    /\ UNCHANGED <<syncWord, expect, alive>>

\* Mutant: only an exact match with the locked word ends the program.
MutHeldAtDestroy == syncWord = {"locked", "waiters"}

HeldAtDestroy == "locked" \in syncWord

\* No thread may be in lock() when the mutex is destroyed.  Where the mutex is
\* held, the program ends: nothing happens any more.
Destroy(t) ==
    /\ pc[t] = "idle"
    /\ alive
    /\ \A u \in Thread : pc[u] \notin Locking
    /\ alive' = FALSE
    /\ pc' = IF HeldAtDestroy THEN [u \in Thread |-> "idle"] ELSE pc
    /\ UNCHANGED <<syncWord, expect>>

-----------------------------------------------------------------------------
Lock(t) ==
    \/ LockFree(t)
    \/ LockHeld(t)
    \/ SetWaitersFlag(t)
    \/ SetWaitersFlagFails(t)
    \/ Wait(t)
    \/ WakeSpuriously(t)

Step(t) == Lock(t) \/ Unlock(t) \/ Notify(t)

Next == \E t \in Thread : BeginLock(t) \/ TryLock(t) \/ Step(t) \/ Destroy(t)

Spec == Init /\ [][Next]_vars

\* A thread that is in an operation goes on, and an owner unlocks the mutex.
FairSpec == Spec /\ \A t \in Thread : WF_vars(Step(t))

-----------------------------------------------------------------------------
(* Properties *)

\* The variables have their types, and the waiters flag is set only together
\* with the locked flag.
TypeOK ==
    /\ syncWord \in {MutexUnlocked, {"locked"}, {"locked", "waiters"}}
    /\ pc \in [Thread -> Label]
    /\ expect \in [Thread -> SUBSET Flag]
    /\ alive \in BOOLEAN

\* At most one thread is between the end of lock() or a try_lock() that
\* succeeds and its unlock().
MutualExclusion ==
    \A t, u \in Thread : pc[t] = "owns" /\ pc[u] = "owns" => t = u

\* A mutex is never destroyed under its owner: the check in mutexDestroy ends
\* the program first.
DestroyedUnowned == ~alive => \A t \in Thread : pc[t] # "owns"

\* A thread that is awake in mutexLock does not go round for ever: one of those
\* that compete with it gets the mutex.
AwakeThreadsProgress ==
    (\E t \in Thread : pc[t] \in Locking \ {"asleep"}) ~>
        (\E t \in Thread : pc[t] = "owns")

\* Mutex.cc:33: a thread that sleeps once the flag is set is woken by an unlock.
SleepersWake == \A t \in Thread : pc[t] = "asleep" ~> pc[t] # "asleep"
=============================================================================
