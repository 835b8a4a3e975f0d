--------------------------- MODULE QueuedSpinlock ---------------------------
(***************************************************************************)
(* The queued spinlock of System/Concurrency (Spinlock.cc).                *)
(*                                                                         *)
(* The lock word holds a Locked bit and a pointer to the token of the last *)
(* thread in the queue; every token holds a Locked bit, on which its       *)
(* thread spins, and a pointer to the token of the next thread.  A thread  *)
(* that gets the lock on the fast path leaves its token out of the queue.  *)
(*                                                                         *)
(* One step is one access to shared memory.  Memory is sequentially        *)
(* consistent.  A token lives on its thread's stack for one acquisition,   *)
(* so a thread stands for its token's address; the token is constructed    *)
(* (value 0) just before QueuedSpinlockAcquire is called.                  *)
(***************************************************************************)
EXTENDS Naturals, Sequences

CONSTANTS Thread,        \* the threads that use the lock
          Null,          \* the null token pointer
          WeakCASFails   \* TRUE where a weak compare-exchange may fail although
                         \* the value matches (load-linked/store-conditional);
                         \* FALSE on x86

ASSUME SpinlockAssumption == Null \notin Thread /\ WeakCASFails \in BOOLEAN

VARIABLES lockword,   \* the lock: [next |-> last token in the queue, locked]
          token,      \* token[t]: [next |-> token of the next waiter, locked]
          pc,         \* pc[t]: where t is in Acquire or Release
          pred,       \* pred[t]: waitertoken, the token t links itself behind
          flags,      \* flags[t]: the Locked bit t read from that token
          next,       \* next[t]: the waiter that t is about to hand over to
          arrivals    \* history: threads that found the lock taken, in the order
                      \* of their exchange; each grant removes the first

vars == <<lockword, token, pc, pred, flags, next, arrivals>>
locals == <<pred, flags, next>>

Pointer == Thread \cup {Null}
Word == [next : Pointer, locked : BOOLEAN]

Unlocked == [next |-> Null, locked |-> FALSE]
LockedFlag == [next |-> Null, locked |-> TRUE]
\* Mutant: the exchange stores the bare token pointer.
MutLockedValWithoutFlag(t) == [next |-> t, locked |-> FALSE]

LockedVal(t) == [next |-> t, locked |-> TRUE]

\* "owned" is the caller's critical section; the labels before it belong to
\* QueuedSpinlockAcquire and those after it to QueuedSpinlockRelease.
Waiting == {"load", "link", "spin"}
Owning == {"owned", "dequeue", "awaitNext", "handOver"}
Label == {"idle", "clear", "exchange", "faulted"} \cup Waiting \cup Owning

\* A thread is in the queue from its exchange until it gives the lock up; one
\* that faulted never leaves it.
Queued == {"faulted"} \cup Waiting \cup Owning

Init ==
    /\ lockword = Unlocked
    /\ token = [t \in Thread |-> Unlocked]
    /\ pc = [t \in Thread |-> "idle"]
    /\ pred = [t \in Thread |-> Null]
    /\ flags = [t \in Thread |-> FALSE]
    /\ next = [t \in Thread |-> Null]
    /\ arrivals = <<>>

Goto(t, label) == pc' = [pc EXCEPT ![t] = label]

\* A compare-exchange may fail when the word differs and, where a weak one can
\* fail spuriously, always.
MayFail(word, expected) == word # expected \/ WeakCASFails

-----------------------------------------------------------------------------
(* QueuedSpinlockAcquire *)

\* The fast path: the lock is free and the token stays out of the queue.
AcquireFast(t) ==
    /\ pc[t] = "idle"
    /\ lockword = Unlocked
    /\ lockword' = LockedFlag
    /\ token' = [token EXCEPT ![t] = Unlocked]
    /\ Goto(t, "owned")
    /\ UNCHANGED <<locals, arrivals>>

\* The compare-exchange of the fast path fails.
AcquireContended(t) ==
    /\ pc[t] = "idle"
    /\ MayFail(lockword, Unlocked)
    /\ token' = [token EXCEPT ![t] = Unlocked]
    /\ Goto(t, "clear")
    /\ UNCHANGED <<lockword, locals, arrivals>>

\* The token is set to Locked before any other thread can see it.
ClearToken(t) ==
    /\ pc[t] = "clear"
    /\ token' = [token EXCEPT ![t] = LockedFlag]
    /\ Goto(t, "exchange")
    /\ UNCHANGED <<lockword, locals, arrivals>>

\* The exchange makes t the last of the queue.  It owns the lock when the
\* exchanged word was not locked; otherwise it waits behind the old last token.
Enqueue(t) ==
    /\ pc[t] = "exchange"
    /\ lockword' = LockedVal(t)
    /\ \/ /\ ~lockword.locked
          /\ Goto(t, "owned")
          /\ UNCHANGED <<pred, arrivals>>
       \/ /\ lockword.locked
          /\ pred' = [pred EXCEPT ![t] = lockword.next]
          /\ arrivals' = Append(arrivals, t)
          /\ Goto(t, "load")
    /\ UNCHANGED <<token, flags, next>>

\* t reads the flags of the token it is to be linked from.
LoadFlags(t) ==
    /\ pc[t] = "load"
    /\ pred[t] # Null
    /\ flags' = [flags EXCEPT ![t] = token[pred[t]].locked]
    /\ Goto(t, "link")
    /\ UNCHANGED <<lockword, token, pred, next, arrivals>>

\* The pointer exchanged from the lock is null when the owner came by the fast
\* path.  Accessing address 0 either faults, or reads and overwrites memory
\* that is no token, after which t spins.
LinkBehindNull(t) ==
    /\ pc[t] = "load"
    /\ pred[t] = Null
    /\ Goto(t, "faulted") \/ Goto(t, "spin")
    /\ UNCHANGED <<lockword, token, locals, arrivals>>

\* Mutant: the link overwrites the flags of the token before t.
MutLinkDropsFlags(t) ==
    /\ pc[t] = "link"
    /\ token' = [token EXCEPT ![pred[t]] = [next |-> t, locked |-> FALSE]]
    /\ Goto(t, "spin")
    /\ UNCHANGED <<lockword, locals, arrivals>>

\* t writes its own address and the flags it read into the token before it.
Link(t) ==
    /\ pc[t] = "link"
    /\ token' = [token EXCEPT ![pred[t]] = [next |-> t, locked |-> flags[t]]]
    /\ Goto(t, "spin")
    /\ UNCHANGED <<lockword, locals, arrivals>>

\* The spin ends when t's own token is no longer locked.
Granted(t) ==
    /\ pc[t] = "spin"
    /\ ~token[t].locked
    /\ arrivals' = Tail(arrivals)
    /\ pred' = [pred EXCEPT ![t] = Null]
    /\ flags' = [flags EXCEPT ![t] = FALSE]
    /\ Goto(t, "owned")
    /\ UNCHANGED <<lockword, token, next>>

-----------------------------------------------------------------------------
(* QueuedSpinlockRelease *)

\* The fast path: nobody queued up, the lock bit is cleared.
ReleaseFast(t) ==
    /\ pc[t] = "owned"
    /\ lockword = LockedFlag
    /\ lockword' = Unlocked
    /\ Goto(t, "idle")
    /\ UNCHANGED <<token, locals, arrivals>>

\* The fast path fails and leaves the word it saw in "current".
ReleaseContended(t) ==
    /\ pc[t] = "owned"
    /\ MayFail(lockword, LockedFlag)
    /\ Goto(t, IF lockword.next = t THEN "dequeue" ELSE "awaitNext")
    /\ UNCHANGED <<lockword, token, locals, arrivals>>

\* Mutant: the medium path stores instead of comparing and exchanging.
MutDequeueStores(t) ==
    /\ pc[t] = "dequeue"
    /\ lockword' = Unlocked
    /\ Goto(t, "idle")
    /\ UNCHANGED <<token, locals, arrivals>>

\* The medium path: t is the last of the queue and takes its token out of it.
Dequeue(t) ==
    /\ pc[t] = "dequeue"
    /\ lockword = LockedVal(t)
    /\ lockword' = Unlocked
    /\ Goto(t, "idle")
    /\ UNCHANGED <<token, locals, arrivals>>

\* Another thread queued up behind t meanwhile: the medium path is left.
DequeueContended(t) ==
    /\ pc[t] = "dequeue"
    /\ lockword.next # t
    /\ Goto(t, "awaitNext")
    /\ UNCHANGED <<lockword, token, locals, arrivals>>

\* Mutant: the flags are not masked out of the word that was read.
MutReadNextUnmasked(t) ==
    /\ pc[t] = "awaitNext"
    /\ token[t].next # Null
    /\ next' = [next EXCEPT ![t] = token[t]]
    /\ Goto(t, "handOver")
    /\ UNCHANGED <<lockword, token, pred, flags, arrivals>>

\* The slow path: t reads its token until the next waiter has linked itself.
ReadNext(t) ==
    /\ pc[t] = "awaitNext"
    /\ token[t].next # Null
    /\ next' = [next EXCEPT ![t] = token[t].next]
    /\ Goto(t, "handOver")
    /\ UNCHANGED <<lockword, token, pred, flags, arrivals>>

\* Mutant: the next token is written back with its Locked bit set.
MutHandOverKeepsLocked(t) ==
    /\ pc[t] = "handOver"
    /\ next' = [next EXCEPT ![t] = Null]
    /\ Goto(t, "idle")
    /\ UNCHANGED <<lockword, token, pred, flags, arrivals>>

\* The compare-exchange loop that clears the Locked bit of the next token; an
\* iteration that fails changes nothing.
HandOver(t) ==
    /\ pc[t] = "handOver"
    /\ token' = [token EXCEPT ![next[t]].locked = FALSE]
    /\ next' = [next EXCEPT ![t] = Null]
    /\ Goto(t, "idle")
    /\ UNCHANGED <<lockword, pred, flags, arrivals>>

-----------------------------------------------------------------------------
Acquire(t) ==
    \/ AcquireFast(t)
    \/ AcquireContended(t)
    \/ ClearToken(t)
    \/ Enqueue(t)
    \/ LoadFlags(t)
    \/ LinkBehindNull(t)
    \/ Link(t)
    \/ Granted(t)

Release(t) ==
    \/ ReleaseFast(t)
    \/ ReleaseContended(t)
    \/ Dequeue(t)
    \/ DequeueContended(t)
    \/ ReadNext(t)
    \/ HandOver(t)

Next == \E t \in Thread : Acquire(t) \/ Release(t)

Spec == Init /\ [][Next]_vars

\* A running thread keeps running until it is done with the lock: interrupts
\* delay it but no thread stops inside Acquire, Release or the short section
\* between them.  Nobody is obliged to ask for the lock.
Fairness == \A t \in Thread : WF_vars(pc[t] # "idle" /\ (Acquire(t) \/ Release(t)))

FairSpec == Spec /\ Fairness
-----------------------------------------------------------------------------
(* Properties *)

\* The variables have their types: a pointer in the lock word or in a token is
\* null or a token.
TypeOK ==
    /\ lockword \in Word
    /\ token \in [Thread -> Word]
    /\ pc \in [Thread -> Label]
    /\ pred \in [Thread -> Pointer]
    /\ flags \in [Thread -> BOOLEAN]
    /\ next \in [Thread -> Pointer]
    /\ arrivals \in Seq(Thread)

\* At most one thread is between the end of QueuedSpinlockAcquire and the step
\* of QueuedSpinlockRelease that gives the lock up, whatever path each took.
MutualExclusion ==
    \A t, u \in Thread : pc[t] \in Owning /\ pc[u] \in Owning => t = u

\* A token is not destroyed while another thread is going to access it: the
\* token behind which a thread links itself belongs to a thread that is still
\* in the queue, and the token handed over to belongs to a thread
\* that still spins (Spinlock.cc:102-106, "we can't free the token").
TokenOutlivesItsUsers ==
    \A t \in Thread :
        /\ pc[t] \in {"load", "link"} /\ pred[t] # Null =>
              pc[pred[t]] \in Queued
        /\ pc[t] = "handOver" => pc[next[t]] = "spin"

\* The spinlock is a FIFO lock: threads own it one at a time and, once they
\* have queued up, in the order of their exchange on the lock word.
OwnerOrNull ==
    IF \E t \in Thread : pc[t] \in Owning
    THEN CHOOSE t \in Thread : pc[t] \in Owning
    ELSE Null

Fifo == INSTANCE FifoLock
            WITH NoThread <- Null, owner <- OwnerOrNull, waiting <- arrivals

ImplementsFifoLock == Fifo!FifoSpec

\* A thread follows a null pointer, or spins on a token nobody will write to.
BehindNull(t) == pc[t] = "faulted" \/ (pc[t] = "spin" /\ pred[t] = Null)

\* The link of the second of the queue has overwritten the hand-over to the
\* first, and nobody will repeat it: see HandOverIsNotOverwritten.
HandOverIsLost ==
    /\ arrivals # <<>>
    /\ pc[Head(arrivals)] = "spin"
    /\ token[Head(arrivals)].locked
    /\ token[Head(arrivals)].next # Null
    /\ \A t \in Thread : pc[t] \notin Owning

\* A thread that linked itself behind another thread's token gets the lock, but
\* for the two ways in which the code loses it for ever: a hand-over that is
\* overwritten, and a thread that queued up behind a fast-path owner.
LinkedThreadIsGranted ==
    \A t \in Thread :
        (pc[t] = "spin" /\ pred[t] # Null) ~>
            (pc[t] = "owned" \/ HandOverIsLost \/ \E u \in Thread : BehindNull(u))

\* A thread in the slow path of Release whose token is not the last of the queue
\* waits for somebody: whoever the lock word points to has not left yet.
SlowReleaseHasASuccessor ==
    \A t \in Thread :
        pc[t] = "awaitNext" /\ lockword.next \in Thread \ {t} =>
            pc[lockword.next] \in Waiting \cup {"faulted"}

-----------------------------------------------------------------------------
(* What the comments of Spinlock.cc say and the code does not do *)

\* Spinlock.cc:63-64: from the exchange until t has written its link, "no other
\* thread is going to be modifying this waiter's token".
HandOverIsNotOverwritten ==
    [][\A t \in Thread :
          pc[t] = "link" /\ pc'[t] = "link" =>
              token'[pred[t]] = token[pred[t]]]_vars
=============================================================================
