------------------------------ MODULE FifoLock ------------------------------
(***************************************************************************)
(* What a queued lock promises its callers, apart from how it keeps the    *)
(* queue: at most one owner, and the threads that found the lock taken own *)
(* it in the order in which they arrived.  A thread that arrives while     *)
(* others wait joins the queue, even when the lock is between two owners:  *)
(* nobody overtakes.                                                       *)
(***************************************************************************)
EXTENDS Sequences

CONSTANTS Thread,     \* the threads that use the lock
          NoThread    \* stands for "no owner"; not one of the threads

VARIABLES owner,      \* the thread that owns the lock, or NoThread
          waiting     \* the threads that wait for it, first arrival first

fifoVars == <<owner, waiting>>

FifoInit == owner = NoThread /\ waiting = <<>>

\* A free lock that nobody waits for goes to the thread that asks.
AcquireFree(t) ==
    /\ owner = NoThread
    /\ waiting = <<>>
    /\ owner' = t
    /\ UNCHANGED waiting

\* A lock that is owned, or promised to a waiting thread, is waited for.
Wait(t) ==
    /\ owner # NoThread \/ waiting # <<>>
    /\ waiting' = Append(waiting, t)
    /\ UNCHANGED owner

\* The first of the waiting threads takes a lock that was given up.
Grant ==
    /\ owner = NoThread
    /\ waiting # <<>>
    /\ owner' = Head(waiting)
    /\ waiting' = Tail(waiting)

GiveUp ==
    /\ owner # NoThread
    /\ owner' = NoThread
    /\ UNCHANGED waiting

FifoNext ==
    \/ \E t \in Thread : AcquireFree(t) \/ Wait(t)
    \/ Grant
    \/ GiveUp

FifoSpec == FifoInit /\ [][FifoNext]_fifoVars
=============================================================================
