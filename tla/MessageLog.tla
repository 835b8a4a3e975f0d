----------------------------- MODULE MessageLog -----------------------------
(***************************************************************************)
(* What a buffer of log messages promises: it keeps the last messages of   *)
(* the log, whole and in order, forgets the oldest ones only to make room  *)
(* for a new one, and hands out the oldest one when it is asked for it.    *)
(***************************************************************************)
EXTENDS Integers, Sequences

CONSTANTS Capacity,      \* in bytes
          MessageSize    \* the sizes messages can have

VARIABLES log,      \* all messages: where each begins in the stream, its size
          first,    \* the oldest message kept
          adding,   \* the size of the message that is being added, or 0
          taken     \* the messages handed out, in order

End == IF log = <<>> THEN 0 ELSE log[Len(log)].at + log[Len(log)].size
Used == IF first > Len(log) THEN 0 ELSE End - log[first].at

Init ==
    /\ log = <<>>
    /\ first = 1
    /\ adding = 0
    /\ taken = <<>>

BeginAdd(size) ==
    /\ adding = 0
    /\ size <= Capacity
    /\ adding' = size
    /\ UNCHANGED <<log, first, taken>>

Forget ==
    /\ adding > Capacity - Used
    /\ first <= Len(log)
    /\ first' = first + 1
    /\ UNCHANGED <<log, adding, taken>>

EndAdd ==
    /\ adding \in 1 .. Capacity - Used
    /\ log' = Append(log, [at |-> End, size |-> adding])
    /\ adding' = 0
    /\ UNCHANGED <<first, taken>>

Take ==
    /\ adding = 0
    /\ first <= Len(log)
    /\ taken' = Append(taken, first)
    /\ first' = first + 1
    /\ UNCHANGED <<log, adding>>

Next == (\E size \in MessageSize : BeginAdd(size)) \/ Forget \/ EndAdd \/ Take

Spec == Init /\ [][Next]_<<log, first, adding, taken>>
=============================================================================
