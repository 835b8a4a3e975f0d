----------------------------- MODULE LogBuffer -----------------------------
(***************************************************************************)
(* The circular buffer of the logger (Utility/Logger): threads add encoded *)
(* messages, each of which begins with its size; others read messages and  *)
(* remove them (drain), or walk over them by their offset and leave them   *)
(* there (scan, as the boot loader does).  circular_buffer holds its mutex *)
(* in each of its operations, but a read is a sequence of them.            *)
(***************************************************************************)
EXTENDS Integers, Sequences

CONSTANTS Writer, Drainer, Scanner,   \* threads
          Nobody,                     \* no thread
          BufferSize,
          MessageSize,                \* the sizes of encoded messages
          HeaderSize,                 \* of the size in front of a message: 4
          Room,                       \* the sizes of the buffers of drainers
          MaxMessages,                \* bound: messages added
          MaxOffset                   \* bound: how far a scan goes

Thread == Writer \cup Drainer \cup Scanner

ASSUME LogBufferAssumption ==
    /\ BufferSize \in Nat \ {0}
    /\ HeaderSize \in Nat \ {0}
    /\ MessageSize \subseteq {n \in Nat : n >= HeaderSize}
    /\ Room \subseteq Nat
    /\ Nobody \notin Thread

VARIABLES m_buffer,         \* byte i of message m is <<m, i>>
          m_read, m_write,
          m_mutex,          \* its owner, while the steps of an add
          op,               \* of each thread: what it is doing
          scan,             \* of each scanner: the variables of readLogBuffer
          log, first,       \* history: all messages, the oldest one kept
          taken             \* history: what drainers were given

buffer == <<m_buffer, m_read, m_write>>
history == <<log, first, taken>>
vars == <<buffer, m_mutex, op, scan, history>>

Index == 0 .. BufferSize - 1
NoMessage == 0
Idle == [kind |-> "idle"]
NewScan == [offset |-> 0, bufferSize |-> 0, again |-> 0]

Init ==
    /\ m_buffer = [i \in Index |-> <<NoMessage, 0>>]
    /\ m_read = 0
    /\ m_write = 0
    /\ m_mutex = Nobody
    /\ op = [t \in Thread |-> Idle]
    /\ scan = [t \in Scanner |-> NewScan]
    /\ log = <<>>
    /\ first = 1
    /\ taken = <<>>

-----------------------------------------------------------------------------
(* The circular buffer *)

\* One byte is unusable, to tell a full buffer from an empty one.
MaxCapacity == BufferSize - 1

\* usedCapacityUnlocked, with the read pointer at r
Used(r) == IF m_write >= r THEN m_write - r ELSE BufferSize - (r - m_write)

MutAvailable == BufferSize - Used(m_read)
Available == MaxCapacity - Used(m_read)

MutAdvance(ptr, n) == ptr + n
Advance(ptr, n) == (ptr + n) % BufferSize

\* The bytes r .. r + n - 1 of the buffer are the first n of message m.
Holds(r, n, m) == \A i \in 0 .. n - 1 : m_buffer[Advance(r, i)] = <<m, i>>

\* peekNextMessageSize, with the read pointer at r.  Where no message begins,
\* the four bytes can be any number.
PeekNextMessageSize(r) ==
    IF Used(r) < HeaderSize THEN {0}
    ELSE IF \E m \in DOMAIN log : Holds(r, HeaderSize, m)
         THEN {IF log[m].size > Used(r) THEN 0 ELSE log[m].size :
                   m \in {k \in DOMAIN log : Holds(r, HeaderSize, k)}}
         ELSE 0 .. Used(r)

\* What copyTo copies: a message, or bytes of several.
CopyTo(r, n) ==
    IF \E m \in DOMAIN log : log[m].size = n /\ Holds(r, n, m)
    THEN CHOOSE m \in DOMAIN log : log[m].size = n /\ Holds(r, n, m)
    ELSE NoMessage

\* copyFrom, which also wraps around
MutCopyFrom(n, m) ==
    [i \in Index |-> IF i \in m_write .. m_write + n - 1 THEN <<m, i - m_write>> ELSE m_buffer[i]]
CopyFrom(n, m) ==
    [i \in Index |-> LET k == (i + BufferSize - m_write) % BufferSize IN
                     IF k < n THEN <<m, k>> ELSE m_buffer[i]]

-----------------------------------------------------------------------------
(* add *)

\* A message that can never fit is refused, which changes nothing.
BeginAdd(t, size) ==
    /\ op[t] = Idle
    /\ m_mutex = Nobody
    /\ Len(log) < MaxMessages
    /\ size <= MaxCapacity
    /\ m_mutex' = t
    /\ op' = [op EXCEPT ![t] = [kind |-> "add", size |-> size]]
    /\ UNCHANGED <<buffer, scan, history>>

\* One turn of the loop that makes room.
Discard(t) ==
    /\ op[t].kind = "add"
    /\ op[t].size > Available
    /\ \E size \in PeekNextMessageSize(m_read) :
          IF size = 0
          THEN m_read' = m_write /\ first' = Len(log) + 1
          ELSE m_read' = Advance(m_read, size) /\ first' = first + 1
    /\ UNCHANGED <<m_buffer, m_write, m_mutex, op, scan, log, taken>>

End == IF log = <<>> THEN 0 ELSE log[Len(log)].at + log[Len(log)].size

Insert(t) ==
    LET size == op[t].size IN
    /\ op[t].kind = "add"
    /\ size <= Available
    /\ m_buffer' = CopyFrom(size, Len(log) + 1)
    /\ m_write' = Advance(m_write, size)
    /\ m_mutex' = Nobody
    /\ op' = [op EXCEPT ![t] = Idle]
    /\ log' = Append(log, [at |-> End, size |-> size])
    /\ UNCHANGED <<m_read, scan, first, taken>>

-----------------------------------------------------------------------------
(* extractTo and the loop of read *)

Reading(offset, room, remove) ==
    [kind |-> "read", offset |-> offset, room |-> room, remove |-> remove,
     count |-> 0]

\* One turn of the loop.  The offset stays what it was.
Extract(t) ==
    LET o == op[t]
        r == Advance(m_read, o.offset)
    IN  /\ o.kind = "read"
        /\ m_mutex = Nobody
        /\ \E size \in PeekNextMessageSize(r) :
              IF size = 0 \/ size > o.room
              THEN /\ op' = [op EXCEPT ![t] =
                         [kind |-> "returned",
                          result |-> IF o.count = 0 THEN size ELSE o.count]]
                   /\ UNCHANGED <<m_read, first, taken>>
              ELSE /\ op' = [op EXCEPT ![t] =
                         [o EXCEPT !.room = @ - size, !.count = @ + size]]
                   /\ IF o.remove
                      THEN /\ m_read' = Advance(r, size)
                           /\ first' = first + 1
                           /\ taken' = Append(taken, CopyTo(r, size))
                      ELSE UNCHANGED <<m_read, first, taken>>
        /\ UNCHANGED <<m_buffer, m_write, m_mutex, scan, log>>

Drain(t) ==
    /\ op[t].kind \in {"idle", "returned"}
    /\ \E room \in Room : op' = [op EXCEPT ![t] = Reading(0, room, TRUE)]
    /\ UNCHANGED <<buffer, m_mutex, scan, history>>

-----------------------------------------------------------------------------
(* readLogBuffer: a buffer that is too small is replaced and filled again. *)

BeginScan(t) ==
    /\ op[t] = Idle
    /\ scan' = [scan EXCEPT ![t] = NewScan]
    /\ op' = [op EXCEPT ![t] = Reading(0, 0, FALSE)]
    /\ UNCHANGED <<buffer, m_mutex, history>>

Callback(t, size) ==
    LET offset == scan[t].offset + size IN
    /\ offset <= MaxOffset
    /\ scan' = [scan EXCEPT ![t] = [scan[t] EXCEPT !.offset = offset, !.again = 0]]
    /\ op' = [op EXCEPT ![t] = Reading(offset, scan[t].bufferSize, FALSE)]

ReadAgain(t, size) ==
    /\ scan' = [scan EXCEPT ![t] = [scan[t] EXCEPT !.bufferSize = size, !.again = size]]
    /\ op' = [op EXCEPT ![t] = Reading(scan[t].offset, size, FALSE)]

ScanReturned(t) ==
    LET result == op[t].result IN
    /\ op[t].kind = "returned"
    /\ \/ scan[t].again # 0 /\ Callback(t, scan[t].again)
       \/ scan[t].again = 0 /\ result > scan[t].bufferSize /\ ReadAgain(t, result)
       \/ scan[t].again = 0 /\ result \in 1 .. scan[t].bufferSize /\ Callback(t, result)
       \/ scan[t].again = 0 /\ result = 0
             /\ op' = [op EXCEPT ![t] = Idle]
             /\ UNCHANGED scan
    /\ UNCHANGED <<buffer, m_mutex, history>>

-----------------------------------------------------------------------------
Next ==
    \/ \E t \in Writer :
          \/ \E size \in MessageSize : BeginAdd(t, size)
          \/ Discard(t)
          \/ Insert(t)
    \/ \E t \in Drainer : Drain(t) \/ Extract(t)
    \/ \E t \in Scanner : BeginScan(t) \/ Extract(t) \/ ScanReturned(t)

Spec == Init /\ [][Next]_vars

-----------------------------------------------------------------------------
(* Properties *)

Operation ==
    [kind : {"idle"}]
      \cup [kind : {"add"}, size : {n \in MessageSize : n <= MaxCapacity}]
      \cup [kind : {"read"}, offset : Nat, room : Nat, remove : BOOLEAN, count : Nat]
      \cup [kind : {"returned"}, result : Nat]

\* The pointers stay inside the buffer, only the owner of the mutex adds, and
\* the sizes a read computes never become negative.
TypeOK ==
    /\ m_buffer \in [Index -> Nat \X Nat]
    /\ m_read \in Index
    /\ m_write \in Index
    /\ m_mutex \in Thread \cup {Nobody}
    /\ op \in [Thread -> Operation]
    /\ \A t \in Thread : op[t].kind = "add" <=> m_mutex = t
    /\ \A t \in Thread : op[t].kind = "read" => (op[t].remove => op[t].offset = 0)
    /\ scan \in [Scanner -> [offset : Nat, bufferSize : Nat, again : Nat]]
    /\ log \in Seq([at : Nat, size : MessageSize])
    /\ first \in 1 .. Len(log) + 1
    /\ taken \in Seq(Nat)

Start == IF first > Len(log) THEN End ELSE log[first].at

\* Whatever was added, evicted and read, the buffer holds the newest messages,
\* each of them whole, one after the other, also across the end of the buffer.
BufferHoldsTheLog ==
    /\ m_read = Start % BufferSize
    /\ m_write = End % BufferSize
    /\ End - Start \in 0 .. MaxCapacity
    /\ \A m \in first .. Len(log) : Holds(log[m].at % BufferSize, log[m].size, m)

Adding == IF m_mutex = Nobody THEN 0 ELSE op[m_mutex].size

MessageLog == INSTANCE MessageLog WITH Capacity <- MaxCapacity, adding <- Adding

\* An add forgets the oldest messages, no more than it must; drainers are given
\* whole messages, each once, in the order of the log; scans change nothing.
ImplementsMessageLog == MessageLog!Spec
=============================================================================
