-------------------------- MODULE LogBuffer_proofs --------------------------
(***************************************************************************)
(* For every size of the buffer and of the messages, and any threads: the  *)
(* circular buffer of the logger holds the newest messages of the log, and *)
(* implements MessageLog.                                                  *)
(*                                                                         *)
(* The argument looks at the buffer as a window onto an endless stream of  *)
(* bytes: byte p of the stream is at p % BufferSize.  The window begins    *)
(* and ends between two messages (LogIsAStream), and is shorter than the   *)
(* buffer, so that no two of its bytes share a place.                      *)
(***************************************************************************)
EXTENDS LogBuffer, TLAPS

-----------------------------------------------------------------------------
(* Positions in the buffer *)

LEMMA Division ==
    ASSUME NEW N \in Nat \ {0}, NEW a \in Nat
    PROVE  /\ a % N \in 0 .. N - 1
           /\ a \div N \in Nat
           /\ a = N * (a \div N) + (a % N)
OBVIOUS

LEMMA Product ==
    ASSUME NEW N \in Nat \ {0}, NEW k \in Nat \ {0}
    PROVE  N * k \in Nat /\ N * k >= N
OBVIOUS

LEMMA RemainderIsUnique ==
    ASSUME NEW N \in Nat \ {0}, NEW q \in Nat, NEW p \in Nat,
           NEW r \in 0 .. N - 1, NEW s \in 0 .. N - 1, N * q + r = N * p + s
    PROVE  r = s
<1>1. CASE q = p
  BY <1>1
<1>2. CASE q > p
  <2>1. N * q = N * p + N * (q - p)
    BY <1>2
  <2>2. N * (q - p) >= N
    BY <1>2, Product
  <2> QED BY <2>1, <2>2
<1>3. CASE p > q
  <2>1. N * p = N * q + N * (p - q)
    BY <1>3
  <2>2. N * (p - q) >= N
    BY <1>3, Product
  <2> QED BY <2>1, <2>2
<1> QED BY <1>1, <1>2, <1>3

\* Fewer than N steps onwards from a lead past the end at most once.
LEMMA RemainderOfSum ==
    ASSUME NEW N \in Nat \ {0}, NEW a \in Nat, NEW d \in 0 .. N - 1
    PROVE  (a + d) % N = IF (a % N) + d < N THEN (a % N) + d ELSE (a % N) + d - N
<1> DEFINE b == a + d
           q == a \div N
           r == a % N
           s == b % N
           p == b \div N
<1>0. b \in Nat /\ b = a + d
  OBVIOUS
<1> HIDE DEF b
<1>1. r \in 0 .. N - 1 /\ q \in Nat /\ a = N * q + r
  BY Division
<1>2. s \in 0 .. N - 1 /\ p \in Nat /\ a + d = N * p + s
  BY <1>0, Division
<1> HIDE DEF q, r, s, p
<1>3. CASE r + d < N
  <2>1. N * q + (r + d) = N * p + s
    BY <1>1, <1>2, Product
  <2>2. r + d \in 0 .. N - 1
    BY <1>1, <1>3
  <2>3. r + d = s
    BY <1>1, <1>2, <2>1, <2>2, RemainderIsUnique
  <2> QED BY <1>3, <2>3, <1>0 DEF r, s
<1>4. CASE ~(r + d < N)
  <2>1. N * (q + 1) = N * q + N
    BY <1>1
  <2>2. N * (q + 1) + (r + d - N) = N * p + s
    BY <1>1, <1>2, <2>1
  <2>3. r + d - N \in 0 .. N - 1 /\ q + 1 \in Nat
    BY <1>1, <1>4
  <2>4. r + d - N = s
    BY <1>2, <2>2, <2>3, RemainderIsUnique
  <2> QED BY <1>4, <2>4, <1>0 DEF r, s
<1> QED BY <1>3, <1>4

LEMMA SmallRemainder ==
    ASSUME NEW N \in Nat \ {0}, NEW a \in 0 .. N - 1
    PROVE  a % N = a /\ (a + N) % N = a
<1>1. a % N = a
  <2>0. a \in Nat /\ N * 0 = 0
    OBVIOUS
  <2>1. a % N \in 0 .. N - 1 /\ a \div N \in Nat /\ a = N * (a \div N) + (a % N)
    BY <2>0, Division
  <2>2. N * 0 + a = N * (a \div N) + (a % N)
    BY <2>0, <2>1
  <2> QED BY <2>1, <2>2, RemainderIsUnique
<1>2. (a + N) % N = a
  <2> DEFINE b == a + N
  <2>1. b \in Nat /\ b = N * 1 + a
    OBVIOUS
  <2> HIDE DEF b
  <2>2. b % N \in 0 .. N - 1 /\ b \div N \in Nat /\ N * 1 + a = N * (b \div N) + (b % N)
    BY <2>1, Division
  <2>3. b % N = a
    BY <2>2, RemainderIsUnique
  <2> QED BY <2>3 DEF b
<1> QED BY <1>1, <1>2

\* Going on from the place of a in the buffer is going on from a in the stream.
LEMMA AdvanceInStream ==
    ASSUME NEW a \in Nat, NEW d \in 0 .. BufferSize - 1
    PROVE  Advance(a % BufferSize, d) = (a + d) % BufferSize
<1> DEFINE r == a % BufferSize
<1>0. BufferSize \in Nat \ {0}
  BY LogBufferAssumption DEF LogBufferAssumption
<1>1. r \in 0 .. BufferSize - 1
  BY <1>0, Division
<1>2. (a + d) % BufferSize = IF r + d < BufferSize THEN r + d ELSE r + d - BufferSize
  BY ONLY <1>0, a \in Nat, d \in 0 .. BufferSize - 1, RemainderOfSum
<1> HIDE DEF r
<1>3. r % BufferSize = r /\ r \in Nat
  BY <1>0, <1>1, SmallRemainder
<1>4. (r + d) % BufferSize = IF (r % BufferSize) + d < BufferSize
                             THEN (r % BufferSize) + d
                             ELSE (r % BufferSize) + d - BufferSize
  BY ONLY <1>0, <1>3, d \in 0 .. BufferSize - 1, RemainderOfSum
<1>5. Advance(r, d) = (a + d) % BufferSize
  BY <1>2, <1>3, <1>4 DEF Advance
<1> QED BY <1>5 DEF r

\* What copyFrom makes of a place d bytes before, or i bytes after, the write pointer
LEMMA DistanceBehind ==
    ASSUME NEW p \in Nat, NEW d \in 1 .. BufferSize - 1
    PROVE  ((p % BufferSize) + BufferSize - ((p + d) % BufferSize)) % BufferSize = BufferSize - d
<1> USE LogBufferAssumption DEF LogBufferAssumption
<1> DEFINE r == p % BufferSize
           w == (p + d) % BufferSize
<1>1. r \in 0 .. BufferSize - 1
  BY Division
<1>2. w = IF r + d < BufferSize THEN r + d ELSE r + d - BufferSize
  <2>1. BufferSize \in Nat \ {0} /\ d \in 0 .. BufferSize - 1
    OBVIOUS
  <2> HIDE DEF LogBufferAssumption
  <2> QED BY ONLY <2>1, p \in Nat, RemainderOfSum
<1> HIDE DEF r, w
<1>3. BufferSize - d \in 0 .. BufferSize - 1
  OBVIOUS
<1>4. r + BufferSize - w \in {BufferSize - d, (BufferSize - d) + BufferSize}
  BY <1>1, <1>2
<1>5. (r + BufferSize - w) % BufferSize = BufferSize - d
  BY <1>3, <1>4, SmallRemainder
<1> QED BY <1>5 DEF r, w

LEMMA DistanceAhead ==
    ASSUME NEW p \in Nat, NEW i \in 0 .. BufferSize - 1
    PROVE  (((p + i) % BufferSize) + BufferSize - (p % BufferSize)) % BufferSize = i
<1> USE LogBufferAssumption DEF LogBufferAssumption
<1> DEFINE r == p % BufferSize
           w == (p + i) % BufferSize
<1>1. r \in 0 .. BufferSize - 1
  BY Division
<1>2. w = IF r + i < BufferSize THEN r + i ELSE r + i - BufferSize
  <2>1. BufferSize \in Nat \ {0} /\ i \in 0 .. BufferSize - 1
    OBVIOUS
  <2> HIDE DEF LogBufferAssumption
  <2> QED BY ONLY <2>1, p \in Nat, RemainderOfSum
<1> HIDE DEF r, w
<1>3. w + BufferSize - r \in {i, i + BufferSize}
  BY <1>1, <1>2
<1>4. (w + BufferSize - r) % BufferSize = i
  BY <1>3, SmallRemainder
<1> QED BY <1>4 DEF r, w

-----------------------------------------------------------------------------
(* The inductive invariant *)

\* The messages of the log follow one another without a gap.
LogIsAStream ==
    /\ \A m \in 1 .. Len(log) - 1 : log[m + 1].at = log[m].at + log[m].size
    /\ \A k, m \in 1 .. Len(log) : k < m => log[k].at + log[k].size <= log[m].at

Inv == TypeOK /\ BufferHoldsTheLog /\ LogIsAStream

LEMMA MessageType ==
    ASSUME TypeOK, NEW m \in 1 .. Len(log)
    PROVE  /\ log[m].at \in Nat
           /\ log[m].size \in MessageSize
           /\ log[m].size \in Nat \ {0}
           /\ log[m].size >= HeaderSize
<1>1. log[m] \in [at : Nat, size : MessageSize]
  <2> DEFINE Message == [at : Nat, size : MessageSize]
  <2>1. log \in Seq(Message)
    BY DEF TypeOK
  <2> HIDE DEF Message
  <2>2. log[m] \in Message
    BY <2>1
  <2> QED BY <2>2 DEF Message
<1>2. log[m].at \in Nat /\ log[m].size \in MessageSize
  BY <1>1
<1>3. \A n \in MessageSize : n \in Nat /\ n >= HeaderSize
  BY LogBufferAssumption DEF LogBufferAssumption
<1>4. HeaderSize \in Nat \ {0}
  BY LogBufferAssumption DEF LogBufferAssumption
<1> QED BY <1>2, <1>3, <1>4

LEMMA LengthType == TypeOK => Len(log) \in Nat /\ first \in Nat \ {0} /\ first <= Len(log) + 1
BY DEF TypeOK

LEMMA Sizes == BufferSize \in Nat \ {0} /\ HeaderSize \in Nat \ {0} /\ MaxCapacity = BufferSize - 1
BY LogBufferAssumption DEF LogBufferAssumption, MaxCapacity

LEMMA EndType == TypeOK => End \in Nat /\ Start \in Nat
<1> SUFFICES ASSUME TypeOK PROVE End \in Nat /\ Start \in Nat
  OBVIOUS
<1>1. log # <<>> => Len(log) \in 1 .. Len(log)
  BY DEF TypeOK
<1>2. End \in Nat
  <2>1. CASE log = <<>>
    BY <2>1 DEF End
  <2>2. CASE log # <<>>
    <3> DEFINE m == Len(log)
    <3>1. m \in 1 .. Len(log)
      BY <1>1, <2>2
    <3>2. log[m].at \in Nat /\ log[m].size \in Nat
      BY <3>1, MessageType
    <3> QED BY <2>2, <3>2 DEF End
  <2> QED BY <2>1, <2>2
<1>3. first <= Len(log) => first \in 1 .. Len(log)
  BY LengthType
<1> QED BY <1>2, <1>3, MessageType, LengthType DEF Start

\* Every message kept lies between Start and End.
LEMMA Window ==
    ASSUME TypeOK, LogIsAStream, NEW m \in first .. Len(log)
    PROVE  /\ m \in 1 .. Len(log)
           /\ Start = log[first].at
           /\ Start <= log[m].at
           /\ log[m].at + log[m].size <= End
<1>1. m \in 1 .. Len(log) /\ first \in 1 .. Len(log) /\ Len(log) \in 1 .. Len(log)
  BY LengthType
<1>2. Start = log[first].at /\ End = log[Len(log)].at + log[Len(log)].size
  BY <1>1, LengthType DEF Start, End
<1>3. Start <= log[m].at
  <2>1. CASE m = first
    BY <1>1, <1>2, <2>1, MessageType
  <2>2. CASE first < m
    <3>1. log[first].at + log[first].size <= log[m].at
      BY <1>1, <2>2 DEF LogIsAStream
    <3>2. log[first].at \in Nat /\ log[first].size \in Nat /\ log[m].at \in Nat
      BY <1>1, MessageType
    <3> QED BY <1>2, <3>1, <3>2
  <2> QED BY <1>1, <2>1, <2>2
<1>4. log[m].at + log[m].size <= End
  <2>1. CASE m = Len(log)
    BY <1>1, <1>2, <2>1, MessageType
  <2>2. CASE m < Len(log)
    <3> DEFINE k == Len(log)
    <3>1. k \in 1 .. Len(log) /\ m < k
      BY <1>1, <2>2
    <3>2. log[m].at + log[m].size <= log[k].at
      BY <1>1, <3>1 DEF LogIsAStream
    <3>3. /\ log[m].at \in Nat /\ log[m].size \in Nat
          /\ log[k].at \in Nat /\ log[k].size \in Nat
      BY <1>1, <3>1, MessageType
    <3> QED BY <1>2, <3>2, <3>3, SMTT(30)
  <2> QED BY <1>1, <2>1, <2>2
<1> QED BY <1>1, <1>2, <1>3, <1>4

LEMMA UsedByLog ==
    ASSUME TypeOK, BufferHoldsTheLog
    PROVE  Used(m_read) = End - Start
<1> DEFINE d == End - Start
           e == End
           s == Start
           r == s % BufferSize
<1>1. d \in 0 .. BufferSize - 1 /\ s \in Nat /\ e \in Nat /\ e = s + d
  BY EndType, Sizes DEF BufferHoldsTheLog
<1>2. m_read = r /\ m_write = e % BufferSize
  BY DEF BufferHoldsTheLog
<1> HIDE DEF d, e, s
<1>3. r \in 0 .. BufferSize - 1
  BY <1>1, Sizes, Division
<1>4. (s + d) % BufferSize = IF r + d < BufferSize THEN r + d ELSE r + d - BufferSize
  BY ONLY <1>1, Sizes, RemainderOfSum
<1> HIDE DEF r
<1>5. Used(m_read) = d
  BY <1>1, <1>2, <1>3, <1>4, Sizes DEF Used
<1> QED BY <1>5 DEF d

-----------------------------------------------------------------------------
(* The oldest message *)

LEMMA OldestMessage ==
    ASSUME Inv, first <= Len(log)
    PROVE  /\ Holds(m_read, log[first].size, first)
           /\ log[first].size \in 1 .. Used(m_read)
           /\ PeekNextMessageSize(m_read) = {log[first].size}
           /\ CopyTo(m_read, log[first].size) = first
<1> USE Sizes DEF Inv
<1> DEFINE n == log[first].size
<1>1. first \in 1 .. Len(log) /\ first \in first .. Len(log) /\ DOMAIN log = 1 .. Len(log)
  BY LengthType DEF TypeOK
<1>2. n \in Nat \ {0} /\ n >= HeaderSize
  BY <1>1, MessageType
<1>3. Start = log[first].at /\ log[first].at + n <= End
  BY <1>1, Window
<1>4. Holds(m_read, n, first)
  BY <1>1, <1>3 DEF BufferHoldsTheLog
<1>5. n \in 1 .. Used(m_read)
  <2>1. Used(m_read) = End - Start
    BY UsedByLog
  <2>2. End \in Nat /\ log[first].at \in Nat
    BY <1>1, EndType, MessageType
  <2> HIDE DEF n
  <2> QED BY <1>2, <1>3, <2>1, <2>2
<1> HIDE DEF n
<1>6. Holds(m_read, HeaderSize, first)
  BY <1>2, <1>4 DEF Holds
<1>7. ASSUME NEW m, NEW k \in Nat \ {0}, Holds(m_read, k, m)
      PROVE  m = first
  <2>1. m_buffer[Advance(m_read, 0)] = <<m, 0>> /\ m_buffer[Advance(m_read, 0)] = <<first, 0>>
    BY <1>2, <1>4, <1>7 DEF Holds
  <2> QED BY <2>1
<1>8. PeekNextMessageSize(m_read) = {n}
  <2>1. {m \in DOMAIN log : Holds(m_read, HeaderSize, m)} = {first}
    BY <1>1, <1>6, <1>7
  <2>2. Used(m_read) \in Nat
    BY UsedByLog, EndType DEF BufferHoldsTheLog
  <2>3. ~(Used(m_read) < HeaderSize) /\ ~(n > Used(m_read))
    BY <1>2, <1>5, <2>2
  <2>4. \E m \in DOMAIN log : Holds(m_read, HeaderSize, m)
    BY <1>1, <1>6
  <2>5. {IF log[m].size > Used(m_read) THEN 0 ELSE log[m].size : m \in {first}} = {n}
    BY <2>3 DEF n
  <2> QED BY <2>1, <2>3, <2>4, <2>5 DEF PeekNextMessageSize
<1>9. CopyTo(m_read, n) = first
  <2>1. first \in DOMAIN log /\ log[first].size = n /\ Holds(m_read, n, first)
    BY <1>1, <1>4 DEF n
  <2>2. \A m \in DOMAIN log : log[m].size = n /\ Holds(m_read, n, m) => m = first
    BY <1>2, <1>7
  <2> QED BY <2>1, <2>2 DEF CopyTo
<1> QED BY <1>4, <1>5, <1>8, <1>9 DEF n

LEMMA NoMessageLeft ==
    ASSUME Inv, ~(first <= Len(log))
    PROVE  Used(m_read) = 0 /\ PeekNextMessageSize(m_read) = {0}
<1>1. first > Len(log)
  BY LengthType DEF Inv
<1>2. Used(m_read) = 0
  BY <1>1, UsedByLog, EndType DEF Inv, Start
<1> QED BY <1>2, Sizes DEF PeekNextMessageSize

-----------------------------------------------------------------------------
(* How the buffer changes *)

LEMMA PlaceInIndex == \A a \in Nat : a % BufferSize \in Index
BY Sizes, Division DEF Index

\* Skipping a message, in an add or a read that removes it
LEMMA Removal ==
    ASSUME Inv, first <= Len(log),
           m_read' = Advance(m_read, log[first].size), first' = first + 1,
           UNCHANGED <<m_buffer, m_write, log>>
    PROVE  /\ BufferHoldsTheLog' /\ LogIsAStream'
           /\ m_read' \in Index
           /\ first' \in 1 .. Len(log') + 1
<1> USE Sizes DEF Inv
<1> DEFINE n == log[first].size
           a == log[first].at
<1>1. first \in 1 .. Len(log) /\ first \in first .. Len(log) /\ Len(log) \in Nat
  BY LengthType
<1>2. n \in Nat \ {0} /\ a \in Nat /\ Start = a /\ End \in Nat
  BY <1>1, MessageType, Window, EndType
<1>3. n <= End - Start /\ End - Start <= BufferSize - 1 /\ m_read = a % BufferSize
  BY <1>2, OldestMessage, UsedByLog, EndType DEF BufferHoldsTheLog
<1>4. first' \in 1 .. Len(log') + 1
  BY <1>1
<1>5. End' = End
  BY DEF End
<1>6. Start' = a + n
  <2>1. CASE first = Len(log)
    <3>1. End = a + n
      BY <1>1, <2>1 DEF End
    <3> QED BY <1>1, <1>5, <2>1, <3>1 DEF Start
  <2>2. CASE first < Len(log)
    <3>1. log[first + 1].at = a + n
      BY <1>1, <2>2 DEF LogIsAStream
    <3> QED BY <1>1, <2>2, <3>1 DEF Start
  <2> QED BY <1>1, <2>1, <2>2
<1> HIDE DEF n, a
<1>7. m_read' = (a + n) % BufferSize
  <2>1. n \in 0 .. BufferSize - 1
    BY <1>2, <1>3
  <2>2. m_read' = Advance(a % BufferSize, n)
    BY <1>3 DEF n
  <2> QED BY <1>2, <2>1, <2>2, AdvanceInStream
<1>8. m_read' \in Index
  <2>1. a + n \in Nat
    BY <1>2
  <2> QED BY ONLY <1>7, <2>1, PlaceInIndex
<1>9. End' - Start' \in 0 .. MaxCapacity
  BY <1>2, <1>3, <1>5, <1>6
<1>10. ASSUME NEW m \in first' .. Len(log')
       PROVE  Holds(log[m].at % BufferSize, log[m].size, m)'
  <2>1. m \in first .. Len(log)
    BY <1>1, <1>10
  <2>2. Holds(log[m].at % BufferSize, log[m].size, m)
    BY <2>1 DEF BufferHoldsTheLog
  <2> QED BY <2>2 DEF Holds
<1>11. m_write' = End' % BufferSize
  BY <1>5 DEF BufferHoldsTheLog
<1>12. BufferHoldsTheLog'
  BY <1>6, <1>7, <1>9, <1>10, <1>11 DEF BufferHoldsTheLog
<1>13. LogIsAStream'
  BY DEF LogIsAStream
<1> QED BY <1>4, <1>8, <1>12, <1>13

\* The new message only covers bytes outside the window.
LEMMA Insertion ==
    ASSUME Inv, NEW n \in MessageSize, n <= Available,
           m_buffer' = CopyFrom(n, Len(log) + 1),
           m_write' = Advance(m_write, n),
           log' = Append(log, [at |-> End, size |-> n]),
           UNCHANGED <<m_read, first>>
    PROVE  /\ BufferHoldsTheLog' /\ LogIsAStream'
           /\ m_buffer' \in [Index -> Nat \X Nat]
           /\ m_write' \in Index
           /\ log' \in Seq([at : Nat, size : MessageSize])
           /\ first' \in 1 .. Len(log') + 1
<1> USE Sizes DEF Inv
<1> DEFINE L == Len(log)
           s == Start
           e == End
<1>1. /\ L \in Nat /\ first \in Nat \ {0} /\ first <= L + 1
      /\ s \in Nat /\ e \in Nat /\ e - s \in 0 .. BufferSize - 1
      /\ m_read = s % BufferSize /\ m_write = e % BufferSize
  BY LengthType, EndType DEF BufferHoldsTheLog
<1>2. n \in Nat \ {0} /\ (e - s) + n <= BufferSize - 1
  <2>1. n \in Nat \ {0}
    BY LogBufferAssumption DEF LogBufferAssumption
  <2>2. n <= (BufferSize - 1) - (e - s)
    BY UsedByLog DEF Available
  <2> HIDE DEF e, s
  <2> QED BY <1>1, <2>1, <2>2
<1>3. /\ log' \in Seq([at : Nat, size : MessageSize])
      /\ Len(log') = L + 1
      /\ log'[L + 1] = [at |-> e, size |-> n]
      /\ \A m \in 1 .. L : log'[m] = log[m]
  <2> DEFINE Message == [at : Nat, size : MessageSize]
             new == [at |-> e, size |-> n]
  <2>1. log \in Seq(Message) /\ new \in Message /\ log' = Append(log, new)
    BY <1>1 DEF TypeOK
  <2> HIDE DEF Message, new
  <2>2. log' \in Seq(Message) /\ Len(log') = L + 1 /\ log'[L + 1] = new
        /\ \A m \in 1 .. L : log'[m] = log[m]
    BY <2>1
  <2> QED BY <2>2 DEF Message, new
<1>4. End' = e + n
  <2>1. Len(log') # Len(<<>>)
    BY <1>1, <1>3
  <2>2. log' # <<>>
    BY <2>1
  <2> QED BY <1>1, <1>3, <2>2 DEF End
<1>5. Start' = s
  <2>1. CASE first = L + 1
    <3>1. s = e
      BY <1>1, <2>1 DEF Start
    <3>2. Start' = log'[first].at
      BY <1>1, <1>3, <2>1 DEF Start
    <3> QED BY <1>3, <2>1, <3>1, <3>2
  <2>2. CASE first <= L
    <3>1. s = log[first].at
      BY <1>1, <2>2 DEF Start
    <3>2. Start' = log'[first].at
      BY <1>1, <1>3, <2>2 DEF Start
    <3> QED BY <1>1, <1>3, <2>2, <3>1, <3>2
  <2> QED BY <1>1, <2>1, <2>2
<1> HIDE DEF L, s, e
<1>6. m_write' = (e + n) % BufferSize
  <2>1. n \in 0 .. BufferSize - 1
    BY <1>1, <1>2
  <2>2. m_write' = Advance(e % BufferSize, n)
    BY <1>1
  <2> QED BY <1>1, <2>1, <2>2, AdvanceInStream
<1>7. m_write' \in Index
  <2>1. e + n \in Nat
    BY <1>1, <1>2
  <2> QED BY ONLY <1>6, <2>1, PlaceInIndex
<1>8. m_buffer' \in [Index -> Nat \X Nat]
  <2>1. \A i \in Index : m_buffer[i] \in Nat \X Nat
    BY DEF TypeOK
  <2>2. \A i \in Index : (i + BufferSize - m_write) % BufferSize \in Nat
    <3> TAKE i \in Index
    <3> DEFINE b == i + BufferSize - m_write
    <3>1. b \in Nat
      BY DEF TypeOK, Index
    <3> HIDE DEF b
    <3>2. b % BufferSize \in Nat
      BY <3>1, Division
    <3> QED BY <3>2 DEF b
  <2>3. L + 1 \in Nat
    BY <1>1
  <2> QED BY <2>1, <2>2, <2>3 DEF CopyFrom, L
<1>9. ASSUME NEW m \in first .. L, NEW i \in 0 .. log[m].size - 1
      PROVE  m_buffer'[Advance(log[m].at % BufferSize, i)] = <<m, i>>
  <2> DEFINE p == log[m].at + i
             d == e - p
             x == p % BufferSize
  <2>1. m \in 1 .. L /\ s <= log[m].at /\ log[m].at + log[m].size <= e
    BY <1>1, <1>9, Window DEF L, s, e
  <2>2. log[m].at \in Nat /\ log[m].size \in Nat \ {0}
    BY <2>1, MessageType DEF L
  <2>3. p \in Nat /\ d \in 1 .. BufferSize - 1 /\ d <= e - s /\ e = p + d /\ i \in 0 .. BufferSize - 1
    <3> DEFINE a == log[m].at
               z == log[m].size
    <3>1. a \in Nat /\ z \in Nat \ {0} /\ i \in 0 .. z - 1 /\ s <= a /\ a + z <= e
      BY <2>1, <2>2
    <3>2. p = a + i /\ d = e - (a + i)
      OBVIOUS
    <3> HIDE DEF a, z, p, d
    <3>3. BufferSize \in Nat /\ s \in Nat /\ e \in Nat /\ e - s <= BufferSize - 1
      BY <1>1
    <3> QED BY ONLY <3>1, <3>2, <3>3
  <2>4. Advance(log[m].at % BufferSize, i) = x
    BY <2>2, <2>3, AdvanceInStream
  <2>5. m_buffer[x] = <<m, i>>
    BY <1>9, <2>4 DEF BufferHoldsTheLog, Holds, L
  <2> HIDE DEF p, d
  <2>6. (x + BufferSize - m_write) % BufferSize = BufferSize - d
    BY <1>1, <2>3, DistanceBehind
  <2>7. x \in Index
    BY <2>3, PlaceInIndex
  <2>8. ~(BufferSize - d < n)
    BY <1>1, <1>2, <2>3
  <2> HIDE DEF x
  <2>9. m_buffer'[x] = m_buffer[x]
    BY <2>6, <2>7, <2>8 DEF CopyFrom
  <2> QED BY <2>4, <2>5, <2>9
<1>10. ASSUME NEW i \in 0 .. n - 1
       PROVE  m_buffer'[Advance(e % BufferSize, i)] = <<L + 1, i>>
  <2> DEFINE x == (e + i) % BufferSize
  <2>1. i \in 0 .. BufferSize - 1 /\ e + i \in Nat /\ i < n
    BY <1>1, <1>2
  <2>2. Advance(e % BufferSize, i) = x
    BY <1>1, <2>1, AdvanceInStream
  <2>3. (x + BufferSize - m_write) % BufferSize = i
    BY <1>1, <2>1, DistanceAhead
  <2>4. x \in Index
    BY <2>1, PlaceInIndex
  <2> HIDE DEF x
  <2>5. m_buffer'[x] = <<L + 1, i>>
    BY <2>1, <2>3, <2>4 DEF CopyFrom, L
  <2> QED BY <2>2, <2>5
<1>11. ASSUME NEW m \in first' .. Len(log')
       PROVE  Holds(log[m].at % BufferSize, log[m].size, m)'
  <2>1. CASE m = L + 1
    <3>1. log'[m].at = e /\ log'[m].size = n
      BY <1>3, <2>1
    <3> QED BY <1>10, <2>1, <3>1 DEF Holds
  <2>2. CASE m \in first .. L
    <3>1. log'[m] = log[m]
      BY <1>1, <1>3, <2>2
    <3> QED BY <1>9, <2>2, <3>1 DEF Holds
  <2> QED BY <1>1, <1>3, <2>1, <2>2, SMTT(30)
<1>12. BufferHoldsTheLog'
  <2>1. End' - Start' \in 0 .. MaxCapacity
    BY <1>1, <1>2, <1>4, <1>5
  <2> QED BY <1>1, <1>4, <1>5, <1>6, <1>11, <2>1 DEF BufferHoldsTheLog
<1>13. LogIsAStream'
  <2>1. ASSUME NEW m \in 1 .. Len(log') - 1
        PROVE  log'[m + 1].at = log'[m].at + log'[m].size
    <3>1. CASE m = L
      <4>1. e = log[L].at + log[L].size
        BY <1>1, <2>1, <3>1 DEF e, End, L
      <4> QED BY <1>1, <1>3, <2>1, <3>1, <4>1
    <3>2. CASE m \in 1 .. L - 1
      <4>1. log'[m] = log[m] /\ log'[m + 1] = log[m + 1]
        BY <1>1, <1>3, <3>2
      <4> QED BY <3>2, <4>1 DEF LogIsAStream, L
    <3> QED BY <1>1, <1>3, <3>1, <3>2
  <2>2. ASSUME NEW k \in 1 .. Len(log'), NEW m \in 1 .. Len(log'), k < m
        PROVE  log'[k].at + log'[k].size <= log'[m].at
    <3>1. k \in 1 .. L /\ log'[k] = log[k]
      BY <1>1, <1>3, <2>2
    <3>2. CASE m = L + 1
      <4>1. log[k].at + log[k].size <= e
        <5>1. L \in 1 .. L /\ e = log[L].at + log[L].size
          BY <1>1, <3>1 DEF e, End, L
        <5>2. CASE k = L
          <6>1. log[L].at \in Nat /\ log[L].size \in Nat
            BY <5>1, MessageType DEF L
          <6> QED BY <5>1, <5>2, <6>1
        <5>3. CASE k < L
          <6>1. log[k].at + log[k].size <= log[L].at
            BY <3>1, <5>1, <5>3 DEF LogIsAStream, L
          <6>2. /\ log[L].at \in Nat /\ log[L].size \in Nat
                /\ log[k].at \in Nat /\ log[k].size \in Nat
            BY <3>1, <5>1, MessageType DEF L
          <6> QED BY <5>1, <6>1, <6>2, SMTT(30)
        <5> QED BY <1>1, <3>1, <5>2, <5>3
      <4> QED BY <1>3, <3>1, <3>2, <4>1
    <3>3. CASE m \in 1 .. L
      <4>1. log'[m] = log[m]
        BY <1>3, <3>3
      <4> QED BY <2>2, <3>1, <3>3, <4>1 DEF LogIsAStream, L
    <3> QED BY <1>1, <1>3, <3>2, <3>3
  <2> QED BY <2>1, <2>2 DEF LogIsAStream
<1>14. first' \in 1 .. Len(log') + 1
  BY <1>1, <1>3
<1> QED BY <1>3, <1>7, <1>8, <1>12, <1>13, <1>14

-----------------------------------------------------------------------------
(* The invariant holds *)

LEMMA Threads ==
    ASSUME TypeOK, NEW t \in Thread
    PROVE  t # Nobody /\ op[t] \in Operation /\ (op[t].kind = "add" <=> m_mutex = t)
BY LogBufferAssumption DEF TypeOK, LogBufferAssumption

LEMMA AddingThread ==
    ASSUME TypeOK, NEW t \in Thread, op[t].kind = "add"
    PROVE  /\ op[t] = [kind |-> "add", size |-> op[t].size]
           /\ op[t].size \in MessageSize /\ op[t].size \in Nat \ {0}
           /\ op[t].size <= MaxCapacity
<1> DEFINE Fitting == {n \in MessageSize : n <= MaxCapacity}
           n == op[t].size
<1>1. op[t] \in [kind : {"add"}, size : Fitting]
  BY Threads DEF Operation
<1>2. op[t] = [kind |-> "add", size |-> op[t].size] /\ n \in Fitting
  BY <1>1
<1>3. \A k \in MessageSize : k \in Nat \ {0}
  BY LogBufferAssumption DEF LogBufferAssumption
<1> QED BY <1>2, <1>3

LEMMA ReadingThread ==
    ASSUME TypeOK, NEW t \in Thread, op[t].kind = "read"
    PROVE  /\ op[t] \in [kind : {"read"}, offset : Nat, room : Nat, remove : BOOLEAN, count : Nat]
           /\ op[t].remove => op[t].offset = 0
BY Threads DEF Operation, TypeOK

LEMMA ReturnedThread ==
    ASSUME TypeOK, NEW t \in Thread, op[t].kind = "returned"
    PROVE  op[t].result \in Nat
<1>1. op[t] \in [kind : {"returned"}, result : Nat]
  BY Threads DEF Operation
<1> QED BY <1>1

LEMMA ReadingType ==
    ASSUME NEW offset \in Nat, NEW room \in Nat, NEW remove \in BOOLEAN, remove => offset = 0
    PROVE  LET o == Reading(offset, room, remove) IN
           o \in Operation /\ o.kind = "read" /\ (o.remove => o.offset = 0)
BY DEF Reading, Operation, NoMessage

\* A thread that does not hold the mutex goes on to an operation that is no add.
LEMMA OperationChange ==
    ASSUME TypeOK, NEW t \in Thread, op[t].kind # "add",
           NEW o \in Operation, o.kind # "add", o.kind = "read" => (o.remove => o.offset = 0),
           op' = [op EXCEPT ![t] = o], UNCHANGED m_mutex
    PROVE  /\ op' \in [Thread -> Operation]
           /\ m_mutex' \in Thread \cup {Nobody}
           /\ \A u \in Thread : op'[u].kind = "add" <=> m_mutex' = u
           /\ \A u \in Thread : op'[u].kind = "read" => (op'[u].remove => op'[u].offset = 0)
BY DEF TypeOK

LEMMA UsedType ==
    ASSUME TypeOK, NEW r \in Index
    PROVE  Used(r) \in Nat
BY Sizes DEF TypeOK, Index, Used

LEMMA ReadTypes ==
    ASSUME TypeOK, NEW r \in Index
    PROVE  PeekNextMessageSize(r) \subseteq Nat /\ \A n : CopyTo(r, n) \in Nat
<1>1. \A m \in DOMAIN log : m \in Nat /\ log[m].size \in Nat
  <2>1. DOMAIN log = 1 .. Len(log)
    BY DEF TypeOK
  <2> QED BY <2>1, MessageType, LengthType
<1>2. PeekNextMessageSize(r) \subseteq Nat
  BY <1>1, UsedType DEF PeekNextMessageSize
<1>3. ASSUME NEW n
      PROVE  CopyTo(r, n) \in Nat
  <2>1. CASE \E m \in DOMAIN log : log[m].size = n /\ Holds(r, n, m)
    BY <1>1, <2>1 DEF CopyTo
  <2>2. CASE ~ \E m \in DOMAIN log : log[m].size = n /\ Holds(r, n, m)
    BY <2>2 DEF CopyTo, NoMessage
  <2> QED BY <2>1, <2>2
<1> QED BY <1>2, <1>3

LEMMA BufferFrame ==
    ASSUME Inv, UNCHANGED <<m_buffer, m_read, m_write, log, first>>
    PROVE  BufferHoldsTheLog' /\ LogIsAStream'
<1>1. End' = End /\ Start' = Start
  BY DEF End, Start
<1>2. ASSUME NEW m \in first' .. Len(log')
      PROVE  Holds(log[m].at % BufferSize, log[m].size, m)'
  <2>1. Holds(log[m].at % BufferSize, log[m].size, m)
    BY DEF Inv, BufferHoldsTheLog
  <2> QED BY <2>1 DEF Holds
<1>3. BufferHoldsTheLog'
  BY <1>1, <1>2 DEF Inv, BufferHoldsTheLog
<1> QED BY <1>3 DEF Inv, LogIsAStream

LEMMA InitInv == Init => Inv
<1> SUFFICES ASSUME Init PROVE Inv
  OBVIOUS
<1> USE Sizes DEF Init
<1>1. End = 0 /\ Start = 0 /\ Len(log) = 0
  BY DEF End, Start
<1>2. 0 % BufferSize = 0
  BY SmallRemainder
<1>3. TypeOK
  <2>1. /\ m_buffer \in [Index -> Nat \X Nat]
        /\ m_read \in Index
        /\ m_write \in Index
    BY DEF Index, NoMessage
  <2>2. /\ m_mutex \in Thread \cup {Nobody}
        /\ op \in [Thread -> Operation]
        /\ \A t \in Thread : op[t].kind = "add" <=> m_mutex = t
        /\ \A t \in Thread : op[t].kind = "read" => (op[t].remove => op[t].offset = 0)
    BY LogBufferAssumption DEF LogBufferAssumption, Operation, Idle
  <2>3. scan \in [Scanner -> [offset : Nat, bufferSize : Nat, again : Nat]]
    BY DEF NewScan
  <2>4. /\ log \in Seq([at : Nat, size : MessageSize])
        /\ first \in 1 .. Len(log) + 1
        /\ taken \in Seq(Nat)
    BY <1>1
  <2> QED BY <2>1, <2>2, <2>3, <2>4 DEF TypeOK
<1>4. BufferHoldsTheLog
  BY <1>1, <1>2 DEF BufferHoldsTheLog
<1>5. LogIsAStream
  BY <1>1 DEF LogIsAStream
<1> QED BY <1>3, <1>4, <1>5 DEF Inv

LEMMA BeginAddInv ==
    ASSUME Inv, NEW t \in Thread, NEW size \in MessageSize, BeginAdd(t, size)
    PROVE  Inv'
<1> USE DEF Inv, BeginAdd, buffer, history
<1> DEFINE o == [kind |-> "add", size |-> size]
<1>1. o \in Operation /\ o.kind = "add"
  BY DEF Operation
<1>2. m_mutex = Nobody /\ op' = [op EXCEPT ![t] = o] /\ m_mutex' = t
  OBVIOUS
<1> HIDE DEF o
<1>3. \A u \in Thread : op[u].kind # "add"
  BY <1>2, Threads
<1>4. /\ op' \in [Thread -> Operation]
      /\ \A u \in Thread : op'[u].kind = "add" <=> m_mutex' = u
      /\ \A u \in Thread : op'[u].kind = "read" => (op'[u].remove => op'[u].offset = 0)
  BY <1>1, <1>2, <1>3 DEF TypeOK
<1>5. TypeOK'
  BY <1>2, <1>4 DEF TypeOK
<1> QED BY <1>5, BufferFrame

\* A message that fits in the buffer is only kept waiting by another one.
LEMMA DiscardsOldest ==
    ASSUME Inv, NEW t \in Thread, Discard(t)
    PROVE  /\ first <= Len(log)
           /\ m_read' = Advance(m_read, log[first].size)
           /\ first' = first + 1
           /\ Available = MaxCapacity - (End - Start)
<1> USE DEF Inv
<1>1. Available = MaxCapacity - (End - Start)
  BY UsedByLog DEF Available
<1>2. first <= Len(log)
  <2> SUFFICES ASSUME ~(first <= Len(log)) PROVE FALSE
    OBVIOUS
  <2>1. Available = MaxCapacity
    BY NoMessageLeft, Sizes DEF Available
  <2>2. op[t].kind = "add" /\ op[t].size > Available
    BY DEF Discard
  <2>3. op[t].size \in Nat /\ op[t].size <= MaxCapacity
    BY <2>2, AddingThread
  <2> QED BY <2>1, <2>2, <2>3, Sizes
<1>3. PeekNextMessageSize(m_read) = {log[first].size} /\ log[first].size # 0
  BY <1>2, OldestMessage
<1> QED BY <1>1, <1>2, <1>3 DEF Discard

LEMMA DiscardInv ==
    ASSUME Inv, NEW t \in Thread, Discard(t)
    PROVE  Inv'
<1>1. /\ first <= Len(log) /\ m_read' = Advance(m_read, log[first].size) /\ first' = first + 1
      /\ UNCHANGED <<m_buffer, m_write, m_mutex, op, scan, log, taken>>
  BY DiscardsOldest DEF Discard
<1>2. /\ BufferHoldsTheLog' /\ LogIsAStream'
      /\ m_read' \in Index
      /\ first' \in 1 .. Len(log') + 1
  BY <1>1, Removal
<1>3. TypeOK'
  BY <1>1, <1>2 DEF TypeOK, Inv
<1> QED BY <1>2, <1>3 DEF Inv

LEMMA InsertInv ==
    ASSUME Inv, NEW t \in Thread, Insert(t)
    PROVE  Inv'
<1> DEFINE n == op[t].size
<1>1. n \in MessageSize /\ m_mutex = t
  BY AddingThread, Threads DEF Inv, Insert
<1>2. /\ n <= Available
      /\ m_buffer' = CopyFrom(n, Len(log) + 1)
      /\ m_write' = Advance(m_write, n)
      /\ log' = Append(log, [at |-> End, size |-> n])
      /\ UNCHANGED <<m_read, first, scan, taken>>
      /\ m_mutex' = Nobody /\ op' = [op EXCEPT ![t] = Idle]
  BY DEF Insert
<1> HIDE DEF n
<1>3. /\ BufferHoldsTheLog' /\ LogIsAStream'
      /\ m_buffer' \in [Index -> Nat \X Nat]
      /\ m_write' \in Index
      /\ log' \in Seq([at : Nat, size : MessageSize])
      /\ first' \in 1 .. Len(log') + 1
  BY <1>1, <1>2, Insertion
<1>4. Idle \in Operation /\ Idle.kind = "idle"
  BY DEF Idle, Operation
<1>5. /\ op' \in [Thread -> Operation]
      /\ \A u \in Thread : op'[u].kind # "add"
      /\ \A u \in Thread : op'[u].kind = "read" => (op'[u].remove => op'[u].offset = 0)
  BY <1>1, <1>2, <1>4 DEF TypeOK, Inv
<1>6. \A u \in Thread : op'[u].kind = "add" <=> m_mutex' = u
  BY <1>2, <1>5, Threads DEF Inv
<1>7. TypeOK'
  BY <1>2, <1>3, <1>5, <1>6 DEF TypeOK, Inv
<1> QED BY <1>3, <1>7 DEF Inv

\* A read removes the oldest message, or nothing.
LEMMA ExtractsOldest ==
    ASSUME Inv, NEW t \in Thread, Extract(t)
    PROVE  \/ UNCHANGED <<m_read, first, taken>>
           \/ /\ first <= Len(log)
              /\ m_read' = Advance(m_read, log[first].size)
              /\ first' = first + 1
              /\ taken' = Append(taken, first)
<1> DEFINE o == op[t]
           r == Advance(m_read, o.offset)
<1>1. o.kind = "read" /\ o.offset \in Nat /\ (o.remove => o.offset = 0)
  BY ReadingThread DEF Extract, Inv
<1>2. PICK size \in PeekNextMessageSize(r) :
         IF size = 0 \/ size > o.room
         THEN UNCHANGED <<m_read, first, taken>>
         ELSE IF o.remove
              THEN /\ m_read' = Advance(r, size)
                   /\ first' = first + 1
                   /\ taken' = Append(taken, CopyTo(r, size))
              ELSE UNCHANGED <<m_read, first, taken>>
  BY DEF Extract
<1>3. CASE size # 0 /\ o.remove /\ ~(size > o.room)
  <2>1. r = m_read
    <3>1. m_read \in 0 .. BufferSize - 1
      BY DEF Inv, TypeOK, Index
    <3>2. m_read + 0 = m_read /\ m_read % BufferSize = m_read
      BY <3>1, Sizes, SmallRemainder
    <3> QED BY <1>1, <1>3, <3>2 DEF Advance
  <2> HIDE DEF r
  <2>2. first <= Len(log)
    BY <1>2, <1>3, <2>1, NoMessageLeft
  <2>3. size = log[first].size /\ CopyTo(m_read, log[first].size) = first
    BY <1>2, <2>1, <2>2, OldestMessage
  <2> QED BY <1>2, <1>3, <2>1, <2>2, <2>3
<1>4. CASE ~(size # 0 /\ o.remove /\ ~(size > o.room))
  BY <1>2, <1>4
<1> QED BY <1>3, <1>4

LEMMA ExtractInv ==
    ASSUME Inv, NEW t \in Thread, Extract(t)
    PROVE  Inv'
<1> DEFINE o == op[t]
           r == Advance(m_read, o.offset)
<1>1. /\ o \in [kind : {"read"}, offset : Nat, room : Nat, remove : BOOLEAN, count : Nat]
      /\ o.remove => o.offset = 0
  BY ReadingThread DEF Extract, Inv
<1>2. r \in Index
  <2>1. m_read + o.offset \in Nat
    BY <1>1 DEF Inv, TypeOK, Index
  <2> QED BY <2>1, PlaceInIndex DEF Advance
<1>3. /\ m_mutex = Nobody
      /\ UNCHANGED <<m_buffer, m_write, m_mutex, scan, log>>
  BY DEF Extract
<1>4. PICK size \in PeekNextMessageSize(r) :
         op' = [op EXCEPT ![t] =
           IF size = 0 \/ size > o.room
           THEN [kind |-> "returned", result |-> IF o.count = 0 THEN size ELSE o.count]
           ELSE [o EXCEPT !.room = @ - size, !.count = @ + size]]
  BY DEF Extract
<1>5. size \in Nat /\ CopyTo(r, size) \in Nat
  BY <1>2, <1>4, ReadTypes DEF Inv
<1> DEFINE new == IF size = 0 \/ size > o.room
                  THEN [kind |-> "returned", result |-> IF o.count = 0 THEN size ELSE o.count]
                  ELSE [o EXCEPT !.room = @ - size, !.count = @ + size]
<1> HIDE DEF r
<1>6. new \in Operation /\ new.kind # "add" /\ (new.kind = "read" => (new.remove => new.offset = 0))
  <2> HIDE DEF o
  <2>1. CASE size = 0 \/ size > o.room
    BY <1>1, <1>5, <2>1 DEF Operation
  <2>2. CASE ~(size = 0 \/ size > o.room)
    <3>1. o.room - size \in Nat /\ o.count + size \in Nat
      BY <1>1, <1>5, <2>2
    <3>2. new = [o EXCEPT !.room = o.room - size, !.count = o.count + size]
      BY <2>2
    <3> HIDE DEF new
    <3>3. new \in [kind : {"read"}, offset : Nat, room : Nat, remove : BOOLEAN, count : Nat]
      BY <1>1, <1>5, <3>1, <3>2
    <3>4. new.remove = o.remove /\ new.offset = o.offset
      BY <1>1, <3>2
    <3> QED BY <1>1, <3>3, <3>4 DEF Operation
  <2> QED BY <2>1, <2>2
<1>7. op' = [op EXCEPT ![t] = new]
  BY <1>4
<1> HIDE DEF new
<1>8. /\ op' \in [Thread -> Operation]
      /\ m_mutex' \in Thread \cup {Nobody}
      /\ \A u \in Thread : op'[u].kind = "add" <=> m_mutex' = u
      /\ \A u \in Thread : op'[u].kind = "read" => (op'[u].remove => op'[u].offset = 0)
  BY <1>1, <1>3, <1>6, <1>7, OperationChange DEF Inv
<1>9. /\ BufferHoldsTheLog' /\ LogIsAStream'
      /\ m_read' \in Index
      /\ first' \in 1 .. Len(log') + 1
      /\ taken' \in Seq(Nat)
  <2>1. CASE UNCHANGED <<m_read, first, taken>>
    <3>1. BufferHoldsTheLog' /\ LogIsAStream'
      BY <1>3, <2>1, BufferFrame
    <3> QED BY <1>3, <2>1, <3>1 DEF Inv, TypeOK
  <2>2. CASE /\ first <= Len(log)
             /\ m_read' = Advance(m_read, log[first].size)
             /\ first' = first + 1
             /\ taken' = Append(taken, first)
    <3>1. BufferHoldsTheLog' /\ LogIsAStream' /\ m_read' \in Index /\ first' \in 1 .. Len(log') + 1
      BY <1>3, <2>2, Removal
    <3>2. taken \in Seq(Nat) /\ first \in Nat
      BY LengthType DEF Inv, TypeOK
    <3> QED BY <2>2, <3>1, <3>2
  <2> QED BY <2>1, <2>2, ExtractsOldest
<1>10. TypeOK'
  BY <1>3, <1>8, <1>9 DEF TypeOK, Inv
<1> QED BY <1>9, <1>10 DEF Inv

\* Steps that only change what one reader does
LEMMA ReaderStep ==
    ASSUME Inv, NEW t \in Thread, op[t].kind # "add",
           NEW o \in Operation, o.kind # "add", o.kind = "read" => (o.remove => o.offset = 0),
           op' = [op EXCEPT ![t] = o],
           scan' \in [Scanner -> [offset : Nat, bufferSize : Nat, again : Nat]],
           UNCHANGED <<buffer, m_mutex, history>>
    PROVE  Inv'
<1> USE DEF Inv, buffer, history
<1>1. BufferHoldsTheLog' /\ LogIsAStream'
  BY BufferFrame
<1>2. /\ op' \in [Thread -> Operation]
      /\ m_mutex' \in Thread \cup {Nobody}
      /\ \A u \in Thread : op'[u].kind = "add" <=> m_mutex' = u
      /\ \A u \in Thread : op'[u].kind = "read" => (op'[u].remove => op'[u].offset = 0)
  BY OperationChange
<1>3. TypeOK'
  BY <1>2 DEF TypeOK
<1> QED BY <1>1, <1>3

LEMMA DrainInv ==
    ASSUME Inv, NEW t \in Thread, Drain(t)
    PROVE  Inv'
<1>1. PICK room \in Room : op' = [op EXCEPT ![t] = Reading(0, room, TRUE)]
  BY DEF Drain
<1>2. room \in Nat
  BY LogBufferAssumption DEF LogBufferAssumption
<1>3. LET o == Reading(0, room, TRUE) IN
      o \in Operation /\ o.kind = "read" /\ (o.remove => o.offset = 0)
  BY <1>2, ReadingType
<1>4. scan' \in [Scanner -> [offset : Nat, bufferSize : Nat, again : Nat]]
  BY DEF Drain, Inv, TypeOK
<1>5. op[t].kind # "add" /\ UNCHANGED <<buffer, m_mutex, history>>
  BY DEF Drain
<1> QED BY <1>1, <1>3, <1>4, <1>5, ReaderStep

LEMMA BeginScanInv ==
    ASSUME Inv, NEW t \in Scanner, BeginScan(t)
    PROVE  Inv'
<1>1. t \in Thread /\ op' = [op EXCEPT ![t] = Reading(0, 0, FALSE)]
  BY DEF BeginScan, Thread
<1>2. LET o == Reading(0, 0, FALSE) IN
      o \in Operation /\ o.kind = "read" /\ (o.remove => o.offset = 0)
  BY ReadingType
<1>3. scan' \in [Scanner -> [offset : Nat, bufferSize : Nat, again : Nat]]
  <2>1. NewScan \in [offset : Nat, bufferSize : Nat, again : Nat]
    BY DEF NewScan
  <2> QED BY <2>1 DEF BeginScan, Inv, TypeOK
<1>4. op[t].kind # "add" /\ UNCHANGED <<buffer, m_mutex, history>>
  BY DEF BeginScan, Idle
<1> QED BY <1>1, <1>2, <1>3, <1>4, ReaderStep

LEMMA ScanReturnedInv ==
    ASSUME Inv, NEW t \in Scanner, ScanReturned(t)
    PROVE  Inv'
<1> DEFINE ScanType == [offset : Nat, bufferSize : Nat, again : Nat]
<1>1. t \in Thread /\ op[t].kind = "returned" /\ UNCHANGED <<buffer, m_mutex, history>>
  BY DEF ScanReturned, Thread
<1>2. op[t].result \in Nat
  BY <1>1, ReturnedThread DEF Inv
<1>3. scan \in [Scanner -> ScanType] /\ scan[t] \in ScanType
  BY DEF Inv, TypeOK
<1>4. scan[t].offset \in Nat /\ scan[t].bufferSize \in Nat /\ scan[t].again \in Nat
  BY <1>3
<1>5. ASSUME NEW size \in Nat, Callback(t, size)
      PROVE  Inv'
  <2>1. scan[t].offset + size \in Nat
    BY <1>4
  <2>2. op' = [op EXCEPT ![t] = Reading(scan[t].offset + size, scan[t].bufferSize, FALSE)]
    BY <1>5 DEF Callback
  <2>3. LET o == Reading(scan[t].offset + size, scan[t].bufferSize, FALSE) IN
        o \in Operation /\ o.kind = "read" /\ (o.remove => o.offset = 0)
    BY <1>4, <2>1, ReadingType
  <2>4. scan' \in [Scanner -> ScanType]
    <3>2. [scan[t] EXCEPT !.offset = scan[t].offset + size, !.again = 0] \in ScanType
      BY <1>3, <2>1
    <3>3. scan' = [scan EXCEPT ![t] =
             [scan[t] EXCEPT !.offset = scan[t].offset + size, !.again = 0]]
      BY <1>5 DEF Callback
    <3> HIDE DEF ScanType
    <3> QED BY <1>3, <3>2, <3>3
  <2> QED BY <1>1, <2>2, <2>3, <2>4, ReaderStep
<1>6. ASSUME NEW size \in Nat, ReadAgain(t, size)
      PROVE  Inv'
  <2>1. op' = [op EXCEPT ![t] = Reading(scan[t].offset, size, FALSE)]
    BY <1>6 DEF ReadAgain
  <2>2. LET o == Reading(scan[t].offset, size, FALSE) IN
        o \in Operation /\ o.kind = "read" /\ (o.remove => o.offset = 0)
    BY <1>4, ReadingType
  <2>3. scan' \in [Scanner -> ScanType]
    <3>1. [scan[t] EXCEPT !.bufferSize = size, !.again = size] \in ScanType
      BY <1>3
    <3>2. scan' = [scan EXCEPT ![t] = [scan[t] EXCEPT !.bufferSize = size, !.again = size]]
      BY <1>6 DEF ReadAgain
    <3> HIDE DEF ScanType
    <3> QED BY <1>3, <3>1, <3>2
  <2> QED BY <1>1, <2>1, <2>2, <2>3, ReaderStep
<1>7. CASE op' = [op EXCEPT ![t] = Idle] /\ UNCHANGED scan
  <2>1. Idle \in Operation /\ Idle.kind = "idle"
    BY DEF Idle, Operation
  <2> QED BY <1>1, <1>3, <1>7, <2>1, ReaderStep
<1>8. \/ Callback(t, scan[t].again)
      \/ ReadAgain(t, op[t].result)
      \/ Callback(t, op[t].result)
      \/ op' = [op EXCEPT ![t] = Idle] /\ UNCHANGED scan
  BY DEF ScanReturned
<1> QED BY <1>2, <1>4, <1>5, <1>6, <1>7, <1>8

\* The invariant, inductive by one lemma per action
THEOREM LogBufferInvariance == Spec => []Inv
<1>1. Init => Inv
  BY InitInv
<1>2. Inv /\ [Next]_vars => Inv'
  <2> SUFFICES ASSUME Inv, [Next]_vars PROVE Inv'
    OBVIOUS
  <2>1. CASE UNCHANGED vars
    BY <2>1, BufferFrame DEF Inv, TypeOK, vars, buffer, history
  <2>2. ASSUME NEW t \in Writer,
               (\E size \in MessageSize : BeginAdd(t, size)) \/ Discard(t) \/ Insert(t)
        PROVE  Inv'
    BY <2>2, BeginAddInv, DiscardInv, InsertInv DEF Thread
  <2>3. ASSUME NEW t \in Drainer, Drain(t) \/ Extract(t)
        PROVE  Inv'
    BY <2>3, DrainInv, ExtractInv DEF Thread
  <2>4. ASSUME NEW t \in Scanner, BeginScan(t) \/ Extract(t) \/ ScanReturned(t)
        PROVE  Inv'
    BY <2>4, BeginScanInv, ExtractInv, ScanReturnedInv DEF Thread
  <2> QED BY <2>1, <2>2, <2>3, <2>4 DEF Next
<1> QED BY <1>1, <1>2, PTL DEF Spec

\* Type correctness: the pointers stay inside the buffer, and only the owner
\* of the mutex is inside an add.
THEOREM LogBufferTypeCorrect == Spec => []TypeOK
<1>1. Inv => TypeOK
  BY DEF Inv
<1> QED BY <1>1, LogBufferInvariance, PTL

\* The buffer holds the newest messages, whole and in order.
THEOREM LogBufferHoldsTheLog == Spec => []BufferHoldsTheLog
<1>1. Inv => BufferHoldsTheLog
  BY DEF Inv
<1> QED BY <1>1, LogBufferInvariance, PTL

-----------------------------------------------------------------------------
(* The refinement *)

LEMMA RefinementInit == Init => MessageLog!Init
BY DEF Init, MessageLog!Init, Adding

LEMMA AbstractUsed ==
    ASSUME Inv
    PROVE  MessageLog!Used = End - Start /\ MessageLog!End = End
<1>1. MessageLog!End = End
  BY DEF MessageLog!End, End
<1>2. first > Len(log) => End - Start = 0
  BY EndType DEF Start, Inv
<1> QED BY <1>1, <1>2 DEF MessageLog!Used, Start

\* What a step of a reader leaves of the size being added
LEMMA AddingFrame ==
    ASSUME Inv, NEW t \in Thread, op[t].kind # "add", NEW o,
           op' = [op EXCEPT ![t] = o], UNCHANGED m_mutex
    PROVE  Adding' = Adding
<1>1. m_mutex # Nobody => m_mutex \in Thread /\ m_mutex # t
  BY Threads DEF Inv, TypeOK
<1> QED BY <1>1 DEF Adding, Inv, TypeOK

LEMMA RefinementStep ==
    ASSUME Inv, [Next]_vars
    PROVE  [MessageLog!Next]_<<log, first, Adding, taken>>
<1> USE DEF Inv
<1>1. CASE UNCHANGED vars
  BY <1>1 DEF vars, buffer, history, Adding
<1>2. ASSUME NEW t \in Writer, NEW size \in MessageSize, BeginAdd(t, size)
      PROVE  MessageLog!BeginAdd(size)
  <2>1. t \in Thread /\ t # Nobody
    BY Threads DEF Thread
  <2>2. Adding = 0 /\ Adding' = size
    BY <1>2, <2>1 DEF BeginAdd, Adding, TypeOK
  <2> QED BY <1>2, <2>2 DEF BeginAdd, MessageLog!BeginAdd, history
<1>3. ASSUME NEW t \in Writer, Discard(t)
      PROVE  MessageLog!Forget
  <2>1. t \in Thread /\ t # Nobody /\ op[t].kind = "add" /\ m_mutex = t
    BY <1>3, Threads DEF Thread, Discard
  <2>2. Adding = op[t].size /\ Adding' = Adding
    BY <1>3, <2>1 DEF Adding, Discard
  <2>3. first <= Len(log) /\ first' = first + 1 /\ Available = MaxCapacity - (End - Start)
    BY <1>3, <2>1, DiscardsOldest
  <2>4. op[t].size > Available /\ UNCHANGED <<log, taken>>
    BY <1>3 DEF Discard
  <2> QED BY <2>2, <2>3, <2>4, AbstractUsed DEF MessageLog!Forget
<1>4. ASSUME NEW t \in Writer, Insert(t)
      PROVE  MessageLog!EndAdd
  <2>1. t \in Thread /\ t # Nobody /\ op[t].kind = "add" /\ m_mutex = t
    BY <1>4, Threads DEF Thread, Insert
  <2>2. Adding = op[t].size /\ Adding' = 0
    BY <1>4, <2>1 DEF Adding, Insert
  <2>3. op[t].size <= Available /\ op[t].size \in Nat \ {0}
    BY <1>4, <2>1, AddingThread DEF Insert
  <2>4. Available = MaxCapacity - (End - Start) /\ Available \in Int
    BY UsedByLog, EndType, Sizes DEF Available
  <2>5. Adding \in 1 .. MaxCapacity - MessageLog!Used
    BY <2>2, <2>3, <2>4, AbstractUsed
  <2>6. log' = Append(log, [at |-> MessageLog!End, size |-> Adding]) /\ UNCHANGED <<first, taken>>
    BY <1>4, <2>2, AbstractUsed DEF Insert
  <2> QED BY <2>2, <2>5, <2>6 DEF MessageLog!EndAdd
<1>5. ASSUME NEW t \in Thread, Extract(t)
      PROVE  MessageLog!Take \/ UNCHANGED <<log, first, Adding, taken>>
  <2>1. m_mutex = Nobody /\ UNCHANGED <<m_mutex, log>>
    BY <1>5 DEF Extract
  <2>2. Adding = 0 /\ Adding' = 0
    BY <2>1 DEF Adding
  <2> QED BY <1>5, <2>1, <2>2, ExtractsOldest DEF MessageLog!Take
<1>6. ASSUME NEW t \in Drainer, Drain(t)
      PROVE  UNCHANGED <<log, first, Adding, taken>>
  <2>1. t \in Thread /\ op[t].kind # "add" /\ UNCHANGED <<m_mutex, history>>
    BY <1>6 DEF Drain, Thread
  <2>2. \E o : op' = [op EXCEPT ![t] = o]
    BY <1>6 DEF Drain
  <2> QED BY <2>1, <2>2, AddingFrame DEF history
<1>7. ASSUME NEW t \in Scanner, BeginScan(t) \/ ScanReturned(t)
      PROVE  UNCHANGED <<log, first, Adding, taken>>
  <2>1. t \in Thread /\ op[t].kind # "add" /\ UNCHANGED <<m_mutex, history>>
    <3>1. CASE BeginScan(t)
      BY <3>1 DEF BeginScan, Thread, Idle
    <3>2. CASE ScanReturned(t)
      BY <3>2 DEF ScanReturned, Thread
    <3> QED BY <1>7, <3>1, <3>2
  <2>2. \E o : op' = [op EXCEPT ![t] = o]
    BY <1>7 DEF BeginScan, ScanReturned, Callback, ReadAgain
  <2> QED BY <2>1, <2>2, AddingFrame DEF history
<1>8. Drainer \subseteq Thread /\ Scanner \subseteq Thread
  BY DEF Thread
<1> QED BY <1>1, <1>2, <1>3, <1>4, <1>5, <1>6, <1>7, <1>8 DEF Next, MessageLog!Next

\* The circular buffer is a log that forgets: every step of an add or a read is
\* a step of MessageLog, or none.
THEOREM LogBufferImplementsMessageLog == Spec => ImplementsMessageLog
<1>1. Init => MessageLog!Init
  BY RefinementInit
<1>2. Inv /\ [Next]_vars => [MessageLog!Next]_<<log, first, Adding, taken>>
  BY RefinementStep
<1> QED BY <1>1, <1>2, LogBufferInvariance, PTL DEF Spec, ImplementsMessageLog, MessageLog!Spec
=============================================================================
