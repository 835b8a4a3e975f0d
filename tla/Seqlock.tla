------------------------------ MODULE Seqlock ------------------------------
(***************************************************************************)
(* The sequence lock of System/Concurrency (Seqlock.cc, Seqlock.hh).       *)
(*                                                                         *)
(* The lock word is even while nobody writes.  A writer makes it odd,      *)
(* changes the data word by word and makes it even again.  A reader reads  *)
(* the data without a lock, and keeps what it read only if the word was    *)
(* even before and is the same after.                                      *)
(*                                                                         *)
(* The callables passed to the lock are the callers': writers increment    *)
(* every word of the data, readers copy every word, in any order.  One     *)
(* step is one access to shared memory; memory is sequentially consistent. *)
(***************************************************************************)
EXTENDS Naturals, FiniteSets

CONSTANTS Writer, Reader,   \* the threads that write, and those that read
          Word,             \* the words of the data
          Modulus,          \* the lock word counts modulo this power of two
          MaxWrites,        \* bound on the number of write operations
          Nothing,          \* no word, and no result
          WeakCASFails      \* as in QueuedSpinlock

ASSUME SeqlockAssumption ==
    /\ Modulus \in Nat /\ Modulus > 0 /\ Modulus % 2 = 0
    /\ MaxWrites \in Nat
    /\ Writer \cap Reader = {}
    /\ Nothing \notin Word
    /\ WeakCASFails \in BOOLEAN

\* The counter does not come round to the same value during one read.
NoWrapAround == 2 * MaxWrites < Modulus

VARIABLES lockword,   \* the counter
          data,       \* data[i]: what word i of the data holds
          pc,         \* pc[t]: where t is in its operation
          current,    \* current[w]: the value w expects in the lock word
          cookie,     \* cookie[r]: the lock word when r began to read
          todo,       \* todo[t]: the words t has not accessed yet
          word,       \* word[w]: the word that w has loaded and not stored yet
          loaded,     \* loaded[w]: the value it loaded
          copy,       \* copy[r]: what r has read
          commits     \* history: number of write operations completed

vars == <<lockword, data, pc, current, cookie, todo, word, loaded, copy, commits>>
readerVars == <<cookie, copy>>
writerVars == <<current, word, loaded, commits>>

Thread == Writer \cup Reader
Counter == 0..(Modulus - 1)
IsOdd(n) == n % 2 = 1
\* Mutant: the counter goes down.
MutDecrement(n) == n - 1

Increment(n) == IF n = Modulus - 1 THEN 0 ELSE n + 1

\* A writer with the lock is in "update" or "store".
Writing == {"update", "store"}
\* The writers between the call of withWriteLock and its return.
Active == {w \in Writer : pc[w] # "idle"}

Label == {"idle", "acquire", "spin", "read", "returned"} \cup Writing

Init ==
    /\ lockword = 0
    /\ data = [i \in Word |-> 0]
    /\ pc = [t \in Thread |-> "idle"]
    /\ current = [w \in Writer |-> 0]
    /\ cookie = [r \in Reader |-> 0]
    /\ todo = [t \in Thread |-> {}]
    /\ word = [w \in Writer |-> Nothing]
    /\ loaded = [w \in Writer |-> 0]
    /\ copy = [r \in Reader |-> [i \in Word |-> 0]]
    /\ commits = 0

Goto(t, label) == pc' = [pc EXCEPT ![t] = label]

-----------------------------------------------------------------------------
(* withWriteLock: SeqlockWriteAcquire, the callable, SeqlockWriteRelease *)

BeginWrite(w) ==
    /\ pc[w] = "idle"
    /\ commits + Cardinality(Active) < MaxWrites
    /\ current' = [current EXCEPT ![w] = 0]
    /\ Goto(w, "acquire")
    /\ UNCHANGED <<lockword, data, todo, word, loaded, commits, readerVars>>

\* Mutant: the lock word is stored without comparing it.
MutWriteAcquireStores(w) ==
    /\ pc[w] = "acquire"
    /\ lockword' = Increment(current[w])
    /\ todo' = [todo EXCEPT ![w] = Word]
    /\ Goto(w, "update")
    /\ UNCHANGED <<data, writerVars, readerVars>>

\* The compare-exchange from an even to the next odd value succeeds.
WriteAcquire(w) ==
    /\ pc[w] = "acquire"
    /\ lockword = current[w]
    /\ lockword' = Increment(lockword)
    /\ todo' = [todo EXCEPT ![w] = Word]
    /\ Goto(w, "update")
    /\ UNCHANGED <<data, writerVars, readerVars>>

\* Mutant: an odd value is expected next time as well.
MutAcquireFromOdd(w) ==
    /\ pc[w] = "acquire"
    /\ lockword # current[w]
    /\ current' = [current EXCEPT ![w] = lockword]
    /\ UNCHANGED <<lockword, data, pc, todo, word, loaded, commits, readerVars>>

\* It fails: the value seen is expected next time, once it is even.
WriteAcquireFails(w) ==
    /\ pc[w] = "acquire"
    /\ lockword # current[w] \/ WeakCASFails
    /\ current' = [current EXCEPT ![w] = lockword]
    /\ Goto(w, IF IsOdd(lockword) THEN "spin" ELSE "acquire")
    /\ UNCHANGED <<lockword, data, todo, word, loaded, commits, readerVars>>

SpinEnds(w) ==
    /\ pc[w] = "spin"
    /\ ~IsOdd(lockword)
    /\ current' = [current EXCEPT ![w] = lockword]
    /\ Goto(w, "acquire")
    /\ UNCHANGED <<lockword, data, todo, word, loaded, commits, readerVars>>

\* The callable of the writer: each word is loaded, incremented and stored.
LoadWord(w) ==
    /\ pc[w] = "update"
    /\ \E i \in todo[w] :
          /\ word' = [word EXCEPT ![w] = i]
          /\ loaded' = [loaded EXCEPT ![w] = data[i]]
          /\ todo' = [todo EXCEPT ![w] = @ \ {i}]
    /\ Goto(w, "store")
    /\ UNCHANGED <<lockword, data, current, commits, readerVars>>

StoreWord(w) ==
    /\ pc[w] = "store"
    /\ data' = [data EXCEPT ![word[w]] = loaded[w] + 1]
    /\ word' = [word EXCEPT ![w] = Nothing]
    /\ loaded' = [loaded EXCEPT ![w] = 0]
    /\ Goto(w, "update")
    /\ UNCHANGED <<lockword, current, todo, commits, readerVars>>

\* Mutant: the release takes the counter back to its value before the write.
MutWriteReleaseRestores(w) ==
    /\ pc[w] = "update"
    /\ todo[w] = {}
    /\ lockword' = lockword - 1
    /\ commits' = commits + 1
    /\ Goto(w, "idle")
    /\ UNCHANGED <<data, current, todo, word, loaded, readerVars>>

\* Mutant: the counter stays odd.
MutWriteReleaseForgets(w) ==
    /\ pc[w] = "update"
    /\ todo[w] = {}
    /\ commits' = commits + 1
    /\ Goto(w, "idle")
    /\ UNCHANGED <<lockword, data, current, todo, word, loaded, readerVars>>

WriteRelease(w) ==
    /\ pc[w] = "update"
    /\ todo[w] = {}
    /\ lockword' = Increment(lockword)
    /\ commits' = commits + 1
    /\ Goto(w, "idle")
    /\ UNCHANGED <<data, current, todo, word, loaded, readerVars>>

-----------------------------------------------------------------------------
(* readOperation and tryReadOperation: SeqlockReadAcquire, the callable,   *)
(* SeqlockReadValid                                                        *)

ReadAcquire(r) ==
    /\ pc[r] = "idle"
    /\ cookie' = [cookie EXCEPT ![r] = lockword]
    /\ todo' = [todo EXCEPT ![r] = Word]
    /\ Goto(r, "read")
    /\ UNCHANGED <<lockword, data, copy, writerVars>>

ReadWord(r) ==
    /\ pc[r] = "read"
    /\ \E i \in todo[r] :
          /\ copy' = [copy EXCEPT ![r][i] = data[i]]
          /\ todo' = [todo EXCEPT ![r] = @ \ {i}]
    /\ UNCHANGED <<lockword, data, pc, cookie, writerVars>>

\* Mutant: a cookie taken during a write is valid.
MutReadValidWhenOdd(r) == lockword = cookie[r]

ReadValid(r) == ~IsOdd(cookie[r]) /\ lockword = cookie[r]

\* A valid read returns its result to the caller.
ReadReturns(r) ==
    /\ pc[r] = "read"
    /\ todo[r] = {}
    /\ ReadValid(r)
    /\ Goto(r, "returned")
    /\ UNCHANGED <<lockword, data, todo, writerVars, readerVars>>

\* Mutant: readOperation reads again under the cookie it has.
MutReadRetriesWithOldCookie(r) ==
    /\ pc[r] = "read"
    /\ todo[r] = {}
    /\ ~ReadValid(r)
    /\ todo' = [todo EXCEPT ![r] = Word]
    /\ UNCHANGED <<lockword, data, pc, writerVars, readerVars>>

\* readOperation takes a new cookie and reads again; tryReadOperation returns
\* false, and the caller may start over.
ReadRetries(r) ==
    /\ pc[r] = "read"
    /\ todo[r] = {}
    /\ ~ReadValid(r)
    /\ Goto(r, "idle")
    /\ UNCHANGED <<lockword, data, todo, writerVars, readerVars>>

ResultIsUsed(r) ==
    /\ pc[r] = "returned"
    /\ Goto(r, "idle")
    /\ UNCHANGED <<lockword, data, todo, writerVars, readerVars>>

-----------------------------------------------------------------------------
Write(w) ==
    \/ BeginWrite(w)
    \/ WriteAcquire(w)
    \/ WriteAcquireFails(w)
    \/ SpinEnds(w)
    \/ LoadWord(w)
    \/ StoreWord(w)
    \/ WriteRelease(w)

Read(r) ==
    \/ ReadAcquire(r)
    \/ ReadWord(r)
    \/ ReadReturns(r)
    \/ ReadRetries(r)
    \/ ResultIsUsed(r)

Next == (\E w \in Writer : Write(w)) \/ (\E r \in Reader : Read(r))

Spec == Init /\ [][Next]_vars

\* Every thread that has begun an operation keeps running.  A reader that is
\* idle in the middle of readOperation runs as well.
Fairness ==
    /\ \A w \in Writer : WF_vars(pc[w] # "idle" /\ Write(w))
    /\ \A r \in Reader : WF_vars(Read(r))

FairSpec == Spec /\ Fairness

-----------------------------------------------------------------------------
(* Properties *)

\* The variables have their types: the lock word and every value compared with
\* it are counters of its width.
TypeOK ==
    /\ lockword \in Counter
    /\ data \in [Word -> Nat]
    /\ pc \in [Thread -> Label]
    /\ current \in [Writer -> Counter]
    /\ cookie \in [Reader -> Counter]
    /\ todo \in [Thread -> SUBSET Word]
    /\ word \in [Writer -> Word \cup {Nothing}]
    /\ loaded \in [Writer -> Nat]
    /\ copy \in [Reader -> [Word -> Nat]]
    /\ commits \in Nat

\* Two writers are never both between acquire and release, although each may
\* have found the counter even before the other made it odd.
WriterExclusion ==
    \A v, w \in Writer : pc[v] \in Writing /\ pc[w] \in Writing => v = w

\* No increment of a word is lost: with no writer inside, every word has been
\* incremented once by every completed write operation.
NoLostUpdate ==
    (\A w \in Writer : pc[w] \notin Writing) => \A i \in Word : data[i] = commits

\* The words of a validated read all come from the same write operation.
ReadsAreSnapshots ==
    \A r \in Reader : pc[r] = "returned" =>
        \A i, j \in Word : copy[r][i] = copy[r][j]

\* What readOperation has returned to each reader.
Results == [r \in Reader |-> IF pc[r] = "returned" THEN copy[r] ELSE Nothing]

\* The lock makes the data an atomic register: a validated read returns the
\* value that is current when the read is validated.
Register == INSTANCE SnapshotRegister WITH value <- commits, result <- Results

ImplementsRegister == Register!RegisterSpec

\* readOperation returns once the writers are done: a retry only follows a write.
ReadersReturn == \A r \in Reader : pc[r] = "read" ~> pc[r] = "returned"

\* A writer that wants the lock gets it.
WritersAcquire == \A w \in Writer : pc[w] = "acquire" ~> pc[w] \in Writing
=============================================================================
