-------------------------- MODULE Seqlock_proofs --------------------------
(***************************************************************************)
(* Proofs about the sequence lock, for any threads, words and counter.     *)
(*                                                                         *)
(* WInv is what the writers keep true, wrap-around of the counter          *)
(* included.  RInv is what the readers rely on, under NoWrapAround: the    *)
(* counter is then twice the number of writes, so a cookie that is still   *)
(* current proves that there has been no write since it was taken.         *)
(***************************************************************************)
EXTENDS Seqlock, FiniteSetTheorems, TLAPS

\* The counter is odd exactly while somebody writes.
OddWhileWriting == IsOdd(lockword) <=> \E w \in Writer : pc[w] \in Writing

\* A writer never tries to begin from an odd value.
ExpectsEven == \A w \in Writer : pc[w] = "acquire" => ~IsOdd(current[w])

\* The writer has incremented the words it is done with, and no other; the
\* word it has loaded is not among those still to do.
IncrementedSoFar ==
    \A w \in Writer :
        /\ pc[w] \in Writing => \A i \in Word :
              data[i] = IF i \in todo[w] \/ (pc[w] = "store" /\ word[w] = i)
                        THEN commits ELSE commits + 1
        /\ pc[w] = "store" =>
              word[w] \in Word \ todo[w] /\ loaded[w] = commits

WInv ==
    /\ TypeOK
    /\ WriterExclusion
    /\ OddWhileWriting
    /\ ExpectsEven
    /\ IncrementedSoFar
    /\ NoLostUpdate

-----------------------------------------------------------------------------
(* Every step preserves WInv: one lemma per action. *)

USE SeqlockAssumption DEF Thread, Counter, Label, Writing, Goto, readerVars,
    writerVars

\* The counter changes its parity with every increment, the last one included.
LEMMA IncrementFlips ==
    ASSUME NEW n \in Counter
    PROVE  Increment(n) \in Counter /\ (IsOdd(Increment(n)) <=> ~IsOdd(n))
BY DEF Increment, IsOdd

LEMMA ZeroIsEven == ~IsOdd(0)
BY DEF IsOdd

\* A writer that begins expects 0, which is even.
LEMMA BeginWriteKeeps ==
    ASSUME WInv, NEW w \in Writer, BeginWrite(w)
    PROVE  WInv'
<1> USE DEF BeginWrite, WInv
<1>1. TypeOK'
  BY DEF TypeOK
<1>2. WriterExclusion'
  BY DEF TypeOK, WriterExclusion
<1>3. OddWhileWriting'
  BY DEF TypeOK, WriterExclusion, OddWhileWriting
<1>4. ExpectsEven'
  BY ZeroIsEven DEF TypeOK, ExpectsEven
<1>5. IncrementedSoFar'
  BY DEF TypeOK, WriterExclusion, IncrementedSoFar
<1>6. NoLostUpdate'
  BY DEF TypeOK, NoLostUpdate
<1> QED
  BY <1>1, <1>2, <1>3, <1>4, <1>5, <1>6 DEF WInv

\* The counter was even, so nobody was writing.
LEMMA WriteAcquireKeeps ==
    ASSUME WInv, NEW w \in Writer, WriteAcquire(w)
    PROVE  WInv'
<1> USE DEF WriteAcquire, WInv
<1>1. TypeOK'
  BY IncrementFlips DEF TypeOK
<1>2. WriterExclusion'
  BY DEF TypeOK, WriterExclusion, OddWhileWriting, ExpectsEven
<1>3. OddWhileWriting'
  BY IncrementFlips DEF TypeOK, WriterExclusion, OddWhileWriting, ExpectsEven
<1>4. ExpectsEven'
  BY DEF TypeOK, ExpectsEven
<1>5. IncrementedSoFar'
  BY DEF TypeOK, WriterExclusion, IncrementedSoFar, OddWhileWriting,
     ExpectsEven, NoLostUpdate
<1>6. NoLostUpdate'
  BY DEF TypeOK, NoLostUpdate
<1> QED
  BY <1>1, <1>2, <1>3, <1>4, <1>5, <1>6 DEF WInv

\* A failed compare-exchange leaves the counter and the data alone.
LEMMA WriteAcquireFailsKeeps ==
    ASSUME WInv, NEW w \in Writer, WriteAcquireFails(w)
    PROVE  WInv'
<1> USE DEF WriteAcquireFails, WInv
<1>1. TypeOK'
  BY DEF TypeOK
<1>2. WriterExclusion'
  BY DEF TypeOK, WriterExclusion
<1>3. OddWhileWriting'
  BY DEF TypeOK, WriterExclusion, OddWhileWriting
<1>4. ExpectsEven'
  BY DEF TypeOK, ExpectsEven
<1>5. IncrementedSoFar'
  BY DEF TypeOK, WriterExclusion, IncrementedSoFar
<1>6. NoLostUpdate'
  BY DEF TypeOK, NoLostUpdate
<1> QED
  BY <1>1, <1>2, <1>3, <1>4, <1>5, <1>6 DEF WInv

\* A writer leaves the spin with an even value to expect.
LEMMA SpinEndsKeeps ==
    ASSUME WInv, NEW w \in Writer, SpinEnds(w)
    PROVE  WInv'
<1> USE DEF SpinEnds, WInv
<1>1. TypeOK'
  BY DEF TypeOK
<1>2. WriterExclusion'
  BY DEF TypeOK, WriterExclusion
<1>3. OddWhileWriting'
  BY DEF TypeOK, WriterExclusion, OddWhileWriting
<1>4. ExpectsEven'
  BY DEF TypeOK, ExpectsEven
<1>5. IncrementedSoFar'
  BY DEF TypeOK, WriterExclusion, IncrementedSoFar
<1>6. NoLostUpdate'
  BY DEF TypeOK, NoLostUpdate
<1> QED
  BY <1>1, <1>2, <1>3, <1>4, <1>5, <1>6 DEF WInv

\* A word is loaded before it has been incremented.
LEMMA LoadWordKeeps ==
    ASSUME WInv, NEW w \in Writer, LoadWord(w)
    PROVE  WInv'
<1> USE DEF LoadWord, WInv
<1>1. TypeOK'
  BY DEF TypeOK
<1>2. WriterExclusion'
  BY DEF TypeOK, WriterExclusion
<1>3. OddWhileWriting'
  BY DEF TypeOK, WriterExclusion, OddWhileWriting
<1>4. ExpectsEven'
  BY DEF TypeOK, ExpectsEven
<1>5. IncrementedSoFar'
  BY DEF TypeOK, WriterExclusion, IncrementedSoFar
<1>6. NoLostUpdate'
  BY DEF TypeOK, NoLostUpdate
<1> QED
  BY <1>1, <1>2, <1>3, <1>4, <1>5, <1>6 DEF WInv

\* The loaded word is the only one the store changes.
LEMMA StoreWordKeeps ==
    ASSUME WInv, NEW w \in Writer, StoreWord(w)
    PROVE  WInv'
<1> USE DEF StoreWord, WInv
<1>1. TypeOK'
  BY DEF TypeOK, IncrementedSoFar
<1>2. WriterExclusion'
  BY DEF TypeOK, WriterExclusion
<1>3. OddWhileWriting'
  BY DEF TypeOK, WriterExclusion, OddWhileWriting
<1>4. ExpectsEven'
  BY DEF TypeOK, ExpectsEven
<1>5. IncrementedSoFar'
  BY DEF TypeOK, WriterExclusion, IncrementedSoFar
<1>6. NoLostUpdate'
  BY DEF TypeOK, NoLostUpdate
<1> QED
  BY <1>1, <1>2, <1>3, <1>4, <1>5, <1>6 DEF WInv

\* All words are incremented when the counter becomes even again.
LEMMA WriteReleaseKeeps ==
    ASSUME WInv, NEW w \in Writer, WriteRelease(w)
    PROVE  WInv'
<1> USE DEF WriteRelease, WInv
<1>1. TypeOK'
  BY IncrementFlips DEF TypeOK
<1>2. WriterExclusion'
  BY DEF TypeOK, WriterExclusion
<1>3. OddWhileWriting'
  BY IncrementFlips DEF TypeOK, WriterExclusion, OddWhileWriting
<1>4. ExpectsEven'
  BY DEF TypeOK, ExpectsEven
<1>5. IncrementedSoFar'
  BY DEF TypeOK, WriterExclusion, IncrementedSoFar
<1>6. NoLostUpdate'
  BY DEF TypeOK, NoLostUpdate, WriterExclusion, IncrementedSoFar
<1> QED
  BY <1>1, <1>2, <1>3, <1>4, <1>5, <1>6 DEF WInv

\* A reader changes nothing that the writers use.
LEMMA ReadKeeps ==
    ASSUME WInv, NEW r \in Reader, Read(r)
    PROVE  WInv'
<1> USE DEF WInv, Read, ReadAcquire, ReadWord, ReadReturns, ReadRetries, ResultIsUsed
<1>1. TypeOK'
  <2>1. CASE ReadWord(r)
    BY <2>1 DEF TypeOK
  <2>2. CASE ReadAcquire(r)
    BY <2>2 DEF TypeOK
  <2>3. CASE ReadReturns(r) \/ ReadRetries(r) \/ ResultIsUsed(r)
    BY <2>3 DEF TypeOK
  <2> HIDE DEF ReadAcquire, ReadWord, ReadReturns, ReadRetries, ResultIsUsed
  <2> QED
    BY <2>1, <2>2, <2>3
<1>2. UNCHANGED <<lockword, data, writerVars>>
  OBVIOUS
<1>3. \A w \in Writer : pc'[w] = pc[w] /\ todo'[w] = todo[w]
  BY DEF TypeOK
<1> HIDE DEF Read, WInv
<1> QED
  BY <1>1, <1>2, <1>3 DEF WInv, WriterExclusion, OddWhileWriting, ExpectsEven,
     IncrementedSoFar, NoLostUpdate

LEMMA InitEstablishesWInv == Init => WInv
BY ZeroIsEven DEF Init, WInv, TypeOK, WriterExclusion, OddWhileWriting,
   ExpectsEven,
   IncrementedSoFar, NoLostUpdate

LEMMA NextKeepsWInv == WInv /\ [Next]_vars => WInv'
<1> SUFFICES ASSUME WInv, [Next]_vars
             PROVE  WInv'
  OBVIOUS
<1>1. CASE UNCHANGED vars
  BY <1>1 DEF vars, WInv, TypeOK, WriterExclusion, OddWhileWriting, ExpectsEven,
     IncrementedSoFar, NoLostUpdate
<1>2. ASSUME NEW w \in Writer, Write(w) PROVE WInv'
  BY <1>2, BeginWriteKeeps, WriteAcquireKeeps, WriteAcquireFailsKeeps,
     SpinEndsKeeps, LoadWordKeeps, StoreWordKeeps, WriteReleaseKeeps DEF Write
<1>3. ASSUME NEW r \in Reader, Read(r) PROVE WInv'
  BY <1>3, ReadKeeps
<1> QED
  BY <1>1, <1>2, <1>3 DEF Next

\* WInv holds in every state, whether the counter wraps or not.
THEOREM SeqlockInvariance == Spec => []WInv
BY InitEstablishesWInv, NextKeepsWInv, PTL DEF Spec

\* Two writers are never between SeqlockWriteAcquire and SeqlockWriteRelease at
\* the same time, for any number of threads, and when the counter wraps too.
THEOREM SeqlockWriterExclusion == Spec => []WriterExclusion
<1>1. WInv => WriterExclusion
  BY DEF WInv
<1> QED
  BY <1>1, SeqlockInvariance, PTL

\* With no writer inside, every completed write operation has incremented every
\* word of the data once.
THEOREM SeqlockNoLostUpdate == Spec => []NoLostUpdate
<1>1. WInv => NoLostUpdate
  BY DEF WInv
<1> QED
  BY <1>1, SeqlockInvariance, PTL

\* The sequence, the cookies and the words read keep their types: the counter
\* stays below its modulus however often it wraps.
THEOREM SeqlockTypeCorrect == Spec => []TypeOK
<1>1. WInv => TypeOK
  BY DEF WInv
<1> QED
  BY <1>1, SeqlockInvariance, PTL

-----------------------------------------------------------------------------
(* What the readers rely on *)

WritesAreBounded ==
    IsFiniteSet(Active) /\ commits + Cardinality(Active) <= MaxWrites

CounterIsTwiceTheWrites ==
    lockword = 2 * commits + (IF \E w \in Writer : pc[w] \in Writing THEN 1 ELSE 0)

CookiesArePast == \A r \in Reader : pc[r] = "read" => cookie[r] <= lockword

\* What has been read under a cookie that is still valid is still current.
ValidReadsAreCurrent ==
    \A r \in Reader : pc[r] = "read" /\ ReadValid(r) =>
        \A i \in Word \ todo[r] : copy[r][i] = commits

RInv ==
    /\ WritesAreBounded
    /\ CounterIsTwiceTheWrites
    /\ CookiesArePast
    /\ ValidReadsAreCurrent
    /\ ReadsAreSnapshots

\* A write operation that has begun is within the bound.
LEMMA RoomForAWrite ==
    ASSUME NoWrapAround, TypeOK, WritesAreBounded, NEW w \in Writer, pc[w] # "idle"
    PROVE  2 * commits + 1 < Modulus - 1
<1>1. w \in Active
  BY DEF Active
<1>2. Cardinality(Active) > 0
  BY <1>1, FS_EmptySet, FS_CardinalityType DEF WritesAreBounded
<1>3. Modulus # 2 * commits + 2
  BY <1>2, FS_CardinalityType DEF WritesAreBounded, NoWrapAround, TypeOK
<1> QED
  BY <1>2, <1>3, FS_CardinalityType DEF WritesAreBounded, NoWrapAround, TypeOK

LEMMA IncrementIsPlusOne ==
    ASSUME NEW n \in Counter, n < Modulus - 1
    PROVE  Increment(n) = n + 1
BY DEF Increment

\* The bound on the writes is checked before an operation begins.
LEMMA BeginWriteKeepsReads ==
    ASSUME NoWrapAround, WInv, RInv, NEW w \in Writer, BeginWrite(w)
    PROVE  RInv'
<1> USE DEF BeginWrite, WInv, RInv
<1>1. WritesAreBounded'
  <2>1. Active' = Active \cup {w} /\ w \notin Active
    BY DEF TypeOK, Active
  <2>2. IsFiniteSet(Active') /\ Cardinality(Active') = Cardinality(Active) + 1
    BY <2>1, FS_AddElement DEF WritesAreBounded
  <2>3. commits' = commits /\ Cardinality(Active) \in Nat
    BY FS_CardinalityType DEF WritesAreBounded
  <2> QED
    BY <2>2, <2>3 DEF TypeOK, WritesAreBounded
<1>2. CounterIsTwiceTheWrites'
  BY DEF TypeOK, CounterIsTwiceTheWrites
<1>3. CookiesArePast'
  BY DEF TypeOK, CookiesArePast
<1>4. ValidReadsAreCurrent'
  BY DEF TypeOK, ValidReadsAreCurrent, ReadValid
<1>5. ReadsAreSnapshots'
  BY DEF TypeOK, ReadsAreSnapshots
<1> QED
  BY <1>1, <1>2, <1>3, <1>4, <1>5 DEF RInv

\* The counter moves on: every cookie is now in the past.
LEMMA WriteAcquireKeepsReads ==
    ASSUME NoWrapAround, WInv, RInv, NEW w \in Writer, WriteAcquire(w)
    PROVE  RInv'
<1> USE DEF WriteAcquire, WInv, RInv
<1>1. WritesAreBounded'
  <2>1. Active' = Active
    BY DEF TypeOK, Active
  <2> QED
    BY <2>1 DEF WritesAreBounded
<1>2. CounterIsTwiceTheWrites'
  <2>1. ~ \E v \in Writer : pc[v] \in Writing
    BY DEF OddWhileWriting, ExpectsEven
  <2>2. \E v \in Writer : pc'[v] \in Writing
    BY DEF TypeOK
  <2>3. lockword = 2 * commits
    BY <2>1 DEF CounterIsTwiceTheWrites, TypeOK
  <2>4. lockword' = lockword + 1
    BY <2>3, RoomForAWrite, IncrementIsPlusOne DEF TypeOK
  <2> QED
    BY <2>2, <2>3, <2>4 DEF CounterIsTwiceTheWrites
<1>3. CookiesArePast'
  BY RoomForAWrite, IncrementIsPlusOne DEF TypeOK, CookiesArePast,
     CounterIsTwiceTheWrites
<1>4. ValidReadsAreCurrent'
  BY RoomForAWrite, IncrementIsPlusOne DEF TypeOK, ValidReadsAreCurrent,
     ReadValid, CookiesArePast, CounterIsTwiceTheWrites
<1>5. ReadsAreSnapshots'
  BY DEF TypeOK, ReadsAreSnapshots
<1> QED
  BY <1>1, <1>2, <1>3, <1>4, <1>5 DEF RInv

\* The counter is odd, so no read is valid.
LEMMA StoreWordKeepsReads ==
    ASSUME NoWrapAround, WInv, RInv, NEW w \in Writer, StoreWord(w)
    PROVE  RInv'
<1> USE DEF StoreWord, WInv, RInv
<1>1. WritesAreBounded'
  <2>1. Active' = Active
    BY DEF TypeOK, Active
  <2> QED
    BY <2>1 DEF WritesAreBounded
<1>2. CounterIsTwiceTheWrites'
  BY DEF TypeOK, CounterIsTwiceTheWrites
<1>3. CookiesArePast'
  BY DEF TypeOK, CookiesArePast
<1>4. ValidReadsAreCurrent'
  BY DEF TypeOK, ValidReadsAreCurrent, ReadValid, OddWhileWriting
<1>5. ReadsAreSnapshots'
  BY DEF TypeOK, ReadsAreSnapshots
<1> QED
  BY <1>1, <1>2, <1>3, <1>4, <1>5 DEF RInv

\* The counter is even again, but later than any cookie.
LEMMA WriteReleaseKeepsReads ==
    ASSUME NoWrapAround, WInv, RInv, NEW w \in Writer, WriteRelease(w)
    PROVE  RInv'
<1> USE DEF WriteRelease, WInv, RInv
<1>1. WritesAreBounded'
  <2>1. Active' = Active \ {w} /\ w \in Active
    BY DEF TypeOK, Active
  <2>2. IsFiniteSet(Active') /\ Cardinality(Active') = Cardinality(Active) - 1
    BY <2>1, FS_RemoveElement DEF WritesAreBounded
  <2>3. commits' = commits + 1 /\ Cardinality(Active) \in Nat
    BY FS_CardinalityType DEF WritesAreBounded
  <2> QED
    BY <2>2, <2>3 DEF TypeOK, WritesAreBounded
<1>2. CounterIsTwiceTheWrites'
  <2>1. \E v \in Writer : pc[v] \in Writing
    OBVIOUS
  <2>2. ~ \E v \in Writer : pc'[v] \in Writing
    BY DEF TypeOK, WriterExclusion
  <2>3. lockword = 2 * commits + 1
    BY <2>1 DEF CounterIsTwiceTheWrites
  <2>4. lockword' = lockword + 1
    BY <2>3, RoomForAWrite, IncrementIsPlusOne DEF TypeOK
  <2>5. lockword' = 2 * commits' + 0
    BY <2>3, <2>4 DEF TypeOK
  <2> QED
    BY <2>2, <2>5 DEF CounterIsTwiceTheWrites
<1>3. CookiesArePast'
  BY RoomForAWrite, IncrementIsPlusOne DEF TypeOK, CookiesArePast,
     CounterIsTwiceTheWrites
<1>4. ValidReadsAreCurrent'
  BY RoomForAWrite, IncrementIsPlusOne DEF TypeOK, ValidReadsAreCurrent,
     ReadValid, CookiesArePast, CounterIsTwiceTheWrites
<1>5. ReadsAreSnapshots'
  BY DEF TypeOK, ReadsAreSnapshots
<1> QED
  BY <1>1, <1>2, <1>3, <1>4, <1>5 DEF RInv

\* A new cookie is the counter itself, and nothing is read yet.
LEMMA ReadAcquireKeepsReads ==
    ASSUME NoWrapAround, WInv, RInv, NEW r \in Reader, ReadAcquire(r)
    PROVE  RInv'
<1> USE DEF ReadAcquire, WInv, RInv
<1>1. WritesAreBounded'
  <2>1. Active' = Active
    BY DEF TypeOK, Active
  <2> QED
    BY <2>1 DEF WritesAreBounded
<1>2. CounterIsTwiceTheWrites'
  BY DEF TypeOK, CounterIsTwiceTheWrites
<1>3. CookiesArePast'
  BY DEF TypeOK, CookiesArePast
<1>4. ValidReadsAreCurrent'
  BY DEF TypeOK, ValidReadsAreCurrent, ReadValid
<1>5. ReadsAreSnapshots'
  BY DEF TypeOK, ReadsAreSnapshots
<1> QED
  BY <1>1, <1>2, <1>3, <1>4, <1>5 DEF RInv

\* While the read is still valid nobody writes, so the word read is current.
LEMMA ReadWordKeepsReads ==
    ASSUME NoWrapAround, WInv, RInv, NEW r \in Reader, ReadWord(r)
    PROVE  RInv'
<1> USE DEF ReadWord, WInv, RInv
<1>1. WritesAreBounded'
  <2>1. Active' = Active
    BY DEF TypeOK, Active
  <2> QED
    BY <2>1 DEF WritesAreBounded
<1>2. CounterIsTwiceTheWrites'
  BY DEF TypeOK, CounterIsTwiceTheWrites
<1>3. CookiesArePast'
  BY DEF TypeOK, CookiesArePast
<1>4. ValidReadsAreCurrent'
  BY DEF TypeOK, ValidReadsAreCurrent, ReadValid, OddWhileWriting, NoLostUpdate
<1>5. ReadsAreSnapshots'
  BY DEF TypeOK, ReadsAreSnapshots
<1> QED
  BY <1>1, <1>2, <1>3, <1>4, <1>5 DEF RInv

\* All words of a valid read are current.
LEMMA ReadReturnsKeepsReads ==
    ASSUME NoWrapAround, WInv, RInv, NEW r \in Reader, ReadReturns(r)
    PROVE  RInv'
<1> USE DEF ReadReturns, WInv, RInv
<1>1. WritesAreBounded'
  <2>1. Active' = Active
    BY DEF TypeOK, Active
  <2> QED
    BY <2>1 DEF WritesAreBounded
<1>2. CounterIsTwiceTheWrites'
  BY DEF TypeOK, CounterIsTwiceTheWrites
<1>3. CookiesArePast'
  BY DEF TypeOK, CookiesArePast
<1>4. ValidReadsAreCurrent'
  BY DEF TypeOK, ValidReadsAreCurrent, ReadValid
<1>5. ReadsAreSnapshots'
  BY DEF TypeOK, ReadsAreSnapshots, ValidReadsAreCurrent
<1> QED
  BY <1>1, <1>2, <1>3, <1>4, <1>5 DEF RInv

\* A read that is not valid is forgotten.
LEMMA ReadRetriesKeepsReads ==
    ASSUME NoWrapAround, WInv, RInv, NEW r \in Reader, ReadRetries(r)
    PROVE  RInv'
<1> USE DEF ReadRetries, WInv, RInv
<1>1. WritesAreBounded'
  <2>1. Active' = Active
    BY DEF TypeOK, Active
  <2> QED
    BY <2>1 DEF WritesAreBounded
<1>2. CounterIsTwiceTheWrites'
  BY DEF TypeOK, CounterIsTwiceTheWrites
<1>3. CookiesArePast'
  BY DEF TypeOK, CookiesArePast
<1>4. ValidReadsAreCurrent'
  BY DEF TypeOK, ValidReadsAreCurrent, ReadValid
<1>5. ReadsAreSnapshots'
  BY DEF TypeOK, ReadsAreSnapshots
<1> QED
  BY <1>1, <1>2, <1>3, <1>4, <1>5 DEF RInv

\* The reader is idle.
LEMMA ResultIsUsedKeepsReads ==
    ASSUME NoWrapAround, WInv, RInv, NEW r \in Reader, ResultIsUsed(r)
    PROVE  RInv'
<1> USE DEF ResultIsUsed, WInv, RInv
<1>1. WritesAreBounded'
  <2>1. Active' = Active
    BY DEF TypeOK, Active
  <2> QED
    BY <2>1 DEF WritesAreBounded
<1>2. CounterIsTwiceTheWrites'
  BY DEF TypeOK, CounterIsTwiceTheWrites
<1>3. CookiesArePast'
  BY DEF TypeOK, CookiesArePast
<1>4. ValidReadsAreCurrent'
  BY DEF TypeOK, ValidReadsAreCurrent, ReadValid
<1>5. ReadsAreSnapshots'
  BY DEF TypeOK, ReadsAreSnapshots
<1> QED
  BY <1>1, <1>2, <1>3, <1>4, <1>5 DEF RInv

\* The other steps of a writer change nothing that a reader uses.
LEMMA QuietWriteKeepsReads ==
    ASSUME WInv, RInv, NEW w \in Writer,
           WriteAcquireFails(w) \/ SpinEnds(w) \/ LoadWord(w)
    PROVE  RInv'
<1> USE DEF WInv, RInv, WriteAcquireFails, SpinEnds, LoadWord
<1>1. Active' = Active
  BY DEF TypeOK, Active
<1>2. UNCHANGED <<lockword, data, commits, readerVars>>
  OBVIOUS
<1>3. \A v \in Writer : pc'[v] \in Writing <=> pc[v] \in Writing
  BY DEF TypeOK
<1>4. \A r \in Reader : pc'[r] = pc[r] /\ todo'[r] = todo[r]
  BY DEF TypeOK
<1> HIDE DEF WInv, WriteAcquireFails, SpinEnds, LoadWord
<1> QED
  BY <1>1, <1>2, <1>3, <1>4 DEF WritesAreBounded, CounterIsTwiceTheWrites,
     CookiesArePast, ValidReadsAreCurrent, ReadValid, ReadsAreSnapshots

LEMMA InitEstablishesRInv == Init => RInv
<1> SUFFICES ASSUME Init PROVE RInv
  OBVIOUS
<1>1. Active = {}
  BY DEF Init, Active
<1>2. WritesAreBounded
  BY <1>1, FS_EmptySet DEF Init, WritesAreBounded
<1> QED
  BY <1>2 DEF Init, RInv, CounterIsTwiceTheWrites, CookiesArePast,
     ValidReadsAreCurrent, ReadsAreSnapshots

LEMMA NextKeepsRInv == NoWrapAround /\ WInv /\ RInv /\ [Next]_vars => RInv'
<1> SUFFICES ASSUME NoWrapAround, WInv, RInv, [Next]_vars
             PROVE  RInv'
  OBVIOUS
<1>1. CASE UNCHANGED vars
  <2>1. Active' = Active
    BY <1>1 DEF vars, Active
  <2> QED
    BY <1>1, <2>1 DEF vars, RInv, WritesAreBounded, CounterIsTwiceTheWrites,
       CookiesArePast, ValidReadsAreCurrent, ReadValid, ReadsAreSnapshots
<1>2. ASSUME NEW w \in Writer, Write(w) PROVE RInv'
  BY <1>2, BeginWriteKeepsReads, WriteAcquireKeepsReads, StoreWordKeepsReads,
     WriteReleaseKeepsReads, QuietWriteKeepsReads DEF Write
<1>3. ASSUME NEW r \in Reader, Read(r) PROVE RInv'
  BY <1>3, ReadAcquireKeepsReads, ReadWordKeepsReads, ReadReturnsKeepsReads,
     ReadRetriesKeepsReads, ResultIsUsedKeepsReads DEF Read
<1> QED
  BY <1>1, <1>2, <1>3 DEF Next

\* Without wrap-around, the counter and the cookies tell which reads are valid.
THEOREM SeqlockReadInvariance ==
    ASSUME NoWrapAround
    PROVE  Spec => []RInv
BY InitEstablishesRInv, NextKeepsRInv, SeqlockInvariance, PTL DEF Spec

\* The words of a read that SeqlockReadValid accepts come from one and the same
\* write operation, for any number of words and threads, if the counter does not
\* wrap within the run.
THEOREM SeqlockReadsAreSnapshots ==
    ASSUME NoWrapAround
    PROVE  Spec => []ReadsAreSnapshots
<1>1. RInv => ReadsAreSnapshots
  BY DEF RInv
<1> QED
  BY <1>1, SeqlockReadInvariance, PTL

\* The results of the readers change only when a read returns or is used.
LEMMA ResultsUnchanged ==
    ASSUME \A r \in Reader : pc'[r] = "returned" <=> pc[r] = "returned",
           \A r \in Reader : pc[r] = "returned" => copy'[r] = copy[r]
    PROVE  Results' = Results
BY DEF Results

LEMMA WriteStep ==
    ASSUME WInv, NEW w \in Writer, Write(w)
    PROVE  [Register!RegisterNext]_(Register!registerVars)
<1> USE DEF WInv, TypeOK
<1>1. Results' = Results
  BY ResultsUnchanged, SMTT(30) DEF Write, BeginWrite, WriteAcquire,
     WriteAcquireFails,
     SpinEnds, LoadWord, StoreWord, WriteRelease
<1>2. commits' = commits \/ commits' = commits + 1
  BY DEF Write, BeginWrite, WriteAcquire, WriteAcquireFails, SpinEnds, LoadWord,
     StoreWord, WriteRelease
<1> QED
  BY <1>1, <1>2 DEF Register!RegisterNext, Register!Update,
     Register!registerVars

LEMMA ReadStep ==
    ASSUME WInv, RInv, NEW r \in Reader, Read(r)
    PROVE  [Register!RegisterNext]_(Register!registerVars)
<1> USE DEF WInv, TypeOK
<1>1. CASE ReadReturns(r)
  <2>1. \A i \in Word : copy[r][i] = commits
    BY <1>1 DEF ReadReturns, RInv, ValidReadsAreCurrent
  <2>2. copy[r] = [i \in Word |-> commits]
    BY <2>1
  <2>3. Results' = [Results EXCEPT ![r] = [i \in Word |-> commits]]
    BY <1>1, <2>2 DEF ReadReturns, Results
  <2>4. commits' = commits
    BY <1>1 DEF ReadReturns
  <2> QED
    BY <2>3, <2>4 DEF Register!RegisterNext, Register!ReadReturns
<1>2. CASE ResultIsUsed(r)
  <2>1. Results' = [Results EXCEPT ![r] = Nothing]
    BY <1>2 DEF ResultIsUsed, Results
  <2>2. commits' = commits
    BY <1>2 DEF ResultIsUsed
  <2> QED
    BY <2>1, <2>2 DEF Register!RegisterNext, Register!ResultIsDropped
<1>3. CASE ReadAcquire(r) \/ ReadWord(r) \/ ReadRetries(r)
  <2>1. Results' = Results
    BY <1>3, ResultsUnchanged DEF ReadAcquire, ReadWord, ReadRetries
  <2>2. commits' = commits
    BY <1>3 DEF ReadAcquire, ReadWord, ReadRetries
  <2> QED
    BY <2>1, <2>2 DEF Register!registerVars
<1> QED
  BY <1>1, <1>2, <1>3 DEF Read

\* The data behind the sequence lock is an atomic register: a write operation
\* takes effect when it releases, a read when it is validated.
THEOREM SeqlockImplementsRegister ==
    ASSUME NoWrapAround
    PROVE  Spec => ImplementsRegister
<1>1. Init => Register!RegisterInit
  BY DEF Init, Results, Register!RegisterInit
<1>2. WInv /\ RInv /\ [Next]_vars => [Register!RegisterNext]_(Register!registerVars)
  <2> SUFFICES ASSUME WInv, RInv, [Next]_vars
               PROVE  [Register!RegisterNext]_(Register!registerVars)
    OBVIOUS
  <2>1. CASE UNCHANGED vars
    <3>1. Results' = Results
      BY <2>1, ResultsUnchanged DEF vars
    <3> QED
      BY <2>1, <3>1 DEF vars, Register!registerVars
  <2>2. CASE Next
    BY <2>2, WriteStep, ReadStep DEF Next
  <2> QED
    BY <2>1, <2>2
<1> QED
  BY <1>1, <1>2, SeqlockInvariance, SeqlockReadInvariance, PTL
     DEF Spec, ImplementsRegister, Register!RegisterSpec
=============================================================================
