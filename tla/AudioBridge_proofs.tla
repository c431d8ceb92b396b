-------------------------- MODULE AudioBridge_proofs --------------------------
(***************************************************************************)
(* The audio ring is type correct and consistent, and it implements the    *)
(* bounded queue, for every ring size, chunk, set of chimes and number of  *)
(* player threads.                                                         *)
(***************************************************************************)
EXTENDS AudioBridge, TLAPS

\* A position that wraps at most once.
LEMMA WrapOnce ==
  ASSUME NEW n \in Nat \ {0}, NEW a \in 0 .. n - 1, NEW b \in 0 .. n
  PROVE  /\ (a + b) % n \in 0 .. n - 1
         /\ (a + b) % n = IF a + b < n THEN a + b ELSE a + b - n
  BY SMT

\* What a critical section of the ring is: nothing, a reset, a write or a read.
RingStep ==
  \/ initialize
  \/ shutdown
  \/ \E w \in Writers : writeSamples(writer[w].data)
  \/ readSamples
  \/ UNCHANGED ring

\* Every step of the system is one of these for the ring.
LEMMA NextIsRingStep == ASSUME TypeOK, Next PROVE RingStep
<1>1. CASE OnCreate
  BY <1>1 DEF OnCreate, RingStep
<1>2. CASE PlayChime
  BY <1>2 DEF PlayChime, PlayerStarts, RingStep
<1>3. CASE OnDestroy
  BY <1>3 DEF OnDestroy, RingStep
<1>4. CASE BootStarts
  BY <1>4 DEF BootStarts, RingStep
<1>5. CASE UiStep
  BY <1>5 DEF UiStep, StartPlayer, PlayerStarts, PlayerJoined, Shutdown, RingStep
<1>6. CASE BootInitializes
  BY <1>6 DEF BootInitializes, RingStep
<1>7. ASSUME NEW w \in Writers, WriterStep(w) PROVE RingStep
  BY <1>7 DEF WriterStep, ChimeBegins, ChimeRefused, ChimeGenerated, ChimeWrites, RingStep
<1>8. ASSUME NEW p \in Players, PlayerStep(p) PROVE RingStep
  BY <1>8 DEF PlayerStep, PlayerChecks, PlayerReads, PlayerTakes, PlayerPlays, PlayerWakes,
              RingStep
<1> QED
  BY <1>1, <1>2, <1>3, <1>4, <1>5, <1>6, <1>7, <1>8 DEF Next, Step

-----------------------------------------------------------------------------
(* Type correctness, the ring apart from the threads. *)

RingTypeOK ==
  /\ mRingBuffer \in [Cells -> Sample] /\ allocated \in BOOLEAN
  /\ mWritePos \in Cells /\ mReadPos \in Cells
  /\ mAvailableSamples \in 0 .. RingSize

\* A chime in a writer's hands is a sequence of samples, the empty one included.
LEMMA ChimeIsASequence ==
  ASSUME TypeOK, NEW w \in Writers
  PROVE  writer[w].data \in Seq(Sample)
<1>1. writer[w].data \in Chimes \cup {<<>>}
  BY DEF TypeOK
<1>2. <<>> \in Seq(Sample)
  OBVIOUS
<1> QED
  BY <1>1, <1>2, AudioAssumption

LEMMA RoomToWrite ==
  ASSUME RingTypeOK, NEW data \in Seq(Sample)
  PROVE  /\ ToWrite(data) \in 0 .. RingSize - mAvailableSamples
         /\ ToWrite(data) \in 0 .. Len(data)
BY AudioAssumption DEF RingTypeOK, ToWrite, Least

LEMMA EnoughToRead ==
  ASSUME RingTypeOK
  PROVE  ToRead \in 0 .. mAvailableSamples
BY AudioAssumption DEF RingTypeOK, ToRead, Least

LEMMA StoredType ==
  ASSUME RingTypeOK, NEW data \in Seq(Sample), NEW n \in 0 .. Len(data)
  PROVE  Stored(data, n) \in [Cells -> Sample]
<1> SUFFICES ASSUME NEW k \in Cells
             PROVE (IF Ahead(k) < n THEN data[Ahead(k) + 1] ELSE mRingBuffer[k]) \in Sample
  BY DEF Stored
<1>1. Ahead(k) \in Nat
  BY AudioAssumption DEF RingTypeOK, Ahead, Cells
<1> QED
  BY <1>1 DEF RingTypeOK

LEMMA RingTypeStep == ASSUME TypeOK, RingStep PROVE RingTypeOK'
<1> USE AudioAssumption
<1>0. RingTypeOK
  BY DEF TypeOK, RingTypeOK
<1>1. CASE initialize
  BY <1>1 DEF initialize, RingTypeOK, Cells
<1>2. CASE shutdown
  BY <1>2 DEF shutdown, RingTypeOK, Cells
<1>3. ASSUME NEW w \in Writers, writeSamples(writer[w].data) PROVE RingTypeOK'
  <2> DEFINE data == writer[w].data
             n    == ToWrite(data)
  <2>1. data \in Seq(Sample)
    BY ChimeIsASequence
  <2>2. n \in 0 .. RingSize - mAvailableSamples /\ n \in 0 .. Len(data)
    BY <1>0, <2>1, RoomToWrite
  <2>3. CASE UNCHANGED ring
    BY <1>0, <2>3 DEF ring, RingTypeOK
  <2>4. CASE /\ mRingBuffer' = Stored(data, n)
             /\ mWritePos' = (mWritePos + n) % RingSize
             /\ mAvailableSamples' = mAvailableSamples + n
             /\ UNCHANGED <<allocated, mReadPos>>
    <3>1. mRingBuffer' \in [Cells -> Sample]
      BY <1>0, <2>1, <2>2, <2>4, StoredType
    <3>2. mWritePos \in 0 .. RingSize - 1 /\ n \in 0 .. RingSize
      BY <1>0, <2>2 DEF RingTypeOK, Cells
    <3>3. mWritePos' \in Cells
      BY <2>4, <3>2, WrapOnce DEF Cells
    <3> QED
      BY <1>0, <2>2, <2>4, <3>1, <3>3 DEF RingTypeOK
  <2> QED
    BY <1>3, <2>3, <2>4 DEF writeSamples
<1>4. CASE readSamples
  <2>1. ToRead \in 0 .. mAvailableSamples
    BY <1>0, EnoughToRead
  <2>2. mReadPos' \in Cells
    BY <1>0, <1>4, <2>1, WrapOnce DEF readSamples, RingTypeOK, Cells
  <2> QED
    BY <1>0, <1>4, <2>1, <2>2 DEF readSamples, RingTypeOK
<1>5. CASE UNCHANGED ring
  BY <1>0, <1>5 DEF ring, RingTypeOK
<1> QED
  BY <1>1, <1>2, <1>3, <1>4, <1>5 DEF RingStep

\* The frame counters.
FramesTypeOK == mTotalFramesWritten \in Nat /\ mTotalFramesRead \in Nat

FramesStep ==
  \/ initialize
  \/ UNCHANGED frames
  \/ \E w \in Writers : writeSamples(writer[w].data)
  \/ readSamples

LEMMA FramesTypeStep == ASSUME TypeOK, FramesStep PROVE FramesTypeOK'
<1> USE AudioAssumption
<1>0. RingTypeOK /\ FramesTypeOK
  BY DEF TypeOK, RingTypeOK, FramesTypeOK
<1>1. CASE initialize
  BY <1>1 DEF initialize, FramesTypeOK
<1>2. CASE UNCHANGED frames
  BY <1>0, <1>2 DEF frames, FramesTypeOK
<1>3. ASSUME NEW w \in Writers, writeSamples(writer[w].data) PROVE FramesTypeOK'
  <2>1. writer[w].data \in Seq(Sample)
    BY ChimeIsASequence
  <2>2. ToWrite(writer[w].data) \in Nat
    BY <1>0, <2>1, RoomToWrite DEF RingTypeOK
  <2> QED
    BY <1>0, <1>3, <2>2 DEF writeSamples, frames, mChannels, FramesTypeOK
<1>4. CASE readSamples
  <2>1. ToRead \in Nat
    BY <1>0, EnoughToRead DEF RingTypeOK
  <2> QED
    BY <1>0, <1>4, <2>1 DEF readSamples, mChannels, FramesTypeOK
<1> QED
  BY <1>1, <1>2, <1>3, <1>4 DEF FramesStep

\* The threads: where they are, and what a writer holds.
ThreadsTypeOK ==
  /\ mIsRunning \in BOOLEAN /\ crashed \in BOOLEAN
  /\ ui \in {"idle", "start", "chime", "join", "shutdown"}
  /\ created \in BOOLEAN
  /\ boot \in {"none", "init", "chime"}
  /\ writer \in [Writers -> [pc : {"none", "generate", "lock"}, data : Chimes \cup {<<>>}]]
  /\ chimes \in Nat
  /\ playing \in BOOLEAN
  /\ player \in [Players -> [pc : {"none", "check", "read", "take", "play", "sleep"},
                             interrupted : BOOLEAN]]
  /\ current \subseteq Players

LEMMA CheckingThread ==
  [NoThread EXCEPT !.pc = "check"]
    \in [pc : {"none", "check", "read", "take", "play", "sleep"}, interrupted : BOOLEAN]
BY DEF NoThread

LEMMA TypeStep == ASSUME TypeOK, [Next]_vars PROVE TypeOK'
<1> USE DEF TypeOK, ThreadsTypeOK
<1>1. CASE UNCHANGED vars
  BY <1>1 DEF vars, ring, frames, callers, threads
<1>2. ASSUME FramesStep, RingStep, ThreadsTypeOK' PROVE TypeOK'
  BY <1>2, FramesTypeStep, RingTypeStep DEF FramesTypeOK, RingTypeOK
<1>3. ASSUME Next PROVE RingStep
  BY <1>3, NextIsRingStep
<1>4. CASE ~crashed /\ OnCreate
  BY <1>2, <1>3, <1>4 DEF Next, Step, OnCreate, initialize, threads, FramesStep
<1>5. ASSUME NEW next \in {"idle", "chime"}, PlayerStarts(next), Next PROVE TypeOK'
  <2>1. CASE PlayerStart
    <3>1. /\ ui' = next /\ playing' = TRUE
          /\ UNCHANGED <<ring, frames, mIsRunning, crashed, created, boot, writer, chimes>>
      BY <1>5, <2>1 DEF PlayerStarts, PlayerStart
    <3>2. PICK p \in Players : /\ player' = [player EXCEPT ![p] = [NoThread EXCEPT !.pc = "check"]]
                               /\ current' = {p}
      BY <2>1 DEF PlayerStart
    <3>3. player \in [Players -> [pc : {"none", "check", "read", "take", "play", "sleep"},
                                  interrupted : BOOLEAN]]
      OBVIOUS
    <3>4. player' \in [Players -> [pc : {"none", "check", "read", "take", "play", "sleep"},
                                   interrupted : BOOLEAN]]
      BY <3>2, <3>3, CheckingThread
    <3>5. ThreadsTypeOK'
      BY <3>1, <3>2, <3>4
    <3> QED
      BY <1>2, <1>3, <1>5, <3>1, <3>5 DEF FramesStep
  <2>2. CASE UNCHANGED threads
    BY <1>2, <1>3, <1>5, <2>2 DEF PlayerStarts, threads, FramesStep
  <2> QED
    BY <1>5, <2>1, <2>2 DEF PlayerStarts
<1>6. CASE ~crashed /\ PlayChime
  BY <1>5, <1>6 DEF Next, Step, PlayChime
<1>7. CASE ~crashed /\ OnDestroy
  BY <1>2, <1>3, <1>7 DEF Next, Step, OnDestroy, frames, FramesStep
<1>8. CASE ~crashed /\ BootStarts
  BY <1>2, <1>3, <1>8 DEF Next, Step, BootStarts, frames, threads, FramesStep
<1>9. CASE ~crashed /\ UiStep
  <2>1. CASE StartPlayer
    BY <1>5, <1>9, <2>1 DEF Next, Step, StartPlayer
  <2>2. CASE PlayerJoined
    BY <1>2, <1>3, <1>9, <2>2 DEF Next, Step, PlayerJoined, frames, FramesStep
  <2>3. CASE Shutdown
    BY <1>2, <1>3, <1>9, <2>3 DEF Next, Step, Shutdown, shutdown, threads, FramesStep
  <2> QED
    BY <1>9, <2>1, <2>2, <2>3 DEF UiStep
<1>10. CASE ~crashed /\ BootInitializes
  BY <1>2, <1>3, <1>10 DEF Next, Step, BootInitializes, initialize, threads, FramesStep
<1>11. ASSUME NEW w \in Writers, ~crashed, WriterStep(w) PROVE TypeOK'
  <2>0. Next
    BY <1>11 DEF Next, Step
  <2>1. CASE ChimeBegins(w)
    BY <1>2, <1>3, <2>0, <2>1 DEF ChimeBegins, frames, threads, FramesStep
  <2>2. CASE ChimeRefused(w)
    BY <1>2, <1>3, <2>0, <2>2 DEF ChimeRefused, Called, NoCall, frames, threads, FramesStep
  <2>3. CASE ChimeGenerated(w)
    BY <1>2, <1>3, <2>0, <2>3 DEF ChimeGenerated, frames, threads, FramesStep
  <2>4. CASE ChimeWrites(w)
    <3>1. crashed' \in BOOLEAN
      BY <2>4 DEF ChimeWrites, writeSamples
    <3> QED
      BY <1>2, <1>3, <2>0, <2>4, <3>1 DEF ChimeWrites, Called, NoCall, threads, FramesStep
  <2> QED
    BY <1>11, <2>1, <2>2, <2>3, <2>4 DEF WriterStep
<1>12. ASSUME NEW p \in Players, ~crashed, PlayerStep(p) PROVE TypeOK'
  <2>0. Next
    BY <1>12 DEF Next, Step
  <2>1. CASE PlayerTakes(p)
    BY <1>2, <1>3, <2>0, <2>1 DEF PlayerTakes, PlayerGoto, callers, FramesStep
  <2>2. CASE PlayerChecks(p)
    <3>1. CASE PlayerGoto(p, "read")
      BY <1>2, <1>3, <2>0, <2>2, <3>1 DEF PlayerChecks, PlayerGoto, frames, callers, FramesStep
    <3>2. CASE player' = [player EXCEPT ![p] = NoThread]
      BY <1>2, <1>3, <2>0, <2>2, <3>2 DEF PlayerChecks, NoThread, frames, callers, FramesStep
    <3> QED
      BY <2>2, <3>1, <3>2 DEF PlayerChecks
  <2>3. CASE PlayerReads(p)
    BY <1>2, <1>3, <2>0, <2>3 DEF PlayerReads, PlayerGoto, frames, callers, FramesStep
  <2>4. CASE PlayerPlays(p)
    BY <1>2, <1>3, <2>0, <2>4 DEF PlayerPlays, PlayerGoto, frames, callers, FramesStep
  <2>5. CASE PlayerWakes(p)
    <3>1. CASE PlayerGoto(p, "check")
      BY <1>2, <1>3, <2>0, <2>5, <3>1 DEF PlayerWakes, PlayerGoto, frames, callers, FramesStep
    <3>2. CASE player' = [player EXCEPT ![p] = NoThread]
      BY <1>2, <1>3, <2>0, <2>5, <3>2 DEF PlayerWakes, NoThread, frames, callers, FramesStep
    <3> QED
      BY <2>5, <3>1, <3>2 DEF PlayerWakes
  <2> QED
    BY <1>12, <2>1, <2>2, <2>3, <2>4, <2>5 DEF PlayerStep
<1> HIDE DEF TypeOK, ThreadsTypeOK
<1> QED
  BY <1>1, <1>4, <1>6, <1>7, <1>8, <1>9, <1>10, <1>11, <1>12 DEF Next, Step

LEMMA TypeInit == ASSUME Init PROVE TypeOK
<1>1. writer \in [Writers -> [pc : {"none", "generate", "lock"}, data : Chimes \cup {<<>>}]]
  BY DEF Init, NoCall
<1>2. player \in [Players -> [pc : {"none", "check", "read", "take", "play", "sleep"},
                             interrupted : BOOLEAN]]
  BY DEF Init, NoThread
<1>3. RingTypeOK
  <2>1. 0 \in Cells /\ 0 \in Sample /\ 0 \in 0 .. RingSize
    BY AudioAssumption DEF Cells
  <2>2. mRingBuffer \in [Cells -> Sample]
    BY <2>1 DEF Init
  <2> QED
    BY <2>1, <2>2 DEF Init, RingTypeOK
<1> QED
  BY <1>1, <1>2, <1>3 DEF Init, TypeOK, RingTypeOK

\* The variables keep their types: in particular both positions stay inside the ring and the
\* number of available samples never exceeds its size.
THEOREM TypeCorrect == Spec => []TypeOK
<1>1. Init => TypeOK
  BY TypeInit
<1>2. TypeOK /\ [Next]_vars => TypeOK'
  BY TypeStep
<1> QED
  BY <1>1, <1>2, PTL DEF Spec

-----------------------------------------------------------------------------
(* The positions and the count. *)

\* Adding to a wrapped position, and wrapping again, is adding before wrapping.
LEMMA WrapTwice ==
  ASSUME NEW n \in Nat \ {0}, NEW r \in 0 .. n - 1, NEW a \in 0 .. n, NEW b \in 0 .. n - a
  PROVE  /\ (((r + a) % n) + b) % n = (r + (a + b)) % n
         /\ (((r + b) % n) + a) % n = (r + (a + b)) % n
OBVIOUS

LEMMA ConsistentStep ==
  ASSUME TypeOK, RingConsistent, RingStep
  PROVE  RingConsistent'
<1> USE AudioAssumption
<1>0. RingTypeOK
  BY DEF TypeOK, RingTypeOK
<1>1. CASE initialize
  BY <1>1, WrapOnce DEF initialize, RingConsistent
<1>2. CASE shutdown
  BY <1>2, WrapOnce DEF shutdown, RingConsistent
<1>3. ASSUME NEW w \in Writers, writeSamples(writer[w].data) PROVE RingConsistent'
  <2> DEFINE n == ToWrite(writer[w].data)
  <2>1. n \in 0 .. RingSize - mAvailableSamples
    BY <1>0, ChimeIsASequence, RoomToWrite
  <2>2. CASE UNCHANGED ring
    BY <2>2 DEF ring, RingConsistent
  <2>3. CASE /\ n = 0 \/ allocated
             /\ mWritePos' = (mWritePos + n) % RingSize
             /\ mAvailableSamples' = mAvailableSamples + n
             /\ UNCHANGED <<allocated, mReadPos>>
    <3>1. mReadPos \in 0 .. RingSize - 1 /\ mAvailableSamples \in 0 .. RingSize
      BY <1>0 DEF RingTypeOK, Cells
    <3>2. mWritePos' = (mReadPos + (mAvailableSamples + n)) % RingSize
      BY <2>1, <2>3, <3>1, WrapTwice DEF RingConsistent
    <3>3. mAvailableSamples + n > 0 => allocated
      BY <2>1, <2>3, <3>1 DEF RingConsistent
    <3> QED
      BY <2>3, <3>2, <3>3 DEF RingConsistent
  <2> QED
    BY <1>3, <2>2, <2>3 DEF writeSamples
<1>4. CASE readSamples
  <2>1. ToRead \in 0 .. mAvailableSamples
    BY <1>0, EnoughToRead
  <2>2. /\ mReadPos \in 0 .. RingSize - 1 /\ mAvailableSamples - ToRead \in 0 .. RingSize
        /\ ToRead \in 0 .. RingSize - (mAvailableSamples - ToRead)
        /\ mAvailableSamples - ToRead + ToRead = mAvailableSamples
    BY <1>0, <2>1 DEF RingTypeOK, Cells
  <2>3. (((mReadPos + ToRead) % RingSize) + (mAvailableSamples - ToRead)) % RingSize
        = (mReadPos + mAvailableSamples) % RingSize
    BY <2>2, WrapTwice
  <2>4. mAvailableSamples - ToRead > 0 => mAvailableSamples > 0
    BY <1>0, <2>1 DEF RingTypeOK
  <2> QED
    BY <1>4, <2>3, <2>4 DEF readSamples, RingConsistent
<1>5. CASE UNCHANGED ring
  BY <1>5 DEF ring, RingConsistent
<1> QED
  BY <1>1, <1>2, <1>3, <1>4, <1>5 DEF RingStep

\* The positions, the count and the vector agree, whatever the order in which two writers,
\* the players, initialize() and shutdown() get the mutex.
THEOREM AlwaysConsistent == Spec => []RingConsistent
<1>1. Init => RingConsistent
  <2> SUFFICES ASSUME Init PROVE RingConsistent
    OBVIOUS
  <2>1. (0 + 0) % RingSize = 0
    BY AudioAssumption, WrapOnce
  <2> QED
    BY <2>1 DEF Init, RingConsistent
<1>2. TypeOK /\ RingConsistent /\ [Next]_vars => RingConsistent'
  <2>1. CASE UNCHANGED vars
    BY <2>1 DEF vars, ring, RingConsistent
  <2> QED
    BY <2>1, NextIsRingStep, ConsistentStep
<1> QED
  BY <1>1, <1>2, TypeCorrect, PTL DEF Spec

-----------------------------------------------------------------------------
(* The ring implements the queue. *)

\* The cell of the i-th waiting sample.
Cell(i) == (mReadPos + i - 1) % RingSize

LEMMA CellType ==
  ASSUME RingTypeOK, NEW i \in 1 .. RingSize
  PROVE  Cell(i) \in Cells
BY AudioAssumption DEF RingTypeOK, Cell, Cells

LEMMA ContentsType ==
  ASSUME RingTypeOK
  PROVE  Contents \in Seq(Sample) /\ Len(Contents) = mAvailableSamples
<1>1. mAvailableSamples \in Nat
  BY AudioAssumption DEF RingTypeOK
<1>2. ASSUME NEW i \in 1 .. mAvailableSamples
      PROVE  mRingBuffer[Cell(i)] \in Sample
  <2>1. i \in 1 .. RingSize
    BY <1>2, AudioAssumption DEF RingTypeOK
  <2> QED
    BY <2>1, CellType DEF RingTypeOK
<1> QED
  BY <1>1, <1>2 DEF Contents, Cell

\* How far ahead of the write position the cell of the i-th sample is, written or to come.
LEMMA AheadOfCell ==
  ASSUME RingTypeOK, RingConsistent, NEW i \in 1 .. RingSize
  PROVE  Ahead(Cell(i)) = IF i <= mAvailableSamples
                          THEN RingSize - mAvailableSamples + (i - 1)
                          ELSE i - 1 - mAvailableSamples
<1> DEFINE N == RingSize
           r == mReadPos
           a == mAvailableSamples
           Wrap(x) == IF x < N THEN x ELSE x - N
<1>1. N \in Nat \ {0} /\ r \in 0 .. N - 1 /\ a \in 0 .. N
  BY AudioAssumption DEF RingTypeOK, Cells
<1>2. i - 1 \in 0 .. N - 1 /\ r + i - 1 = r + (i - 1)
  BY <1>1
<1> HIDE DEF N, r, a
<1>3. (r + i - 1) % N = Wrap(r + (i - 1)) /\ (r + a) % N = Wrap(r + a)
  <2>1. (r + a) % N = Wrap(r + a)
    BY <1>1
  <2>2. (r + (i - 1)) % N = Wrap(r + (i - 1))
    BY <1>1, <1>2
  <2> QED
    BY <1>2, <2>1, <2>2
<1>4. (Wrap(r + (i - 1)) + N - Wrap(r + a)) % N
        = IF i <= a THEN N - a + (i - 1) ELSE i - 1 - a
  <2> DEFINE d == Wrap(r + (i - 1)) + N - Wrap(r + a)
  <2>1. d \in 1 .. 2 * N - 1
    BY <1>1, <1>2
  <2>2. d \in {N + (i - 1) - a, 2 * N + (i - 1) - a, (i - 1) - a}
    BY <1>1, <1>2
  <2>3. d % N = IF d < N THEN d ELSE d - N
    <3> HIDE DEF d
    <3> QED
      BY <1>1, <2>1
  <2> QED
    BY <1>1, <1>2, <2>1, <2>2, <2>3
<1> QED
  BY <1>3, <1>4 DEF Ahead, Cell, RingConsistent, N, r, a

LEMMA WriteAppends ==
  ASSUME RingTypeOK, RingConsistent, NEW data \in Seq(Sample),
         NEW n \in 0 .. RingSize - mAvailableSamples, n <= Len(data),
         mRingBuffer' = Stored(data, n),
         mAvailableSamples' = mAvailableSamples + n,
         mReadPos' = mReadPos
  PROVE  Contents' = Contents \o SubSeq(data, 1, n)
<1> DEFINE a == mAvailableSamples
           new == Contents \o SubSeq(data, 1, n)
<1>0. a \in 0 .. RingSize /\ RingSize \in Nat \ {0} /\ n \in 0 .. RingSize /\ a + n \in 0 .. RingSize
  BY AudioAssumption DEF RingTypeOK
<1>1. Contents \in Seq(Sample) /\ Len(Contents) = a
  BY ContentsType
<1>2. SubSeq(data, 1, n) \in Seq(Sample) /\ Len(SubSeq(data, 1, n)) = n
  BY <1>0
<1>3. new \in Seq(Sample) /\ Len(new) = a + n
  BY <1>0, <1>1, <1>2
<1>4. Contents' = [i \in 1 .. a + n |-> Stored(data, n)[Cell(i)]]
  BY DEF Contents, Cell
<1>5. ASSUME NEW i \in 1 .. a + n PROVE Stored(data, n)[Cell(i)] = new[i]
  <2>1. i \in 1 .. RingSize
    BY <1>0, <1>5
  <2>2. Stored(data, n)[Cell(i)] = IF Ahead(Cell(i)) < n THEN data[Ahead(Cell(i)) + 1]
                                                        ELSE mRingBuffer[Cell(i)]
    BY <2>1, CellType DEF Stored
  <2>3. CASE i <= a
    <3>1. Ahead(Cell(i)) = RingSize - a + (i - 1)
      BY <2>1, <2>3, AheadOfCell
    <3>2. ~(Ahead(Cell(i)) < n)
      BY <1>0, <2>1, <2>3, <3>1
    <3>3. new[i] = Contents[i]
      BY <1>0, <1>1, <1>2, <2>1, <2>3
    <3>4. Contents[i] = mRingBuffer[Cell(i)]
      BY <1>0, <2>1, <2>3 DEF Contents, Cell
    <3> QED
      BY <2>2, <3>2, <3>3, <3>4
  <2>4. CASE ~(i <= a)
    <3>1. Ahead(Cell(i)) = i - 1 - a
      BY <2>1, <2>4, AheadOfCell
    <3>2. Ahead(Cell(i)) < n /\ Ahead(Cell(i)) + 1 = i - a /\ i - a \in 1 .. n
      BY <1>0, <1>5, <2>4, <3>1
    <3>3. new[i] = SubSeq(data, 1, n)[i - a]
      BY <1>0, <1>1, <1>2, <1>5, <2>4, <3>2
    <3>4. SubSeq(data, 1, n)[i - a] = data[i - a]
      BY <1>0, <3>2
    <3> QED
      BY <2>2, <3>2, <3>3, <3>4
  <2> QED
    BY <2>3, <2>4
<1> HIDE DEF new
<1>6. new = [i \in 1 .. a + n |-> new[i]]
  BY <1>0, <1>3
<1>7. Contents' = new
  BY <1>4, <1>5, <1>6
<1> QED
  BY <1>7 DEF new

LEMMA ReadTakes ==
  ASSUME RingTypeOK, NEW n \in 1 .. mAvailableSamples,
         mRingBuffer' = mRingBuffer,
         mAvailableSamples' = mAvailableSamples - n,
         mReadPos' = (mReadPos + n) % RingSize
  PROVE  Contents' = SubSeq(Contents, n + 1, Len(Contents))
<1> DEFINE a == mAvailableSamples
<1>0. /\ a \in 0 .. RingSize /\ RingSize \in Nat \ {0} /\ n \in 0 .. RingSize
      /\ mReadPos \in 0 .. RingSize - 1 /\ n \in 1 .. a /\ n + 1 \in 1 .. a + 1
  BY AudioAssumption DEF RingTypeOK, Cells
<1>1. Contents \in Seq(Sample) /\ Len(Contents) = a
  BY ContentsType
<1>2. SubSeq(Contents, n + 1, a) = [i \in 1 .. a - n |-> Contents[i + n]]
  BY <1>0, <1>1
<1>3. Contents' = [i \in 1 .. a - n |-> mRingBuffer[(((mReadPos + n) % RingSize) + i - 1) % RingSize]]
  BY DEF Contents
<1>4. ASSUME NEW i \in 1 .. a - n
      PROVE  Contents[i + n] = mRingBuffer[(((mReadPos + n) % RingSize) + i - 1) % RingSize]
  <2>1. i + n \in 1 .. a
    BY <1>0, <1>4
  <2>2. Contents[i + n] = mRingBuffer[(mReadPos + (i + n) - 1) % RingSize]
    BY <2>1 DEF Contents
  <2>3. i - 1 \in 0 .. RingSize /\ n \in 0 .. RingSize - (i - 1)
    BY <1>0, <1>4
  <2>4. (((mReadPos + n) % RingSize) + (i - 1)) % RingSize = (mReadPos + ((i - 1) + n)) % RingSize
    BY <1>0, <2>3, WrapTwice
  <2>5. (mReadPos + n) % RingSize \in Int
    BY <1>0
  <2>6. /\ ((mReadPos + n) % RingSize) + (i - 1) = ((mReadPos + n) % RingSize) + i - 1
        /\ mReadPos + ((i - 1) + n) = mReadPos + (i + n) - 1
    BY <1>0, <2>5
  <2> QED
    BY <2>2, <2>4, <2>6
<1> QED
  BY <1>1, <1>2, <1>3, <1>4

\* A reset empties the queue.
LEMMA ResetEmpties == ASSUME mAvailableSamples' = 0 PROVE Contents' = <<>>
BY DEF Contents

LEMMA RingStepIsFifoStep ==
  ASSUME TypeOK, RingConsistent, RingStep
  PROVE  [Fifo!Next]_(Fifo!vars)
<1>0. RingTypeOK
  BY DEF TypeOK, RingTypeOK
<1>1. CASE initialize
  BY <1>1, ResetEmpties DEF initialize, Fifo!Next, Fifo!Open
<1>2. CASE shutdown
  BY <1>2, ResetEmpties DEF shutdown, Fifo!Next, Fifo!Close
<1>3. ASSUME NEW w \in Writers, writeSamples(writer[w].data)
      PROVE  [Fifo!Next]_(Fifo!vars)
  <2> DEFINE data == writer[w].data
             n    == ToWrite(data)
  <2>1. data \in Seq(Sample)
    BY ChimeIsASequence
  <2>2. n \in 0 .. RingSize - mAvailableSamples /\ n \in 0 .. Len(data)
    BY <1>0, <2>1, RoomToWrite
  <2>3. CASE UNCHANGED ring
    <3>1. UNCHANGED <<mRingBuffer, allocated, mReadPos, mAvailableSamples>>
      BY <2>3 DEF ring
    <3> QED
      BY <3>1 DEF Contents, Fifo!vars
  <2>4. CASE /\ n = 0 \/ allocated
             /\ mRingBuffer' = Stored(data, n)
             /\ mAvailableSamples' = mAvailableSamples + n
             /\ UNCHANGED <<allocated, mReadPos>>
    <3>1. Contents' = Contents \o SubSeq(data, 1, n)
      <4> HIDE DEF data, n
      <4> QED
        BY <1>0, <2>1, <2>2, <2>4, WriteAppends
    <3>2. Contents \in Seq(Sample) /\ Len(Contents) = mAvailableSamples
      BY <1>0, ContentsType
    <3>3. CASE n = 0
      <4>1. SubSeq(data, 1, n) = <<>>
        <5>1. \A s \in Seq(Sample) : SubSeq(s, 1, 0) = <<>>
          OBVIOUS
        <5> QED
          BY <2>1, <3>3, <5>1
      <4>2. Contents' = Contents
        <5>1. \A s \in Seq(Sample) : s \o <<>> = s
          OBVIOUS
        <5> QED
          BY <3>1, <3>2, <4>1, <5>1
      <4> QED
        BY <2>4, <4>2 DEF Fifo!vars
    <3>4. CASE n # 0
      <4>1. allocated
        BY <2>4, <3>4
      <4>2. data \in Chimes
        <5>1. data \in Chimes \cup {<<>>}
          BY DEF TypeOK
        <5>2. Len(data) # 0
          BY <2>1, <2>2, <3>4
        <5> QED
          BY <5>1, <5>2
      <4>3. n = Fifo!Least(Len(data), RingSize - Len(Contents))
        BY <3>2 DEF ToWrite, Least, Fifo!Least
      <4>4. Fifo!Put
        BY <2>4, <3>1, <4>1, <4>2, <4>3 DEF Fifo!Put
      <4> QED
        BY <4>4 DEF Fifo!Next
    <3> QED
      BY <3>3, <3>4
  <2> QED
    BY <1>3, <2>3, <2>4 DEF writeSamples
<1>4. CASE readSamples
  <2>1. ToRead \in 0 .. mAvailableSamples
    BY <1>0, EnoughToRead
  <2>2. CASE ToRead = 0
    <3>1. mAvailableSamples' = mAvailableSamples /\ mReadPos' = mReadPos
      BY <1>0, <1>4, <2>2, AudioAssumption DEF readSamples, RingTypeOK, Cells
    <3> QED
      BY <1>4, <3>1 DEF readSamples, Contents, Fifo!vars
  <2>3. CASE ToRead # 0
    <3>1. ToRead \in 1 .. mAvailableSamples
      BY <1>0, <2>1, <2>3 DEF RingTypeOK
    <3>2. Contents' = SubSeq(Contents, ToRead + 1, Len(Contents))
      BY <1>0, <1>4, <3>1, ReadTakes DEF readSamples
    <3>3. Len(Contents) = mAvailableSamples
      BY <1>0, ContentsType
    <3> QED
      BY <1>4, <3>1, <3>2, <3>3 DEF readSamples, Fifo!Next, Fifo!Take
  <2> QED
    BY <2>2, <2>3
<1>5. CASE UNCHANGED ring
  BY <1>5 DEF ring, Contents, Fifo!vars
<1> QED
  BY <1>1, <1>2, <1>3, <1>4, <1>5 DEF RingStep

\* The ring between its writers and its player is a bounded first-in-first-out queue.
THEOREM RingIsAFifo == Spec => ImplementsFifo
<1>1. Init => Fifo!Init
  BY DEF Init, Contents, Fifo!Init
<1>2. TypeOK /\ RingConsistent /\ [Next]_vars => [Fifo!Next]_(Fifo!vars)
  <2>1. CASE UNCHANGED vars
    BY <2>1 DEF vars, ring, Contents, Fifo!vars
  <2> QED
    BY <2>1, NextIsRingStep, RingStepIsFifoStep
<1> QED
  BY <1>1, <1>2, TypeCorrect, AlwaysConsistent, PTL DEF Spec, ImplementsFifo, Fifo!Spec
=============================================================================
