---------------------------- MODULE AudioBridge ----------------------------
(***************************************************************************)
(* The audio bridge (audio_bridge.cpp) and the player thread that feeds    *)
(* the AudioTrack from it (GsiAudioPlayer.kt).  The UI thread and the      *)
(* live-boot thread write chimes into the ring, a player thread reads it,  *)
(* the UI thread initializes the bridge and shuts it down.                 *)
(*                                                                         *)
(* writeSamples() and readSamples() look at mIsRunning before they take    *)
(* mBufferMutex: the look and the critical section are two steps.  The     *)
(* sound of a chime, the sample rate and the underrun counter are left     *)
(* out; every caller initializes with two channels.                        *)
(***************************************************************************)
EXTENDS Integers, Sequences

CONSTANTS
  RingSize,    \* RING_BUFFER_SIZE
  Chunk,       \* samples the player asks for: BUFFER_FRAMES * 2
  Sample,      \* 16-bit values
  Chimes,      \* the sample sequences synthesizeChime() generates
  Players,     \* player threads
  MaxChimes    \* bound: chimes played in a behaviour

mChannels == 2

ASSUME AudioAssumption ==
  /\ RingSize \in Nat \ {0}
  /\ Chunk \in Nat \ {0}
  /\ 0 \in Sample
  /\ Chimes \subseteq Seq(Sample)
  /\ MaxChimes \in Nat

Cells   == 0 .. RingSize - 1
Writers == {"ui", "boot"}

VARIABLES
  mRingBuffer, allocated,                \* the vector; it has cells once it is assigned
  mWritePos, mReadPos, mAvailableSamples,
  mTotalFramesWritten, mTotalFramesRead,
  mIsRunning,
  crashed,     \* a sample was stored in a vector without cells: the process is dead
  ui,          \* the UI thread outside synthesizeChime()
  created,     \* the activity is between onCreate and onDestroy
  boot,        \* the live-boot thread outside synthesizeChime()
  writer,      \* the two threads inside synthesizeChime()
  chimes,      \* chimes begun
  playing,     \* GsiAudioPlayer.isRunning
  player,      \* the player threads
  current      \* GsiAudioPlayer.playbackThread, a set of at most one

ring    == <<mRingBuffer, allocated, mWritePos, mReadPos, mAvailableSamples>>
frames  == <<mTotalFramesWritten, mTotalFramesRead>>
callers == <<ui, created, boot, writer, chimes>>
threads == <<playing, player, current>>
vars    == <<ring, frames, mIsRunning, crashed, callers, threads>>

NoCall   == [pc |-> "none", data |-> <<>>]
NoThread == [pc |-> "none", interrupted |-> FALSE]

TypeOK ==
  /\ mRingBuffer \in [Cells -> Sample] /\ allocated \in BOOLEAN
  /\ mWritePos \in Cells /\ mReadPos \in Cells
  /\ mAvailableSamples \in 0 .. RingSize
  /\ mTotalFramesWritten \in Nat /\ mTotalFramesRead \in Nat
  /\ mIsRunning \in BOOLEAN /\ crashed \in BOOLEAN
  /\ ui \in {"idle", "start", "chime", "join", "shutdown"}
  /\ created \in BOOLEAN
  /\ boot \in {"none", "init", "chime"}
  /\ writer \in [Writers -> [pc : {"none", "generate", "lock"}, data : Chimes \cup {<<>>}]]
  /\ chimes \in Nat
  /\ playing \in BOOLEAN
  /\ player \in [Players -> [pc : {"none", "check", "read", "take", "play", "sleep"},
                             interrupted : BOOLEAN]]
  /\ current \subseteq Players

Init ==
  /\ mRingBuffer = [k \in Cells |-> 0] /\ allocated = FALSE
  /\ mWritePos = 0 /\ mReadPos = 0 /\ mAvailableSamples = 0
  /\ mTotalFramesWritten = 0 /\ mTotalFramesRead = 0
  /\ mIsRunning = FALSE /\ crashed = FALSE
  /\ ui = "idle" /\ created = FALSE /\ boot = "none"
  /\ writer = [w \in Writers |-> NoCall] /\ chimes = 0
  /\ playing = FALSE /\ player = [p \in Players |-> NoThread] /\ current = {}

Least(a, b) == IF a <= b THEN a ELSE b

-----------------------------------------------------------------------------
(* The critical sections of mBufferMutex. *)

\* Mutant: the read position is not reset.
initializeKeepsReadPos ==
  /\ mRingBuffer' = [k \in Cells |-> 0] /\ allocated' = TRUE
  /\ mWritePos' = 0 /\ mAvailableSamples' = 0
  /\ mTotalFramesWritten' = 0 /\ mTotalFramesRead' = 0
  /\ mIsRunning' = TRUE
  /\ UNCHANGED mReadPos

initialize ==
  /\ mRingBuffer' = [k \in Cells |-> 0] /\ allocated' = TRUE
  /\ mWritePos' = 0 /\ mReadPos' = 0 /\ mAvailableSamples' = 0
  /\ mTotalFramesWritten' = 0 /\ mTotalFramesRead' = 0
  /\ mIsRunning' = TRUE

shutdown ==
  /\ mIsRunning' = FALSE
  /\ mRingBuffer' = [k \in Cells |-> 0] /\ allocated' = FALSE
  /\ mWritePos' = 0 /\ mReadPos' = 0 /\ mAvailableSamples' = 0
  /\ UNCHANGED frames

\* Distance of a cell from the position where writing begins.
Ahead(k) == (k + RingSize - mWritePos) % RingSize

Stored(data, n) ==
  [k \in Cells |-> IF Ahead(k) < n THEN data[Ahead(k) + 1] ELSE mRingBuffer[k]]

ToWrite(data) == Least(Len(data), RingSize - mAvailableSamples)

\* What does not fit is dropped.  A store into the vector without cells is the end.
writeSamples(data) ==
  LET toWrite == ToWrite(data) IN
    \/ /\ toWrite > 0 /\ ~allocated
       /\ crashed' = TRUE
       /\ UNCHANGED <<ring, frames>>
    \/ /\ toWrite = 0 \/ allocated
       /\ mRingBuffer' = Stored(data, toWrite)
       /\ mWritePos' = (mWritePos + toWrite) % RingSize
       /\ mAvailableSamples' = mAvailableSamples + toWrite
       /\ mTotalFramesWritten' = mTotalFramesWritten + toWrite \div mChannels
       /\ UNCHANGED <<allocated, mReadPos, mTotalFramesRead, crashed>>

ToRead == Least(Chunk, mAvailableSamples)

readSamples ==
  /\ mReadPos' = (mReadPos + ToRead) % RingSize
  /\ mAvailableSamples' = mAvailableSamples - ToRead
  /\ mTotalFramesRead' = mTotalFramesRead + ToRead \div mChannels
  /\ UNCHANGED <<mRingBuffer, allocated, mWritePos, mTotalFramesWritten>>

-----------------------------------------------------------------------------
(* synthesizeChime(), called by the UI thread and by the live-boot thread. *)

Calling(w) == IF w = "ui" THEN ui = "chime" ELSE boot = "chime"
Called(w)  ==
  /\ ui'   = IF w = "ui" THEN "idle" ELSE ui
  /\ boot' = IF w = "boot" THEN "none" ELSE boot

\* The flag is looked at first, and again by writeSamples() when the chime is generated.
ChimeBegins(w) ==
  /\ Calling(w) /\ writer[w].pc = "none" /\ mIsRunning
  /\ \E data \in Chimes : writer' = [writer EXCEPT ![w] = [pc |-> "generate", data |-> data]]
  /\ chimes' = chimes + 1
  /\ UNCHANGED <<ring, frames, mIsRunning, crashed, ui, created, boot, threads>>

ChimeRefused(w) ==
  /\ Calling(w) /\ writer[w].pc \in {"none", "generate"} /\ ~mIsRunning
  /\ writer' = [writer EXCEPT ![w] = NoCall]
  /\ Called(w)
  /\ UNCHANGED <<ring, frames, mIsRunning, crashed, created, chimes, threads>>

ChimeGenerated(w) ==
  /\ writer[w].pc = "generate" /\ mIsRunning
  /\ writer' = [writer EXCEPT ![w].pc = "lock"]
  /\ UNCHANGED <<ring, frames, mIsRunning, crashed, ui, created, boot, chimes, threads>>

ChimeWrites(w) ==
  /\ writer[w].pc = "lock"
  /\ writeSamples(writer[w].data)
  /\ writer' = [writer EXCEPT ![w] = NoCall]
  /\ Called(w)
  /\ UNCHANGED <<mIsRunning, created, chimes, threads>>

-----------------------------------------------------------------------------
(* The UI thread and the live-boot thread. *)

OnCreate ==
  /\ ui = "idle" /\ ~created
  /\ created' = TRUE
  /\ initialize
  /\ ui' = "start"
  /\ UNCHANGED <<crashed, boot, writer, chimes, threads>>

\* GsiAudioPlayer.start(): a thread, unless one is playing.
PlayerStart ==
  /\ ~playing
  /\ playing' = TRUE
  /\ \E p \in Players :
       /\ player[p].pc = "none"
       /\ player' = [player EXCEPT ![p] = [NoThread EXCEPT !.pc = "check"]]
       /\ current' = {p}

\* The AudioTrack may not come up, then nothing is playing; playChime() tries again.
PlayerStarts(next) ==
  /\ ui' = next
  /\ PlayerStart \/ UNCHANGED threads
  /\ UNCHANGED <<ring, frames, mIsRunning, crashed, created, boot, writer, chimes>>

StartPlayer == ui = "start" /\ PlayerStarts("idle")

PlayChime ==
  /\ ui = "idle" /\ created /\ chimes < MaxChimes
  /\ PlayerStarts("chime")

\* Mutant: the player is interrupted and its flag stays up.
OnDestroyKeepsFlag ==
  /\ ui = "idle" /\ created
  /\ created' = FALSE
  /\ ui' = IF playing THEN "join" ELSE "shutdown"
  /\ player' = [p \in Players |-> IF playing /\ p \in current /\ player[p].pc # "none"
                                  THEN [player[p] EXCEPT !.interrupted = TRUE]
                                  ELSE player[p]]
  /\ UNCHANGED <<ring, frames, mIsRunning, crashed, boot, writer, chimes, playing, current>>

\* onDestroy: GsiAudioPlayer.stop(), then nativeShutdownAudio().
OnDestroy ==
  /\ ui = "idle" /\ created
  /\ created' = FALSE
  /\ ui' = IF playing THEN "join" ELSE "shutdown"
  /\ playing' = FALSE
  /\ player' = [p \in Players |-> IF playing /\ p \in current /\ player[p].pc # "none"
                                  THEN [player[p] EXCEPT !.interrupted = TRUE]
                                  ELSE player[p]]
  /\ UNCHANGED <<ring, frames, mIsRunning, crashed, boot, writer, chimes, current>>

\* join(500) returns when the thread has ended, or after half a second.
PlayerJoined ==
  /\ ui = "join"
  /\ current' = {}
  /\ ui' = "shutdown"
  /\ UNCHANGED <<ring, frames, mIsRunning, crashed, created, boot, writer, chimes, playing,
                 player>>

Shutdown ==
  /\ ui = "shutdown"
  /\ shutdown
  /\ ui' = "idle"
  /\ UNCHANGED <<crashed, created, boot, writer, chimes, threads>>

\* The live boot is started by a button; it reaches the audio bridge any time later.
BootStarts ==
  /\ ui = "idle" /\ created /\ boot = "none" /\ chimes < MaxChimes
  /\ boot' = "init"
  /\ UNCHANGED <<ring, frames, mIsRunning, crashed, ui, created, writer, chimes, threads>>

BootInitializes ==
  /\ boot = "init"
  /\ initialize
  /\ boot' = "chime"
  /\ UNCHANGED <<crashed, ui, created, writer, chimes, threads>>

-----------------------------------------------------------------------------
(* A player thread. *)

PlayerGoto(p, pc) == player' = [player EXCEPT ![p].pc = pc]

PlayerChecks(p) ==
  /\ player[p].pc = "check"
  /\ IF playing THEN PlayerGoto(p, "read") ELSE player' = [player EXCEPT ![p] = NoThread]
  /\ UNCHANGED <<ring, frames, mIsRunning, crashed, callers, playing, current>>

\* readSamples() looks at the flag.
PlayerReads(p) ==
  /\ player[p].pc = "read"
  /\ PlayerGoto(p, IF mIsRunning THEN "take" ELSE "sleep")
  /\ UNCHANGED <<ring, frames, mIsRunning, crashed, callers, playing, current>>

PlayerTakes(p) ==
  /\ player[p].pc = "take"
  /\ readSamples
  /\ PlayerGoto(p, IF ToRead > 0 THEN "play" ELSE "sleep")
  /\ UNCHANGED <<mIsRunning, crashed, callers, playing, current>>

\* track.write() returns.
PlayerPlays(p) ==
  /\ player[p].pc = "play"
  /\ PlayerGoto(p, "check")
  /\ UNCHANGED <<ring, frames, mIsRunning, crashed, callers, playing, current>>

\* Mutant: the thread sleeps on after the interrupt.
PlayerWakesAnyway(p) ==
  /\ player[p].pc = "sleep"
  /\ PlayerGoto(p, "check")
  /\ UNCHANGED <<ring, frames, mIsRunning, crashed, callers, playing, current>>

PlayerWakes(p) ==
  /\ player[p].pc = "sleep"
  /\ IF player[p].interrupted THEN player' = [player EXCEPT ![p] = NoThread]
                              ELSE PlayerGoto(p, "check")
  /\ UNCHANGED <<ring, frames, mIsRunning, crashed, callers, playing, current>>

PlayerStep(p) ==
  \/ PlayerChecks(p) \/ PlayerReads(p) \/ PlayerTakes(p) \/ PlayerPlays(p) \/ PlayerWakes(p)

WriterStep(w) ==
  \/ ChimeBegins(w) \/ ChimeRefused(w) \/ ChimeGenerated(w) \/ ChimeWrites(w)

UiStep == StartPlayer \/ PlayerJoined \/ Shutdown

Step ==
  \/ OnCreate \/ PlayChime \/ OnDestroy \/ BootStarts
  \/ UiStep \/ BootInitializes
  \/ \E w \in Writers : WriterStep(w)
  \/ \E p \in Players : PlayerStep(p)

Next == ~crashed /\ Step

Spec == Init /\ [][Next]_vars

\* Every thread that has something to do is scheduled.
Fairness ==
  /\ WF_vars(~crashed /\ UiStep)
  /\ WF_vars(~crashed /\ BootInitializes)
  /\ \A w \in Writers : WF_vars(~crashed /\ WriterStep(w))
  /\ \A p \in Players : WF_vars(~crashed /\ PlayerStep(p))

FairSpec == Spec /\ Fairness
-----------------------------------------------------------------------------
(* Properties. *)

\* The samples that wait in the ring, oldest first.
Contents == [i \in 1 .. mAvailableSamples |-> mRingBuffer[(mReadPos + i - 1) % RingSize]]

\* The ring is a bounded queue of samples: whatever the writers, the player, a second
\* initialize() and a shutdown() do meanwhile, samples leave in the order they came, none
\* is overwritten or doubled, and only what does not fit is dropped.
Fifo == INSTANCE BoundedFifo
          WITH Capacity <- RingSize, Inputs <- Chimes, contents <- Contents, on <- allocated
ImplementsFifo == Fifo!Spec

\* The two positions are as far apart as the count says, and a reader that passed the flag
\* before a shutdown() and gets the mutex after it touches no cell of the vector that is
\* gone: it finds no sample to read.
RingConsistent ==
  /\ mWritePos = (mReadPos + mAvailableSamples) % RingSize
  /\ mAvailableSamples > 0 => allocated

\* audio_bridge.h:30 "Write 16-bit PCM samples into the circular buffer": no sample is
\* written anywhere else.
WritesWithinBuffer == ~crashed

\* A player thread that outlived the timed join of stop() ends all the same, even if the
\* player is started again before it looks at the flag: it runs into the pending interrupt.
OldPlayerEnds ==
  \A p \in Players : player[p].interrupted ~> player[p].pc = "none" \/ crashed

\* While the player is said to be playing, what is in the ring is played: there is a thread.
RingDrains ==
  playing /\ mAvailableSamples > 0 ~> ~playing \/ mAvailableSamples = 0 \/ crashed
=============================================================================
