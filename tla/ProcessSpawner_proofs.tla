------------------------ MODULE ProcessSpawner_proofs ------------------------
(***************************************************************************)
(* What terminate() leaves behind, the reader of a raised flag and the     *)
(* origin of the exit code, for every number of children, capacity of the  *)
(* pipes and set of programs.                                              *)
(***************************************************************************)
EXTENDS ProcessSpawner, TLAPS

\* The thread is inside read() only where it reads.
ReadsWhereItReads == io.rd # 0 => IoReading

TypeInv == TypeOK /\ ReadsWhereItReads

LEMMA TypeInit == ASSUME Init PROVE TypeInv
<1>1. ui \in [pc : UiPcs, then : {"idle", "spawn"}]
  BY DEF Init, Idle, UiPcs
<1>2. /\ io \in [pc : IoPcs, watch : Pids, hasInput : SUBSET OutStreams,
                 hungUp : BOOLEAN, rd : Pids]
      /\ io.rd = 0
  BY SpawnerAssumption DEF Init, NoThread, IoPcs, Pids
<1>3. /\ child \in [Children -> {"unborn", "alive", "zombie", "reaped"}]
      /\ status \in [Children -> Codes]
      /\ todo \in [Children -> Seq(OutStreams)]
      /\ holders \in [Children -> SUBSET {"shell", "background"}]
  BY DEF Init, Codes
<1>4. pipe \in [Children -> [OutStreams -> 0 .. PipeCap]]
  BY SpawnerAssumption DEF Init
<1> QED
  BY <1>1, <1>2, <1>3, <1>4, SpawnerAssumption
  DEF Init, TypeInv, TypeOK, ReadsWhereItReads, Pids, Codes

-----------------------------------------------------------------------------
(* The reader thread's record. *)

IoType == [pc : IoPcs, watch : Pids, hasInput : SUBSET OutStreams, hungUp : BOOLEAN, rd : Pids]

LEMMA GotoType ==
  ASSUME io \in IoType, NEW pc \in IoPcs, IoGoto(pc)
  PROVE  io' \in IoType /\ io'.pc = pc /\ io'.rd = 0
<1>0. 0 \in Pids
  BY SpawnerAssumption DEF Pids
<1>1. CASE pc = "readErr"
  <2>1. io' = [io EXCEPT !.pc = pc, !.rd = 0]
    BY <1>1 DEF IoGoto
  <2> QED
    BY <1>0, <2>1 DEF IoType
<1>2. CASE pc # "readErr"
  <2>1. io' = [NoThread EXCEPT !.pc = pc, !.watch = io.watch]
    BY <1>2 DEF IoGoto
  <2>2. io' = [pc |-> pc, watch |-> io.watch, hasInput |-> {}, hungUp |-> FALSE, rd |-> 0]
    BY <2>1 DEF NoThread
  <2> QED
    BY <1>0, <2>2 DEF IoType
<1> QED
  BY <1>1, <1>2

LEMMA AfterReadPc ==
  ASSUME IoReading
  PROVE  AfterRead \in IoPcs \ {"none"}
BY DEF IoReading, AfterRead, IoPcs

\* A step of the thread: where it goes, what it may write.
LEMMA IoStepShape ==
  ASSUME TypeInv, IoStep
  PROVE  /\ io.pc # "none"
         /\ io' \in IoType
         /\ io'.rd # 0 => IoReading'
         /\ io'.pc = "none" => IoClear
         /\ IoClear \/ mIsRunning' = mIsRunning
         /\ mChildPid' = mChildPid /\ fd' = fd /\ ui' = ui /\ status' = status
         /\ \/ mExitCode' = mExitCode /\ child' = child
            \/ IoWait
<1>0. io \in IoType /\ ReadsWhereItReads /\ fd \in Pids /\ 0 \in Pids
  BY SpawnerAssumption DEF TypeInv, TypeOK, IoType, Pids
<1>1. CASE IoStart
  <2>1. io' = [io EXCEPT !.pc = "check", !.watch = fd]
    BY <1>1 DEF IoStart
  <2>2. io' \in IoType /\ io'.pc = "check" /\ io'.rd = io.rd
    BY <1>0, <2>1 DEF IoType, IoPcs
  <2> QED
    BY <1>0, <1>1, <2>2 DEF IoStart, members, pipes, guests, ReadsWhereItReads, IoReading
<1>2. CASE IoCheck
  <2> DEFINE next == IF mIsRunning THEN "poll" ELSE "drainOut"
  <2>1. next \in IoPcs /\ next # "none"
    BY DEF IoPcs
  <2>2. io' \in IoType /\ io'.pc = next /\ io'.rd = 0
    BY <1>0, <1>2, <2>1, GotoType DEF IoCheck
  <2> QED
    BY <1>2, <2>1, <2>2 DEF IoCheck, members, pipes, guests
<1>3. CASE IoPoll
  <2>1. PICK watched \in SUBSET OutStreams :
          io' = [io EXCEPT
                   !.pc = "readOut",
                   !.hasInput = {s \in watched : pipe[io.watch][s] > 0},
                   !.hungUp   = watched = OutStreams /\ ~HasWriter(io.watch)]
    BY <1>3 DEF IoPoll
  <2>2. io' \in IoType /\ io'.pc = "readOut"
    BY <1>0, <2>1 DEF IoType, IoPcs
  <2> QED
    BY <1>3, <2>2 DEF IoPoll, members, pipes, guests, IoReading
<1>4. CASE IoSkipRead
  <2>1. AfterRead \in IoPcs \ {"none"}
    BY <1>4, AfterReadPc DEF IoSkipRead
  <2>2. io' \in IoType /\ io'.pc = AfterRead /\ io'.rd = 0
    BY <1>0, <1>4, <2>1, GotoType DEF IoSkipRead
  <2> QED
    BY <1>4, <2>1, <2>2 DEF IoSkipRead, IoReading, members, pipes, guests
<1>5. CASE IoBeginRead
  <2>1. io' = [io EXCEPT !.rd = fd]
    BY <1>5 DEF IoBeginRead
  <2>2. io' \in IoType /\ io'.pc = io.pc
    BY <1>0, <2>1 DEF IoType
  <2> QED
    BY <1>5, <2>2 DEF IoBeginRead, IoReading, members, pipes, guests
<1>6. CASE IoReadChunk
  <2> DEFINE next == IF IoDraining THEN io.pc ELSE AfterRead
  <2>0. IoReading
    BY <1>0, <1>6 DEF IoReadChunk, ReadsWhereItReads
  <2>1. next \in IoPcs \ {"none"}
    BY <1>0, <2>0, AfterReadPc DEF IoReading, IoType
  <2>2. io' \in IoType /\ io'.pc = next /\ io'.rd = 0
    BY <1>0, <1>6, <2>1, GotoType DEF IoReadChunk
  <2> QED
    BY <1>6, <2>0, <2>1, <2>2 DEF IoReadChunk, IoReading, members, pipes
<1>7. CASE IoReadEof
  <2>0. IoReading
    BY <1>0, <1>7 DEF IoReadEof, ReadsWhereItReads
  <2>1. AfterRead \in IoPcs \ {"none"}
    BY <2>0, AfterReadPc
  <2>2. io' \in IoType /\ io'.pc = AfterRead /\ io'.rd = 0
    BY <1>0, <1>7, <2>1, GotoType DEF IoReadEof
  <2> QED
    BY <1>7, <2>0, <2>1, <2>2 DEF IoReadEof, IoReading, members, pipes, guests
<1>8. CASE IoWait
  <2>1. \E next \in {"drainOut", "check"} : IoGoto(next)
    BY <1>8 DEF IoWait
  <2>2. io' \in IoType /\ io'.pc \in {"drainOut", "check"} /\ io'.rd = 0
    BY <1>0, <2>1, GotoType DEF IoPcs
  <2> QED
    BY <1>8, <2>2 DEF IoWait, pipes
<1>9. CASE IoClear
  <2>1. io' = [pc |-> "none", watch |-> 0, hasInput |-> {}, hungUp |-> FALSE, rd |-> 0]
    BY <1>9 DEF IoClear, NoThread
  <2>2. io' \in IoType /\ io'.rd = 0
    BY <1>0, <2>1 DEF IoType, IoPcs
  <2> QED
    BY <1>9, <2>2 DEF IoClear, pipes, guests
<1> QED
  BY <1>1, <1>2, <1>3, <1>4, <1>5, <1>6, <1>7, <1>8, <1>9 DEF IoStep

-----------------------------------------------------------------------------
(* Type correctness. *)

KernelType ==
  /\ open \subseteq Children \X Streams
  /\ spawned \in Pids
  /\ child \in [Children -> {"unborn", "alive", "zombie", "reaped"}]
  /\ status \in [Children -> Codes]
  /\ todo \in [Children -> Seq(OutStreams)]
  /\ holders \in [Children -> SUBSET {"shell", "background"}]
  /\ pipe \in [Children -> [OutStreams -> 0 .. PipeCap]]

UiType == [pc : UiPcs, then : {"idle", "spawn"}]

LEMMA TypeParts ==
  TypeOK <=> /\ KernelType /\ io \in IoType /\ ui \in UiType
             /\ mChildPid \in Pids /\ mIsRunning \in BOOLEAN /\ mExitCode \in Codes
             /\ fd \in Pids /\ polling \in BOOLEAN /\ buffered \in BOOLEAN
BY DEF TypeOK, KernelType, IoType, UiType

LEMMA GuestKeepsType ==
  ASSUME TypeInv, NEW c \in Children, GuestStep(c)
  PROVE  /\ KernelType'
         /\ UNCHANGED <<members, fd, ui, io, polling, buffered>>
<1>0. KernelType
  BY TypeParts DEF TypeInv
<1>1. CASE ChildWrites(c)
  <2>1. todo[c] \in Seq(OutStreams) /\ todo[c] # <<>>
    BY <1>0, <1>1 DEF ChildWrites, KernelType
  <2>2. Tail(todo[c]) \in Seq(OutStreams) /\ Head(todo[c]) \in OutStreams
    BY <2>1
  <2>3. todo' \in [Children -> Seq(OutStreams)]
    BY <1>0, <1>1, <2>2 DEF ChildWrites, KernelType
  <2>4. pipe' \in [Children -> [OutStreams -> 0 .. PipeCap]]
    <3> DEFINE s == Head(todo[c])
    <3>1. pipe[c] \in [OutStreams -> 0 .. PipeCap]
      BY <1>0 DEF KernelType
    <3>2. CASE pipe[c][s] < PipeCap /\ pipe' = [pipe EXCEPT ![c][s] = @ + 1]
      <4>1. pipe[c][s] + 1 \in 0 .. PipeCap
        BY <2>2, <3>1, <3>2, SpawnerAssumption
      <4> QED
        BY <1>0, <3>2, <4>1 DEF KernelType
    <3>3. CASE UNCHANGED pipe
      BY <1>0, <3>3 DEF KernelType
    <3> QED
      BY <1>1, <3>2, <3>3 DEF ChildWrites
  <2> QED
    BY <1>0, <1>1, <2>3, <2>4 DEF ChildWrites, KernelType, members, pipes
<1>2. CASE ChildCloses(c)
  <2>1. holders' \in [Children -> SUBSET {"shell", "background"}]
    BY <1>0, <1>2 DEF ChildCloses, KernelType
  <2> QED
    BY <1>0, <1>2, <2>1 DEF ChildCloses, KernelType, members, pipes
<1>3. CASE ChildBackgrounds(c)
  <2>1. holders' \in [Children -> SUBSET {"shell", "background"}]
    BY <1>0, <1>3 DEF ChildBackgrounds, KernelType
  <2> QED
    BY <1>0, <1>3, <2>1 DEF ChildBackgrounds, KernelType, members, pipes
<1>4. CASE BackgroundEnds(c)
  <2>1. holders' \in [Children -> SUBSET {"shell", "background"}]
    BY <1>0, <1>4 DEF BackgroundEnds, KernelType
  <2> QED
    BY <1>0, <1>4, <2>1 DEF BackgroundEnds, KernelType, members, pipes
<1>5. CASE ChildExits(c)
  BY <1>0, <1>5 DEF ChildExits, Die, KernelType, members, pipes
<1> QED
  BY <1>1, <1>2, <1>3, <1>4, <1>5 DEF GuestStep

LEMMA IoKeepsKernelType == ASSUME TypeInv, IoStep PROVE KernelType' /\ mExitCode' \in Codes
<1>0. KernelType /\ io \in IoType /\ mChildPid \in Pids /\ mExitCode \in Codes
  BY TypeParts DEF TypeInv
<1>1. CASE IoReadChunk
  <2>0. io.rd \in Children
    BY <1>0, <1>1, SpawnerAssumption DEF IoReadChunk, IoType, Pids, Children
  <2>1. IoStream \in OutStreams
    BY DEF IoStream, OutStreams
  <2>2. pipe[io.rd] \in [OutStreams -> 0 .. PipeCap]
    BY <1>0, <2>0 DEF KernelType
  <2>3. pipe[io.rd][IoStream] - 1 \in 0 .. PipeCap
    BY <1>1, <2>1, <2>2, SpawnerAssumption DEF IoReadChunk
  <2>4. pipe' \in [Children -> [OutStreams -> 0 .. PipeCap]]
    BY <1>0, <1>1, <2>0, <2>1, <2>2, <2>3 DEF IoReadChunk, KernelType
  <2> QED
    BY <1>0, <1>1, <2>4 DEF IoReadChunk, KernelType, members, pipes
<1>2. CASE IoWait
  <2>1. child' \in [Children -> {"unborn", "alive", "zombie", "reaped"}]
    BY <1>0, <1>2 DEF IoWait, Reap, KernelType
  <2>2. mExitCode' \in Codes
    <3>1. Reapable(mChildPid) => mChildPid \in Children
      BY <1>0, SpawnerAssumption DEF Reapable, Pids, Children
    <3> QED
      BY <1>0, <1>2, <3>1 DEF IoWait, KernelType
  <2> QED
    BY <1>0, <1>2, <2>1, <2>2 DEF IoWait, KernelType, pipes
<1>3. CASE IoStart \/ IoCheck \/ IoPoll \/ IoSkipRead \/ IoBeginRead \/ IoReadEof \/ IoClear
  <2>1. UNCHANGED <<open, spawned, child, status, todo, holders, pipe, mExitCode>>
    BY <1>3 DEF IoStart, IoCheck, IoPoll, IoSkipRead, IoBeginRead, IoReadEof, IoClear,
       members, pipes, guests
  <2> QED
    BY <1>0, <2>1 DEF KernelType
<1> QED
  BY <1>1, <1>2, <1>3 DEF IoStep

\* Everything the UI thread may write, the reader thread's record apart.
UiWrites ==
  /\ KernelType /\ ui \in UiType
  /\ mChildPid \in Pids /\ mIsRunning \in BOOLEAN /\ mExitCode \in Codes
  /\ fd \in Pids /\ polling \in BOOLEAN /\ buffered \in BOOLEAN

LEMMA UiGotoType ==
  ASSUME ui \in UiType, NEW pc \in UiPcs, UiGoto(pc)
  PROVE  ui' \in UiType /\ ui'.pc = pc /\ ui'.then = ui.then
BY DEF UiGoto, UiType

LEMMA IdleType == Idle \in UiType /\ Idle.pc = "idle"
BY DEF Idle, UiType, UiPcs

\* execute(), terminate() and the poll runnable begin.
LEMMA UiBeginsType ==
  ASSUME TypeInv, Execute \/ Terminate \/ PollOutput
  PROVE  UiWrites' /\ UNCHANGED <<members, pipes, io, guests>> /\ ui.pc = "idle"
<1>0. UiWrites
  BY TypeParts DEF TypeInv, UiWrites
<1>1. TerminatePc \in UiPcs
  BY DEF TerminatePc, UiPcs
<1>2. CASE Execute
  <2>1. ui' \in UiType
    BY <1>1, <1>2 DEF Execute, UiType, UiPcs
  <2> QED
    BY <1>0, <1>2, <2>1 DEF Execute, UiWrites, KernelType, members, pipes, guests
<1>3. CASE Terminate
  <2>1. ui' \in UiType
    BY <1>1, <1>3 DEF Terminate, UiType, UiPcs
  <2> QED
    BY <1>0, <1>3, <2>1 DEF Terminate, UiWrites, KernelType, members, pipes, guests
<1>4. CASE PollOutput
  <2>1. ui' \in UiType
    BY <1>0, <1>4, UiGotoType DEF PollOutput, UiWrites, UiPcs
  <2> QED
    BY <1>0, <1>4, <2>1 DEF PollOutput, UiWrites, KernelType, members, pipes, guests
<1> QED
  BY <1>2, <1>3, <1>4

LEMMA SpawnType == ASSUME TypeInv, Spawn PROVE UiWrites' /\ mChildPid' # 0
<1>0. UiWrites
  BY TypeParts DEF TypeInv, UiWrites
<1> DEFINE c == spawned + 1
<1>1. c \in Children /\ c \in Pids /\ c # 0
  BY <1>0, SpawnerAssumption DEF Spawn, UiWrites, KernelType, Pids, Children
<1>2. spawned' = c /\ mChildPid' = c /\ fd' = c
  BY DEF Spawn
<1>3. open' \subseteq Children \X Streams
  BY <1>0, <1>1 DEF Spawn, UiWrites, KernelType
<1>4. child' \in [Children -> {"unborn", "alive", "zombie", "reaped"}]
  BY <1>0 DEF Spawn, UiWrites, KernelType
<1>5. holders' \in [Children -> SUBSET {"shell", "background"}]
  BY <1>0 DEF Spawn, UiWrites, KernelType
<1>6. todo' \in [Children -> Seq(OutStreams)]
  BY <1>0, SpawnerAssumption DEF Spawn, UiWrites, KernelType
<1>7. ui' \in UiType
  BY <1>0, UiGotoType DEF Spawn, UiWrites, UiPcs
<1>8. UNCHANGED <<mIsRunning, mExitCode, polling, buffered, status, pipe>>
  BY DEF Spawn
<1> QED
  BY <1>0, <1>1, <1>2, <1>3, <1>4, <1>5, <1>6, <1>7, <1>8 DEF UiWrites, KernelType

LEMMA UiStepType == ASSUME TypeInv, UiStep PROVE UiWrites'
<1>0. UiWrites /\ 0 \in Pids
  BY TypeParts, SpawnerAssumption DEF TypeInv, UiWrites, Pids
<1>1. CASE Spawn
  BY <1>1, SpawnType
<1>2. CASE SpawnFails
  <2>1. ui' \in UiType
    BY <1>2, IdleType DEF SpawnFails, UiReturn
  <2>2. open' \subseteq Children \X Streams
    BY <1>0, <1>2 DEF SpawnFails, UiWrites, KernelType
  <2> QED
    BY <1>0, <1>2, <2>1, <2>2 DEF SpawnFails, UiWrites, KernelType, members, guests
<1>3. CASE SetRunning
  <2>1. ui' \in UiType
    BY <1>0, <1>3, UiGotoType DEF SetRunning, UiWrites, UiPcs
  <2> QED
    BY <1>0, <1>3, <2>1 DEF SetRunning, UiWrites, KernelType, pipes, guests
<1>4. CASE SetCode
  <2>1. ui' \in UiType
    BY <1>0, <1>4, UiGotoType DEF SetCode, UiWrites, UiPcs
  <2> QED
    BY <1>0, <1>4, <2>1 DEF SetCode, UiWrites, KernelType, pipes, guests, Codes
<1>5. CASE JoinAndStart
  <2>1. ui' \in UiType
    BY <1>5, IdleType DEF JoinAndStart, UiReturn
  <2> QED
    BY <1>0, <1>5, <2>1 DEF JoinAndStart, UiWrites, KernelType, members, pipes, guests
<1>6. CASE Kill
  <2>1. ui' \in UiType
    BY <1>0, <1>6, UiGotoType DEF Kill, UiWrites, UiPcs
  <2>2. CASE child[mChildPid] = "alive"
    <3>1. Die(mChildPid, Signalled) /\ Signalled \in Codes
      BY <1>6, <2>2 DEF Kill, Codes
    <3>2. child' \in [Children -> {"unborn", "alive", "zombie", "reaped"}]
      BY <1>0, <3>1 DEF Die, UiWrites, KernelType
    <3>3. status' \in [Children -> Codes]
      BY <1>0, <3>1 DEF Die, UiWrites, KernelType
    <3>4. holders' \in [Children -> SUBSET {"shell", "background"}]
      BY <1>0, <3>1 DEF Die, UiWrites, KernelType
    <3>5. todo' \in [Children -> Seq(OutStreams)]
      <4>1. <<>> \in Seq(OutStreams)
        OBVIOUS
      <4> QED
        BY <1>0, <3>1, <4>1 DEF Die, UiWrites, KernelType
    <3> QED
      BY <1>0, <1>6, <2>1, <3>1, <3>2, <3>3, <3>4, <3>5
      DEF Kill, Die, UiWrites, KernelType, members, pipes
  <2>3. CASE child[mChildPid] # "alive"
    BY <1>0, <1>6, <2>1, <2>3 DEF Kill, UiWrites, KernelType, members, pipes, guests
  <2> QED
    BY <2>2, <2>3
<1>7. CASE WaitForChild
  <2>1. ui' \in UiType
    BY <1>0, <1>7, UiGotoType DEF WaitForChild, UiWrites, UiPcs
  <2>2. child' \in [Children -> {"unborn", "alive", "zombie", "reaped"}]
    BY <1>0, <1>7 DEF WaitForChild, Reap, UiWrites, KernelType
  <2> QED
    BY <1>0, <1>7, <2>1, <2>2 DEF WaitForChild, UiWrites, KernelType, pipes
<1>8. CASE ClearRunning
  <2>1. ui' \in UiType
    BY <1>0, <1>8, UiGotoType DEF ClearRunning, UiWrites, UiPcs
  <2> QED
    BY <1>0, <1>8, <2>1 DEF ClearRunning, UiWrites, KernelType, pipes, guests
<1>9. CASE JoinAndClean
  <2>1. ui' \in UiType
    BY <1>0, <1>9 DEF JoinAndClean, UiWrites, UiType, Idle, UiPcs
  <2> QED
    BY <1>0, <1>9, <2>1 DEF JoinAndClean, UiWrites, KernelType, members, guests
<1>10. CASE IsRunning
  <2> DEFINE reaps == mIsRunning /\ Reapable(mChildPid)
  <2>1. ui' \in UiType
    BY <1>10, IdleType DEF IsRunning, UiReturn
  <2>2. child' \in [Children -> {"unborn", "alive", "zombie", "reaped"}]
    BY <1>0, <1>10 DEF IsRunning, Reap, UiWrites, KernelType
  <2>3. reaps => mChildPid \in Children
    BY <1>0, SpawnerAssumption DEF UiWrites, Reapable, Pids, Children
  <2>4. mExitCode' \in Codes
    BY <1>0, <1>10, <2>3 DEF IsRunning, UiWrites, KernelType
  <2>5. mIsRunning' \in BOOLEAN /\ polling' \in BOOLEAN
    BY <1>10 DEF IsRunning
  <2> QED
    BY <1>0, <1>10, <2>1, <2>2, <2>4, <2>5 DEF IsRunning, UiWrites, KernelType, pipes
<1> QED
  BY <1>1, <1>2, <1>3, <1>4, <1>5, <1>6, <1>7, <1>8, <1>9, <1>10 DEF UiStep

\* The UI thread touches the reader's record only where it starts the thread.
LEMMA UiStepKeepsIo ==
  ASSUME TypeInv, UiStep
  PROVE  /\ io' \in IoType
         /\ io'.rd # 0 => IoReading'
<1>0. io \in IoType /\ ReadsWhereItReads /\ 0 \in Pids
  BY SpawnerAssumption DEF TypeInv, TypeOK, IoType, Pids
<1>1. CASE JoinAndStart
  <2>1. io' = [pc |-> "start", watch |-> 0, hasInput |-> {}, hungUp |-> FALSE, rd |-> 0]
    BY <1>1 DEF JoinAndStart, NoThread
  <2> QED
    BY <1>0, <2>1 DEF IoType, IoPcs
<1>2. CASE ~JoinAndStart
  <2>1. io' = io
    BY <1>2 DEF UiStep, Spawn, SpawnFails, SetRunning, SetCode, Kill, WaitForChild,
       ClearRunning, JoinAndClean, IsRunning
  <2> QED
    BY <1>0, <2>1 DEF ReadsWhereItReads, IoReading
<1> QED
  BY <1>1, <1>2

LEMMA TypeFromParts ==
  ASSUME UiWrites', io' \in IoType, io'.rd # 0 => IoReading'
  PROVE  TypeInv'
BY DEF TypeInv, TypeOK, UiWrites, KernelType, UiType, IoType, ReadsWhereItReads

LEMMA TypeStep == ASSUME TypeInv, [Next]_vars PROVE TypeInv'
<1>0. UiWrites /\ io \in IoType /\ ReadsWhereItReads
  BY TypeParts DEF TypeInv, UiWrites
<1>1. CASE Execute \/ Terminate \/ PollOutput
  <2>1. UiWrites' /\ io' = io
    BY <1>1, UiBeginsType
  <2> QED
    BY <1>0, <2>1, TypeFromParts DEF ReadsWhereItReads, IoReading
<1>2. CASE UiStep
  BY <1>2, UiStepType, UiStepKeepsIo, TypeFromParts
<1>3. CASE IoStep
  <2>1. KernelType' /\ mExitCode' \in Codes
    BY <1>3, IoKeepsKernelType
  <2>2. /\ io' \in IoType
        /\ io'.rd # 0 => IoReading'
        /\ mChildPid' = mChildPid /\ fd' = fd /\ ui' = ui
        /\ IoClear \/ mIsRunning' = mIsRunning
    BY <1>3, IoStepShape
  <2>3. mIsRunning' \in BOOLEAN
    BY <1>0, <2>2 DEF IoClear, UiWrites
  <2>4. polling' = polling /\ buffered' \in BOOLEAN
    BY <1>0, <1>3 DEF IoStep, IoStart, IoCheck, IoPoll, IoSkipRead, IoBeginRead, IoReadChunk,
       IoReadEof, IoWait, IoClear, UiWrites
  <2>5. UiWrites'
    BY <1>0, <2>1, <2>2, <2>3, <2>4 DEF UiWrites, UiType
  <2> QED
    BY <2>2, <2>5, TypeFromParts
<1>4. ASSUME NEW c \in Children, GuestStep(c) PROVE TypeInv'
  <2>1. KernelType' /\ UNCHANGED <<members, fd, ui, io, polling, buffered>>
    BY <1>4, GuestKeepsType
  <2>2. UiWrites'
    BY <1>0, <2>1 DEF UiWrites, UiType, members
  <2> QED
    BY <1>0, <2>1, <2>2, TypeFromParts DEF ReadsWhereItReads, IoReading
<1>5. CASE UNCHANGED vars
  <2>1. UiWrites'
    BY <1>0, <1>5 DEF vars, members, pipes, guests, UiWrites, UiType, KernelType
  <2> QED
    BY <1>0, <1>5, <2>1, TypeFromParts DEF vars, ReadsWhereItReads, IoReading
<1> QED
  BY <1>1, <1>2, <1>3, <1>4, <1>5 DEF Next

LEMMA TypeInvariant == Spec => []TypeInv
<1>1. Init => TypeInv
  BY TypeInit
<1>2. TypeInv /\ [Next]_vars => TypeInv'
  BY TypeStep
<1> QED
  BY <1>1, <1>2, PTL DEF Spec

\* Type correctness of the spawner: every member, kernel object and program counter stays
\* in its range, whatever the UI, the reader and the children do (ProcessSpawner::execute,
\* ioLoop, isRunning, terminate).
THEOREM TypeCorrect == Spec => []TypeOK
<1>1. TypeInv => TypeOK
  BY DEF TypeInv
<1> QED
  BY <1>1, TypeInvariant, PTL

-----------------------------------------------------------------------------
(* What the UI thread relies on between its calls. *)

\* Without a child there is neither a thread nor a pipe; execute() has a child while it
\* starts the thread, terminate() has none left while it joins it.
ChildAndThread ==
  /\ ui.pc \in {"idle", "isRunning", "spawn"} /\ mChildPid = 0 =>
       io.pc = "none" /\ ~mIsRunning /\ fd = 0
  /\ ui.pc \in {"setRunning", "setCode", "join", "kill", "reap"} => mChildPid # 0
  /\ ui.pc \in {"clear", "termJoin"} => mChildPid = 0

\* A raised flag has a reader, or is about to have one.
FlagAndThread ==
  /\ ui.pc \in {"idle", "isRunning"} /\ mIsRunning => io.pc # "none"
  /\ ui.pc \in {"spawn", "termJoin"} => ~mIsRunning

\* A code other than 0 is the one of the child that mChildPid names, which is reaped, unless
\* execute() has a new child and has not reset the code yet.
CodeAndChild ==
  ui.pc \notin {"setRunning", "setCode"} /\ mChildPid # 0 /\ mExitCode # 0 =>
    child[mChildPid] = "reaped" /\ mExitCode = status[mChildPid]

SafetyInv == TypeInv /\ ChildAndThread /\ FlagAndThread /\ CodeAndChild

LEMMA SafetyInit == ASSUME Init PROVE SafetyInv
BY TypeInit DEF Init, SafetyInv, ChildAndThread, FlagAndThread, CodeAndChild, Idle, NoThread

\* A step of the reader thread: it does not start by itself, and only its last step is the
\* end of a thread, which lowers the flag.
LEMMA IoKeepsSafety ==
  ASSUME SafetyInv, IoStep
  PROVE  ChildAndThread' /\ FlagAndThread' /\ CodeAndChild'
<1>1. /\ io.pc # "none"
      /\ io'.pc = "none" => IoClear
      /\ IoClear \/ mIsRunning' = mIsRunning
      /\ mChildPid' = mChildPid /\ fd' = fd /\ ui' = ui /\ status' = status
      /\ (mExitCode' = mExitCode /\ child' = child) \/ IoWait
  BY IoStepShape DEF SafetyInv
<1>2. IoClear => ~mIsRunning'
  BY DEF IoClear
<1>3. ChildAndThread'
  BY <1>1 DEF SafetyInv, ChildAndThread
<1>4. FlagAndThread'
  BY <1>1, <1>2 DEF SafetyInv, FlagAndThread
<1>5. CodeAndChild'
  <2>1. CASE mExitCode' = mExitCode /\ child' = child
    BY <1>1, <2>1 DEF SafetyInv, CodeAndChild
  <2>2. CASE IoWait /\ Reapable(mChildPid)
    <3>1. mChildPid \in Children
      BY <2>2, SpawnerAssumption DEF SafetyInv, TypeInv, TypeOK, Pids, Children, Reapable
    <3>2. child' = [child EXCEPT ![mChildPid] = "reaped"] /\ mExitCode' = status[mChildPid]
      BY <2>2 DEF IoWait, Reap
    <3>3. child'[mChildPid] = "reaped"
      BY <3>1, <3>2 DEF SafetyInv, TypeInv, TypeOK
    <3> QED
      BY <1>1, <3>2, <3>3 DEF CodeAndChild
  <2>3. CASE IoWait /\ ~Reapable(mChildPid)
    <3>1. mExitCode' = mExitCode /\ child' = child
      BY <2>3 DEF IoWait
    <3> QED
      BY <1>1, <3>1 DEF SafetyInv, CodeAndChild
  <2> QED
    BY <1>1, <2>1, <2>2, <2>3
<1> QED
  BY <1>3, <1>4, <1>5

\* A child that dies was alive, so no code has been taken from it.
LEMMA GuestKeepsSafety ==
  ASSUME SafetyInv, NEW c \in Children, GuestStep(c)
  PROVE  ChildAndThread' /\ FlagAndThread' /\ CodeAndChild'
<1>1. UNCHANGED <<members, fd, ui, io>>
  BY GuestKeepsType DEF SafetyInv
<1>2. ChildAndThread' /\ FlagAndThread'
  BY <1>1 DEF SafetyInv, ChildAndThread, FlagAndThread, members
<1>3. CodeAndChild'
  <2>1. CASE child' = child /\ status' = status
    BY <1>1, <2>1 DEF SafetyInv, CodeAndChild, members
  <2>2. CASE ChildExits(c)
    <3>1. child[c] = "alive"
      BY <2>2 DEF ChildExits
    <3>2. ASSUME c # mChildPid, mChildPid # 0
          PROVE  child'[mChildPid] = child[mChildPid] /\ status'[mChildPid] = status[mChildPid]
      <4>1. mChildPid \in Children
        BY <3>2, SpawnerAssumption DEF SafetyInv, TypeInv, TypeOK, Pids, Children
      <4> QED
        BY <2>2, <3>2, <4>1 DEF ChildExits, Die, SafetyInv, TypeInv, TypeOK
    <3> QED
      BY <1>1, <3>1, <3>2 DEF SafetyInv, CodeAndChild, members
  <2>3. ChildExits(c) \/ (child' = child /\ status' = status)
    BY DEF GuestStep, ChildWrites, ChildCloses, ChildBackgrounds, BackgroundEnds
  <2> QED
    BY <2>1, <2>2, <2>3
<1> QED
  BY <1>2, <1>3

LEMMA UiBeginsKeepsSafety ==
  ASSUME SafetyInv, Execute \/ Terminate \/ PollOutput
  PROVE  ChildAndThread' /\ FlagAndThread' /\ CodeAndChild'
<1>1. UNCHANGED <<members, pipes, io, guests>> /\ ui.pc = "idle"
  BY UiBeginsType DEF SafetyInv
<1>2. \/ ui'.pc = "kill" /\ mChildPid # 0
      \/ ui'.pc = "clear" /\ mChildPid = 0
      \/ ui'.pc = "spawn" /\ ~mIsRunning
      \/ ui'.pc = "isRunning"
  <2>1. CASE Execute
    BY <2>1 DEF Execute, TerminatePc
  <2>2. CASE Terminate
    BY <2>2 DEF Terminate, TerminatePc
  <2>3. CASE PollOutput
    <3>1. ui' = [ui EXCEPT !.pc = "isRunning"]
      BY <2>3 DEF PollOutput, UiGoto
    <3> QED
      BY <3>1 DEF SafetyInv, TypeInv, TypeOK
  <2> QED
    BY <2>1, <2>2, <2>3
<1>3. ChildAndThread'
  BY <1>1, <1>2 DEF SafetyInv, ChildAndThread, members, pipes
<1>4. FlagAndThread'
  BY <1>1, <1>2 DEF SafetyInv, FlagAndThread, members
<1>5. CodeAndChild'
  BY <1>1, <1>2 DEF SafetyInv, CodeAndChild, members, guests
<1> QED
  BY <1>3, <1>4, <1>5

LEMMA UiStepKeepsSafety ==
  ASSUME SafetyInv, UiStep
  PROVE  ChildAndThread' /\ FlagAndThread' /\ CodeAndChild'
<1>0. /\ ui \in UiType /\ mChildPid \in Pids /\ KernelType
      /\ mChildPid # 0 => mChildPid \in Children
  BY TypeParts, SpawnerAssumption DEF SafetyInv, TypeInv, Pids, Children
<1>1. CASE Spawn
  <2>1. ui'.pc = "setRunning"
    BY <1>0, <1>1, UiGotoType DEF Spawn, UiPcs
  <2>2. mChildPid' # 0
    BY <1>1, SpawnType DEF SafetyInv
  <2> QED
    BY <2>1, <2>2 DEF ChildAndThread, FlagAndThread, CodeAndChild
<1>2. CASE SpawnFails
  <2>1. ui' = Idle /\ ui.pc = "spawn" /\ fd' = 0 /\ UNCHANGED <<members, io, child, status>>
    BY <1>2 DEF SpawnFails, UiReturn, guests
  <2> QED
    BY <2>1 DEF SafetyInv, ChildAndThread, FlagAndThread, CodeAndChild, members, Idle
<1>3. CASE SetRunning
  <2>1. /\ ui.pc = "setRunning" /\ ui'.pc = "setCode"
        /\ UNCHANGED mChildPid
    BY <1>0, <1>3, UiGotoType DEF SetRunning, UiPcs
  <2> QED
    BY <2>1 DEF SafetyInv, ChildAndThread, FlagAndThread, CodeAndChild
<1>4. CASE SetCode
  <2>1. /\ ui.pc = "setCode" /\ ui'.pc = "join"
        /\ mExitCode' = 0 /\ UNCHANGED mChildPid
    BY <1>0, <1>4, UiGotoType DEF SetCode, UiPcs
  <2> QED
    BY <2>1 DEF SafetyInv, ChildAndThread, FlagAndThread, CodeAndChild
<1>5. CASE JoinAndStart
  <2>1. /\ ui.pc = "join" /\ ui' = Idle /\ io'.pc = "start"
        /\ UNCHANGED <<members, child, status>>
    BY <1>5 DEF JoinAndStart, UiReturn, NoThread, guests
  <2> QED
    BY <2>1 DEF SafetyInv, ChildAndThread, FlagAndThread, CodeAndChild, members, Idle
<1>6. CASE Kill
  <2>1. ui.pc = "kill" /\ ui'.pc = "reap" /\ UNCHANGED members
    BY <1>0, <1>6, UiGotoType DEF Kill, UiPcs
  <2>2. mExitCode # 0 /\ mChildPid # 0 => UNCHANGED <<child, status>>
    BY <1>6, <2>1 DEF Kill, SafetyInv, CodeAndChild, guests
  <2> QED
    BY <2>1, <2>2 DEF SafetyInv, ChildAndThread, FlagAndThread, CodeAndChild, members
<1>7. CASE WaitForChild
  <2>1. ui.pc = "reap" /\ ui'.pc = "clear" /\ mChildPid' = 0
    BY <1>0, <1>7, UiGotoType DEF WaitForChild, UiPcs
  <2> QED
    BY <2>1 DEF ChildAndThread, FlagAndThread, CodeAndChild
<1>8. CASE ClearRunning
  <2>1. ui.pc = "clear" /\ ui'.pc = "termJoin" /\ ~mIsRunning' /\ UNCHANGED mChildPid
    BY <1>0, <1>8, UiGotoType DEF ClearRunning, UiPcs
  <2> QED
    BY <2>1 DEF SafetyInv, ChildAndThread, FlagAndThread, CodeAndChild
<1>9. CASE JoinAndClean
  <2>1. /\ ui.pc = "termJoin" /\ io.pc = "none" /\ fd' = 0
        /\ UNCHANGED <<members, io>>
    BY <1>9 DEF JoinAndClean, Joinable
  <2>2. ui'.pc \in {"idle", "spawn"}
    BY <1>0, <1>9 DEF JoinAndClean, Idle, UiType
  <2> QED
    BY <2>1, <2>2 DEF SafetyInv, ChildAndThread, FlagAndThread, CodeAndChild, members
<1>10. CASE IsRunning
  <2> DEFINE reaps == mIsRunning /\ Reapable(mChildPid)
  <2>1. ui.pc = "isRunning" /\ ui' = Idle /\ UNCHANGED <<mChildPid, fd, io, status>>
    BY <1>10 DEF IsRunning, UiReturn, pipes
  <2>2. mIsRunning' = (mIsRunning /\ ~reaps)
    BY <1>10 DEF IsRunning
  <2>3. ChildAndThread'
    BY <2>1, <2>2 DEF SafetyInv, ChildAndThread, Idle
  <2>4. FlagAndThread'
    BY <2>1, <2>2 DEF SafetyInv, FlagAndThread, Idle
  <2>5. CodeAndChild'
    <3>1. CASE reaps
      <4>1. /\ child[mChildPid] = "zombie"
            /\ child' = [child EXCEPT ![mChildPid] = "reaped"]
            /\ mExitCode' \in {mExitCode, status[mChildPid]}
        BY <1>10, <3>1 DEF IsRunning, Reapable, Reap
      <4>2. mChildPid \in Children
        BY <1>0, <3>1 DEF Reapable
      <4>3. child'[mChildPid] = "reaped"
        BY <1>0, <4>1, <4>2 DEF KernelType
      <4>4. mExitCode = 0
        BY <1>0, <2>1, <4>1, <4>2, SpawnerAssumption DEF SafetyInv, CodeAndChild, Children
      <4> QED
        BY <2>1, <4>1, <4>3, <4>4 DEF CodeAndChild
    <3>2. CASE ~reaps
      <4>1. UNCHANGED <<child, mExitCode>>
        BY <1>10, <3>2 DEF IsRunning
      <4> QED
        BY <2>1, <4>1 DEF SafetyInv, CodeAndChild
    <3> QED
      BY <3>1, <3>2
  <2> QED
    BY <2>3, <2>4, <2>5
<1> QED
  BY <1>1, <1>2, <1>3, <1>4, <1>5, <1>6, <1>7, <1>8, <1>9, <1>10 DEF UiStep

LEMMA SafetyStep == ASSUME SafetyInv, [Next]_vars PROVE SafetyInv'
<1>1. TypeInv'
  BY TypeStep DEF SafetyInv
<1>2. ChildAndThread' /\ FlagAndThread' /\ CodeAndChild'
  <2>1. CASE Execute \/ Terminate \/ PollOutput
    BY <2>1, UiBeginsKeepsSafety
  <2>2. CASE UiStep
    BY <2>2, UiStepKeepsSafety
  <2>3. CASE IoStep
    BY <2>3, IoKeepsSafety
  <2>4. ASSUME NEW c \in Children, GuestStep(c)
        PROVE  ChildAndThread' /\ FlagAndThread' /\ CodeAndChild'
    BY <2>4, GuestKeepsSafety
  <2>5. CASE UNCHANGED vars
    BY <2>5 DEF SafetyInv, ChildAndThread, FlagAndThread, CodeAndChild, vars, members, pipes,
       guests
  <2> QED
    BY <2>1, <2>2, <2>3, <2>4, <2>5 DEF Next
<1> QED
  BY <1>1, <1>2 DEF SafetyInv

LEMMA SafetyInvariant == Spec => []SafetyInv
<1>1. Init => SafetyInv
  BY SafetyInit
<1>2. SafetyInv /\ [Next]_vars => SafetyInv'
  BY SafetyStep
<1> QED
  BY <1>1, <1>2, PTL DEF Spec

\* After a terminate() that found a child, no reader thread, no raised flag and no named
\* pipe is left when the UI thread is idle again (ProcessSpawner::terminate).
THEOREM AlwaysQuietAfterTerminate == Spec => []QuietAfterTerminate
<1>1. SafetyInv => QuietAfterTerminate
  BY DEF SafetyInv, ChildAndThread, QuietAfterTerminate
<1> QED
  BY <1>1, SafetyInvariant, PTL

\* Between UI calls a raised mIsRunning has a reader thread that will lower it
\* (ProcessSpawner::execute, ioLoop).
THEOREM RunningAlwaysHasAReader == Spec => []RunningHasAReader
<1>1. SafetyInv => RunningHasAReader
  BY DEF SafetyInv, FlagAndThread, RunningHasAReader
<1> QED
  BY <1>1, SafetyInvariant, PTL

\* The exit code shown between UI calls is 0 or the status of the child mChildPid names,
\* whoever of ioLoop and isRunning() reaped it.
THEOREM ExitCodeAlwaysOfThisChild == Spec => []ExitCodeOfThisChild
<1>1. SafetyInv => ExitCodeOfThisChild
  BY DEF SafetyInv, CodeAndChild, ExitCodeOfThisChild
<1> QED
  BY <1>1, SafetyInvariant, PTL
=============================================================================
