--------------------------- MODULE ProcessSpawner ---------------------------
(***************************************************************************)
(* The process spawner (process_spawner.cpp): one UI thread that calls     *)
(* execute, terminate, pollOutput and isRunning, one ioLoop thread that    *)
(* reads the child's stdout and stderr, and the kernel objects between     *)
(* them: children that exit, become zombies and are reaped once, pipes of  *)
(* bounded capacity, and the write ends that a child and the background    *)
(* processes it leaves behind hold.                                        *)
(*                                                                         *)
(* The N-th child and its three pipes carry the number N; 0 stands for the *)
(* -1 of mChildPid and of the pipe members.  The three pipes are created   *)
(* and forgotten together, so one number `fd` says what the members name.  *)
(* A chunk is what one read() returns; the text of the output is not       *)
(* modelled.                                                               *)
(***************************************************************************)
EXTENDS Integers, Sequences, FiniteSets

CONSTANTS
  MaxSpawns,     \* bound: how many children are forked in a behaviour
  PipeCap,       \* chunks a pipe holds before write() blocks
  Programs,      \* what a child writes before it may exit: sequences of streams
  MayBackground  \* whether a child may leave a background process behind

OutStreams == {"out", "err"}
Streams    == OutStreams \cup {"in"}
Children   == 1 .. MaxSpawns
Pids       == 0 .. MaxSpawns

ASSUME SpawnerAssumption ==
  /\ MaxSpawns \in Nat \ {0}
  /\ PipeCap \in Nat \ {0}
  /\ Programs \subseteq Seq(OutStreams)
  /\ MayBackground \in BOOLEAN

VARIABLES
  mChildPid, mIsRunning, mExitCode,  \* the atomics
  fd,       \* whose pipes mStdinPipe, mStdoutPipe and mStderrPipe name
  open,     \* the parent's pipe ends that are open, leaked ones included
  ui,       \* the UI thread: where it is in execute or terminate
  io,       \* mIoThread: where it is in ioLoop
  polling,  \* the UI's poll runnable is posted
  buffered, \* mOutputBuffer is not empty
  spawned,  \* children forked so far
  child,    \* each child's life in the kernel
  status,   \* the exit status waitpid() will report
  todo,     \* what each child has still to write
  holders,  \* who holds the write ends of each child's output pipes
  pipe      \* unread chunks of each child's streams

members == <<mChildPid, mIsRunning, mExitCode>>
pipes   == <<fd, open>>
guests  == <<child, status, todo, holders, pipe, spawned>>
vars    == <<members, pipes, ui, io, polling, buffered, guests>>

Signalled == 137
Codes     == {0, 1, Signalled}

UiPcs == {"idle", "isRunning", "spawn", "setRunning", "setCode", "join",
          "kill", "reap", "clear", "termJoin"}
IoPcs == {"none", "start", "check", "poll", "readOut", "readErr", "wait",
          "drainOut", "drainErr", "clear"}

TypeOK ==
  /\ mChildPid \in Pids
  /\ mIsRunning \in BOOLEAN
  /\ mExitCode \in Codes
  /\ fd \in Pids
  /\ open \subseteq Children \X Streams
  /\ ui \in [pc : UiPcs, then : {"idle", "spawn"}]
  /\ io \in [pc : IoPcs, watch : Pids, hasInput : SUBSET OutStreams,
             hungUp : BOOLEAN, rd : Pids]
  /\ polling \in BOOLEAN
  /\ buffered \in BOOLEAN
  /\ spawned \in Pids
  /\ child \in [Children -> {"unborn", "alive", "zombie", "reaped"}]
  /\ status \in [Children -> Codes]
  /\ todo \in [Children -> Seq(OutStreams)]
  /\ holders \in [Children -> SUBSET {"shell", "background"}]
  /\ pipe \in [Children -> [OutStreams -> 0 .. PipeCap]]

NoThread == [pc |-> "none", watch |-> 0, hasInput |-> {}, hungUp |-> FALSE, rd |-> 0]
Idle     == [pc |-> "idle", then |-> "idle"]

Init ==
  /\ mChildPid = 0 /\ mIsRunning = FALSE /\ mExitCode = 0
  /\ fd = 0 /\ open = {}
  /\ ui = Idle /\ io = NoThread
  /\ polling = FALSE /\ buffered = FALSE /\ spawned = 0
  /\ child = [c \in Children |-> "unborn"]
  /\ status = [c \in Children |-> 0]
  /\ todo = [c \in Children |-> <<>>]
  /\ holders = [c \in Children |-> {}]
  /\ pipe = [c \in Children |-> [s \in OutStreams |-> 0]]

-----------------------------------------------------------------------------
(* The guest side of the kernel. *)

HasWriter(c) == holders[c] # {}
Dead(c)      == child[c] \in {"zombie", "reaped"}

\* A child writes its next chunk; with the parent's read end closed the write fails.
ChildWrites(c) ==
  /\ child[c] = "alive" /\ "shell" \in holders[c] /\ todo[c] # <<>>
  /\ LET s == Head(todo[c]) IN
       \/ /\ <<c, s>> \in open /\ pipe[c][s] < PipeCap
          /\ pipe' = [pipe EXCEPT ![c][s] = @ + 1]
       \/ <<c, s>> \notin open /\ UNCHANGED pipe
  /\ todo' = [todo EXCEPT ![c] = Tail(@)]
  /\ UNCHANGED <<members, pipes, ui, io, polling, buffered, spawned, child, status, holders>>

\* A child that has written everything closes its output streams and lives on.  An
\* exiting process does the same just before it becomes a zombie.
ChildCloses(c) ==
  /\ child[c] = "alive" /\ todo[c] = <<>> /\ "shell" \in holders[c]
  /\ holders' = [holders EXCEPT ![c] = @ \ {"shell"}]
  /\ UNCHANGED <<members, pipes, ui, io, polling, buffered, spawned, child, status, todo, pipe>>

\* "cmd &": a descendant inherits the output streams and may outlive the shell.
ChildBackgrounds(c) ==
  /\ MayBackground
  /\ child[c] = "alive" /\ holders[c] = {"shell"}
  /\ holders' = [holders EXCEPT ![c] = @ \cup {"background"}]
  /\ UNCHANGED <<members, pipes, ui, io, polling, buffered, spawned, child, status, todo, pipe>>

BackgroundEnds(c) ==
  /\ "background" \in holders[c]
  /\ holders' = [holders EXCEPT ![c] = @ \ {"background"}]
  /\ UNCHANGED <<members, pipes, ui, io, polling, buffered, spawned, child, status, todo, pipe>>

Die(c, code) ==
  /\ child' = [child EXCEPT ![c] = "zombie"]
  /\ status' = [status EXCEPT ![c] = code]
  /\ holders' = [holders EXCEPT ![c] = @ \ {"shell"}]
  /\ todo' = [todo EXCEPT ![c] = <<>>]
  /\ UNCHANGED <<pipe, spawned>>

\* The child exits, or dies of a signal of its own.  Status 0 would only look like the
\* code that execute() resets, so the exits that are told apart are the others.
ChildExits(c) ==
  /\ child[c] = "alive" /\ todo[c] = <<>>
  /\ \E code \in Codes \ {0} : Die(c, code)
  /\ UNCHANGED <<members, pipes, ui, io, polling, buffered>>

\* waitpid(c) has a status to return, once.
Reapable(c) == c # 0 /\ child[c] = "zombie"
Reap(c)     == child' = [child EXCEPT ![c] = "reaped"]

-----------------------------------------------------------------------------
(* ioLoop, one action per step of the thread. *)

\* The poll results are forgotten once they have been acted on.
IoGoto(pc) ==
  io' = IF pc = "readErr" THEN [io EXCEPT !.pc = pc, !.rd = 0]
        ELSE [NoThread EXCEPT !.pc = pc, !.watch = io.watch]

\* The two pollfd are filled once, from the members as they are when the thread runs.
IoStart ==
  /\ io.pc = "start"
  /\ io' = [io EXCEPT !.pc = "check", !.watch = fd]
  /\ UNCHANGED <<members, pipes, ui, polling, buffered, guests>>

IoCheck ==
  /\ io.pc = "check"
  /\ IoGoto(IF mIsRunning THEN "poll" ELSE "drainOut")
  /\ UNCHANGED <<members, pipes, ui, polling, buffered, guests>>

\* poll() reports, for the descriptors filled at the start, input and hang-up.
IoPoll ==
  /\ io.pc = "poll"
  /\ LET watched == {s \in OutStreams : <<io.watch, s>> \in open} IN
       io' = [io EXCEPT
                !.pc = "readOut",
                !.hasInput = {s \in watched : pipe[io.watch][s] > 0},
                !.hungUp   = watched = OutStreams /\ ~HasWriter(io.watch)]
  /\ UNCHANGED <<members, pipes, ui, polling, buffered, guests>>

\* The stream the thread reads next, and whether a read() there is called for.
IoStream    == IF io.pc \in {"readOut", "drainOut"} THEN "out" ELSE "err"
IoReading   == io.pc \in {"readOut", "readErr", "drainOut", "drainErr"}
IoDraining  == io.pc \in {"drainOut", "drainErr"}
IoWantsRead == fd # 0 /\ (IoDraining \/ IoStream \in io.hasInput)

AfterRead ==
  CASE io.pc = "readOut"  -> "readErr"
    [] io.pc = "readErr"  -> IF io.hungUp THEN "drainOut" ELSE "wait"
    [] io.pc = "drainOut" -> "drainErr"
    [] io.pc = "drainErr" -> "clear"

IoSkipRead ==
  /\ IoReading /\ io.rd = 0 /\ ~IoWantsRead
  /\ IoGoto(AfterRead)
  /\ UNCHANGED <<members, pipes, ui, polling, buffered, guests>>

\* read() is entered on the descriptor the member names now, not on the polled one.
IoBeginRead ==
  /\ IoReading /\ io.rd = 0 /\ IoWantsRead
  /\ io' = [io EXCEPT !.rd = fd]
  /\ UNCHANGED <<members, pipes, ui, polling, buffered, guests>>

\* read() returns a chunk, which is appended under mOutputMutex.
IoReadChunk ==
  /\ io.rd # 0 /\ pipe[io.rd][IoStream] > 0
  /\ pipe' = [pipe EXCEPT ![io.rd][IoStream] = @ - 1]
  /\ buffered' = TRUE
  /\ IoGoto(IF IoDraining THEN io.pc ELSE AfterRead)
  /\ UNCHANGED <<members, pipes, ui, polling, spawned, child, status, todo, holders>>

\* read() returns 0: the pipe is empty and nobody can write to it.
IoReadEof ==
  /\ io.rd # 0 /\ pipe[io.rd][IoStream] = 0 /\ ~HasWriter(io.rd)
  /\ IoGoto(AfterRead)
  /\ UNCHANGED <<members, pipes, ui, polling, buffered, guests>>

\* waitpid(WNOHANG) on the current mChildPid.
IoWait ==
  /\ io.pc = "wait"
  /\ \/ /\ Reapable(mChildPid)
        /\ Reap(mChildPid)
        /\ mExitCode' = status[mChildPid]
        /\ IoGoto("drainOut")
     \/ /\ ~Reapable(mChildPid)
        /\ IoGoto("check")
        /\ UNCHANGED <<child, mExitCode>>
  /\ UNCHANGED <<mChildPid, mIsRunning, pipes, ui, polling, buffered, spawned, status, todo,
                 holders, pipe>>

\* Mutant: the loop ends without lowering the flag.
IoClearKeepsFlag ==
  /\ io.pc = "clear"
  /\ io' = NoThread
  /\ UNCHANGED <<members, pipes, ui, polling, buffered, guests>>

IoClear ==
  /\ io.pc = "clear"
  /\ mIsRunning' = FALSE
  /\ io' = NoThread
  /\ UNCHANGED <<mChildPid, mExitCode, pipes, ui, polling, buffered, guests>>

IoStep ==
  \/ IoStart \/ IoCheck \/ IoPoll \/ IoSkipRead \/ IoBeginRead
  \/ IoReadChunk \/ IoReadEof \/ IoWait \/ IoClear

-----------------------------------------------------------------------------
(* The UI thread.  Each call runs to its end before the next one starts. *)

UiGoto(pc)  == ui' = [ui EXCEPT !.pc = pc]
UiReturn    == ui' = Idle
Joinable    == io.pc = "none"   \* join() returns at once

\* Where terminate() begins: it has no child to signal without an mChildPid.
TerminatePc == IF mChildPid = 0 THEN "clear" ELSE "kill"

\* execute() after another process: terminate() first if the flag says one is running.
Execute ==
  /\ ui.pc = "idle"
  /\ ui' = IF mIsRunning THEN [pc |-> TerminatePc, then |-> "spawn"]
                         ELSE [pc |-> "spawn", then |-> "idle"]
  /\ UNCHANGED <<members, pipes, io, polling, buffered, guests>>

\* pipe2 x 3, fork() and the store of its result: the members name the new pipes, whatever
\* they named before.
Spawn ==
  /\ ui.pc = "spawn" /\ spawned < MaxSpawns
  /\ LET c == spawned + 1 IN
       /\ spawned' = c /\ mChildPid' = c
       /\ fd' = c
       /\ open' = open \cup ({c} \X Streams)
       /\ child' = [child EXCEPT ![c] = "alive"]
       /\ holders' = [holders EXCEPT ![c] = {"shell"}]
       /\ \E prog \in Programs : todo' = [todo EXCEPT ![c] = prog]
  /\ UiGoto("setRunning")
  /\ UNCHANGED <<mIsRunning, mExitCode, io, polling, buffered, status, pipe>>

\* A pipe2 or the fork fails: cleanupPipes() closes what the members name by then.  The
\* streams whose pipe2 succeeded have lost the descriptor they named before.
SpawnFails ==
  /\ ui.pc = "spawn"
  /\ \E created \in {{}, {"in"}, {"in", "out"}, Streams} :
       open' = open \ ({fd} \X (Streams \ created))
  /\ fd' = 0
  /\ UiReturn
  /\ UNCHANGED <<members, io, polling, buffered, guests>>

SetRunning ==
  /\ ui.pc = "setRunning"
  /\ mIsRunning' = TRUE
  /\ UiGoto("setCode")
  /\ UNCHANGED <<mChildPid, mExitCode, pipes, io, polling, buffered, guests>>

\* Mutant: the exit code of the previous child is kept.
SetCodeForgotten ==
  /\ ui.pc = "setCode"
  /\ UiGoto("join")
  /\ UNCHANGED <<members, pipes, io, polling, buffered, guests>>

SetCode ==
  /\ ui.pc = "setCode"
  /\ mExitCode' = 0
  /\ UiGoto("join")
  /\ UNCHANGED <<mChildPid, mIsRunning, pipes, io, polling, buffered, guests>>

\* The old ioLoop is joined, the new one starts, the UI posts its poll runnable.
JoinAndStart ==
  /\ ui.pc = "join" /\ Joinable
  /\ io' = [NoThread EXCEPT !.pc = "start"]
  /\ polling' = TRUE
  /\ UiReturn
  /\ UNCHANGED <<members, pipes, buffered, guests>>

\* The kill button, onDestroy and the destructor.
Terminate ==
  /\ ui.pc = "idle"
  /\ ui' = [pc |-> TerminatePc, then |-> "idle"]
  /\ UNCHANGED <<members, pipes, io, polling, buffered, guests>>

\* Mutant: SIGTERM only, which the child may ignore.
KillWithSigtermOnly ==
  /\ ui.pc = "kill"
  /\ UiGoto("reap")
  /\ UNCHANGED <<members, pipes, io, polling, buffered, guests>>

\* SIGTERM, the grace period and SIGKILL.  In the grace period the child may exit by itself,
\* which ChildExits models.  Only the UI thread writes mChildPid: terminate()'s copy is equal.
Kill ==
  /\ ui.pc = "kill"
  /\ IF child[mChildPid] = "alive" THEN Die(mChildPid, Signalled) ELSE UNCHANGED guests
  /\ UiGoto("reap")
  /\ UNCHANGED <<members, pipes, io, polling, buffered>>

\* waitpid() without WNOHANG: it returns with the zombie, or with ECHILD if ioLoop had it.
WaitForChild ==
  /\ ui.pc = "reap" /\ child[mChildPid] # "alive"
  /\ IF Reapable(mChildPid) THEN Reap(mChildPid) ELSE UNCHANGED child
  /\ mChildPid' = 0
  /\ UiGoto("clear")
  /\ UNCHANGED <<mIsRunning, mExitCode, pipes, io, polling, buffered, spawned, status, todo,
                 holders, pipe>>

ClearRunning ==
  /\ ui.pc = "clear"
  /\ mIsRunning' = FALSE
  /\ UiGoto("termJoin")
  /\ UNCHANGED <<mChildPid, mExitCode, pipes, io, polling, buffered, guests>>

\* Mutant: terminate() does not join the reader thread.
CleanWithoutJoin ==
  /\ ui.pc = "termJoin"
  /\ open' = open \ ({fd} \X Streams)
  /\ fd' = 0
  /\ ui' = [Idle EXCEPT !.pc = ui.then]
  /\ UNCHANGED <<members, io, polling, buffered, guests>>

JoinAndClean ==
  /\ ui.pc = "termJoin" /\ Joinable
  /\ open' = open \ ({fd} \X Streams)
  /\ fd' = 0
  /\ ui' = [Idle EXCEPT !.pc = ui.then]
  /\ UNCHANGED <<members, io, polling, buffered, guests>>

\* The poll runnable: pollOutput(), then isRunning().
PollOutput ==
  /\ ui.pc = "idle" /\ polling
  /\ buffered' = FALSE
  /\ UiGoto("isRunning")
  /\ UNCHANGED <<members, pipes, io, polling, guests>>

IsRunning ==
  /\ ui.pc = "isRunning"
  /\ LET reaps == mIsRunning /\ Reapable(mChildPid) IN
       /\ mIsRunning' = (mIsRunning /\ ~reaps)
       /\ IF reaps THEN Reap(mChildPid) ELSE UNCHANGED child
       /\ IF reaps /\ status[mChildPid] # Signalled
          THEN mExitCode' = status[mChildPid] ELSE UNCHANGED mExitCode
       /\ polling' = (mIsRunning /\ mChildPid # 0 /\ ~reaps)
  /\ UiReturn
  /\ UNCHANGED <<mChildPid, pipes, io, buffered, spawned, status, todo, holders, pipe>>

\* What the UI thread does once a call has begun.
UiStep ==
  \/ Spawn \/ SpawnFails \/ SetRunning \/ SetCode \/ JoinAndStart
  \/ Kill \/ WaitForChild \/ ClearRunning \/ JoinAndClean \/ IsRunning

GuestStep(c) ==
  \/ ChildWrites(c) \/ ChildCloses(c) \/ ChildBackgrounds(c) \/ BackgroundEnds(c)
  \/ ChildExits(c)

Next ==
  \/ Execute \/ Terminate \/ PollOutput
  \/ UiStep
  \/ IoStep
  \/ \E c \in Children : GuestStep(c)

Spec == Init /\ [][Next]_vars

(***************************************************************************)
(* Both threads are scheduled, and the main looper's queue is FIFO, so the *)
(* posted poll runnable is not overtaken for ever by other UI calls.  A    *)
(* background process is assumed to end some day; nothing is assumed of    *)
(* the child itself, which may run or wait for input for ever.             *)
(***************************************************************************)
Fairness ==
  /\ WF_vars(UiStep) /\ WF_vars(IoStep) /\ SF_vars(PollOutput)
  /\ \A c \in Children : WF_vars(BackgroundEnds(c))

FairSpec == Spec /\ Fairness

-----------------------------------------------------------------------------
(* Properties. *)

\* A terminate() that found a child leaves nothing behind that it knows of: with no
\* mChildPid and the UI idle there is no ioLoop thread, no running flag, no named pipe.
QuietAfterTerminate ==
  ui.pc = "idle" /\ mChildPid = 0 => io.pc = "none" /\ ~mIsRunning /\ fd = 0

\* Between UI calls a raised mIsRunning has an ioLoop that will lower it: the flag is
\* raised before the thread starts, so it cannot stay up after the thread has gone.
RunningHasAReader == ui.pc = "idle" /\ mIsRunning => io.pc # "none"

\* Between UI calls mExitCode is 0 or the status of the child that mChildPid names, never
\* one left over from, or reaped by, the thread of an earlier child.
ExitCodeOfThisChild ==
  ui.pc = "idle" /\ mChildPid # 0 /\ mExitCode # 0 =>
    child[mChildPid] = "reaped" /\ mExitCode = status[mChildPid]

\* README.md:54 "non-blocking streaming UNIX pipes": a call of execute() returns, given
\* that every guest program ends once it has written what it has to write.
GuestsEnd == \A c \in Children : WF_vars(ChildWrites(c)) /\ WF_vars(ChildExits(c))
EndingSpec == FairSpec /\ GuestsEnd
ExecuteReturns == ui.pc = "spawn" ~> ui.pc = "idle"

\* The kill button comes back: every terminate() ends, whatever the child does.
KillReturns == ui.pc \in {"kill", "clear"} ~> ui.pc \in {"idle", "spawn"}

\* Once the child it polls for is dead and nobody holds its pipes, the poll runnable stops
\* and the UI shows IDLE, unless another child takes over.
PollIsFutile ==
  polling /\ mChildPid # 0 /\ Dead(mChildPid) /\ ~HasWriter(mChildPid)
PollerGoesIdle == PollIsFutile ~> ~PollIsFutile
=============================================================================
