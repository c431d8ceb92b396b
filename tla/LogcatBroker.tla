---------------------------- MODULE LogcatBroker ----------------------------
(***************************************************************************)
(* The logcat and tombstone broker (logcat_broker.cpp): a ring of log      *)
(* entries under mLogMutex, a worker that takes datagrams from logdw, a    *)
(* worker that serves logdr clients one after the other, and the UI thread *)
(* that starts and stops both, dumps tombstones and clears the ring.       *)
(*                                                                         *)
(* A critical section of mLogMutex is one action.  An entry keeps its      *)
(* sequence number, buffer and priority; tags, times and text are left out.*)
(***************************************************************************)
EXTENDS Integers, Sequences, FiniteSets

CONSTANTS
  MaxEntries,   \* mMaxEntries, 5000 in every start() of the engine
  Slots,        \* number of tombstone files before the index wraps: 20
  Packets,      \* the datagrams guests send
  Readers,      \* logdr clients
  NoReader,     \* not a reader
  SendBuffer,   \* lines a client's connection takes before send() has to wait for it
  MaxSeq,       \* bound: entries logged in a behaviour
  QueueCap      \* bound: datagrams waiting in the logdw socket

Info  == 4
Fatal == 7
Main   == 0
System == 3
Crash  == 4

PacketType == [kind : {"text", "bare", "log"}, id : 0 .. 255, prio : 0 .. 255]

ASSUME BrokerAssumption ==
  /\ MaxEntries \in Nat \ {0}
  /\ Slots \in Nat \ {0} /\ SendBuffer \in Nat \ {0}
  /\ MaxSeq \in Nat /\ QueueCap \in Nat
  /\ Packets \subseteq PacketType
  /\ NoReader \notin Readers

VARIABLES
  ring, mSeqCounter, mTotalReceived, mTotalCrashes,  \* guarded by mLogMutex
  mIsRunning, bound,   \* bound: the two sockets exist (mLogdwFd, mLogdrFd >= 0)
  files,               \* which dump each tombstone file holds, 0 for none
  dumps,               \* tombstones dumped
  clearedAt,           \* history: the last entry logged before the ring was last cleared
  ui, writer, reader,  \* the UI thread, the logdw worker, the logdr worker
  queue,               \* datagrams waiting in the logdw socket
  client,              \* each logdr client
  received             \* the entries the client being served has been sent

log     == <<ring, mSeqCounter, mTotalReceived, mTotalCrashes>>
disk    == <<files, dumps, clearedAt>>
guests  == <<client, received>>
vars    == <<log, mIsRunning, bound, disk, ui, writer, reader, queue, guests>>

Entries   == [seq : Nat, buf : 0 .. 7, prio : 0 .. 7]
SlotIndex == 0 .. Slots - 1
NoPacket  == [kind |-> "none", id |-> 0, prio |-> 0]
IdleWriter == [pc |-> "none", packet |-> NoPacket]
IdleReader == [pc |-> "none", client |-> NoReader, lines |-> <<>>, i |-> 1]
Away      == [at |-> "away", asks |-> FALSE, unread |-> 0]

\* A client, whether it sends a command, and the lines it has been sent and has not read.
Clients == [at : {"away", "queued", "accepted"}, asks : BOOLEAN, unread : 0 .. SendBuffer]

TypeOK ==
  /\ ring \in Seq(Entries)
  /\ mSeqCounter \in Nat /\ mTotalReceived \in Nat /\ mTotalCrashes \in Nat
  /\ mIsRunning \in BOOLEAN /\ bound \in BOOLEAN
  /\ files \in [SlotIndex -> Nat] /\ dumps \in Nat /\ clearedAt \in Nat
  /\ ui \in {"idle", "closing", "joining"}
  /\ writer \in [pc : {"none", "check", "poll", "handle"}, packet : Packets \cup {NoPacket}]
  /\ reader \in [pc : {"none", "check", "poll", "read", "snapshot", "send"},
                 client : Readers \cup {NoReader}, lines : Seq(Entries), i : Nat \ {0}]
  /\ queue \in Seq(Packets)
  /\ client \in [Readers -> Clients]
  /\ received \in Seq(Entries)

\* The tombstones are those of an earlier process.
Init ==
  /\ ring = <<>> /\ mSeqCounter = 0 /\ mTotalReceived = 0 /\ mTotalCrashes = 0
  /\ mIsRunning = FALSE /\ bound = FALSE
  /\ dumps \in 0 .. Slots /\ clearedAt = 0
  /\ files = [k \in SlotIndex |-> IF k < dumps THEN k + 1 ELSE 0]
  /\ ui = "idle" /\ writer = IdleWriter /\ reader = IdleReader
  /\ queue = <<>>
  /\ client = [r \in Readers |-> Away] /\ received = <<>>

\* The bound leaves room for what is already on its way to the ring.
RoomToLog ==
  mSeqCounter + Len(queue) + (IF writer.pc = "handle" THEN 1 ELSE 0) < MaxSeq

-----------------------------------------------------------------------------
(* The ring. *)

\* Mutant: the bound is compared one too early.
TrimEarly(r) == IF Len(r) >= MaxEntries THEN Tail(r) ELSE r

\* push_back, then pop_front while the critical section lasts, at most once.
Push(entry) == Append(ring, entry)
Trim(r)     == IF Len(r) > MaxEntries THEN Tail(r) ELSE r

appendLog(buf, prio) ==
  /\ mSeqCounter' = mSeqCounter + 1
  /\ mTotalReceived' = mTotalReceived + 1
  /\ mTotalCrashes' = IF buf = Crash THEN mTotalCrashes + 1 ELSE mTotalCrashes
  /\ ring' = Trim(Push([seq |-> mSeqCounter + 1, buf |-> buf, prio |-> prio]))

\* handleLogdwPacket: text without a header, a header alone, or a log record.
handleLogdwPacket(p) ==
  CASE p.kind = "text" -> appendLog(Main, Info)
    [] p.kind = "bare" -> UNCHANGED log
    [] p.kind = "log"  -> appendLog(IF p.id <= 7 THEN p.id ELSE Main,
                                    IF p.prio \in 2 .. 7 THEN p.prio ELSE Info)

\* The name of the next tombstone follows from the highest index on disk.
Taken == {k \in SlotIndex : files[k] # 0}

\* Mutant: the highest index in use instead of the one after it.
NextSlotReused == IF Taken = {} THEN 0 ELSE CHOOSE k \in Taken : \A j \in Taken : j <= k

NextSlot ==
  IF Taken = {} THEN 0 ELSE ((CHOOSE k \in Taken : \A j \in Taken : j <= k) + 1) % Slots

\* Mutant: the crash entry repeats the last sequence number.
dumpTombstoneSameSeq ==
  /\ ui = "idle" /\ RoomToLog
  /\ dumps' = dumps + 1
  /\ files' = [files EXCEPT ![NextSlot] = dumps + 1]
  /\ mTotalCrashes' = mTotalCrashes + 1
  /\ ring' = Push([seq |-> mSeqCounter, buf |-> Crash, prio |-> Fatal])
  /\ UNCHANGED <<mSeqCounter, mTotalReceived, mIsRunning, bound, clearedAt, ui, writer, reader,
                 queue, guests>>

\* One critical section: the file, then the crash entry, which is not trimmed and not
\* counted as received.  The file may fail to open; the entry is logged all the same.
dumpTombstone ==
  /\ ui = "idle" /\ RoomToLog
  /\ dumps' = dumps + 1
  /\ \/ files' = [files EXCEPT ![NextSlot] = dumps + 1]
     \/ UNCHANGED files
  /\ mSeqCounter' = mSeqCounter + 1
  /\ mTotalCrashes' = mTotalCrashes + 1
  /\ ring' = Push([seq |-> mSeqCounter + 1, buf |-> Crash, prio |-> Fatal])
  /\ UNCHANGED <<mTotalReceived, mIsRunning, bound, clearedAt, ui, writer, reader, queue,
                 guests>>

clearLogs ==
  /\ ui = "idle"
  /\ ring' = <<>> /\ clearedAt' = mSeqCounter
  /\ UNCHANGED <<mSeqCounter, mTotalReceived, mTotalCrashes, mIsRunning, bound, files, dumps,
                 ui, writer, reader, queue, guests>>

-----------------------------------------------------------------------------
(* start() and stop(). *)

start ==
  /\ ui = "idle" /\ ~mIsRunning /\ RoomToLog
  /\ mIsRunning' = TRUE /\ bound' = TRUE
  /\ appendLog(System, Info)
  /\ writer' = [IdleWriter EXCEPT !.pc = "check"]
  /\ reader' = [IdleReader EXCEPT !.pc = "check"]
  /\ UNCHANGED <<disk, ui, queue, guests>>

stop ==
  /\ ui = "idle" /\ mIsRunning
  /\ mIsRunning' = FALSE
  /\ ui' = "closing"
  /\ UNCHANGED <<log, bound, disk, writer, reader, queue, guests>>

\* Both sockets are closed: what waits in them is lost.
CloseSockets ==
  /\ ui = "closing"
  /\ bound' = FALSE /\ queue' = <<>>
  /\ client' = [r \in Readers |-> IF client[r].at = "queued" THEN Away ELSE client[r]]
  /\ ui' = "joining"
  /\ UNCHANGED <<log, mIsRunning, disk, writer, reader, received>>

\* Mutant: only the reader thread is joined.
JoinReaderOnly ==
  /\ ui = "joining" /\ reader.pc = "none"
  /\ ui' = "idle"
  /\ UNCHANGED <<log, mIsRunning, bound, disk, writer, reader, queue, guests>>

JoinWorkers ==
  /\ ui = "joining" /\ writer.pc = "none" /\ reader.pc = "none"
  /\ ui' = "idle"
  /\ UNCHANGED <<log, mIsRunning, bound, disk, writer, reader, queue, guests>>

-----------------------------------------------------------------------------
(* logdwWorkerLoop. *)

\* Mutant: the worker loops without looking at the flag.
WriterLoopsForever ==
  /\ writer.pc = "check"
  /\ writer' = [IdleWriter EXCEPT !.pc = "poll"]
  /\ UNCHANGED <<log, mIsRunning, bound, disk, ui, reader, queue, guests>>

WriterChecks ==
  /\ writer.pc = "check"
  /\ writer' = [IdleWriter EXCEPT !.pc = IF mIsRunning THEN "poll" ELSE "none"]
  /\ UNCHANGED <<log, mIsRunning, bound, disk, ui, reader, queue, guests>>

\* The flag may have fallen since; the datagram is taken as long as the socket is there.
WriterReceives ==
  /\ writer.pc = "poll" /\ queue # <<>>
  /\ writer' = [pc |-> "handle", packet |-> Head(queue)]
  /\ queue' = Tail(queue)
  /\ UNCHANGED <<log, mIsRunning, bound, disk, ui, reader, guests>>

WriterHandles ==
  /\ writer.pc = "handle"
  /\ handleLogdwPacket(writer.packet)
  /\ writer' = [IdleWriter EXCEPT !.pc = "check"]
  /\ UNCHANGED <<mIsRunning, bound, disk, ui, reader, queue, guests>>

\* poll() times out, the socket being empty or closed.
WriterTimesOut ==
  /\ writer.pc = "poll" /\ queue = <<>>
  /\ writer' = [IdleWriter EXCEPT !.pc = "check"]
  /\ UNCHANGED <<log, mIsRunning, bound, disk, ui, reader, queue, guests>>

-----------------------------------------------------------------------------
(* logdrWorkerLoop and handleLogdrClient. *)

ReaderChecks ==
  /\ reader.pc = "check"
  /\ reader' = [IdleReader EXCEPT !.pc = IF mIsRunning THEN "poll" ELSE "none"]
  /\ UNCHANGED <<log, mIsRunning, bound, disk, ui, writer, queue, guests>>

ReaderTimesOut ==
  /\ reader.pc = "poll" /\ \A r \in Readers : client[r].at # "queued"
  /\ reader' = [IdleReader EXCEPT !.pc = "check"]
  /\ UNCHANGED <<log, mIsRunning, bound, disk, ui, writer, queue, guests>>

ReaderAccepts(r) ==
  /\ reader.pc = "poll" /\ client[r].at = "queued"
  /\ reader' = [IdleReader EXCEPT !.pc = "read", !.client = r]
  /\ client' = [client EXCEPT ![r].at = "accepted"]
  /\ received' = <<>>
  /\ UNCHANGED <<log, mIsRunning, bound, disk, ui, writer, queue>>

\* The blocking read() of the command: it returns when the client writes or hangs up.
ReaderReads ==
  /\ reader.pc = "read"
  /\ client[reader.client].asks \/ client[reader.client].at = "away"
  /\ reader' = [reader EXCEPT !.pc = "snapshot"]
  /\ UNCHANGED <<log, mIsRunning, bound, disk, ui, writer, queue, guests>>

ReaderSnapshots ==
  /\ reader.pc = "snapshot"
  /\ reader' = [reader EXCEPT !.pc = "send", !.lines = ring]
  /\ UNCHANGED <<log, mIsRunning, bound, disk, ui, writer, queue, guests>>

\* Mutant: the loop walks the ring itself, an entry per send().
ReaderSendsFromRing ==
  /\ reader.pc = "send" /\ reader.i <= Len(reader.lines) /\ reader.i <= Len(ring)
  /\ client[reader.client].at = "accepted" /\ client[reader.client].unread < SendBuffer
  /\ received' = Append(received, ring[reader.i])
  /\ client' = [client EXCEPT ![reader.client].unread = @ + 1]
  /\ reader' = [reader EXCEPT !.i = @ + 1]
  /\ UNCHANGED <<log, mIsRunning, bound, disk, ui, writer, queue>>

\* One send() of the loop over the snapshot.  It waits while the connection takes no more.
ReaderSends ==
  /\ reader.pc = "send" /\ reader.i <= Len(reader.lines)
  /\ client[reader.client].at = "accepted" /\ client[reader.client].unread < SendBuffer
  /\ received' = Append(received, reader.lines[reader.i])
  /\ client' = [client EXCEPT ![reader.client].unread = @ + 1]
  /\ reader' = [reader EXCEPT !.i = @ + 1]
  /\ UNCHANGED <<log, mIsRunning, bound, disk, ui, writer, queue>>

\* Everything is sent, or a send() failed: the connection is closed.
ReaderFinishes ==
  /\ reader.pc = "send"
  /\ reader.i > Len(reader.lines) \/ client[reader.client].at = "away"
  /\ client' = [client EXCEPT ![reader.client] = Away]
  /\ reader' = [IdleReader EXCEPT !.pc = "check"]
  /\ received' = <<>>
  /\ UNCHANGED <<log, mIsRunning, bound, disk, ui, writer, queue>>

-----------------------------------------------------------------------------
(* Guests. *)

GuestLogs ==
  /\ bound /\ Len(queue) < QueueCap /\ RoomToLog
  /\ \E p \in Packets : queue' = Append(queue, p)
  /\ UNCHANGED <<log, mIsRunning, bound, disk, ui, writer, reader, guests>>

\* A client connects, and either sends a command or stays silent.
ClientConnects(r) ==
  /\ bound /\ client[r] = Away /\ reader.client # r
  /\ \E asks \in BOOLEAN : client' = [client EXCEPT ![r] = [Away EXCEPT !.at = "queued",
                                                                       !.asks = asks]]
  /\ UNCHANGED <<log, mIsRunning, bound, disk, ui, writer, reader, queue, received>>

ClientReads(r) ==
  /\ client[r].unread > 0
  /\ client' = [client EXCEPT ![r].unread = @ - 1]
  /\ UNCHANGED <<log, mIsRunning, bound, disk, ui, writer, reader, queue, received>>

ClientHangsUp(r) ==
  /\ client[r].at = "accepted"
  /\ client' = [client EXCEPT ![r] = Away]
  /\ UNCHANGED <<log, mIsRunning, bound, disk, ui, writer, reader, queue, received>>

-----------------------------------------------------------------------------

WriterStep == WriterChecks \/ WriterReceives \/ WriterTimesOut \/ WriterHandles
ReaderStep ==
  \/ \E r \in Readers : ReaderAccepts(r)
  \/ ReaderChecks \/ ReaderTimesOut
  \/ ReaderReads \/ ReaderSnapshots \/ ReaderSends \/ ReaderFinishes
StopStep   == CloseSockets \/ JoinWorkers

Next ==
  \/ start \/ stop \/ dumpTombstone \/ clearLogs
  \/ StopStep \/ WriterStep \/ ReaderStep
  \/ GuestLogs
  \/ \E r \in Readers : ClientConnects(r) \/ ClientReads(r) \/ ClientHangsUp(r)

Spec == Init /\ [][Next]_vars

\* The three threads are scheduled.  Of the clients nothing is assumed.
Fairness == WF_vars(StopStep) /\ WF_vars(WriterStep) /\ WF_vars(ReaderStep)

FairSpec == Spec /\ Fairness
-----------------------------------------------------------------------------
(* Properties. *)

\* The ring holds the newest entries, all of them since the oldest it holds, in the order
\* of their sequence numbers: what two workers and the UI log meanwhile is never lost,
\* doubled or out of order, only the oldest is dropped.
RingIsAWindow ==
  \A i \in 1 .. Len(ring) : ring[i].seq = mSeqCounter - Len(ring) + i

\* No entry is dropped before MaxEntries newer ones are there: a shorter ring holds all that
\* was logged since it was cleared, whoever logs, crashes and clears in between.
RingKeepsTheNewest ==
  Len(ring) >= MaxEntries \/ Len(ring) = mSeqCounter - clearedAt

\* "5,000-entry in-memory ring buffer" (README.md:38).  Not so, and in no run: dumpTombstone()
\* does not trim what it pushes, and appendLog() then drops one entry for the one it adds.
RingHoldsMaxEntries == Len(ring) <= MaxEntries

\* A logdr client is sent a stretch of the log without a gap, whatever is logged, dropped
\* or cleared while the loop is sending.
ClientSeesNoGap ==
  \A i \in 1 .. Len(received) : received[i].seq = received[1].seq + i - 1

\* After stop() has returned nothing is received any more, until the next start(): both
\* workers have been joined and none has a datagram in hand.
SilentWhenStopped ==
  [][ui = "idle" /\ ~mIsRunning => mIsRunning' \/ mTotalReceived' = mTotalReceived]_vars

\* A tombstone file is overwritten only when no file is free.
NoEarlyOverwrite ==
  [][\A k \in SlotIndex : files[k] # 0 /\ files'[k] # files[k] => Taken = SlotIndex]_vars

\* A client holds the logdr thread: it has not sent its command, or does not read what it is
\* sent, and does not hang up.
HeldByClient ==
  \/ /\ reader.pc = "read"
     /\ client[reader.client].at = "accepted" /\ ~client[reader.client].asks
  \/ /\ reader.pc = "send" /\ reader.i <= Len(reader.lines)
     /\ client[reader.client].at = "accepted" /\ client[reader.client].unread = SendBuffer

\* stop() comes back, both workers seeing the flag, or one client holds the logdr thread from
\* then on for ever: nothing else can keep stop() waiting.
StopReturns == ui = "closing" ~> (ui = "idle" \/ []HeldByClient)
=============================================================================
