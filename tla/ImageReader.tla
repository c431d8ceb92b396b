----------------------------- MODULE ImageReader -----------------------------
(***************************************************************************)
(* Reading a system image (block_device.cpp, ext4_reader.cpp, the mount in *)
(* gsi_engine.cpp).  The UI selects an image: it closes the descriptor it  *)
(* had, opens another, verifies it and mounts it under gFsMutex.  The      *)
(* mounted reader is used by the UI and by the extraction thread under     *)
(* that mutex; a live boot makes a reader of its own on the same           *)
(* descriptor, with no mutex.  A reader keeps the number of a descriptor,  *)
(* not the file behind it.                                                 *)
(*                                                                         *)
(* A file is a sequence of cells of a block each: the headers of a sparse  *)
(* image, and blocks.  A block of a volume is the superblock (with the     *)
(* group descriptors), the inode table, a node of an extent tree, or data. *)
(* A byte of a directory's data stands for one of its entries.             *)
(***************************************************************************)
EXTENDS Integers, Sequences, FiniteSets

CONSTANTS
  Images,      \* the files that can be selected
  Storage,     \* their cells
  Volume,      \* the blocks of the volume that was written to each
  Layout,      \* the chunks it was written in, where it is a sparse image
  Whole,       \* the images that are not cut off
  Inos,        \* inode numbers
  Names,       \* names of files
  NoName,      \* what a directory has behind its last entry
  Paths,       \* the paths that are read, as sequences of names
  Fds,         \* descriptor numbers
  BlockSize,
  MaxSelects,  \* bound: selections
  MaxReads,    \* bound: files read by the UI on its own, extractions and live boots
  MaxFiles     \* bound: files that extractions read after their first

Threads == {"ui", "extract", "live"}
Root    == 2   \* the inode of the root directory

Byte   == [name : Names \cup {NoName}, ino : Nat]
Extent == [block : Nat, len : Nat \ {0}, written : BOOLEAN, start : Nat]
Inode  == [size : Nat, depth : {0, 1}, extents : Seq(Extent), children : Seq(Nat)]
ChunkTypes == {"RAW", "FILL", "DONT_CARE", "OTHER"}
Cell   ==
  [kind : {"none"}]
    \cup [kind : {"sparse"}, total : Nat, chunks : Nat]
    \cup [kind : {"chunk"}, type : ChunkTypes, n : Nat, size : Nat]
    \cup [kind : {"super"}, total : Nat, table : Nat]
    \cup [kind : {"inodes"}, at : [Inos -> Inode]]
    \cup [kind : {"node"}, extents : Seq(Extent)]
    \cup [kind : {"data"}, bytes : Seq(Byte)]

Chunk == [start : Nat, count : Nat, type : ChunkTypes, offset : Nat, fill : Cell]

ASSUME ImageAssumption ==
  /\ Storage \in [Images -> Seq(Cell)] /\ Volume \in [Images -> Seq(Cell)]
  /\ Layout \in [Images -> Seq(Chunk)] /\ Whole \subseteq Images
  /\ Inos \subseteq Nat /\ Paths \subseteq Seq(Names)
  /\ Fds \subseteq Nat \ {0} /\ BlockSize \in Nat \ {0}
  /\ MaxSelects \in Nat /\ MaxReads \in Nat /\ MaxFiles \in Nat
  /\ "closed" \notin Images /\ NoName \notin Names

VARIABLES
  table,    \* the file behind each descriptor number
  active,   \* activePfd: its number, 0 for null
  mutex,    \* who holds gFsMutex
  device,   \* the mounted reader and the one of the live boot
  pc,
  job,      \* the file each thread reads
  selects, reads, files,
  fresh     \* history: the last selection has been mounted

fds     == <<table, active>>
threads == <<pc, job>>
counts  == <<selects, reads, files>>
vars    == <<fds, mutex, device, threads, counts, fresh>>

\* seen is history: the files whose headers the device was made from.
Device == [kind : {"none", "sparse", "raw"}, fd : Fds \cup {0}, total : Nat, table : Nat,
           chunks : Seq(Chunk), left : Nat, next : Nat, seen : SUBSET (Images \cup {"closed"})]
NoDevice == [kind |-> "none", fd |-> 0, total |-> 0, table |-> 0, chunks |-> <<>>, left |-> 0,
             next |-> 0, seen |-> {}]

\* A file that is read: the names still to follow, the nodes of its extent tree, the extents
\* and the bytes still to read.
Job   == [path : Seq(Names), names : Seq(Names), ino : Nat, nodes : Seq(Nat),
          extents : Seq(Extent), left : Nat, out : Seq(Byte), ok : BOOLEAN,
          seen : SUBSET (Images \cup {"closed"})]
Read(path) == [path |-> path, names |-> path, ino |-> Root, nodes |-> <<>>, extents |-> <<>>,
               left |-> 0, out |-> <<>>, ok |-> TRUE, seen |-> {}]

MakePcs == {"header", "index", "raw", "super"}
ReadPcs == {"inode", "node", "data", "done"}
Pcs     == {"idle", "lock"} \cup ReadPcs \cup MakePcs \cup {"reopen", "verify", "remount", "unmount", "dead"}

TypeOK ==
  /\ table \in [Fds -> Images \cup {"closed"}]
  /\ active \in Fds \cup {0}
  /\ mutex \in Threads \cup {"free"}
  /\ device \in [{"mount", "live"} -> Device]
  /\ pc \in [Threads -> Pcs] /\ job \in [Threads -> Job]
  /\ selects \in Nat /\ reads \in Nat /\ files \in Nat /\ fresh \in BOOLEAN

Init ==
  /\ table = [f \in Fds |-> "closed"] /\ active = 0
  /\ mutex = "free"
  /\ device = [d \in {"mount", "live"} |-> NoDevice]
  /\ pc = [t \in Threads |-> "idle"] /\ job = [t \in Threads |-> Read(<<>>)]
  /\ selects = 0 /\ reads = 0 /\ files = 0 /\ fresh = FALSE

-----------------------------------------------------------------------------
(* Blocks. *)

NoCell == [kind |-> "none"]

Behind(fd) == IF fd \in Fds THEN table[fd] ELSE "closed"

\* pread() of a cell: nothing where the descriptor is closed or the file has ended.
Pread(fd, offset) ==
  IF Behind(fd) \in Images /\ offset < Len(Storage[Behind(fd)])
  THEN Storage[Behind(fd)][offset + 1]
  ELSE NoCell

ZeroByte     == [name |-> NoName, ino |-> 0]
Repeated(b)  == [kind |-> "data", bytes |-> [k \in 1..BlockSize |-> b]]

\* How a volume is written to a file.  A sparse image has the chunks of its layout one
\* behind the other, each with its header in front; together they hold the volume.  A
\* file may be cut off, though not between the header of a chunk and its fill value.
BlockOfChunk(i, c, n) ==
  CASE c.type = "RAW"  -> c.offset + n < Len(Storage[i])
                            => Storage[i][c.offset + n + 1] = Volume[i][c.start + n + 1]
    [] c.type = "FILL" -> Volume[i][c.start + n + 1] = c.fill /\ c.fill.kind = "data"
    [] OTHER           -> Volume[i][c.start + n + 1] = Repeated(ZeroByte)

HeaderOfChunk(i, k) ==
  LET c      == Layout[i][k]
      header == Storage[i][c.offset]
  IN  c.offset <= Len(Storage[i]) =>
        /\ header.kind = "chunk" /\ header.type = c.type /\ header.n = c.count
        /\ k < Len(Layout[i]) => Layout[i][k + 1].offset = c.offset + header.size
        /\ IF c.type = "FILL" THEN c.offset < Len(Storage[i]) /\ Storage[i][c.offset + 1] = c.fill
                              ELSE c.fill = NoCell

WrittenSparse(i) ==
  /\ Storage[i][1] = [kind |-> "sparse", total |-> Len(Volume[i]), chunks |-> Len(Layout[i])]
  /\ Layout[i] # <<>> => Layout[i][1].start = 0 /\ Layout[i][1].offset = 2
  /\ \A k \in DOMAIN Layout[i] :
       /\ HeaderOfChunk(i, k)
       /\ Layout[i][k].offset >= 2
       /\ k < Len(Layout[i]) => Layout[i][k + 1].start = Layout[i][k].start + Layout[i][k].count
       /\ \A j \in 1..(k - 1) : Layout[i][j].start + Layout[i][j].count <= Layout[i][k].start
       /\ \A n \in 0..(Layout[i][k].count - 1) : BlockOfChunk(i, Layout[i][k], n)
       /\ i \in Whole /\ Layout[i][k].type = "RAW"
            => Layout[i][k].offset + Layout[i][k].count <= Len(Storage[i])
  /\ \A n \in 0..(Len(Volume[i]) - 1) : \E k \in DOMAIN Layout[i] :
       Layout[i][k].start <= n /\ n < Layout[i][k].start + Layout[i][k].count

WrittenRaw(i) ==
  /\ Storage[i][1].total = Len(Volume[i])
  /\ \A k \in DOMAIN Storage[i] : k \in DOMAIN Volume[i] => Storage[i][k] = Volume[i][k]
  /\ i \in Whole => Len(Storage[i]) >= Len(Volume[i])

ASSUME WrittenAssumption ==
  \A i \in Images :
    \/ Storage[i] # <<>> /\ Storage[i][1].kind = "sparse" /\ WrittenSparse(i)
    \/ Storage[i] # <<>> /\ Storage[i][1].kind = "super" /\ WrittenRaw(i)
    \/ i \notin Whole /\ \A k \in DOMAIN Storage[i] : Storage[i][k].kind = "data"

\* Mutant: the first chunk that starts at or before the block.
FirstUpTo(chunks, n) ==
  CHOOSE k \in DOMAIN chunks : chunks[k].start <= n /\ \A j \in 1..(k - 1) : chunks[j].start > n

\* The element before std::upper_bound(): the last chunk that starts at or before the block.
LastUpTo(chunks, n) ==
  CHOOSE k \in DOMAIN chunks :
    chunks[k].start <= n /\ \A j \in DOMAIN chunks : j > k => chunks[j].start > n

\* The block of a chunk that is n blocks behind its start.
InChunk(fd, chunk, n) ==
  CASE chunk.type = "RAW"  -> Pread(fd, chunk.offset + n)
    [] chunk.type = "FILL" -> IF chunk.fill.kind = "data" THEN chunk.fill ELSE Repeated(ZeroByte)
    [] OTHER               -> Repeated(ZeroByte)

SparseBlock(d, n) ==
  IF \E k \in DOMAIN d.chunks : d.chunks[k].start <= n
  THEN LET chunk == d.chunks[LastUpTo(d.chunks, n)]
       IN  IF n < chunk.start + chunk.count THEN InChunk(d.fd, chunk, n - chunk.start) ELSE NoCell
  ELSE NoCell

\* readBlock() of either kind of device; no cell means that it returns false.
Block(d, n) ==
  IF n >= d.total THEN NoCell
  ELSE IF d.kind = "sparse" THEN SparseBlock(d, n) ELSE Pread(d.fd, n)

-----------------------------------------------------------------------------
(* Inodes, extents, directories. *)

NoInode == [size |-> 0, depth |-> 0, extents |-> <<>>, children |-> <<>>]

\* A block that holds no inodes, of another file, has no extents with the magic number.
InodeIn(cell, ino) == IF cell.kind = "inodes" /\ ino \in Inos THEN cell.at[ino] ELSE NoInode

\* What is left of the extents when a block has been read.  The blocks of one extent follow
\* those of the other, wherever in the file they belong.
AfterBlock(extents) ==
  LET first == Head(extents)
  IN  IF first.len > 1
      THEN <<[first EXCEPT !.start = @ + 1, !.len = @ - 1]>> \o Tail(extents)
      ELSE Tail(extents)

\* What is copied of a block: a file ends within its last one.
Part(cell, left) ==
  LET bytes == IF cell.kind = "data" THEN cell.bytes ELSE Repeated(ZeroByte).bytes
  IN  SubSeq(bytes, 1, IF left < Len(bytes) THEN left ELSE Len(bytes))

\* findChildInode(): an entry with inode 0 is passed over, zeros end the directory.
Find(entries, name) ==
  LET matches == {k \in DOMAIN entries :
                    /\ entries[k].name = name /\ entries[k].ino # 0
                    /\ \A j \in 1..(k - 1) : entries[j] # ZeroByte}
  IN  IF matches = {} THEN 0
      ELSE entries[CHOOSE k \in matches : \A j \in matches : k <= j].ino
-----------------------------------------------------------------------------
(* Selecting an image: handleImageSelected(). *)

Goto(t, place) == pc' = [pc EXCEPT ![t] = place]

\* activePfd?.close()
Closed == IF active = 0 THEN table ELSE [table EXCEPT ![active] = "closed"]

UiSelects ==
  /\ pc["ui"] = "idle" /\ selects < MaxSelects
  /\ table' = Closed
  /\ Goto("ui", "reopen")
  /\ selects' = selects + 1 /\ fresh' = FALSE
  /\ UNCHANGED <<active, mutex, device, job, reads, files>>

\* openFileDescriptor() throws, which leaves the closed one, or returns null, or a
\* descriptor with any number that is free: other threads open and close theirs.
UiReopens ==
  /\ pc["ui"] = "reopen"
  /\ \/ Goto("ui", "idle") /\ UNCHANGED fds
     \/ Goto("ui", "idle") /\ active' = 0 /\ UNCHANGED table
     \/ /\ \E f \in {f \in Fds : table[f] = "closed"}, i \in Images :
             table' = [table EXCEPT ![f] = i] /\ active' = f
        /\ Goto("ui", "verify")
  /\ UNCHANGED <<mutex, device, job, counts, fresh>>

\* A file that is no image is not mounted; what was mounted before stays.
UiVerifies ==
  /\ pc["ui"] = "verify"
  /\ Goto("ui", IF Pread(active, 0).kind \in {"sparse", "super"} THEN "remount" ELSE "idle")
  /\ UNCHANGED <<fds, mutex, device, job, counts, fresh>>

\* Mutant: the chunks of the image before stay.
UiRemountsOver ==
  /\ pc["ui"] = "remount" /\ mutex = "free"
  /\ mutex' = "ui"
  /\ device' = [device EXCEPT !["mount"].fd = active]
  /\ Goto("ui", "header")
  /\ UNCHANGED <<fds, job, counts, fresh>>

UiRemounts ==
  /\ pc["ui"] = "remount" /\ mutex = "free"
  /\ mutex' = "ui"
  /\ device' = [device EXCEPT !["mount"] = [NoDevice EXCEPT !.fd = active]]
  /\ Goto("ui", "header")
  /\ UNCHANGED <<fds, job, counts, fresh>>

\* onDestroy(): nativeCloseFilesystem(), then the descriptor.
UiCloses ==
  /\ pc["ui"] = "idle" /\ selects < MaxSelects
  /\ Goto("ui", "unmount")
  /\ selects' = selects + 1
  /\ UNCHANGED <<fds, mutex, device, job, reads, files, fresh>>

UiUnmounts ==
  /\ pc["ui"] = "unmount" /\ mutex = "free"
  /\ device' = [device EXCEPT !["mount"] = NoDevice]
  /\ table' = Closed /\ active' = 0
  /\ Goto("ui", "idle")
  /\ fresh' = FALSE
  /\ UNCHANGED <<mutex, job, counts>>

-----------------------------------------------------------------------------
(* Making a reader: SparseBlockDevice::create() or a raw device, Ext4Reader::open(). *)

DeviceOf(t) == IF t = "live" THEN "live" ELSE "mount"

\* The device that t makes is now d, made from one more look at its file.
Makes(t, d) ==
  device' = [device EXCEPT ![DeviceOf(t)] = [d EXCEPT !.seen = @ \cup {Behind(d.fd)}]]

\* No image: the UI has nothing mounted, a live boot ends.
GivesUp(t) ==
  /\ device' = [device EXCEPT ![DeviceOf(t)] = NoDevice]
  /\ mutex' = IF t = "ui" THEN "free" ELSE mutex
  /\ Goto(t, "idle")

ReadsHeader(t) ==
  /\ pc[t] = "header"
  /\ LET d    == device[DeviceOf(t)]
         cell == Pread(d.fd, 0)
     IN  IF cell.kind = "sparse"
         THEN /\ Makes(t, [d EXCEPT !.kind = "sparse", !.total = cell.total,
                                    !.left = cell.chunks, !.next = 1])
              /\ Goto(t, "index")
         ELSE Goto(t, "raw") /\ UNCHANGED device
  /\ UNCHANGED <<fds, mutex, job, counts, fresh>>

\* The next chunk starts where the last one ends.
End(chunks) == IF chunks = <<>> THEN 0 ELSE chunks[Len(chunks)].start + chunks[Len(chunks)].count

\* Bytes that are no chunk header are taken for a chunk of an unknown type.
HeaderIn(cell) ==
  IF cell.kind = "chunk" THEN cell ELSE [kind |-> "chunk", type |-> "OTHER", n |-> 0, size |-> 1]

\* The device with one more chunk, whose header is at the offset next.
Indexed(d, header) ==
  [d EXCEPT
    !.chunks = Append(@, [start |-> End(@), count |-> header.n, type |-> header.type,
                          offset |-> d.next + 1,
                          fill |-> IF header.type = "FILL" THEN Pread(d.fd, d.next + 1) ELSE NoCell]),
    !.left = @ - 1, !.next = @ + header.size]

\* buildIndex(): one chunk; a header that is not there makes it fail.
Indexes(t) ==
  /\ pc[t] = "index"
  /\ LET d    == device[DeviceOf(t)]
         cell == Pread(d.fd, d.next)
     IN  IF d.left = 0 THEN Goto(t, "super") /\ UNCHANGED device
         ELSE IF cell.kind = "none" THEN Goto(t, "raw") /\ UNCHANGED device
         ELSE Makes(t, Indexed(d, HeaderIn(cell))) /\ UNCHANGED pc
  /\ UNCHANGED <<fds, mutex, job, counts, fresh>>

\* Not a sparse image: the verifier looks for a superblock.
TriesRaw(t) ==
  /\ pc[t] = "raw"
  /\ LET fd   == device[DeviceOf(t)].fd
         cell == Pread(fd, 0)
     IN  IF cell.kind = "super"
         THEN /\ Makes(t, [NoDevice EXCEPT !.kind = "raw", !.fd = fd, !.total = cell.total])
              /\ Goto(t, "super") /\ UNCHANGED mutex
         ELSE GivesUp(t)
  /\ UNCHANGED <<fds, job, counts, fresh>>

\* The UI lets go of the mutex, and reads build.prop as the next thing.
ReadsSuper(t) ==
  /\ pc[t] = "super"
  /\ LET d    == device[DeviceOf(t)]
         cell == Block(d, 0)
     IN  IF cell.kind = "super"
         THEN /\ Makes(t, [d EXCEPT !.table = cell.table])
              /\ Goto(t, IF t = "ui" THEN "lock" ELSE "inode")
              /\ mutex' = IF t = "ui" THEN "free" ELSE mutex
              /\ fresh' = (t = "ui" \/ fresh)
              /\ \E path \in Paths : job' = [job EXCEPT ![t] = Read(path)]
         ELSE GivesUp(t) /\ UNCHANGED <<job, fresh>>
  /\ UNCHANGED <<fds, counts>>

-----------------------------------------------------------------------------
(* Reading a file. *)

Begins(t, path, place) ==
  /\ pc["ui"] = "idle" /\ pc[t] = "idle" /\ reads < MaxReads
  /\ job' = [job EXCEPT ![t] = Read(path)]
  /\ Goto(t, place)
  /\ reads' = reads + 1
  /\ UNCHANGED <<fds, mutex, selects, files, fresh>>

\* The file browser, and the extraction's thread.
UiBrowses(path)      == Begins("ui", path, "lock") /\ UNCHANGED device
ExtractBegins(path)  == Begins("extract", path, "lock") /\ UNCHANGED device

\* A live boot is handed the number of the descriptor.
LiveBegins ==
  /\ active # 0 /\ table[active] # "closed"
  /\ Begins("live", <<>>, "header")
  /\ device' = [device EXCEPT !["live"] = [NoDevice EXCEPT !.fd = active]]

\* getFd() of a closed descriptor throws, and nothing catches it.
LiveThrows ==
  /\ pc["ui"] = "idle" /\ pc["live"] = "idle" /\ reads < MaxReads
  /\ active # 0 /\ table[active] = "closed"
  /\ Goto("ui", "dead")
  /\ UNCHANGED <<fds, mutex, device, job, counts, fresh>>

Locks(t) ==
  /\ pc[t] = "lock" /\ mutex = "free"
  /\ IF device["mount"].kind = "none" THEN Goto(t, "idle") /\ UNCHANGED mutex
     ELSE Goto(t, "inode") /\ mutex' = t
  /\ UNCHANGED <<fds, device, job, counts, fresh>>

\* The file of t is now j, after one more look at the image.
Reads(t, j) == job' = [job EXCEPT ![t] = [j EXCEPT !.seen = @ \cup {Behind(device[DeviceOf(t)].fd)}]]

ReadsInode(t) ==
  /\ pc[t] = "inode"
  /\ LET d     == device[DeviceOf(t)]
         cell  == Block(d, d.table)
         inode == InodeIn(cell, job[t].ino)
     IN  IF cell.kind = "none"
         THEN Reads(t, [job[t] EXCEPT !.ok = FALSE]) /\ Goto(t, "done")
         ELSE /\ Reads(t, [job[t] EXCEPT !.nodes = inode.children, !.extents = inode.extents,
                                         !.left = inode.size, !.out = <<>>])
              /\ Goto(t, "node")
  /\ UNCHANGED <<fds, mutex, device, counts, fresh>>

\* Mutant: the buffer of the nodes is that of the first.
ReadsNodeOnce(t) ==
  /\ pc[t] = "node" /\ job[t].nodes # <<>>
  /\ LET node == Block(device[DeviceOf(t)], Head(job[t].nodes))
     IN  Reads(t, [job[t] EXCEPT !.nodes = <<>>,
                                 !.extents = IF node.kind = "node" THEN @ \o node.extents ELSE @])
  /\ UNCHANGED <<fds, mutex, device, pc, counts, fresh>>

\* readExtentTree(): a node that cannot be read, or is none, adds no extents.
ReadsNode(t) ==
  /\ pc[t] = "node" /\ job[t].nodes # <<>>
  /\ LET node == Block(device[DeviceOf(t)], Head(job[t].nodes))
     IN  Reads(t, [job[t] EXCEPT !.nodes = Tail(@),
                                 !.extents = IF node.kind = "node" THEN @ \o node.extents ELSE @])
  /\ UNCHANGED <<fds, mutex, device, pc, counts, fresh>>

HasExtents(t) ==
  /\ pc[t] = "node" /\ job[t].nodes = <<>>
  /\ Goto(t, "data")
  /\ UNCHANGED <<fds, mutex, device, job, counts, fresh>>

ReadsBlock(t) ==
  /\ pc[t] = "data" /\ job[t].left > 0 /\ job[t].extents # <<>>
  /\ LET cell == Block(device[DeviceOf(t)], Head(job[t].extents).start)
         part == Part(cell, job[t].left)
     IN  IF cell.kind = "none"
         THEN Reads(t, [job[t] EXCEPT !.ok = FALSE]) /\ Goto(t, "done")
         ELSE /\ Reads(t, [job[t] EXCEPT !.extents = AfterBlock(@), !.left = @ - Len(part),
                                         !.out = @ \o part])
              /\ UNCHANGED pc
  /\ UNCHANGED <<fds, mutex, device, counts, fresh>>

\* resolvePath(): what was read is a directory while there are names to follow.
EndsFile(t) ==
  /\ pc[t] = "data" /\ (job[t].left = 0 \/ job[t].extents = <<>>)
  /\ IF job[t].names = <<>> THEN Goto(t, "done") /\ UNCHANGED job
     ELSE LET ino == Find(job[t].out, Head(job[t].names)) IN
          IF ino = 0
          THEN job' = [job EXCEPT ![t].ok = FALSE] /\ Goto(t, "done")
          ELSE job' = [job EXCEPT ![t].ino = ino, ![t].names = Tail(@)] /\ Goto(t, "inode")
  /\ UNCHANGED <<fds, mutex, device, counts, fresh>>

\* The extraction reads its next file: it keeps gFsMutex from the first to the last.
ExtractGoesOn(path) ==
  /\ pc["extract"] = "done" /\ files < MaxFiles
  /\ job' = [job EXCEPT !["extract"] = Read(path)]
  /\ Goto("extract", "inode")
  /\ files' = files + 1
  /\ UNCHANGED <<fds, mutex, device, selects, reads, fresh>>

Returns(t) ==
  /\ pc[t] = "done"
  /\ mutex' = IF t = "live" THEN mutex ELSE "free"
  /\ device' = IF t = "live" THEN [device EXCEPT !["live"] = NoDevice] ELSE device
  /\ job' = [job EXCEPT ![t] = Read(<<>>)]
  /\ Goto(t, "idle")
  /\ UNCHANGED <<fds, counts, fresh>>

-----------------------------------------------------------------------------

MakeStep(t) == ReadsHeader(t) \/ Indexes(t) \/ TriesRaw(t) \/ ReadsSuper(t)
ReadStep(t) ==
  ReadsInode(t) \/ ReadsNode(t) \/ HasExtents(t) \/ ReadsBlock(t) \/ EndsFile(t) \/ Returns(t)
UiStep      == UiReopens \/ UiVerifies \/ UiRemounts \/ UiUnmounts \/ MakeStep("ui") \/ Locks("ui")
               \/ ReadStep("ui")
ExtractStep == Locks("extract") \/ ReadStep("extract") \/ \E path \in Paths : ExtractGoesOn(path)
LiveStep    == MakeStep("live") \/ ReadStep("live")
UiCalls     ==
  \/ UiSelects \/ UiCloses \/ LiveBegins \/ LiveThrows
  \/ \E path \in Paths : UiBrowses(path) \/ ExtractBegins(path)

Next == pc["ui"] # "dead" /\ (UiStep \/ ExtractStep \/ LiveStep \/ UiCalls)

Spec == Init /\ [][Next]_vars

-----------------------------------------------------------------------------
(* What was written. *)

\* The leaves of a tree of extents, in their order.
Leaves(i, inode) ==
  IF inode.depth = 0 THEN <<inode.extents>>
  ELSE [m \in DOMAIN inode.children |-> Volume[i][inode.children[m] + 1].extents]

ExtentsOf(i, inode) ==
  UNION {{Leaves(i, inode)[m][k] : k \in DOMAIN Leaves(i, inode)[m]} : m \in DOMAIN Leaves(i, inode)}

InodeOf(i, ino) == Volume[i][Volume[i][1].table + 1].at[ino]

\* Byte k of a file: zero where it has no extent, or one that has not been written to.
WrittenByte(i, inode, k) ==
  LET b    == k \div BlockSize
      here == {e \in ExtentsOf(i, inode) : e.written /\ e.block <= b /\ b < e.block + e.len}
  IN  IF here = {} THEN ZeroByte
      ELSE LET e == CHOOSE e \in here : TRUE
           IN  Volume[i][e.start + b - e.block + 1].bytes[(k % BlockSize) + 1]

WrittenFile(i, ino) ==
  [k \in 1..InodeOf(i, ino).size |-> WrittenByte(i, InodeOf(i, ino), k - 1)]

\* The inode of a name in a directory, and those along a path; 0 where there is none.
Child(i, dir, name) ==
  LET here == {e \in {WrittenFile(i, dir)[k] : k \in DOMAIN WrittenFile(i, dir)} :
                 e.name = name /\ e.ino # 0}
  IN  IF dir = 0 \/ here = {} THEN 0 ELSE (CHOOSE e \in here : TRUE).ino

InodesOn(i, path) ==
  LET upTo[k \in 0..Len(path)] == IF k = 0 THEN Root ELSE Child(i, upTo[k - 1], path[k])
  IN  upTo

InodeAt(i, path) == InodesOn(i, path)[Len(path)]

\* How ext4 keeps a file: the nodes of the tree are nodes, the extents lie one behind the
\* other, leaf after leaf, and one that has been written to is whole blocks of data.
EndsBy(e, f) == e.block + e.len <= f.block

IsFile(i, inode) ==
  LET leaves == Leaves(i, inode)
  IN  /\ inode.depth = 0 => inode.children = <<>>
      /\ inode.depth = 1 => inode.extents = <<>>
      /\ \A m \in DOMAIN inode.children :
           inode.children[m] < Len(Volume[i]) /\ Volume[i][inode.children[m] + 1].kind = "node"
      /\ \A m, n \in DOMAIN leaves : \A k \in DOMAIN leaves[m], l \in DOMAIN leaves[n] :
           m < n \/ (m = n /\ k < l) => EndsBy(leaves[m][k], leaves[n][l])
      /\ \A e \in ExtentsOf(i, inode) : e.written =>
           \A n \in e.start..(e.start + e.len - 1) :
             /\ n < Len(Volume[i]) /\ Volume[i][n + 1].kind = "data"
             /\ Len(Volume[i][n + 1].bytes) = BlockSize

\* A directory has one entry for a name, and none behind the zeros that end it.
IsDirectory(bytes) ==
  \A j, k \in DOMAIN bytes : bytes[k].ino # 0 =>
    /\ bytes[j].ino # 0 /\ bytes[j].name = bytes[k].name => bytes[j].ino = bytes[k].ino
    /\ j < k => bytes[j] # ZeroByte

IsVolume(i) ==
  /\ Root \in Inos
  /\ Volume[i] # <<>> /\ Volume[i][1].kind = "super"
  /\ Volume[i][1].table < Len(Volume[i]) /\ Volume[i][Volume[i][1].table + 1].kind = "inodes"
  /\ \A ino \in Inos : IsFile(i, InodeOf(i, ino))
  /\ \A path \in Paths : \A k \in DOMAIN path : InodesOn(i, path)[k - 1] # 0 =>
       /\ IsDirectory(WrittenFile(i, InodesOn(i, path)[k - 1]))
       /\ InodesOn(i, path)[k] \in Inos \cup {0}

ASSUME VolumeAssumption == \A i \in Whole : IsVolume(i)

\* No file of the image has a hole, or an extent that has not been written to.
Dense(i) ==
  \A ino \in Inos : \A k \in 0..(InodeOf(i, ino).size - 1) :
    \E e \in ExtentsOf(i, InodeOf(i, ino)) :
      e.written /\ e.block <= k \div BlockSize /\ k \div BlockSize < e.block + e.len

-----------------------------------------------------------------------------
(* Properties. *)

\* What t has read is what was written at its path; it fails where nothing is.
ReadRight(t, i) ==
  LET ino == InodeAt(i, job[t].path)
  IN  /\ job[t].ok <=> ino # 0
      /\ job[t].ok => job[t].out = WrittenFile(i, ino)

\* The reader of t and all that t has read come from i alone.
From(t, i) == device[DeviceOf(t)].seen = {i} /\ job[t].seen = {i}

\* A read through a reader that was made from one whole image, none of whose files has a
\* hole, and during which the descriptor stayed on that image, ends with the file at the
\* path, whatever the other threads do and in whatever kinds of chunks its extents lie.
ReadIsTheFile ==
  \A t \in Threads, i \in Whole : pc[t] = "done" /\ From(t, i) /\ Dense(i) => ReadRight(t, i)

\* The same without the condition on holes.
ReadIsTheFileWithHoles ==
  \A t \in Threads, i \in Whole : pc[t] = "done" /\ From(t, i) => ReadRight(t, i)

\* The thread that makes a device.
MakerOf(d) == IF d = "live" THEN "live" ELSE "ui"

\* A device that was made from one image and whose descriptor is still on it gives every
\* block of the volume, wherever the index has put it; a block that an image is too short
\* for is refused, never made up.
BlocksAsWritten ==
  \A d \in DOMAIN device, i \in Images :
    /\ device[d].kind # "none" /\ pc[MakerOf(d)] \notin MakePcs
    /\ device[d].seen = {i} /\ Behind(device[d].fd) = i
    => /\ device[d].total = Len(Volume[i])
       /\ \A n \in 0..(Len(Volume[i]) - 1) :
            \/ Block(device[d], n) = Volume[i][n + 1]
            \/ i \notin Whole /\ Block(device[d], n) = NoCell

\* After a selection has been mounted the UI reads from the selected image alone: nothing
\* of the image before is left in the reader, even if the descriptor has the same number.
ReadsTheSelected ==
  pc["ui"] \in ReadPcs /\ fresh =>
    device["mount"].seen \cup job["ui"].seen \subseteq {Behind(active)}
=============================================================================
