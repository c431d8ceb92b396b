------------------------- MODULE ImageReader_proofs -------------------------
(* Proofs about ImageReader for every set of images and every layout of chunks. *)
EXTENDS ImageReader, WellFoundedInduction, SequenceTheorems, TLAPS

-----------------------------------------------------------------------------
(* Least and greatest. *)

LEMMA Least ==
  ASSUME NEW T, T \subseteq Nat, T # {}
  PROVE  \E x \in T : \A y \in T : x <= y
<1> DEFINE R == OpToRel(<, Nat)
<1>1. IsWellFoundedOn(R, Nat) BY NatLessThanWellFounded
<1>2. \A x, y \in Nat : x < y => <<x, y>> \in R BY DEF OpToRel
<1> HIDE DEF R
<1>3. PICK x \in T : \A y \in T : <<y, x>> \notin R BY <1>1, WFMin
<1>4. \A y \in T : ~(y < x) BY <1>2, <1>3
<1> QED BY <1>3, <1>4

LEMMA Greatest ==
  ASSUME NEW n \in Nat, NEW S, S \subseteq 1..n, S # {}
  PROVE  \E x \in S : \A y \in S : y <= x
<1> DEFINE T == {n - k : k \in S}
<1>1. T \subseteq Nat /\ T # {}
  <2>1. \A k \in S : n - k \in Nat OBVIOUS
  <2>2. PICK k \in S : TRUE OBVIOUS
  <2>3. n - k \in T BY <2>2
  <2> QED BY <2>1, <2>3
<1>2. PICK y \in T : \A z \in T : y <= z BY <1>1, Least
<1>3. PICK k \in S : y = n - k BY <1>2
<1>4. ASSUME NEW j \in S PROVE j <= k
  <2>1. y <= n - j BY <1>2
  <2> QED BY <1>3, <2>1
<1> QED BY <1>3, <1>4

\* A block that is not before the first chunk has a chunk that starts last before it.
LEMMA LastUpToExists ==
  ASSUME NEW chunks \in Seq(Chunk), NEW n \in Nat,
         \E k \in DOMAIN chunks : chunks[k].start <= n
  PROVE  LET k == LastUpTo(chunks, n)
         IN  /\ k \in DOMAIN chunks /\ chunks[k].start <= n
             /\ \A j \in DOMAIN chunks : j > k => chunks[j].start > n
<1> DEFINE S == {k \in DOMAIN chunks : chunks[k].start <= n}
<1>1. DOMAIN chunks = 1..Len(chunks) /\ Len(chunks) \in Nat BY LenProperties
<1>2. S \subseteq 1..Len(chunks) /\ S # {} BY <1>1
<1>3. PICK k \in S : \A j \in S : j <= k BY <1>1, <1>2, Greatest
<1>4. ASSUME NEW j \in DOMAIN chunks, j > k PROVE chunks[j].start > n
  <2>1. j \notin S BY <1>1, <1>2, <1>3, <1>4
  <2>2. chunks[j] \in Chunk BY <1>1, ElementOfSeq
  <2> QED BY <2>1, <2>2 DEF Chunk
<1>5. k \in DOMAIN chunks /\ chunks[k].start <= n BY <1>3
<1> HIDE DEF S
<1> QED BY <1>4, <1>5 DEF LastUpTo

-----------------------------------------------------------------------------
(* Types of cells and blocks. *)

LEMMA NoCellType == NoCell \in Cell
BY DEF NoCell, Cell

LEMMA BehindType == ASSUME TypeOK, NEW fd PROVE Behind(fd) \in Images \cup {"closed"}
BY DEF TypeOK, Behind

LEMMA PreadType ==
  ASSUME NEW fd, NEW offset \in Nat
  PROVE  /\ Pread(fd, offset) \in Cell
         /\ Pread(fd, offset).kind # "none" =>
              /\ Behind(fd) \in Images /\ offset < Len(Storage[Behind(fd)])
              /\ Pread(fd, offset) = Storage[Behind(fd)][offset + 1]
<1>1. CASE Behind(fd) \in Images /\ offset < Len(Storage[Behind(fd)])
  <2>1. Storage[Behind(fd)] \in Seq(Cell) BY <1>1, ImageAssumption DEF ImageAssumption
  <2> DEFINE s == Storage[Behind(fd)]
  <2>2. Pread(fd, offset) = s[offset + 1] BY <1>1 DEF Pread
  <2> HIDE DEF s
  <2>3. offset + 1 \in 1..Len(s) BY <1>1, <2>1, LenProperties DEF s
  <2>4. s[offset + 1] \in Cell BY <2>1, <2>3, ElementOfSeq DEF s
  <2> QED BY <1>1, <2>2, <2>4 DEF s
<1>2. CASE ~(Behind(fd) \in Images /\ offset < Len(Storage[Behind(fd)]))
  <2>1. Pread(fd, offset) = NoCell BY <1>2 DEF Pread
  <2> QED BY <2>1, NoCellType DEF NoCell
<1> QED BY <1>1, <1>2

LEMMA CellFields ==
  ASSUME NEW c \in Cell
  PROVE  /\ c.kind = "sparse" => c.total \in Nat /\ c.chunks \in Nat
         /\ c.kind = "chunk" => c.type \in ChunkTypes /\ c.n \in Nat /\ c.size \in Nat
         /\ c.kind = "super" => c.total \in Nat /\ c.table \in Nat
         /\ c.kind = "inodes" => c.at \in [Inos -> Inode]
         /\ c.kind = "node" => c.extents \in Seq(Extent)
         /\ c.kind = "data" => c.bytes \in Seq(Byte)
BY DEF Cell

LEMMA ZeroBlockType ==
  Repeated(ZeroByte) \in Cell /\ Repeated(ZeroByte).bytes \in Seq(Byte)
<1> DEFINE b == [k \in 1..BlockSize |-> ZeroByte]
<1>1. ZeroByte \in Byte BY DEF ZeroByte, Byte
<1>2. BlockSize \in Nat BY ImageAssumption DEF ImageAssumption
<1>3. b \in [1..BlockSize -> Byte] BY <1>1
<1>4. b \in Seq(Byte)
  <2> HIDE DEF b
  <2> QED BY <1>2, <1>3, SeqDef
<1>5. Repeated(ZeroByte) = [kind |-> "data", bytes |-> b] BY DEF Repeated
<1> HIDE DEF b
<1> QED BY <1>4, <1>5 DEF Cell

LEMMA InChunkType ==
  ASSUME NEW fd, NEW chunk \in Chunk, NEW n \in Nat PROVE InChunk(fd, chunk, n) \in Cell
<1>1. chunk.offset \in Nat /\ chunk.fill \in Cell BY DEF Chunk
<1>2. CASE chunk.type = "RAW"
  <2>1. InChunk(fd, chunk, n) = Pread(fd, chunk.offset + n) BY <1>2 DEF InChunk
  <2>2. chunk.offset + n \in Nat BY <1>1
  <2> QED BY <2>1, <2>2, PreadType
<1>3. CASE chunk.type = "FILL"
  <2>1. InChunk(fd, chunk, n) \in {chunk.fill, Repeated(ZeroByte)} BY <1>3 DEF InChunk
  <2> QED BY <1>1, <2>1, ZeroBlockType
<1>4. CASE chunk.type # "RAW" /\ chunk.type # "FILL"
  <2>1. InChunk(fd, chunk, n) = Repeated(ZeroByte) BY <1>4 DEF InChunk
  <2> QED BY <2>1, ZeroBlockType
<1> QED BY <1>2, <1>3, <1>4

LEMMA BlockType == ASSUME NEW d \in Device, NEW n \in Nat PROVE Block(d, n) \in Cell
<1>1. d.chunks \in Seq(Chunk) BY DEF Device
<1>2. CASE n >= d.total
  <2>1. Block(d, n) = NoCell BY <1>2 DEF Block
  <2> QED BY <2>1, NoCellType
<1>3. CASE ~(n >= d.total) /\ d.kind # "sparse"
  <2>1. Block(d, n) = Pread(d.fd, n) BY <1>3 DEF Block
  <2> QED BY <2>1, PreadType
<1>4. CASE ~(n >= d.total) /\ d.kind = "sparse"
  <2>1. Block(d, n) = SparseBlock(d, n) BY <1>4 DEF Block
  <2>2. CASE \E k \in DOMAIN d.chunks : d.chunks[k].start <= n
    <3> DEFINE k == LastUpTo(d.chunks, n)
               chunk == d.chunks[k]
    <3>1. k \in DOMAIN d.chunks /\ chunk.start <= n BY <1>1, <2>2, LastUpToExists
    <3>2. chunk \in Chunk BY <1>1, <3>1, LenProperties, ElementOfSeq
    <3>3. n - chunk.start \in Nat
      <4>1. chunk.start \in Nat BY <3>2 DEF Chunk
      <4> HIDE DEF chunk
      <4> QED BY <3>1, <4>1
    <3>4. SparseBlock(d, n) \in {InChunk(d.fd, chunk, n - chunk.start), NoCell}
      BY <2>2 DEF SparseBlock
    <3> HIDE DEF chunk
    <3> QED BY <2>1, <3>2, <3>3, <3>4, InChunkType, NoCellType
  <2>3. CASE ~(\E k \in DOMAIN d.chunks : d.chunks[k].start <= n)
    <3>1. SparseBlock(d, n) = NoCell BY <2>3 DEF SparseBlock
    <3> QED BY <2>1, <3>1, NoCellType
  <2> QED BY <2>2, <2>3
<1> QED BY <1>2, <1>3, <1>4

-----------------------------------------------------------------------------
(* Types of inodes, extents and what is read. *)

LEMMA InodeInType == ASSUME NEW c \in Cell, NEW ino PROVE InodeIn(c, ino) \in Inode
<1>1. CASE c.kind = "inodes" /\ ino \in Inos
  <2>1. c.at \in [Inos -> Inode] BY <1>1, CellFields
  <2> QED BY <1>1, <2>1 DEF InodeIn
<1>2. CASE ~(c.kind = "inodes" /\ ino \in Inos)
  <2>1. <<>> \in Seq(Extent) OBVIOUS
  <2>2. <<>> \in Seq(Nat) OBVIOUS
  <2>3. NoInode \in Inode BY <2>1, <2>2 DEF NoInode, Inode
  <2> QED BY <1>2, <2>3 DEF InodeIn
<1> QED BY <1>1, <1>2

LEMMA AfterBlockType ==
  ASSUME NEW x \in Seq(Extent), x # <<>>
  PROVE  AfterBlock(x) \in Seq(Extent) /\ Head(x) \in Extent
<1> DEFINE first == Head(x)
           rest == [first EXCEPT !.start = @ + 1, !.len = @ - 1]
<1>1. first \in Extent /\ Tail(x) \in Seq(Extent) BY HeadTailProperties
<1>2. CASE first.len > 1
  <2>1. rest \in Extent
    <3> HIDE DEF first
    <3>1. first.len \in Nat /\ first.start \in Nat BY <1>1 DEF Extent
    <3>2. first.start + 1 \in Nat /\ first.len - 1 \in Nat \ {0} BY <1>2, <3>1
    <3> QED BY <1>1, <3>2 DEF Extent
  <2>2. AfterBlock(x) = <<rest>> \o Tail(x) BY <1>2 DEF AfterBlock
  <2> HIDE DEF rest
  <2>3. <<rest>> \in Seq(Extent) BY <2>1
  <2> QED BY <1>1, <2>2, <2>3, ConcatProperties
<1>3. CASE ~(first.len > 1)
  <2>1. AfterBlock(x) = Tail(x) BY <1>3 DEF AfterBlock
  <2> QED BY <1>1, <2>1
<1> QED BY <1>1, <1>2, <1>3

LEMMA PartType ==
  ASSUME NEW c \in Cell, NEW left \in Nat
  PROVE  Part(c, left) \in Seq(Byte) /\ left - Len(Part(c, left)) \in Nat
<1> DEFINE bytes == IF c.kind = "data" THEN c.bytes ELSE Repeated(ZeroByte).bytes
           n == IF left < Len(bytes) THEN left ELSE Len(bytes)
<1>1. bytes \in Seq(Byte)
  <2>1. CASE c.kind = "data" BY <2>1, CellFields
  <2>2. CASE c.kind # "data" BY <2>2, ZeroBlockType
  <2> QED BY <2>1, <2>2
<1>2. Part(c, left) = SubSeq(bytes, 1, n) BY DEF Part
<1> HIDE DEF bytes
<1>3. Len(bytes) \in Nat BY <1>1, LenProperties
<1>4. n \in Nat /\ n <= left /\ n <= Len(bytes) BY <1>3
<1> HIDE DEF n
<1>5. \A i \in 1..n : bytes[i] \in Byte
  <2>1. \A i \in 1..n : i \in 1..Len(bytes) BY <1>3, <1>4
  <2> QED BY <1>1, <2>1, ElementOfSeq
<1>6. /\ SubSeq(bytes, 1, n) \in Seq(Byte)
      /\ Len(SubSeq(bytes, 1, n)) = IF 1 <= n THEN n - 1 + 1 ELSE 0
  BY <1>4, <1>5, SubSeqProperties
<1>7. Len(SubSeq(bytes, 1, n)) = n BY <1>4, <1>6
<1> QED BY <1>2, <1>4, <1>6, <1>7

LEMMA FindType == ASSUME NEW entries \in Seq(Byte), NEW name PROVE Find(entries, name) \in Nat
<1> DEFINE matches == {k \in DOMAIN entries :
                         /\ entries[k].name = name /\ entries[k].ino # 0
                         /\ \A j \in 1..(k - 1) : entries[j] # ZeroByte}
           n == Len(entries)
<1>1. DOMAIN entries = 1..n /\ n \in Nat BY LenProperties
<1>2. CASE matches = {} BY <1>2 DEF Find
<1>3. CASE matches # {}
  <2>1. matches \subseteq Nat BY <1>1
  <2>2. \E k \in matches : \A j \in matches : k <= j BY <1>3, <2>1, Least
  <2> DEFINE k == CHOOSE k \in matches : \A j \in matches : k <= j
  <2>3. k \in matches BY <2>2
  <2>4. k \in 1..n BY <1>1, <2>3
  <2>5. Find(entries, name) = entries[k].ino BY <1>3 DEF Find
  <2> HIDE DEF k
  <2>6. entries[k] \in Byte BY <2>4, ElementOfSeq
  <2> QED BY <2>5, <2>6 DEF Byte
<1> QED BY <1>2, <1>3

LEMMA PathType == <<>> \in Seq(Names) /\ Paths \subseteq Seq(Names)
<1>1. <<>> \in Seq(Names) OBVIOUS
<1> QED BY <1>1, ImageAssumption DEF ImageAssumption

LEMMA ReadType == ASSUME NEW path \in Seq(Names) PROVE Read(path) \in Job
<1>1. <<>> \in Seq(Nat) OBVIOUS
<1>2. <<>> \in Seq(Extent) OBVIOUS
<1>3. <<>> \in Seq(Byte) OBVIOUS
<1> QED BY <1>1, <1>2, <1>3 DEF Read, Job, Root

LEMMA FailedType == ASSUME NEW j \in Job PROVE [j EXCEPT !.ok = FALSE] \in Job
BY DEF Job

LEMMA FoundType ==
  ASSUME NEW j \in Job, NEW i \in Inode
  PROVE  [j EXCEPT !.nodes = i.children, !.extents = i.extents, !.left = i.size,
                   !.out = <<>>] \in Job
<1>1. <<>> \in Seq(Byte) OBVIOUS
<1>2. i.children \in Seq(Nat) /\ i.extents \in Seq(Extent) /\ i.size \in Nat BY DEF Inode
<1> QED BY <1>1, <1>2 DEF Job

LEMMA MoreExtentsType ==
  ASSUME NEW j \in Job, j.nodes # <<>>, NEW x \in Seq(Extent)
  PROVE  [j EXCEPT !.nodes = Tail(@), !.extents = x] \in Job
<1>1. Tail(j.nodes) \in Seq(Nat) BY HeadTailProperties DEF Job
<1> QED BY <1>1 DEF Job

LEMMA CopiedType ==
  ASSUME NEW j \in Job, NEW x \in Seq(Extent), NEW l \in Nat, NEW p \in Seq(Byte)
  PROVE  [j EXCEPT !.extents = x, !.left = l, !.out = @ \o p] \in Job
<1> DEFINE o == j.out \o p
<1>1. o \in Seq(Byte) BY ConcatProperties DEF Job
<1> HIDE DEF o
<1>2. [j EXCEPT !.extents = x, !.left = l, !.out = o] \in Job BY <1>1 DEF Job
<1> QED BY <1>2 DEF o

-----------------------------------------------------------------------------
(* Types of devices. *)

LEMMA NoDeviceType ==
  /\ NoDevice \in Device
  /\ \A fd \in Fds \cup {0} : [NoDevice EXCEPT !.fd = fd] \in Device
<1>1. <<>> \in Seq(Chunk) OBVIOUS
<1> QED BY <1>1 DEF NoDevice, Device

LEMMA HeadedType ==
  ASSUME NEW d \in Device, NEW c \in Cell, c.kind = "sparse"
  PROVE  [d EXCEPT !.kind = "sparse", !.total = c.total, !.left = c.chunks, !.next = 1] \in Device
<1>1. c.total \in Nat /\ c.chunks \in Nat BY CellFields
<1> QED BY <1>1 DEF Device

LEMMA RawType ==
  ASSUME NEW fd \in Fds \cup {0}, NEW c \in Cell, c.kind = "super"
  PROVE  [NoDevice EXCEPT !.kind = "raw", !.fd = fd, !.total = c.total] \in Device
<1>1. c.total \in Nat BY CellFields
<1> QED BY <1>1, NoDeviceType DEF Device

LEMMA TableType ==
  ASSUME NEW d \in Device, NEW c \in Cell, c.kind = "super"
  PROVE  [d EXCEPT !.table = c.table] \in Device
<1>1. c.table \in Nat BY CellFields
<1> QED BY <1>1 DEF Device

LEMMA HeaderInType ==
  ASSUME NEW c \in Cell
  PROVE  LET h == HeaderIn(c) IN h.type \in ChunkTypes /\ h.n \in Nat /\ h.size \in Nat
<1>1. CASE c.kind = "chunk" BY <1>1, CellFields DEF HeaderIn
<1>2. CASE c.kind # "chunk" BY <1>2 DEF HeaderIn, ChunkTypes
<1> QED BY <1>1, <1>2

LEMMA EndType == ASSUME NEW chunks \in Seq(Chunk) PROVE End(chunks) \in Nat
<1>1. CASE chunks = <<>> BY <1>1 DEF End
<1>2. CASE chunks # <<>>
  <2>1. Len(chunks) \in 1..Len(chunks) BY <1>2, EmptySeq
  <2> DEFINE c == chunks[Len(chunks)]
  <2>2. c \in Chunk BY <2>1, ElementOfSeq
  <2>3. End(chunks) = c.start + c.count BY <1>2 DEF End
  <2> HIDE DEF c
  <2>4. c.start \in Nat /\ c.count \in Nat BY <2>2 DEF Chunk
  <2> QED BY <2>3, <2>4
<1> QED BY <1>1, <1>2

\* The chunk that a device gets for a header.
NewChunk(d, header) ==
  [start |-> End(d.chunks), count |-> header.n, type |-> header.type, offset |-> d.next + 1,
   fill |-> IF header.type = "FILL" THEN Pread(d.fd, d.next + 1) ELSE NoCell]

LEMMA IndexedType ==
  ASSUME NEW d \in Device, NEW cell \in Cell, d.left # 0
  PROVE  LET h == HeaderIn(cell)
             e == Indexed(d, h)
         IN  /\ NewChunk(d, h) \in Chunk
             /\ e \in Device
             /\ e.chunks = Append(d.chunks, NewChunk(d, h))
             /\ e.left = d.left - 1 /\ e.next = d.next + h.size
             /\ e.kind = d.kind /\ e.fd = d.fd /\ e.total = d.total /\ e.seen = d.seen
<1> DEFINE h == HeaderIn(cell)
           x == NewChunk(d, h)
           fill == IF h.type = "FILL" THEN Pread(d.fd, d.next + 1) ELSE NoCell
           chunks == Append(d.chunks, x)
           left == d.left - 1
           next == d.next + h.size
           e == Indexed(d, h)
<1>0. d.chunks \in Seq(Chunk) /\ d.next \in Nat /\ d.left \in Nat BY DEF Device
<1>1. h.type \in ChunkTypes /\ h.n \in Nat /\ h.size \in Nat BY HeaderInType
<1>2. fill \in Cell
  <2>1. d.next + 1 \in Nat BY <1>0
  <2>2. Pread(d.fd, d.next + 1) \in Cell BY <2>1, PreadType
  <2> HIDE DEF h
  <2> QED BY <2>2, NoCellType
<1>3. e = [d EXCEPT !.chunks = chunks, !.left = left, !.next = next]
  BY DEF Indexed, NewChunk
<1> HIDE DEF h, e
<1>4. x \in Chunk
  <2>1. x = [start |-> End(d.chunks), count |-> h.n, type |-> h.type, offset |-> d.next + 1,
             fill |-> fill]
    BY DEF NewChunk
  <2>2. End(d.chunks) \in Nat BY <1>0, EndType
  <2> HIDE DEF x, fill
  <2> QED BY <1>0, <1>1, <1>2, <2>1, <2>2 DEF Chunk
<1> HIDE DEF x
<1>5. chunks \in Seq(Chunk) BY <1>0, <1>4, AppendProperties
<1>6. left \in Nat /\ next \in Nat BY <1>0, <1>1
<1> HIDE DEF chunks, left, next
<1>7. /\ e \in Device /\ e.chunks = chunks /\ e.left = left /\ e.next = next
      /\ e.kind = d.kind /\ e.fd = d.fd /\ e.total = d.total /\ e.seen = d.seen
  BY <1>3, <1>5, <1>6 DEF Device
<1> QED BY <1>4, <1>7 DEF h, x, e, chunks, left, next

-----------------------------------------------------------------------------
(* What steps do to the variables. *)

Devices == {"mount", "live"}

LEMMA ThreadTypes ==
  ASSUME TypeOK, NEW t \in Threads
  PROVE  /\ DeviceOf(t) \in Devices /\ device[DeviceOf(t)] \in Device
         /\ pc[t] \in Pcs /\ job[t] \in Job
BY DEF TypeOK, DeviceOf, Devices

LEMMA GotoMoves ==
  ASSUME TypeOK, NEW t \in Threads, NEW place \in Pcs, Goto(t, place)
  PROVE  pc' \in [Threads -> Pcs] /\ pc'[t] = place /\ \A u \in Threads \ {t} : pc'[u] = pc[u]
BY DEF TypeOK, Goto

LEMMA JobMoves ==
  ASSUME TypeOK, NEW t \in Threads, NEW j \in Job, job' = [job EXCEPT ![t] = j]
  PROVE  job' \in [Threads -> Job]
BY DEF TypeOK

LEMMA DeviceMoves ==
  ASSUME TypeOK, NEW d \in Devices, NEW e \in Device, device' = [device EXCEPT ![d] = e]
  PROVE  /\ device' \in [Devices -> Device] /\ device'[d] = e
         /\ \A f \in Devices \ {d} : device'[f] = device[f]
BY DEF TypeOK, Devices

LEMMA MakesShape ==
  ASSUME TypeOK, NEW t \in Threads, NEW e \in Device, Makes(t, e)
  PROVE  LET d2 == device'[DeviceOf(t)]
         IN  /\ device' \in [Devices -> Device]
             /\ d2.seen = e.seen \cup {Behind(e.fd)} /\ d2.kind = e.kind /\ d2.total = e.total
             /\ d2.chunks = e.chunks /\ d2.left = e.left /\ d2.next = e.next /\ d2.fd = e.fd
             /\ d2.table = e.table
             /\ \A f \in Devices \ {DeviceOf(t)} : device'[f] = device[f]
<1> DEFINE s == e.seen \cup {Behind(e.fd)}
           x == [e EXCEPT !.seen = s]
<1>1. s \in SUBSET (Images \cup {"closed"}) BY BehindType DEF Device
<1>2. device' = [device EXCEPT ![DeviceOf(t)] = x] BY DEF Makes
<1> HIDE DEF s
<1>3. /\ x \in Device /\ x.seen = s /\ x.kind = e.kind /\ x.total = e.total
      /\ x.chunks = e.chunks /\ x.left = e.left /\ x.next = e.next /\ x.fd = e.fd
      /\ x.table = e.table
  BY <1>1 DEF Device
<1> HIDE DEF x
<1>4. DeviceOf(t) \in Devices BY ThreadTypes
<1>5. /\ device' \in [Devices -> Device] /\ device'[DeviceOf(t)] = x
      /\ \A f \in Devices \ {DeviceOf(t)} : device'[f] = device[f]
  BY <1>2, <1>3, <1>4, DeviceMoves
<1> QED BY <1>3, <1>5 DEF s

LEMMA GivesUpShape ==
  ASSUME TypeOK, NEW t \in Threads, GivesUp(t)
  PROVE  /\ device' \in [Devices -> Device] /\ pc' \in [Threads -> Pcs]
         /\ mutex' \in Threads \cup {"free"}
         /\ device'[DeviceOf(t)] = NoDevice /\ pc'[t] = "idle"
         /\ \A f \in Devices \ {DeviceOf(t)} : device'[f] = device[f]
         /\ \A u \in Threads \ {t} : pc'[u] = pc[u]
<1>1. DeviceOf(t) \in Devices /\ NoDevice \in Device BY ThreadTypes, NoDeviceType
<1>2. device' = [device EXCEPT ![DeviceOf(t)] = NoDevice] /\ Goto(t, "idle") BY DEF GivesUp
<1>3. "idle" \in Pcs BY DEF Pcs
<1>4. mutex' \in Threads \cup {"free"} BY DEF GivesUp, TypeOK
<1> QED BY <1>1, <1>2, <1>3, <1>4, DeviceMoves, GotoMoves

LEMMA ReadsShape ==
  ASSUME TypeOK, NEW t \in Threads, NEW j \in Job, Reads(t, j)
  PROVE  job' \in [Threads -> Job]
<1> DEFINE s == j.seen \cup {Behind(device[DeviceOf(t)].fd)}
           x == [j EXCEPT !.seen = s]
<1>1. s \in SUBSET (Images \cup {"closed"}) BY BehindType DEF Job
<1>2. job' = [job EXCEPT ![t] = x] BY DEF Reads
<1> HIDE DEF s
<1>3. x \in Job BY <1>1 DEF Job
<1> HIDE DEF x
<1> QED BY <1>2, <1>3, JobMoves

-----------------------------------------------------------------------------
(* Every step keeps the types. *)

LEMMA SelectingType ==
  ASSUME TypeOK, UiSelects \/ UiReopens \/ UiVerifies \/ UiRemounts \/ UiCloses \/ UiUnmounts
  PROVE  TypeOK'
<1>0. "ui" \in Threads BY DEF Threads
<1>1. pc' \in [Threads -> Pcs]
  <2>1. \E place \in {"reopen", "idle", "verify", "remount", "unmount", "header"} :
          Goto("ui", place)
    BY DEF UiSelects, UiReopens, UiVerifies, UiRemounts, UiCloses, UiUnmounts
  <2> QED BY <1>0, <2>1, GotoMoves DEF Pcs, MakePcs
<1>2. Closed \in [Fds -> Images \cup {"closed"}] BY DEF TypeOK, Closed
<1>3. CASE UiSelects
  <2>1. table' \in [Fds -> Images \cup {"closed"}] BY <1>2, <1>3 DEF UiSelects
  <2>2. selects' \in Nat BY <1>3 DEF UiSelects, TypeOK
  <2>3. fresh' \in BOOLEAN BY <1>3 DEF UiSelects
  <2> QED BY <1>1, <1>3, <2>1, <2>2, <2>3 DEF UiSelects, TypeOK
<1>4. CASE UiReopens BY <1>1, <1>4 DEF UiReopens, TypeOK, fds, counts
<1>5. CASE UiVerifies BY <1>1, <1>5 DEF UiVerifies, TypeOK, fds, counts
<1>6. CASE UiRemounts
  <2>1. active \in Fds \cup {0} /\ [NoDevice EXCEPT !.fd = active] \in Device
    BY NoDeviceType DEF TypeOK
  <2> DEFINE e == [NoDevice EXCEPT !.fd = active]
  <2>2. device' = [device EXCEPT !["mount"] = e] BY <1>6 DEF UiRemounts
  <2> HIDE DEF e
  <2>3. device' \in [Devices -> Device] BY <2>1, <2>2, DeviceMoves DEF Devices, e
  <2> QED BY <1>0, <1>1, <1>6, <2>3 DEF UiRemounts, TypeOK, fds, counts, Devices
<1>7. CASE UiCloses BY <1>1, <1>7 DEF UiCloses, TypeOK, fds
<1>8. CASE UiUnmounts
  <2>1. device' \in [Devices -> Device]
    BY <1>8, NoDeviceType, DeviceMoves DEF UiUnmounts, Devices
  <2> QED BY <1>1, <1>2, <1>8, <2>1 DEF UiUnmounts, TypeOK, counts, Devices
<1> QED BY <1>3, <1>4, <1>5, <1>6, <1>7, <1>8

LEMMA MakingType ==
  ASSUME TypeOK, NEW t \in {"ui", "live"}, MakeStep(t) PROVE TypeOK'
<1> DEFINE d == device[DeviceOf(t)]
<1>0. /\ t \in Threads /\ d \in Device /\ d.fd \in Fds \cup {0} /\ d.next \in Nat
      /\ DeviceOf(t) \in Devices
  <2>1. t \in Threads BY DEF Threads
  <2> QED BY <2>1, ThreadTypes DEF Device
<1>1. CASE ReadsHeader(t)
  <2> DEFINE c == Pread(d.fd, 0)
             e == [d EXCEPT !.kind = "sparse", !.total = c.total, !.left = c.chunks, !.next = 1]
  <2>1. c \in Cell BY PreadType
  <2>2. \/ c.kind = "sparse" /\ Makes(t, e) /\ Goto(t, "index")
        \/ Goto(t, "raw") /\ UNCHANGED device
    BY <1>1 DEF ReadsHeader
  <2>3. c.kind = "sparse" => e \in Device BY <1>0, <2>1, HeadedType
  <2> HIDE DEF e
  <2>4. device' \in [Devices -> Device] BY <1>0, <2>2, <2>3, MakesShape DEF TypeOK, Devices
  <2>5. pc' \in [Threads -> Pcs] BY <1>0, <2>2, GotoMoves DEF Pcs, MakePcs
  <2> QED BY <1>1, <2>4, <2>5 DEF ReadsHeader, TypeOK, fds, counts, Devices
<1>2. CASE Indexes(t)
  <2> DEFINE c == Pread(d.fd, d.next)
             e == Indexed(d, HeaderIn(c))
  <2>1. c \in Cell BY <1>0, PreadType
  <2>2. \/ Goto(t, "super") /\ UNCHANGED device
        \/ Goto(t, "raw") /\ UNCHANGED device
        \/ d.left # 0 /\ Makes(t, e) /\ UNCHANGED pc
    BY <1>2 DEF Indexes
  <2>3. d.left # 0 => e \in Device BY <1>0, <2>1, IndexedType
  <2> HIDE DEF e
  <2>4. device' \in [Devices -> Device] BY <1>0, <2>2, <2>3, MakesShape DEF TypeOK, Devices
  <2>5. pc' \in [Threads -> Pcs]
    <3>1. CASE UNCHANGED pc BY <3>1 DEF TypeOK
    <3>2. CASE Goto(t, "super") \/ Goto(t, "raw") BY <1>0, <3>2, GotoMoves DEF Pcs, MakePcs
    <3> QED BY <2>2, <3>1, <3>2
  <2> QED BY <1>2, <2>4, <2>5 DEF Indexes, TypeOK, fds, counts, Devices
<1>3. CASE TriesRaw(t)
  <2> DEFINE c == Pread(d.fd, 0)
             e == [NoDevice EXCEPT !.kind = "raw", !.fd = d.fd, !.total = c.total]
  <2>1. c \in Cell BY PreadType
  <2>2. \/ c.kind = "super" /\ Makes(t, e) /\ Goto(t, "super") /\ UNCHANGED mutex
        \/ GivesUp(t)
    BY <1>3 DEF TriesRaw
  <2>3. c.kind = "super" => e \in Device BY <1>0, <2>1, RawType
  <2> HIDE DEF e
  <2>4. device' \in [Devices -> Device] BY <1>0, <2>2, <2>3, MakesShape, GivesUpShape
  <2>5. pc' \in [Threads -> Pcs] BY <1>0, <2>2, GotoMoves, GivesUpShape DEF Pcs, MakePcs
  <2>6. mutex' \in Threads \cup {"free"} BY <1>0, <2>2, GivesUpShape DEF TypeOK
  <2> QED BY <1>3, <2>4, <2>5, <2>6 DEF TriesRaw, TypeOK, fds, counts, Devices
<1>4. CASE ReadsSuper(t)
  <2> DEFINE c == Block(d, 0)
             e == [d EXCEPT !.table = c.table]
  <2>1. c \in Cell BY <1>0, BlockType
  <2>2. \/ /\ c.kind = "super" /\ Makes(t, e) /\ (Goto(t, "lock") \/ Goto(t, "inode"))
           /\ mutex' \in {"free", mutex} /\ fresh' \in BOOLEAN
           /\ \E path \in Paths : job' = [job EXCEPT ![t] = Read(path)]
        \/ GivesUp(t) /\ UNCHANGED <<job, fresh>>
    <3>1. CASE c.kind = "super"
      <4>1. (t = "ui" \/ fresh) \in BOOLEAN OBVIOUS
      <4> QED BY <1>4, <3>1, <4>1 DEF ReadsSuper
    <3>2. CASE c.kind # "super" BY <1>4, <3>2 DEF ReadsSuper
    <3> QED BY <3>1, <3>2
  <2>3. c.kind = "super" => e \in Device BY <1>0, <2>1, TableType
  <2> HIDE DEF c, e
  <2>4. device' \in [Devices -> Device] BY <1>0, <2>2, <2>3, MakesShape, GivesUpShape
  <2>5. pc' \in [Threads -> Pcs] BY <1>0, <2>2, GotoMoves, GivesUpShape DEF Pcs, ReadPcs
  <2>6. mutex' \in Threads \cup {"free"} BY <1>0, <2>2, GivesUpShape DEF TypeOK
  <2>7. job' \in [Threads -> Job]
    <3>1. CASE UNCHANGED job BY <3>1 DEF TypeOK
    <3>2. CASE \E path \in Paths : job' = [job EXCEPT ![t] = Read(path)]
      <4>1. PICK path \in Paths : job' = [job EXCEPT ![t] = Read(path)] BY <3>2
      <4>2. Read(path) \in Job BY PathType, ReadType
      <4> QED BY <1>0, <4>1, <4>2, JobMoves
    <3> QED BY <2>2, <3>1, <3>2
  <2>8. fresh' \in BOOLEAN BY <2>2 DEF TypeOK
  <2> QED BY <1>4, <2>4, <2>5, <2>6, <2>7, <2>8 DEF ReadsSuper, TypeOK, fds, counts, Devices
<1> QED BY <1>1, <1>2, <1>3, <1>4 DEF MakeStep

LEMMA BeginningType ==
  ASSUME TypeOK, NEW path \in Paths, UiBrowses(path) \/ ExtractBegins(path)
  PROVE  TypeOK'
<1>1. PICK t \in {"ui", "extract"} : Begins(t, path, "lock") /\ UNCHANGED device
  BY DEF UiBrowses, ExtractBegins
<1>2. t \in Threads BY DEF Threads
<1>3. pc' \in [Threads -> Pcs] BY <1>1, <1>2, GotoMoves DEF Begins, Pcs
<1>4. Read(path) \in Job BY PathType, ReadType
<1>5. job' \in [Threads -> Job] BY <1>1, <1>2, <1>4, JobMoves DEF Begins
<1> QED BY <1>1, <1>3, <1>5 DEF Begins, TypeOK, fds

LEMMA LiveType == ASSUME TypeOK, LiveBegins \/ LiveThrows PROVE TypeOK'
<1>0. "ui" \in Threads /\ "live" \in Threads BY DEF Threads
<1>1. CASE LiveBegins
  <2>1. Begins("live", <<>>, "header") BY <1>1 DEF LiveBegins
  <2>2. pc' \in [Threads -> Pcs] BY <1>0, <2>1, GotoMoves DEF Begins, Pcs, MakePcs
  <2>3. Read(<<>>) \in Job BY PathType, ReadType
  <2>4. job' \in [Threads -> Job] BY <1>0, <2>1, <2>3, JobMoves DEF Begins
  <2> DEFINE e == [NoDevice EXCEPT !.fd = active]
  <2>5. e \in Device BY NoDeviceType DEF TypeOK
  <2>6. device' = [device EXCEPT !["live"] = e] BY <1>1 DEF LiveBegins
  <2> HIDE DEF e
  <2>7. device' \in [Devices -> Device] BY <2>5, <2>6, DeviceMoves DEF Devices
  <2> QED BY <2>1, <2>2, <2>4, <2>7 DEF Begins, TypeOK, fds, Devices
<1>2. CASE LiveThrows
  <2>1. pc' \in [Threads -> Pcs] BY <1>0, <1>2, GotoMoves DEF LiveThrows, Pcs
  <2> QED BY <1>2, <2>1 DEF LiveThrows, TypeOK, fds, counts
<1> QED BY <1>1, <1>2

LEMMA ReadingType ==
  ASSUME TypeOK, NEW t \in Threads, ReadStep(t) \/ Locks(t)
  PROVE  TypeOK'
<1> DEFINE d == device[DeviceOf(t)]
           j == job[t]
<1>0. d \in Device /\ d.table \in Nat /\ j \in Job
  <2>1. d \in Device /\ j \in Job BY ThreadTypes
  <2> QED BY <2>1 DEF Device
<1> USE DEF TypeOK
<1>1. CASE Locks(t)
  <2>1. Goto(t, "idle") \/ Goto(t, "inode") BY <1>1 DEF Locks
  <2>2. pc' \in [Threads -> Pcs] BY <2>1, GotoMoves DEF Pcs, ReadPcs
  <2>3. mutex' \in Threads \cup {"free"} BY <1>1 DEF Locks
  <2> QED BY <1>1, <2>2, <2>3 DEF Locks, fds, counts
<1>2. CASE ReadsInode(t)
  <2> DEFINE c == Block(d, d.table)
             i == InodeIn(c, j.ino)
             e == [j EXCEPT !.nodes = i.children, !.extents = i.extents, !.left = i.size,
                            !.out = <<>>]
             f == [j EXCEPT !.ok = FALSE]
  <2>1. c \in Cell BY <1>0, BlockType
  <2>2. i \in Inode BY <2>1, InodeInType
  <2>3. e \in Job /\ f \in Job BY <1>0, <2>2, FoundType, FailedType
  <2>4. \/ Reads(t, f) /\ Goto(t, "done")
        \/ Reads(t, e) /\ Goto(t, "node")
    BY <1>2 DEF ReadsInode
  <2> HIDE DEF e, f
  <2>5. job' \in [Threads -> Job] BY <2>3, <2>4, ReadsShape
  <2>6. pc' \in [Threads -> Pcs] BY <2>4, GotoMoves DEF Pcs, ReadPcs
  <2> QED BY <1>2, <2>5, <2>6 DEF ReadsInode, fds, counts
<1>3. CASE ReadsNode(t)
  <2> DEFINE c == Block(d, Head(j.nodes))
             x == IF c.kind = "node" THEN j.extents \o c.extents ELSE j.extents
             e == [j EXCEPT !.nodes = Tail(@), !.extents = x]
  <2>1. j.nodes # <<>> BY <1>3 DEF ReadsNode
  <2>2. Head(j.nodes) \in Nat BY <1>0, <2>1, HeadTailProperties DEF Job
  <2>3. c \in Cell BY <1>0, <2>2, BlockType
  <2>4. j.extents \in Seq(Extent) BY <1>0 DEF Job
  <2>5. Reads(t, e) BY <1>3 DEF ReadsNode
  <2> HIDE DEF c
  <2>6. x \in Seq(Extent)
    <3>1. CASE c.kind = "node"
      <4>1. c.extents \in Seq(Extent) BY <2>3, <3>1, CellFields
      <4> QED BY <2>4, <3>1, <4>1, ConcatProperties
    <3>2. CASE c.kind # "node" BY <2>4, <3>2
    <3> QED BY <3>1, <3>2
  <2> HIDE DEF x
  <2>7. e \in Job BY <1>0, <2>1, <2>6, MoreExtentsType
  <2> HIDE DEF e
  <2>8. job' \in [Threads -> Job] BY <2>5, <2>7, ReadsShape
  <2> QED BY <1>3, <2>8 DEF ReadsNode, fds, counts
<1>4. CASE HasExtents(t)
  <2>1. pc' \in [Threads -> Pcs] BY <1>4, GotoMoves DEF HasExtents, Pcs, ReadPcs
  <2> QED BY <1>4, <2>1 DEF HasExtents, fds, counts
<1>5. CASE ReadsBlock(t)
  <2> DEFINE c == Block(d, Head(j.extents).start)
             p == Part(c, j.left)
             x == AfterBlock(j.extents)
             l == j.left - Len(p)
             e == [j EXCEPT !.extents = x, !.left = l, !.out = @ \o p]
             f == [j EXCEPT !.ok = FALSE]
  <2>1. j.extents # <<>> /\ j.extents \in Seq(Extent) /\ j.left \in Nat
    BY <1>0, <1>5 DEF ReadsBlock, Job
  <2>2. x \in Seq(Extent) /\ Head(j.extents) \in Extent BY <2>1, AfterBlockType
  <2>3. Head(j.extents).start \in Nat BY <2>2 DEF Extent
  <2>4. c \in Cell BY <1>0, <2>3, BlockType
  <2>5. p \in Seq(Byte) /\ l \in Nat BY <2>1, <2>4, PartType
  <2>6. \/ Reads(t, f) /\ Goto(t, "done")
        \/ Reads(t, e) /\ UNCHANGED pc
    BY <1>5 DEF ReadsBlock
  <2> HIDE DEF c, p, x, l
  <2>7. e \in Job /\ f \in Job BY <1>0, <2>2, <2>5, CopiedType, FailedType
  <2> HIDE DEF e, f
  <2>8. job' \in [Threads -> Job] BY <2>6, <2>7, ReadsShape
  <2>9. pc' \in [Threads -> Pcs] BY <2>6, GotoMoves DEF Pcs, ReadPcs
  <2> QED BY <1>5, <2>8, <2>9 DEF ReadsBlock, fds, counts
<1>6. CASE EndsFile(t)
  <2> DEFINE i == Find(j.out, Head(j.names))
             e == [j EXCEPT !.ino = i, !.names = Tail(@)]
             f == [j EXCEPT !.ok = FALSE]
  <2>1. \/ UNCHANGED job
        \/ job' = [job EXCEPT ![t] = f]
        \/ j.names # <<>> /\ job' = [job EXCEPT ![t] = e]
    BY <1>6 DEF EndsFile
  <2>2. i \in Nat BY <1>0, FindType DEF Job
  <2> HIDE DEF i
  <2>3. f \in Job BY <1>0, FailedType
  <2>4. ASSUME j.names # <<>> PROVE e \in Job
    <3>1. Tail(j.names) \in Seq(Names) BY <1>0, <2>4, HeadTailProperties DEF Job
    <3> QED BY <1>0, <2>2, <3>1 DEF Job
  <2> HIDE DEF e, f
  <2>5. job' \in [Threads -> Job] BY <2>1, <2>3, <2>4, JobMoves
  <2>6. Goto(t, "done") \/ Goto(t, "inode") BY <1>6 DEF EndsFile
  <2>7. pc' \in [Threads -> Pcs] BY <2>6, GotoMoves DEF Pcs, ReadPcs
  <2> QED BY <1>6, <2>5, <2>7 DEF EndsFile, fds, counts
<1>7. CASE Returns(t)
  <2>1. pc' \in [Threads -> Pcs] BY <1>7, GotoMoves DEF Returns, Pcs
  <2>2. Read(<<>>) \in Job BY PathType, ReadType
  <2>3. job' \in [Threads -> Job] BY <1>7, <2>2, JobMoves DEF Returns
  <2>4. device' \in [Devices -> Device]
    <3>1. device' = [device EXCEPT !["live"] = NoDevice] \/ UNCHANGED device BY <1>7 DEF Returns
    <3> QED BY <3>1, NoDeviceType, DeviceMoves DEF Devices
  <2>5. mutex' \in Threads \cup {"free"} BY <1>7 DEF Returns
  <2> QED BY <1>7, <2>1, <2>3, <2>4, <2>5 DEF Returns, fds, counts, Devices
<1> QED BY <1>1, <1>2, <1>3, <1>4, <1>5, <1>6, <1>7 DEF ReadStep

LEMMA GoingOnType == ASSUME TypeOK, NEW path \in Paths, ExtractGoesOn(path) PROVE TypeOK'
<1> USE DEF TypeOK
<1>1. "extract" \in Threads BY DEF Threads
<1>2. pc' \in [Threads -> Pcs] BY <1>1, GotoMoves DEF ExtractGoesOn, Pcs, ReadPcs
<1>3. Read(path) \in Job BY PathType, ReadType
<1>4. job' \in [Threads -> Job] BY <1>1, <1>3, JobMoves DEF ExtractGoesOn
<1> QED BY <1>2, <1>4 DEF ExtractGoesOn, fds

LEMMA InitType == ASSUME Init PROVE TypeOK
<1>1. Read(<<>>) \in Job BY PathType, ReadType
<1>2. NoDevice \in Device BY NoDeviceType
<1>3. "idle" \in Pcs BY DEF Pcs
<1> QED BY <1>1, <1>2, <1>3 DEF Init, TypeOK

\* What a step is, for the proofs by cases.
LEMMA StepCases ==
  ASSUME [Next]_vars
  PROVE  \/ UiSelects \/ UiReopens \/ UiVerifies \/ UiRemounts \/ UiCloses \/ UiUnmounts
         \/ \E t \in {"ui", "live"} : MakeStep(t)
         \/ \E t \in Threads : ReadStep(t)
         \/ Locks("ui") \/ Locks("extract")
         \/ \E path \in Paths : UiBrowses(path) \/ ExtractBegins(path)
         \/ \E path \in Paths : ExtractGoesOn(path)
         \/ LiveBegins \/ LiveThrows \/ UNCHANGED vars
BY DEF Next, UiStep, ExtractStep, LiveStep, UiCalls, Threads

LEMMA NextType == ASSUME TypeOK, [Next]_vars PROVE TypeOK'
<1>1. CASE UNCHANGED vars BY <1>1 DEF TypeOK, vars, fds, threads, counts
<1>2. "ui" \in Threads /\ "live" \in Threads /\ "extract" \in Threads BY DEF Threads
<1> QED BY <1>1, <1>2, StepCases, SelectingType, MakingType, BeginningType, LiveType, ReadingType,
           GoingOnType

\* The type invariant, for every set of images and every bound.
THEOREM TypeCorrect == Spec => []TypeOK
<1>1. Init => TypeOK BY InitType
<1>2. TypeOK /\ [Next]_vars => TypeOK' BY NextType
<1> QED BY <1>1, <1>2, PTL DEF Spec

-----------------------------------------------------------------------------
(* What a device has of the image it is made from. *)

\* The index is the beginning of the layout, and the next header is the one of the next
\* chunk; a raw device has the volume's size.
Matches(d, i) ==
  /\ d.kind = "sparse" =>
       /\ WrittenSparse(i)
       /\ d.total = Len(Volume[i])
       /\ Len(d.chunks) + d.left = Len(Layout[i])
       /\ \A k \in DOMAIN d.chunks : d.chunks[k] = Layout[i][k]
       /\ d.left # 0 => d.next = Layout[i][Len(d.chunks) + 1].offset - 1
  /\ d.kind = "raw" => WrittenRaw(i) /\ d.total = Len(Volume[i])

\* A device whose maker is at a place.
Sound(d, at) ==
  /\ at = "header" => d.kind = "none" /\ d.chunks = <<>>
  /\ at = "index" => d.kind = "sparse"
  /\ at = "super" => d.kind # "none"
  /\ d.kind = "sparse" /\ d.left # 0 => at \in {"index", "raw"}
  /\ d.kind # "none" => d.seen # {}
  /\ \A i \in Images : d.kind # "none" /\ d.seen = {i} => Matches(d, i)

DevicesSound == \A d \in Devices : Sound(device[d], pc[MakerOf(d)])

LEMMA ImageTypes ==
  ASSUME NEW i \in Images
  PROVE  /\ Storage[i] \in Seq(Cell) /\ Volume[i] \in Seq(Cell) /\ Layout[i] \in Seq(Chunk)
         /\ Len(Storage[i]) \in Nat /\ Len(Volume[i]) \in Nat /\ Len(Layout[i]) \in Nat
         /\ DOMAIN Layout[i] = 1..Len(Layout[i]) /\ DOMAIN Storage[i] = 1..Len(Storage[i])
         /\ DOMAIN Volume[i] = 1..Len(Volume[i])
<1>1. Storage[i] \in Seq(Cell) /\ Volume[i] \in Seq(Cell) /\ Layout[i] \in Seq(Chunk)
  BY ImageAssumption DEF ImageAssumption
<1> QED BY <1>1, LenProperties

\* What the first cell of an image says it is.
LEMMA FirstCell ==
  ASSUME NEW i \in Images, 0 < Len(Storage[i])
  PROVE  /\ Storage[i][1].kind = "sparse" => WrittenSparse(i)
         /\ Storage[i][1].kind = "super" => WrittenRaw(i)
<1>1. 1 \in DOMAIN Storage[i] BY ImageTypes
<1> QED BY <1>1, WrittenAssumption DEF WrittenAssumption

\* A maker that goes elsewhere leaves a device sound.
LEMMA SoundElsewhere ==
  ASSUME NEW d, NEW at, NEW to, Sound(d, at),
         \/ to = at
         \/ to \notin {"header", "index", "super"} /\ at \notin {"index", "raw"}
         \/ to = "raw"
         \/ at = "index" /\ to = "super" /\ d.left = 0
  PROVE  Sound(d, to)
BY DEF Sound

LEMMA SoundNone ==
  ASSUME NEW at, at \notin {"index", "super"}, NEW fd
  PROVE  Sound(NoDevice, at) /\ Sound([NoDevice EXCEPT !.fd = fd], at)
BY DEF Sound, NoDevice

-----------------------------------------------------------------------------
(* The steps that make a device. *)

LEMMA HeaderSound ==
  ASSUME TypeOK, NEW d \in Device, d.chunks = <<>>, NEW e \in Device,
         Pread(d.fd, 0).kind = "sparse",
         e.kind = "sparse", e.total = Pread(d.fd, 0).total, e.left = Pread(d.fd, 0).chunks,
         e.next = 1, e.chunks = <<>>, e.seen = d.seen \cup {Behind(d.fd)}
  PROVE  Sound(e, "index")
<1> DEFINE b == Behind(d.fd)
           c == Pread(d.fd, 0)
<1>1. b \in Images /\ 0 < Len(Storage[b]) /\ c = Storage[b][1]
  <2>1. c.kind # "none" BY DEF Cell
  <2> QED BY <2>1, PreadType
<1>2. WrittenSparse(b) BY <1>1, FirstCell
<1>3. c.total = Len(Volume[b]) /\ c.chunks = Len(Layout[b]) BY <1>1, <1>2 DEF WrittenSparse
<1> HIDE DEF c
<1>4. e.total = Len(Volume[b]) /\ e.left = Len(Layout[b]) BY <1>3 DEF c
<1>5. e.left # 0 => e.next = Layout[b][1].offset - 1
  <2>1. e.left # 0 => Layout[b] # <<>> BY <1>4
  <2>2. Layout[b] # <<>> => Layout[b][1].offset = 2 BY <1>2 DEF WrittenSparse
  <2> QED BY <2>1, <2>2
<1>6. Len(e.chunks) = 0 /\ DOMAIN e.chunks = {} OBVIOUS
<1>7. Len(e.chunks) + e.left = Len(Layout[b]) BY <1>1, <1>4, <1>6, ImageTypes
<1>8. Matches(e, b) BY <1>2, <1>4, <1>5, <1>6, <1>7 DEF Matches
<1>9. e.seen = d.seen \cup {b} OBVIOUS
<1> HIDE DEF b
<1>10. ASSUME NEW i \in Images, e.seen = {i} PROVE Matches(e, i)
  <2>1. i = b BY <1>9, <1>10
  <2> QED BY <1>8, <2>1
<1> QED BY <1>9, <1>10 DEF Sound

LEMMA RawSound ==
  ASSUME TypeOK, NEW fd, NEW e \in Device, Pread(fd, 0).kind = "super",
         e.kind = "raw", e.total = Pread(fd, 0).total, e.seen = {Behind(fd)}
  PROVE  Sound(e, "super")
<1> DEFINE b == Behind(fd)
           c == Pread(fd, 0)
<1>1. b \in Images /\ 0 < Len(Storage[b]) /\ c = Storage[b][1] BY PreadType
<1>2. WrittenRaw(b) BY <1>1, FirstCell
<1>3. c.total = Len(Volume[b]) BY <1>1, <1>2 DEF WrittenRaw
<1>4. Matches(e, b) BY <1>2, <1>3 DEF Matches
<1> HIDE DEF b, c
<1>5. e.seen = {b} BY DEF b
<1>6. ASSUME NEW i \in Images, e.seen = {i} PROVE Matches(e, i)
  <2>1. i = b BY <1>5, <1>6
  <2> QED BY <1>4, <2>1
<1> QED BY <1>5, <1>6 DEF Sound

\* The chunk that follows the index in the layout is the one its header says.
LEMMA NextChunk ==
  ASSUME NEW d \in Device, NEW i \in Images, Matches(d, i), d.kind = "sparse", d.left # 0,
         Behind(d.fd) = i, Pread(d.fd, d.next).kind # "none"
  PROVE  LET k == Len(d.chunks) + 1
             h == HeaderIn(Pread(d.fd, d.next))
         IN  /\ k \in DOMAIN Layout[i]
             /\ NewChunk(d, h) = Layout[i][k]
             /\ k < Len(Layout[i]) => d.next + h.size = Layout[i][k + 1].offset - 1
<1> DEFINE k == Len(d.chunks) + 1
           c == Layout[i][k]
           p == Pread(d.fd, d.next)
           h == HeaderIn(p)
<1>0. /\ d.chunks \in Seq(Chunk) /\ Len(d.chunks) \in Nat /\ d.left \in Nat /\ d.next \in Nat
      /\ DOMAIN d.chunks = 1..Len(d.chunks)
  BY LenProperties DEF Device
<1>1. k \in DOMAIN Layout[i] /\ k \in 1..Len(Layout[i])
  <2>1. Len(d.chunks) + d.left = Len(Layout[i]) BY DEF Matches
  <2> QED BY <1>0, <2>1, ImageTypes
<1>2. c \in Chunk BY <1>1, ImageTypes, ElementOfSeq
<1>3. c.offset \in Nat /\ c.start \in Nat /\ c.count \in Nat BY <1>2 DEF Chunk
<1>4. d.next + 1 = c.offset
  <2>1. d.next = c.offset - 1 BY DEF Matches
  <2> QED BY <1>0, <1>3, <2>1
<1>5. p = Storage[i][c.offset] /\ d.next < Len(Storage[i]) BY <1>0, <1>4, PreadType
<1>6. c.offset <= Len(Storage[i]) BY <1>0, <1>3, <1>4, <1>5, ImageTypes
<1>7. WrittenSparse(i) BY DEF Matches
<1>8. HeaderOfChunk(i, k) BY <1>1, <1>7 DEF WrittenSparse
<1> HIDE DEF k
<1>9. /\ p.kind = "chunk" /\ p.type = c.type /\ p.n = c.count
      /\ k < Len(Layout[i]) => Layout[i][k + 1].offset = c.offset + p.size
  BY <1>5, <1>6, <1>8 DEF HeaderOfChunk
<1>10. h = p BY <1>9 DEF HeaderIn
<1>11. End(d.chunks) = c.start
  <2>1. CASE d.chunks = <<>>
    <3>1. k = 1 BY <2>1 DEF k
    <3>2. Layout[i][1].start = 0
      <4>1. Layout[i] # <<>> BY <1>1
      <4> QED BY <1>7, <4>1 DEF WrittenSparse
    <3> QED BY <2>1, <3>1, <3>2 DEF End
  <2>2. CASE d.chunks # <<>>
    <3> DEFINE l == Len(d.chunks)
    <3>1. l \in DOMAIN d.chunks /\ l \in DOMAIN Layout[i] /\ l < Len(Layout[i]) /\ k = l + 1
      <4>1. l # 0 BY <1>0, <2>2, EmptySeq
      <4> QED BY <1>0, <1>1, <4>1, ImageTypes DEF k
    <3>2. d.chunks[l] = Layout[i][l] BY <3>1 DEF Matches
    <3>3. Layout[i][l + 1].start = Layout[i][l].start + Layout[i][l].count
      BY <1>7, <3>1 DEF WrittenSparse
    <3>4. End(d.chunks) = d.chunks[l].start + d.chunks[l].count BY <2>2 DEF End
    <3> QED BY <3>1, <3>2, <3>3, <3>4
  <2> QED BY <2>1, <2>2
<1>12. (IF h.type = "FILL" THEN Pread(d.fd, d.next + 1) ELSE NoCell) = c.fill
  <2>1. CASE c.type = "FILL"
    <3>1. c.offset < Len(Storage[i]) /\ Storage[i][c.offset + 1] = c.fill
      BY <1>6, <1>8, <2>1 DEF HeaderOfChunk
    <3>2. Pread(d.fd, c.offset) = Storage[i][c.offset + 1] BY <3>1 DEF Pread
    <3> QED BY <1>4, <1>9, <1>10, <2>1, <3>1, <3>2
  <2>2. CASE c.type # "FILL"
    <3>1. c.fill = NoCell BY <1>6, <1>8, <2>2 DEF HeaderOfChunk
    <3> QED BY <1>9, <1>10, <2>2, <3>1
  <2> QED BY <2>1, <2>2
<1>13. NewChunk(d, h) = [start |-> c.start, count |-> c.count, type |-> c.type,
                         offset |-> c.offset, fill |-> c.fill]
  <2>1. h.n = c.count /\ h.type = c.type BY <1>9, <1>10
  <2> HIDE DEF h, c
  <2> QED BY <1>4, <1>11, <1>12, <2>1 DEF NewChunk
<1>14. NewChunk(d, h) = c
  <2> HIDE DEF c, h
  <2> QED BY <1>2, <1>13 DEF Chunk
<1>15. k < Len(Layout[i]) => d.next + h.size = Layout[i][k + 1].offset - 1
  <2>1. SUFFICES ASSUME k < Len(Layout[i]) PROVE d.next + h.size = Layout[i][k + 1].offset - 1
    OBVIOUS
  <2>2. Layout[i][k + 1].offset = c.offset + h.size BY <1>9, <1>10, <2>1
  <2>3. h.size \in Nat BY <1>0, PreadType, HeaderInType
  <2> HIDE DEF c, h
  <2> QED BY <1>0, <1>3, <1>4, <2>2, <2>3
<1> QED BY <1>1, <1>14, <1>15 DEF k

LEMMA IndexSound ==
  ASSUME TypeOK, NEW d \in Device, Sound(d, "index"), d.left # 0,
         Pread(d.fd, d.next).kind # "none",
         NEW e \in Device, e.kind = d.kind, e.fd = d.fd, e.total = d.total,
         e.left = d.left - 1,
         e.chunks = Append(d.chunks, NewChunk(d, HeaderIn(Pread(d.fd, d.next)))),
         e.next = d.next + HeaderIn(Pread(d.fd, d.next)).size,
         e.seen = d.seen \cup {Behind(d.fd)}
  PROVE  Sound(e, "index")
<1> DEFINE b == Behind(d.fd)
           h == HeaderIn(Pread(d.fd, d.next))
           x == NewChunk(d, h)
<1>0. /\ d.chunks \in Seq(Chunk) /\ Len(d.chunks) \in Nat /\ d.left \in Nat /\ d.next \in Nat
      /\ DOMAIN d.chunks = 1..Len(d.chunks)
  BY LenProperties DEF Device
<1>1. d.kind = "sparse" /\ d.seen # {} BY DEF Sound
<1>2. e.seen = d.seen \cup {b} OBVIOUS
<1>3. x \in Chunk
  <2>1. Pread(d.fd, d.next) \in Cell BY <1>0, PreadType
  <2> QED BY <2>1, IndexedType
<1>4. e.chunks = Append(d.chunks, x) /\ e.next = d.next + h.size OBVIOUS
<1> HIDE DEF x, h
<1>5. ASSUME NEW i \in Images, e.seen = {i} PROVE Matches(e, i)
  <2>1. b = i /\ d.seen = {i}
    <3> HIDE DEF b
    <3> QED BY <1>1, <1>2, <1>5
  <2>2. Matches(d, i) BY <1>1, <2>1 DEF Sound
  <2> DEFINE k == Len(d.chunks) + 1
  <2>3. /\ k \in DOMAIN Layout[i]
        /\ x = Layout[i][k]
        /\ k < Len(Layout[i]) => d.next + h.size = Layout[i][k + 1].offset - 1
    BY <1>1, <2>1, <2>2, NextChunk DEF h, x
  <2>4. WrittenSparse(i) /\ e.total = Len(Volume[i]) BY <1>1, <2>2 DEF Matches
  <2>5. Len(e.chunks) = k /\ DOMAIN e.chunks = 1..k
        /\ e.chunks[k] = x /\ \A j \in 1..(k - 1) : e.chunks[j] = d.chunks[j]
    <3>1. /\ Append(d.chunks, x) \in Seq(Chunk) /\ Len(Append(d.chunks, x)) = k
          /\ Append(d.chunks, x)[k] = x
          /\ \A j \in 1..Len(d.chunks) : Append(d.chunks, x)[j] = d.chunks[j]
      BY <1>0, <1>3, AppendProperties
    <3>2. DOMAIN Append(d.chunks, x) = 1..k BY <3>1, LenProperties
    <3>3. k - 1 = Len(d.chunks) BY <1>0
    <3> DEFINE y == Append(d.chunks, x)
    <3>4. Len(y) = k /\ DOMAIN y = 1..k /\ y[k] = x /\ \A j \in 1..(k - 1) : y[j] = d.chunks[j]
      BY <3>1, <3>2, <3>3
    <3>5. e.chunks = y BY <1>4
    <3> HIDE DEF k, y
    <3> QED BY <3>4, <3>5
  <2>6. Len(e.chunks) + e.left = Len(Layout[i])
    <3>1. Len(d.chunks) + d.left = Len(Layout[i]) BY <1>1, <2>2 DEF Matches
    <3>2. Len(e.chunks) = Len(d.chunks) + 1 BY <2>5
    <3>3. e.left = d.left - 1 OBVIOUS
    <3> DEFINE m == Len(d.chunks)
               n == Len(e.chunks)
               l == Len(Layout[i])
    <3>4. m \in Nat /\ d.left \in Nat BY <1>0
    <3>5. m + d.left = l /\ n = m + 1 BY <3>1, <3>2
    <3> HIDE DEF m, n, l
    <3>6. n + e.left = l BY <3>3, <3>4, <3>5
    <3> QED BY <3>6 DEF n, l
  <2>7. ASSUME NEW j \in DOMAIN e.chunks PROVE e.chunks[j] = Layout[i][j]
    <3>1. CASE j = k BY <2>3, <2>5, <3>1
    <3>2. CASE j # k
      <4>1. j \in 1..(k - 1) /\ j \in DOMAIN d.chunks BY <1>0, <2>5, <2>7, <3>2
      <4>2. d.chunks[j] = Layout[i][j] BY <1>1, <2>2, <4>1 DEF Matches
      <4> QED BY <2>5, <4>1, <4>2
    <3> QED BY <3>1, <3>2
  <2>8. e.left # 0 => e.next = Layout[i][Len(e.chunks) + 1].offset - 1
    <3>1. SUFFICES ASSUME e.left # 0 PROVE e.next = Layout[i][k + 1].offset - 1 BY <2>5
    <3>2. k < Len(Layout[i])
      <4> DEFINE m == e.left
                 l == Len(Layout[i])
      <4>1. m \in Nat BY DEF Device
      <4>2. k + m = l /\ k \in Nat BY <1>0, <2>5, <2>6
      <4>3. m # 0 BY <3>1
      <4> HIDE DEF k, l, m
      <4>4. k < l BY <4>1, <4>2, <4>3
      <4> QED BY <4>4 DEF l
    <3> QED BY <1>4, <2>3, <3>2
  <2> QED BY <1>1, <2>4, <2>6, <2>7, <2>8 DEF Matches
<1> QED BY <1>1, <1>2, <1>5 DEF Sound

LEMMA TableSound ==
  ASSUME TypeOK, NEW d \in Device, Sound(d, "super"), NEW e \in Device, NEW at, NEW b,
         d.kind # "none", at \notin {"header", "index"},
         e.kind = d.kind, e.total = d.total, e.left = d.left, e.chunks = d.chunks, e.next = d.next,
         e.seen = d.seen \cup {b}
  PROVE  Sound(e, at)
<1>1. d.seen # {} BY DEF Sound
<1>2. ASSUME NEW i \in Images, e.seen = {i} PROVE Matches(e, i)
  <2>1. d.seen = {i} BY <1>1, <1>2
  <2>2. Matches(d, i) BY <2>1 DEF Sound
  <2> QED BY <2>2 DEF Matches
<1>3. ~(d.kind = "sparse" /\ d.left # 0) BY DEF Sound
<1> QED BY <1>1, <1>2, <1>3 DEF Sound

-----------------------------------------------------------------------------
(* Every step leaves the devices sound. *)

\* A device that t makes goes on soundly; t makes no other one.
LEMMA MadeSound ==
  ASSUME TypeOK, DevicesSound, NEW t \in {"ui", "live"},
         \A f \in Devices \ {DeviceOf(t)} : device'[f] = device[f],
         \A u \in Threads \ {t} : pc'[u] = pc[u],
         Sound(device'[DeviceOf(t)], pc'[t])
  PROVE  DevicesSound'
<1>1. ASSUME NEW f \in Devices PROVE Sound(device'[f], pc'[MakerOf(f)])
  <2>1. CASE f = DeviceOf(t)
    <3>1. MakerOf(f) = t BY <2>1 DEF DeviceOf, MakerOf
    <3> QED BY <2>1, <3>1
  <2>2. CASE f # DeviceOf(t)
    <3>1. MakerOf(f) \in Threads \ {t} BY <2>2 DEF DeviceOf, MakerOf, Devices, Threads
    <3>2. device'[f] = device[f] /\ pc'[MakerOf(f)] = pc[MakerOf(f)] BY <2>2, <3>1
    <3> QED BY <3>2 DEF DevicesSound
  <2> QED BY <2>1, <2>2
<1> QED BY <1>1 DEF DevicesSound

LEMMA SoundOfMaker ==
  ASSUME TypeOK, DevicesSound, NEW t \in {"ui", "live"}
  PROVE  Sound(device[DeviceOf(t)], pc[t]) /\ t \in Threads
<1>1. DeviceOf(t) \in Devices /\ MakerOf(DeviceOf(t)) = t /\ t \in Threads
  BY DEF DeviceOf, MakerOf, Devices, Threads
<1> QED BY <1>1 DEF DevicesSound

LEMMA MakingSound ==
  ASSUME TypeOK, DevicesSound, NEW t \in {"ui", "live"}, MakeStep(t)
  PROVE  DevicesSound'
<1> DEFINE d == device[DeviceOf(t)]
           d2 == device'[DeviceOf(t)]
<1>0. /\ t \in Threads /\ Sound(d, pc[t]) /\ d \in Device /\ d.fd \in Fds \cup {0}
      /\ DeviceOf(t) \in Devices /\ d.next \in Nat
  BY SoundOfMaker, ThreadTypes DEF Device
<1>1. CASE ReadsHeader(t)
  <2> DEFINE c == Pread(d.fd, 0)
             e == [d EXCEPT !.kind = "sparse", !.total = c.total, !.left = c.chunks, !.next = 1]
  <2>0. pc[t] = "header" BY <1>1 DEF ReadsHeader
  <2>1. d.chunks = <<>> /\ d.kind = "none" BY <1>0, <2>0 DEF Sound
  <2>2. CASE c.kind = "sparse"
    <3>1. Makes(t, e) /\ Goto(t, "index") BY <1>1, <2>2 DEF ReadsHeader
    <3>2. c \in Cell BY PreadType
    <3>3. e \in Device BY <1>0, <2>2, <3>2, HeadedType
    <3>4. /\ e.kind = "sparse" /\ e.total = c.total /\ e.left = c.chunks /\ e.next = 1
          /\ e.chunks = d.chunks /\ e.seen = d.seen /\ e.fd = d.fd
      BY <1>0 DEF Device
    <3> HIDE DEF e
    <3>5. /\ device' \in [Devices -> Device]
          /\ d2.seen = e.seen \cup {Behind(e.fd)} /\ d2.kind = e.kind /\ d2.total = e.total
          /\ d2.chunks = e.chunks /\ d2.left = e.left /\ d2.next = e.next
          /\ \A f \in Devices \ {DeviceOf(t)} : device'[f] = device[f]
      BY <1>0, <3>1, <3>3, MakesShape
    <3>6. pc'[t] = "index" /\ \A u \in Threads \ {t} : pc'[u] = pc[u]
      BY <1>0, <3>1, GotoMoves DEF Pcs, MakePcs
    <3>7. d2 \in Device BY <1>0, <3>5
    <3>8. Sound(d2, "index")
      <4> HIDE DEF d, d2
      <4> QED BY <1>0, <2>1, <2>2, <3>4, <3>5, <3>7, HeaderSound
    <3> QED BY <3>5, <3>6, <3>8, MadeSound
  <2>3. CASE c.kind # "sparse"
    <3>1. Goto(t, "raw") /\ UNCHANGED device BY <1>1, <2>3 DEF ReadsHeader
    <3>2. pc'[t] = "raw" /\ \A u \in Threads \ {t} : pc'[u] = pc[u]
      BY <1>0, <3>1, GotoMoves DEF Pcs, MakePcs
    <3>3. Sound(d, "raw") BY <1>0, SoundElsewhere
    <3> QED BY <3>1, <3>2, <3>3, MadeSound
  <2> QED BY <2>2, <2>3
<1>2. CASE Indexes(t)
  <2> DEFINE c == Pread(d.fd, d.next)
             e == Indexed(d, HeaderIn(c))
  <2>0. pc[t] = "index" BY <1>2 DEF Indexes
  <2>1. CASE d.left = 0 \/ c.kind = "none"
    <3>1. /\ UNCHANGED device
          /\ \/ Goto(t, "super") /\ d.left = 0
             \/ Goto(t, "raw")
      BY <1>2, <2>1 DEF Indexes
    <3>2. /\ \/ pc'[t] = "super" /\ d.left = 0
             \/ pc'[t] = "raw"
          /\ \A u \in Threads \ {t} : pc'[u] = pc[u]
      BY <1>0, <3>1, GotoMoves DEF Pcs, MakePcs
    <3>3. Sound(d, pc'[t])
      <4> HIDE DEF d
      <4> QED BY <1>0, <2>0, <3>2, SoundElsewhere
    <3> QED BY <3>1, <3>2, <3>3, MadeSound
  <2>2. CASE d.left # 0 /\ c.kind # "none"
    <3>1. c \in Cell BY <1>0, PreadType
    <3>2. Makes(t, e) /\ UNCHANGED pc BY <1>2, <2>2 DEF Indexes
    <3>3. /\ e \in Device /\ e.chunks = Append(d.chunks, NewChunk(d, HeaderIn(c)))
          /\ e.left = d.left - 1 /\ e.next = d.next + HeaderIn(c).size /\ e.kind = d.kind
          /\ e.fd = d.fd /\ e.total = d.total /\ e.seen = d.seen
      BY <1>0, <2>2, <3>1, IndexedType
    <3> HIDE DEF e
    <3>4. /\ device' \in [Devices -> Device]
          /\ d2.seen = e.seen \cup {Behind(e.fd)} /\ d2.kind = e.kind /\ d2.total = e.total
          /\ d2.chunks = e.chunks /\ d2.left = e.left /\ d2.next = e.next /\ d2.fd = e.fd
          /\ \A f \in Devices \ {DeviceOf(t)} : device'[f] = device[f]
      BY <1>0, <3>2, <3>3, MakesShape
    <3>5. d2 \in Device BY <1>0, <3>4
    <3>6. Sound(d2, "index")
      <4>1. Sound(d, "index") BY <1>0, <2>0
      <4> HIDE DEF d, d2
      <4> QED BY <1>0, <2>2, <3>3, <3>4, <3>5, <4>1, IndexSound
    <3> QED BY <2>0, <3>2, <3>4, <3>6, MadeSound
  <2> QED BY <2>1, <2>2
<1>3. CASE TriesRaw(t)
  <2> DEFINE c == Pread(d.fd, 0)
             e == [NoDevice EXCEPT !.kind = "raw", !.fd = d.fd, !.total = c.total]
  <2>1. CASE c.kind = "super"
    <3>1. Makes(t, e) /\ Goto(t, "super") BY <1>3, <2>1 DEF TriesRaw
    <3>2. c \in Cell BY PreadType
    <3>3. e \in Device BY <1>0, <2>1, <3>2, RawType
    <3>4. e.kind = "raw" /\ e.total = c.total /\ e.fd = d.fd /\ e.seen = {} BY DEF NoDevice
    <3> HIDE DEF e
    <3>5. /\ device' \in [Devices -> Device]
          /\ d2.seen = e.seen \cup {Behind(e.fd)} /\ d2.kind = e.kind /\ d2.total = e.total
          /\ \A f \in Devices \ {DeviceOf(t)} : device'[f] = device[f]
      BY <1>0, <3>1, <3>3, MakesShape
    <3>6. pc'[t] = "super" /\ \A u \in Threads \ {t} : pc'[u] = pc[u]
      BY <1>0, <3>1, GotoMoves DEF Pcs, MakePcs
    <3>7. d2 \in Device BY <1>0, <3>5
    <3>8. Sound(d2, "super")
      <4> HIDE DEF d, d2
      <4>1. d2.seen = {Behind(d.fd)} BY <3>4, <3>5
      <4> QED BY <2>1, <3>4, <3>5, <3>7, <4>1, RawSound
    <3> QED BY <3>5, <3>6, <3>8, MadeSound
  <2>2. CASE c.kind # "super"
    <3>1. GivesUp(t) BY <1>3, <2>2 DEF TriesRaw
    <3>2. Sound(NoDevice, "idle") BY SoundNone
    <3> QED BY <1>0, <3>1, <3>2, GivesUpShape, MadeSound
  <2> QED BY <2>1, <2>2
<1>4. CASE ReadsSuper(t)
  <2> DEFINE c == Block(d, 0)
             e == [d EXCEPT !.table = c.table]
  <2>0. pc[t] = "super" BY <1>4 DEF ReadsSuper
  <2>1. c \in Cell BY <1>0, BlockType
  <2>2. CASE c.kind = "super"
    <3>1. Makes(t, e) /\ (Goto(t, "lock") \/ Goto(t, "inode")) BY <1>4, <2>2 DEF ReadsSuper
    <3>2. e \in Device BY <1>0, <2>1, <2>2, TableType
    <3>3. /\ e.kind = d.kind /\ e.total = d.total /\ e.left = d.left /\ e.next = d.next
          /\ e.chunks = d.chunks /\ e.seen = d.seen /\ e.fd = d.fd
      BY <1>0 DEF Device
    <3> HIDE DEF e
    <3>4. /\ device' \in [Devices -> Device]
          /\ d2.seen = e.seen \cup {Behind(e.fd)} /\ d2.kind = e.kind /\ d2.total = e.total
          /\ d2.chunks = e.chunks /\ d2.left = e.left /\ d2.next = e.next
          /\ \A f \in Devices \ {DeviceOf(t)} : device'[f] = device[f]
      BY <1>0, <3>1, <3>2, MakesShape
    <3>5. pc'[t] \in {"lock", "inode"} /\ \A u \in Threads \ {t} : pc'[u] = pc[u]
      BY <1>0, <3>1, GotoMoves DEF Pcs, ReadPcs
    <3>6. d2 \in Device BY <1>0, <3>4
    <3>7. Sound(d2, pc'[t])
      <4>1. Sound(d, "super") /\ d.kind # "none" BY <1>0, <2>0 DEF Sound
      <4>2. pc'[t] \notin {"header", "index"} BY <3>5
      <4>3. /\ d2.kind = d.kind /\ d2.total = d.total /\ d2.left = d.left
            /\ d2.chunks = d.chunks /\ d2.next = d.next
            /\ d2.seen = d.seen \cup {Behind(e.fd)}
        BY <3>3, <3>4
      <4> HIDE DEF d, d2
      <4> QED BY <1>0, <3>6, <4>1, <4>2, <4>3, TableSound
    <3> QED BY <3>4, <3>5, <3>7, MadeSound
  <2>3. CASE c.kind # "super"
    <3>1. GivesUp(t) BY <1>4, <2>3 DEF ReadsSuper
    <3>2. Sound(NoDevice, "idle") BY SoundNone
    <3> QED BY <1>0, <3>1, <3>2, GivesUpShape, MadeSound
  <2> QED BY <2>2, <2>3
<1> QED BY <1>1, <1>2, <1>3, <1>4 DEF MakeStep

\* A step that makes no device: those whose makers go on from or to a place of a reader
\* that is not being made.
LEMMA OthersSound ==
  ASSUME DevicesSound, UNCHANGED device,
         \A t \in {"ui", "live"} :
           \/ pc'[t] = pc[t]
           \/ pc[t] \notin {"index", "raw"} /\ pc'[t] \notin {"header", "index", "super"}
  PROVE  DevicesSound'
<1>1. ASSUME NEW f \in Devices PROVE Sound(device[f], pc'[MakerOf(f)])
  <2>1. MakerOf(f) \in {"ui", "live"} BY DEF MakerOf
  <2>2. Sound(device[f], pc[MakerOf(f)]) BY DEF DevicesSound
  <2> QED BY <2>1, <2>2, SoundElsewhere
<1> QED BY <1>1 DEF DevicesSound

LEMMA NextSound ==
  ASSUME TypeOK, DevicesSound, [Next]_vars
  PROVE  DevicesSound'
<1>0. "ui" \in Threads /\ "live" \in Threads /\ "extract" \in Threads BY DEF Threads
<1>1. CASE UiSelects \/ UiReopens \/ UiVerifies \/ UiCloses \/ LiveThrows
  <2>1. /\ UNCHANGED device /\ pc["ui"] \in {"idle", "reopen", "verify"}
        /\ \E place \in {"reopen", "idle", "verify", "remount", "unmount", "dead"} :
             Goto("ui", place)
    BY <1>1 DEF UiSelects, UiReopens, UiVerifies, UiCloses, LiveThrows
  <2>2. /\ pc'["ui"] \in {"reopen", "idle", "verify", "remount", "unmount", "dead"}
        /\ pc'["live"] = pc["live"]
    BY <1>0, <2>1, GotoMoves DEF Pcs
  <2> QED BY <2>1, <2>2, OthersSound
<1>2. CASE UiRemounts
  <2>1. pc'["ui"] = "header" /\ \A u \in Threads \ {"ui"} : pc'[u] = pc[u]
    BY <1>0, <1>2, GotoMoves DEF UiRemounts, Pcs, MakePcs
  <2>2. Sound([NoDevice EXCEPT !.fd = active], "header") BY SoundNone
  <2> DEFINE e == [NoDevice EXCEPT !.fd = active]
  <2>3. device' = [device EXCEPT !["mount"] = e] BY <1>2 DEF UiRemounts
  <2> HIDE DEF e
  <2>4. device'["mount"] = e /\ device'["live"] = device["live"]
    BY <2>3 DEF TypeOK
  <2>5. DeviceOf("ui") = "mount" /\ Devices = {"mount", "live"} BY DEF DeviceOf, Devices
  <2> QED BY <2>1, <2>2, <2>4, <2>5, MadeSound DEF e
<1>3. CASE UiUnmounts
  <2>1. pc'["ui"] = "idle" /\ \A u \in Threads \ {"ui"} : pc'[u] = pc[u]
    BY <1>0, <1>3, GotoMoves DEF UiUnmounts, Pcs
  <2>2. Sound(NoDevice, "idle") BY SoundNone
  <2>3. device' = [device EXCEPT !["mount"] = NoDevice] BY <1>3 DEF UiUnmounts
  <2>4. device'["mount"] = NoDevice /\ device'["live"] = device["live"]
    BY <2>3 DEF TypeOK
  <2>5. DeviceOf("ui") = "mount" /\ Devices = {"mount", "live"} BY DEF DeviceOf, Devices
  <2> QED BY <2>1, <2>2, <2>4, <2>5, MadeSound
<1>4. ASSUME NEW t \in {"ui", "live"}, MakeStep(t) PROVE DevicesSound'
  BY <1>4, MakingSound
<1>5. ASSUME NEW t \in Threads, ReadStep(t) PROVE DevicesSound'
  <2>1. CASE Returns(t) /\ t = "live"
    <3>1. pc'["live"] = "idle" /\ \A u \in Threads \ {"live"} : pc'[u] = pc[u]
      BY <1>0, <2>1, GotoMoves DEF Returns, Pcs
    <3>2. Sound(NoDevice, "idle") BY SoundNone
    <3>3. device' = [device EXCEPT !["live"] = NoDevice] BY <2>1 DEF Returns
    <3>4. device'["live"] = NoDevice /\ device'["mount"] = device["mount"]
      BY <3>3 DEF TypeOK
    <3>5. DeviceOf("live") = "live" /\ Devices = {"mount", "live"} BY DEF DeviceOf, Devices
    <3> QED BY <3>1, <3>2, <3>4, <3>5, MadeSound
  <2>2. CASE ~(Returns(t) /\ t = "live")
    <3>1. /\ UNCHANGED device /\ pc[t] \in ReadPcs
          /\ \/ UNCHANGED pc
             \/ \E place \in ReadPcs \cup {"idle"} : Goto(t, place)
      BY <1>5, <2>2
      DEF ReadStep, ReadsInode, ReadsNode, HasExtents, ReadsBlock, EndsFile, Returns, ReadPcs
    <3>2. \/ UNCHANGED pc
          \/ pc'[t] \in ReadPcs \cup {"idle"} /\ \A u \in Threads \ {t} : pc'[u] = pc[u]
      BY <3>1, GotoMoves DEF Pcs
    <3> QED BY <1>0, <3>1, <3>2, OthersSound DEF ReadPcs
  <2> QED BY <2>1, <2>2
<1>6. CASE Locks("ui") \/ Locks("extract")
  <2>1. PICK t \in {"ui", "extract"} : Locks(t) BY <1>6
  <2>2. UNCHANGED device /\ pc[t] = "lock" /\ (Goto(t, "idle") \/ Goto(t, "inode"))
    BY <2>1 DEF Locks
  <2>3. t \in Threads BY <1>0
  <2>4. pc'[t] \in {"idle", "inode"} /\ \A u \in Threads \ {t} : pc'[u] = pc[u]
    BY <2>2, <2>3, GotoMoves DEF Pcs, ReadPcs
  <2> QED BY <1>0, <2>2, <2>4, OthersSound
<1>7. ASSUME NEW path \in Paths, UiBrowses(path) \/ ExtractBegins(path) PROVE DevicesSound'
  <2>1. PICK t \in {"ui", "extract"} : pc[t] = "idle" /\ Goto(t, "lock")
    BY <1>7 DEF UiBrowses, ExtractBegins, Begins
  <2>2. t \in Threads BY <1>0
  <2>3. pc'[t] = "lock" /\ \A u \in Threads \ {t} : pc'[u] = pc[u]
    BY <2>1, <2>2, GotoMoves DEF Pcs
  <2>4. UNCHANGED device BY <1>7 DEF UiBrowses, ExtractBegins
  <2> QED BY <1>0, <2>1, <2>3, <2>4, OthersSound
<1>8. ASSUME NEW path \in Paths, ExtractGoesOn(path) PROVE DevicesSound'
  <2>1. UNCHANGED device /\ Goto("extract", "inode") BY <1>8 DEF ExtractGoesOn
  <2>2. \A u \in Threads \ {"extract"} : pc'[u] = pc[u]
    BY <1>0, <2>1, GotoMoves DEF Pcs, ReadPcs
  <2> QED BY <1>0, <2>1, <2>2, OthersSound
<1>9. CASE LiveBegins
  <2>1. pc'["live"] = "header" /\ \A u \in Threads \ {"live"} : pc'[u] = pc[u]
    BY <1>0, <1>9, GotoMoves DEF LiveBegins, Begins, Pcs, MakePcs
  <2>2. Sound([NoDevice EXCEPT !.fd = active], "header") BY SoundNone
  <2> DEFINE e == [NoDevice EXCEPT !.fd = active]
  <2>3. device' = [device EXCEPT !["live"] = e] BY <1>9 DEF LiveBegins
  <2> HIDE DEF e
  <2>4. device'["live"] = e /\ device'["mount"] = device["mount"]
    BY <2>3 DEF TypeOK
  <2>5. DeviceOf("live") = "live" /\ Devices = {"mount", "live"} BY DEF DeviceOf, Devices
  <2> QED BY <2>1, <2>2, <2>4, <2>5, MadeSound DEF e
<1>10. CASE UNCHANGED vars BY <1>10, OthersSound DEF vars, threads
<1> QED BY <1>1, <1>2, <1>3, <1>4, <1>5, <1>6, <1>7, <1>8, <1>9, <1>10, StepCases

LEMMA InitSound == ASSUME Init PROVE DevicesSound
<1>1. ASSUME NEW f \in Devices PROVE device[f] = NoDevice /\ pc[MakerOf(f)] = "idle"
  BY DEF Init, Devices, MakerOf, Threads
<1> QED BY <1>1, SoundNone DEF DevicesSound

-----------------------------------------------------------------------------
(* A sound device gives the blocks of its volume. *)

\* The chunk that the index finds for a block is the one that holds it.
LEMMA ChunkOfBlock ==
  ASSUME NEW i \in Images, WrittenSparse(i), NEW n \in Nat, n < Len(Volume[i])
  PROVE  LET k == LastUpTo(Layout[i], n)
         IN  /\ k \in DOMAIN Layout[i]
             /\ Layout[i][k].start <= n /\ n < Layout[i][k].start + Layout[i][k].count
<1> DEFINE L == Layout[i]
           k == LastUpTo(L, n)
<1>0. L \in Seq(Chunk) /\ DOMAIN L = 1..Len(L) /\ Len(L) \in Nat BY ImageTypes
<1>1. n \in 0..(Len(Volume[i]) - 1) BY ImageTypes
<1>2. PICK c \in DOMAIN L : L[c].start <= n /\ n < L[c].start + L[c].count
  BY <1>1 DEF WrittenSparse
<1>3. /\ k \in DOMAIN L /\ L[k].start <= n
      /\ \A j \in DOMAIN L : j > k => L[j].start > n
  BY <1>0, <1>2, LastUpToExists
<1> HIDE DEF k
<1>4. /\ L[c].start \in Nat /\ L[c].count \in Nat /\ L[k].start \in Nat /\ L[k].count \in Nat
      /\ c \in Nat /\ k \in Nat
  <2>1. L[c] \in Chunk /\ L[k] \in Chunk BY <1>0, <1>2, <1>3, ElementOfSeq
  <2>2. /\ L[c].start \in Nat /\ L[c].count \in Nat /\ L[k].start \in Nat
        /\ L[k].count \in Nat
    BY <2>1 DEF Chunk
  <2>3. c \in Nat /\ k \in Nat
    <3> HIDE DEF L
    <3> QED BY <1>0, <1>2, <1>3
  <2> QED BY <2>2, <2>3
<1>5. c = k
  <2>1. ~(c > k)
    <3>1. SUFFICES ASSUME c > k PROVE FALSE OBVIOUS
    <3>2. L[c].start > n BY <1>2, <1>3, <3>1
    <3> QED BY <1>2, <1>4, <3>2
  <2>2. ~(c < k)
    <3>1. SUFFICES ASSUME c < k PROVE FALSE OBVIOUS
    <3>2. c \in 1..(k - 1) BY <1>0, <1>2, <1>4, <3>1
    <3>3. L[c].start + L[c].count <= L[k].start BY <1>3, <3>2 DEF WrittenSparse
    <3> QED BY <1>2, <1>3, <1>4, <3>3
  <2> QED BY <1>4, <2>1, <2>2
<1> QED BY <1>2, <1>3, <1>5 DEF k

\* The block of a chunk is the one of the volume, or it is refused.
LEMMA BlockOfChunkRight ==
  ASSUME NEW fd, Behind(fd) \in Images, WrittenSparse(Behind(fd)),
         NEW k \in DOMAIN Layout[Behind(fd)], NEW n \in Nat, n < Layout[Behind(fd)][k].count
  PROVE  LET i == Behind(fd)
             c == Layout[i][k]
             x == InChunk(fd, c, n)
         IN  x = Volume[i][c.start + n + 1] \/ (i \notin Whole /\ x = NoCell)
<1> DEFINE i == Behind(fd)
           c == Layout[i][k]
           x == InChunk(fd, c, n)
<1>0. c \in Chunk /\ c.offset \in Nat /\ c.count \in Nat /\ c.type \in ChunkTypes
  <2>1. c \in Chunk BY ImageTypes, ElementOfSeq
  <2> QED BY <2>1 DEF Chunk
<1>1. n \in 0..(c.count - 1) BY <1>0
<1>2. BlockOfChunk(i, c, n) BY <1>1 DEF WrittenSparse
<1>3. CASE c.type = "RAW"
  <2>1. x = Pread(fd, c.offset + n) BY <1>3 DEF InChunk
  <2>2. CASE c.offset + n < Len(Storage[i])
    <3>1. x = Storage[i][c.offset + n + 1] BY <2>1, <2>2 DEF Pread
    <3>2. Storage[i][c.offset + n + 1] = Volume[i][c.start + n + 1]
      BY <1>2, <1>3, <2>2 DEF BlockOfChunk
    <3> HIDE DEF x, c, i
    <3>3. x = Volume[i][c.start + n + 1] BY <3>1, <3>2
    <3> QED BY <3>3 DEF x, c, i
  <2>3. CASE ~(c.offset + n < Len(Storage[i]))
    <3>1. x = NoCell BY <2>1, <2>3 DEF Pread
    <3>2. ASSUME i \in Whole PROVE FALSE
      <4>1. c.offset + c.count <= Len(Storage[i]) BY <1>3, <3>2 DEF WrittenSparse
      <4>2. Len(Storage[i]) \in Nat BY ImageTypes
      <4> HIDE DEF c, i
      <4>3. n < c.count BY DEF c, i
      <4> QED BY <1>0, <2>3, <4>1, <4>2, <4>3
    <3> QED BY <3>1, <3>2
  <2> QED BY <2>2, <2>3
<1>4. CASE c.type = "FILL"
  <2>1. Volume[i][c.start + n + 1] = c.fill /\ c.fill.kind = "data"
    BY <1>2, <1>4 DEF BlockOfChunk
  <2>2. x = c.fill BY <1>4, <2>1 DEF InChunk
  <2> HIDE DEF x, c, i
  <2>3. x = Volume[i][c.start + n + 1] BY <2>1, <2>2
  <2> QED BY <2>3 DEF x, c, i
<1>5. CASE c.type # "RAW" /\ c.type # "FILL"
  <2>1. Volume[i][c.start + n + 1] = Repeated(ZeroByte) BY <1>2, <1>5 DEF BlockOfChunk
  <2>2. x = Repeated(ZeroByte) BY <1>5 DEF InChunk
  <2> HIDE DEF x, c, i
  <2>3. x = Volume[i][c.start + n + 1] BY <2>1, <2>2
  <2> QED BY <2>3 DEF x, c, i
<1> QED BY <1>3, <1>4, <1>5

\* A device with the whole layout, whose descriptor is still on its image.
LEMMA SparseRight ==
  ASSUME NEW d \in Device, NEW i \in Images, Matches(d, i), d.kind = "sparse", d.left = 0,
         Behind(d.fd) = i, NEW n \in Nat, n < Len(Volume[i])
  PROVE  Block(d, n) = Volume[i][n + 1] \/ (i \notin Whole /\ Block(d, n) = NoCell)
<1>1. WrittenSparse(i) /\ d.total = Len(Volume[i]) BY DEF Matches
<1>2. d.chunks = Layout[i]
  <2>1. d.chunks \in Seq(Chunk) /\ Len(d.chunks) \in Nat BY LenProperties DEF Device
  <2>2. Len(d.chunks) = Len(Layout[i])
    <3>1. Len(d.chunks) + d.left = Len(Layout[i]) BY DEF Matches
    <3> QED BY <2>1, <3>1, ImageTypes
  <2>3. \A k \in 1..Len(d.chunks) : d.chunks[k] = Layout[i][k]
    BY <2>1, LenProperties DEF Matches
  <2> QED BY <2>1, <2>2, <2>3, ImageTypes, SeqEqual
<1> DEFINE k == LastUpTo(Layout[i], n)
           c == Layout[i][k]
<1>3. k \in DOMAIN Layout[i] /\ c.start <= n /\ n < c.start + c.count
  BY <1>1, ChunkOfBlock
<1>4. c.start \in Nat /\ c.count \in Nat
  <2>1. c \in Chunk BY <1>3, ImageTypes, ElementOfSeq
  <2> QED BY <2>1 DEF Chunk
<1>5. Block(d, n) = InChunk(d.fd, c, n - c.start)
  <2>1. Block(d, n) = SparseBlock(d, n) BY <1>1, ImageTypes DEF Block
  <2>2. \E j \in DOMAIN d.chunks : d.chunks[j].start <= n BY <1>2, <1>3
  <2> QED BY <1>2, <1>3, <2>1, <2>2 DEF SparseBlock
<1> DEFINE m == n - c.start
<1>6. m \in Nat /\ m < c.count /\ c.start + m + 1 = n + 1
  <2> HIDE DEF c
  <2> QED BY <1>3, <1>4
<1>7. LET x == InChunk(d.fd, c, m)
      IN  x = Volume[i][c.start + m + 1] \/ (i \notin Whole /\ x = NoCell)
  <2> HIDE DEF k, m
  <2> QED BY <1>1, <1>3, <1>6, BlockOfChunkRight
<1> DEFINE x == InChunk(d.fd, c, m)
<1>8. Block(d, n) = x BY <1>5
<1>9. x = Volume[i][n + 1] \/ (i \notin Whole /\ x = NoCell) BY <1>6, <1>7
<1> HIDE DEF x
<1> QED BY <1>8, <1>9

LEMMA RawRight ==
  ASSUME NEW d \in Device, NEW i \in Images, Matches(d, i), d.kind = "raw",
         Behind(d.fd) = i, NEW n \in Nat, n < Len(Volume[i])
  PROVE  Block(d, n) = Volume[i][n + 1] \/ (i \notin Whole /\ Block(d, n) = NoCell)
<1>1. WrittenRaw(i) /\ d.total = Len(Volume[i]) BY DEF Matches
<1>2. Block(d, n) = Pread(d.fd, n) BY <1>1, ImageTypes DEF Block
<1>3. CASE n < Len(Storage[i])
  <2>1. Block(d, n) = Storage[i][n + 1] BY <1>2, <1>3 DEF Pread
  <2>2. n + 1 \in DOMAIN Storage[i] /\ n + 1 \in DOMAIN Volume[i] BY <1>3, ImageTypes
  <2>3. Storage[i][n + 1] = Volume[i][n + 1] BY <1>1, <2>2 DEF WrittenRaw
  <2> QED BY <2>1, <2>3
<1>4. CASE ~(n < Len(Storage[i]))
  <2>1. Block(d, n) = NoCell BY <1>2, <1>4 DEF Pread
  <2>2. i \notin Whole BY <1>1, <1>4, ImageTypes DEF WrittenRaw
  <2> QED BY <2>1, <2>2
<1> QED BY <1>3, <1>4

LEMMA SoundIsRight == ASSUME TypeOK, DevicesSound PROVE BlocksAsWritten
<1>1. SUFFICES ASSUME NEW f \in Devices, NEW i \in Images,
                      device[f].kind # "none", pc[MakerOf(f)] \notin MakePcs,
                      device[f].seen = {i}, Behind(device[f].fd) = i
               PROVE  /\ device[f].total = Len(Volume[i])
                      /\ \A n \in 0..(Len(Volume[i]) - 1) :
                           \/ Block(device[f], n) = Volume[i][n + 1]
                           \/ i \notin Whole /\ Block(device[f], n) = NoCell
  BY DEF BlocksAsWritten, TypeOK, Devices
<1> DEFINE d == device[f]
<1>2. d \in Device /\ d.kind \in {"sparse", "raw"} BY <1>1 DEF TypeOK, Devices, Device
<1>3. Matches(d, i) /\ (d.kind = "sparse" => d.left = 0)
  <2>1. Sound(d, pc[MakerOf(f)]) BY DEF DevicesSound
  <2> QED BY <1>1, <2>1 DEF Sound, MakePcs
<1>4. d.total = Len(Volume[i]) BY <1>2, <1>3 DEF Matches
<1>5. ASSUME NEW n \in 0..(Len(Volume[i]) - 1)
      PROVE  Block(d, n) = Volume[i][n + 1] \/ (i \notin Whole /\ Block(d, n) = NoCell)
  <2>1. n \in Nat /\ n < Len(Volume[i]) BY ImageTypes
  <2> HIDE DEF d
  <2>2. Behind(d.fd) = i BY <1>1 DEF d
  <2> QED BY <1>2, <1>3, <2>1, <2>2, SparseRight, RawRight
<1> QED BY <1>4, <1>5

\* A reader made from one image and still on it gives every block as it was written, or
\* refuses one that the image is too short for: for every image, however it is split
\* into chunks.
THEOREM BlocksAlwaysAsWritten == Spec => []BlocksAsWritten
<1>1. Init => DevicesSound BY InitSound
<1>2. TypeOK /\ DevicesSound /\ [Next]_vars => DevicesSound' BY NextSound
<1>3. TypeOK /\ DevicesSound => BlocksAsWritten BY SoundIsRight
<1> QED BY <1>1, <1>2, <1>3, TypeCorrect, PTL DEF Spec

-----------------------------------------------------------------------------
(* What the UI reads is the image that was selected last. *)

\* The UI is on its way from the old image to the new one.
Selecting == {"reopen", "verify", "remount"} \cup MakePcs

\* The mounted reader is on the active descriptor and was made from the file behind it.
OnActive(d) == d.fd = active /\ d.seen \subseteq {Behind(active)}

SelectedInv ==
  /\ pc["ui"] \in Selecting => ~fresh
  /\ pc["ui"] \in MakePcs \/ fresh => OnActive(device["mount"])
  /\ pc["ui"] = "lock" => job["ui"].seen = {}
  /\ pc["ui"] \in ReadPcs /\ fresh => job["ui"].seen \subseteq {Behind(active)}

\* The image and the mounted reader stay what they are.
Stays == UNCHANGED <<table, active, fresh>> /\ device'["mount"] = device["mount"]

\* A step of another thread.
LEMMA SelectedKept ==
  ASSUME SelectedInv, Stays, pc'["ui"] = pc["ui"], job'["ui"] = job["ui"]
  PROVE  SelectedInv'
<1>1. Behind(active)' = Behind(active) BY DEF Stays, Behind
<1> QED BY <1>1 DEF SelectedInv, Stays, OnActive

\* A step that takes the UI away from the reader.
LEMMA SelectedLeft ==
  ASSUME SelectedInv, Stays, pc'["ui"] \in {"idle", "verify", "remount", "unmount", "dead"},
         pc'["ui"] \in Selecting => ~fresh
  PROVE  SelectedInv'
<1>1. Behind(active)' = Behind(active) BY DEF Stays, Behind
<1>2. pc'["ui"] \notin MakePcs \cup ReadPcs \cup {"lock"} BY DEF MakePcs, ReadPcs
<1> QED BY <1>1, <1>2 DEF SelectedInv, Stays, OnActive

LEMMA SelectingSelected ==
  ASSUME TypeOK, SelectedInv,
         \/ UiSelects \/ UiReopens \/ UiVerifies \/ UiRemounts \/ UiCloses \/ UiUnmounts
         \/ LiveThrows
  PROVE  SelectedInv'
<1>0. "ui" \in Threads BY DEF Threads
<1>1. CASE UiSelects
  <2>1. pc'["ui"] = "reopen" /\ fresh' = FALSE
    BY <1>0, <1>1, GotoMoves DEF UiSelects, Pcs
  <2> QED BY <2>1 DEF SelectedInv, MakePcs, ReadPcs
<1>2. CASE UiReopens
  <2>1. pc'["ui"] \in {"idle", "verify"}
    BY <1>0, <1>2, GotoMoves DEF UiReopens, Pcs
  <2>2. ~fresh /\ fresh' = fresh BY <1>2 DEF UiReopens, SelectedInv, Selecting
  <2> QED BY <2>1, <2>2 DEF SelectedInv, MakePcs, ReadPcs
<1>3. CASE UiVerifies
  <2>1. pc["ui"] = "verify" /\ Stays BY <1>3 DEF UiVerifies, Stays, fds
  <2>2. Goto("ui", "remount") \/ Goto("ui", "idle") BY <1>3 DEF UiVerifies
  <2>3. pc'["ui"] \in {"remount", "idle"} BY <1>0, <2>2, GotoMoves DEF Pcs
  <2>4. ~fresh BY <2>1 DEF SelectedInv, Selecting
  <2> QED BY <2>1, <2>3, <2>4, SelectedLeft
<1>4. CASE UiRemounts
  <2>1. pc'["ui"] = "header" BY <1>0, <1>4, GotoMoves DEF UiRemounts, Pcs, MakePcs
  <2>2. ~fresh /\ UNCHANGED <<table, active, fresh>>
    BY <1>4 DEF UiRemounts, SelectedInv, Selecting, fds
  <2> DEFINE e == [NoDevice EXCEPT !.fd = active]
  <2>3. e.fd = active /\ e.seen = {} BY DEF NoDevice
  <2>4. device' = [device EXCEPT !["mount"] = e] BY <1>4 DEF UiRemounts
  <2> HIDE DEF e
  <2>5. device'["mount"] = e BY <2>4 DEF TypeOK
  <2>6. OnActive(device["mount"])' BY <2>2, <2>3, <2>5 DEF OnActive
  <2> QED BY <2>1, <2>2, <2>6 DEF SelectedInv, ReadPcs
<1>5. CASE UiCloses
  <2>1. pc'["ui"] = "unmount" /\ Stays
    BY <1>0, <1>5, GotoMoves DEF UiCloses, Pcs, Stays, fds
  <2> QED BY <2>1, SelectedLeft DEF Selecting, MakePcs
<1>6. CASE UiUnmounts
  <2>1. pc'["ui"] = "idle" /\ fresh' = FALSE
    BY <1>0, <1>6, GotoMoves DEF UiUnmounts, Pcs
  <2> QED BY <2>1 DEF SelectedInv, Selecting, MakePcs, ReadPcs
<1>7. CASE LiveThrows
  <2>1. pc'["ui"] = "dead" /\ Stays
    BY <1>0, <1>7, GotoMoves DEF LiveThrows, Pcs, Stays, fds
  <2> QED BY <2>1, SelectedLeft DEF Selecting, MakePcs
<1> QED BY <1>1, <1>2, <1>3, <1>4, <1>5, <1>6, <1>7

\* The UI makes its reader.
LEMMA UiMakingSelected ==
  ASSUME TypeOK, SelectedInv, MakeStep("ui")
  PROVE  SelectedInv'
<1> DEFINE d  == device["mount"]
           d2 == device'["mount"]
<1>0. /\ "ui" \in Threads /\ DeviceOf("ui") = "mount" /\ d \in Device
      /\ "mount" \in Devices /\ "idle" \in Pcs
  BY DEF Threads, DeviceOf, TypeOK, Devices, Pcs
<1>1. pc["ui"] \in MakePcs /\ UNCHANGED <<table, active>>
  BY DEF MakeStep, ReadsHeader, Indexes, TriesRaw, ReadsSuper, MakePcs, fds
<1>2. ~fresh /\ OnActive(d) BY <1>1 DEF SelectedInv, Selecting
<1>3. Behind(active)' = Behind(active) BY <1>1 DEF Behind
\* Another look at the file adds nothing new to what the reader was made from.
<1>4. ASSUME NEW e, DOMAIN e = DOMAIN d, e.fd = active, e.seen \subseteq {Behind(active)},
             Makes("ui", e)
      PROVE  OnActive(d)'
  <2> DEFINE x == [e EXCEPT !.seen = e.seen \cup {Behind(e.fd)}]
  <2>1. x.fd = active /\ x.seen \subseteq {Behind(active)} BY <1>0, <1>4 DEF Device
  <2>2. device' = [device EXCEPT !["mount"] = x] BY <1>0, <1>4 DEF Makes
  <2> HIDE DEF x
  <2>3. d2 = x BY <1>0, <2>2 DEF TypeOK
  <2> QED BY <1>1, <1>3, <2>1, <2>3 DEF OnActive
<1>5. CASE /\ fresh' = fresh /\ OnActive(d)'
           /\ pc'["ui"] \in MakePcs
  BY <1>2, <1>5 DEF SelectedInv, MakePcs, ReadPcs
<1>6. CASE fresh' = fresh /\ GivesUp("ui")
  <2>1. pc'["ui"] = "idle" BY <1>0, <1>6, GivesUpShape
  <2> QED BY <1>2, <1>6, <2>1 DEF SelectedInv, Selecting, MakePcs, ReadPcs
<1>7. CASE ReadsHeader("ui")
  <2> DEFINE c == Pread(d.fd, 0)
             e == [d EXCEPT !.kind = "sparse", !.total = c.total, !.left = c.chunks, !.next = 1]
  <2>1. CASE c.kind = "sparse"
    <3>1. Makes("ui", e) /\ Goto("ui", "index") BY <1>0, <1>7, <2>1 DEF ReadsHeader
    <3>2. DOMAIN e = DOMAIN d /\ e.fd = d.fd /\ e.seen = d.seen BY <1>0 DEF Device
    <3> HIDE DEF e
    <3>3. OnActive(d)' BY <1>2, <1>4, <3>1, <3>2 DEF OnActive
    <3>4. pc'["ui"] = "index" BY <1>0, <3>1, GotoMoves DEF Pcs, MakePcs
    <3> QED BY <1>5, <1>7, <3>3, <3>4 DEF ReadsHeader, MakePcs
  <2>2. CASE c.kind # "sparse"
    <3>1. Goto("ui", "raw") /\ UNCHANGED device BY <1>0, <1>7, <2>2 DEF ReadsHeader
    <3>2. pc'["ui"] = "raw" BY <1>0, <3>1, GotoMoves DEF Pcs, MakePcs
    <3>3. OnActive(d)' BY <1>1, <1>2, <1>3, <3>1 DEF OnActive
    <3> QED BY <1>5, <1>7, <3>2, <3>3 DEF ReadsHeader, MakePcs
  <2> QED BY <2>1, <2>2
<1>8. CASE Indexes("ui")
  <2> DEFINE c == Pread(d.fd, d.next)
             e == Indexed(d, HeaderIn(c))
  <2>1. CASE d.left # 0 /\ c.kind # "none"
    <3>1. Makes("ui", e) /\ UNCHANGED pc BY <1>0, <1>8, <2>1 DEF Indexes
    <3>2. DOMAIN e = DOMAIN d /\ e.fd = d.fd /\ e.seen = d.seen BY <1>0 DEF Device, Indexed
    <3> HIDE DEF e
    <3>3. OnActive(d)' BY <1>2, <1>4, <3>1, <3>2 DEF OnActive
    <3> QED BY <1>1, <1>5, <1>8, <3>1, <3>3 DEF Indexes
  <2>2. CASE ~(d.left # 0 /\ c.kind # "none")
    <3>1. (Goto("ui", "raw") \/ Goto("ui", "super")) /\ UNCHANGED device
      BY <1>0, <1>8, <2>2 DEF Indexes
    <3>2. pc'["ui"] \in {"raw", "super"} BY <1>0, <3>1, GotoMoves DEF Pcs, MakePcs
    <3>3. OnActive(d)' BY <1>1, <1>2, <1>3, <3>1 DEF OnActive
    <3> QED BY <1>5, <1>8, <3>2, <3>3 DEF Indexes, MakePcs
  <2> QED BY <2>1, <2>2
<1>9. CASE TriesRaw("ui")
  <2> DEFINE c == Pread(d.fd, 0)
             e == [NoDevice EXCEPT !.kind = "raw", !.fd = d.fd, !.total = c.total]
  <2>1. CASE c.kind = "super"
    <3>1. Makes("ui", e) /\ Goto("ui", "super") BY <1>0, <1>9, <2>1 DEF TriesRaw
    <3>2. DOMAIN e = DOMAIN d /\ e.fd = d.fd /\ e.seen = {} BY <1>0 DEF Device, NoDevice
    <3> HIDE DEF e
    <3>3. OnActive(d)' BY <1>2, <1>4, <3>1, <3>2 DEF OnActive
    <3>4. pc'["ui"] = "super" BY <1>0, <3>1, GotoMoves DEF Pcs, MakePcs
    <3> QED BY <1>5, <1>9, <3>3, <3>4 DEF TriesRaw, MakePcs
  <2>2. CASE c.kind # "super" BY <1>0, <1>6, <1>9, <2>2 DEF TriesRaw
  <2> QED BY <2>1, <2>2
<1>10. CASE ReadsSuper("ui")
  <2> DEFINE c == Block(d, 0)
             e == [d EXCEPT !.table = c.table]
  <2>1. CASE c.kind = "super"
    <3>1. Makes("ui", e) /\ Goto("ui", "lock") BY <1>0, <1>10, <2>1 DEF ReadsSuper
    <3>2. DOMAIN e = DOMAIN d /\ e.fd = d.fd /\ e.seen = d.seen BY <1>0 DEF Device
    <3> HIDE DEF e
    <3>3. OnActive(d)' BY <1>2, <1>4, <3>1, <3>2 DEF OnActive
    <3>4. pc'["ui"] = "lock" BY <1>0, <3>1, GotoMoves DEF Pcs
    <3>5. job'["ui"].seen = {}
      <4>1. PICK path \in Paths : job' = [job EXCEPT !["ui"] = Read(path)]
        BY <1>0, <1>10, <2>1 DEF ReadsSuper
      <4>2. job'["ui"] = Read(path) BY <1>0, <4>1 DEF TypeOK
      <4> QED BY <4>2 DEF Read
    <3> QED BY <3>3, <3>4, <3>5 DEF SelectedInv, Selecting, MakePcs, ReadPcs
  <2>2. CASE c.kind # "super" BY <1>0, <1>6, <1>10, <2>2 DEF ReadsSuper
  <2> QED BY <2>1, <2>2
<1> QED BY <1>7, <1>8, <1>9, <1>10 DEF MakeStep

\* One more look at the image adds the file behind the reader to what a file was read from.
LEMMA SeenGrows ==
  ASSUME TypeOK, NEW t \in Threads, NEW j, DOMAIN j = DOMAIN job[t], j.seen = job[t].seen,
         Reads(t, j)
  PROVE  /\ job'[t].seen = job[t].seen \cup {Behind(device[DeviceOf(t)].fd)}
         /\ \A u \in Threads \ {t} : job'[u] = job[u]
<1> DEFINE x == [j EXCEPT !.seen = j.seen \cup {Behind(device[DeviceOf(t)].fd)}]
<1>1. job[t] \in Job BY DEF TypeOK
<1>2. x.seen = job[t].seen \cup {Behind(device[DeviceOf(t)].fd)} BY <1>1 DEF Job
<1>3. job' = [job EXCEPT ![t] = x] BY DEF Reads
<1> HIDE DEF x
<1>4. job'[t] = x /\ \A u \in Threads \ {t} : job'[u] = job[u] BY <1>3 DEF TypeOK
<1> QED BY <1>2, <1>4

LEMMA ReadSeen ==
  ASSUME TypeOK, NEW t \in Threads, ReadStep(t)
  PROVE  /\ pc[t] \in ReadPcs /\ pc'[t] \in ReadPcs \cup {"idle"}
         /\ \A u \in Threads \ {t} : pc'[u] = pc[u] /\ job'[u] = job[u]
         /\ \/ job'[t].seen = job[t].seen
            \/ job'[t].seen = job[t].seen \cup {Behind(device[DeviceOf(t)].fd)}
            \/ pc'[t] = "idle"
<1> DEFINE d == device[DeviceOf(t)]
<1>0. job[t] \in Job BY DEF TypeOK
<1>1. /\ pc[t] \in ReadPcs
      /\ UNCHANGED pc \/ \E place \in ReadPcs \cup {"idle"} : Goto(t, place)
  BY DEF ReadStep, ReadsInode, ReadsNode, HasExtents, ReadsBlock, EndsFile, Returns, ReadPcs
<1>2. pc'[t] \in ReadPcs \cup {"idle"} /\ \A u \in Threads \ {t} : pc'[u] = pc[u]
  BY <1>1, GotoMoves DEF Pcs
<1>3. ASSUME NEW j, DOMAIN j = DOMAIN job[t], j.seen = job[t].seen, Reads(t, j)
      PROVE  /\ \A u \in Threads \ {t} : job'[u] = job[u]
             /\ job'[t].seen = job[t].seen \cup {Behind(d.fd)}
  BY <1>3, SeenGrows
<1>4. CASE ReadsInode(t)
  <2> DEFINE c == Block(d, d.table)
             i == InodeIn(c, job[t].ino)
             x == [job[t] EXCEPT !.ok = FALSE]
             y == [job[t] EXCEPT !.nodes = i.children, !.extents = i.extents, !.left = i.size,
                                 !.out = <<>>]
  <2>1. Reads(t, x) \/ Reads(t, y) BY <1>4 DEF ReadsInode
  <2>2. /\ DOMAIN x = DOMAIN job[t] /\ x.seen = job[t].seen
        /\ DOMAIN y = DOMAIN job[t] /\ y.seen = job[t].seen
    BY <1>0 DEF Job
  <2> HIDE DEF x, y
  <2> QED BY <1>1, <1>2, <1>3, <2>1, <2>2
<1>5. CASE ReadsNode(t)
  <2> DEFINE node == Block(d, Head(job[t].nodes))
             x == [job[t] EXCEPT !.nodes = Tail(@),
                                 !.extents = IF node.kind = "node" THEN @ \o node.extents ELSE @]
  <2>1. Reads(t, x) BY <1>5 DEF ReadsNode
  <2>2. DOMAIN x = DOMAIN job[t] /\ x.seen = job[t].seen BY <1>0 DEF Job
  <2> HIDE DEF x
  <2> QED BY <1>1, <1>2, <1>3, <2>1, <2>2
<1>6. CASE ReadsBlock(t)
  <2> DEFINE c == Block(d, Head(job[t].extents).start)
             part == Part(c, job[t].left)
             x == [job[t] EXCEPT !.ok = FALSE]
             y == [job[t] EXCEPT !.extents = AfterBlock(@), !.left = @ - Len(part),
                                 !.out = @ \o part]
  <2>1. Reads(t, x) \/ Reads(t, y) BY <1>6 DEF ReadsBlock
  <2>2. /\ DOMAIN x = DOMAIN job[t] /\ x.seen = job[t].seen
        /\ DOMAIN y = DOMAIN job[t] /\ y.seen = job[t].seen
    BY <1>0 DEF Job
  <2> HIDE DEF x, y
  <2> QED BY <1>1, <1>2, <1>3, <2>1, <2>2
<1>7. CASE HasExtents(t) BY <1>1, <1>2, <1>7 DEF HasExtents
<1>8. CASE EndsFile(t)
  <2> DEFINE ino == Find(job[t].out, Head(job[t].names))
             x == [job[t] EXCEPT !.ok = FALSE]
             y == [job[t] EXCEPT !.ino = ino, !.names = Tail(@)]
  <2>1. \/ UNCHANGED job
        \/ job' = [job EXCEPT ![t] = x]
        \/ job' = [job EXCEPT ![t] = y]
    BY <1>8 DEF EndsFile
  <2>2. x.seen = job[t].seen /\ y.seen = job[t].seen BY <1>0 DEF Job
  <2> HIDE DEF x, y
  <2>3. job'[t].seen = job[t].seen /\ \A u \in Threads \ {t} : job'[u] = job[u]
    BY <2>1, <2>2 DEF TypeOK
  <2> QED BY <1>1, <1>2, <2>3
<1>9. CASE Returns(t)
  <2>1. pc'[t] = "idle" BY <1>9, GotoMoves DEF Returns, Pcs
  <2>2. \A u \in Threads \ {t} : job'[u] = job[u] BY <1>9 DEF Returns, TypeOK
  <2> QED BY <1>1, <1>2, <2>1, <2>2
<1> QED BY <1>4, <1>5, <1>6, <1>7, <1>8, <1>9 DEF ReadStep

LEMMA ReadStays ==
  ASSUME TypeOK, NEW t \in Threads, ReadStep(t) PROVE Stays
<1>1. UNCHANGED <<table, active, fresh>>
  BY DEF ReadStep, ReadsInode, ReadsNode, HasExtents, ReadsBlock, EndsFile, Returns, fds
<1>2. UNCHANGED device \/ device' = [device EXCEPT !["live"] = NoDevice]
  BY DEF ReadStep, ReadsInode, ReadsNode, HasExtents, ReadsBlock, EndsFile, Returns
<1>3. device'["mount"] = device["mount"] BY <1>2 DEF TypeOK
<1> QED BY <1>1, <1>3 DEF Stays

LEMMA UiReadingSelected ==
  ASSUME TypeOK, SelectedInv, ReadStep("ui") PROVE SelectedInv'
<1>0. "ui" \in Threads /\ DeviceOf("ui") = "mount" BY DEF Threads, DeviceOf
<1>1. Stays BY <1>0, ReadStays
<1>2. /\ pc["ui"] \in ReadPcs /\ pc'["ui"] \in ReadPcs \cup {"idle"}
      /\ \/ job'["ui"].seen = job["ui"].seen
         \/ job'["ui"].seen = job["ui"].seen \cup {Behind(device["mount"].fd)}
         \/ pc'["ui"] = "idle"
  BY <1>0, ReadSeen
<1>3. Behind(active)' = Behind(active) BY <1>1 DEF Stays, Behind
<1>4. CASE pc'["ui"] = "idle" BY <1>1, <1>4, SelectedLeft DEF Selecting, MakePcs
<1>5. CASE pc'["ui"] \in ReadPcs
  <2>1. OnActive(device["mount"])' <=> OnActive(device["mount"])
    BY <1>1, <1>3 DEF Stays, OnActive
  <2>2. fresh => job'["ui"].seen \subseteq {Behind(active)}
    BY <1>2, <1>5 DEF SelectedInv, OnActive, ReadPcs
  <2> QED BY <1>1, <1>3, <1>5, <2>1, <2>2 DEF SelectedInv, Stays, Selecting, MakePcs, ReadPcs
<1> QED BY <1>2, <1>4, <1>5

\* The live boot makes a reader of its own.
LEMMA LiveMakingSelected ==
  ASSUME TypeOK, SelectedInv, MakeStep("live") PROVE SelectedInv'
<1>0. "ui" \in Threads /\ "live" \in Threads /\ DeviceOf("live") = "live" BY DEF Threads, DeviceOf
<1>1. UNCHANGED <<table, active, fresh>>
  <2>1. UNCHANGED <<table, active>>
    BY DEF MakeStep, ReadsHeader, Indexes, TriesRaw, ReadsSuper, fds
  <2>2. UNCHANGED fresh \/ fresh' = ("live" = "ui" \/ fresh)
    BY DEF MakeStep, ReadsHeader, Indexes, TriesRaw, ReadsSuper
  <2>3. ("live" = "ui" \/ fresh) = fresh BY DEF TypeOK
  <2> QED BY <2>1, <2>2, <2>3
<1>2. UNCHANGED device \/ \E e : device' = [device EXCEPT !["live"] = e]
  BY <1>0 DEF MakeStep, ReadsHeader, Indexes, TriesRaw, ReadsSuper, GivesUp, Makes
<1>3. device'["mount"] = device["mount"] BY <1>2 DEF TypeOK
<1>4. UNCHANGED pc \/ \E place : Goto("live", place)
  BY DEF MakeStep, ReadsHeader, Indexes, TriesRaw, ReadsSuper, GivesUp
<1>5. pc'["ui"] = pc["ui"] BY <1>0, <1>4 DEF Goto, TypeOK
<1>6. UNCHANGED job \/ \E j : job' = [job EXCEPT !["live"] = j]
  BY DEF MakeStep, ReadsHeader, Indexes, TriesRaw, ReadsSuper
<1>7. job'["ui"] = job["ui"] BY <1>0, <1>6 DEF TypeOK
<1> QED BY <1>1, <1>3, <1>5, <1>7, SelectedKept DEF Stays

LEMMA SelectedStep ==
  ASSUME TypeOK, SelectedInv, [Next]_vars PROVE SelectedInv'
<1>0. "ui" \in Threads /\ "live" \in Threads /\ "extract" \in Threads BY DEF Threads
<1>1. ASSUME NEW t \in Threads \ {"ui"}, ReadStep(t) PROVE SelectedInv'
  <2>1. Stays BY <1>1, ReadStays
  <2>2. pc'["ui"] = pc["ui"] /\ job'["ui"] = job["ui"] BY <1>0, <1>1, ReadSeen
  <2> QED BY <2>1, <2>2, SelectedKept
<1>2. CASE Locks("ui")
  <2>1. /\ Stays /\ UNCHANGED job /\ pc["ui"] = "lock"
        /\ Goto("ui", "idle") \/ Goto("ui", "inode")
    BY <1>2 DEF Locks, Stays, fds
  <2>2. pc'["ui"] \in {"idle", "inode"} BY <1>0, <2>1, GotoMoves DEF Pcs, ReadPcs
  <2>3. Behind(active)' = Behind(active) BY <2>1 DEF Stays, Behind
  <2> QED
    BY <2>1, <2>2, <2>3 DEF SelectedInv, Stays, OnActive, Selecting, MakePcs, ReadPcs
<1>3. CASE Locks("extract")
  <2>1. Stays /\ UNCHANGED job /\ \E place : Goto("extract", place)
    BY <1>3 DEF Locks, Stays, fds
  <2>2. pc'["ui"] = pc["ui"] BY <1>0, <2>1 DEF Goto, TypeOK
  <2> QED BY <2>1, <2>2, SelectedKept
<1>4. ASSUME NEW path \in Paths, UiBrowses(path) PROVE SelectedInv'
  <2>1. Stays /\ Goto("ui", "lock") /\ job' = [job EXCEPT !["ui"] = Read(path)]
    BY <1>4 DEF UiBrowses, Begins, Stays, fds
  <2>2. pc'["ui"] = "lock" BY <1>0, <2>1, GotoMoves DEF Pcs
  <2>3. job'["ui"].seen = {} BY <1>0, <2>1 DEF TypeOK, Read
  <2>4. Behind(active)' = Behind(active) BY <2>1 DEF Stays, Behind
  <2> QED
    BY <2>1, <2>2, <2>3, <2>4 DEF SelectedInv, Stays, OnActive, Selecting, MakePcs, ReadPcs
<1>5. ASSUME NEW path \in Paths, ExtractBegins(path) \/ ExtractGoesOn(path) PROVE SelectedInv'
  <2>1. /\ Stays /\ job' = [job EXCEPT !["extract"] = Read(path)]
        /\ \E place : Goto("extract", place)
    BY <1>5 DEF ExtractBegins, ExtractGoesOn, Begins, Stays, fds
  <2>2. pc'["ui"] = pc["ui"] /\ job'["ui"] = job["ui"] BY <1>0, <2>1 DEF Goto, TypeOK
  <2> QED BY <2>1, <2>2, SelectedKept
<1>6. CASE LiveBegins
  <2>1. /\ UNCHANGED <<table, active, fresh>> /\ Goto("live", "header")
        /\ job' = [job EXCEPT !["live"] = Read(<<>>)]
        /\ device' = [device EXCEPT !["live"] = [NoDevice EXCEPT !.fd = active]]
    BY <1>6 DEF LiveBegins, Begins, fds
  <2>2. pc'["ui"] = pc["ui"] /\ job'["ui"] = job["ui"] BY <1>0, <2>1 DEF Goto, TypeOK
  <2>3. device'["mount"] = device["mount"] BY <2>1 DEF TypeOK
  <2> QED BY <2>1, <2>2, <2>3, SelectedKept DEF Stays
<1>7. CASE UNCHANGED vars BY <1>7, SelectedKept DEF vars, fds, threads, Stays
<1> QED
  BY <1>1, <1>2, <1>3, <1>4, <1>5, <1>6, <1>7, StepCases, SelectingSelected, UiMakingSelected,
     UiReadingSelected, LiveMakingSelected DEF Threads

\* handleImageSelected, nativeMountFilesystem: once a selection is mounted the UI reads from
\* it alone, whichever number its descriptor has and whatever an extraction or a live boot
\* do with the image before.
THEOREM AlwaysReadsTheSelected == Spec => []ReadsTheSelected
<1>1. Init => SelectedInv
  <2> SUFFICES ASSUME Init PROVE SelectedInv OBVIOUS
  <2>1. pc["ui"] = "idle" /\ ~fresh BY DEF Init, Threads
  <2> QED BY <2>1 DEF SelectedInv, Selecting, MakePcs, ReadPcs
<1>2. TypeOK /\ SelectedInv /\ [Next]_vars => SelectedInv' BY SelectedStep
<1>3. SelectedInv => ReadsTheSelected BY DEF SelectedInv, ReadsTheSelected, OnActive
<1> QED BY <1>1, <1>2, <1>3, TypeCorrect, PTL DEF Spec

-----------------------------------------------------------------------------
(* The inodes along a path. *)

LEMMA Induction ==
  ASSUME NEW T, 0 \in T, \A n \in Nat : n \in T => n + 1 \in T
  PROVE  Nat \subseteq T
<1> SUFFICES ASSUME NEW m \in Nat, m \notin T PROVE FALSE OBVIOUS
<1> DEFINE S == {n \in Nat : n \notin T}
<1>1. S \subseteq Nat /\ S # {} OBVIOUS
<1>2. PICK x \in S : \A y \in S : x <= y BY <1>1, Least
<1>3. x \in Nat /\ x # 0 /\ x \notin T OBVIOUS
<1>4. x - 1 \in Nat /\ x = (x - 1) + 1 BY <1>3
<1>5. x - 1 \in T
  <2> SUFFICES ASSUME x - 1 \notin T PROVE FALSE OBVIOUS
  <2>1. x - 1 \in S BY <1>4
  <2>2. x <= x - 1 BY <1>2, <2>1
  <2> QED BY <1>3, <2>2
<1> QED BY <1>3, <1>4, <1>5

\* The definition by recursion is one: there is a function that it defines.
LEMMA InodesOnSteps ==
  ASSUME NEW i, NEW path \in Seq(Names)
  PROVE  /\ InodesOn(i, path)[0] = Root
         /\ \A k \in 1..Len(path) :
              InodesOn(i, path)[k] = Child(i, InodesOn(i, path)[k - 1], path[k])
<1> DEFINE N == Len(path)
           Follows(g, n) == /\ g[0] = Root
                            /\ \A k \in 1..n : g[k] = Child(i, g[k - 1], path[k])
           T == {n \in Nat : \E g : Follows(g, n)}
<1>1. N \in Nat BY LenProperties
<1>2. 0 \in T
  <2> DEFINE g == [k \in {0} |-> Root]
  <2>1. g[0] = Root OBVIOUS
  <2> HIDE DEF g
  <2>2. Follows(g, 0) BY <2>1
  <2> QED BY <2>2
<1>3. ASSUME NEW n \in Nat, n \in T PROVE n + 1 \in T
  <2>1. PICK g : Follows(g, n) BY <1>3
  <2> DEFINE h == [k \in 0..(n + 1) |-> IF k <= n THEN g[k] ELSE Child(i, g[n], path[n + 1])]
  <2>2. \A k \in 0..n : h[k] = g[k] OBVIOUS
  <2>3. h[n + 1] = Child(i, g[n], path[n + 1]) OBVIOUS
  <2> HIDE DEF h
  <2>4. ASSUME NEW k \in 1..(n + 1) PROVE h[k] = Child(i, h[k - 1], path[k])
    <3>1. CASE k <= n
      <4>1. k \in 1..n /\ k \in 0..n /\ k - 1 \in 0..n BY <3>1
      <4> QED BY <2>1, <2>2, <4>1
    <3>2. CASE ~(k <= n)
      <4>1. k = n + 1 /\ k - 1 = n /\ n \in 0..n BY <3>2
      <4> QED BY <2>2, <2>3, <4>1
    <3> QED BY <3>1, <3>2
  <2>5. h[0] = Root BY <2>1, <2>2
  <2>6. Follows(h, n + 1) BY <2>4, <2>5
  <2> HIDE DEF Follows
  <2> QED BY <2>6
<1>4. N \in T
  <2> HIDE DEF T
  <2> QED BY <1>1, <1>2, <1>3, Induction
<1>5. PICK g : Follows(g, N) BY <1>4
<1> DEFINE At(f) == [k \in 0..N |-> IF k = 0 THEN Root ELSE Child(i, f[k - 1], path[k])]
           h == [k \in 0..N |-> g[k]]
<1>6. h = At(h)
  <2>1. ASSUME NEW k \in 0..N PROVE g[k] = IF k = 0 THEN Root ELSE Child(i, h[k - 1], path[k])
    <3>1. CASE k = 0 BY <1>5, <3>1
    <3>2. CASE k # 0
      <4>1. k \in 1..N /\ k - 1 \in 0..N BY <1>1, <3>2
      <4>2. h[k - 1] = g[k - 1] BY <4>1
      <4>3. g[k] = Child(i, g[k - 1], path[k]) BY <1>5, <4>1
      <4> QED BY <3>2, <4>2, <4>3
    <3> QED BY <3>1, <3>2
  <2> HIDE DEF Follows
  <2> QED BY <2>1
<1> DEFINE f == InodesOn(i, path)
<1>7. f = CHOOSE x : x = At(x) BY DEF InodesOn
<1> HIDE DEF At, h
<1>8. f = At(f) BY <1>6, <1>7
<1> HIDE DEF f
<1>9. f[0] = Root BY <1>1, <1>8 DEF At
<1>10. ASSUME NEW k \in 1..N PROVE f[k] = Child(i, f[k - 1], path[k])
  <2>1. k \in 0..N /\ k # 0 BY <1>1
  <2> QED BY <1>8, <2>1 DEF At
<1> QED BY <1>9, <1>10 DEF f

\* Behind a name that is not there nothing is.
LEMMA NothingBehind ==
  ASSUME NEW i, NEW path \in Seq(Names), NEW k \in 0..Len(path), InodesOn(i, path)[k] = 0
  PROVE  InodeAt(i, path) = 0
<1> DEFINE f == InodesOn(i, path)
           N == Len(path)
           T == {n \in Nat : k + n <= N => f[k + n] = 0}
<1>1. N \in Nat /\ k \in Nat /\ k <= N BY LenProperties
<1>2. 0 \in T BY <1>1
<1>3. ASSUME NEW n \in Nat, n \in T PROVE n + 1 \in T
  <2>1. CASE k + (n + 1) <= N
    <3>1. k + n <= N /\ k + (n + 1) \in 1..N /\ k + (n + 1) - 1 = k + n BY <1>1, <2>1
    <3>2. f[k + n] = 0 BY <1>3, <3>1
    <3>3. f[k + (n + 1)] = Child(i, f[k + (n + 1) - 1], path[k + (n + 1)])
      BY <3>1, InodesOnSteps
    <3> HIDE DEF f
    <3>4. f[k + (n + 1)] = 0 BY <3>1, <3>2, <3>3 DEF Child
    <3> QED BY <3>4
  <2>2. CASE ~(k + (n + 1) <= N) BY <2>2
  <2> QED BY <2>1, <2>2
<1>4. N - k \in T
  <2>1. N - k \in Nat BY <1>1
  <2> HIDE DEF T
  <2> QED BY <1>2, <1>3, <2>1, Induction
<1>5. k + (N - k) = N BY <1>1
<1> QED BY <1>1, <1>4, <1>5 DEF InodeAt

\* In a directory as ext4 keeps it the first entry that counts is the only one of its name.
LEMMA FindIsChild ==
  ASSUME NEW i, NEW dir, dir # 0, NEW bytes \in Seq(Byte), bytes = WrittenFile(i, dir),
         IsDirectory(bytes), NEW name
  PROVE  Find(bytes, name) = Child(i, dir, name)
<1> DEFINE here == {e \in {bytes[k] : k \in DOMAIN bytes} : e.name = name /\ e.ino # 0}
           matches == {k \in DOMAIN bytes :
                         /\ bytes[k].name = name /\ bytes[k].ino # 0
                         /\ \A j \in 1..(k - 1) : bytes[j] # ZeroByte}
<1>0. DOMAIN bytes = 1..Len(bytes) /\ Len(bytes) \in Nat BY LenProperties
<1>1. Child(i, dir, name) = IF here = {} THEN 0 ELSE (CHOOSE e \in here : TRUE).ino BY DEF Child
<1>2. CASE here = {}
  <2>1. matches = {}
    <3> SUFFICES ASSUME NEW k \in matches PROVE FALSE OBVIOUS
    <3>1. bytes[k] \in here OBVIOUS
    <3> QED BY <1>2, <3>1
  <2>2. Find(bytes, name) = 0 BY <2>1 DEF Find
  <2> QED BY <1>1, <1>2, <2>2
<1>3. CASE here # {}
  <2>1. PICK e \in here : e = CHOOSE x \in here : TRUE BY <1>3
  <2>2. PICK k \in DOMAIN bytes : e = bytes[k] BY <2>1
  <2>3. k \in matches
    <3>1. \A j \in 1..(k - 1) : bytes[j] # ZeroByte
      <4>1. \A j \in 1..(k - 1) : j \in DOMAIN bytes /\ j < k BY <1>0, <2>2
      <4> QED BY <2>1, <2>2, <4>1 DEF IsDirectory
    <3> QED BY <2>1, <2>2, <3>1
  <2>4. matches \subseteq Nat BY <1>0
  <2>5. \E m \in matches : \A j \in matches : m <= j BY <2>3, <2>4, Least
  <2> DEFINE m == CHOOSE m \in matches : \A j \in matches : m <= j
  <2>6. m \in matches BY <2>5
  <2>7. Find(bytes, name) = bytes[m].ino BY <2>3 DEF Find
  <2> HIDE DEF m
  <2>8. m \in DOMAIN bytes /\ bytes[m].name = name /\ bytes[m].ino # 0 BY <2>6
  <2>9. bytes[m].ino = bytes[k].ino BY <2>1, <2>2, <2>8 DEF IsDirectory
  <2> HIDE DEF here
  <2> QED BY <1>1, <1>3, <2>1, <2>2, <2>7, <2>9
<1> QED BY <1>2, <1>3

-----------------------------------------------------------------------------
(* The extents of a file. *)

LEMMA VolumeTypes ==
  ASSUME NEW i \in Whole, NEW ino \in Inos
  PROVE  /\ i \in Images /\ IsVolume(i) /\ InodeOf(i, ino) \in Inode
         /\ IsFile(i, InodeOf(i, ino))
<1>1. i \in Images /\ IsVolume(i) BY ImageAssumption, VolumeAssumption DEF ImageAssumption
<1>2. /\ Len(Volume[i]) > 0 /\ 1 \in DOMAIN Volume[i]
      /\ Volume[i] \in Seq(Cell)
  BY <1>1, ImageTypes, EmptySeq DEF IsVolume
<1>3. Volume[i][1] \in Cell BY <1>2, ElementOfSeq, ImageTypes, <1>1
<1>4. Volume[i][1].table \in Nat BY <1>1, <1>3, CellFields DEF IsVolume
<1> DEFINE n == Volume[i][1].table + 1
<1>5. n \in 1..Len(Volume[i]) BY <1>1, <1>4, ImageTypes DEF IsVolume
<1>6. Volume[i][n] \in Cell BY <1>2, <1>5, ElementOfSeq
<1>7. Volume[i][n].at \in [Inos -> Inode] BY <1>1, <1>6, CellFields DEF IsVolume
<1> QED BY <1>1, <1>7 DEF InodeOf, IsVolume

\* The leaves are sequences of extents: the inode's own, or those of its nodes.
LEMMA LeavesType ==
  ASSUME NEW i \in Images, NEW inode \in Inode, IsFile(i, inode)
  PROVE  /\ Leaves(i, inode) \in Seq(Seq(Extent))
         /\ inode.depth = 0 => Len(Leaves(i, inode)) = 1 /\ Leaves(i, inode)[1] = inode.extents
         /\ inode.depth # 0 =>
              /\ Len(Leaves(i, inode)) = Len(inode.children)
              /\ \A m \in 1..Len(inode.children) :
                   /\ inode.children[m] \in Nat /\ inode.children[m] < Len(Volume[i])
                   /\ Volume[i][inode.children[m] + 1].kind = "node"
                   /\ Leaves(i, inode)[m] = Volume[i][inode.children[m] + 1].extents
<1>1. inode.extents \in Seq(Extent) /\ inode.children \in Seq(Nat) BY DEF Inode
<1>2. CASE inode.depth = 0
  <2>1. Leaves(i, inode) = <<inode.extents>> BY <1>2 DEF Leaves
  <2>2. <<inode.extents>> \in Seq(Seq(Extent)) BY <1>1
  <2> QED BY <1>2, <2>1, <2>2
<1>3. CASE inode.depth # 0
  <2> DEFINE c == inode.children
             leaf(m) == Volume[i][c[m] + 1].extents
             s == [m \in 1..Len(c) |-> leaf(m)]
  <2>1. DOMAIN c = 1..Len(c) /\ Len(c) \in Nat BY <1>1, LenProperties
  <2>2. ASSUME NEW m \in 1..Len(c)
        PROVE  /\ c[m] \in Nat /\ c[m] < Len(Volume[i]) /\ Volume[i][c[m] + 1].kind = "node"
               /\ leaf(m) \in Seq(Extent)
    <3>1. c[m] \in Nat BY <1>1, <2>1, ElementOfSeq
    <3>2. c[m] < Len(Volume[i]) /\ Volume[i][c[m] + 1].kind = "node" BY <2>1 DEF IsFile
    <3>3. c[m] + 1 \in 1..Len(Volume[i])
      <4> HIDE DEF c
      <4> QED BY <3>1, <3>2, ImageTypes
    <3>4. Volume[i][c[m] + 1] \in Cell BY <3>3, ImageTypes, ElementOfSeq
    <3> QED BY <3>1, <3>2, <3>4, CellFields
  <2>3. Leaves(i, inode) = s BY <1>3, <2>1 DEF Leaves
  <2> HIDE DEF c, leaf
  <2>4. s \in [1..Len(c) -> Seq(Extent)] BY <2>2
  <2>5. s \in Seq(Seq(Extent)) /\ Len(s) = Len(c)
    <3>1. DOMAIN s = 1..Len(c) OBVIOUS
    <3>2. s \in Seq(Seq(Extent)) BY <2>1, <2>4, SeqDef
    <3> HIDE DEF s
    <3> QED BY <2>1, <3>1, <3>2, LenProperties
  <2>6. \A m \in 1..Len(c) : s[m] = leaf(m) OBVIOUS
  <2> HIDE DEF s
  <2> QED BY <1>3, <2>2, <2>3, <2>5, <2>6 DEF c, leaf
<1> QED BY <1>2, <1>3

InOrder(s)  == \A k, l \in DOMAIN s : k < l => EndsBy(s[k], s[l])
Elements(s) == {s[k] : k \in DOMAIN s}

\* The extents of the first m leaves.
Gathered(i, inode, m) ==
  UNION {{Leaves(i, inode)[n][k] : k \in DOMAIN Leaves(i, inode)[n]} : n \in 1..m}

LEMMA GatheredIn ==
  ASSUME NEW i, NEW inode, NEW m \in Nat, NEW e
  PROVE  e \in Gathered(i, inode, m) <=>
           \E n \in 1..m : \E k \in DOMAIN Leaves(i, inode)[n] : e = Leaves(i, inode)[n][k]
BY DEF Gathered

LEMMA GatheredAll ==
  ASSUME NEW i \in Images, NEW inode \in Inode, IsFile(i, inode)
  PROVE  Gathered(i, inode, Len(Leaves(i, inode))) = ExtentsOf(i, inode)
<1>1. DOMAIN Leaves(i, inode) = 1..Len(Leaves(i, inode)) BY LeavesType, LenProperties
<1> QED BY <1>1 DEF Gathered, ExtentsOf

LEMMA ExtentTypes ==
  ASSUME NEW i \in Images, NEW inode \in Inode, IsFile(i, inode)
  PROVE  /\ ExtentsOf(i, inode) \subseteq Extent
         /\ \A e \in ExtentsOf(i, inode) :
              e.block \in Nat /\ e.len \in Nat \ {0} /\ e.start \in Nat /\ e.written \in BOOLEAN
<1> DEFINE leaves == Leaves(i, inode)
<1>1. leaves \in Seq(Seq(Extent)) BY LeavesType
<1>2. ASSUME NEW e \in ExtentsOf(i, inode) PROVE e \in Extent
  <2>1. PICK m \in DOMAIN leaves : \E k \in DOMAIN leaves[m] : e = leaves[m][k]
    BY DEF ExtentsOf
  <2>2. PICK k \in DOMAIN leaves[m] : e = leaves[m][k] BY <2>1
  <2> DEFINE leaf == leaves[m]
  <2>3. leaf \in Seq(Extent)
    <3> HIDE DEF leaves
    <3> QED BY <1>1, <2>1, LenProperties, ElementOfSeq
  <2> HIDE DEF leaves
  <2>4. k \in 1..Len(leaf) BY <2>2, <2>3, LenProperties
  <2> QED BY <2>2, <2>3, <2>4, ElementOfSeq
<1> QED BY <1>2 DEF Extent

\* Two extents of a file have no block in common.
LEMMA ExtentsApart ==
  ASSUME NEW i \in Images, NEW inode \in Inode, IsFile(i, inode),
         NEW e \in ExtentsOf(i, inode), NEW f \in ExtentsOf(i, inode), NEW b \in Nat,
         e.block <= b, b < e.block + e.len, f.block <= b, b < f.block + f.len
  PROVE  e = f
<1> DEFINE leaves == Leaves(i, inode)
<1>0. /\ leaves \in Seq(Seq(Extent)) /\ DOMAIN leaves = 1..Len(leaves) /\ Len(leaves) \in Nat
      /\ e.block \in Nat /\ e.len \in Nat /\ f.block \in Nat /\ f.len \in Nat
  BY LeavesType, LenProperties, ExtentTypes
<1>1. PICK m \in DOMAIN leaves : \E k \in DOMAIN leaves[m] : e = leaves[m][k] BY DEF ExtentsOf
<1>2. PICK k \in DOMAIN leaves[m] : e = leaves[m][k] BY <1>1
<1>3. PICK n \in DOMAIN leaves : \E l \in DOMAIN leaves[n] : f = leaves[n][l] BY DEF ExtentsOf
<1>4. PICK l \in DOMAIN leaves[n] : f = leaves[n][l] BY <1>3
<1>5. /\ m < n \/ (m = n /\ k < l) => EndsBy(e, f)
      /\ n < m \/ (n = m /\ l < k) => EndsBy(f, e)
  BY <1>1, <1>2, <1>3, <1>4 DEF IsFile
<1>6. ~EndsBy(e, f) /\ ~EndsBy(f, e)
  <2> DEFINE eb == e.block  el == e.len  fb == f.block  fl == f.len
  <2>1. eb \in Nat /\ el \in Nat /\ fb \in Nat /\ fl \in Nat BY <1>0
  <2>2. eb <= b /\ b < eb + el /\ fb <= b /\ b < fb + fl OBVIOUS
  <2> HIDE DEF eb, el, fb, fl
  <2>3. ~(eb + el <= fb) BY <2>1, <2>2
  <2>4. ~(fb + fl <= eb) BY <2>1, <2>2
  <2> QED BY <2>3, <2>4 DEF EndsBy, eb, el, fb, fl
<1>7. m \in Nat /\ n \in Nat /\ k \in Nat /\ l \in Nat
  <2>1. leaves[m] \in Seq(Extent) /\ leaves[n] \in Seq(Extent)
    <3> HIDE DEF leaves
    <3> QED BY <1>0, ElementOfSeq
  <2>2. DOMAIN leaves[m] \subseteq Nat /\ DOMAIN leaves[n] \subseteq Nat BY <2>1, LenProperties
  <2> HIDE DEF leaves
  <2>3. m \in Nat /\ n \in Nat BY <1>0
  <2>4. k \in Nat BY <2>2
  <2>5. l \in Nat BY <2>2
  <2> QED BY <2>3, <2>4, <2>5
<1>8. m = n /\ k = l BY <1>5, <1>6, <1>7
<1> QED BY <1>2, <1>4, <1>8

\* The leaves are gathered one behind the other.
LEMMA GatherGoesOn ==
  ASSUME NEW i \in Images, NEW inode \in Inode, IsFile(i, inode),
         NEW m \in Nat, m + 1 <= Len(Leaves(i, inode)),
         NEW s \in Seq(Extent), InOrder(s), Elements(s) = Gathered(i, inode, m)
  PROVE  LET x == s \o Leaves(i, inode)[m + 1]
         IN  /\ x \in Seq(Extent) /\ InOrder(x)
             /\ Elements(x) = Gathered(i, inode, m + 1)
<1> DEFINE leaves == Leaves(i, inode)
           leaf == leaves[m + 1]
           x == s \o leaf
<1>0. leaves \in Seq(Seq(Extent)) /\ DOMAIN leaves = 1..Len(leaves) /\ Len(leaves) \in Nat
  BY LeavesType, LenProperties
<1>1. m + 1 \in DOMAIN leaves
  <2> HIDE DEF leaves
  <2> QED BY <1>0 DEF leaves
<1>2. leaf \in Seq(Extent)
  <2> HIDE DEF leaves
  <2> QED BY <1>0, <1>1, ElementOfSeq
<1> HIDE DEF leaf
<1>3. /\ x \in Seq(Extent) /\ Len(x) = Len(s) + Len(leaf)
      /\ \A k \in 1..Len(s) : x[k] = s[k]
      /\ \A k \in 1..Len(leaf) : x[Len(s) + k] = leaf[k]
  <2>1. /\ x \in Seq(Extent) /\ Len(x) = Len(s) + Len(leaf)
        /\ \A k \in 1..(Len(s) + Len(leaf)) :
             x[k] = IF k <= Len(s) THEN s[k] ELSE leaf[k - Len(s)]
    BY <1>2, ConcatProperties
  <2>2. Len(s) \in Nat /\ Len(leaf) \in Nat BY <1>2, LenProperties
  <2> HIDE DEF x
  <2>3. ASSUME NEW k \in 1..Len(s) PROVE x[k] = s[k] BY <2>1, <2>2
  <2>4. ASSUME NEW k \in 1..Len(leaf) PROVE x[Len(s) + k] = leaf[k]
    <3>1. Len(s) + k \in 1..(Len(s) + Len(leaf)) /\ ~(Len(s) + k <= Len(s))
          /\ Len(s) + k - Len(s) = k
      BY <2>2
    <3> QED BY <2>1, <3>1
  <2> QED BY <2>1, <2>3, <2>4
<1> HIDE DEF x
<1>4. /\ DOMAIN s = 1..Len(s) /\ DOMAIN leaf = 1..Len(leaf) /\ DOMAIN x = 1..Len(x)
      /\ Len(s) \in Nat /\ Len(leaf) \in Nat
  BY <1>2, <1>3, LenProperties
<1>5. \A k \in DOMAIN s, l \in DOMAIN leaf : EndsBy(s[k], leaf[l])
  <2> SUFFICES ASSUME NEW k \in DOMAIN s, NEW l \in DOMAIN leaf PROVE EndsBy(s[k], leaf[l])
    OBVIOUS
  <2>1. s[k] \in Gathered(i, inode, m) BY DEF Elements
  <2>2. PICK n \in 1..m : \E q \in DOMAIN leaves[n] : s[k] = leaves[n][q] BY <2>1, GatheredIn
  <2>3. PICK q \in DOMAIN leaves[n] : s[k] = leaves[n][q] BY <2>2
  <2>4. n \in DOMAIN leaves /\ n < m + 1
    <3> HIDE DEF leaves
    <3> QED BY <1>0, <1>1, <2>2
  <2> QED BY <1>1, <2>3, <2>4 DEF IsFile, leaf
<1>6. \A k, l \in DOMAIN leaf : k < l => EndsBy(leaf[k], leaf[l]) BY <1>1 DEF IsFile, leaf
<1>7. \A k \in DOMAIN x : \/ k \in DOMAIN s /\ x[k] = s[k]
                          \/ k - Len(s) \in DOMAIN leaf /\ x[k] = leaf[k - Len(s)]
  <2> SUFFICES ASSUME NEW k \in DOMAIN x, ~(k \in DOMAIN s)
               PROVE  k - Len(s) \in DOMAIN leaf /\ x[k] = leaf[k - Len(s)]
    BY <1>3, <1>4
  <2>1. k - Len(s) \in 1..Len(leaf) /\ Len(s) + (k - Len(s)) = k BY <1>3, <1>4
  <2> QED BY <1>3, <1>4, <2>1
<1>8. InOrder(x)
  <2> SUFFICES ASSUME NEW k \in DOMAIN x, NEW l \in DOMAIN x, k < l PROVE EndsBy(x[k], x[l])
    BY DEF InOrder
  <2>1. CASE l \in DOMAIN s
    <3>1. k \in DOMAIN s BY <1>3, <1>4, <2>1
    <3>2. x[k] = s[k] /\ x[l] = s[l] BY <1>3, <1>4, <2>1, <3>1
    <3> QED BY <2>1, <3>1, <3>2 DEF InOrder
  <2>2. CASE l \notin DOMAIN s /\ k \in DOMAIN s
    <3>1. x[k] = s[k] BY <1>3, <1>4, <2>2
    <3> QED BY <1>5, <1>7, <2>2, <3>1
  <2>3. CASE l \notin DOMAIN s /\ k \notin DOMAIN s
    <3>1. k - Len(s) < l - Len(s) BY <1>3, <1>4
    <3> QED BY <1>6, <1>7, <2>3, <3>1
  <2> QED BY <2>1, <2>2, <2>3
<1>9. Elements(x) = Gathered(i, inode, m + 1)
  <2>1. ASSUME NEW e \in Elements(x) PROVE e \in Gathered(i, inode, m + 1)
    <3>1. PICK k \in DOMAIN x : e = x[k] BY DEF Elements
    <3>2. CASE k \in DOMAIN s /\ x[k] = s[k]
      <4>1. e \in Gathered(i, inode, m) BY <3>1, <3>2 DEF Elements
      <4>2. PICK n \in 1..m : \E q \in DOMAIN leaves[n] : e = leaves[n][q] BY <4>1, GatheredIn
      <4>3. n \in 1..(m + 1) BY <4>2
      <4> QED BY <4>2, <4>3, GatheredIn
    <3>3. CASE k - Len(s) \in DOMAIN leaf /\ x[k] = leaf[k - Len(s)]
      <4>1. m + 1 \in 1..(m + 1) OBVIOUS
      <4> QED BY <3>1, <3>3, <4>1, GatheredIn DEF leaf
    <3> QED BY <1>7, <3>2, <3>3
  <2>2. ASSUME NEW e \in Gathered(i, inode, m + 1) PROVE e \in Elements(x)
    <3>1. PICK n \in 1..(m + 1) : \E q \in DOMAIN leaves[n] : e = leaves[n][q] BY GatheredIn
    <3>2. PICK q \in DOMAIN leaves[n] : e = leaves[n][q] BY <3>1
    <3>3. CASE n = m + 1
      <4>1. q \in DOMAIN leaf /\ e = leaf[q] BY <3>2, <3>3 DEF leaf
      <4>2. Len(s) + q \in DOMAIN x /\ e = x[Len(s) + q] BY <1>3, <1>4, <4>1
      <4> QED BY <4>2 DEF Elements
    <3>4. CASE n # m + 1
      <4>1. n \in 1..m BY <3>4
      <4>2. e \in Gathered(i, inode, m) BY <3>2, <4>1, GatheredIn
      <4>3. PICK k \in DOMAIN s : e = s[k] BY <4>2 DEF Elements
      <4>4. k \in DOMAIN x /\ x[k] = e BY <1>3, <1>4, <4>3
      <4> QED BY <4>4 DEF Elements
    <3> QED BY <3>3, <3>4
  <2> QED BY <2>1, <2>2
<1> QED BY <1>3, <1>8, <1>9 DEF x, leaf

-----------------------------------------------------------------------------
(* Copying the blocks of a file. *)

LEMMA Division ==
  ASSUME NEW n \in Nat \ {0}, NEW b \in Nat, NEW r \in 0..(n - 1)
  PROVE  (b * n + r) \div n = b /\ (b * n + r) % n = r
<1>1. n \in Int /\ n > 0 /\ b \in Int /\ b * n + r \in Int OBVIOUS
<1>2. (b * n + r) \div n = b BY <1>1
<1>3. (b * n + r) % n = r BY <1>1
<1> QED BY <1>2, <1>3

\* The extents of which there are blocks behind the first b.
Rest(i, inode, b) == {e \in ExtentsOf(i, inode) : e.block + e.len > b}

\* e is what is left of the extent f when the file's blocks before block b have been read, and
\* s is what is left of the extents w, of which only the first has been begun.
CutTo(e, f, b) == e.start = f.start + (b - f.block) /\ e.len = f.len - (b - f.block)
LeftOf(s, w, b) ==
  /\ Len(s) = Len(w)
  /\ \A k \in DOMAIN s : IF k = 1 THEN CutTo(s[1], w[1], b) ELSE s[k] = w[k]

\* Where a file has no hole the first extent that is left has its next block.
LEMMA FirstCovers ==
  ASSUME NEW i \in Whole, Dense(i), NEW ino \in Inos,
         NEW b \in Nat, b * BlockSize < InodeOf(i, ino).size,
         NEW w \in Seq(Extent), InOrder(w), Elements(w) = Rest(i, InodeOf(i, ino), b)
  PROVE  /\ Len(w) \in Nat \ {0} /\ 1 \in DOMAIN w
         /\ w[1] \in ExtentsOf(i, InodeOf(i, ino)) /\ w[1].written
         /\ w[1].block <= b /\ b < w[1].block + w[1].len
<1> DEFINE inode == InodeOf(i, ino)
           size == inode.size
<1>0. /\ i \in Images /\ inode \in Inode /\ IsFile(i, inode) /\ size \in Nat
      /\ BlockSize \in Nat \ {0}
  BY VolumeTypes, ImageAssumption DEF Inode, ImageAssumption
<1>1. (b * BlockSize) \div BlockSize = b
  <2>1. 0 \in 0..(BlockSize - 1) /\ b * BlockSize + 0 = b * BlockSize BY <1>0
  <2> QED BY <1>0, <2>1, Division
<1>2. b * BlockSize \in 0..(size - 1)
  <2>1. b * BlockSize \in Nat BY <1>0
  <2> HIDE DEF inode
  <2> QED BY <1>0, <2>1 DEF inode
<1>3. PICK x \in ExtentsOf(i, inode) : x.written /\ x.block <= b /\ b < x.block + x.len
  BY <1>1, <1>2 DEF Dense
<1> HIDE DEF inode
<1>4. x \in Rest(i, inode, b) BY <1>3 DEF Rest
<1>5. PICK k \in DOMAIN w : x = w[k] BY <1>4 DEF Elements, inode
<1>6. DOMAIN w = 1..Len(w) /\ Len(w) \in Nat BY LenProperties
<1>7. 1 \in DOMAIN w /\ Len(w) # 0 BY <1>5, <1>6
<1>8. w[1] \in ExtentsOf(i, inode) /\ w[1].block + w[1].len > b
  BY <1>7 DEF Elements, Rest, inode
<1>9. w[1].block \in Nat /\ w[1].len \in Nat /\ x.block \in Nat BY <1>0, <1>3, <1>8, ExtentTypes
<1>10. k = 1
  <2> SUFFICES ASSUME k # 1 PROVE FALSE OBVIOUS
  <2>1. 1 < k BY <1>5, <1>6
  <2>2. w[1].block + w[1].len <= x.block BY <1>5, <1>7, <2>1 DEF InOrder, EndsBy
  <2> QED BY <1>3, <1>8, <1>9, <2>2
<1> QED BY <1>3, <1>5, <1>6, <1>7, <1>10 DEF inode

\* Block b of a file: where it lies, and its bytes.
LEMMA BytesOfBlock ==
  ASSUME NEW i \in Images, NEW inode \in Inode, IsFile(i, inode), NEW b \in Nat,
         NEW e \in ExtentsOf(i, inode), e.written, e.block <= b, b < e.block + e.len
  PROVE  LET n == e.start + (b - e.block)
         IN  /\ n \in Nat /\ n < Len(Volume[i])
             /\ Volume[i][n + 1].kind = "data" /\ Volume[i][n + 1].bytes \in Seq(Byte)
             /\ Len(Volume[i][n + 1].bytes) = BlockSize
             /\ \A r \in 0..(BlockSize - 1) :
                  WrittenByte(i, inode, b * BlockSize + r) = Volume[i][n + 1].bytes[r + 1]
<1> DEFINE n == e.start + (b - e.block)
<1>0. e.block \in Nat /\ e.len \in Nat \ {0} /\ e.start \in Nat BY ExtentTypes
<1>1. n \in e.start..(e.start + e.len - 1) /\ n \in Nat BY <1>0
<1>2. /\ n < Len(Volume[i]) /\ Volume[i][n + 1].kind = "data"
      /\ Len(Volume[i][n + 1].bytes) = BlockSize
  BY <1>1 DEF IsFile
<1>3. Volume[i][n + 1].bytes \in Seq(Byte)
  <2>1. n + 1 \in 1..Len(Volume[i])
    <3> HIDE DEF n
    <3> QED BY <1>1, <1>2, ImageTypes
  <2> HIDE DEF n
  <2>2. Volume[i][n + 1] \in Cell BY <2>1, ImageTypes, ElementOfSeq
  <2> QED BY <1>2, <2>2, CellFields
<1>4. ASSUME NEW r \in 0..(BlockSize - 1)
      PROVE  WrittenByte(i, inode, b * BlockSize + r) = Volume[i][n + 1].bytes[r + 1]
  <2> DEFINE k == b * BlockSize + r
             here(c) == {x \in ExtentsOf(i, inode) : x.written /\ x.block <= c /\ c < x.block + x.len}
             at(x, c) == Volume[i][x.start + c - x.block + 1]
             byte(c, m) == IF here(c) = {} THEN ZeroByte
                           ELSE at((CHOOSE x \in here(c) : TRUE), c).bytes[m + 1]
  <2>1. k \div BlockSize = b /\ k % BlockSize = r
    BY ImageAssumption, Division DEF ImageAssumption
  <2> HIDE DEF k
  <2>2. WrittenByte(i, inode, k)
        = IF here(b) = {} THEN ZeroByte ELSE at((CHOOSE x \in here(b) : TRUE), b).bytes[r + 1]
    <3>1. WrittenByte(i, inode, k) = byte(k \div BlockSize, k % BlockSize) BY DEF WrittenByte
    <3> HIDE DEF byte
    <3>2. WrittenByte(i, inode, k) = byte(b, r) BY <2>1, <3>1
    <3> QED BY <3>2 DEF byte
  <2>3. e \in here(b) OBVIOUS
  <2>4. \A x \in here(b) : x = e BY ExtentsApart
  <2>5. (CHOOSE x \in here(b) : TRUE) = e
    <3> HIDE DEF here
    <3> QED BY <2>3, <2>4
  <2>6. at(e, b) = Volume[i][n + 1]
    <3>1. e.start + b - e.block + 1 = n + 1 BY <1>0
    <3> HIDE DEF n
    <3> QED BY <3>1
  <2>7. here(b) # {} BY <2>3
  <2> HIDE DEF here, at, n
  <2> QED BY <2>2, <2>5, <2>6, <2>7 DEF k
<1> QED BY <1>1, <1>2, <1>3, <1>4

\* What is left of the extents, piece by piece.
LEMMA AfterBlockAt ==
  ASSUME NEW s \in Seq(Extent), s # <<>>
  PROVE  LET x == AfterBlock(s)
         IN  /\ x \in Seq(Extent) /\ s[1].len \in Nat \ {0} /\ s[1].start \in Nat
             /\ s[1].len > 1 =>
                  /\ Len(x) = Len(s)
                  /\ x[1].start = s[1].start + 1 /\ x[1].len = s[1].len - 1
                  /\ \A k \in 2..Len(s) : x[k] = s[k]
             /\ s[1].len = 1 => Len(x) = Len(s) - 1 /\ \A k \in 1..(Len(s) - 1) : x[k] = s[k + 1]
<1> DEFINE x == AfterBlock(s)
           rest == [s[1] EXCEPT !.start = @ + 1, !.len = @ - 1]
<1>1. /\ Head(s) = s[1] /\ s[1] \in Extent /\ Tail(s) \in Seq(Extent)
      /\ Len(Tail(s)) = Len(s) - 1 /\ \A k \in 1..Len(Tail(s)) : Tail(s)[k] = s[k + 1]
      /\ Len(s) \in Nat \ {0}
  BY HeadTailProperties, EmptySeq, LenProperties
<1>2. s[1].len \in Nat \ {0} /\ s[1].start \in Nat BY <1>1 DEF Extent
<1>3. x \in Seq(Extent) BY AfterBlockType
<1>4. CASE s[1].len > 1
  <2>1. rest.start = s[1].start + 1 /\ rest.len = s[1].len - 1 /\ rest \in Extent
    <3>1. s[1].len - 1 \in Nat \ {0} /\ s[1].start + 1 \in Nat BY <1>2, <1>4
    <3> QED BY <1>1, <3>1 DEF Extent
  <2>2. x = <<rest>> \o Tail(s) BY <1>1, <1>4 DEF AfterBlock
  <2> HIDE DEF rest, x
  <2>3. <<rest>> \in Seq(Extent) /\ Len(<<rest>>) = 1 /\ <<rest>>[1] = rest BY <2>1
  <2>4. /\ Len(x) = 1 + Len(Tail(s))
        /\ \A k \in 1..(1 + Len(Tail(s))) :
             x[k] = IF k <= 1 THEN <<rest>>[k] ELSE Tail(s)[k - 1]
    BY <1>1, <2>2, <2>3, ConcatProperties
  <2>5. Len(x) = Len(s) BY <1>1, <2>4
  <2>6. x[1] = rest BY <1>1, <2>3, <2>4
  <2>7. ASSUME NEW k \in 2..Len(s) PROVE x[k] = s[k]
    <3>1. k \in 1..(1 + Len(Tail(s))) /\ ~(k <= 1) /\ k - 1 \in 1..Len(Tail(s)) /\ k - 1 + 1 = k
      BY <1>1
    <3> QED BY <1>1, <2>4, <3>1
  <2> QED BY <1>2, <1>3, <1>4, <2>1, <2>5, <2>6, <2>7 DEF x
<1>5. CASE s[1].len = 1
  <2>0. ~(Head(s).len > 1) BY <1>1, <1>5
  <2>1. x = Tail(s) BY <2>0 DEF AfterBlock
  <2> HIDE DEF x
  <2> QED BY <1>1, <1>2, <1>3, <1>5, <2>1 DEF x
<1>6. s[1].len > 1 \/ s[1].len = 1 BY <1>2
<1> QED BY <1>4, <1>5, <1>6

LEMMA IsLeft ==
  ASSUME NEW s, NEW w, NEW b, Len(s) = Len(w), CutTo(s[1], w[1], b),
         \A k \in DOMAIN s : k # 1 => s[k] = w[k]
  PROVE  LeftOf(s, w, b)
BY Zenon DEF LeftOf

\* What is left of the extents begins with the block that the file goes on with.
LEMMA LeftHead ==
  ASSUME NEW s \in Seq(Extent), NEW w \in Seq(Extent), NEW b, Len(w) # 0, LeftOf(s, w, b)
  PROVE  /\ s # <<>> /\ Head(s) = s[1]
         /\ s[1].start = w[1].start + (b - w[1].block)
         /\ s[1].len = w[1].len - (b - w[1].block)
<1>1. Len(s) # 0 /\ Len(s) \in Nat /\ DOMAIN s = 1..Len(s) BY LenProperties DEF LeftOf
<1>2. s # <<>> BY <1>1
<1>3. 1 \in DOMAIN s BY <1>1
<1> QED BY <1>2, <1>3, HeadTailProperties DEF LeftOf, CutTo

\* Reading a block leaves what is left when one block more has been read.
LEMMA LeftGoesOn ==
  ASSUME NEW i \in Whole, Dense(i), NEW ino \in Inos, NEW b \in Nat,
         b * BlockSize < InodeOf(i, ino).size,
         NEW w \in Seq(Extent), InOrder(w), Elements(w) = Rest(i, InodeOf(i, ino), b),
         NEW s \in Seq(Extent), LeftOf(s, w, b)
  PROVE  \E v \in Seq(Extent) :
           /\ InOrder(v) /\ Elements(v) = Rest(i, InodeOf(i, ino), b + 1)
           /\ (b + 1) * BlockSize < InodeOf(i, ino).size => LeftOf(AfterBlock(s), v, b + 1)
<1> DEFINE inode == InodeOf(i, ino)
           x == AfterBlock(s)
<1>0. i \in Images /\ inode \in Inode /\ IsFile(i, inode) BY VolumeTypes
<1>1. /\ Len(w) \in Nat \ {0} /\ 1 \in DOMAIN w /\ w[1] \in ExtentsOf(i, inode)
      /\ w[1].block <= b /\ b < w[1].block + w[1].len
  BY FirstCovers
<1>2. /\ w[1].block \in Nat /\ w[1].len \in Nat \ {0} /\ w[1].start \in Nat
      /\ \A e \in ExtentsOf(i, inode) : e.block \in Nat /\ e.len \in Nat \ {0}
  BY <1>0, <1>1, ExtentTypes
<1>3. /\ s # <<>> /\ s[1].start = w[1].start + (b - w[1].block)
      /\ s[1].len = w[1].len - (b - w[1].block)
  BY <1>1, LeftHead
<1>4. /\ x \in Seq(Extent)
      /\ s[1].len > 1 =>
           /\ Len(x) = Len(s) /\ x[1].start = s[1].start + 1 /\ x[1].len = s[1].len - 1
           /\ \A k \in 2..Len(s) : x[k] = s[k]
      /\ s[1].len = 1 => Len(x) = Len(s) - 1 /\ \A k \in 1..(Len(s) - 1) : x[k] = s[k + 1]
  BY <1>3, AfterBlockAt
<1>5. /\ Len(s) = Len(w) /\ DOMAIN s = 1..Len(s) /\ DOMAIN w = 1..Len(w)
      /\ DOMAIN x = 1..Len(x) /\ Len(x) \in Nat
      /\ \A k \in 2..Len(s) : s[k] = w[k]
  <2>1. Len(s) = Len(w) /\ DOMAIN s = 1..Len(s) BY LenProperties DEF LeftOf
  <2>2. DOMAIN w = 1..Len(w) BY LenProperties
  <2>3. DOMAIN x = 1..Len(x) /\ Len(x) \in Nat BY <1>4, LenProperties
  <2>4. \A k \in 2..Len(s) : k \in DOMAIN s /\ k # 1 BY <1>1, <2>1
  <2> QED BY <2>1, <2>2, <2>3, <2>4 DEF LeftOf
<1> DEFINE more == (b + 1) * BlockSize < inode.size
<1> SUFFICES \E v \in Seq(Extent) : /\ InOrder(v) /\ Elements(v) = Rest(i, inode, b + 1)
                                    /\ more => LeftOf(x, v, b + 1)
  OBVIOUS
<1> HIDE DEF x, inode, more
<1>6. \A e \in Rest(i, inode, b) : e = w[1] \/ \E k \in 2..Len(w) : e = w[k]
  <2> SUFFICES ASSUME NEW e \in Rest(i, inode, b), e # w[1] PROVE \E k \in 2..Len(w) : e = w[k]
    OBVIOUS
  <2>1. PICK k \in DOMAIN w : e = w[k] BY DEF Elements, inode
  <2>2. k \in 2..Len(w) BY <1>1, <1>5, <2>1
  <2> QED BY <2>1, <2>2
<1>7. \A k \in 2..Len(w) : /\ w[k] \in ExtentsOf(i, inode)
                           /\ w[1].block + w[1].len <= w[k].block
  <2> SUFFICES ASSUME NEW k \in 2..Len(w)
               PROVE  w[k] \in ExtentsOf(i, inode) /\ w[1].block + w[1].len <= w[k].block
    OBVIOUS
  <2>1. k \in DOMAIN w /\ 1 < k BY <1>1, <1>5
  <2>2. w[k] \in Rest(i, inode, b) BY <2>1 DEF Elements, inode
  <2> QED BY <1>1, <2>1, <2>2 DEF Rest, InOrder, EndsBy
<1>8. CASE s[1].len > 1
  <2>1. Rest(i, inode, b + 1) = Rest(i, inode, b)
    <3>1. ASSUME NEW e \in Rest(i, inode, b) PROVE e.block + e.len > b + 1
      <4>1. e \in ExtentsOf(i, inode) BY DEF Rest
      <4>2. CASE e = w[1] BY <1>1, <1>2, <1>3, <1>8, <4>2
      <4>3. ASSUME NEW k \in 2..Len(w), e = w[k] PROVE e.block + e.len > b + 1
        <5>1. w[1].block + w[1].len <= e.block BY <1>7, <4>3
        <5>2. e.block \in Nat /\ e.len \in Nat \ {0} BY <1>2, <4>1
        <5> QED BY <1>1, <1>2, <5>1, <5>2
      <4> QED BY <1>6, <4>2, <4>3
    <3>2. \A e \in ExtentsOf(i, inode) : e.block + e.len > b + 1 => e.block + e.len > b
      BY <1>2
    <3> QED BY <3>1, <3>2 DEF Rest
  <2>2. LeftOf(x, w, b + 1)
    <3>1. Len(x) = Len(w) BY <1>4, <1>5, <1>8
    <3>2. CutTo(x[1], w[1], b + 1)
      <4> DEFINE n == b - w[1].block
      <4>0. x[1].start = s[1].start + 1 /\ x[1].len = s[1].len - 1 BY <1>4, <1>8
      <4>1. (b + 1) - w[1].block = n + 1 /\ n \in Int
        <5> DEFINE m == w[1].block
        <5>1. m \in Int /\ b \in Int BY <1>2
        <5> HIDE DEF m
        <5>2. (b + 1) - m = (b - m) + 1 /\ b - m \in Int BY <5>1
        <5> QED BY <5>2 DEF m
      <4>2. s[1].start = w[1].start + n /\ s[1].len = w[1].len - n BY <1>3
      <4> HIDE DEF n
      <4>3. x[1].start = w[1].start + (n + 1)
        <5> DEFINE m == w[1].start
        <5>1. m \in Int BY <1>2
        <5>2. x[1].start = (m + n) + 1 BY <4>0, <4>2
        <5> HIDE DEF m
        <5>3. (m + n) + 1 = m + (n + 1) BY <4>1, <5>1
        <5> QED BY <5>2, <5>3 DEF m
      <4>4. x[1].len = w[1].len - (n + 1)
        <5> DEFINE m == w[1].len
        <5>1. m \in Int BY <1>2
        <5>2. x[1].len = (m - n) - 1 BY <4>0, <4>2
        <5> HIDE DEF m
        <5>3. (m - n) - 1 = m - (n + 1) BY <4>1, <5>1
        <5> QED BY <5>2, <5>3 DEF m
      <4> QED BY <4>1, <4>3, <4>4 DEF CutTo
    <3>3. \A k \in DOMAIN x : k # 1 => x[k] = w[k]
      <4> SUFFICES ASSUME NEW k \in DOMAIN x, k # 1 PROVE x[k] = w[k] OBVIOUS
      <4>1. k \in 2..Len(s) BY <1>5, <3>1
      <4> QED BY <1>4, <1>5, <1>8, <4>1
    <3> QED BY <3>1, <3>2, <3>3, IsLeft
  <2>3. Elements(w) = Rest(i, inode, b + 1) BY <2>1 DEF inode
  <2> WITNESS w \in Seq(Extent)
  <2> QED BY <2>2, <2>3
<1>9. CASE ~(s[1].len > 1)
  <2>1. s[1].len = 1 /\ w[1].block + w[1].len = b + 1
    <3> DEFINE wb == w[1].block  wl == w[1].len  sl == s[1].len
    <3>1. wb \in Int /\ wl \in Int /\ b \in Int /\ wb + wl > b BY <1>1, <1>2
    <3>2. sl = wl - (b - wb) /\ ~(sl > 1) BY <1>3, <1>9
    <3> HIDE DEF wb, wl, sl
    <3>3. sl = 1 /\ wb + wl = b + 1 BY <3>1, <3>2
    <3> QED BY <3>3 DEF wb, wl, sl
  <2>2. Len(x) = Len(w) - 1 /\ \A k \in DOMAIN x : k + 1 \in 2..Len(w) /\ x[k] = w[k + 1]
    <3>1. Len(x) = Len(w) - 1 BY <1>4, <1>5, <2>1
    <3>2. ASSUME NEW k \in DOMAIN x PROVE k + 1 \in 2..Len(w) /\ x[k] = w[k + 1]
      <4>1. k \in 1..(Len(s) - 1) /\ k + 1 \in 2..Len(s) BY <1>1, <1>5, <3>1
      <4>2. x[k] = s[k + 1] BY <1>4, <2>1, <4>1
      <4> QED BY <1>5, <4>1, <4>2
    <3> QED BY <3>1, <3>2
  <2>3. InOrder(x)
    <3> SUFFICES ASSUME NEW k \in DOMAIN x, NEW l \in DOMAIN x, k < l PROVE EndsBy(x[k], x[l])
      BY DEF InOrder
    <3>1. k + 1 \in DOMAIN w /\ l + 1 \in DOMAIN w /\ k + 1 < l + 1 BY <1>5, <2>2
    <3>2. EndsBy(w[k + 1], w[l + 1]) BY <3>1 DEF InOrder
    <3> QED BY <2>2, <3>2
  <2>4. Elements(x) = Rest(i, inode, b + 1)
    <3>1. ASSUME NEW e \in Elements(x) PROVE e \in Rest(i, inode, b + 1)
      <4>1. PICK k \in DOMAIN x : e = x[k] BY DEF Elements
      <4>2. k + 1 \in 2..Len(w) /\ e = w[k + 1] BY <2>2, <4>1
      <4>3. e \in ExtentsOf(i, inode) /\ b + 1 <= e.block BY <1>7, <2>1, <4>2
      <4>4. e.block + e.len > b + 1 BY <1>2, <4>3
      <4> QED BY <4>3, <4>4 DEF Rest
    <3>2. ASSUME NEW e \in Rest(i, inode, b + 1) PROVE e \in Elements(x)
      <4>1. e \in ExtentsOf(i, inode) /\ e.block + e.len > b + 1 BY DEF Rest
      <4>2. e \in Rest(i, inode, b) BY <1>2, <4>1 DEF Rest
      <4>3. e # w[1] BY <2>1, <4>1
      <4>4. PICK k \in 2..Len(w) : e = w[k] BY <1>6, <4>2, <4>3
      <4>5. k - 1 \in DOMAIN x /\ k - 1 + 1 = k BY <1>5, <2>2
      <4>6. x[k - 1] = e BY <2>2, <4>4, <4>5
      <4> QED BY <4>5, <4>6 DEF Elements
    <3> QED BY <3>1, <3>2
  <2>5. ASSUME more PROVE LeftOf(x, x, b + 1)
    <3>1. b + 1 \in Nat OBVIOUS
    <3>2. 1 \in DOMAIN x /\ x[1] \in ExtentsOf(i, inode) /\ x[1].block <= b + 1
      <4> HIDE DEF Dense
      <4> QED BY <1>4, <2>3, <2>4, <2>5, <3>1, FirstCovers DEF inode, more
    <3>3. 2 \in 2..Len(w) /\ x[1] = w[2]
      <4>1. 1 + 1 = 2 OBVIOUS
      <4> QED BY <2>2, <3>2, <4>1
    <3>4. b + 1 <= x[1].block BY <1>7, <2>1, <3>3
    <3>5. x[1].block \in Nat /\ x[1].len \in Nat /\ x[1].start \in Nat BY <1>0, <3>2, ExtentTypes
    <3>6. x[1].block = b + 1 BY <3>2, <3>4, <3>5
    <3>7. CutTo(x[1], x[1], b + 1) BY <3>5, <3>6 DEF CutTo
    <3> QED BY <3>7, IsLeft
  <2>6. x \in Seq(Extent) BY <1>4
  <2> WITNESS x \in Seq(Extent)
  <2> QED BY <2>3, <2>4, <2>5
<1> QED BY <1>8, <1>9

\* The bytes that are there are the first of the file, and while there are more to come whole
\* blocks have been read and the extents are what is left of the file's.
Copied(i, inode, s, left, out) ==
  /\ Len(out) + left = inode.size
  /\ \A k \in DOMAIN out : out[k] = WrittenByte(i, inode, k - 1)
  /\ left > 0 => \E b \in Nat, w \in Seq(Extent) :
       /\ Len(out) = b * BlockSize
       /\ InOrder(w) /\ Elements(w) = Rest(i, inode, b) /\ LeftOf(s, w, b)

LEMMA CopyBegins ==
  ASSUME NEW i \in Whole, Dense(i), NEW ino \in Inos,
         NEW s \in Seq(Extent), InOrder(s), Elements(s) = ExtentsOf(i, InodeOf(i, ino))
  PROVE  Copied(i, InodeOf(i, ino), s, InodeOf(i, ino).size, <<>>)
<1> DEFINE inode == InodeOf(i, ino)
<1>0. /\ i \in Images /\ inode \in Inode /\ IsFile(i, inode) /\ inode.size \in Nat
      /\ BlockSize \in Nat
  BY VolumeTypes, ImageAssumption DEF Inode, ImageAssumption
<1> HIDE DEF inode
<1>1. Elements(s) = Rest(i, inode, 0)
  <2>1. \A e \in ExtentsOf(i, inode) : e.block + e.len > 0
    <3> SUFFICES ASSUME NEW e \in ExtentsOf(i, inode) PROVE e.block + e.len > 0 OBVIOUS
    <3>1. e.block \in Nat /\ e.len \in Nat \ {0} BY <1>0, ExtentTypes
    <3> QED BY <3>1
  <2> QED BY <2>1 DEF Rest, inode
<1>2. ASSUME inode.size > 0 PROVE LeftOf(s, s, 0)
  <2>1. 0 * BlockSize < inode.size /\ 0 \in Nat BY <1>0, <1>2
  <2>2. s[1] \in ExtentsOf(i, inode) /\ s[1].block <= 0
    BY <1>1, <2>1, FirstCovers DEF inode
  <2>3. s[1].block = 0 /\ s[1].len \in Nat /\ s[1].start \in Nat
    <3>1. s[1].block \in Nat /\ s[1].len \in Nat /\ s[1].start \in Nat
      BY <1>0, <2>2, ExtentTypes
    <3> QED BY <2>2, <3>1
  <2>4. CutTo(s[1], s[1], 0) BY <2>3 DEF CutTo
  <2> QED BY <2>4, IsLeft
<1>3. Len(<<>>) = 0 /\ DOMAIN <<>> = {} OBVIOUS
<1>4. 0 \in Nat /\ 0 = 0 * BlockSize BY <1>0
<1>5. inode.size > 0 => \E b \in Nat, w \in Seq(Extent) :
        /\ 0 = b * BlockSize
        /\ InOrder(w) /\ Elements(w) = Rest(i, inode, b) /\ LeftOf(s, w, b)
  BY <1>1, <1>2, <1>4
<1>6. 0 + inode.size = inode.size BY <1>0
<1> QED BY <1>3, <1>5, <1>6 DEF Copied, inode

\* The part of a block of data that is copied: all of it, or what the file has left.
LEMMA PartAt ==
  ASSUME NEW c \in Cell, c.kind = "data", c.bytes \in Seq(Byte), Len(c.bytes) = BlockSize,
         NEW left \in Nat \ {0}
  PROVE  /\ Part(c, left) \in Seq(Byte)
         /\ Len(Part(c, left)) = IF left < BlockSize THEN left ELSE BlockSize
         /\ \A k \in 1..Len(Part(c, left)) : k - 1 \in 0..(BlockSize - 1) /\ Part(c, left)[k] = c.bytes[k]
<1> DEFINE n == IF left < BlockSize THEN left ELSE BlockSize
           bytes == c.bytes
<1>0. BlockSize \in Nat \ {0} BY ImageAssumption DEF ImageAssumption
<1>1. Part(c, left) = SubSeq(bytes, 1, n) BY DEF Part
<1>2. n \in Nat \ {0} /\ n <= BlockSize BY <1>0
<1> HIDE DEF n, bytes
<1>3. bytes \in Seq(Byte) /\ Len(bytes) = BlockSize BY DEF bytes
<1>4. \A k \in 1..n : bytes[k] \in Byte /\ k - 1 \in 0..(BlockSize - 1)
  <2>1. \A k \in 1..n : k \in 1..Len(bytes) BY <1>0, <1>2, <1>3
  <2>2. \A k \in 1..n : k - 1 \in 0..(BlockSize - 1) BY <1>0, <1>2
  <2> QED BY <1>3, <2>1, <2>2, ElementOfSeq
<1>5. /\ SubSeq(bytes, 1, n) \in Seq(Byte)
      /\ Len(SubSeq(bytes, 1, n)) = IF 1 <= n THEN n - 1 + 1 ELSE 0
      /\ \A k \in 1..n - 1 + 1 : SubSeq(bytes, 1, n)[k] = bytes[1 + k - 1]
  BY <1>2, <1>4, SubSeqProperties
<1>6. Len(SubSeq(bytes, 1, n)) = n BY <1>2, <1>5
<1>7. \A k \in 1..n : SubSeq(bytes, 1, n)[k] = bytes[k]
  <2> SUFFICES ASSUME NEW k \in 1..n PROVE SubSeq(bytes, 1, n)[k] = bytes[k] OBVIOUS
  <2>1. k \in 1..n - 1 + 1 /\ 1 + k - 1 = k BY <1>2
  <2> QED BY <1>5, <2>1
<1> QED BY <1>1, <1>4, <1>5, <1>6, <1>7 DEF n, bytes

\* A block is read where the file goes on, and what it holds is what comes next.
LEMMA CopyGoesOn ==
  ASSUME NEW i \in Whole, Dense(i), NEW ino \in Inos, NEW s \in Seq(Extent),
         NEW left \in Nat \ {0}, NEW out \in Seq(Byte), Copied(i, InodeOf(i, ino), s, left, out)
  PROVE  LET n == Head(s).start
             part == Part(Volume[i][n + 1], left)
         IN  /\ s # <<>> /\ n \in Nat /\ n < Len(Volume[i])
             /\ Volume[i][n + 1].kind = "data"
             /\ Copied(i, InodeOf(i, ino), AfterBlock(s), left - Len(part), out \o part)
<1> DEFINE inode == InodeOf(i, ino)
           n == Head(s).start
           c == Volume[i][n + 1]
           part == Part(c, left)
           y == out \o part
<1>0. /\ i \in Images /\ inode \in Inode /\ IsFile(i, inode) /\ inode.size \in Nat
      /\ BlockSize \in Nat \ {0} /\ Len(out) \in Nat /\ DOMAIN out = 1..Len(out)
  BY VolumeTypes, ImageAssumption, LenProperties DEF Inode, ImageAssumption
<1>1. PICK b \in Nat, w \in Seq(Extent) :
        /\ Len(out) = b * BlockSize
        /\ InOrder(w) /\ Elements(w) = Rest(i, inode, b) /\ LeftOf(s, w, b)
  BY DEF Copied
<1>2. Len(out) + left = inode.size /\ b * BlockSize < inode.size
  <2>1. Len(out) + left = inode.size BY DEF Copied
  <2> HIDE DEF inode
  <2> QED BY <1>0, <1>1, <2>1
<1>3. /\ Len(w) # 0 /\ w[1] \in ExtentsOf(i, inode) /\ w[1].written
      /\ w[1].block <= b /\ b < w[1].block + w[1].len
  BY <1>1, <1>2, FirstCovers
<1>4. s # <<>> /\ n = w[1].start + (b - w[1].block) BY <1>1, <1>3, LeftHead
<1> HIDE DEF n
<1>5. /\ n \in Nat /\ n < Len(Volume[i]) /\ c.kind = "data" /\ c.bytes \in Seq(Byte)
      /\ Len(c.bytes) = BlockSize
      /\ \A r \in 0..(BlockSize - 1) : WrittenByte(i, inode, b * BlockSize + r) = c.bytes[r + 1]
  <2> HIDE DEF inode
  <2> QED BY <1>0, <1>3, <1>4, BytesOfBlock
<1>6. c \in Cell
  <2>1. n + 1 \in 1..Len(Volume[i]) BY <1>0, <1>5, ImageTypes
  <2> QED BY <1>0, <2>1, ImageTypes, ElementOfSeq
<1> HIDE DEF c
<1>7. /\ part \in Seq(Byte) /\ Len(part) = IF left < BlockSize THEN left ELSE BlockSize
      /\ \A k \in 1..Len(part) : k - 1 \in 0..(BlockSize - 1) /\ part[k] = c.bytes[k]
  BY <1>5, <1>6, PartAt
<1>8. Len(part) \in Nat BY <1>0, <1>7
<1> HIDE DEF part, inode
<1>9. /\ y \in Seq(Byte) /\ Len(y) = Len(out) + Len(part)
      /\ \A k \in 1..(Len(out) + Len(part)) :
           y[k] = IF k <= Len(out) THEN out[k] ELSE part[k - Len(out)]
  BY <1>7, ConcatProperties
<1> HIDE DEF y
<1>10. \A k \in DOMAIN y : y[k] = WrittenByte(i, inode, k - 1)
  <2> SUFFICES ASSUME NEW k \in DOMAIN y PROVE y[k] = WrittenByte(i, inode, k - 1) OBVIOUS
  <2>0. k \in 1..(Len(out) + Len(part)) BY <1>9, LenProperties
  <2>1. CASE k <= Len(out)
    <3>1. k \in DOMAIN out /\ y[k] = out[k] BY <1>0, <1>9, <2>0, <2>1
    <3> QED BY <3>1 DEF Copied, inode
  <2>2. CASE ~(k <= Len(out))
    <3> DEFINE m == k - Len(out)
    <3>1. m \in 1..Len(part) /\ y[k] = part[m] BY <1>0, <1>8, <1>9, <2>0, <2>2
    <3>2. m - 1 \in 0..(BlockSize - 1) /\ part[m] = c.bytes[m] BY <1>7, <3>1
    <3>3. WrittenByte(i, inode, b * BlockSize + (m - 1)) = c.bytes[(m - 1) + 1]
      <4> HIDE DEF m
      <4> QED BY <1>5, <3>2
    <3>4. b * BlockSize + (m - 1) = k - 1 /\ (m - 1) + 1 = m
      <4>1. Len(out) + (m - 1) = k - 1 /\ (m - 1) + 1 = m BY <1>0, <2>0
      <4> QED BY <1>1, <4>1
    <3> HIDE DEF m
    <3> QED BY <3>1, <3>2, <3>3, <3>4
  <2> QED BY <2>1, <2>2
<1>11. Len(y) + (left - Len(part)) = inode.size BY <1>0, <1>2, <1>8, <1>9
<1>12. ASSUME left - Len(part) > 0
       PROVE  \E d \in Nat, v \in Seq(Extent) :
                /\ Len(y) = d * BlockSize
                /\ InOrder(v) /\ Elements(v) = Rest(i, inode, d) /\ LeftOf(AfterBlock(s), v, d)
  <2>1. Len(part) = BlockSize BY <1>0, <1>7, <1>12
  <2>2. Len(y) = (b + 1) * BlockSize
    <3>1. Len(y) = b * BlockSize + BlockSize BY <1>1, <1>9, <2>1
    <3>2. (b + 1) * BlockSize = b * BlockSize + BlockSize BY <1>0
    <3> QED BY <3>1, <3>2
  <2>3. (b + 1) * BlockSize < inode.size
    <3>1. Len(y) < inode.size BY <1>0, <1>8, <1>9, <1>11, <1>12
    <3> QED BY <2>2, <3>1
  <2>4. PICK v \in Seq(Extent) :
          /\ InOrder(v) /\ Elements(v) = Rest(i, inode, b + 1)
          /\ (b + 1) * BlockSize < inode.size => LeftOf(AfterBlock(s), v, b + 1)
    BY <1>1, <1>2, LeftGoesOn DEF inode
  <2>5. LeftOf(AfterBlock(s), v, b + 1)
    <3> DEFINE more == (b + 1) * BlockSize < inode.size
    <3>1. more /\ (more => LeftOf(AfterBlock(s), v, b + 1)) BY <2>3, <2>4
    <3> HIDE DEF more
    <3> QED BY <3>1
  <2> DEFINE d == b + 1
  <2>6. d \in Nat BY <1>1
  <2>7. /\ Len(y) = d * BlockSize
        /\ InOrder(v) /\ Elements(v) = Rest(i, inode, d) /\ LeftOf(AfterBlock(s), v, d)
    BY <2>2, <2>4, <2>5
  <2> HIDE DEF d
  <2> QED BY <2>6, <2>7
<1>13. Copied(i, inode, AfterBlock(s), left - Len(part), y)
  BY <1>10, <1>11, <1>12 DEF Copied
<1> QED BY <1>4, <1>5, <1>13 DEF n, c, part, y, inode

\* Once nothing is left, of the file or of its extents, the bytes are those of the file.
LEMMA CopyEnds ==
  ASSUME NEW i \in Whole, Dense(i), NEW ino \in Inos, NEW s \in Seq(Extent),
         NEW left \in Nat, NEW out \in Seq(Byte), Copied(i, InodeOf(i, ino), s, left, out),
         left = 0 \/ s = <<>>
  PROVE  out = WrittenFile(i, ino)
<1> DEFINE inode == InodeOf(i, ino)
<1>1. left = 0
  <2> SUFFICES ASSUME left # 0 PROVE FALSE OBVIOUS
  <2>1. left \in Nat \ {0} OBVIOUS
  <2>2. s # <<>> BY <2>1, CopyGoesOn
  <2> QED BY <2>2
<1>2. Len(out) = inode.size /\ DOMAIN out = 1..inode.size
  <2>1. Len(out) + left = inode.size BY DEF Copied
  <2>2. Len(out) \in Nat /\ DOMAIN out = 1..Len(out) BY LenProperties
  <2> HIDE DEF inode
  <2> QED BY <1>1, <2>1, <2>2
<1>3. \A k \in 1..inode.size : out[k] = WrittenByte(i, inode, k - 1) BY <1>2 DEF Copied
<1>4. out = [k \in DOMAIN out |-> out[k]]
  <2>1. out \in [1..Len(out) -> Byte] BY LenProperties
  <2> QED BY <2>1
<1> HIDE DEF inode
<1>5. out = [k \in 1..inode.size |-> WrittenByte(i, inode, k - 1)] BY <1>2, <1>3, <1>4
<1> QED BY <1>5 DEF WrittenFile, inode

-----------------------------------------------------------------------------
(* Gathering the extents of a file. *)

\* The extents of the first leaves are there, and the nodes of the others are still to come.
Begun(i, inode, nodes, s) ==
  \E m \in 0..Len(Leaves(i, inode)) :
    /\ InOrder(s) /\ Elements(s) = Gathered(i, inode, m)
    /\ inode.depth = 0 => m = 1 /\ nodes = <<>>
    /\ inode.depth # 0 => /\ Len(nodes) = Len(inode.children) - m
                          /\ \A k \in DOMAIN nodes : nodes[k] = inode.children[m + k]

LEMMA GatherBegins ==
  ASSUME NEW i \in Images, NEW inode \in Inode, IsFile(i, inode)
  PROVE  Begun(i, inode, inode.children, inode.extents)
<1> DEFINE leaves == Leaves(i, inode)
           s == inode.extents
<1>0. /\ leaves \in Seq(Seq(Extent)) /\ Len(leaves) \in Nat
      /\ s \in Seq(Extent) /\ inode.children \in Seq(Nat)
      /\ Len(inode.children) \in Nat /\ DOMAIN inode.children = 1..Len(inode.children)
      /\ Gathered(i, inode, 0) = {}
  <2>1. s \in Seq(Extent) /\ inode.children \in Seq(Nat) BY DEF Inode
  <2>2. Gathered(i, inode, 0) = {} BY GatheredIn
  <2> QED BY <2>1, <2>2, LeavesType, LenProperties
<1>1. CASE inode.depth = 0
  <2>1. Len(leaves) = 1 /\ leaves[1] = s /\ inode.children = <<>> BY <1>1, LeavesType DEF IsFile
  <2>2. InOrder(s)
    <3> SUFFICES ASSUME NEW k \in DOMAIN s, NEW l \in DOMAIN s, k < l PROVE EndsBy(s[k], s[l])
      BY DEF InOrder
    <3>1. DOMAIN leaves = 1..Len(leaves) BY <1>0, LenProperties
    <3>2. 1 \in DOMAIN leaves
      <4> HIDE DEF leaves
      <4> QED BY <2>1, <3>1
    <3> QED BY <2>1, <3>2 DEF IsFile
  <2>3. Elements(s) = Gathered(i, inode, 1)
    <3>1. ASSUME NEW e PROVE e \in Gathered(i, inode, 1) <=> \E k \in DOMAIN s : e = s[k]
      <4>1. \A n \in 1..1 : n = 1 OBVIOUS
      <4>2. 1 \in 1..1 OBVIOUS
      <4>3. e \in Gathered(i, inode, 1) <=>
              \E n \in 1..1 : \E k \in DOMAIN Leaves(i, inode)[n] : e = Leaves(i, inode)[n][k]
        BY GatheredIn
      <4> HIDE DEF s
      <4> QED BY <2>1, <4>1, <4>2, <4>3
    <3> HIDE DEF s
    <3> QED BY <3>1 DEF Elements
  <2>4. 1 \in 0..Len(leaves) BY <2>1
  <2> HIDE DEF leaves, s
  <2> QED BY <1>1, <2>1, <2>2, <2>3, <2>4 DEF Begun, leaves, s
<1>2. CASE inode.depth # 0
  <2>1. s = <<>> BY <1>2 DEF IsFile, Inode
  <2>2. InOrder(s) /\ Elements(s) = {} BY <2>1 DEF InOrder, Elements
  <2>3. /\ Len(inode.children) = Len(inode.children) - 0
        /\ \A k \in DOMAIN inode.children : 0 + k = k
    BY <1>0
  <2>4. 0 \in 0..Len(leaves) BY <1>0
  <2> HIDE DEF leaves, s
  <2> QED BY <1>0, <1>2, <2>2, <2>3, <2>4 DEF Begun, leaves, s
<1> QED BY <1>1, <1>2

\* The next node is one of the inode's, and its extents are those of the next leaf.
LEMMA GatherNode ==
  ASSUME NEW i \in Images, NEW inode \in Inode, IsFile(i, inode),
         NEW nodes \in Seq(Nat), nodes # <<>>, NEW s \in Seq(Extent), Begun(i, inode, nodes, s)
  PROVE  LET n == Head(nodes)
         IN  /\ n \in Nat /\ n < Len(Volume[i]) /\ Volume[i][n + 1].kind = "node"
             /\ Begun(i, inode, Tail(nodes), s \o Volume[i][n + 1].extents)
<1> DEFINE leaves == Leaves(i, inode)
           children == inode.children
           n == Head(nodes)
           x == s \o Volume[i][n + 1].extents
<1>0. /\ Len(leaves) \in Nat /\ Len(children) \in Nat /\ Len(nodes) \in Nat \ {0}
      /\ DOMAIN nodes = 1..Len(nodes) /\ n = nodes[1]
      /\ Tail(nodes) \in Seq(Nat) /\ Len(Tail(nodes)) = Len(nodes) - 1
      /\ \A k \in 1..Len(Tail(nodes)) : Tail(nodes)[k] = nodes[k + 1]
  <2>1. children \in Seq(Nat) BY DEF Inode
  <2> QED BY <2>1, LeavesType, LenProperties, EmptySeq, HeadTailProperties
<1>1. inode.depth # 0 BY DEF Begun
<1>2. PICK m \in 0..Len(leaves) :
        /\ InOrder(s) /\ Elements(s) = Gathered(i, inode, m)
        /\ Len(nodes) = Len(children) - m
        /\ \A k \in DOMAIN nodes : nodes[k] = children[m + k]
  BY <1>1 DEF Begun
<1>3. /\ Len(leaves) = Len(children)
      /\ \A q \in 1..Len(children) :
           /\ children[q] \in Nat /\ children[q] < Len(Volume[i])
           /\ Volume[i][children[q] + 1].kind = "node"
           /\ leaves[q] = Volume[i][children[q] + 1].extents
  BY <1>1, LeavesType
<1> HIDE DEF leaves, children, n
<1>4. m \in Nat /\ m + 1 \in 1..Len(children) /\ m + 1 <= Len(leaves) /\ 1 \in DOMAIN nodes
  BY <1>0, <1>2, <1>3
<1>5. n = children[m + 1] BY <1>0, <1>2, <1>4
<1>6. /\ n \in Nat /\ n < Len(Volume[i]) /\ Volume[i][n + 1].kind = "node"
      /\ leaves[m + 1] = Volume[i][n + 1].extents
  BY <1>3, <1>4, <1>5
<1>7. InOrder(x) /\ Elements(x) = Gathered(i, inode, m + 1)
  <2>1. x = s \o Leaves(i, inode)[m + 1] BY <1>6 DEF leaves
  <2> HIDE DEF x
  <2> QED BY <1>2, <1>4, <2>1, GatherGoesOn DEF leaves
<1>8. Len(Tail(nodes)) = Len(children) - (m + 1) BY <1>0, <1>2, <1>4
<1>9. ASSUME NEW k \in DOMAIN Tail(nodes) PROVE Tail(nodes)[k] = children[(m + 1) + k]
  <2>1. k \in 1..Len(Tail(nodes)) BY <1>0, LenProperties
  <2>2. k + 1 \in DOMAIN nodes
    <3> DEFINE a == Len(nodes)
    <3>1. a \in Nat \ {0} /\ k \in 1..(a - 1) BY <1>0, <2>1
    <3> HIDE DEF a
    <3>2. k + 1 \in 1..a BY <3>1
    <3> QED BY <1>0, <3>2 DEF a
  <2>3. m + (k + 1) = (m + 1) + k
    <3>1. k \in Int
      <4> DEFINE a == Len(Tail(nodes))
      <4>1. k \in 1..a BY <2>1
      <4> HIDE DEF a
      <4> QED BY <4>1
    <3> HIDE DEF n, x
    <3> QED BY <1>4, <3>1
  <2>4. Tail(nodes)[k] = nodes[k + 1] BY <1>0, <2>1
  <2> QED BY <1>2, <2>2, <2>3, <2>4
<1>10. m + 1 \in 0..Len(leaves) BY <1>4
<1> HIDE DEF x
<1>11. Begun(i, inode, Tail(nodes), x)
  BY <1>1, <1>7, <1>8, <1>9, <1>10 DEF Begun, leaves, children
<1> QED BY <1>6, <1>11 DEF n, x

LEMMA GatherEnds ==
  ASSUME NEW i \in Images, NEW inode \in Inode, IsFile(i, inode),
         NEW s \in Seq(Extent), Begun(i, inode, <<>>, s)
  PROVE  InOrder(s) /\ Elements(s) = ExtentsOf(i, inode)
<1> DEFINE N == Len(Leaves(i, inode))
<1>1. PICK m \in 0..N :
        /\ InOrder(s) /\ Elements(s) = Gathered(i, inode, m)
        /\ inode.depth = 0 => m = 1
        /\ inode.depth # 0 => Len(<<>>) = Len(inode.children) - m
  BY DEF Begun
<1>2. m = N
  <2>1. CASE inode.depth = 0 BY <1>1, <2>1, LeavesType
  <2>2. CASE inode.depth # 0
    <3>1. N = Len(inode.children) BY <2>2, LeavesType
    <3>2. inode.children \in Seq(Nat) BY DEF Inode
    <3>3. Len(inode.children) \in Nat BY <3>2, LenProperties
    <3>4. 0 = Len(inode.children) - m BY <1>1, <2>2
    <3> QED BY <1>1, <3>1, <3>3, <3>4
  <2> QED BY <2>1, <2>2
<1> QED BY <1>1, <1>2, GatheredAll

-----------------------------------------------------------------------------
(* Who holds the mutex while the mounted reader is used or made. *)

MutexInv ==
  /\ \A t \in {"ui", "extract"} : pc[t] \in ReadPcs => mutex = t
  /\ pc["ui"] \in MakePcs => mutex = "ui"

OthersStay(t) == \A u \in Threads \ {t} : pc'[u] = pc[u] /\ job'[u] = job[u]
Asks(t)       == \E path \in Paths : job'[t] = Read(path)

\* What a step of a thread is for the mutex and for what is read.
Moves(t) ==
  \/ mutex' = mutex /\ pc'[t] \notin ReadPcs \cup {"lock"} /\ (t = "ui" => pc'[t] \notin MakePcs)
  \/ mutex' = mutex /\ pc[t] \in MakePcs /\ pc'[t] \in MakePcs
  \/ mutex' = mutex /\ t = "live" /\ pc'[t] \in MakePcs
  \/ t = "ui" /\ mutex = "free" /\ mutex' = "ui" /\ pc'[t] = "header"
  \/ t = "ui" /\ pc[t] \in MakePcs /\ mutex' = "free" /\ pc'[t] = "idle"
  \/ t # "live" /\ pc[t] \in ReadPcs /\ mutex' = "free" /\ pc'[t] = "idle"
  \/ t = "ui" /\ pc[t] \in MakePcs /\ mutex' = "free" /\ pc'[t] = "lock" /\ Asks(t)
  \/ t # "live" /\ mutex' = mutex /\ pc'[t] = "lock" /\ Asks(t)
  \/ t = "live" /\ mutex' = mutex /\ pc'[t] = "inode" /\ Asks(t)
  \/ t = "extract" /\ pc[t] \in ReadPcs /\ mutex' = mutex /\ pc'[t] = "inode" /\ Asks(t)
  \/ /\ t # "live" /\ mutex = "free" /\ mutex' = t /\ pc[t] = "lock" /\ pc'[t] = "inode"
     /\ job'[t] = job[t]
  \/ mutex' = mutex /\ ReadStep(t) /\ pc[t] \in ReadPcs /\ pc'[t] \in ReadPcs

LEMMA MakingMoves ==
  ASSUME TypeOK, NEW t \in {"ui", "live"}, MakeStep(t) PROVE OthersStay(t) /\ Moves(t)
<1> DEFINE d == device[DeviceOf(t)]
<1>0. t \in Threads /\ pc[t] \in MakePcs
  BY DEF MakeStep, ReadsHeader, Indexes, TriesRaw, ReadsSuper, MakePcs, Threads
<1>1. CASE GivesUp(t) /\ UNCHANGED job
  <2>1. pc'[t] = "idle" /\ \A u \in Threads \ {t} : pc'[u] = pc[u] BY <1>0, <1>1, GivesUpShape
  <2>2. mutex' = IF t = "ui" THEN "free" ELSE mutex BY <1>1 DEF GivesUp
  <2> QED BY <1>0, <1>1, <2>1, <2>2 DEF OthersStay, Moves, ReadPcs, MakePcs
<1>2. ASSUME NEW place \in MakePcs, Goto(t, place), UNCHANGED <<job, mutex>>
      PROVE  OthersStay(t) /\ Moves(t)
  <2>1. pc'[t] = place /\ \A u \in Threads \ {t} : pc'[u] = pc[u]
    BY <1>0, <1>2, GotoMoves DEF Pcs
  <2> QED BY <1>0, <1>2, <2>1 DEF OthersStay, Moves
<1>3. CASE UNCHANGED <<pc, job, mutex>> BY <1>0, <1>3 DEF OthersStay, Moves
<1>4. CASE ReadsHeader(t)
  <2>1. (Goto(t, "index") \/ Goto(t, "raw")) /\ UNCHANGED <<job, mutex>> BY <1>4 DEF ReadsHeader
  <2> QED BY <1>2, <2>1 DEF MakePcs
<1>5. CASE Indexes(t)
  <2>1. UNCHANGED <<job, mutex>> /\ (Goto(t, "super") \/ Goto(t, "raw") \/ UNCHANGED pc)
    BY <1>5 DEF Indexes
  <2> QED BY <1>2, <1>3, <2>1 DEF MakePcs
<1>6. CASE TriesRaw(t)
  <2>1. UNCHANGED job /\ ((Goto(t, "super") /\ UNCHANGED mutex) \/ GivesUp(t)) BY <1>6 DEF TriesRaw
  <2> QED BY <1>1, <1>2, <2>1 DEF MakePcs
<1>7. CASE ReadsSuper(t)
  <2> DEFINE c == Block(d, 0)
  <2>1. CASE c.kind = "super"
    <3>1. /\ Goto(t, IF t = "ui" THEN "lock" ELSE "inode")
          /\ mutex' = IF t = "ui" THEN "free" ELSE mutex
          /\ \E path \in Paths : job' = [job EXCEPT ![t] = Read(path)]
      BY <1>7, <2>1 DEF ReadsSuper
    <3>2. PICK path \in Paths : job' = [job EXCEPT ![t] = Read(path)] BY <3>1
    <3>3. job'[t] = Read(path) /\ \A u \in Threads \ {t} : job'[u] = job[u]
      BY <1>0, <3>2 DEF TypeOK
    <3>4. /\ pc'[t] = IF t = "ui" THEN "lock" ELSE "inode"
          /\ \A u \in Threads \ {t} : pc'[u] = pc[u]
      <4>1. (IF t = "ui" THEN "lock" ELSE "inode") \in Pcs BY DEF Pcs, ReadPcs
      <4> QED BY <1>0, <3>1, <4>1, GotoMoves
    <3>5. OthersStay(t) /\ Asks(t) BY <3>3, <3>4 DEF OthersStay, Asks
    <3> QED BY <1>0, <3>1, <3>4, <3>5 DEF Moves
  <2>2. CASE c.kind # "super" BY <1>1, <1>7, <2>2 DEF ReadsSuper
  <2> QED BY <2>1, <2>2
<1> QED BY <1>4, <1>5, <1>6, <1>7 DEF MakeStep

LEMMA StepMoves ==
  ASSUME TypeOK, [Next]_vars
  PROVE  \/ UNCHANGED <<pc, job, mutex>>
         \/ \E t \in Threads : OthersStay(t) /\ Moves(t)
<1>0. "ui" \in Threads /\ "live" \in Threads /\ "extract" \in Threads BY DEF Threads
<1>1. CASE \/ UiSelects \/ UiReopens \/ UiVerifies \/ UiCloses \/ UiUnmounts \/ LiveThrows
  <2>1. /\ UNCHANGED <<job, mutex>>
        /\ \E place \in {"reopen", "idle", "verify", "remount", "unmount", "dead"} :
             Goto("ui", place)
    BY <1>1 DEF UiSelects, UiReopens, UiVerifies, UiCloses, UiUnmounts, LiveThrows
  <2>2. /\ pc'["ui"] \in {"reopen", "idle", "verify", "remount", "unmount", "dead"}
        /\ \A u \in Threads \ {"ui"} : pc'[u] = pc[u]
    BY <1>0, <2>1, GotoMoves DEF Pcs
  <2>3. OthersStay("ui") /\ Moves("ui") BY <2>1, <2>2 DEF OthersStay, Moves, ReadPcs, MakePcs
  <2> QED BY <1>0, <2>3
<1>2. CASE UiRemounts
  <2>1. UNCHANGED job /\ Goto("ui", "header") /\ mutex = "free" /\ mutex' = "ui"
    BY <1>2 DEF UiRemounts
  <2>2. pc'["ui"] = "header" /\ \A u \in Threads \ {"ui"} : pc'[u] = pc[u]
    BY <1>0, <2>1, GotoMoves DEF Pcs, MakePcs
  <2>3. OthersStay("ui") /\ Moves("ui") BY <2>1, <2>2 DEF OthersStay, Moves
  <2> QED BY <1>0, <2>3
<1>3. ASSUME NEW t \in {"ui", "live"}, MakeStep(t)
      PROVE  \E u \in Threads : OthersStay(u) /\ Moves(u)
  <2>1. t \in Threads BY DEF Threads
  <2> QED BY <1>3, <2>1, MakingMoves
<1>4. ASSUME NEW t \in Threads, ReadStep(t) PROVE OthersStay(t) /\ Moves(t)
  <2>1. /\ pc[t] \in ReadPcs /\ pc'[t] \in ReadPcs \cup {"idle"}
        /\ \A u \in Threads \ {t} : pc'[u] = pc[u] /\ job'[u] = job[u]
    BY <1>4, ReadSeen
  <2>2. CASE Returns(t)
    <3>1. pc'[t] = "idle" BY <2>2, GotoMoves DEF Returns, Pcs
    <3>2. mutex' = IF t = "live" THEN mutex ELSE "free" BY <2>2 DEF Returns
    <3> QED BY <2>1, <3>1, <3>2 DEF OthersStay, Moves, ReadPcs, MakePcs
  <2>3. CASE ~Returns(t)
    <3>1. /\ UNCHANGED mutex
          /\ UNCHANGED pc \/ \E place \in ReadPcs : Goto(t, place)
      BY <1>4, <2>3 DEF ReadStep, ReadsInode, ReadsNode, HasExtents, ReadsBlock, EndsFile, ReadPcs
    <3>2. pc'[t] \in ReadPcs BY <2>1, <3>1, GotoMoves DEF Pcs
    <3> QED BY <1>4, <2>1, <3>1, <3>2 DEF OthersStay, Moves
  <2> QED BY <2>2, <2>3
<1>5. ASSUME NEW t \in {"ui", "extract"}, Locks(t)
      PROVE  t \in Threads /\ OthersStay(t) /\ Moves(t)
  <2>1. t \in Threads /\ UNCHANGED job /\ pc[t] = "lock" /\ mutex = "free"
    BY <1>5 DEF Locks, Threads
  <2>2. \/ Goto(t, "idle") /\ UNCHANGED mutex
        \/ Goto(t, "inode") /\ mutex' = t
    BY <1>5 DEF Locks
  <2>3. /\ \/ pc'[t] = "idle" /\ UNCHANGED mutex
           \/ pc'[t] = "inode" /\ mutex' = t
        /\ \A u \in Threads \ {t} : pc'[u] = pc[u]
    BY <2>1, <2>2, GotoMoves DEF Pcs, ReadPcs
  <2> QED BY <2>1, <2>3 DEF OthersStay, Moves, ReadPcs, MakePcs
<1>6. ASSUME NEW path \in Paths, UiBrowses(path) \/ ExtractBegins(path)
      PROVE  \E t \in Threads : OthersStay(t) /\ Moves(t)
  <2>1. PICK t \in {"ui", "extract"} :
          /\ Goto(t, "lock") /\ UNCHANGED mutex /\ job' = [job EXCEPT ![t] = Read(path)]
    BY <1>6 DEF UiBrowses, ExtractBegins, Begins
  <2>2. t \in Threads BY <1>0
  <2>3. pc'[t] = "lock" /\ \A u \in Threads \ {t} : pc'[u] = pc[u]
    BY <2>1, <2>2, GotoMoves DEF Pcs
  <2>4. job'[t] = Read(path) /\ \A u \in Threads \ {t} : job'[u] = job[u]
    BY <2>1, <2>2 DEF TypeOK
  <2>5. OthersStay(t) /\ Asks(t) BY <2>3, <2>4 DEF OthersStay, Asks
  <2> QED BY <2>1, <2>2, <2>3, <2>5 DEF Moves
<1>7. ASSUME NEW path \in Paths, ExtractGoesOn(path)
      PROVE  OthersStay("extract") /\ Moves("extract")
  <2>1. /\ pc["extract"] = "done" /\ Goto("extract", "inode") /\ UNCHANGED mutex
        /\ job' = [job EXCEPT !["extract"] = Read(path)]
    BY <1>7 DEF ExtractGoesOn
  <2>2. pc'["extract"] = "inode" /\ \A u \in Threads \ {"extract"} : pc'[u] = pc[u]
    BY <1>0, <2>1, GotoMoves DEF Pcs, ReadPcs
  <2>3. job'["extract"] = Read(path) /\ \A u \in Threads \ {"extract"} : job'[u] = job[u]
    BY <1>0, <2>1 DEF TypeOK
  <2>4. OthersStay("extract") /\ Asks("extract") BY <2>2, <2>3 DEF OthersStay, Asks
  <2> QED BY <2>1, <2>2, <2>4 DEF Moves, ReadPcs
<1>8. CASE LiveBegins
  <2>1. Goto("live", "header") /\ UNCHANGED mutex /\ job' = [job EXCEPT !["live"] = Read(<<>>)]
    BY <1>8 DEF LiveBegins, Begins
  <2>2. pc'["live"] = "header" /\ \A u \in Threads \ {"live"} : pc'[u] = pc[u]
    BY <1>0, <2>1, GotoMoves DEF Pcs, MakePcs
  <2>3. \A u \in Threads \ {"live"} : job'[u] = job[u] BY <2>1 DEF TypeOK
  <2>4. OthersStay("live") /\ Moves("live") BY <2>1, <2>2, <2>3 DEF OthersStay, Moves, MakePcs
  <2> QED BY <1>0, <2>4
<1>9. CASE UNCHANGED vars BY <1>9 DEF vars, threads
<1> QED BY <1>0, <1>1, <1>2, <1>3, <1>4, <1>5, <1>6, <1>7, <1>8, <1>9, StepCases

LEMMA MutexStep == ASSUME TypeOK, MutexInv, [Next]_vars PROVE MutexInv'
<1>1. CASE UNCHANGED <<pc, job, mutex>> BY <1>1 DEF MutexInv
<1>2. ASSUME NEW t \in Threads, OthersStay(t), Moves(t) PROVE MutexInv'
  <2>1. ASSUME NEW u \in {"ui", "extract"}, pc'[u] \in ReadPcs PROVE mutex' = u
    <3>1. u \in Threads BY DEF Threads
    <3>2. CASE u = t BY <1>2, <2>1, <3>2 DEF Moves, MutexInv, ReadPcs, MakePcs
    <3>3. CASE u # t
      <4>1. mutex = u BY <1>2, <2>1, <3>1, <3>3 DEF OthersStay, MutexInv
      <4> QED BY <1>2, <2>1, <3>3, <4>1 DEF Moves, MutexInv, Threads
    <3> QED BY <3>2, <3>3
  <2>2. ASSUME pc'["ui"] \in MakePcs PROVE mutex' = "ui"
    <3>1. "ui" \in Threads BY DEF Threads
    <3>2. CASE t = "ui" BY <1>2, <2>2, <3>2 DEF Moves, MutexInv, ReadPcs, MakePcs
    <3>3. CASE t # "ui"
      <4>1. mutex = "ui" BY <1>2, <2>2, <3>1, <3>3 DEF OthersStay, MutexInv
      <4> QED BY <1>2, <2>2, <3>3, <4>1 DEF Moves, MutexInv, Threads
    <3> QED BY <3>2, <3>3
  <2> QED BY <2>1, <2>2 DEF MutexInv
<1> QED BY <1>1, <1>2, StepMoves

-----------------------------------------------------------------------------
(* What a step does to the devices. *)

\* A block of a device that has a whole image is as it was written.
LEMMA BlockRight ==
  ASSUME NEW d \in Device, NEW i \in Whole, Matches(d, i), d.kind # "none",
         d.kind = "sparse" => d.left = 0, Behind(d.fd) = i, NEW n \in Nat, n < Len(Volume[i])
  PROVE  Block(d, n) = Volume[i][n + 1]
<1>1. i \in Images BY ImageAssumption DEF ImageAssumption
<1>2. d.kind \in {"sparse", "raw"} BY DEF Device
<1> QED BY <1>1, <1>2, SparseRight, RawRight

\* The step that ends the making of d: it has read the superblock.
HasSuper(f) ==
  LET d == device[f]
      c == Block(d, 0)
  IN  /\ pc[MakerOf(f)] = "super" /\ c.kind = "super"
      /\ device'[f].seen = d.seen \cup {Behind(d.fd)} /\ device'[f].table = c.table
      /\ device'[f].kind = d.kind

\* A device stays as it is, is made by its maker, or is given up.
DeviceStep(f) ==
  LET t == MakerOf(f)
  IN  \/ device'[f] = device[f] /\ (pc[t] \in MakePcs => pc'[t] \in MakePcs)
      \/ device'[f].seen = {} /\ f = "mount" /\ mutex = "free"
      \/ device'[f].seen = {} /\ pc[t] \in MakePcs
      \/ device'[f].seen = {} /\ f = "live" /\ (pc[t] \notin ReadPcs \/ pc'[t] = "idle")
      \/ pc[t] \in MakePcs /\ pc'[t] \in MakePcs
      \/ HasSuper(f)

LEMMA MakingDevice ==
  ASSUME TypeOK, NEW t \in {"ui", "live"}, MakeStep(t) PROVE DeviceStep(DeviceOf(t))
<1> DEFINE f == DeviceOf(t)
           d == device[f]
<1>0. t \in Threads /\ MakerOf(f) = t /\ pc[t] \in MakePcs /\ d \in Device
  <2>1. t \in Threads /\ MakerOf(f) = t BY DEF Threads, MakerOf, DeviceOf
  <2>2. pc[t] \in MakePcs BY DEF MakeStep, ReadsHeader, Indexes, TriesRaw, ReadsSuper, MakePcs
  <2> QED BY <2>1, <2>2, ThreadTypes
<1> HIDE DEF f
<1>1. CASE GivesUp(t)
  <2>1. device'[f] = NoDevice BY <1>0, <1>1, GivesUpShape DEF f
  <2>2. device'[f].seen = {} BY <2>1 DEF NoDevice
  <2> QED BY <1>0, <2>2 DEF DeviceStep, f
<1>2. ASSUME NEW place \in MakePcs, Goto(t, place) PROVE DeviceStep(f)
  <2>1. pc'[t] = place BY <1>0, <1>2, GotoMoves DEF Pcs
  <2> QED BY <1>0, <2>1 DEF DeviceStep
<1>3. CASE UNCHANGED pc BY <1>0, <1>3 DEF DeviceStep, f
<1>4. CASE ReadsHeader(t)
  <2>1. Goto(t, "index") \/ Goto(t, "raw") BY <1>4 DEF ReadsHeader
  <2> QED BY <1>2, <2>1 DEF MakePcs, f
<1>5. CASE Indexes(t)
  <2>1. Goto(t, "super") \/ Goto(t, "raw") \/ UNCHANGED pc BY <1>5 DEF Indexes
  <2> QED BY <1>2, <1>3, <2>1 DEF MakePcs, f
<1>6. CASE TriesRaw(t)
  <2>1. Goto(t, "super") \/ GivesUp(t) BY <1>6 DEF TriesRaw
  <2> QED BY <1>1, <1>2, <2>1 DEF MakePcs, f
<1>7. CASE ReadsSuper(t)
  <2> DEFINE c == Block(d, 0)
             e == [d EXCEPT !.table = c.table]
  <2>1. CASE c.kind = "super"
    <3>1. c \in Cell BY <1>0, BlockType
    <3>2. c.table \in Nat BY <2>1, <3>1, CellFields
    <3>3. Makes(t, e) BY <1>7, <2>1 DEF ReadsSuper, f
    <3> HIDE DEF c
    <3>4. e \in Device /\ e.seen = d.seen /\ e.fd = d.fd /\ e.table = c.table /\ e.kind = d.kind
      BY <1>0, <3>2 DEF Device
    <3> HIDE DEF e
    <3>5. /\ device'[f].seen = d.seen \cup {Behind(d.fd)} /\ device'[f].table = c.table
          /\ device'[f].kind = d.kind
      BY <1>0, <3>3, <3>4, MakesShape DEF f
    <3>6. pc[t] = "super" BY <1>7 DEF ReadsSuper
    <3>7. HasSuper(f) BY <1>0, <2>1, <3>5, <3>6 DEF HasSuper, c
    <3> QED BY <3>7 DEF DeviceStep, f
  <2>2. CASE c.kind # "super" BY <1>1, <1>7, <2>2 DEF ReadsSuper, f
  <2> QED BY <2>1, <2>2
<1> QED BY <1>4, <1>5, <1>6, <1>7 DEF MakeStep, f

LEMMA MakingElsewhere ==
  ASSUME TypeOK, NEW t \in {"ui", "live"}, MakeStep(t), NEW f \in Devices, f # DeviceOf(t)
  PROVE  device'[f] = device[f]
<1>1. UNCHANGED device \/ \E e : device' = [device EXCEPT ![DeviceOf(t)] = e]
  BY DEF MakeStep, ReadsHeader, Indexes, TriesRaw, ReadsSuper, Makes, GivesUp
<1> QED BY <1>1 DEF TypeOK, Devices

LEMMA DeviceSteps == ASSUME TypeOK, [Next]_vars, NEW f \in Devices PROVE DeviceStep(f)
<1> DEFINE t == MakerOf(f)
<1>0. /\ t \in {"ui", "live"} /\ t \in Threads /\ DeviceOf(t) = f
      /\ "ui" \in Threads /\ "live" \in Threads /\ "extract" \in Threads
  BY DEF MakerOf, DeviceOf, Devices, Threads
\* Where a device stays as it is, so must the maker's place, or go where no device is made.
<1>1. ASSUME device'[f] = device[f], NEW u \in Threads,
             OthersStay(u) \/ (\A v \in Threads \ {u} : pc'[v] = pc[v]), u # t \/ pc[u] \notin MakePcs
      PROVE  DeviceStep(f)
  <2>1. pc[t] \in MakePcs => pc'[t] \in MakePcs BY <1>0, <1>1 DEF OthersStay
  <2> QED BY <1>1, <2>1 DEF DeviceStep
<1>2. CASE \/ UiSelects \/ UiReopens \/ UiVerifies \/ UiCloses \/ LiveThrows
  <2>1. /\ UNCHANGED device
        /\ \E place \in {"reopen", "idle", "verify", "remount", "unmount", "dead"} :
             Goto("ui", place)
        /\ pc["ui"] \notin MakePcs
    BY <1>2 DEF UiSelects, UiReopens, UiVerifies, UiCloses, LiveThrows, MakePcs
  <2>2. \A u \in Threads \ {"ui"} : pc'[u] = pc[u] BY <1>0, <2>1, GotoMoves DEF Pcs
  <2> QED BY <1>0, <1>1, <2>1, <2>2
<1>3. ASSUME NEW d \in Device, d.seen = {}, UiRemounts \/ UiUnmounts,
             device' = [device EXCEPT !["mount"] = d]
      PROVE  DeviceStep(f)
  <2>1. "mount" \in Devices BY DEF Devices
  <2>2. device'["mount"] = d /\ \A g \in Devices \ {"mount"} : device'[g] = device[g]
    BY <1>3, <2>1, DeviceMoves
  <2>3. CASE f = "mount"
    <3>1. mutex = "free" BY <1>3 DEF UiRemounts, UiUnmounts
    <3> QED BY <1>3, <2>2, <2>3, <3>1 DEF DeviceStep
  <2>4. CASE f # "mount"
    <3>1. /\ pc["ui"] \notin MakePcs
          /\ Goto("ui", "header") \/ Goto("ui", "idle")
      BY <1>3 DEF UiRemounts, UiUnmounts, MakePcs
    <3>2. \A u \in Threads \ {"ui"} : pc'[u] = pc[u]
      BY <1>0, <3>1, GotoMoves DEF Pcs, MakePcs
    <3> QED BY <1>0, <1>1, <2>2, <2>4, <3>1, <3>2
  <2> QED BY <2>3, <2>4
<1>4. CASE UiRemounts
  <2> DEFINE d == [NoDevice EXCEPT !.fd = active]
  <2>1. device' = [device EXCEPT !["mount"] = d] BY <1>4 DEF UiRemounts
  <2>2. d \in Device /\ d.seen = {} BY NoDeviceType DEF NoDevice, TypeOK
  <2> HIDE DEF d
  <2> QED BY <1>3, <1>4, <2>1, <2>2
<1>5. CASE UiUnmounts
  <2>1. device' = [device EXCEPT !["mount"] = NoDevice] BY <1>5 DEF UiUnmounts
  <2>2. NoDevice.seen = {} BY DEF NoDevice
  <2> QED BY <1>3, <1>5, <2>1, <2>2, NoDeviceType
<1>6. ASSUME NEW u \in {"ui", "live"}, MakeStep(u) PROVE DeviceStep(f)
  <2>1. u \in Threads /\ DeviceOf(u) \in Devices BY DEF Threads, DeviceOf, Devices
  <2>2. CASE u = t BY <1>0, <1>6, <2>2, MakingDevice
  <2>3. CASE u # t
    <3>1. DeviceOf(u) # f BY <1>0, <2>3 DEF MakerOf, DeviceOf
    <3>2. device'[f] = device[f] BY <1>6, <2>1, <3>1, MakingElsewhere
    <3>3. OthersStay(u) BY <1>6, MakingMoves
    <3> QED BY <1>1, <2>1, <2>3, <3>2, <3>3
  <2> QED BY <2>2, <2>3
<1>7. ASSUME NEW u \in Threads, ReadStep(u) PROVE DeviceStep(f)
  <2>1. /\ pc[u] \in ReadPcs /\ \A v \in Threads \ {u} : pc'[v] = pc[v] BY <1>7, ReadSeen
  <2>2. pc[u] \notin MakePcs BY <2>1 DEF MakePcs, ReadPcs
  <2>3. CASE UNCHANGED device BY <1>1, <2>1, <2>2, <2>3
  <2>4. CASE ~UNCHANGED device
    <3>1. Returns(u) /\ u = "live"
      BY <1>7, <2>4 DEF ReadStep, ReadsInode, ReadsNode, HasExtents, ReadsBlock, EndsFile, Returns
    <3>2. device' = [device EXCEPT !["live"] = NoDevice] BY <3>1 DEF Returns
    <3>3. "live" \in Devices BY DEF Devices
    <3>4. device'["live"] = NoDevice /\ \A g \in Devices \ {"live"} : device'[g] = device[g]
      BY <3>2, <3>3, NoDeviceType, DeviceMoves
    <3>5. CASE f = "live"
      <4>1. t = "live" /\ pc'[t] = "idle" /\ NoDevice.seen = {}
        BY <1>0, <3>1, <3>5, GotoMoves DEF Returns, Pcs, MakerOf, NoDevice
      <4> QED BY <3>4, <3>5, <4>1 DEF DeviceStep
    <3>6. CASE f # "live" BY <1>1, <2>1, <2>2, <3>4, <3>6
    <3> QED BY <3>5, <3>6
  <2> QED BY <2>3, <2>4
<1>8. ASSUME NEW u \in {"ui", "extract"}, Locks(u) PROVE DeviceStep(f)
  <2>1. u \in Threads /\ UNCHANGED device /\ pc[u] \notin MakePcs /\ (Goto(u, "idle") \/ Goto(u, "inode"))
    BY <1>8 DEF Locks, Threads, MakePcs
  <2>2. \A v \in Threads \ {u} : pc'[v] = pc[v] BY <2>1, GotoMoves DEF Pcs, ReadPcs
  <2> QED BY <1>1, <2>1, <2>2
<1>9. ASSUME NEW path \in Paths, UiBrowses(path) \/ ExtractBegins(path) \/ ExtractGoesOn(path)
      PROVE  DeviceStep(f)
  <2>1. PICK u \in {"ui", "extract"} :
          (Goto(u, "lock") \/ Goto(u, "inode")) /\ UNCHANGED device /\ pc[u] \notin MakePcs
    BY <1>9 DEF UiBrowses, ExtractBegins, Begins, ExtractGoesOn, MakePcs
  <2>2. u \in Threads BY <1>0
  <2>3. \A v \in Threads \ {u} : pc'[v] = pc[v] BY <2>1, <2>2, GotoMoves DEF Pcs, ReadPcs
  <2> QED BY <1>1, <2>1, <2>2, <2>3
<1>10. CASE LiveBegins
  <2> DEFINE d == [NoDevice EXCEPT !.fd = active]
  <2>1. /\ device' = [device EXCEPT !["live"] = d] /\ pc["live"] = "idle" /\ Goto("live", "header")
    BY <1>10 DEF LiveBegins, Begins
  <2>2. d \in Device /\ d.seen = {} BY NoDeviceType DEF NoDevice, TypeOK
  <2>3. "live" \in Devices BY DEF Devices
  <2> HIDE DEF d
  <2>4. device'["live"] = d /\ \A g \in Devices \ {"live"} : device'[g] = device[g]
    BY <2>1, <2>2, <2>3, DeviceMoves
  <2>5. CASE f = "live"
    <3>1. t = "live" /\ pc[t] \notin ReadPcs BY <2>1, <2>5 DEF MakerOf, ReadPcs
    <3> QED BY <2>2, <2>4, <2>5, <3>1 DEF DeviceStep
  <2>6. CASE f # "live"
    <3>1. \A v \in Threads \ {"live"} : pc'[v] = pc[v] BY <1>0, <2>1, GotoMoves DEF Pcs, MakePcs
    <3>2. pc["live"] \notin MakePcs BY <2>1 DEF MakePcs
    <3> QED BY <1>0, <1>1, <2>4, <2>6, <3>1, <3>2
  <2> QED BY <2>5, <2>6
<1>11. CASE UNCHANGED vars BY <1>11 DEF vars, threads, DeviceStep
<1> QED BY <1>0, <1>2, <1>4, <1>5, <1>6, <1>7, <1>8, <1>9, <1>10, <1>11, StepCases

\* While a file is read nobody but its reader touches the device.
LEMMA DeviceStays ==
  ASSUME TypeOK, MutexInv, [Next]_vars, NEW t \in Threads, pc[t] \in ReadPcs, pc'[t] \in ReadPcs
  PROVE  device'[DeviceOf(t)] = device[DeviceOf(t)] /\ pc[MakerOf(DeviceOf(t))] \notin MakePcs
<1> DEFINE f == DeviceOf(t)
           m == MakerOf(f)
<1>1. f \in Devices BY ThreadTypes
<1>2. pc[t] \notin MakePcs /\ pc'[t] # "idle" BY DEF ReadPcs, MakePcs
<1>3. pc[m] \notin MakePcs
  <2>1. CASE t = "live" BY <1>2, <2>1 DEF DeviceOf, MakerOf
  <2>2. CASE t # "live"
    <3>1. t \in {"ui", "extract"} /\ m = "ui" BY <2>2 DEF Threads, DeviceOf, MakerOf
    <3>2. mutex = t BY <3>1 DEF MutexInv
    <3> QED BY <1>2, <3>1, <3>2 DEF MutexInv
  <2> QED BY <2>1, <2>2
<1>4. ~(f = "mount" /\ mutex = "free")
  <2>1. t = "live" => f = "live" BY DEF DeviceOf
  <2>2. t # "live" => mutex = t BY DEF Threads, MutexInv
  <2> QED BY <2>1, <2>2 DEF Threads
<1>5. ~(f = "live" /\ (pc[m] \notin ReadPcs \/ pc'[m] = "idle"))
  <2>1. f = "live" => t = "live" BY DEF DeviceOf
  <2> QED BY <1>2, <2>1 DEF MakerOf
<1>6. ~HasSuper(f) BY <1>3 DEF HasSuper, MakePcs
<1>7. DeviceStep(f) BY <1>1, DeviceSteps
<1> HIDE DEF f
<1> QED BY <1>3, <1>4, <1>5, <1>6, <1>7 DEF DeviceStep, f

\* A device made from one whole image is one, and has the number of its inode table.
TableInv ==
  \A f \in Devices, i \in Whole :
    device[f].seen = {i} /\ pc[MakerOf(f)] \notin MakePcs =>
      device[f].kind # "none" /\ device[f].table = Volume[i][1].table

LEMMA TableStep ==
  ASSUME TypeOK, DevicesSound, TableInv, [Next]_vars PROVE TableInv'
<1> SUFFICES ASSUME NEW f \in Devices, NEW i \in Whole,
                    device'[f].seen = {i}, pc'[MakerOf(f)] \notin MakePcs
             PROVE  device'[f].kind # "none" /\ device'[f].table = Volume[i][1].table
  BY DEF TableInv
<1> DEFINE d == device[f]
<1>1. DeviceStep(f) BY DeviceSteps
<1>2. CASE device'[f] = d /\ (pc[MakerOf(f)] \in MakePcs => pc'[MakerOf(f)] \in MakePcs)
  BY <1>2 DEF TableInv
<1>3. CASE HasSuper(f)
  <2>1. /\ pc[MakerOf(f)] = "super" /\ d.seen \cup {Behind(d.fd)} = {i}
        /\ device'[f].table = Block(d, 0).table /\ device'[f].kind = d.kind
    BY <1>3 DEF HasSuper
  <2>2. Sound(d, "super") BY <2>1 DEF DevicesSound
  <2>3. i \in Images BY ImageAssumption DEF ImageAssumption
  <2>4. d.kind # "none" /\ d.seen = {i} /\ Behind(d.fd) = i /\ (d.kind = "sparse" => d.left = 0)
    BY <2>1, <2>2 DEF Sound
  <2>5. Matches(d, i) BY <2>2, <2>3, <2>4 DEF Sound
  <2>6. d \in Device BY DEF TypeOK, Devices
  <2>7. 0 < Len(Volume[i]) BY <2>3, ImageTypes, EmptySeq, VolumeAssumption DEF IsVolume, VolumeAssumption
  <2> HIDE DEF d
  <2>8. Block(d, 0) = Volume[i][0 + 1] BY <2>4, <2>5, <2>6, <2>7, BlockRight
  <2>9. 0 + 1 = 1 OBVIOUS
  <2> QED BY <2>1, <2>4, <2>8, <2>9 DEF d
<1>4. device'[f].seen # {} BY <1>1
<1> HIDE DEF d
<1> QED BY <1>1, <1>2, <1>3, <1>4 DEF DeviceStep, d

\* What waits for the mutex has asked for one of the paths.
AskedInv == \A t \in Threads : pc[t] = "lock" => \E path \in Paths : job[t] = Read(path)

LEMMA AskedStep == ASSUME TypeOK, AskedInv, [Next]_vars PROVE AskedInv'
<1> SUFFICES ASSUME NEW u \in Threads, pc'[u] = "lock"
             PROVE  \E path \in Paths : job'[u] = Read(path)
  BY DEF AskedInv
<1>1. CASE UNCHANGED <<pc, job, mutex>> BY <1>1 DEF AskedInv
<1>2. ASSUME NEW t \in Threads, OthersStay(t), Moves(t)
      PROVE  \E path \in Paths : job'[u] = Read(path)
  <2>1. CASE u = t BY <1>2, <2>1 DEF Moves, Asks, ReadPcs, MakePcs
  <2>2. CASE u # t BY <1>2, <2>2 DEF OthersStay, AskedInv
  <2> QED BY <2>1, <2>2
<1> QED BY <1>1, <1>2, StepMoves

-----------------------------------------------------------------------------
(* What has been read of a file. *)

\* The names still to follow are the rest of the path, and those before them lead to the inode.
OnTheWay(i, j) ==
  \E k \in 0..Len(j.path) :
    /\ Len(j.names) = Len(j.path) - k
    /\ \A n \in DOMAIN j.names : j.names[n] = j.path[k + n]
    /\ j.ino = InodesOn(i, j.path)[k]

Arrived(i, j) ==
  LET ino == InodeAt(i, j.path)
  IN  /\ j.ok <=> ino # 0
      /\ j.ok => j.out = WrittenFile(i, ino)

\* What a thread at a place has of a file of the image i.
Reading(i, place, j) ==
  /\ j.path \in Paths
  /\ place \in {"inode", "node", "data"} => j.ok /\ j.ino \in Inos \ {0} /\ OnTheWay(i, j)
  /\ place = "node" => /\ Begun(i, InodeOf(i, j.ino), j.nodes, j.extents)
                       /\ j.left = InodeOf(i, j.ino).size /\ j.out = <<>>
  /\ place = "data" => Copied(i, InodeOf(i, j.ino), j.extents, j.left, j.out)
  /\ place = "done" => Arrived(i, j)

ReadInv ==
  \A t \in Threads, i \in Whole :
    /\ Dense(i) /\ pc[t] \in ReadPcs
    /\ device[DeviceOf(t)].seen = {i} /\ job[t].seen \subseteq {i}
    => Reading(i, pc[t], job[t])

SameFile(j, k) == j.path = k.path /\ j.names = k.names /\ j.ino = k.ino /\ j.ok = k.ok

LEMMA JobFields ==
  ASSUME NEW j \in Job
  PROVE  /\ j.path \in Seq(Names) /\ j.names \in Seq(Names) /\ j.ino \in Nat /\ j.nodes \in Seq(Nat)
         /\ j.extents \in Seq(Extent) /\ j.left \in Nat /\ j.out \in Seq(Byte) /\ j.ok \in BOOLEAN
         /\ DOMAIN j = {"path", "names", "ino", "nodes", "extents", "left", "out", "ok", "seen"}
         /\ Len(j.path) \in Nat /\ Len(j.names) \in Nat
         /\ DOMAIN j.path = 1..Len(j.path) /\ DOMAIN j.names = 1..Len(j.names)
<1>1. j.path \in Seq(Names) /\ j.names \in Seq(Names) BY DEF Job
<1> QED BY <1>1, LenProperties DEF Job

LEMMA AskedReading ==
  ASSUME NEW i \in Whole, NEW path \in Paths PROVE Reading(i, "inode", Read(path))
<1> DEFINE j == Read(path)
<1>1. path \in Seq(Names) /\ Len(path) \in Nat /\ DOMAIN path = 1..Len(path)
  BY ImageAssumption, LenProperties DEF ImageAssumption
<1>2. j.path = path /\ j.names = path /\ j.ino = Root /\ j.ok = TRUE BY DEF Read
<1>3. Root \in Inos \ {0} BY VolumeAssumption DEF VolumeAssumption, IsVolume, Root
<1>4. InodesOn(i, path)[0] = Root BY <1>1, InodesOnSteps
<1>5. /\ 0 \in 0..Len(path) /\ Len(path) = Len(path) - 0
      /\ \A n \in DOMAIN path : 0 + n = n
  BY <1>1
<1> HIDE DEF j
<1>6. OnTheWay(i, j) BY <1>2, <1>4, <1>5 DEF OnTheWay
<1> QED BY <1>2, <1>3, <1>6 DEF Reading, j

LEMMA SameWay ==
  ASSUME NEW i, NEW j, NEW k, SameFile(k, j), OnTheWay(i, j) PROVE OnTheWay(i, k)
BY DEF OnTheWay, SameFile

LEMMA InodeReading ==
  ASSUME NEW i \in Whole, NEW j \in Job, Reading(i, "inode", j), NEW k \in Job, SameFile(k, j),
         k.nodes = InodeOf(i, j.ino).children, k.extents = InodeOf(i, j.ino).extents,
         k.left = InodeOf(i, j.ino).size, k.out = <<>>
  PROVE  Reading(i, "node", k)
<1>1. j.ino \in Inos \ {0} /\ j.ok /\ OnTheWay(i, j) /\ j.path \in Paths BY DEF Reading
<1> DEFINE inode == InodeOf(i, j.ino)
<1>2. i \in Images /\ inode \in Inode /\ IsFile(i, inode) BY <1>1, VolumeTypes
<1>3. Begun(i, inode, inode.children, inode.extents) BY <1>2, GatherBegins
<1>4. OnTheWay(i, k) /\ k.ino = j.ino /\ k.ok = j.ok /\ k.path = j.path
  BY <1>1, SameWay DEF SameFile
<1> QED BY <1>1, <1>3, <1>4 DEF Reading

LEMMA NodeReading ==
  ASSUME NEW i \in Whole, NEW j \in Job, Reading(i, "node", j), j.nodes # <<>>,
         NEW k \in Job, SameFile(k, j), k.left = j.left, k.out = j.out, k.nodes = Tail(j.nodes),
         k.extents = j.extents \o Volume[i][Head(j.nodes) + 1].extents
  PROVE  Reading(i, "node", k)
<1>1. /\ j.ino \in Inos \ {0} /\ j.ok /\ OnTheWay(i, j) /\ j.path \in Paths
      /\ Begun(i, InodeOf(i, j.ino), j.nodes, j.extents)
      /\ j.left = InodeOf(i, j.ino).size /\ j.out = <<>>
  BY DEF Reading
<1> DEFINE inode == InodeOf(i, j.ino)
<1>2. i \in Images /\ inode \in Inode /\ IsFile(i, inode) BY <1>1, VolumeTypes
<1>3. j.nodes \in Seq(Nat) /\ j.extents \in Seq(Extent) BY JobFields
<1>4. Begun(i, inode, k.nodes, k.extents) BY <1>1, <1>2, <1>3, GatherNode
<1>5. OnTheWay(i, k) /\ k.ino = j.ino /\ k.ok = j.ok /\ k.path = j.path
  BY <1>1, SameWay DEF SameFile
<1> QED BY <1>1, <1>4, <1>5 DEF Reading

\* With the last node read the extents are those of the file, and none of it is there yet.
LEMMA ExtentsReading ==
  ASSUME NEW i \in Whole, Dense(i), NEW j \in Job, Reading(i, "node", j), j.nodes = <<>>
  PROVE  Reading(i, "data", j)
<1>1. /\ j.ino \in Inos \ {0} /\ j.ok /\ OnTheWay(i, j) /\ j.path \in Paths
      /\ Begun(i, InodeOf(i, j.ino), <<>>, j.extents)
      /\ j.left = InodeOf(i, j.ino).size /\ j.out = <<>>
  BY DEF Reading
<1> DEFINE inode == InodeOf(i, j.ino)
<1>2. i \in Images /\ inode \in Inode /\ IsFile(i, inode) BY <1>1, VolumeTypes
<1>3. j.extents \in Seq(Extent) BY JobFields
<1>4. InOrder(j.extents) /\ Elements(j.extents) = ExtentsOf(i, inode) BY <1>1, <1>2, <1>3, GatherEnds
<1>5. Copied(i, inode, j.extents, j.left, j.out) BY <1>1, <1>3, <1>4, CopyBegins
<1> QED BY <1>1, <1>5 DEF Reading

\* A block that is read is one of data, and it is the next of the file.
LEMMA BlockReading ==
  ASSUME NEW i \in Whole, Dense(i), NEW j \in Job, Reading(i, "data", j), j.left > 0
  PROVE  LET n == Head(j.extents).start
             part == Part(Volume[i][n + 1], j.left)
         IN  /\ n \in Nat /\ n < Len(Volume[i]) /\ Volume[i][n + 1].kind = "data"
             /\ \A k \in Job : /\ SameFile(k, j)
                               /\ k.extents = AfterBlock(j.extents)
                               /\ k.left = j.left - Len(part) /\ k.out = j.out \o part
                               => Reading(i, "data", k)
<1> DEFINE n == Head(j.extents).start
           part == Part(Volume[i][n + 1], j.left)
<1>1. /\ j.ino \in Inos \ {0} /\ j.ok /\ OnTheWay(i, j) /\ j.path \in Paths
      /\ Copied(i, InodeOf(i, j.ino), j.extents, j.left, j.out)
  BY DEF Reading
<1>2. j.extents \in Seq(Extent) /\ j.left \in Nat \ {0} /\ j.out \in Seq(Byte) BY JobFields
<1>3. /\ n \in Nat /\ n < Len(Volume[i]) /\ Volume[i][n + 1].kind = "data"
      /\ Copied(i, InodeOf(i, j.ino), AfterBlock(j.extents), j.left - Len(part), j.out \o part)
  BY <1>1, <1>2, CopyGoesOn
<1> HIDE DEF part, n
<1>4. ASSUME NEW k \in Job, SameFile(k, j), k.extents = AfterBlock(j.extents),
             k.left = j.left - Len(part), k.out = j.out \o part
      PROVE  Reading(i, "data", k)
  <2>1. OnTheWay(i, k) /\ k.ino = j.ino /\ k.ok = j.ok /\ k.path = j.path
    BY <1>1, <1>4, SameWay DEF SameFile
  <2> QED BY <1>1, <1>3, <1>4, <2>1 DEF Reading
<1> QED BY <1>3, <1>4 DEF part, n

\* A file that has been read is the one that the path asks for, or a directory on the way.
LEMMA EndReading ==
  ASSUME NEW i \in Whole, Dense(i), NEW j \in Job, Reading(i, "data", j),
         j.left = 0 \/ j.extents = <<>>
  PROVE  /\ j.names = <<>> => Reading(i, "done", j)
         /\ j.names # <<>> =>
              LET ino == Find(j.out, Head(j.names))
              IN  \A k \in Job : k.path = j.path =>
                    /\ ino = 0 /\ ~k.ok => Reading(i, "done", k)
                    /\ ino # 0 /\ k.ok = j.ok /\ k.ino = ino /\ k.names = Tail(j.names)
                         => Reading(i, "inode", k)
<1>1. /\ j.ino \in Inos \ {0} /\ j.ok /\ OnTheWay(i, j) /\ j.path \in Paths
      /\ Copied(i, InodeOf(i, j.ino), j.extents, j.left, j.out)
  BY DEF Reading
<1>2. /\ j.extents \in Seq(Extent) /\ j.left \in Nat /\ j.out \in Seq(Byte)
      /\ j.path \in Seq(Names) /\ j.names \in Seq(Names)
      /\ Len(j.path) \in Nat /\ Len(j.names) \in Nat
      /\ DOMAIN j.path = 1..Len(j.path) /\ DOMAIN j.names = 1..Len(j.names)
  BY JobFields
<1>3. j.out = WrittenFile(i, j.ino) BY <1>1, <1>2, CopyEnds
<1> DEFINE at == InodesOn(i, j.path)
<1>4. PICK k \in 0..Len(j.path) :
        /\ Len(j.names) = Len(j.path) - k
        /\ \A n \in DOMAIN j.names : j.names[n] = j.path[k + n]
        /\ j.ino = at[k]
  BY <1>1 DEF OnTheWay
<1>5. CASE j.names = <<>>
  <2>1. k = Len(j.path) BY <1>2, <1>4, <1>5
  <2>2. j.ino = InodeAt(i, j.path) BY <1>4, <2>1 DEF InodeAt
  <2>3. Arrived(i, j) BY <1>1, <1>3, <2>2 DEF Arrived
  <2> QED BY <1>1, <1>5, <2>3 DEF Reading
<1>6. CASE j.names # <<>>
  <2> DEFINE name == Head(j.names)
             ino == Find(j.out, name)
  <2>1. /\ name = j.names[1] /\ Len(j.names) > 0
        /\ Tail(j.names) \in Seq(Names) /\ Len(Tail(j.names)) = Len(j.names) - 1
        /\ \A n \in 1..Len(Tail(j.names)) : Tail(j.names)[n] = j.names[n + 1]
    BY <1>2, <1>6, EmptySeq, HeadTailProperties
  <2>2. k + 1 \in 1..Len(j.path) /\ (k + 1) - 1 = k /\ k + 1 \in 0..Len(j.path) /\ k \in Nat
    BY <1>2, <1>4, <2>1
  <2>3. 1 \in DOMAIN j.names BY <1>2, <2>1
  <2>4. name = j.path[k + 1] BY <1>4, <2>1, <2>3
  <2>5. IsVolume(i) BY VolumeAssumption DEF VolumeAssumption
  <2>6. IsDirectory(WrittenFile(i, j.ino)) /\ at[k + 1] \in Inos \cup {0}
    <3>1. k + 1 \in DOMAIN j.path /\ at[(k + 1) - 1] = j.ino /\ j.ino # 0
      BY <1>1, <1>2, <1>4, <2>2
    <3> QED BY <1>1, <2>5, <3>1 DEF IsVolume
  <2> HIDE DEF name
  <2>7. ino = at[k + 1]
    <3>1. ino = Child(i, j.ino, name) BY <1>1, <1>2, <1>3, <2>6, FindIsChild
    <3>2. at[k + 1] = Child(i, at[(k + 1) - 1], j.path[k + 1]) BY <1>2, <2>2, InodesOnSteps
    <3> HIDE DEF at, ino
    <3> QED BY <1>4, <2>2, <2>4, <3>1, <3>2
  <2> HIDE DEF ino
  <2>8. ASSUME NEW l \in Job, l.path = j.path, ino = 0, ~l.ok PROVE Reading(i, "done", l)
    <3>1. InodeAt(i, j.path) = 0 BY <1>2, <2>2, <2>7, <2>8, NothingBehind
    <3>2. Arrived(i, l) BY <2>8, <3>1 DEF Arrived
    <3> QED BY <1>1, <2>8, <3>2 DEF Reading
  <2>9. ASSUME NEW l \in Job, l.path = j.path, ino # 0, l.ok = j.ok, l.ino = ino,
               l.names = Tail(j.names)
        PROVE  Reading(i, "inode", l)
    <3>1. ino \in Inos \ {0} BY <2>6, <2>7, <2>9
    <3>2. Len(l.names) = Len(l.path) - (k + 1) BY <1>2, <1>4, <2>1, <2>2, <2>9
    <3>3. ASSUME NEW n \in DOMAIN l.names PROVE l.names[n] = l.path[(k + 1) + n]
      <4>1. DOMAIN Tail(j.names) = 1..Len(Tail(j.names)) BY <2>1, LenProperties
      <4>2. n \in 1..Len(Tail(j.names)) BY <2>9, <3>3, <4>1
      <4>3. n + 1 \in DOMAIN j.names
        <5> DEFINE a == Len(Tail(j.names))
                   b == Len(j.names)
        <5>1. b \in Nat /\ a = b - 1 /\ n \in 1..a /\ DOMAIN j.names = 1..b BY <1>2, <2>1, <4>2
        <5> HIDE DEF a, b
        <5>2. n + 1 \in 1..b BY <5>1
        <5> QED BY <5>1, <5>2
      <4>4. k + (n + 1) = (k + 1) + n BY <2>2, <4>2
      <4>5. l.names[n] = j.names[n + 1] BY <2>1, <2>9, <4>2
      <4> QED BY <1>4, <2>9, <4>3, <4>4, <4>5
    <3>4. OnTheWay(i, l)
      <4>1. l.ino = InodesOn(i, l.path)[k + 1] BY <2>7, <2>9
      <4> QED BY <2>2, <2>9, <3>2, <3>3, <4>1 DEF OnTheWay
    <3> QED BY <1>1, <2>9, <3>1, <3>4 DEF Reading
  <2> QED BY <1>6, <2>8, <2>9 DEF ino, name
<1> QED BY <1>5, <1>6

LEMMA ReadsFields ==
  ASSUME TypeOK, NEW t \in Threads, NEW e, DOMAIN e = DOMAIN job[t], Reads(t, e)
  PROVE  /\ job'[t].path = e.path /\ job'[t].names = e.names /\ job'[t].ino = e.ino
         /\ job'[t].nodes = e.nodes /\ job'[t].extents = e.extents /\ job'[t].left = e.left
         /\ job'[t].out = e.out /\ job'[t].ok = e.ok
<1> DEFINE x == [e EXCEPT !.seen = e.seen \cup {Behind(device[DeviceOf(t)].fd)}]
<1>1. job[t] \in Job BY DEF TypeOK
<1>2. DOMAIN e = {"path", "names", "ino", "nodes", "extents", "left", "out", "ok", "seen"}
  BY <1>1, JobFields
<1>3. /\ x.path = e.path /\ x.names = e.names /\ x.ino = e.ino /\ x.nodes = e.nodes
      /\ x.extents = e.extents /\ x.left = e.left /\ x.out = e.out /\ x.ok = e.ok
  BY <1>2
<1>4. job' = [job EXCEPT ![t] = x] BY DEF Reads
<1> HIDE DEF x
<1>5. job'[t] = x BY <1>4 DEF TypeOK
<1> QED BY <1>3, <1>5

\* What is read of an image through a reader that was made from it is what was written.
LEMMA ReadingGoesOn ==
  ASSUME TypeOK, TypeOK', DevicesSound, MutexInv, TableInv, [Next]_vars,
         NEW t \in Threads, ReadStep(t), pc[t] \in ReadPcs, pc'[t] \in ReadPcs,
         NEW i \in Whole, Dense(i), device[DeviceOf(t)].seen = {i}, job'[t].seen \subseteq {i},
         Reading(i, pc[t], job[t])
  PROVE  Reading(i, pc'[t], job'[t])
<1> DEFINE f == DeviceOf(t)
           d == device[f]
           j == job[t]
           k == job'[t]
           inode == InodeOf(i, j.ino)
<1>0. /\ j \in Job /\ k \in Job /\ d \in Device /\ f \in Devices /\ i \in Images
      /\ DOMAIN j = {"path", "names", "ino", "nodes", "extents", "left", "out", "ok", "seen"}
  BY ThreadTypes, JobFields, ImageAssumption DEF TypeOK, ImageAssumption
<1>1. d.kind # "none" /\ d.table = Volume[i][1].table /\ Matches(d, i) /\ (d.kind = "sparse" => d.left = 0)
  <2>1. pc[MakerOf(f)] \notin MakePcs BY DeviceStays
  <2>2. d.kind # "none" /\ d.table = Volume[i][1].table BY <1>0, <2>1 DEF TableInv
  <2>3. Sound(d, pc[MakerOf(f)]) BY <1>0 DEF DevicesSound
  <2> QED BY <1>0, <2>1, <2>2, <2>3 DEF Sound, MakePcs
<1>2. IsVolume(i) BY VolumeAssumption DEF VolumeAssumption
\* What the file is once something has been read, and that it was read from i.
<1>3. ASSUME NEW e, DOMAIN e = DOMAIN j, e.seen = j.seen, Reads(t, e)
      PROVE  /\ \A n \in Nat : n < Len(Volume[i]) => Block(d, n) = Volume[i][n + 1]
             /\ k.path = e.path /\ k.names = e.names /\ k.ino = e.ino /\ k.nodes = e.nodes
             /\ k.extents = e.extents /\ k.left = e.left /\ k.out = e.out /\ k.ok = e.ok
  <2>1. k.seen = j.seen \cup {Behind(d.fd)} BY <1>3, SeenGrows
  <2>2. Behind(d.fd) = i BY <2>1
  <2> HIDE DEF d
  <2>3. \A n \in Nat : n < Len(Volume[i]) => Block(d, n) = Volume[i][n + 1]
    BY <1>0, <1>1, <2>2, BlockRight
  <2> QED BY <1>3, <2>3, ReadsFields DEF d
<1>4. CASE ReadsInode(t)
  <2> DEFINE c == Block(d, d.table)
             x == InodeIn(c, j.ino)
             lost == [j EXCEPT !.ok = FALSE]
             e == [j EXCEPT !.nodes = x.children, !.extents = x.extents, !.left = x.size, !.out = <<>>]
  <2>1. pc[t] = "inode" /\ Reading(i, "inode", j) BY <1>4 DEF ReadsInode
  <2>2. IF c.kind = "none" THEN Reads(t, lost) ELSE Reads(t, e) /\ Goto(t, "node")
    BY <1>4 DEF ReadsInode
  <2>3. /\ DOMAIN lost = DOMAIN j /\ lost.seen = j.seen
        /\ DOMAIN e = DOMAIN j /\ e.seen = j.seen
        /\ SameFile(e, j) /\ e.nodes = x.children /\ e.extents = x.extents /\ e.left = x.size
        /\ e.out = <<>>
    BY <1>0 DEF SameFile
  <2> HIDE DEF lost, e
  <2>4. d.table \in Nat /\ d.table < Len(Volume[i]) /\ Volume[i][d.table + 1].kind = "inodes"
    BY <1>0, <1>1, <1>2 DEF IsVolume, Device
  <2>5. c = Volume[i][d.table + 1]
    <3>1. Reads(t, lost) \/ Reads(t, e) BY <2>2
    <3> HIDE DEF d
    <3> QED BY <1>3, <2>3, <2>4, <3>1
  <2>6. Reads(t, e) /\ Goto(t, "node") BY <2>2, <2>4, <2>5
  <2>7. x = inode
    <3>1. j.ino \in Inos BY <2>1 DEF Reading
    <3> HIDE DEF c, d
    <3>2. x = c.at[j.ino] BY <2>4, <2>5, <3>1 DEF InodeIn
    <3>3. x = Volume[i][Volume[i][1].table + 1].at[j.ino] BY <1>1, <2>5, <3>2
    <3> QED BY <3>3 DEF InodeOf
  <2> HIDE DEF c, x
  <2>8. /\ k.path = e.path /\ k.names = e.names /\ k.ino = e.ino /\ k.nodes = e.nodes
        /\ k.extents = e.extents /\ k.left = e.left /\ k.out = e.out /\ k.ok = e.ok
    BY <1>3, <2>3, <2>6
  <2> HIDE DEF j, k, inode
  <2>9. /\ SameFile(k, j) /\ k.nodes = inode.children /\ k.extents = inode.extents
        /\ k.left = inode.size /\ k.out = <<>>
    BY <2>3, <2>7, <2>8 DEF SameFile
  <2>10. Reading(i, "node", k) BY <1>0, <2>1, <2>9, InodeReading DEF inode
  <2>11. pc'[t] = "node" BY <2>6, GotoMoves DEF Pcs, ReadPcs
  <2> QED BY <2>10, <2>11 DEF k
<1>5. CASE ReadsNode(t)
  <2> DEFINE n == Head(j.nodes)
             c == Block(d, n)
             e == [j EXCEPT !.nodes = Tail(@),
                            !.extents = IF c.kind = "node" THEN @ \o c.extents ELSE @]
  <2>1. pc[t] = "node" /\ Reading(i, "node", j) /\ j.nodes # <<>> /\ pc' = pc /\ Reads(t, e)
    BY <1>5 DEF ReadsNode
  <2>2. /\ DOMAIN e = DOMAIN j /\ e.seen = j.seen
        /\ SameFile(e, j) /\ e.nodes = Tail(j.nodes) /\ e.left = j.left /\ e.out = j.out
        /\ e.extents = IF c.kind = "node" THEN j.extents \o c.extents ELSE j.extents
    BY <1>0 DEF SameFile
  <2> HIDE DEF e
  <2>3. n \in Nat /\ n < Len(Volume[i]) /\ Volume[i][n + 1].kind = "node"
    <3>1. Begun(i, inode, j.nodes, j.extents) /\ j.ino \in Inos BY <2>1 DEF Reading
    <3>2. inode \in Inode /\ IsFile(i, inode) BY <3>1, VolumeTypes
    <3> DEFINE nodes == j.nodes  extents == j.extents
    <3>3. nodes \in Seq(Nat) /\ extents \in Seq(Extent) /\ nodes # <<>> BY <1>0, <2>1, JobFields
    <3>4. Begun(i, inode, nodes, extents) /\ n = Head(nodes) BY <3>1
    <3> HIDE DEF inode, j, n, nodes, extents
    <3> QED BY <1>0, <3>2, <3>3, <3>4, GatherNode
  <2>4. /\ c = Volume[i][n + 1]
        /\ k.path = e.path /\ k.names = e.names /\ k.ino = e.ino /\ k.nodes = e.nodes
        /\ k.extents = e.extents /\ k.left = e.left /\ k.out = e.out /\ k.ok = e.ok
    <3> HIDE DEF d, j, k, n
    <3> QED BY <1>3, <2>1, <2>2, <2>3
  <2> HIDE DEF j, k, c
  <2>5. /\ SameFile(k, j) /\ k.nodes = Tail(j.nodes) /\ k.left = j.left /\ k.out = j.out
        /\ k.extents = j.extents \o Volume[i][n + 1].extents
    BY <2>2, <2>3, <2>4 DEF SameFile
  <2>6. Reading(i, "node", k) BY <1>0, <2>1, <2>5, NodeReading
  <2> QED BY <2>1, <2>6 DEF k
<1>6. CASE HasExtents(t)
  <2>1. /\ pc[t] = "node" /\ Reading(i, "node", j) /\ j.nodes = <<>> /\ k = j /\ Goto(t, "data")
    BY <1>6 DEF HasExtents
  <2>2. Reading(i, "data", k) BY <1>0, <2>1, ExtentsReading
  <2>3. pc'[t] = "data" BY <2>1, GotoMoves DEF Pcs, ReadPcs
  <2> QED BY <2>2, <2>3
<1>7. CASE ReadsBlock(t)
  <2> DEFINE n == Head(j.extents).start
             c == Block(d, n)
             part == Part(c, j.left)
             lost == [j EXCEPT !.ok = FALSE]
             e == [j EXCEPT !.extents = AfterBlock(@), !.left = @ - Len(part), !.out = @ \o part]
  <2>1. pc[t] = "data" /\ Reading(i, "data", j) /\ j.left > 0 BY <1>7 DEF ReadsBlock
  <2>2. IF c.kind = "none" THEN Reads(t, lost) ELSE Reads(t, e) /\ UNCHANGED pc
    BY <1>7 DEF ReadsBlock
  <2>3. /\ DOMAIN lost = DOMAIN j /\ lost.seen = j.seen
        /\ DOMAIN e = DOMAIN j /\ e.seen = j.seen
        /\ SameFile(e, j) /\ e.extents = AfterBlock(j.extents)
        /\ e.left = j.left - Len(part) /\ e.out = j.out \o part
    BY <1>0 DEF SameFile
  <2> HIDE DEF lost, e
  <2>4. n \in Nat /\ n < Len(Volume[i]) /\ Volume[i][n + 1].kind = "data"
    <3> HIDE DEF j
    <3> QED BY <1>0, <2>1, BlockReading
  <2>5. c = Volume[i][n + 1]
    <3>1. Reads(t, lost) \/ Reads(t, e) BY <2>2
    <3> HIDE DEF d, n
    <3> QED BY <1>3, <2>3, <2>4, <3>1
  <2>6. Reads(t, e) /\ UNCHANGED pc BY <2>2, <2>4, <2>5
  <2>7. /\ k.path = e.path /\ k.names = e.names /\ k.ino = e.ino /\ k.nodes = e.nodes
        /\ k.extents = e.extents /\ k.left = e.left /\ k.out = e.out /\ k.ok = e.ok
    <3> HIDE DEF j, k
    <3> QED BY <1>3, <2>3, <2>6
  <2>8. part = Part(Volume[i][n + 1], j.left) BY <2>5
  <2> HIDE DEF j, k, part, c
  <2>9. /\ SameFile(k, j) /\ k.extents = AfterBlock(j.extents)
        /\ k.left = j.left - Len(part) /\ k.out = j.out \o part
    BY <2>3, <2>7 DEF SameFile
  <2>10. Reading(i, "data", k) BY <1>0, <2>1, <2>8, <2>9, BlockReading
  <2>11. pc' = pc BY <2>6
  <2> QED BY <2>1, <2>10, <2>11 DEF k
<1>8. CASE EndsFile(t)
  <2> DEFINE ino == Find(j.out, Head(j.names))
             lost == [j EXCEPT !.ok = FALSE]
             e == [j EXCEPT !.ino = ino, !.names = Tail(@)]
  <2>1. /\ pc[t] = "data" /\ Reading(i, "data", j) /\ (j.left = 0 \/ j.extents = <<>>)
        /\ IF j.names = <<>> THEN Goto(t, "done") /\ UNCHANGED job
           ELSE IF ino = 0 THEN job' = [job EXCEPT ![t] = lost] /\ Goto(t, "done")
           ELSE job' = [job EXCEPT ![t] = e] /\ Goto(t, "inode")
    BY <1>8 DEF EndsFile
  <2>2. /\ lost.path = j.path /\ ~lost.ok
        /\ e.path = j.path /\ e.ok = j.ok /\ e.ino = ino /\ e.names = Tail(j.names)
    BY <1>0
  <2> HIDE DEF lost, e
  <2>3. CASE j.names = <<>>
    <3>1. k = j /\ Goto(t, "done") BY <2>1, <2>3
    <3>2. Reading(i, "done", k) BY <1>0, <2>1, <2>3, <3>1, EndReading
    <3>3. pc'[t] = "done" BY <3>1, GotoMoves DEF Pcs, ReadPcs
    <3> QED BY <3>2, <3>3
  <2>4. CASE j.names # <<>> /\ ino = 0
    <3>1. job' = [job EXCEPT ![t] = lost] /\ Goto(t, "done") BY <2>1, <2>4
    <3>2. k = lost BY <3>1 DEF TypeOK
    <3>3. pc'[t] = "done" BY <3>1, GotoMoves DEF Pcs, ReadPcs
    <3>4. k \in Job /\ k.path = j.path /\ ~k.ok BY <1>0, <2>2, <3>2
    <3> HIDE DEF j, k
    <3>5. Reading(i, "done", k) BY <1>0, <2>1, <2>4, <3>4, EndReading
    <3> QED BY <3>3, <3>5 DEF k
  <2>5. CASE j.names # <<>> /\ ino # 0
    <3>1. job' = [job EXCEPT ![t] = e] /\ Goto(t, "inode") BY <2>1, <2>5
    <3>2. k = e BY <3>1 DEF TypeOK
    <3>3. pc'[t] = "inode" BY <3>1, GotoMoves DEF Pcs, ReadPcs
    <3>4. k \in Job /\ k.path = j.path /\ k.ok = j.ok /\ k.ino = ino /\ k.names = Tail(j.names)
      BY <1>0, <2>2, <3>2
    <3> HIDE DEF j, k
    <3>5. Reading(i, "inode", k) BY <1>0, <2>1, <2>5, <3>4, EndReading
    <3> QED BY <3>3, <3>5 DEF k
  <2> QED BY <2>3, <2>4, <2>5
<1>9. CASE Returns(t)
  <2>1. pc'[t] = "idle" BY <1>9, GotoMoves DEF Returns, Pcs
  <2> QED BY <2>1 DEF ReadPcs
<1> QED BY <1>4, <1>5, <1>6, <1>7, <1>8, <1>9 DEF ReadStep

LEMMA ReadInvStep ==
  ASSUME TypeOK, TypeOK', DevicesSound, MutexInv, TableInv, AskedInv, ReadInv, [Next]_vars
  PROVE  ReadInv'
<1> SUFFICES ASSUME NEW t \in Threads, NEW i \in Whole, Dense(i), pc'[t] \in ReadPcs,
                    device'[DeviceOf(t)].seen = {i}, job'[t].seen \subseteq {i}
             PROVE  Reading(i, pc'[t], job'[t])
  BY DEF ReadInv
<1>1. ASSUME pc[t] \in ReadPcs PROVE device[DeviceOf(t)].seen = {i}
  <2>1. device'[DeviceOf(t)] = device[DeviceOf(t)] BY <1>1, DeviceStays
  <2> QED BY <2>1
<1>2. CASE pc'[t] = pc[t] /\ job'[t] = job[t]
  <2>1. pc[t] \in ReadPcs /\ job[t].seen \subseteq {i} BY <1>2
  <2>2. Reading(i, pc[t], job[t]) BY <1>1, <2>1 DEF ReadInv
  <2> QED BY <1>2, <2>2
<1>3. CASE pc'[t] = "inode" /\ \E path \in Paths : job'[t] = Read(path)
  BY <1>3, AskedReading
<1>4. CASE ReadStep(t) /\ pc[t] \in ReadPcs
  <2>1. job[t].seen \subseteq {i}
    <3>1. pc'[t] # "idle" BY DEF ReadPcs
    <3> QED BY <1>4, <3>1, ReadSeen
  <2>2. device[DeviceOf(t)].seen = {i} BY <1>1, <1>4
  <2>3. Reading(i, pc[t], job[t]) BY <1>4, <2>1, <2>2 DEF ReadInv
  <2> QED BY <1>4, <2>2, <2>3, ReadingGoesOn
<1>5. CASE UNCHANGED <<pc, job, mutex>> BY <1>2, <1>5
<1>6. ASSUME NEW u \in Threads, OthersStay(u), Moves(u) PROVE Reading(i, pc'[t], job'[t])
  <2>1. CASE u # t BY <1>2, <1>6, <2>1 DEF OthersStay
  <2>2. CASE u = t
    <3>1. \/ pc'[t] = "inode" /\ Asks(t)
          \/ pc[t] = "lock" /\ pc'[t] = "inode" /\ job'[t] = job[t]
          \/ ReadStep(t) /\ pc[t] \in ReadPcs
      BY <1>6, <2>2 DEF Moves, ReadPcs, MakePcs
    <3>2. CASE pc[t] = "lock" /\ pc'[t] = "inode" /\ job'[t] = job[t]
      BY <1>3, <3>2 DEF AskedInv
    <3> QED BY <1>3, <1>4, <3>1, <3>2 DEF Asks
  <2> QED BY <2>1, <2>2
<1> QED BY <1>5, <1>6, StepMoves

LEMMA InitRead == ASSUME Init PROVE MutexInv /\ TableInv /\ AskedInv /\ ReadInv
<1>1. \A t \in Threads : pc[t] = "idle" BY DEF Init
<1>2. \A f \in Devices : device[f].seen = {} BY DEF Init, Devices, NoDevice
<1>3. MutexInv BY <1>1 DEF MutexInv, Threads, ReadPcs, MakePcs
<1>4. TableInv BY <1>2 DEF TableInv
<1>5. AskedInv BY <1>1 DEF AskedInv
<1>6. ReadInv BY <1>1 DEF ReadInv, ReadPcs
<1> QED BY <1>3, <1>4, <1>5, <1>6

\* A read that has ended, through a reader made from one whole image without holes and with
\* the descriptor on that image all the while, has the file at its path, and fails only where
\* there is none: for every image, whatever chunks it is split into and wherever in it the
\* extents of a file lie, and whatever the other threads do (resolvePath(), readInode(),
\* readExtentTree() and readFileData() over readBlock()).
THEOREM AlwaysReadsTheFile == Spec => []ReadIsTheFile
<1> DEFINE IInv == MutexInv /\ TableInv /\ AskedInv /\ ReadInv
<1>1. Init => IInv BY InitRead
<1>2. TypeOK /\ TypeOK' /\ DevicesSound /\ IInv /\ [Next]_vars => IInv'
  BY MutexStep, TableStep, AskedStep, ReadInvStep
<1>3. IInv => ReadIsTheFile
  <2> SUFFICES ASSUME ReadInv, NEW t \in Threads, NEW i \in Whole,
                      pc[t] = "done", From(t, i), Dense(i)
               PROVE  ReadRight(t, i)
    BY DEF ReadIsTheFile
  <2>1. pc[t] \in ReadPcs /\ device[DeviceOf(t)].seen = {i} /\ job[t].seen \subseteq {i}
    BY DEF ReadPcs, From
  <2>2. Reading(i, "done", job[t]) BY <2>1 DEF ReadInv
  <2> QED BY <2>2 DEF Reading, Arrived, ReadRight
<1>4. Init => DevicesSound BY InitSound
<1>5. TypeOK /\ DevicesSound /\ [Next]_vars => DevicesSound' BY NextSound
<1> HIDE DEF IInv
<1> QED BY <1>1, <1>2, <1>3, <1>4, <1>5, TypeCorrect, PTL DEF Spec
=============================================================================
