---------------------------- MODULE MCImageReader ----------------------------
(***************************************************************************)
(* Instances of ImageReader.  The images are small volumes, two bytes to a *)
(* block: "sparse" has a chunk of each type and an extent tree of depth 1, *)
(* "raw" is a raw image, "short" is "sparse" without its last blocks,      *)
(* "nothing" is no image, and "holes" has a file with a hole and with an   *)
(* extent that has not been written to.                                    *)
(***************************************************************************)
EXTENDS ImageReader

Entry(name, ino)      == [name |-> name, ino |-> ino]
Data(a, b)            == [kind |-> "data", bytes |-> <<a, b>>]
Piece(block, len, at) == [block |-> block, len |-> len, written |-> TRUE, start |-> at]
Unwritten(block, len, at) == [Piece(block, len, at) EXCEPT !.written = FALSE]
File(size, extents)   == [size |-> size, depth |-> 0, extents |-> extents, children |-> <<>>]
Tree(size, children)  == [size |-> size, depth |-> 1, extents |-> <<>>, children |-> children]
Node(extents)         == [kind |-> "node", extents |-> extents]
Super(total, at)      == [kind |-> "super", total |-> total, table |-> at]
Table(root, d, f, g)  ==
  [kind |-> "inodes", at |-> [ino \in {2, 4, 5, 6} |->
     CASE ino = 2 -> root [] ino = 5 -> d [] ino = 4 -> f [] ino = 6 -> g]]

X == Entry("x", 9)
Y == Entry("y", 9)
Z == Entry(NoName, 0)
Empty == File(0, <<>>)

\* /f is in two leaves, the first a FILL chunk; /d/g is half FILL, half DONT_CARE.
SparseVolume ==
  << Super(11, 1),
     Table(File(3, <<Piece(0, 2, 2)>>), File(2, <<Piece(0, 1, 10)>>),
           Tree(3, <<7, 8>>), File(4, <<Piece(0, 2, 5)>>)),
     Data(Entry("f", 0), Entry("d", 5)), Data(Entry("f", 4), Z),
     Data(X, X), Data(X, X), Data(Z, Z),
     Node(<<Piece(0, 1, 4)>>), Node(<<Piece(1, 1, 9)>>),
     Data(Y, Y), Data(Entry("g", 6), Z) >>

Of(type, start, count, offset, fill) ==
  [start |-> start, count |-> count, type |-> type, offset |-> offset, fill |-> fill]
Before(type, n, size) == [kind |-> "chunk", type |-> type, n |-> n, size |-> size]

SparseLayout ==
  << Of("RAW", 0, 4, 2, NoCell), Of("OTHER", 4, 0, 7, NoCell), Of("FILL", 4, 2, 8, Data(X, X)),
     Of("DONT_CARE", 6, 1, 10, NoCell), Of("RAW", 7, 4, 11, NoCell) >>

SparseFile ==
  << [kind |-> "sparse", total |-> 11, chunks |-> 5], Before("RAW", 4, 5) >>
    \o SubSeq(SparseVolume, 1, 4)
    \o << Before("OTHER", 0, 1), Before("FILL", 2, 2), Data(X, X), Before("DONT_CARE", 1, 1),
          Before("RAW", 4, 5) >>
    \o SubSeq(SparseVolume, 8, 11)

RawVolume ==
  << Super(4, 1),
     Table(File(2, <<Piece(0, 1, 2)>>), Empty, File(1, <<Piece(0, 1, 3)>>), Empty),
     Data(Entry("f", 4), Entry("h", 4)), Data(Y, X) >>

HolesVolume ==
  << Super(5, 1),
     Table(File(1, <<Piece(0, 1, 2)>>), Empty, File(6, <<Piece(1, 1, 3), Unwritten(2, 1, 4)>>), Empty),
     Data(Entry("f", 4), Z), Data(Y, Y), Data(X, X) >>

MCImages  == {"sparse", "raw", "short", "nothing"}
MCVolume  == [i \in MCImages |-> CASE i \in {"sparse", "short"} -> SparseVolume
                                   [] i = "raw" -> RawVolume [] OTHER -> <<>>]
MCLayout  == [i \in MCImages |-> IF i \in {"sparse", "short"} THEN SparseLayout ELSE <<>>]
MCStorage == [i \in MCImages |-> CASE i = "sparse" -> SparseFile
                                   [] i = "short" -> SubSeq(SparseFile, 1, 13)
                                   [] i = "raw" -> RawVolume [] OTHER -> <<Data(X, X)>>]
MCNames   == {"d", "f", "g", "h", "x", "y"}
MCPaths   == {<<"f">>, <<"d", "g">>}
MCInos    == {2, 4, 5, 6}
MCWhole   == {"sparse", "raw"}

HolesImages == {"holes"}
HolesStored == [i \in HolesImages |-> HolesVolume]
HolesLayout == [i \in HolesImages |-> <<>>]
=============================================================================
