------------------------------ MODULE MCVolume ------------------------------
(* Small volumes for Volume: a directory SBIN with a file INIT of one and a *)
(* half clusters stored out of order, a file with a one-piece long name     *)
(* that fills one cluster, and a damaged file.  The root directory takes    *)
(* two clusters (sectors on FAT16) and fills a listing exactly.  The other  *)
(* volumes go beyond a limit of the code or have odd directories.           *)
EXTENDS Volume, TLC

N(x) == <<x>>

Entry(x, d, c, n) == [t |-> "entry", name |-> N(x), dir |-> d, first |-> c, size |-> n]

Lfn(s, k, p) == [t |-> "lfn", name |-> <<>>, start |-> s, seq |-> k, piece |-> p]

Free == [t |-> "free", name |-> <<>>]

Skipped == [t |-> "other", name |-> <<>>]

End == [t |-> "end", name |-> <<>>]

\* Inodes with one direct pointer and two pointers in a block: of up to three
\* blocks (the second and third behind the pointer block p), and with extents.
Inode(d, n, b, p) ==
    [dir |-> d, size |-> n, extents |-> FALSE, map |-> <<b[1], p, 0, 0>>, blocks |-> b]

ByExtents(d, n, b, root) == [dir |-> d, size |-> n, extents |-> TRUE, map |-> root, blocks |-> b]

Leaf(es) == [depth |-> 0, entries |-> es]

Extent(block, len, start) == [block |-> block, len |-> len, start |-> start]

\* A file that needs the triple indirect block, and one with a tree of two levels,
\* a hole at blocks 3 and 4, and an unwritten extent (its length has the high bit).
Huge == [dir |-> FALSE, size |-> 29, extents |-> FALSE, map |-> <<201, 100, 110, 120>>,
         blocks |-> [i \in 1 .. 15 |-> 200 + i]]

Pair(i) == <<200 + i, 201 + i>>

HugePointers ==
    (100 :> Pair(2)) @@ (110 :> <<111, 112>>) @@ (111 :> Pair(4)) @@ (112 :> Pair(6))
    @@ (120 :> <<121, 122>>) @@ (121 :> <<123, 124>>) @@ (122 :> <<125, 126>>)
    @@ (123 :> Pair(8)) @@ (124 :> Pair(10)) @@ (125 :> Pair(12)) @@ (126 :> Pair(14))

Tree == ByExtents(FALSE, 16, <<301, 302, 303, 0, 0, 306, 311, 312>>,
    [depth |-> 1, entries |-> <<[block |-> 0, leaf |-> 130], [block |-> 6, leaf |-> 131]>>])

TreeNodes ==
    (130 :> Leaf(<<Extent(0, 3, 301), Extent(5, 1, 306)>>))
    @@ (131 :> Leaf(<<Extent(6, 6, 311)>>))

Ent(x, i) == [t |-> "ent", name |-> N(x), ino |-> i]

InitPath == <<N("SBIN"), N("INIT")>>

LongPath == <<N("LONG")>>

LoopPath == <<N("LOOP")>>

LatePath == <<N("LATE")>>

ShortPath == <<N("LONG~1")>>

TwoPieces == <<<<"LONG", "MORE">>>>

MCPaths == {InitPath, LongPath, LoopPath, LatePath, ShortPath, TwoPieces, <<N("SBIN")>>,
            <<N("LONG"), N("INIT")>>, <<N("LOOP"), N("INIT")>>, <<N("GONE")>>}

File(n, where, short, trail, rank) ==
    [size |-> n, where |-> where, short |-> short, trail |-> trail, rank |-> rank,
     split |-> FALSE, chained |-> TRUE]

Init3 == File(3, <<6, 5>>, InitPath, {2, 4}, 1)

Long2 == File(2, <<7>>, ShortPath, {2}, 2)

Files == (InitPath :> Init3) @@ (LongPath :> Long2)

Chains == (2 :> 3) @@ (3 :> EOC) @@ (4 :> EOC) @@ (6 :> 5) @@ (5 :> EOC) @@ (7 :> EOC)
          @@ (8 :> 9) @@ (9 :> 8)

Sbin == <<Entry("INIT", FALSE, 6, 3), End>>

Base == [fs |-> "FAT32", root |-> 2, dir |-> <<>>, fat |-> Chains, count |-> 0, inode |-> <<>>,
         packed |-> <<>>, pointers |-> <<>>, nodes |-> <<>>, coarse |-> FALSE, fixed |-> {}, clusters |-> 5 .. 9, files |-> Files,
         damaged |-> {LoopPath}, barren |-> {}]

Fat32 == [Base EXCEPT !.dir =
    (2 :> <<Entry("SBIN", TRUE, 4, 0), Lfn(TRUE, 1, "LONG"), Entry("LONG~1", FALSE, 7, 2)>>)
    @@ (3 :> <<Lfn(TRUE, 5, "OLD"), Lfn(TRUE, 1, "GONE"), Free, Entry("LOOP", FALSE, 8, 3), End>>)
    @@ (4 :> Sbin)]

\* The record of LONG lies in the sector after its long name.
Fat16 == [Base EXCEPT !.fs = "FAT16", !.root = 101, !.fixed = {101, 102},
    !.fat = Chains @@ (101 :> 102) @@ (102 :> EOC),
    !.dir =
    (101 :> <<Entry("SBIN", TRUE, 4, 0), Lfn(TRUE, 1, "LONG")>>)
    @@ (102 :> <<Entry("LONG~1", FALSE, 7, 2), Entry("LOOP", FALSE, 8, 3), End>>)
    @@ (4 :> Sbin)]

\* The entry set of LATE, one cluster long, begins in cluster 2 and ends in cluster 3.
Exfat == [Base EXCEPT !.fs = "EXFAT", !.count = 9,
    !.dir =
    (2 :> <<Skipped, Entry("SBIN", TRUE, 4, 0), Skipped, Entry("LONG", FALSE, 7, 2), Skipped>>)
    @@ (3 :> <<Skipped, Entry("LOOP", FALSE, 8, 3), End>>)
    @@ (4 :> Sbin),
    !.clusters = @ \cup {10},
    !.fat = @ @@ (10 :> EOC),
    !.files = Files @@ (LatePath :> [File(2, <<10>>, LatePath, {2, 3}, 3) EXCEPT !.split = TRUE])]

\* The second block of INIT is an indirect one, LONG has an extent, and LOOP has a
\* hole.
Ext == [Base EXCEPT !.fs = "EXT", !.fat = <<>>,
    !.pointers = HugePointers @@ (140 :> <<3, 0>>) @@ (141 :> <<5, 0>>) @@ (142 :> <<0, 0>>),
    !.nodes = TreeNodes,
    !.inode = (2 :> Inode(TRUE, 4, <<2, 3>>, 140)) @@ (11 :> Inode(TRUE, 2, <<4>>, 0))
              @@ (12 :> Inode(FALSE, 3, <<6, 5>>, 141))
              @@ (13 :> ByExtents(FALSE, 2, <<7>>, Leaf(<<Extent(0, 1, 7)>>)))
              @@ (14 :> Inode(FALSE, 3, <<8, 0>>, 142))
              @@ (15 :> Huge) @@ (16 :> Tree),
    !.dir = (2 :> <<Ent("SBIN", 11)>>) @@ (3 :> <<Ent("LONG", 13), Ent("LOOP", 14)>>)
            @@ (4 :> <<Ent("INIT", 12)>>)]

\* The last cluster, cluster_count + 1, which the code refuses, is that of the
\* directory SBIN.
ExfatLast == [Base EXCEPT !.fs = "EXFAT", !.count = 8,
    !.dir =
    (2 :> <<Entry("SBIN", TRUE, 9, 0), Entry("LONG", FALSE, 7, 2)>>)
    @@ (3 :> <<Skipped, End>>)
    @@ (9 :> Sbin),
    !.clusters = 5 .. 8,
    !.fat = [@ EXCEPT ![8] = EOC, ![9] = EOC],
    !.files[InitPath].trail = {2, 9},
    !.damaged = {}]

\* The last cluster is that of LONG, and INIT is contiguous and has no chain.
ExfatRun == [ExfatLast EXCEPT
    !.dir =
    (2 :> <<Entry("SBIN", TRUE, 4, 0), Entry("LONG", FALSE, 9, 2)>>)
    @@ (3 :> <<Skipped, End>>)
    @@ (4 :> <<Entry("INIT", FALSE, 5, 3), End>>),
    !.clusters = 5 .. 9,
    !.fat = [@ EXCEPT ![5] = 0, ![6] = 0],
    !.files = (InitPath :> [Init3 EXCEPT !.where = <<5, 6>>, !.chained = FALSE])
              @@ (LongPath :> [Long2 EXCEPT !.where = <<9>>])]

Chains12 == [Chains EXCEPT ![5] = 6, ![6] = EOC]

\* INIT begins in an odd cluster and SBIN has two clusters, 2 and 3; the chains as
\* 12-bit entries, of which those of 2 and 5 lie in two sectors; and a cluster that
\* stands for what lies where the sectors of cluster FAT12_EOC would be: bytes, and
\* what reads as a directory with an INIT in the cluster of LONG.
Fat12 == [Fat16 EXCEPT !.fs = "FAT12",
    !.clusters = @ \cup {FAT12_EOC},
    !.dir =
    (101 :> <<Entry("SBIN", TRUE, 2, 0), Lfn(TRUE, 1, "LONG")>>)
    @@ (102 :> <<Entry("LONG~1", FALSE, 7, 2), Entry("LOOP", FALSE, 8, 3), End>>)
    @@ (2 :> <<Free>>) @@ (3 :> <<Entry("INIT", FALSE, 5, 3), End>>)
    @@ (FAT12_EOC :> <<Entry("INIT", FALSE, 7, 2)>>),
    !.files[InitPath].where = <<5, 6>>,
    !.packed = [o \in 0 .. 14 |->
        LET entry(c) == IF c \notin DOMAIN Chains12 THEN 0
                        ELSE IF Chains12[c] = EOC THEN 4095 ELSE Chains12[c]
            even == 2 * (o \div 3)
        IN  CASE o % 3 = 0 -> entry(even) % 256
              [] o % 3 = 1 -> entry(even) \div 256 + 16 * (entry(even + 1) % 16)
              [] o % 3 = 2 -> entry(even + 1) \div 16]]

\* A file whose name takes two long-name records, stored last first.
LongName == [Base EXCEPT
    !.dir = (2 :> <<Lfn(TRUE, 2, "MORE"), Lfn(FALSE, 1, "LONG"), Entry("LONGMO~1", FALSE, 7, 2)>>)
            @@ (3 :> <<End>>),
    !.files = (TwoPieces :> [Long2 EXCEPT !.short = <<N("LONGMO~1")>>]),
    !.damaged = {}]

\* Clusters of more than 8 sectors.
Coarse == [Fat32 EXCEPT !.coarse = TRUE]

\* The long name of LONG ends one cluster and its record begins the next; LATE is the
\* fourth entry; SBIN has one cluster, whose successor is itself; and LOOP is a
\* directory whose clusters run in a circle and hold no entry.
OddDirs == [Base EXCEPT
    !.dir =
    (2 :> <<Entry("SBIN", TRUE, 4, 0), Lfn(TRUE, 1, "LONG")>>)
    @@ (3 :> <<Entry("LONG~1", FALSE, 7, 2), Entry("LOOP", TRUE, 10, 0),
               Entry("LATE", FALSE, 8, 1), End>>)
    @@ (4 :> <<Entry("INIT", FALSE, 6, 3)>>) @@ (10 :> <<Free>>) @@ (11 :> <<Free, Free>>),
    !.fat = [@ EXCEPT ![4] = 4, ![8] = EOC, ![9] = EOC] @@ (10 :> 11) @@ (11 :> 10),
    !.files = (InitPath :> Init3) @@ (LongPath :> [Long2 EXCEPT !.split = TRUE])
              @@ (LatePath :> File(1, <<8>>, LatePath, {2, 3}, 4)),
    !.damaged = {}, !.barren = {10, 11}]

AllLayouts == {Fat32, Fat16, Fat12, Exfat, ExfatLast, ExfatRun, Ext, LongName, Coarse, OddDirs}
============================================================================
