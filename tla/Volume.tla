------------------------------- MODULE Volume -------------------------------
(***************************************************************************)
(* Reading and overwriting a file of the root volume: the path lookup and  *)
(* the file transfer of src/fs/fat32.c, src/fs/exfat.c and src/fs/extfs.c. *)
(*                                                                         *)
(* One operation runs at a time (the callers are system calls and the boot *)
(* path).  An action is one iteration of a loop of the code: it reads one  *)
(* directory cluster, or reads or writes one data cluster, and any block   *)
(* access in it may fail.                                                  *)
(*                                                                         *)
(* Data: a cluster holds ClusterBytes bytes, a byte is a tag that says     *)
(* where it comes from, and a directory cluster is the sequence of its     *)
(* records.  A name is the sequence of the 13-character pieces in which    *)
(* FAT stores a long name; names are already case-folded.  An ext block is *)
(* called a cluster too.                                                   *)
(***************************************************************************)
EXTENDS Integers, Sequences

CONSTANTS
    Layouts,        \* the volumes to start from
    Paths,          \* the paths asked for, sequences of names
    ClusterBytes,   \* bytes in a cluster
    DIR_MAX,        \* entries a FAT or exFAT listing can return, 64 in the code
    SECTOR,         \* BLOCK_SECTOR_SIZE, bytes of a sector of the FAT, 512 in the code
    DIRECT, PER,    \* ext: direct pointers of an inode (12), pointers in a block
    EXTENT_MAX,     \* ext: lengths of extents are taken modulo this, 0x8000 in the code
    MaxSize,        \* bound: the largest buffer size passed to an operation
    IoFails         \* whether a block access may fail

ASSUME VolumeAssumption ==
    /\ ClusterBytes \in Nat \ {0} /\ DIR_MAX \in Nat \ {0} /\ MaxSize \in Nat
    /\ SECTOR \in Nat \ {0} /\ DIRECT \in Nat /\ PER \in Nat \ {0} /\ EXTENT_MAX \in Nat \ {0}
    /\ IoFails \in BOOLEAN
    /\ <<>> \notin Paths

(***************************************************************************)
(* A layout is the metadata of a volume, which no operation changes:       *)
(*   fs      "FAT12", "FAT16", "FAT32", "EXFAT" or "EXT"                   *)
(*   root    the first cluster of the root directory, the first sector of  *)
(*           the fixed FAT12 or FAT16 root, or the inode of the ext root   *)
(*   dir     the records of each directory cluster (or root sector)        *)
(*   fat     the successor of a cluster in its chain (or of a root sector) *)
(*   packed  the bytes of a FAT12 table, which holds 12-bit entries        *)
(*   count   cluster_count of exFAT                                        *)
(*   coarse  FAT: a cluster has more sectors than the 8 of cluster_buffer  *)
(*   inode   ext: directory bit, size, and block map of each inode: either *)
(*           its DIRECT + 3 pointers or the root of its extent tree; and   *)
(*           the blocks of the file, which no operation reads              *)
(*   pointers, nodes   ext: the pointer blocks and the extent tree blocks  *)
(*   fixed   the sectors of the fixed FAT12 or FAT16 root                  *)
(*   clusters  the clusters that hold file data                            *)
(*   files   what the volume holds: for each path of an undamaged file its *)
(*           size, its clusters in order and how it is filed (below)       *)
(*   damaged the paths of files whose chain is a cycle or has a hole       *)
(*   barren  the clusters of directory chains that run in a circle and     *)
(*           hold no entry                                                 *)
(* No operation reads the last three.  How a file is filed, by its record  *)
(* and those of the directories on its path:                               *)
(*   short   the path with FAT's short name of the file                    *)
(*   trail   the clusters of its directories up to the records             *)
(*   rank    the highest number of a record among its directory's entries  *)
(*   split   a record begins in another directory cluster than it ends     *)
(*   chained whether its clusters are linked in the FAT; exFAT may store a *)
(*           contiguous file without (NoFatChain)                          *)
(*                                                                         *)
(* The files of a layout have clusters of their own, enough for their      *)
(* bytes.                                                                  *)
(***************************************************************************)
ASSUME LayoutAssumption ==
    \A v \in Layouts :
        /\ v.fs \in {"FAT12", "FAT16", "FAT32", "EXFAT", "EXT"}
        /\ v.clusters \subseteq Nat \ {0}
        /\ \A p \in DOMAIN v.files :
              /\ v.files[p].size \in Nat
              /\ v.files[p].where \in Seq(v.clusters)
              /\ v.files[p].size <= ClusterBytes * Len(v.files[p].where)
        /\ \A p, q \in DOMAIN v.files :
              \A i \in DOMAIN v.files[p].where, j \in DOMAIN v.files[q].where :
                 v.files[p].where[i] = v.files[q].where[j] => p = q /\ i = j
        /\ v.fs = "EXT" => \A ino \in DOMAIN v.inode : v.inode[ino].size \in Nat

VARIABLES vol, data, op

volvars == <<vol, data, op>>

EOC == -1

Offsets == 0 .. ClusterBytes - 1

\* The byte at offset i of cluster c of the initial volume, and the byte at
\* offset k of a buffer that is written.
Old(c, i) == <<"old", c, i>>

New(k) == <<"new", k, 0>>

Idle == [pc |-> "idle", call |-> "none", path |-> <<>>, rest |-> <<>>, at |-> EOC, idx |-> 0,
         seen |-> <<>>, lfn |-> <<>>, file |-> EOC, len |-> 0, size |-> 0,
         copied |-> 0, out |-> <<>>, val |-> 0, failed |-> FALSE, left |-> "no"]

VolInit ==
    /\ vol \in Layouts
    /\ data = [c \in vol.clusters |-> [i \in Offsets |-> Old(c, i)]]
    /\ op = Idle

Smaller(a, b) == IF a < b THEN a ELSE b

\* The operation returns val.  Two fields are history: failed, whether a block
\* access failed, and left, in which loop next_cluster led out of the volume.
Return(o, val) ==
    op' = [Idle EXCEPT !.call = o.call, !.path = o.path, !.len = o.len, !.size = o.size,
                       !.copied = o.copied, !.out = o.out, !.val = val, !.failed = o.failed,
                       !.left = o.left]

Failing(o) == [o EXCEPT !.failed = TRUE]

IsFat == vol.fs \in {"FAT12", "FAT16", "FAT32"}

----------------------------------------------------------------------------
(* Directories: the records of one cluster.                                *)

\* parse_lfn_entry: the first record on disk (0x40) clears the name, and
\* storing a piece ends the name behind it.  The pieces are stored last first.
parse_lfn_entry(r, lfn) ==
    LET kept == IF r.start THEN <<>> ELSE lfn
    IN  IF r.seq > Len(kept) + 1 THEN kept
        ELSE Append(SubSeq(kept, 1, r.seq - 1), r.piece)

\* Faulty variant: a deleted record leaves the long name for the next entry.
fat_record_KeepLfn(acc, r) ==
    IF acc.ended \/ Len(acc.seen) >= DIR_MAX THEN acc
    ELSE CASE r.t = "lfn"   -> [acc EXCEPT !.lfn = parse_lfn_entry(r, acc.lfn)]
           [] r.t = "end"   -> [acc EXCEPT !.ended = TRUE]
           [] r.t = "free"  -> acc
           [] r.t = "entry" ->
                 [acc EXCEPT !.lfn = <<>>,
                             !.seen = Append(@, IF acc.lfn = <<>> THEN r
                                                ELSE [r EXCEPT !.name = acc.lfn])]

\* The state of a listing after one more record: the entries found so far, the
\* long name being collected and whether the end of the directory was met.
fat_record(acc, r) ==
    IF acc.ended \/ Len(acc.seen) >= DIR_MAX THEN acc
    ELSE CASE r.t = "lfn"   -> [acc EXCEPT !.lfn = parse_lfn_entry(r, acc.lfn)]
           [] r.t = "end"   -> [acc EXCEPT !.ended = TRUE]
           [] r.t = "free"  -> [acc EXCEPT !.lfn = <<>>]
           [] r.t = "entry" ->
                 [acc EXCEPT !.lfn = <<>>,
                             !.seen = Append(@, IF acc.lfn = <<>> THEN r
                                                ELSE [r EXCEPT !.name = acc.lfn])]

\* exFAT: records other than a file entry set are skipped, and so is a set that
\* does not end in the cluster it begins in ("split").
exfat_record(acc, r) ==
    IF acc.ended \/ Len(acc.seen) >= DIR_MAX THEN acc
    ELSE CASE r.t = "end"   -> [acc EXCEPT !.ended = TRUE]
           [] r.t = "entry" -> [acc EXCEPT !.seen = Append(@, r)]
           [] OTHER         -> acc

\* Faulty variant: the sectors of a fixed root are treated like clusters.
LfnAtStart_Reset == <<>>

\* A cluster of a FAT32 root or of a subdirectory starts with an empty long
\* name; the sectors of a fixed root share one.
LfnAtStart == IF op.at \in vol.fixed THEN op.lfn ELSE <<>>

list_cluster ==
    LET start == [seen |-> op.seen, ended |-> FALSE,
                  lfn |-> IF IsFat THEN LfnAtStart ELSE <<>>]
        Record(acc, r) == IF IsFat THEN fat_record(acc, r) ELSE exfat_record(acc, r)
        records == vol.dir[op.at]
        after[k \in 0 .. Len(records)] ==
            IF k = 0 THEN start ELSE Record(after[k - 1], records[k])
    IN  after[Len(records)]

----------------------------------------------------------------------------
(* Lookup on FAT and exFAT: list a directory, then search the list.        *)

Named(seen, name) == {k \in 1 .. Len(seen) : seen[k].name = name}

FirstNamed(seen, name) == seen[CHOOSE k \in Named(seen, name) : \A j \in Named(seen, name) : k <= j]

\* fat32_read_file, fat32_write_file, exfat_read_file and exfat_write_file after
\* the lookup: the transfer starts at the file's first cluster, unless it is a
\* directory, the sizes do not fit or a cluster does not fit into cluster_buffer.
FatStart(o, e) ==
    IF e.dir \/ (IF o.call = "read" THEN e.size > o.size ELSE o.size > e.size) \/ vol.coarse
    THEN Return(o, -1)
    ELSE op' = [o EXCEPT !.pc = "data", !.at = e.first, !.seen = <<>>, !.lfn = <<>>,
                         !.file = e.first, !.rest = <<>>,
                         !.len = IF o.call = "read" THEN e.size ELSE o.size]

\* fat32_find_root, exfat_find_root: the search for one path component in the
\* list; a listing cut short by a read error is searched as it is.
Search(o) ==
    LET name == Head(o.rest)
    IN  IF Named(o.seen, name) = {} THEN Return(o, -1)
        ELSE LET e == FirstNamed(o.seen, name)
             IN  IF Len(o.rest) = 1 THEN FatStart(o, e)
                 ELSE IF ~e.dir THEN Return(o, -1)
                 ELSE op' = [o EXCEPT !.rest = Tail(@), !.at = e.first,
                                      !.seen = <<>>, !.lfn = <<>>]

\* cluster_first_lba of exFAT returns 0, and reading fails, above cluster_count.
Addressable(c) == vol.fs # "EXFAT" \/ (2 <= c /\ c <= vol.count)

FAT12_EOC == 4088

\* FAT12: an odd entry is the upper 12 bits of the two bytes at its offset, an even
\* one the lower 12.  Behind the table anything may be read.
Offset12(c) == c + c \div 2

entry12(c) ==
    LET o == Offset12(c)
        val == vol.packed[o] + 256 * vol.packed[o + 1]
        entry == IF c % 2 = 1 THEN val \div 16 ELSE val % 4096
    IN  IF {o, o + 1} \subseteq DOMAIN vol.packed
        THEN {IF entry >= FAT12_EOC THEN EOC ELSE entry}
        ELSE {EOC, c}

\* Faulty variant: the 12-bit entries of odd clusters are not shifted, and what is
\* no cluster ends the chain.
Successors_NoShift(c) ==
    LET o == Offset12(c)
        val == (vol.packed[o] + 256 * vol.packed[o + 1]) % 4096
    IN  IF vol.fs # "FAT12" \/ c \in vol.fixed THEN {vol.fat[c]}
        ELSE {IF o \in DOMAIN vol.packed /\ val \in vol.clusters \cup DOMAIN vol.dir THEN val ELSE EOC}

\* The entry of a cluster in the FAT, or the next sector of a fixed root.
Successors(c) ==
    IF vol.fs = "FAT12" /\ c \notin vol.fixed THEN entry12(c) ELSE {vol.fat[c]}

\* The clusters next_cluster can return, with whether the access failed: a FAT
\* sector that cannot be read ends the chain.  If it is the second of the two in
\* which a FAT12 entry lies, FAT12_EOC is returned, which the callers take for a
\* cluster.
next_cluster(c) ==
    LET spans == vol.fs = "FAT12" /\ Offset12(c) % SECTOR = SECTOR - 1
    IN  {<<n, FALSE>> : n \in Successors(c)} \cup
        (IF IoFails /\ c \notin vol.fixed
         THEN {<<EOC, TRUE>>} \cup (IF spans THEN {<<FAT12_EOC, TRUE>>} ELSE {})
         ELSE {})

\* The operation goes on with the cluster that next_cluster returned.
Follow(o, n) ==
    [o EXCEPT !.at = n[1], !.failed = @ \/ n[2],
              !.left = IF n = <<FAT12_EOC, TRUE>> /\ @ = "no" THEN o.pc ELSE @]

\* fat32_list_root, list_cluster_entries and list_cluster: one iteration.  Clusters
\* that do not fit into cluster_buffer are not listed.
ListStep ==
    /\ op.pc = "dir" /\ vol.fs # "EXT"
    /\ \/ vol.coarse /\ Search(op)
       \/ ~vol.coarse /\ ~Addressable(op.at) /\ Search(op)
       \/ ~vol.coarse /\ IoFails /\ Addressable(op.at) /\ Search(Failing(op))
       \/ /\ ~vol.coarse /\ Addressable(op.at)
          /\ LET l == list_cluster
                 o == [op EXCEPT !.seen = l.seen, !.lfn = l.lfn]
             IN  \/ l.ended /\ Search(o)
                 \/ /\ ~l.ended
                    /\ \E n \in next_cluster(op.at) :
                          LET m == Follow(o, n)
                          IN  IF n[1] = EOC \/ Len(l.seen) >= DIR_MAX THEN Search(m)
                                                                     ELSE op' = m
    /\ UNCHANGED <<vol, data>>

----------------------------------------------------------------------------
(* Ext: the block of an inode with a given number.                         *)

read_u32_block(block, i) == vol.pointers[block][i + 1]

\* The entry of a pointer block, 0 if there is no such block.
Pointer(block, i) == IF block = 0 THEN 0 ELSE read_u32_block(block, i)

\* Faulty variant: the first level of the triple indirect block is not divided out.
map_indirect_Level(in, lbn) ==
    LET single == lbn - DIRECT
        double == single - PER
        triple == double - PER * PER
    IN  CASE lbn < DIRECT -> in.map[lbn + 1]
          [] single >= 0 /\ single < PER -> Pointer(in.map[DIRECT + 1], single)
          [] double >= 0 /\ double < PER * PER ->
                Pointer(Pointer(in.map[DIRECT + 2], double \div PER), double % PER)
          [] OTHER -> Pointer(Pointer(Pointer(in.map[DIRECT + 3], triple \div (PER * PER)),
                                    triple % PER), triple % PER)

map_indirect(in, lbn) ==
    LET single == lbn - DIRECT
        double == single - PER
        triple == double - PER * PER
    IN  CASE lbn < DIRECT -> in.map[lbn + 1]
          [] single >= 0 /\ single < PER -> Pointer(in.map[DIRECT + 1], single)
          [] double >= 0 /\ double < PER * PER ->
                Pointer(Pointer(in.map[DIRECT + 2], double \div PER), double % PER)
          [] OTHER -> Pointer(Pointer(Pointer(in.map[DIRECT + 3], triple \div (PER * PER)),
                                    (triple \div PER) % PER), triple % PER)

\* In a leaf, the first extent that holds the block; in an inner node, the last
\* entry that does not begin behind it, or the first.
map_extents_recurse(root, lbn) ==
    LET walk[node \in {root} \cup {vol.nodes[b] : b \in DOMAIN vol.nodes}] ==
        LET es == node.entries
            hits == {i \in DOMAIN es :
                       es[i].block <= lbn /\ lbn < es[i].block + (es[i].len % EXTENT_MAX)}
            e == es[CHOOSE i \in hits : \A j \in hits : i <= j]
            before == {i \in DOMAIN es : es[i].block <= lbn} \cup {1}
            pick == CHOOSE i \in before : \A j \in before : j <= i
        IN  IF node.depth # 0 THEN walk[vol.nodes[es[pick].leaf]]
            ELSE IF hits = {} THEN 0 ELSE e.start + (lbn - e.block)
    IN  walk[root]

map_block(in, lbn) ==
    IF in.extents THEN map_extents_recurse(in.map, lbn) ELSE map_indirect(in, lbn)

BlockCount(in) == (in.size + ClusterBytes - 1) \div ClusterBytes

----------------------------------------------------------------------------
(* Lookup on ext: search a directory block by block.                       *)

\* extfs_read_file and extfs_write_file after the lookup.  The inode may be
\* unreadable.
ExtStart(o, ino) ==
    \/ IoFails /\ Return(Failing(o), -1)
    \/ LET in == vol.inode[ino]
       IN  IF in.dir \/ (IF o.call = "read" THEN in.size > o.size ELSE o.size > in.size)
           THEN Return(o, -1)
           ELSE IF o.call = "write" /\ in.size = 0 THEN Return(o, 0)
           ELSE op' = [o EXCEPT !.pc = "data", !.file = ino, !.idx = 0, !.rest = <<>>,
                                !.len = IF o.call = "read" THEN in.size ELSE o.size]

\* extfs_find_root: an inner component must be a directory, whose inode is read
\* to find out.
ExtFound(ino) ==
    IF Len(op.rest) = 1 THEN ExtStart(op, ino)
    ELSE \/ IoFails /\ Return(Failing(op), -1)
         \/ IF vol.inode[ino].dir
            THEN op' = [op EXCEPT !.rest = Tail(@), !.at = ino, !.idx = 0]
            ELSE Return(op, -1)

\* read_dir_entries: one iteration.  A hole (block 0) or a failed access, to
\* the inode, its block map or the block, ends the operation.
ExtDirStep ==
    /\ op.pc = "dir" /\ vol.fs = "EXT"
    /\ \/ IoFails /\ Return(Failing(op), -1)
       \/ LET in == vol.inode[op.at]
              pb == map_block(in, op.idx)
              records == vol.dir[pb]
              hits == Named(records, Head(op.rest))
          IN  \/ op.idx >= BlockCount(in) /\ Return(op, -1)
              \/ /\ op.idx < BlockCount(in)
                 /\ \/ pb = 0 /\ Return(op, -1)
                    \/ /\ pb # 0
                       /\ IF hits = {} THEN op' = [op EXCEPT !.idx = @ + 1]
                                       ELSE ExtFound(FirstNamed(records, Head(op.rest)).ino)
    /\ UNCHANGED <<vol, data>>

----------------------------------------------------------------------------
(* The transfer: one iteration reads, or reads, patches and writes, one    *)
(* cluster.                                                                *)

\* The cluster to transfer next; 0 is a hole of an ext file.
Target == IF vol.fs = "EXT" THEN map_block(vol.inode[op.file], op.idx) ELSE op.at

\* Faulty variant: the chain is followed to its end.
More_WholeChain ==
    IF vol.fs = "EXT"
    THEN /\ op.idx < BlockCount(vol.inode[op.file])
         /\ op.call = "write" => op.idx = 0 \/ op.copied < op.len
    ELSE op.at # EOC /\ (vol.fs = "EXFAT" => op.at >= 2)

\* The loop conditions: FAT and exFAT follow the chain until enough bytes are
\* copied, ext goes through the blocks of the file, a write until its buffer is
\* used up.
More ==
    IF vol.fs = "EXT"
    THEN /\ op.idx < BlockCount(vol.inode[op.file])
         /\ op.call = "write" => op.idx = 0 \/ op.copied < op.len
    ELSE op.at # EOC /\ (vol.fs = "EXFAT" => op.at >= 2) /\ op.copied < op.len

\* Faulty variant: the last cluster is taken for a full one.
Chunk_Full == ClusterBytes

\* The bytes an iteration accounts for: ext counts up to the file's size even
\* when the buffer of a write is smaller.
Chunk ==
    Smaller(ClusterBytes, (IF vol.fs = "EXT" THEN vol.inode[op.file].size ELSE op.len) - op.copied)

\* Faulty variant: the cluster is not read before it is patched.
Patched_NoRead(c) ==
    [i \in Offsets |-> IF i < Chunk /\ op.copied + i < op.len THEN New(op.copied + i)
                                                              ELSE <<"junk", 0, 0>>]

\* The cluster buffer of a write: its first bytes come from the caller.
Patched(c) ==
    [i \in Offsets |-> IF i < Chunk /\ op.copied + i < op.len THEN New(op.copied + i)
                                                              ELSE data[c][i]]

Reachable(c) == IF vol.fs = "EXT" THEN c # 0 ELSE Addressable(c)

\* The next iteration.  FAT and exFAT read the successor from the FAT.
Advance(o) ==
    IF vol.fs = "EXT" THEN op' = [o EXCEPT !.idx = @ + 1]
    ELSE \E n \in next_cluster(o.at) : op' = Follow(o, n)

ReadStep ==
    /\ op.pc = "data" /\ op.call = "read" /\ More
    /\ \/ ~Reachable(Target) /\ Return(op, -1)
       \/ IoFails /\ Return(Failing(op), -1)
       \/ /\ Reachable(Target)
          /\ Advance([op EXCEPT !.copied = @ + Chunk,
                                !.out = @ \o [k \in 1 .. Chunk |-> data[Target][k - 1]]])
    /\ UNCHANGED <<vol, data>>

\* A write that fails may have stored some of the cluster's sectors.
PartlyWritten(c, p) == [i \in Offsets |-> IF i < p THEN Patched(c)[i] ELSE data[c][i]]

WriteStep ==
    /\ op.pc = "data" /\ op.call = "write" /\ More
    /\ \/ ~Reachable(Target) /\ Return(op, -1) /\ UNCHANGED data
       \/ IoFails /\ Return(Failing(op), -1) /\ UNCHANGED data
       \/ /\ IoFails /\ Reachable(Target)
          /\ \E p \in 1 .. ClusterBytes :
                data' = [data EXCEPT ![Target] = PartlyWritten(Target, p)]
          /\ Return(Failing(op), -1)
       \/ /\ Reachable(Target)
          /\ data' = [data EXCEPT ![Target] = Patched(Target)]
          /\ Advance([op EXCEPT !.copied = @ + Chunk])
    /\ UNCHANGED vol

\* What the operation returns after the loop: fat32_read_file does not compare
\* the count with the size, extfs_read_file cannot leave its loop early.
Result ==
    IF op.call = "read" /\ vol.fs # "EXFAT" THEN 0
    ELSE IF op.copied = op.len THEN 0 ELSE -1

Finish ==
    /\ op.pc = "data" /\ ~More
    /\ Return(op, Result)
    /\ UNCHANGED <<vol, data>>

----------------------------------------------------------------------------

\* A caller reads a file into a buffer of n bytes, or overwrites its first n
\* bytes.
Begin(call, path, n) ==
    /\ op.pc = "idle"
    /\ op' = [Idle EXCEPT !.pc = "dir", !.call = call, !.path = path, !.rest = path,
                          !.at = vol.root, !.size = n]
    /\ UNCHANGED <<vol, data>>

Step == ListStep \/ ExtDirStep \/ ReadStep \/ WriteStep \/ Finish

VolNext ==
    \/ \E call \in {"read", "write"}, path \in Paths, n \in 0 .. MaxSize : Begin(call, path, n)
    \/ ListStep
    \/ ExtDirStep
    \/ ReadStep
    \/ WriteStep
    \/ Finish

VolSpec == VolInit /\ [][VolNext]_volvars

\* An operation that has begun goes on: nothing preempts the kernel.
FairSpec == VolSpec /\ WF_volvars(Step)

----------------------------------------------------------------------------
(* Properties.                                                             *)

\* Every variable has its type, and the count of transferred bytes never
\* passes the file's size.
VolTypeOK ==
    /\ vol \in Layouts
    /\ DOMAIN data = vol.clusters
    /\ \A c \in vol.clusters : DOMAIN data[c] = Offsets
    /\ op.pc \in {"idle", "dir", "data"} /\ op.val \in {0, -1}
    /\ op.copied \in 0 .. (IF vol.fs = "EXT" /\ op.pc = "data" THEN vol.inode[op.file].size
                           ELSE MaxSize)
    /\ Len(op.seen) <= DIR_MAX

Exists(path) == path \in DOMAIN vol.files

\* The byte at offset k of a file the volume holds.
FileByte(path, k) ==
    data[vol.files[path].where[k \div ClusterBytes + 1]][k % ClusterBytes]

Done(call) == op.pc = "idle" /\ op.call = call /\ op.val = 0

\* The files that a path may reach: FAT cuts a long name after its first 13
\* characters (parse_lfn_entry), and falls back on the short name.
Cut(path) == [i \in DOMAIN path |-> SubSeq(path[i], 1, 1)]

Reached(path) ==
    {p \in DOMAIN vol.files : IF IsFat THEN path \in {Cut(p), vol.files[p].short} ELSE path = p}

\* The clusters of a file, and those of no file that the volume holds.
Clusters(path) == {vol.files[path].where[i] : i \in DOMAIN vol.files[path].where}

Loose == {c \in vol.clusters : \A path \in DOMAIN vol.files : c \notin Clusters(path)}

\* The lookup started the transfer of the file with the given path: at its first
\* cluster or on its inode, and of as many bytes as it has or the caller writes.
TransferOf(path) ==
    LET f == vol.files[path]
    IN  /\ IF vol.fs = "EXT"
           THEN /\ op.file \in DOMAIN vol.inode
                /\ vol.inode[op.file].size = f.size /\ vol.inode[op.file].blocks = f.where
           ELSE f.size > 0 => op.file = f.where[1]
        /\ IF op.call = "read" THEN op.len = f.size ELSE op.len = op.size /\ op.size <= f.size

\* The lookup started a transfer outside the files that the volume holds.
TransferOutside ==
    IF vol.fs = "EXT"
    THEN /\ op.file \in DOMAIN vol.inode
         /\ LET b == vol.inode[op.file].blocks IN \A i \in DOMAIN b : b[i] \in Loose \cup {0}
    ELSE op.file \in Loose

\* The second sector of a FAT12 entry was unreadable, and FAT12_EOC was taken for a
\* cluster: at all, or already while a directory was listed.
LeftChain == op.left # "no"

LostInDirectory == op.left = "dir"

\* A lookup succeeds only for a path that names a file of the volume, up to the 13
\* characters that FAT keeps of a name, and starts the transfer of that very file: no
\* deleted, unfinished or foreign long name and no listing cut short by a failed access
\* names another file.  The file of a damaged record lies outside all others.  The one
\* exception is a listing that goes on behind a FAT12 volume because the second sector
\* of a chain entry is unreadable: it searches whatever records lie there.
FoundIsNamed ==
    op.pc = "data" /\ ~LostInDirectory =>
        \/ \E path \in Reached(op.path) :
              TransferOf(path) /\ (Exists(op.path) => path = op.path)
        \/ op.path \in vol.damaged \ DOMAIN vol.files /\ TransferOutside

\* A read that returns 0 delivered the named file's own bytes from the start:
\* all of them, except that FAT returns 0 with a shorter count when a sector of
\* the FAT could not be read (fat32_read_file); its callers compare the count.  (Behind
\* the unreadable second sector of a FAT12 entry it delivers what it finds there.)
ReadDelivers ==
    Done("read") /\ Exists(op.path) =>
        /\ op.copied = vol.files[op.path].size \/ (IsFat /\ op.failed)
        /\ LeftChain \/ \A k \in 0 .. op.copied - 1 : op.out[k + 1] = FileByte(op.path, k)

\* A write that returns 0 stored the whole buffer at the start of the file.
WriteStores ==
    Done("write") /\ Exists(op.path) /\ ~LeftChain =>
        \A k \in 0 .. op.size - 1 : FileByte(op.path, k) = New(k)

\* A return value of 0 can be trusted: the two statements above, for every layout,
\* length and failing access.
TransfersComplete == ReadDelivers /\ WriteStores

\* A step changes only what the caller of an overwrite asked to change.
WriteInFile ==
    \A c \in DOMAIN data, i \in Offsets :
        data'[c][i] # data[c][i] =>
            /\ op.call = "write"
            /\ LostInDirectory \/
                 \A path \in DOMAIN vol.files \ Reached(op.path) : c \notin Clusters(path)
            /\ Exists(op.path) /\ ~LeftChain => \E k \in 0 .. op.size - 1 :
                  /\ c = vol.files[op.path].where[k \div ClusterBytes + 1]
                  /\ i = k % ClusterBytes

\* Overwriting changes no byte of another file, none of the same file beyond
\* the caller's buffer and none behind the end of the file, whichever access
\* fails; except that on FAT12, when the second sector of an entry cannot be read
\* (next_cluster), an overwrite goes on outside the volume, and a lookup may take
\* records from there, which name any cluster.
WritesStayInFile == [][WriteInFile]_volvars

\* The files within the limits of the code: on FAT, clusters of at most 8 sectors and
\* names of at most 13 characters; on FAT and exFAT, a record that lies in one cluster
\* and among the first DIR_MAX entries of its directory; on exFAT, no cluster behind
\* cluster_count, and a chain in the FAT if the file has several.
Served(path) ==
    LET f == vol.files[path]
    IN  /\ IsFat => ~vol.coarse /\ Cut(path) = path
        /\ vol.fs # "EXT" => ~f.split /\ f.rank <= DIR_MAX
        /\ vol.fs = "EXFAT" =>
              /\ \A c \in f.trail \cup Clusters(path) : c <= vol.count
              /\ f.chained \/ Len(f.where) <= 1

Ran(call) == op.pc = "idle" /\ op.call = call /\ Exists(op.path) /\ ~op.failed

\* Without an I/O failure the undamaged files that can be read into a buffer that is
\* large enough, and overwritten as a whole (what SYS_OPEN and SYS_CLOSE do), are
\* exactly those within the limits of the code.
WholeFileSucceeds ==
    /\ Ran("read") /\ vol.files[op.path].size <= op.size => (op.val = 0 <=> Served(op.path))
    /\ Ran("write") /\ vol.files[op.path].size = op.size => (op.val = 0 <=> Served(op.path))

\* The walk of an inode's pointers or extents yields the blocks of the file in
\* order, through single, double and triple indirect blocks, through inner nodes of
\* the extent tree, and 0 for the holes.
BlocksMapped ==
    vol.fs = "EXT" =>
        \A ino \in DOMAIN vol.inode :
            LET in == vol.inode[ino]
            IN  [i \in 1 .. BlockCount(in) |-> map_block(in, i - 1)] = in.blocks

\* The FAT leads from each cluster of a chained file to the next one and ends behind the
\* last, has no successor for the clusters of the others, and leads from no other
\* cluster into a file.
ChainsFollowed ==
    vol.fs # "EXT" =>
        /\ \A path \in DOMAIN vol.files :
              LET w == vol.files[path].where
              IN  \A i \in DOMAIN w :
                     Successors(w[i]) = {IF ~vol.files[path].chained THEN 0
                                         ELSE IF i = Len(w) THEN EOC ELSE w[i + 1]}
        /\ \A path \in DOMAIN vol.files : vol.files[path].chained \/ vol.fs = "EXFAT"
        /\ \A c \in Loose : Successors(c) \subseteq Loose \cup {EOC}
        /\ vol.fs = "FAT12" => FAT12_EOC \in Loose

\* What the code makes of the block maps and of the FAT is what the volume holds.
MapsEveryBlock == op = Idle => BlocksMapped /\ ChainsFollowed

\* Every operation returns, also on a file or a directory whose cluster chain is a
\* circle; only a circle of directory clusters that holds no entry is listed for ever
\* (list_cluster_entries counts entries, not clusters).
OperationReturns ==
    op.pc # "idle" ~> op.pc = "idle" \/ (op.pc = "dir" /\ op.at \in vol.barren)
============================================================================
