------------------------------ MODULE IoProofs ------------------------------
(***************************************************************************)
(* Proofs about the two components that move bytes between devices and     *)
(* callers: Volume, for any volumes, cluster size, files, buffers and      *)
(* failing accesses, and Ps2, for any number of keys and movements and any *)
(* lengths of the buffers.                                                 *)
(***************************************************************************)
EXTENDS Volume, Ps2, TLAPS

USE SMTT(30), ZenonT(30), SMTT(31)

----------------------------------------------------------------------------
(* Volume: the transfer of a file.  The lookup is taken for what           *)
(* FoundIsNamed says of it.                                                *)

Fields == {"pc", "call", "path", "rest", "at", "idx", "seen", "lfn", "file", "len", "size",
           "copied", "out", "val", "failed", "left"}

\* A transfer has copied whole clusters of the file with the given path, or all that
\* it copies, and stands at the cluster that comes next; or the FAT was unreadable or
\* has no chain for the file.
Placed(path) ==
    LET f == vol.files[path]
    IN  IF vol.fs = "EXT" THEN op.copied = Smaller(ClusterBytes * op.idx, f.size)
        ELSE /\ op.copied <= op.len
             /\ op.copied < op.len =>
                   \/ op.at = EOC /\ op.failed
                   \/ op.at = 0 /\ vol.fs = "EXFAT"
                   \/ \E j \in DOMAIN f.where :
                         op.copied = ClusterBytes * (j - 1) /\ op.at = f.where[j]

\* What was copied is the beginning of the file, or of the caller's buffer.
Copied(path) ==
    /\ op.call = "read" =>
          /\ op.out = [k \in 1 .. op.copied |-> op.out[k]]
          /\ \A k \in 0 .. op.copied - 1 : op.out[k + 1] = FileByte(path, k)
    /\ op.call = "write" =>
          \A k \in 0 .. op.copied - 1 : k < op.len => FileByte(path, k) = New(k)

\* A cluster of a file that the path of the operation reaches, or of none.
Near(c) ==
    \/ c \in Loose \cup {EOC} \/ (c = 0 /\ vol.fs = "EXFAT")
    \/ \E path \in Reached(op.path) : c \in Clusters(path)

\* A transfer of a file that the volume holds is on its way, unless a FAT12 chain
\* was left; and any transfer stays in the files that its path reaches or outside all,
\* unless its record was found outside the volume.
Under ==
    op.pc = "data" =>
        /\ Exists(op.path) /\ ~LeftChain =>
              op.copied \in Nat /\ Placed(op.path) /\ Copied(op.path)
        /\ vol.fs = "EXT" => op.idx \in Nat
        /\ vol.fs # "EXT" /\ ~LostInDirectory /\ op.copied < op.len =>
              Near(op.at)

\* What an operation remembers of failed accesses: a FAT12 chain is left only then.
Traced(o, fs) ==
    /\ o.failed \in BOOLEAN /\ o.left \in {"no", "dir", "data"}
    /\ o.left # "no" => o.failed = TRUE /\ fs = "FAT12"

OpShape ==
    /\ DOMAIN op = Fields
    /\ op.pc \in {"idle", "dir", "data"} /\ Traced(op, vol.fs)
    /\ op.pc # "idle" => op.call \in {"read", "write"} /\ op.size \in Nat
    /\ op.pc = "dir" => op.copied = 0 /\ op.out = <<>>

\* The inductive invariant of the transfers.
TransferInv ==
    /\ vol \in Layouts /\ DOMAIN data = vol.clusters
    /\ BlocksMapped /\ ChainsFollowed
    /\ OpShape /\ Under /\ TransfersComplete

\* A multiple of b lies b behind the one before.
LEMMA OneMore == ASSUME NEW b \in Nat, NEW j \in Int
  PROVE b * (j - 1) \in Int /\ b * j \in Int /\ b * j = b * (j - 1) + b
OBVIOUS

\* The next multiple of b lies b further.
LEMMA NextMultiple == ASSUME NEW a \in Int, NEW c \in Int, NEW b \in Nat, a < c
  PROVE b * a + b <= b * c
<1>1. PICK d \in Nat : c = a + 1 + d
  <2>1. c - a - 1 \in Nat OBVIOUS
  <2> QED BY <2>1
<1>2. b * c = b * a + b + b * d
  BY <1>1
<1>3. b * d >= 0
  OBVIOUS
<1> QED BY <1>2, <1>3

\* Quotient and remainder.
LEMMA Quotient == ASSUME NEW b \in Nat \ {0}, NEW q \in Int, NEW r \in 0 .. b - 1
  PROVE (b * q + r) \div b = q /\ (b * q + r) % b = r
<1> DEFINE a == b * q + r
           p == a \div b
<1>1. a \in Int /\ p \in Int /\ a % b \in 0 .. b - 1
  OBVIOUS
<1>2. a = b * p + (a % b) /\ a = b * q + r
  BY <1>1
<1> HIDE DEF p, a
<1>3. ~(p < q)
  BY <1>1, <1>2, NextMultiple
<1>4. ~(q < p)
  BY <1>1, <1>2, NextMultiple
<1>5. p = q
  BY <1>1, <1>3, <1>4
<1>6. a % b = r
  BY <1>1, <1>2, <1>5
<1> QED BY <1>5, <1>6 DEF a, p

\* Byte k of a file lies at offset k % ClusterBytes of its cluster k \div ClusterBytes.
LEMMA BytePlace == ASSUME NEW k \in Nat
  PROVE /\ k \div ClusterBytes \in Nat /\ k % ClusterBytes \in Offsets
        /\ k = ClusterBytes * (k \div ClusterBytes) + (k % ClusterBytes)
<1>1. ClusterBytes \in Nat \ {0}
  BY VolumeAssumption
<1>2. k \div ClusterBytes \in Nat
  BY <1>1
<1>3. k % ClusterBytes \in 0 .. ClusterBytes - 1
  BY <1>1
<1>4. k = ClusterBytes * (k \div ClusterBytes) + (k % ClusterBytes)
  BY <1>1
<1> QED BY <1>2, <1>3, <1>4 DEF Offsets

\* A block is one of an inode's if and only if it begins before the file's end.
LEMMA BlockBegins == ASSUME NEW s \in Nat, NEW i \in Nat
  PROVE /\ (s + ClusterBytes - 1) \div ClusterBytes \in Nat
        /\ i < (s + ClusterBytes - 1) \div ClusterBytes <=> ClusterBytes * i < s
<1> DEFINE b == ClusterBytes
           a == s + b - 1
           p == a \div b
<1>1. b \in Nat \ {0} /\ a \in Nat
  BY VolumeAssumption
<1>2. p \in Nat /\ a % b \in 0 .. b - 1
  BY <1>1
<1>3. a = b * p + (a % b)
  BY <1>1
<1>4. a = s + b - 1
  OBVIOUS
<1> HIDE DEF a, p, b
<1>5. ASSUME i < p PROVE b * i < s
  <2>1. b * i + b <= b * p
    BY <1>1, <1>2, <1>5, NextMultiple
  <2> QED BY <1>1, <1>2, <1>3, <1>4, <2>1
<1>6. ASSUME ~(i < p) PROVE ~(b * i < s)
  <2>1. b * p <= b * i
    <3>1. CASE p < i
      BY <1>1, <1>2, <3>1, NextMultiple
    <3>2. CASE p = i
      BY <1>1, <3>2
    <3> QED BY <1>2, <1>6, <3>1, <3>2
  <2>2. b * i \in Int /\ b * p \in Int
    BY <1>1, <1>2
  <2> QED BY <1>1, <1>2, <1>3, <1>4, <2>1, <2>2
<1> QED BY <1>2, <1>5, <1>6 DEF a, p, b

\* A file that the volume holds: its size, and its clusters, which are its own.
LEMMA FileShape == ASSUME vol \in Layouts, NEW path \in DOMAIN vol.files
  PROVE LET f == vol.files[path]
        IN  /\ f.size \in Nat /\ Len(f.where) \in Nat /\ DOMAIN f.where = 1 .. Len(f.where)
            /\ \A i \in DOMAIN f.where : f.where[i] \in vol.clusters
            /\ f.size <= ClusterBytes * Len(f.where)
            /\ \A i, j \in DOMAIN f.where : f.where[i] = f.where[j] => i = j
<1> DEFINE f == vol.files[path]
<1>1. f.size \in Nat /\ f.where \in Seq(vol.clusters) /\ f.size <= ClusterBytes * Len(f.where)
  BY LayoutAssumption
<1>2. \A i, j \in DOMAIN f.where : f.where[i] = f.where[j] => i = j
  BY LayoutAssumption
<1> HIDE DEF f
<1>3. Len(f.where) \in Nat /\ DOMAIN f.where = 1 .. Len(f.where)
  BY <1>1
<1>4. \A i \in DOMAIN f.where : f.where[i] \in vol.clusters
  BY <1>1
<1> QED BY <1>1, <1>2, <1>3, <1>4 DEF f

\* Every byte of a file has a cluster.
LEMMA ByteHasCluster ==
  ASSUME vol \in Layouts, NEW path \in DOMAIN vol.files, NEW k \in Nat, k < vol.files[path].size
  PROVE k \div ClusterBytes + 1 \in DOMAIN vol.files[path].where
<1> DEFINE q == k \div ClusterBytes
           n == Len(vol.files[path].where)
           s == vol.files[path].size
<1>1. ClusterBytes \in Nat \ {0} /\ s \in Nat /\ n \in Nat /\ s <= ClusterBytes * n
      /\ DOMAIN vol.files[path].where = 1 .. n
  BY FileShape, VolumeAssumption
<1>2. q \in Nat /\ k % ClusterBytes \in Nat /\ k = ClusterBytes * q + (k % ClusterBytes)
  <2>1. q \in Nat /\ k % ClusterBytes \in Offsets /\ k = ClusterBytes * q + (k % ClusterBytes)
    BY Zenon, BytePlace
  <2>2. Offsets \subseteq Nat
    BY <1>1 DEF Offsets
  <2> QED BY Zenon, <2>1, <2>2
<1>3. k < s
  OBVIOUS
<1> HIDE DEF q, n, s
<1>4. q < n
  <2>1. CASE n < q
    <3>1. ClusterBytes * n + ClusterBytes <= ClusterBytes * q
      BY <1>1, <1>2, <2>1, NextMultiple
    <3>2. ClusterBytes * n \in Int /\ ClusterBytes * q \in Int
      BY <1>1, <1>2
    <3> QED BY <1>1, <1>2, <1>3, <3>1, <3>2
  <2>2. CASE n = q
    <3>2. ClusterBytes * n \in Int
      BY <1>1
    <3> QED BY <1>1, <1>2, <1>3, <2>2, <3>2
  <2> QED BY <1>1, <1>2, <2>1, <2>2
<1>5. q + 1 \in 1 .. n
  BY <1>1, <1>2, <1>4
<1> QED BY <1>1, <1>5 DEF q, n

\* What the block maps and the FAT say does not change.
LEMMA StaticKept == ASSUME vol' = vol
  PROVE (BlocksMapped <=> BlocksMapped') /\ (ChainsFollowed <=> ChainsFollowed')
BY DEF BlocksMapped, ChainsFollowed, Successors, entry12, Loose, Clusters, BlockCount, map_block,
       map_indirect, Pointer, read_u32_block, map_extents_recurse

\* Return keeps what the caller asked for and what was copied.
LEMMA Returned == ASSUME NEW o, NEW v, DOMAIN o = Fields, Return(o, v)
  PROVE /\ DOMAIN op' = Fields /\ op'.pc = "idle" /\ op'.call = o.call /\ op'.path = o.path
        /\ op'.size = o.size /\ op'.copied = o.copied /\ op'.out = o.out
        /\ op'.val = v /\ op'.failed = o.failed /\ op'.left = o.left
BY Zenon DEF Return, Idle, Fields

\* An operation that returns an error keeps the invariant.
LEMMA ReturnsError ==
  ASSUME TransferInv, NEW o, DOMAIN o = Fields, Traced(o, vol.fs), Return(o, -1),
         vol' = vol, DOMAIN data' = DOMAIN data
  PROVE TransferInv'
<1>1. DOMAIN op' = Fields /\ op'.pc = "idle" /\ op'.val = -1
      /\ op'.failed = o.failed /\ op'.left = o.left
  BY Returned
<1>2. OpShape' /\ Under'
  BY <1>1 DEF OpShape, Under, Traced
<1>3. TransfersComplete'
  BY <1>1 DEF TransfersComplete, ReadDelivers, WriteStores, Done
<1>4. BlocksMapped' /\ ChainsFollowed'
  BY StaticKept DEF TransferInv
<1> QED BY <1>2, <1>3, <1>4 DEF TransferInv

\* A step of the transfer of a file that the volume holds goes to the cluster in
\* which the next byte lies.
LEMMA TargetIsNext ==
  ASSUME TransferInv, FoundIsNamed, op.pc = "data", Exists(op.path), ~LeftChain, More
  PROVE \E j \in DOMAIN vol.files[op.path].where :
           /\ Target = vol.files[op.path].where[j] /\ op.copied = ClusterBytes * (j - 1)
           /\ op.copied < vol.files[op.path].size
           /\ IF vol.fs = "EXT" THEN op.idx = j - 1 ELSE op.at = Target /\ op.copied < op.len
<1> DEFINE f == vol.files[op.path]
<1>1. TransferOf(op.path) /\ vol \in Layouts /\ op.path \in DOMAIN vol.files
  BY DEF FoundIsNamed, LeftChain, LostInDirectory, TransferInv, Exists
<1>2. op.copied \in Nat /\ Placed(op.path) /\ (vol.fs = "EXT" => op.idx \in Nat)
  BY DEF TransferInv, Under
<1>3. f.size \in Nat /\ DOMAIN f.where = 1 .. Len(f.where) /\ Len(f.where) \in Nat
  BY <1>1, FileShape
<1>4. CASE vol.fs = "EXT"
  <2> DEFINE in == vol.inode[op.file]
  <2>1. op.file \in DOMAIN vol.inode /\ in.size = f.size /\ in.blocks = f.where
    BY <1>1, <1>4 DEF TransferOf
  <2>2. op.idx \in Nat /\ op.idx < BlockCount(in)
    BY <1>2, <1>4 DEF More
  <2>3. BlockCount(in) \in Nat /\ ClusterBytes * op.idx < f.size
    <3> DEFINE count == (f.size + ClusterBytes - 1) \div ClusterBytes
    <3>1. BlockCount(in) = count
      BY Zenon, <2>1 DEF BlockCount
    <3>2. count \in Nat /\ (op.idx < count <=> ClusterBytes * op.idx < f.size)
      BY Zenon, <1>3, <2>2, BlockBegins
    <3> QED BY Zenon, <2>2, <3>1, <3>2
  <2>4. op.copied = ClusterBytes * op.idx
    BY <1>2, <1>4, <2>3 DEF Placed, Smaller
  <2>5. [i \in 1 .. BlockCount(in) |-> map_block(in, i - 1)] = f.where
    BY Zenon, <1>4, <2>1 DEF TransferInv, BlocksMapped
  <2>6. Target = map_block(in, op.idx)
    BY <1>4 DEF Target
  <2> DEFINE j == op.idx + 1
  <2>7. j \in 1 .. BlockCount(in) /\ op.idx = j - 1
    BY <2>2, <2>3
  <2> HIDE DEF in, f, j
  <2>8. j \in DOMAIN f.where /\ f.where[j] = map_block(in, j - 1)
    BY Zenon, <2>5, <2>7
  <2>9. Target = f.where[j] /\ op.copied = ClusterBytes * (j - 1) /\ op.copied < f.size
    BY <2>3, <2>4, <2>6, <2>7, <2>8
  <2> QED BY <1>4, <2>7, <2>8, <2>9 DEF f
<1>5. CASE vol.fs # "EXT"
  <2>1. op.at # EOC /\ (vol.fs = "EXFAT" => op.at # 0) /\ op.copied < op.len /\ Target = op.at
    BY <1>5 DEF More, Target
  <2>2. PICK j \in DOMAIN f.where : op.copied = ClusterBytes * (j - 1) /\ op.at = f.where[j]
    BY <1>2, <1>5, <2>1 DEF Placed
  <2>3. op.len \in Nat /\ op.len <= f.size
    <3>1. op.call \in {"read", "write"} /\ op.size \in Nat
      BY DEF TransferInv, OpShape
    <3> QED BY <1>1, <1>3, <3>1 DEF TransferOf
  <2>4. op.copied < f.size
    BY <1>2, <1>3, <2>1, <2>3
  <2> QED BY <1>5, <2>1, <2>2, <2>4
<1> QED BY <1>4, <1>5

\* How far a step goes: one cluster, or to the end.
LEMMA ChunkIs ==
  ASSUME TransferInv, FoundIsNamed, op.pc = "data", Exists(op.path), ~LeftChain, More
  PROVE LET e == IF vol.fs = "EXT" THEN vol.files[op.path].size ELSE op.len
        IN  /\ op.len \in Nat /\ op.len <= vol.files[op.path].size
            /\ Chunk \in 1 .. ClusterBytes /\ op.copied + Chunk <= e
            /\ Chunk = ClusterBytes \/ op.copied + Chunk = e
<1> DEFINE f == vol.files[op.path]
           e == IF vol.fs = "EXT" THEN f.size ELSE op.len
<1>1. TransferOf(op.path) /\ f.size \in Nat /\ op.copied \in Nat /\ ClusterBytes \in Nat \ {0}
  BY FileShape, VolumeAssumption DEF FoundIsNamed, LeftChain, LostInDirectory, TransferInv, Exists,
                                     Under
<1>2. op.len \in Nat /\ op.len <= f.size
  <2>1. op.call \in {"read", "write"} /\ op.size \in Nat
    BY DEF TransferInv, OpShape
  <2> QED BY <1>1, <2>1 DEF TransferOf
<1>3. op.copied < e
  BY TargetIsNext
<1>4. Chunk = Smaller(ClusterBytes, e - op.copied)
  BY <1>1 DEF Chunk, TransferOf
<1>5. e \in Nat
  BY <1>1, <1>2
<1> HIDE DEF e
<1>6. /\ Chunk \in 1 .. ClusterBytes /\ op.copied + Chunk <= e
      /\ Chunk = ClusterBytes \/ op.copied + Chunk = e
  BY <1>1, <1>3, <1>4, <1>5 DEF Smaller
<1> QED BY <1>2, <1>6 DEF e

\* The bytes that a step transfers are those of the cluster, from its beginning, and
\* the bytes before them lie in other clusters.
LEMMA BytesOfStep ==
  ASSUME vol \in Layouts, NEW path \in DOMAIN vol.files, NEW j \in DOMAIN vol.files[path].where,
         NEW k \in Nat, k < vol.files[path].size
  PROVE LET w == vol.files[path].where
            c == w[k \div ClusterBytes + 1]
            n == ClusterBytes * (j - 1)
        IN  /\ k < n => c # w[j]
            /\ n <= k /\ k < n + ClusterBytes => c = w[j] /\ k % ClusterBytes = k - n
<1> DEFINE w == vol.files[path].where
           q == k \div ClusterBytes
           n == ClusterBytes * (j - 1)
<1>1. ClusterBytes \in Nat \ {0} /\ j \in Nat /\ DOMAIN w = 1 .. Len(w) /\ Len(w) \in Nat
  BY FileShape, VolumeAssumption
<1>2. q + 1 \in DOMAIN w /\ q \in Nat /\ k % ClusterBytes \in 0 .. ClusterBytes - 1
      /\ k = ClusterBytes * q + (k % ClusterBytes)
  BY ByteHasCluster, BytePlace DEF Offsets
<1>3. j - 1 \in Int /\ n \in Int
  BY <1>1
<1>4. ASSUME k < n PROVE w[q + 1] # w[j]
  <2>1. q + 1 # j
    BY <1>1, <1>2, <1>4
  <2> QED BY <1>2, <2>1, FileShape
<1>5. ASSUME n <= k, k < n + ClusterBytes PROVE q + 1 = j /\ k % ClusterBytes = k - n
  <2>1. k - n \in 0 .. ClusterBytes - 1 /\ k = ClusterBytes * (j - 1) + (k - n)
    BY <1>1, <1>3, <1>5
  <2> DEFINE r == k - n
             i == j - 1
  <2>2. r \in 0 .. ClusterBytes - 1 /\ i \in Int /\ k = ClusterBytes * i + r
    BY <1>3, <2>1
  <2> HIDE DEF r, i, n
  <2>3. k \div ClusterBytes = i /\ k % ClusterBytes = r
    BY Zenon, <1>1, <2>2, Quotient
  <2> QED BY <1>1, <2>3 DEF r, i
<1> QED BY <1>4, <1>5

\* What next_cluster returns.
LEMMA NextCluster == ASSUME NEW c, NEW n \in next_cluster(c)
  PROVE \/ n[1] \in Successors(c) /\ n[2] = FALSE
        \/ n[1] = EOC /\ n[2] = TRUE
        \/ n = <<FAT12_EOC, TRUE>> /\ n[1] = FAT12_EOC /\ n[2] = TRUE /\ vol.fs = "FAT12"
<1>1. \/ n \in {<<m, FALSE>> : m \in Successors(c)}
      \/ n = <<EOC, TRUE>>
      \/ n = <<FAT12_EOC, TRUE>> /\ vol.fs = "FAT12"
  BY Zenon DEF next_cluster
<1>2. ASSUME n \in {<<m, FALSE>> : m \in Successors(c)} PROVE n[1] \in Successors(c) /\ n[2] = FALSE
  <2>1. PICK m \in Successors(c) : n = <<m, FALSE>>
    BY Zenon, <1>2
  <2> QED BY <2>1
<1>3. <<EOC, TRUE>>[1] = EOC /\ <<EOC, TRUE>>[2] = TRUE
      /\ <<FAT12_EOC, TRUE>>[1] = FAT12_EOC /\ <<FAT12_EOC, TRUE>>[2] = TRUE
  OBVIOUS
<1> QED BY Zenon, <1>1, <1>2, <1>3

\* From a cluster of a reached file or of none, the FAT leads to such a cluster.
LEMMA StaysNear ==
  ASSUME TransferInv, vol.fs # "EXT", NEW c, c # EOC, vol.fs = "EXFAT" => c # 0, Near(c),
         NEW n \in next_cluster(c)
  PROVE Near(n[1])
<1>1. ChainsFollowed
  BY DEF TransferInv
<1>2. CASE n[1] = EOC
  BY <1>2 DEF Near
<1>3. CASE n[1] = FAT12_EOC /\ vol.fs = "FAT12"
  BY <1>1, <1>3 DEF Near, ChainsFollowed
<1>4. CASE n[1] \in Successors(c)
  <2>1. CASE c \in Loose
    BY <1>1, <1>4, <2>1 DEF Near, ChainsFollowed
  <2>2. CASE \E path \in Reached(op.path) : c \in Clusters(path)
    <3>0. PICK path \in Reached(op.path) : c \in Clusters(path)
      BY <2>2
    <3> DEFINE w == vol.files[path].where
    <3>1. PICK i \in DOMAIN w : c = w[i]
      BY <3>0 DEF Clusters
    <3>2. path \in DOMAIN vol.files
      BY <3>1 DEF Reached
    <3>3. /\ Successors(w[i]) = {IF ~vol.files[path].chained THEN 0
                                  ELSE IF i = Len(w) THEN EOC ELSE w[i + 1]}
          /\ vol.files[path].chained \/ vol.fs = "EXFAT"
      BY Zenon, <1>1, <3>2 DEF ChainsFollowed
    <3>4. i # Len(w) => i + 1 \in DOMAIN w
      BY <3>2, FileShape DEF TransferInv
    <3>5. n[1] = EOC \/ (n[1] = 0 /\ vol.fs = "EXFAT") \/ n[1] \in Clusters(path)
      BY <1>4, <3>1, <3>3, <3>4 DEF Clusters
    <3> QED BY <3>5 DEF Near
  <2> QED BY <2>1, <2>2 DEF Near
<1> QED BY Zenon, <1>2, <1>3, <1>4, NextCluster

\* From o an operation went to m with what next_cluster returned.
Went(o, n, m) ==
    /\ m.at = n[1] /\ m.failed = (o.failed \/ n[2])
    /\ o.left # "no" => m.left = o.left
    /\ n = <<FAT12_EOC, TRUE>> => m.left # "no"

\* Going on with a cluster changes nothing else, and remembers a failed access.
LEMMA Followed ==
  ASSUME NEW o, DOMAIN o = Fields, o.pc \in {"dir", "data"}, Traced(o, vol.fs),
         NEW c, NEW n \in next_cluster(c), NEW m, m = Follow(o, n)
  PROVE /\ DOMAIN m = Fields /\ m.pc = o.pc /\ m.call = o.call /\ m.path = o.path
        /\ m.file = o.file /\ m.len = o.len /\ m.size = o.size /\ m.copied = o.copied
        /\ m.out = o.out /\ Went(o, n, m) /\ Traced(m, vol.fs)
<1>1. /\ DOMAIN m = Fields /\ m.pc = o.pc /\ m.call = o.call /\ m.path = o.path
      /\ m.file = o.file /\ m.len = o.len /\ m.size = o.size /\ m.copied = o.copied
      /\ m.out = o.out /\ m.at = n[1] /\ m.failed = (o.failed \/ n[2])
      /\ m.left = IF n = <<FAT12_EOC, TRUE>> /\ o.left = "no" THEN o.pc ELSE o.left
  BY ZenonT(40) DEF Follow, Fields
<1>2. n[2] \in BOOLEAN /\ (n = <<FAT12_EOC, TRUE>> => n[2] = TRUE /\ vol.fs = "FAT12")
  <2>1. <<FAT12_EOC, TRUE>>[1] = FAT12_EOC /\ <<FAT12_EOC, TRUE>>[2] = TRUE /\ FAT12_EOC # EOC
        /\ TRUE # FALSE
    BY DEF FAT12_EOC, EOC
  <2> QED BY ZenonT(40), <2>1, NextCluster
<1>3. Went(o, n, m)
  BY ZenonT(40), <1>1 DEF Went
<1>4. o.failed \in BOOLEAN /\ o.left \in {"no", "dir", "data"}
      /\ (o.left # "no" => o.failed = TRUE /\ vol.fs = "FAT12")
  BY DEF Traced
<1>5. CASE n = <<FAT12_EOC, TRUE>> /\ o.left = "no"
  <2>1. m.left \in {"no", "dir", "data"} /\ m.failed = TRUE /\ vol.fs = "FAT12"
    BY ZenonT(40), <1>1, <1>2, <1>5
  <2> QED BY ZenonT(40), <1>1, <1>3, <2>1 DEF Traced
<1>6. CASE ~(n = <<FAT12_EOC, TRUE>> /\ o.left = "no")
  <2>1. m.left = o.left /\ m.failed \in BOOLEAN /\ (o.failed = TRUE => m.failed = TRUE)
    BY ZenonT(40), <1>1, <1>2, <1>4, <1>6
  <2> QED BY ZenonT(40), <1>1, <1>3, <1>4, <2>1 DEF Traced
<1> QED BY ZenonT(40), <1>1, <1>3, <1>5, <1>6

\* An iteration of the transfer's loop goes on to the next block, or to what
\* next_cluster returns.
LEMMA Advanced == ASSUME NEW o, DOMAIN o = Fields, o.pc = "data", Traced(o, vol.fs), Advance(o)
  PROVE /\ DOMAIN op' = Fields /\ op'.pc = o.pc /\ op'.call = o.call /\ op'.path = o.path
        /\ op'.file = o.file /\ op'.len = o.len /\ op'.size = o.size
        /\ op'.copied = o.copied /\ op'.out = o.out /\ Traced(op', vol.fs)
        /\ vol.fs = "EXT" => op'.idx = o.idx + 1 /\ op'.failed = o.failed /\ op'.left = o.left
        /\ vol.fs # "EXT" => \E n \in next_cluster(o.at) : Went(o, n, op')
<1>1. CASE vol.fs = "EXT"
  BY <1>1 DEF Advance, Fields, Traced
<1>2. CASE vol.fs # "EXT"
  <2>1. PICK n \in next_cluster(o.at) : op' = Follow(o, n)
    BY Zenon, <1>2 DEF Advance
  <2> QED BY ZenonT(40), <1>2, <2>1, Followed
<1> QED BY Zenon, <1>1, <1>2

\* After a step the transfer has again copied whole clusters, or all.
LEMMA PlacedNext ==
  ASSUME TransferInv, FoundIsNamed, op.pc = "data", Exists(op.path), ~LeftChain, More,
         vol' = vol, op'.path = op.path, op'.len = op.len, op'.copied = op.copied + Chunk,
         vol.fs = "EXT" => op'.idx = op.idx + 1,
         vol.fs # "EXT" => \E n \in next_cluster(op.at) : Went(op, n, op')
  PROVE /\ op'.copied \in Nat
        /\ ~LeftChain' => Placed(op.path)'
<1> DEFINE f == vol.files[op.path]
<1>1. PICK j \in DOMAIN f.where :
           /\ Target = f.where[j] /\ op.copied = ClusterBytes * (j - 1)
           /\ op.copied < f.size
           /\ IF vol.fs = "EXT" THEN op.idx = j - 1 ELSE op.at = Target /\ op.copied < op.len
  BY TargetIsNext
<1>2. /\ op.len \in Nat /\ op.len <= f.size
      /\ Chunk \in 1 .. ClusterBytes 
      /\ op.copied + Chunk <= IF vol.fs = "EXT" THEN f.size ELSE op.len
      /\ Chunk = ClusterBytes \/ op.copied + Chunk = IF vol.fs = "EXT" THEN f.size ELSE op.len
  BY ChunkIs
<1>3. f.size \in Nat /\ ClusterBytes \in Nat \ {0} /\ op.copied \in Nat
      /\ Len(f.where) \in Nat /\ DOMAIN f.where = 1 .. Len(f.where)
      /\ f.size <= ClusterBytes * Len(f.where)
  BY Zenon, FileShape, VolumeAssumption DEF TransferInv, Under, Exists
<1>4. j \in Nat /\ ClusterBytes * (j - 1) \in Int /\ ClusterBytes * j \in Int
      /\ ClusterBytes * j = ClusterBytes * (j - 1) + ClusterBytes
  <2>1. j \in Nat /\ j \in Int /\ ClusterBytes \in Nat
    BY <1>3
  <2> QED BY Zenon, <2>1, OneMore
<1>5. op'.copied \in Nat
  BY <1>2, <1>3
<1>6. CASE vol.fs = "EXT"
  <2>1. op'.idx = j
    BY <1>1, <1>4, <1>6
  <2>2. op'.copied = Smaller(ClusterBytes * j, f.size)
    BY <1>1, <1>2, <1>3, <1>4, <1>6 DEF Smaller
  <2> QED BY Zenon, <1>5, <1>6, <2>1, <2>2 DEF Placed
<1>7. CASE vol.fs # "EXT"
  <2> SUFFICES ASSUME ~LeftChain' PROVE Placed(op.path)'
    BY <1>5
  <2>1. PICK n \in next_cluster(op.at) : Went(op, n, op')
    BY <1>7
  <2>0. op'.at = n[1] /\ op'.failed = (op.failed \/ n[2]) /\ n # <<FAT12_EOC, TRUE>>
    BY Zenon, <2>1 DEF Went, LeftChain
  <2>2. op'.copied <= op'.len
    BY <1>2, <1>7
  <2>3. ASSUME op'.copied < op'.len
        PROVE \/ op'.at = EOC /\ op'.failed
              \/ op'.at = 0 /\ vol.fs = "EXFAT"
              \/ \E i \in DOMAIN f.where : op'.copied = ClusterBytes * (i - 1) /\ op'.at = f.where[i]
    <3>1. Chunk = ClusterBytes /\ op'.copied = ClusterBytes * j
      BY <1>1, <1>2, <1>3, <1>4, <1>7, <2>3
    <3>2. ClusterBytes * j < ClusterBytes * Len(f.where)
      <4> DEFINE x == ClusterBytes * j
                 y == ClusterBytes * Len(f.where)
      <4>1. x \in Int /\ y \in Int
        <5>1. ClusterBytes \in Int /\ Len(f.where) \in Int
          BY <1>3
        <5>2. y \in Int
          BY <5>1
        <5> QED BY Zenon, <1>4, <5>2
      <4>2. x < op.len /\ f.size <= y
        BY Zenon, <1>3, <2>3, <3>1
      <4> HIDE DEF x, y
      <4>3. x < y
        BY <1>2, <1>3, <4>1, <4>2
      <4> QED BY Zenon, <4>3 DEF x, y
    <3>3. j # Len(f.where) /\ j + 1 \in DOMAIN f.where
      BY <1>3, <1>4, <3>2
    <3>4. \/ Successors(op.at) = {f.where[j + 1]}
          \/ Successors(op.at) = {0} /\ vol.fs = "EXFAT"
      <4>1. ChainsFollowed /\ op.path \in DOMAIN vol.files /\ op.at = f.where[j]
        BY <1>1, <1>7 DEF TransferInv, Exists
      <4> QED BY Zenon, <1>7, <3>3, <4>1 DEF ChainsFollowed
    <3>5. CASE n[1] \in Successors(op.at)
      <4>0. CASE Successors(op.at) = {0} /\ vol.fs = "EXFAT"
        BY <2>0, <3>5, <4>0
      <4> SUFFICES ASSUME Successors(op.at) = {f.where[j + 1]}
                   PROVE \E i \in DOMAIN f.where : op'.copied = ClusterBytes * (i - 1) /\ op'.at = f.where[i]
        BY <3>4, <4>0
      <4>1. op'.at = f.where[j + 1]
        BY <2>0, <3>5
      <4>2. op'.copied = ClusterBytes * ((j + 1) - 1)
        BY <1>4, <3>1
      <4> QED BY <3>3, <4>1, <4>2
    <3>6. CASE n[1] = EOC /\ n[2] = TRUE
      BY Zenon, <2>0, <3>6
    <3> QED BY Zenon, <2>0, <3>5, <3>6, NextCluster
  <2> QED BY <1>7, <2>2, <2>3 DEF Placed
<1> QED BY <1>5, <1>6, <1>7

\* Two functions on 1 .. n and 1 .. m, one behind the other.
LEMMA Joined ==
  ASSUME NEW n \in Nat, NEW m \in Nat, NEW s, NEW t,
         s = [k \in 1 .. n |-> s[k]], t = [k \in 1 .. m |-> t[k]]
  PROVE s \o t = [k \in 1 .. n + m |-> IF k <= n THEN s[k] ELSE t[k - n]]
<1> DEFINE S == {s[k] : k \in 1 .. n} \cup {t[k] : k \in 1 .. m}
<1>1. s \in [1 .. n -> S] /\ t \in [1 .. m -> S]
  OBVIOUS
<1> HIDE DEF S
<1>2. s \in Seq(S) /\ t \in Seq(S) /\ Len(s) = n /\ Len(t) = m
  BY <1>1
<1> QED BY <1>2

\* Nothing was copied yet, and the transfer begins.
LEMMA EntersTransfer ==
  ASSUME TransferInv, FoundIsNamed', vol' = vol, data' = data,
         DOMAIN op' = Fields, op'.pc = "data", op'.call \in {"read", "write"}, op'.size \in Nat,
         Traced(op', vol.fs), op'.copied = 0, op'.out = <<>>,
         vol.fs = "EXT" => op'.idx = 0, vol.fs # "EXT" => op'.at = op'.file
  PROVE TransferInv'
<1>1. OpShape' /\ BlocksMapped' /\ ChainsFollowed' /\ vol' \in Layouts /\ DOMAIN data' = vol'.clusters
  BY StaticKept DEF OpShape, TransferInv
<1>2. TransfersComplete'
  BY DEF TransfersComplete, ReadDelivers, WriteStores, Done
<1>3. ASSUME Exists(op.path)', ~LostInDirectory' PROVE Placed(op.path)' /\ Copied(op.path)'
  <2> DEFINE p == op'.path
             f == vol.files[p]
  <2>1. p \in DOMAIN vol.files /\ TransferOf(op.path)'
    BY <1>3 DEF FoundIsNamed, Exists
  <2>2. /\ f.size \in Nat /\ Len(f.where) \in Nat /\ DOMAIN f.where = 1 .. Len(f.where)
        /\ f.size <= ClusterBytes * Len(f.where) /\ ClusterBytes \in Nat \ {0}
    BY Zenon, <2>1, FileShape, VolumeAssumption DEF TransferInv
  <2>3. op'.len \in Nat /\ op'.len <= f.size
    BY <2>1, <2>2 DEF TransferOf
  <2>4. Placed(op.path)'
    <3>1. CASE vol.fs = "EXT"
      <4>1. op'.idx = 0 /\ ClusterBytes * op'.idx = 0
        BY <2>2, <3>1
      <4>2. Smaller(0, f.size) = 0
        BY <2>2 DEF Smaller
      <4> QED BY Zenon, <3>1, <4>1, <4>2 DEF Placed
    <3>2. CASE vol.fs # "EXT"
      <4>1. op'.copied <= op'.len
        BY <2>3
      <4>2. ASSUME op'.copied < op'.len
            PROVE \E j \in DOMAIN f.where : op'.copied = ClusterBytes * (j - 1) /\ op'.at = f.where[j]
        <5>1. f.size > 0
          BY <2>2, <2>3, <4>2
        <5>2. 1 \in DOMAIN f.where /\ ClusterBytes * (1 - 1) = 0
          BY <2>2, <5>1
        <5>3. op'.at = f.where[1]
          BY Zenon, <2>1, <3>2, <5>1 DEF TransferOf
        <5> QED BY <5>2, <5>3
      <4> QED BY <3>2, <4>1, <4>2 DEF Placed
    <3> QED BY <3>1, <3>2
  <2>5. Copied(op.path)'
    <3>1. op'.out = [k \in 1 .. op'.copied |-> op'.out[k]]
      OBVIOUS
    <3>2. 0 .. op'.copied - 1 = {}
      OBVIOUS
    <3> QED BY Zenon, <3>1, <3>2 DEF Copied
  <2> QED BY <2>4, <2>5
<1>4. ASSUME vol.fs # "EXT", ~LostInDirectory', op'.copied < op'.len PROVE Near(op.at)'
  <2>1. op'.at = op'.file
    BY <1>4
  <2>2. CASE TransferOutside'
    BY <1>4, <2>1, <2>2 DEF TransferOutside, Near, Loose
  <2>3. CASE \E path \in Reached(op.path)' : TransferOf(path)'
    <3>1. PICK path \in Reached(op.path)' : TransferOf(path)'
      BY <2>3
    <3> DEFINE f == vol.files[path]
    <3>2. path \in DOMAIN vol.files
      BY <3>1 DEF Reached
    <3>3. /\ f.size \in Nat /\ Len(f.where) \in Nat /\ DOMAIN f.where = 1 .. Len(f.where)
          /\ f.size <= ClusterBytes * Len(f.where) /\ ClusterBytes \in Nat \ {0}
      BY Zenon, <3>2, FileShape, VolumeAssumption DEF TransferInv
    <3>4. f.size > 0
      BY <1>4, <3>1, <3>3 DEF TransferOf
    <3>5. op'.at = f.where[1] /\ 1 \in DOMAIN f.where
      BY <1>4, <2>1, <3>1, <3>3, <3>4 DEF TransferOf
    <3>6. op'.at \in Clusters(path)'
      BY Zenon, <3>5 DEF Clusters
    <3> QED BY Zenon, <3>1, <3>6 DEF Near
  <2> QED BY Zenon, <1>4, <2>2, <2>3 DEF FoundIsNamed
<1>5. Under'
  BY <1>3, <1>4 DEF Under, LeftChain, LostInDirectory
<1> QED BY <1>1, <1>2, <1>5 DEF TransferInv

\* The lookup goes on.
LEMMA StaysInLookup ==
  ASSUME TransferInv, vol' = vol, data' = data,
         DOMAIN op' = Fields, op'.pc = "dir", op'.call \in {"read", "write"}, op'.size \in Nat,
         Traced(op', vol.fs), op'.copied = 0, op'.out = <<>>
  PROVE TransferInv'
<1>1. OpShape' /\ BlocksMapped' /\ ChainsFollowed' /\ vol' \in Layouts /\ DOMAIN data' = vol'.clusters
  BY StaticKept DEF OpShape, TransferInv
<1>2. TransfersComplete' /\ Under'
  BY DEF TransfersComplete, ReadDelivers, WriteStores, Done, Under
<1> QED BY <1>1, <1>2 DEF TransferInv

\* The state of an operation during a lookup.
Looking(o) ==
    /\ DOMAIN o = Fields /\ o.pc = "dir" /\ o.call \in {"read", "write"} /\ o.size \in Nat
    /\ Traced(o, vol.fs) /\ o.copied = 0 /\ o.out = <<>>

\* Searching a FAT or exFAT listing keeps the invariant.
LEMMA SearchKeeps ==
  ASSUME TransferInv, FoundIsNamed', vol.fs # "EXT", vol' = vol, data' = data,
         NEW o, Looking(o), Search(o)
  PROVE TransferInv'
<1> DEFINE e == FirstNamed(o.seen, Head(o.rest))
<1>1. CASE Return(o, -1)
  BY <1>1, ReturnsError DEF Looking
<1>2. CASE op' = [o EXCEPT !.rest = Tail(@), !.at = e.first, !.seen = <<>>, !.lfn = <<>>]
  <2>1. Looking(op')
    BY Zenon, <1>2 DEF Looking, Fields, Traced
  <2> QED BY Zenon, <2>1, StaysInLookup DEF Looking
<1>3. CASE op' = [o EXCEPT !.pc = "data", !.at = e.first, !.seen = <<>>, !.lfn = <<>>,
                         !.file = e.first, !.rest = <<>>,
                         !.len = IF o.call = "read" THEN e.size ELSE o.size]
  <2>1. /\ DOMAIN op' = Fields /\ op'.pc = "data" /\ op'.call = o.call /\ op'.size = o.size
        /\ op'.failed = o.failed /\ op'.left = o.left /\ op'.copied = o.copied /\ op'.out = o.out
        /\ op'.at = e.first /\ op'.file = e.first
    BY Zenon, <1>3 DEF Looking, Fields
  <2>2. Traced(op', vol.fs)
    BY Zenon, <2>1 DEF Looking, Traced
  <2> QED BY Zenon, <2>1, <2>2, EntersTransfer DEF Looking
<1> QED BY Zenon, <1>1, <1>2, <1>3 DEF Search, FatStart

\* Listing a directory cluster keeps the invariant.
LEMMA ListStepKeeps == ASSUME TransferInv, FoundIsNamed', ListStep PROVE TransferInv'
<1> DEFINE l == list_cluster
           o == [op EXCEPT !.seen = l.seen, !.lfn = l.lfn]
<1>1. Looking(op) /\ vol.fs # "EXT" /\ vol' = vol /\ data' = data
  BY Zenon DEF ListStep, TransferInv, OpShape, Looking
<1>2. Looking(Failing(op))
  BY ZenonT(40), <1>1 DEF Looking, Failing, Fields, Traced
<1>3. Looking(o)
  BY ZenonT(40), <1>1 DEF Looking, Fields, Traced
<1>4. ASSUME NEW n \in next_cluster(op.at) PROVE Looking(Follow(o, n))
  <2> HIDE DEF o
  <2>1. DOMAIN o = Fields /\ o.pc \in {"dir", "data"} /\ Traced(o, vol.fs)
    BY Zenon, <1>3 DEF Looking
  <2> DEFINE m == Follow(o, n)
  <2>2. m = Follow(o, n)
    OBVIOUS
  <2> HIDE DEF m
  <2>3. DOMAIN m = Fields /\ m.pc = o.pc /\ m.call = o.call /\ m.size = o.size
        /\ m.copied = o.copied /\ m.out = o.out /\ Traced(m, vol.fs)
    BY ZenonT(40), <2>1, <2>2, Followed
  <2> QED BY ZenonT(40), <1>3, <2>2, <2>3 DEF Looking
<1>5. CASE Search(op)
  BY Zenon, <1>1, <1>5, SearchKeeps
<1>6. CASE Search(Failing(op))
  BY Zenon, <1>1, <1>2, <1>6, SearchKeeps
<1>7. CASE Search(o)
  BY Zenon, <1>1, <1>3, <1>7, SearchKeeps
<1>8. CASE \E n \in next_cluster(op.at) :
              LET m == Follow(o, n)
              IN  Search(m) \/ op' = m
  <2>1. PICK n \in next_cluster(op.at) :
              LET m == Follow(o, n)
              IN  Search(m) \/ op' = m
    BY Zenon, <1>8
  <2> DEFINE m == Follow(o, n)
  <2>2. Looking(m)
    BY Zenon, <1>4
  <2>3. Search(m) \/ op' = m
    BY Zenon, <2>1
  <2> HIDE DEF m
  <2>4. CASE Search(m)
    BY Zenon, <1>1, <2>2, <2>4, SearchKeeps
  <2>5. CASE op' = m
    <3>1. Looking(op')
      BY Zenon, <2>2, <2>5
    <3> QED BY Zenon, <1>1, <3>1, StaysInLookup DEF Looking
  <2> QED BY Zenon, <2>3, <2>4, <2>5
<1> QED BY Zenon, <1>5, <1>6, <1>7, <1>8 DEF ListStep

\* Searching an ext directory block keeps the invariant.
LEMMA ExtDirStepKeeps == ASSUME TransferInv, FoundIsNamed', ExtDirStep PROVE TransferInv'
<1> DEFINE r == FirstNamed(vol.dir[map_block(vol.inode[op.at], op.idx)], Head(op.rest))
           ino == r.ino
           in == vol.inode[ino]
<1>1. Looking(op) /\ vol.fs = "EXT" /\ vol' = vol /\ data' = data
  BY DEF ExtDirStep, TransferInv, OpShape, Looking
<1>2. Looking(Failing(op))
  BY Zenon, <1>1 DEF Looking, Failing, Fields, Traced
<1>3. CASE Return(op, -1)
  BY Zenon, <1>1, <1>3, ReturnsError DEF Looking
<1>4. CASE Return(Failing(op), -1)
  BY Zenon, <1>1, <1>2, <1>4, ReturnsError DEF Looking
<1>5. CASE op' = [op EXCEPT !.idx = @ + 1]
  <2>1. Looking(op')
    BY Zenon, <1>1, <1>5 DEF Looking, Fields, Traced
  <2> QED BY Zenon, <1>1, <2>1, StaysInLookup DEF Looking
<1>6. CASE op' = [op EXCEPT !.rest = Tail(@), !.at = ino, !.idx = 0]
  <2>1. Looking(op')
    BY Zenon, <1>1, <1>6 DEF Looking, Fields, Traced
  <2> QED BY Zenon, <1>1, <2>1, StaysInLookup DEF Looking
<1>7. CASE op' = [op EXCEPT !.pc = "data", !.file = ino, !.idx = 0, !.rest = <<>>,
                            !.len = IF op.call = "read" THEN in.size ELSE op.size]
  <2>1. /\ DOMAIN op' = Fields /\ op'.pc = "data" /\ op'.call = op.call /\ op'.size = op.size
        /\ op'.failed = op.failed /\ op'.left = op.left /\ op'.copied = op.copied
        /\ op'.out = op.out /\ op'.idx = 0
    BY Zenon, <1>1, <1>7 DEF Looking, Fields
  <2>2. Traced(op', vol.fs)
    BY Zenon, <1>1, <2>1 DEF Looking, Traced
  <2> QED BY Zenon, <1>1, <2>1, <2>2, EntersTransfer DEF Looking
<1>8. CASE Return(op, 0) /\ op.call = "write" /\ ~(op.size > in.size) /\ in.size = 0
  <2>1. DOMAIN op' = Fields /\ op'.pc = "idle" /\ op'.call = "write" /\ op'.size = op.size
        /\ op'.failed = op.failed /\ op'.left = op.left
    BY ZenonT(40), <1>1, <1>8, Returned DEF Looking
  <2>2. op'.size = 0
    BY <1>1, <1>8, <2>1 DEF Looking
  <2>3. OpShape' /\ Under' /\ vol' \in Layouts /\ DOMAIN data' = vol'.clusters
        /\ BlocksMapped' /\ ChainsFollowed'
    BY <1>1, <2>1, StaticKept DEF OpShape, Under, TransferInv, Looking, Traced
  <2>4. TransfersComplete'
    BY <2>1, <2>2 DEF TransfersComplete, ReadDelivers, WriteStores, Done
  <2> QED BY <2>3, <2>4 DEF TransferInv
<1> QED BY Zenon, <1>3, <1>4, <1>5, <1>6, <1>7, <1>8 DEF ExtDirStep, ExtFound, ExtStart

\* After a step of the loop the transfer stays near.
LEMMA NearNext ==
  ASSUME TransferInv, op.pc = "data", More, vol.fs # "EXT", ~LostInDirectory, vol' = vol,
         op'.path = op.path, \E n \in next_cluster(op.at) : op'.at = n[1]
  PROVE Near(op.at)'
<1>1. op.at # EOC /\ (vol.fs = "EXFAT" => op.at # 0) /\ Near(op.at)
  BY DEF More, TransferInv, Under
<1>2. PICK n \in next_cluster(op.at) : op'.at = n[1]
  OBVIOUS
<1>3. Near(n[1])
  BY <1>1, StaysNear
<1>4. Loose' = Loose /\ \A path : Clusters(path)' = Clusters(path)
  BY DEF Loose, Clusters
<1>5. Reached(op.path)' = Reached(op.path)
  BY DEF Reached, IsFat
<1> QED BY Zenon, <1>2, <1>3, <1>4, <1>5 DEF Near

\* An iteration of a transfer's loop that goes on keeps the invariant, if what it
\* copied is the file's or the caller's.
LEMMA LoopKeeps ==
  ASSUME TransferInv, FoundIsNamed, op.pc = "data", More, NEW o,
         DOMAIN o = Fields, o.pc = "data", o.call = op.call, o.path = op.path, o.file = op.file,
         o.len = op.len, o.size = op.size, o.at = op.at, o.idx = op.idx, o.failed = op.failed,
         o.left = op.left, o.copied = op.copied + Chunk, Advance(o), vol' = vol, DOMAIN data' = DOMAIN data,
         Exists(op.path) /\ ~LeftChain => Copied(op.path)'
  PROVE TransferInv'
<1>1. Traced(op, vol.fs) /\ op.call \in {"read", "write"} /\ op.size \in Nat
  BY DEF TransferInv, OpShape
<1>2. /\ DOMAIN op' = Fields /\ op'.pc = "data" /\ op'.call = op.call /\ op'.path = op.path
      /\ op'.len = op.len /\ op'.size = op.size /\ op'.copied = op.copied + Chunk
      /\ Traced(op', vol.fs)
      /\ vol.fs = "EXT" => op'.idx = op.idx + 1 /\ op'.failed = op.failed /\ op'.left = op.left
      /\ vol.fs # "EXT" => \E n \in next_cluster(op.at) : Went(op, n, op')
  <2>1. Traced(o, vol.fs)
    BY Zenon, <1>1 DEF Traced
  <2>2. /\ DOMAIN op' = Fields /\ op'.pc = o.pc /\ op'.call = o.call /\ op'.path = o.path
        /\ op'.len = o.len /\ op'.size = o.size /\ op'.copied = o.copied
        /\ Traced(op', vol.fs)
        /\ vol.fs = "EXT" => op'.idx = o.idx + 1 /\ op'.failed = o.failed /\ op'.left = o.left
        /\ vol.fs # "EXT" => \E n \in next_cluster(o.at) : Went(o, n, op')
    BY ZenonT(40), <2>1, Advanced
  <2>3. /\ DOMAIN op' = Fields /\ op'.pc = "data" /\ op'.call = op.call /\ op'.path = op.path
        /\ op'.len = op.len /\ op'.size = op.size /\ op'.copied = op.copied + Chunk
    BY Zenon, <2>2
  <2>4. vol.fs = "EXT" => op'.idx = op.idx + 1 /\ op'.failed = op.failed /\ op'.left = op.left
    BY Zenon, <2>2
  <2>5. ASSUME vol.fs # "EXT" PROVE \E n \in next_cluster(op.at) : Went(op, n, op')
    <3>1. PICK n \in next_cluster(o.at) : Went(o, n, op')
      BY Zenon, <2>2, <2>5
    <3>2. n \in next_cluster(op.at) /\ Went(op, n, op')
      BY Zenon, <3>1 DEF Went
    <3> QED BY Zenon, <3>2
  <2> QED BY Zenon, <2>2, <2>3, <2>4, <2>5
<1>3. op.left # "no" => op'.left = op.left
  <2>1. CASE vol.fs = "EXT"
    BY Zenon, <1>2, <2>1
  <2>2. CASE vol.fs # "EXT"
    <3>1. PICK n \in next_cluster(op.at) : Went(op, n, op')
      BY ZenonT(40), <1>2, <2>2
    <3> QED BY Zenon, <3>1 DEF Went
  <2> QED BY Zenon, <2>1, <2>2
<1>4. OpShape' /\ BlocksMapped' /\ ChainsFollowed' /\ vol' \in Layouts /\ DOMAIN data' = vol'.clusters
  BY <1>1, <1>2, StaticKept DEF OpShape, TransferInv
<1>5. TransfersComplete'
  BY <1>2 DEF TransfersComplete, ReadDelivers, WriteStores, Done
<1>6. ASSUME Exists(op.path)', ~LeftChain' PROVE op'.copied \in Nat /\ Placed(op.path)' /\ Copied(op.path)'
  <2>1. Exists(op.path) /\ ~LeftChain
    BY Zenon, <1>2, <1>3, <1>6 DEF Exists, LeftChain
  <2>2. vol.fs = "EXT" => op'.idx = op.idx + 1
    BY Zenon, <1>2
  <2>3. op'.copied \in Nat /\ Placed(op.path)'
    BY ZenonT(40), <1>2, <1>6, <2>1, <2>2, PlacedNext
  <2> QED BY Zenon, <2>1, <2>3
<1>7. ASSUME vol.fs = "EXT" PROVE op'.idx \in Nat
  <2>1. op.idx \in Nat
    BY Zenon, <1>7 DEF TransferInv, Under
  <2> QED BY <1>2, <1>7, <2>1
<1>8. ASSUME vol.fs # "EXT", ~LostInDirectory' PROVE Near(op.at)'
  <2>1. \E n \in next_cluster(op.at) : op'.at = n[1]
    BY Zenon, <1>2, <1>8 DEF Went
  <2>2. ~LostInDirectory
    BY Zenon, <1>3, <1>8 DEF LostInDirectory
  <2> QED BY Zenon, <1>2, <1>8, <2>1, <2>2, NearNext
<1>9. Under'
  BY Zenon, <1>6, <1>7, <1>8 DEF Under
<1> QED BY Zenon, <1>4, <1>5, <1>9 DEF TransferInv

\* Reading a cluster keeps the invariant.
LEMMA ReadStepKeeps == ASSUME TransferInv, FoundIsNamed, ReadStep PROVE TransferInv'
<1>1. op.pc = "data" /\ op.call = "read" /\ More /\ vol' = vol /\ data' = data
  BY DEF ReadStep
<1>2. DOMAIN op = Fields /\ Traced(op, vol.fs)
  BY DEF TransferInv, OpShape
<1>3. DOMAIN Failing(op) = Fields /\ Traced(Failing(op), vol.fs)
  BY ZenonT(40), <1>2 DEF Failing, Fields, Traced
<1>4. CASE Return(op, -1)
  BY Zenon, <1>1, <1>2, <1>4, ReturnsError
<1>5. CASE Return(Failing(op), -1)
  BY Zenon, <1>1, <1>3, <1>5, ReturnsError
<1> DEFINE t == [k \in 1 .. Chunk |-> data[Target][k - 1]]
           o == [op EXCEPT !.copied = @ + Chunk, !.out = @ \o t]
<1>6. CASE Advance(o)
  <2>1. /\ DOMAIN o = Fields /\ o.pc = "data" /\ o.call = op.call /\ o.path = op.path
        /\ o.file = op.file /\ o.len = op.len /\ o.size = op.size /\ o.at = op.at
        /\ o.idx = op.idx /\ o.failed = op.failed /\ o.left = op.left
        /\ o.copied = op.copied + Chunk /\ o.out = op.out \o t
    BY Zenon, <1>1, <1>2 DEF Fields
  <2> HIDE DEF o
  <2>2. op'.call = "read" /\ op'.path = op.path /\ op'.copied = op.copied + Chunk /\ op'.out = op.out \o t
    <3>1. Traced(o, vol.fs)
      BY Zenon, <1>2, <2>1 DEF Traced
    <3> QED BY ZenonT(40), <1>1, <1>2, <1>6, <2>1, <3>1, Advanced
  <2>3. ASSUME Exists(op.path), ~LeftChain PROVE Copied(op.path)'
    <3> DEFINE f == vol.files[op.path]
               n == op.copied
               m == Chunk
    <3>1. PICK j \in DOMAIN f.where :
             Target = f.where[j] /\ n = ClusterBytes * (j - 1) /\ n < f.size
      BY <1>1, <2>3, TargetIsNext
    <3>2. m \in 1 .. ClusterBytes /\ n + m <= f.size /\ n \in Nat /\ f.size \in Nat /\ ClusterBytes \in Nat
      <4>1. n \in Nat /\ f.size \in Nat /\ ClusterBytes \in Nat
        BY <1>1, <2>3, FileShape, VolumeAssumption DEF TransferInv, Under, Exists
      <4>2. op.len \in Nat /\ op.len <= f.size /\ m \in 1 .. ClusterBytes
            /\ n + m <= IF vol.fs = "EXT" THEN f.size ELSE op.len
        BY <1>1, <2>3, ChunkIs
      <4> QED BY <4>1, <4>2
    <3>3. op.out = [k \in 1 .. n |-> op.out[k]] /\ \A k \in 0 .. n - 1 : op.out[k + 1] = FileByte(op.path, k)
      BY Zenon, <1>1, <2>3 DEF TransferInv, Under, Copied
    <3>4. t = [k \in 1 .. m |-> t[k]] /\ m \in Nat
      BY <3>2
    <3> HIDE DEF t, n, m
    <3>5. op'.out = [k \in 1 .. n + m |-> IF k <= n THEN op.out[k] ELSE t[k - n]]
      BY <2>2, <3>2, <3>3, <3>4, Joined
    <3>6. \A k \in 0 .. n + m - 1 : op'.out[k + 1] = FileByte(op.path, k)
      <4> TAKE k \in 0 .. n + m - 1
      <4>1. k \in Nat /\ k + 1 \in 1 .. n + m
        BY <3>2, <3>4
      <4>2. CASE k < n
        <5>1. k + 1 <= n /\ k \in 0 .. n - 1
          BY <3>2, <4>1, <4>2
        <5> QED BY <3>3, <3>5, <4>1, <5>1
      <4>3. CASE ~(k < n)
        <5>1. op'.out[k + 1] = t[k + 1 - n]
          BY <3>2, <3>5, <4>1, <4>3
        <5>2. k + 1 - n \in 1 .. m /\ (k + 1 - n) - 1 = k - n
          BY <3>2, <3>4, <4>1, <4>3
        <5>3. t[k + 1 - n] = data[Target][k - n]
          BY <5>2 DEF t, m
        <5>4. op.path \in DOMAIN vol.files /\ vol \in Layouts /\ k < f.size
              /\ ClusterBytes * (j - 1) <= k /\ k < ClusterBytes * (j - 1) + ClusterBytes
          BY <2>3, <3>1, <3>2, <4>1, <4>3 DEF Exists, TransferInv
        <5>5. f.where[k \div ClusterBytes + 1] = f.where[j] /\ k % ClusterBytes = k - n
          BY <3>1, <4>1, <5>4, BytesOfStep
        <5> QED BY <3>1, <5>1, <5>3, <5>5 DEF FileByte
      <4> QED BY <4>2, <4>3
    <3>8. op'.copied = n + m
      BY <2>2 DEF n, m
    <3>9. op'.out = [k \in 1 .. op'.copied |-> op'.out[k]]
      BY <3>5, <3>8
    <3>10. ASSUME NEW k \in 0 .. op'.copied - 1 PROVE op'.out[k + 1] = FileByte(op.path, k)'
      <4>1. k \in 0 .. n + m - 1
        BY <3>2, <3>4, <3>8, <3>10
      <4>2. FileByte(op.path, k)' = FileByte(op.path, k)
        BY Zenon, <1>1, <2>2 DEF FileByte
      <4> QED BY Zenon, <3>6, <4>1, <4>2
    <3> QED BY Zenon, <2>2, <3>9, <3>10 DEF Copied
  <2> QED BY Zenon, <1>1, <1>6, <2>1, <2>3, LoopKeeps
<1> QED BY Zenon, <1>4, <1>5, <1>6 DEF ReadStep

\* Overwriting a cluster keeps the invariant.
LEMMA WriteStepKeeps == ASSUME TransferInv, FoundIsNamed, WriteStep PROVE TransferInv'
<1>1. op.pc = "data" /\ op.call = "write" /\ More /\ vol' = vol
  BY DEF WriteStep
<1>2. DOMAIN op = Fields /\ Traced(op, vol.fs)
  BY DEF TransferInv, OpShape
<1>3. DOMAIN Failing(op) = Fields /\ Traced(Failing(op), vol.fs)
  BY ZenonT(40), <1>2 DEF Failing, Fields, Traced
<1>4. CASE Return(op, -1) /\ UNCHANGED data
  BY Zenon, <1>1, <1>2, <1>4, ReturnsError
<1>5. CASE Return(Failing(op), -1) /\ UNCHANGED data
  BY Zenon, <1>1, <1>3, <1>5, ReturnsError
<1>6. CASE /\ \E p \in 1 .. ClusterBytes : data' = [data EXCEPT ![Target] = PartlyWritten(Target, p)]
           /\ Return(Failing(op), -1)
  <2>1. DOMAIN data' = DOMAIN data
    BY Zenon, <1>6
  <2> QED BY Zenon, <1>1, <1>3, <1>6, <2>1, ReturnsError
<1> DEFINE o == [op EXCEPT !.copied = @ + Chunk]
<1>7. CASE Advance(o) /\ data' = [data EXCEPT ![Target] = Patched(Target)]
  <2>1. /\ DOMAIN o = Fields /\ o.pc = "data" /\ o.call = op.call /\ o.path = op.path
        /\ o.file = op.file /\ o.len = op.len /\ o.size = op.size /\ o.at = op.at
        /\ o.idx = op.idx /\ o.failed = op.failed /\ o.left = op.left
        /\ o.copied = op.copied + Chunk
    BY Zenon, <1>1, <1>2 DEF Fields
  <2> HIDE DEF o
  <2>2. op'.call = "write" /\ op'.path = op.path /\ op'.len = op.len /\ op'.copied = op.copied + Chunk
    <3>1. Traced(o, vol.fs)
      BY Zenon, <1>2, <2>1 DEF Traced
    <3> QED BY ZenonT(40), <1>1, <1>2, <1>7, <2>1, <3>1, Advanced
  <2>3. ASSUME Exists(op.path), ~LeftChain PROVE Copied(op.path)'
    <3> DEFINE f == vol.files[op.path]
               n == op.copied
               m == Chunk
    <3>1. PICK j \in DOMAIN f.where :
             Target = f.where[j] /\ n = ClusterBytes * (j - 1) /\ n < f.size
      BY <1>1, <2>3, TargetIsNext
    <3>2. /\ m \in 1 .. ClusterBytes /\ n + m <= f.size /\ n \in Nat /\ f.size \in Nat
          /\ ClusterBytes \in Nat /\ op.len \in Nat
      <4>1. n \in Nat /\ f.size \in Nat /\ ClusterBytes \in Nat
        BY <1>1, <2>3, FileShape, VolumeAssumption DEF TransferInv, Under, Exists
      <4>2. op.len \in Nat /\ op.len <= f.size /\ m \in 1 .. ClusterBytes
            /\ n + m <= IF vol.fs = "EXT" THEN f.size ELSE op.len
        BY <1>1, <2>3, ChunkIs
      <4> QED BY <4>1, <4>2
    <3>3. \A k \in 0 .. n - 1 : k < op.len => FileByte(op.path, k) = New(k)
      BY Zenon, <1>1, <2>3 DEF TransferInv, Under, Copied
    <3>4. op.path \in DOMAIN vol.files /\ vol \in Layouts /\ DOMAIN data = vol.clusters
      BY <2>3 DEF Exists, TransferInv
    <3>5. Target \in DOMAIN data
      BY Zenon, <3>1, <3>4, FileShape
    <3>6. op'.copied = n + m
      BY <2>2
    <3> HIDE DEF n, m
    <3>7. ASSUME NEW k \in 0 .. op'.copied - 1, k < op.len PROVE FileByte(op.path, k)' = New(k)
      <4> DEFINE c == f.where[k \div ClusterBytes + 1]
                 i == k % ClusterBytes
      <4>1. k \in Nat /\ k < n + m /\ k < f.size
        BY <3>2, <3>6, <3>7
      <4>2. FileByte(op.path, k) = data[c][i] /\ FileByte(op.path, k)' = data'[c][i]
        BY Zenon, <1>1, <2>2 DEF FileByte
      <4>3. c \in DOMAIN data
        <5>1. k \div ClusterBytes + 1 \in DOMAIN f.where
          BY Zenon, <3>4, <4>1, ByteHasCluster
        <5> QED BY Zenon, <3>4, <5>1, FileShape
      <4>4. CASE k < n
        <5>1. c # Target
          BY <3>1, <3>4, <4>1, <4>4, BytesOfStep
        <5>2. data'[c][i] = data[c][i]
          BY Zenon, <1>7, <4>3, <5>1
        <5>3. k \in 0 .. n - 1
          BY <3>2, <4>1, <4>4
        <5> QED BY ZenonT(40), <3>3, <3>7, <4>2, <5>2, <5>3
      <4>5. CASE ~(k < n)
        <5>1. ClusterBytes * (j - 1) <= k /\ k < ClusterBytes * (j - 1) + ClusterBytes
          BY <3>1, <3>2, <4>1, <4>5
        <5>2. c = Target /\ i = k - n
          BY <3>1, <3>4, <4>1, <5>1, BytesOfStep
        <5>3. data'[c] = Patched(Target)
          BY Zenon, <1>7, <3>5, <5>2
        <5>4. k - n \in Offsets /\ k - n < Chunk /\ op.copied + (k - n) = k
          BY <3>2, <4>1, <4>5 DEF Offsets, n, m
        <5>5. Patched(Target)[k - n] = New(k)
          BY <3>7, <5>4 DEF Patched
        <5> QED BY Zenon, <4>2, <5>2, <5>3, <5>5
      <4> QED BY Zenon, <4>4, <4>5
    <3> QED BY Zenon, <2>2, <3>7 DEF Copied
  <2>4. DOMAIN data' = DOMAIN data
    BY Zenon, <1>7
  <2> QED BY Zenon, <1>1, <1>7, <2>1, <2>3, <2>4, LoopKeeps
<1> QED BY Zenon, <1>4, <1>5, <1>6, <1>7 DEF WriteStep

\* The end of a transfer keeps the invariant: here it becomes what the caller was
\* promised.
LEMMA FinishKeeps == ASSUME TransferInv, FoundIsNamed, Finish PROVE TransferInv'
<1>1. op.pc = "data" /\ ~More /\ Return(op, Result) /\ vol' = vol /\ data' = data
  BY DEF Finish
<1>2. DOMAIN op = Fields /\ Traced(op, vol.fs) /\ op.call \in {"read", "write"} /\ op.size \in Nat
  BY <1>1 DEF TransferInv, OpShape
<1>3. /\ DOMAIN op' = Fields /\ op'.pc = "idle" /\ op'.call = op.call /\ op'.path = op.path
      /\ op'.size = op.size /\ op'.copied = op.copied /\ op'.out = op.out
      /\ op'.val = Result /\ op'.failed = op.failed /\ op'.left = op.left
  BY ZenonT(40), <1>1, <1>2, Returned
<1>4. OpShape' /\ Under' /\ BlocksMapped' /\ ChainsFollowed' /\ vol' \in Layouts
      /\ DOMAIN data' = vol'.clusters
  BY <1>1, <1>2, <1>3, StaticKept DEF OpShape, Under, TransferInv, Traced
<1> DEFINE f == vol.files[op.path]
<1>5. ASSUME Exists(op.path), ~LeftChain, Result = 0
      PROVE /\ op.copied \in Nat /\ Copied(op.path)
            /\ op.call = "read" => op.copied = f.size \/ (IsFat /\ op.failed)
            /\ op.call = "write" => op.copied = op.len /\ op.len = op.size
  <2>1. op.copied \in Nat /\ Placed(op.path) /\ Copied(op.path) /\ (vol.fs = "EXT" => op.idx \in Nat)
    BY Zenon, <1>1, <1>5 DEF TransferInv, Under
  <2>2. TransferOf(op.path) /\ op.path \in DOMAIN vol.files /\ vol \in Layouts
    BY Zenon, <1>1, <1>5 DEF FoundIsNamed, LeftChain, LostInDirectory, TransferInv, Exists
  <2>3. f.size \in Nat /\ \A i \in DOMAIN f.where : f.where[i] \in vol.clusters
    BY Zenon, <2>2, FileShape
  <2>4. \A i \in DOMAIN f.where : f.where[i] # EOC
    <3>1. vol.clusters \subseteq Nat \ {0}
      BY ZenonT(40), <2>2, LayoutAssumption
    <3> QED BY <2>3, <3>1 DEF EOC
  <2>5. ASSUME op.call = "write" PROVE op.copied = op.len /\ op.len = op.size
    BY <1>5, <2>2, <2>5 DEF Result, TransferOf
  <2>6. ASSUME op.call = "read", vol.fs = "EXT" PROVE op.copied = f.size
    <3> DEFINE in == vol.inode[op.file]
    <3>1. in.size = f.size /\ ~(op.idx < BlockCount(in))
      BY Zenon, <1>1, <2>2, <2>6 DEF TransferOf, More
    <3>2. ~(ClusterBytes * op.idx < f.size)
      <4> DEFINE count == (f.size + ClusterBytes - 1) \div ClusterBytes
      <4>1. BlockCount(in) = count
        BY Zenon, <3>1 DEF BlockCount
      <4>2. op.idx < count <=> ClusterBytes * op.idx < f.size
        BY Zenon, <2>1, <2>3, <2>6, BlockBegins
      <4> QED BY Zenon, <3>1, <4>1, <4>2
    <3> QED BY <2>1, <2>3, <2>6, <3>2 DEF Placed, Smaller
  <2>7. ASSUME op.call = "read", vol.fs # "EXT" PROVE op.copied = f.size \/ (IsFat /\ op.failed)
    <3>1. op.len = f.size
      BY Zenon, <2>2, <2>7 DEF TransferOf
    <3>2. CASE vol.fs = "EXFAT"
      BY <1>5, <3>1, <3>2 DEF Result
    <3>3. CASE vol.fs # "EXFAT"
      <4>1. IsFat
        BY <2>2, <2>7, <3>3, LayoutAssumption DEF IsFat
      <4>2. ~(op.copied < op.len) \/ op.at = EOC
        BY Zenon, <1>1, <2>7, <3>3 DEF More
      <4>3. CASE ~(op.copied < op.len)
        BY <2>1, <2>3, <2>7, <3>1, <4>3 DEF Placed
      <4>4. CASE op.copied < op.len
        BY Zenon, <2>1, <2>4, <2>7, <3>3, <4>1, <4>2, <4>4 DEF Placed
      <4> QED BY Zenon, <4>3, <4>4
    <3> QED BY Zenon, <3>2, <3>3
  <2> QED BY Zenon, <2>1, <2>5, <2>6, <2>7
<1>6. ReadDelivers'
  <2> SUFFICES ASSUME op.call = "read", Result = 0, Exists(op.path)
               PROVE /\ op.copied = f.size \/ (IsFat /\ op.failed)
                     /\ LeftChain \/ \A k \in 0 .. op.copied - 1 : op.out[k + 1] = FileByte(op.path, k)
    BY ZenonT(40), <1>1, <1>3 DEF ReadDelivers, Done, Exists, LeftChain, IsFat, FileByte
  <2>1. CASE LeftChain
    BY <1>2, <2>1 DEF LeftChain, IsFat, Traced
  <2>2. CASE ~LeftChain
    BY Zenon, <1>5, <2>2 DEF Copied
  <2> QED BY Zenon, <2>1, <2>2
<1>7. WriteStores'
  <2> SUFFICES ASSUME op.call = "write", Result = 0, Exists(op.path), ~LeftChain
               PROVE \A k \in 0 .. op.size - 1 : FileByte(op.path, k) = New(k)
    BY Zenon, <1>1, <1>3 DEF WriteStores, Done, Exists, LeftChain, FileByte
  <2>1. op.copied = op.size /\ op.len = op.size /\ Copied(op.path)
    BY Zenon, <1>5
  <2> QED BY <1>2, <2>1 DEF Copied
<1> QED BY <1>4, <1>6, <1>7 DEF TransferInv, TransfersComplete

\* The initial volume, if the code reads its block maps and its FAT as they are meant.
LEMMA TransferInit == ASSUME VolInit, MapsEveryBlock PROVE TransferInv
<1>1. op = Idle /\ vol \in Layouts /\ DOMAIN data = vol.clusters
  BY DEF VolInit
<1>2. BlocksMapped /\ ChainsFollowed
  BY Zenon, <1>1 DEF MapsEveryBlock
<1>3. DOMAIN op = Fields /\ op.pc = "idle" /\ op.failed = FALSE /\ op.left = "no" /\ op.call = "none"
  BY Zenon, <1>1 DEF Idle, Fields
<1>4. OpShape /\ Under /\ TransfersComplete
  BY ZenonT(40), <1>3 DEF OpShape, Traced, Under, TransfersComplete, ReadDelivers, WriteStores, Done
<1> QED BY <1>1, <1>2, <1>4 DEF TransferInv

\* Every step keeps the invariant, if lookups find the files that are named.
LEMMA TransferNext ==
  ASSUME TransferInv, FoundIsNamed, FoundIsNamed', [VolNext]_volvars PROVE TransferInv'
<1>1. ASSUME NEW call \in {"read", "write"}, NEW path \in Paths, NEW n \in 0 .. MaxSize,
             Begin(call, path, n)
      PROVE TransferInv'
  <2>1. op' = [Idle EXCEPT !.pc = "dir", !.call = call, !.path = path, !.rest = path,
                           !.at = vol.root, !.size = n]
        /\ vol' = vol /\ data' = data
    BY Zenon, <1>1 DEF Begin
  <2>2. /\ DOMAIN op' = Fields /\ op'.pc = "dir" /\ op'.call = call /\ op'.size = n
        /\ op'.failed = FALSE /\ op'.left = "no" /\ op'.copied = 0 /\ op'.out = <<>>
    BY Zenon, <2>1 DEF Idle, Fields
  <2>3. n \in Nat
    BY <1>1, VolumeAssumption
  <2>4. Traced(op', vol.fs)
    BY Zenon, <2>2 DEF Traced
  <2> QED BY Zenon, <1>1, <2>1, <2>2, <2>3, <2>4, StaysInLookup
<1>2. CASE ListStep
  BY Zenon, <1>2, ListStepKeeps
<1>3. CASE ExtDirStep
  BY Zenon, <1>3, ExtDirStepKeeps
<1>4. CASE ReadStep
  BY Zenon, <1>4, ReadStepKeeps
<1>5. CASE WriteStep
  BY Zenon, <1>5, WriteStepKeeps
<1>6. CASE Finish
  BY Zenon, <1>6, FinishKeeps
<1>7. CASE UNCHANGED volvars
  <2>1. vol' = vol /\ data' = data /\ op' = op
    BY Zenon, <1>7 DEF volvars
  <2>2. OpShape' /\ vol' \in Layouts /\ DOMAIN data' = vol'.clusters /\ BlocksMapped' /\ ChainsFollowed'
    BY <2>1, StaticKept DEF TransferInv, OpShape
  <2>3. TransfersComplete'
    BY Zenon, <2>1 DEF TransferInv, TransfersComplete, ReadDelivers, WriteStores, Done, Exists, LeftChain,
                IsFat, FileByte
  <2>4. Under'
    <3>1. Placed(op.path) => Placed(op.path)'
      BY Zenon, <2>1 DEF Placed
    <3>2. Copied(op.path) => Copied(op.path)'
      BY Zenon, <2>1 DEF Copied, FileByte
    <3>3. Loose' = Loose /\ \A path : Clusters(path)' = Clusters(path)
      BY <2>1 DEF Loose, Clusters
    <3>4. Reached(op.path)' = Reached(op.path)
      BY <2>1 DEF Reached, IsFat
    <3>5. Near(op.at) => Near(op.at)'
      BY Zenon, <2>1, <3>3, <3>4 DEF Near
    <3>6. (Exists(op.path)' => Exists(op.path)) /\ (LeftChain => LeftChain')
          /\ (LostInDirectory => LostInDirectory')
      BY Zenon, <2>1 DEF Exists, LeftChain, LostInDirectory
    <3> QED BY Zenon, <2>1, <3>1, <3>2, <3>5, <3>6 DEF TransferInv, Under
  <2> QED BY <2>2, <2>3, <2>4 DEF TransferInv
<1> QED BY Zenon, <1>1, <1>2, <1>3, <1>4, <1>5, <1>6, <1>7 DEF VolNext

\* What a step changes in the data of the volume lies in the target, among the bytes
\* that come from the caller.
LEMMA ChangesTarget ==
  ASSUME [VolNext]_volvars, NEW c \in DOMAIN data, NEW i \in Offsets, data'[c][i] # data[c][i]
  PROVE /\ WriteStep /\ c = Target /\ Reachable(c)
        /\ i < Chunk /\ op.copied + i < op.len
<1>1. WriteStep
  <2>1. data' # data
    BY Zenon
  <2> QED BY Zenon, <2>1 DEF VolNext, Begin, ListStep, ExtDirStep, ReadStep, Finish, volvars
<1>2. \/ \E p \in 1 .. ClusterBytes : data' = [data EXCEPT ![Target] = PartlyWritten(Target, p)]
      \/ data' = [data EXCEPT ![Target] = Patched(Target)]
  BY Zenon, <1>1 DEF WriteStep
<1>3. Reachable(Target)
  BY Zenon, <1>1 DEF WriteStep
<1>4. c = Target
  BY Zenon, <1>2
<1>5. data'[c][i] = Patched(Target)[i]
  <2>1. CASE data' = [data EXCEPT ![Target] = Patched(Target)]
    BY Zenon, <1>4, <2>1
  <2>2. ASSUME NEW p \in 1 .. ClusterBytes, data' = [data EXCEPT ![Target] = PartlyWritten(Target, p)]
        PROVE data'[c][i] = Patched(Target)[i]
    <3>1. data'[c] = PartlyWritten(Target, p)
      BY Zenon, <1>4, <2>2
    <3> QED BY Zenon, <1>4, <3>1 DEF PartlyWritten
  <2> QED BY Zenon, <1>2, <2>1, <2>2
<1>6. i < Chunk /\ op.copied + i < op.len
  BY Zenon, <1>4, <1>5 DEF Patched
<1> QED BY Zenon, <1>1, <1>3, <1>4, <1>6

\* A step writes into no file but one that the path reaches.
LEMMA OthersKept ==
  ASSUME TransferInv, FoundIsNamed, ~LostInDirectory, WriteStep, Target \in vol.clusters,
         NEW path \in DOMAIN vol.files \ Reached(op.path)
  PROVE Target \notin Clusters(path)
<1>1. op.pc = "data" /\ More /\ vol \in Layouts
  BY DEF WriteStep, TransferInv
<1>2. ASSUME NEW p \in Reached(op.path), Target \in Clusters(p) PROVE Target \notin Clusters(path)
  <2>1. p \in DOMAIN vol.files /\ p # path
    BY <1>2 DEF Reached
  <2>2. PICK i \in DOMAIN vol.files[p].where : Target = vol.files[p].where[i]
    BY Zenon, <1>2 DEF Clusters
  <2>3. \A j \in DOMAIN vol.files[path].where : vol.files[path].where[j] # Target
    BY Zenon, <1>1, <2>1, <2>2, LayoutAssumption
  <2> QED BY Zenon, <2>3 DEF Clusters
<1>3. ASSUME Target \in Loose PROVE Target \notin Clusters(path)
  BY Zenon, <1>3 DEF Loose
<1>4. vol.clusters \subseteq Nat \ {0}
  BY Zenon, <1>1, LayoutAssumption
<1>5. CASE vol.fs # "EXT"
  <2>1. Target = op.at /\ op.at # EOC /\ Near(op.at)
    BY Zenon, <1>1, <1>5 DEF Target, More, TransferInv, Under
  <2>2. op.at # 0
    BY <1>4, <2>1
  <2> QED BY Zenon, <1>2, <1>3, <2>1, <2>2 DEF Near
<1>6. CASE vol.fs = "EXT"
  <2> DEFINE in == vol.inode[op.file]
  <2>1. op.file \in DOMAIN vol.inode
    BY Zenon, <1>1, <1>6 DEF FoundIsNamed, TransferOf, TransferOutside
  <2>2. op.idx \in Nat /\ op.idx < BlockCount(in) /\ Target = map_block(in, op.idx)
    BY Zenon, <1>1, <1>6 DEF TransferInv, Under, More, Target
  <2>3. in.size \in Nat
    BY Zenon, <1>1, <1>6, <2>1, LayoutAssumption
  <2>4. BlockCount(in) \in Nat
    BY <2>3, BlockBegins DEF BlockCount
  <2>5. [i \in 1 .. BlockCount(in) |-> map_block(in, i - 1)] = in.blocks
    BY Zenon, <1>6, <2>1 DEF TransferInv, BlocksMapped
  <2> DEFINE j == op.idx + 1
  <2>6. j \in 1 .. BlockCount(in) /\ j - 1 = op.idx
    BY <2>2, <2>4
  <2> HIDE DEF in, j
  <2>7. j \in DOMAIN in.blocks /\ in.blocks[j] = Target
    BY Zenon, <2>2, <2>5, <2>6
  <2>8. CASE \E p \in Reached(op.path) : TransferOf(p)
    <3>1. PICK p \in Reached(op.path) : TransferOf(p)
      BY <2>8
    <3>2. in.blocks = vol.files[p].where
      BY Zenon, <1>6, <3>1 DEF TransferOf, in
    <3>3. Target \in Clusters(p)
      BY Zenon, <2>7, <3>2 DEF Clusters
    <3> QED BY Zenon, <1>2, <3>3
  <2>9. CASE TransferOutside
    <3>1. Target \in Loose \cup {0}
      BY Zenon, <1>6, <2>7, <2>9 DEF TransferOutside, in
    <3>2. Target # 0
      BY <1>4
    <3> QED BY Zenon, <1>3, <3>1, <3>2
  <2> QED BY Zenon, <1>1, <2>8, <2>9 DEF FoundIsNamed
<1> QED BY Zenon, <1>5, <1>6

\* A step overwrites only what the caller asked for.
LEMMA StepInFile ==
  ASSUME TransferInv, FoundIsNamed, [VolNext]_volvars PROVE WriteInFile
<1> SUFFICES ASSUME NEW c \in DOMAIN data, NEW i \in Offsets, data'[c][i] # data[c][i]
             PROVE /\ op.call = "write"
                   /\ LostInDirectory \/
                        \A path \in DOMAIN vol.files \ Reached(op.path) : c \notin Clusters(path)
                   /\ Exists(op.path) /\ ~LeftChain => \E k \in 0 .. op.size - 1 :
                         /\ c = vol.files[op.path].where[k \div ClusterBytes + 1]
                         /\ i = k % ClusterBytes
  BY Zenon DEF WriteInFile
<1>1. WriteStep /\ c = Target /\ i < Chunk /\ op.copied + i < op.len
  BY Zenon, ChangesTarget
<1>2. op.pc = "data" /\ op.call = "write" /\ More
  BY Zenon, <1>1 DEF WriteStep
<1>3. c \in vol.clusters
  BY Zenon DEF TransferInv
<1>4. LostInDirectory \/ \A path \in DOMAIN vol.files \ Reached(op.path) : c \notin Clusters(path)
  BY Zenon, <1>1, <1>3, OthersKept
<1>5. ASSUME Exists(op.path), ~LeftChain
      PROVE \E k \in 0 .. op.size - 1 :
               /\ c = vol.files[op.path].where[k \div ClusterBytes + 1]
               /\ i = k % ClusterBytes
  <2> DEFINE f == vol.files[op.path]
             n == op.copied
             k == n + i
  <2>1. PICK j \in DOMAIN f.where :
           Target = f.where[j] /\ n = ClusterBytes * (j - 1) /\ n < f.size
    BY <1>2, <1>5, TargetIsNext
  <2>2. op.len \in Nat /\ op.len <= f.size
    BY <1>2, <1>5, ChunkIs
  <2>3. n \in Nat /\ f.size \in Nat /\ ClusterBytes \in Nat \ {0} /\ i \in 0 .. ClusterBytes - 1
        /\ vol \in Layouts /\ op.path \in DOMAIN vol.files
    BY Zenon, <1>2, <1>5, FileShape, VolumeAssumption DEF TransferInv, Under, Exists, Offsets
  <2>4. op.len = op.size
    <3>1. TransferOf(op.path)
      BY Zenon, <1>2, <1>5 DEF FoundIsNamed, LeftChain, LostInDirectory, Exists
    <3>2. op.call # "read"
      BY <1>2
    <3> QED BY Zenon, <3>1, <3>2 DEF TransferOf
  <2>5. k < op.len
    BY Zenon, <1>1
  <2> HIDE DEF f, n
  <2>6. /\ k \in Nat /\ k < f.size /\ k \in 0 .. op.size - 1 /\ k - n = i
        /\ n <= k /\ k < n + ClusterBytes
    BY <2>2, <2>3, <2>4, <2>5
  <2> HIDE DEF k
  <2>7. f.where[k \div ClusterBytes + 1] = f.where[j] /\ k % ClusterBytes = k - n
    BY <2>1, <2>3, <2>6, BytesOfStep DEF f
  <2> QED BY Zenon, <1>1, <2>1, <2>6, <2>7 DEF f
<1> QED BY Zenon, <1>2, <1>4, <1>5

\* A return value of 0 can be trusted (fat32_read_file, fat32_write_file, and those of
\* exFAT and ext): for any size of a cluster, any file, buffer and sequence of
\* operations and whichever accesses fail, a read that returns 0 delivered the file's
\* own bytes and a write that returns 0 stored the whole buffer, on every volume whose
\* block maps and FAT the code follows through its files, if the lookups find the files
\* that are named.  Both conditions are properties that TLC checks.
THEOREM TransfersAreComplete ==
  VolSpec /\ MapsEveryBlock /\ []FoundIsNamed => []TransfersComplete
<1>1. VolInit /\ MapsEveryBlock => TransferInv
  BY TransferInit
<1>2. TransferInv /\ FoundIsNamed /\ FoundIsNamed' /\ [VolNext]_volvars => TransferInv'
  BY TransferNext
<1>3. TransferInv => TransfersComplete
  BY DEF TransferInv
<1> QED BY <1>1, <1>2, <1>3, PTL DEF VolSpec

\* Under the same conditions an overwrite changes no byte of another file, none beyond
\* the caller's buffer and none behind the file's end, also when an access fails.
THEOREM OverwritesStayInFile ==
  VolSpec /\ MapsEveryBlock /\ []FoundIsNamed => WritesStayInFile
<1>1. VolInit /\ MapsEveryBlock => TransferInv
  BY TransferInit
<1>2. TransferInv /\ FoundIsNamed /\ FoundIsNamed' /\ [VolNext]_volvars => TransferInv'
  BY TransferNext
<1>3. TransferInv /\ FoundIsNamed /\ [VolNext]_volvars => [WriteInFile]_volvars
  BY StepInFile
<1> QED BY <1>1, <1>2, <1>3, PTL DEF VolSpec, WritesStayInFile

----------------------------------------------------------------------------
(* Ps2: the bytes of the mouse and the keys.                               *)

INSTANCE SequenceTheorems

Byte == [src : {"kbd", "mouse"}, n : Nat, place : 0 .. 3, bit3 : BOOLEAN]

\* The types of the variables that the packets depend on.
MouseTypes ==
    /\ out \in Seq(Byte) /\ Len(out) <= 1
    /\ kbd \in Seq(Byte) /\ \A i \in 1 .. Len(kbd) : kbd[i].src = "kbd"
    /\ aux \in Seq(Byte)
    /\ bytes \in Seq(Byte) /\ Len(bytes) <= 2
    /\ packets \in Seq(Seq(Byte))
    /\ pressed \in Nat /\ moved \in Nat
    /\ mouse \in {"off", "asked", "on"}
    /\ drv \in [pc : {"drain", "answer", "idle", "kbd", "mouse"}, len : Nat, got : Nat]

\* b is the k-th byte that the movements send.
IsByte(b, k) ==
    /\ b.src = "mouse" /\ b.place \in 1 .. 3
    /\ 3 * (b.n - 1) + b.place = k
    /\ b.place = 1 => b.bit3

Held == IF MouseReady THEN 1 ELSE 0

Consumed == 3 * Len(packets) + Len(bytes)

\* Until the mouse answers it is silent, and then its answer comes first.
AnswerFirst ==
    /\ drv.pc \in {"drain", "answer"} => ~acked /\ packets = <<>> /\ bytes = <<>>
    /\ drv.pc = "drain" => mouse = "off"
    /\ mouse # "on" => ~MouseReady /\ aux = <<>> /\ moved = 0
    /\ drv.pc = "answer" /\ mouse = "on" =>
          /\ Held + Len(aux) = 3 * moved + 1
          /\ MouseReady => out[1] = Ack
          /\ ~MouseReady => aux[1] = Ack
          /\ \A i \in 2 - Held .. Len(aux) : IsByte(aux[i], i + Held - 1)

\* Once the answer was read, the bytes of the movements lie in the packets, in
\* bytes[], in the output buffer and in the mouse, in this order and all of them.
BytesInOrder ==
    acked =>
        /\ mouse = "on"
        /\ \A k \in 1 .. Len(packets) : WholePacket(packets[k]) /\ packets[k][1].n = k
        /\ \A j \in 1 .. Len(bytes) : IsByte(bytes[j], 3 * Len(packets) + j)
        /\ MouseReady => IsByte(out[1], Consumed + 1)
        /\ \A i \in 1 .. Len(aux) : IsByte(aux[i], Consumed + Held + i)
        /\ Consumed + Held + Len(aux) = 3 * moved

MouseInv == MouseTypes /\ AnswerFirst /\ BytesInOrder

\* The bytes that the devices send are bytes.
LEMMA SentBytes ==
  /\ \A n \in Nat, p \in 0 .. 3 : Key(n, p) \in Byte /\ Key(n, p).src = "kbd"
  /\ \A n \in Nat, p \in 0 .. 3, x \in BOOLEAN : Move(n, p, x) \in Byte
  /\ Ack \in Byte /\ Ack.src = "mouse"
BY DEF Key, Move, Ack, Byte

\* The number of a byte tells the movement and the place in it.
LEMMA PlaceOfByte ==
  \A n \in Nat, p \in 1 .. 3, m \in Nat, k \in 1 .. 3 :
     3 * (n - 1) + p = 3 * m + k => n = m + 1 /\ p = k
BY SMTT(30)

\* What a sequence is after two elements were put behind it.
LEMMA TwoMore ==
  ASSUME NEW S, NEW s \in Seq(S), NEW a \in S, NEW b \in S
  PROVE  /\ s \o <<a, b>> \in Seq(S)
         /\ Len(s \o <<a, b>>) = Len(s) + 2
         /\ \A i \in 1 .. Len(s) : (s \o <<a, b>>)[i] = s[i]
         /\ (s \o <<a, b>>)[Len(s) + 1] = a
         /\ (s \o <<a, b>>)[Len(s) + 2] = b
<1>1. <<a, b>> \in Seq(S) /\ Len(<<a, b>>) = 2 /\ <<a, b>>[1] = a /\ <<a, b>>[2] = b
  OBVIOUS
<1>2. Len(s) \in Nat
  OBVIOUS
<1>3. /\ s \o <<a, b>> \in Seq(S)
      /\ Len(s \o <<a, b>>) = Len(s) + 2
      /\ \A i \in 1 .. Len(s) + 2 : (s \o <<a, b>>)[i] =
                     IF i <= Len(s) THEN s[i] ELSE <<a, b>>[i - Len(s)]
  BY <1>1, ConcatProperties
<1> QED BY <1>1, <1>2, <1>3

\* And after three.
LEMMA ThreeMore ==
  ASSUME NEW S, NEW s \in Seq(S), NEW a \in S, NEW b \in S, NEW c \in S
  PROVE  /\ s \o <<a, b, c>> \in Seq(S)
         /\ Len(s \o <<a, b, c>>) = Len(s) + 3
         /\ \A i \in 1 .. Len(s) : (s \o <<a, b, c>>)[i] = s[i]
         /\ (s \o <<a, b, c>>)[Len(s) + 1] = a
         /\ (s \o <<a, b, c>>)[Len(s) + 2] = b
         /\ (s \o <<a, b, c>>)[Len(s) + 3] = c
<1>1. /\ <<a, b, c>> \in Seq(S) /\ Len(<<a, b, c>>) = 3
      /\ <<a, b, c>>[1] = a /\ <<a, b, c>>[2] = b /\ <<a, b, c>>[3] = c
  OBVIOUS
<1>2. Len(s) \in Nat
  OBVIOUS
<1>3. /\ s \o <<a, b, c>> \in Seq(S)
      /\ Len(s \o <<a, b, c>>) = Len(s) + 3
      /\ \A i \in 1 .. Len(s) + 3 : (s \o <<a, b, c>>)[i] =
                     IF i <= Len(s) THEN s[i] ELSE <<a, b, c>>[i - Len(s)]
  BY <1>1, ConcatProperties
<1> QED BY <1>1, <1>2, <1>3

\* The invariant holds when the kernel starts.
LEMMA MouseInit == Init => MouseInv
<1> SUFFICES ASSUME Init PROVE MouseInv
  OBVIOUS
<1>1. MouseTypes
  BY DEF Init, MouseTypes
<1>2. AnswerFirst
  BY DEF Init, AnswerFirst, MouseReady, ps2_data_ready
<1>3. BytesInOrder
  BY DEF Init, BytesInOrder
<1> QED BY <1>1, <1>2, <1>3 DEF MouseInv

\* A key changes nothing that the packets depend on.
LEMMA MouseKeyStroke == MouseInv /\ KeyStroke => MouseInv'
<1> SUFFICES ASSUME MouseInv, KeyStroke PROVE MouseInv'
  OBVIOUS
<1>1. pressed' \in Nat
  BY DEF KeyStroke, MouseInv, MouseTypes
<1>2. /\ Key(pressed', 1) \in Byte /\ Key(pressed', 2) \in Byte
      /\ Key(pressed', 1).src = "kbd" /\ Key(pressed', 2).src = "kbd"
  BY <1>1, SentBytes
<1>3. kbd' \in Seq(Byte) /\ \A i \in 1 .. Len(kbd') : kbd'[i].src = "kbd"
  <2>1. kbd \in Seq(Byte) /\ Len(kbd) \in Nat /\ \A i \in 1 .. Len(kbd) : kbd[i].src = "kbd"
    BY DEF MouseInv, MouseTypes
  <2>2. kbd' = kbd \o <<Key(pressed', 1), Key(pressed', 2)>>
    BY DEF KeyStroke
  <2> QED BY <1>2, <2>1, <2>2, TwoMore
<1>4. MouseTypes'
  BY Zenon, <1>1, <1>3 DEF KeyStroke, MouseInv, MouseTypes
<1> QED
  BY <1>4 DEF KeyStroke, MouseInv, AnswerFirst, BytesInOrder, Held, Consumed,
              MouseReady, ps2_data_ready, ps2_output_is_mouse

\* A movement puts the next three bytes behind the others.
LEMMA MouseMovement == MouseInv /\ Movement => MouseInv'
<1> SUFFICES ASSUME MouseInv, Movement PROVE MouseInv'
  OBVIOUS
<1>0. moved \in Nat /\ moved' = moved + 1 /\ mouse = "on" /\ aux \in Seq(Byte) /\ Len(aux) \in Nat
  BY DEF Movement, MouseInv, MouseTypes
<1>1. PICK a \in Byte, b \in Byte, c \in Byte :
           /\ aux' = aux \o <<a, b, c>>
           /\ IsByte(a, 3 * moved + 1) /\ IsByte(b, 3 * moved + 2) /\ IsByte(c, 3 * moved + 3)
  <2> PICK x \in BOOLEAN, y \in BOOLEAN :
          aux' = aux \o <<Move(moved', 1, TRUE), Move(moved', 2, x), Move(moved', 3, y)>>
    BY Zenon DEF Movement
  <2>1. moved' \in Nat
    BY <1>0
  <2>2. /\ Move(moved', 1, TRUE) \in Byte /\ Move(moved', 2, x) \in Byte
        /\ Move(moved', 3, y) \in Byte
    BY <2>1 DEF Move, Byte
  <2>3. /\ IsByte(Move(moved', 1, TRUE), 3 * moved + 1)
        /\ IsByte(Move(moved', 2, x), 3 * moved + 2)
        /\ IsByte(Move(moved', 3, y), 3 * moved + 3)
    BY <1>0 DEF Move, IsByte
  <2> QED BY <2>2, <2>3, Zenon
<1>2. /\ aux' \in Seq(Byte) /\ Len(aux') = Len(aux) + 3
      /\ \A i \in 1 .. Len(aux) : aux'[i] = aux[i]
      /\ aux'[Len(aux) + 1] = a /\ aux'[Len(aux) + 2] = b /\ aux'[Len(aux) + 3] = c
  BY <1>0, <1>1, ThreeMore
<1>3. MouseTypes'
  <2>1. aux' \in Seq(Byte) /\ moved' \in Nat
    BY <1>0, <1>2
  <2> QED BY Zenon, <2>1 DEF Movement, MouseInv, MouseTypes
<1>4. Held' = Held /\ Held \in 0 .. 1
  BY DEF Movement, Held, MouseReady, ps2_data_ready, ps2_output_is_mouse
<1>5. MouseReady' <=> MouseReady
  BY DEF Movement, MouseReady, ps2_data_ready, ps2_output_is_mouse
<1>6. AnswerFirst'
  <2>1. ASSUME drv.pc = "answer"
        PROVE  /\ Held' + Len(aux') = 3 * moved' + 1
               /\ MouseReady => out[1] = Ack
               /\ ~MouseReady => aux'[1] = Ack
               /\ \A i \in 2 - Held' .. Len(aux') : IsByte(aux'[i], i + Held' - 1)
    <3>1. Held + Len(aux) = 3 * moved + 1
      BY <1>0, <2>1 DEF MouseInv, AnswerFirst
    <3>2. \A i \in 2 - Held .. Len(aux) : IsByte(aux[i], i + Held - 1)
      BY <1>0, <2>1 DEF MouseInv, AnswerFirst
    <3>3. (MouseReady => out[1] = Ack) /\ (~MouseReady => aux[1] = Ack)
      BY <1>0, <2>1 DEF MouseInv, AnswerFirst
    <3>4. ~MouseReady => aux'[1] = Ack
      BY <1>0, <1>2, <3>1, <3>3 DEF Held
    <3>5. ASSUME NEW i \in 2 - Held .. Len(aux') PROVE IsByte(aux'[i], i + Held - 1)
      <4>0. i \in Int /\ i >= 2 - Held /\ i <= Len(aux) + 3
        BY <1>0, <1>2, <1>4
      <4>1. CASE i <= Len(aux)
        BY <1>0, <1>2, <1>4, <3>2, <4>0, <4>1
      <4>2. CASE i \in {Len(aux) + 1, Len(aux) + 2, Len(aux) + 3}
        <5>1. \A k \in {1, 2, 3} : i = Len(aux) + k => i + Held - 1 = 3 * moved + k
          BY <1>0, <1>4, <3>1, <4>0
        <5> QED BY <1>0, <1>1, <1>2, <4>2, <5>1
      <4> QED BY <1>0, <4>0, <4>1, <4>2
    <3>6. Held' + Len(aux') = 3 * moved' + 1
      BY <1>0, <1>2, <1>4, <3>1
    <3> QED BY <1>4, <3>3, <3>4, <3>5, <3>6, Zenon
  <2> QED BY Zenon, <1>0, <1>5, <2>1 DEF Movement, MouseInv, AnswerFirst
<1>7. BytesInOrder'
  <2>1. Consumed' = Consumed /\ Consumed \in Nat
    BY DEF Movement, Consumed, MouseInv, MouseTypes
  <2>2. ASSUME acked
        PROVE  /\ \A i \in 1 .. Len(aux') : IsByte(aux'[i], Consumed + Held + i)
               /\ Consumed + Held + Len(aux') = 3 * moved'
    <3>1. /\ \A i \in 1 .. Len(aux) : IsByte(aux[i], Consumed + Held + i)
          /\ Consumed + Held + Len(aux) = 3 * moved
      BY <2>2 DEF MouseInv, BytesInOrder
    <3>2. ASSUME NEW i \in 1 .. Len(aux') PROVE IsByte(aux'[i], Consumed + Held + i)
      <4>0. i \in Int /\ i >= 1 /\ i <= Len(aux) + 3
        BY <1>0, <1>2
      <4>1. CASE i <= Len(aux)
        BY <1>0, <1>2, <3>1, <4>0, <4>1
      <4>2. CASE i \in {Len(aux) + 1, Len(aux) + 2, Len(aux) + 3}
        <5>1. \A k \in {1, 2, 3} : i = Len(aux) + k => Consumed + Held + i = 3 * moved + k
          BY <1>0, <1>4, <2>1, <3>1
        <5> QED BY <1>0, <1>1, <1>2, <4>2, <5>1
      <4> QED BY <1>0, <4>0, <4>1, <4>2
    <3>3. Consumed + Held + Len(aux') = 3 * moved'
      <4>1. Consumed + Held + Len(aux) = 3 * moved
        BY <3>1
      <4>2. /\ Consumed \in Int /\ Held \in Int /\ Len(aux) \in Int /\ moved \in Int
            /\ Len(aux') = Len(aux) + 3 /\ moved' = moved + 1
        BY <1>0, <1>2, <1>4, <2>1
      <4> QED BY <4>1, <4>2, SMTT(20)
    <3> QED BY <3>2, <3>3
  <2> QED BY ZenonT(40), <1>0, <1>4, <1>5, <2>1, <2>2 DEF Movement, MouseInv, BytesInOrder
<1> QED BY <1>3, <1>6, <1>7 DEF MouseInv

\* The mouse answers while nothing else of it is under way.
LEMMA MouseMouseAnswers == MouseInv /\ MouseAnswers => MouseInv'
<1> SUFFICES ASSUME MouseInv, MouseAnswers PROVE MouseInv'
  OBVIOUS
<1>1. ~acked /\ ~MouseReady /\ aux = <<>> /\ moved = 0 /\ drv.pc # "drain"
  BY DEF MouseAnswers, MouseInv, AnswerFirst, BytesInOrder
<1>2. aux' \in Seq(Byte) /\ Len(aux') = 1 /\ aux'[1] = Ack
  BY <1>1, SentBytes DEF MouseAnswers
<1>3. MouseTypes'
  BY <1>2 DEF MouseAnswers, MouseInv, MouseTypes
<1>4. ~MouseReady' /\ Held' = 0
  BY <1>1 DEF MouseAnswers, Held, MouseReady, ps2_data_ready, ps2_output_is_mouse
<1>5. AnswerFirst'
  BY <1>1, <1>2, <1>4 DEF MouseAnswers, MouseInv, AnswerFirst
<1>6. BytesInOrder'
  BY <1>1 DEF MouseAnswers, BytesInOrder
<1> QED BY <1>3, <1>5, <1>6 DEF MouseInv

\* What a sequence of one byte is.
LEMMA OneByte ==
  ASSUME NEW b \in Byte
  PROVE  <<b>> \in Seq(Byte) /\ Len(<<b>>) = 1 /\ <<b>>[1] = b /\ <<b>> # <<>>
OBVIOUS

\* A key in the output buffer is no byte of the mouse.
LEMMA MouseFromKeyboard == MouseInv /\ FromKeyboard => MouseInv'
<1> SUFFICES ASSUME MouseInv, FromKeyboard PROVE MouseInv'
  OBVIOUS
<1>1. kbd \in Seq(Byte) /\ kbd # <<>> /\ kbd[1].src = "kbd" /\ Head(kbd) = kbd[1]
  BY DEF FromKeyboard, MouseInv, MouseTypes
<1>2. /\ Head(kbd) \in Byte /\ Tail(kbd) \in Seq(Byte)
      /\ Len(Tail(kbd)) = Len(kbd) - 1
      /\ \A i \in 1 .. Len(Tail(kbd)) : Tail(kbd)[i] = kbd[i + 1]
  BY <1>1, HeadTailProperties
<1>3. out' \in Seq(Byte) /\ Len(out') = 1 /\ out'[1].src = "kbd"
  BY <1>1, <1>2, OneByte DEF FromKeyboard
<1>4. kbd' \in Seq(Byte) /\ \A i \in 1 .. Len(kbd') : kbd'[i].src = "kbd"
  <2>1. kbd' = Tail(kbd) /\ \A i \in 1 .. Len(kbd) : kbd[i].src = "kbd"
    BY DEF FromKeyboard, MouseInv, MouseTypes
  <2>2. Len(kbd) \in Nat
    BY <1>1
  <2> QED BY <1>2, <2>1, <2>2
<1>5. MouseTypes'
  BY <1>3, <1>4 DEF FromKeyboard, MouseInv, MouseTypes
<1>6. ~MouseReady /\ ~MouseReady' /\ Held = 0 /\ Held' = 0
  BY <1>3 DEF FromKeyboard, Held, MouseReady, ps2_data_ready, ps2_output_is_mouse
<1>7. AnswerFirst'
  BY <1>6 DEF FromKeyboard, MouseInv, AnswerFirst
<1>8. BytesInOrder'
  BY <1>6 DEF FromKeyboard, MouseInv, BytesInOrder, Consumed
<1> QED BY <1>5, <1>7, <1>8 DEF MouseInv

\* The first byte of the mouse moves to the output buffer.
LEMMA MouseFromMouse == MouseInv /\ FromMouse => MouseInv'
<1> SUFFICES ASSUME MouseInv, FromMouse PROVE MouseInv'
  OBVIOUS
<1>1. /\ aux \in Seq(Byte) /\ aux # <<>> /\ Head(aux) = aux[1] /\ mouse = "on"
      /\ Len(aux) \in Nat /\ Len(aux) >= 1
  BY DEF FromMouse, MouseInv, MouseTypes, AnswerFirst
<1>2. /\ Head(aux) \in Byte /\ Tail(aux) \in Seq(Byte)
      /\ Len(Tail(aux)) = Len(aux) - 1
      /\ \A i \in 1 .. Len(Tail(aux)) : Tail(aux)[i] = aux[i + 1]
  BY <1>1, HeadTailProperties
<1>3. /\ out' \in Seq(Byte) /\ Len(out') = 1 /\ out'[1] = aux[1] /\ out' # <<>>
      /\ aux' \in Seq(Byte) /\ Len(aux') = Len(aux) - 1
      /\ \A i \in 1 .. Len(aux') : aux'[i] = aux[i + 1]
  BY <1>1, <1>2, OneByte DEF FromMouse
<1>4. MouseTypes'
  BY <1>3 DEF FromMouse, MouseInv, MouseTypes
<1>5. ~MouseReady /\ Held = 0
  BY DEF FromMouse, Held, MouseReady, ps2_data_ready, ps2_output_is_mouse
<1>6. AnswerFirst'
  <2>1. ASSUME drv.pc = "answer"
        PROVE  /\ Held' + Len(aux') = 3 * moved + 1
               /\ MouseReady' /\ out'[1] = Ack
               /\ \A i \in 2 - Held' .. Len(aux') : IsByte(aux'[i], i + Held' - 1)
    <3>1. /\ Len(aux) = 3 * moved + 1 /\ aux[1] = Ack
          /\ \A i \in 2 .. Len(aux) : IsByte(aux[i], i - 1)
      BY <1>1, <1>5, <2>1 DEF MouseInv, AnswerFirst
    <3>2. out'[1] = Ack /\ MouseReady' /\ Held' = 1
      BY <1>3, <3>1, SentBytes DEF Held, MouseReady, ps2_data_ready, ps2_output_is_mouse
    <3>3. ASSUME NEW i \in 1 .. Len(aux') PROVE IsByte(aux'[i], i)
      <4>1. i + 1 \in 2 .. Len(aux) /\ (i + 1) - 1 = i /\ aux'[i] = aux[i + 1]
        BY <1>1, <1>3
      <4> QED BY <3>1, <4>1
    <3>4. Len(aux') = 3 * moved /\ moved \in Nat
      BY <1>1, <1>3, <3>1 DEF MouseInv, MouseTypes
    <3>5. 2 - Held' = 1 /\ \A i \in 1 .. Len(aux') : i + Held' - 1 = i
      BY <3>2
    <3>6. Held' + Len(aux') = 3 * moved + 1
      BY <3>2, <3>4
    <3> QED BY <3>2, <3>3, <3>5, <3>6
  <2> QED BY Zenon, <1>1, <2>1 DEF FromMouse, MouseInv, AnswerFirst
<1>7. BytesInOrder'
  <2>1. Consumed' = Consumed /\ Consumed \in Nat
    BY DEF FromMouse, Consumed, MouseInv, MouseTypes
  <2>2. ASSUME acked
        PROVE  /\ IsByte(out'[1], Consumed + 1) /\ Held' = 1
               /\ \A i \in 1 .. Len(aux') : IsByte(aux'[i], Consumed + 1 + i)
               /\ Consumed + 1 + Len(aux') = 3 * moved
    <3>1. /\ \A i \in 1 .. Len(aux) : IsByte(aux[i], Consumed + Held + i)
          /\ Consumed + Held + Len(aux) = 3 * moved
      BY <2>2 DEF MouseInv, BytesInOrder
    <3>2. /\ \A i \in 1 .. Len(aux) : IsByte(aux[i], Consumed + i)
          /\ Consumed + Len(aux) = 3 * moved
      <4>1. Consumed + Held = Consumed
        BY <1>5, <2>1
      <4> QED BY <3>1, <4>1
    <3>3. IsByte(out'[1], Consumed + 1)
      BY <1>1, <1>3, <3>2
    <3>4. Held' = 1
      BY <1>3, <3>3 DEF IsByte, Held, MouseReady, ps2_data_ready, ps2_output_is_mouse
    <3>5. ASSUME NEW i \in 1 .. Len(aux') PROVE IsByte(aux'[i], Consumed + 1 + i)
      <4>1. i + 1 \in 1 .. Len(aux) /\ Consumed + (i + 1) = Consumed + 1 + i /\ aux'[i] = aux[i + 1]
        BY <1>1, <1>3, <2>1
      <4> QED BY <3>2, <4>1
    <3>6. Consumed + 1 + Len(aux') = 3 * moved
      BY <1>1, <1>3, <2>1, <3>2
    <3> QED BY <3>3, <3>4, <3>5, <3>6
  <2> QED BY <2>1, <2>2 DEF FromMouse, MouseInv, BytesInOrder
<1> QED BY <1>4, <1>6, <1>7 DEF MouseInv

\* Draining and asking happen while the mouse is silent.
LEMMA MouseInitDrain == MouseInv /\ InitDrain => MouseInv'
<1> SUFFICES ASSUME MouseInv, InitDrain PROVE MouseInv'
  OBVIOUS
<1>1. /\ ~acked /\ packets = <<>> /\ bytes = <<>> /\ ~MouseReady /\ aux = <<>> /\ moved = 0
      /\ mouse = "off" /\ drv.pc = "drain"
  BY DEF InitDrain, MouseInv, AnswerFirst
<1>2. /\ out' \in Seq(Byte) /\ Len(out') <= 1 /\ ~MouseReady'
      /\ drv' \in [pc : {"drain", "answer", "idle", "kbd", "mouse"}, len : Nat, got : Nat]
      /\ \/ drv'.pc = "drain" /\ mouse' = "off"
         \/ drv'.pc = "answer" /\ mouse' = "asked"
  <2>1. out \in Seq(Byte) /\ Len(out) <= 1 /\ <<>> \in Seq(Byte) /\ Len(<<>>) = 0
    BY DEF MouseInv, MouseTypes
  <2>2. drv \in [pc : {"drain", "answer", "idle", "kbd", "mouse"}, len : Nat, got : Nat]
    BY DEF MouseInv, MouseTypes
  <2>3. CASE out' = <<>> /\ UNCHANGED <<mouse, drv>>
    <3>1. out' \in Seq(Byte) /\ Len(out') <= 1
      BY <2>3
    <3>2. ~MouseReady'
      BY <2>3 DEF MouseReady, ps2_data_ready
    <3>3. drv' = drv /\ mouse' = mouse
      BY <2>3
    <3>4. drv'.pc = "drain" /\ mouse' = "off"
      BY <1>1, <3>3
    <3>5. drv' \in [pc : {"drain", "answer", "idle", "kbd", "mouse"}, len : Nat, got : Nat]
      BY <2>2, <3>3
    <3> QED BY <3>1, <3>2, <3>4, <3>5
  <2>4. CASE drv' = [drv EXCEPT !.pc = "answer"] /\ mouse' = "asked" /\ UNCHANGED out
    BY <1>1, <2>1, <2>2, <2>4 DEF MouseReady, ps2_data_ready, ps2_output_is_mouse
  <2> QED BY <2>3, <2>4 DEF InitDrain
<1>3. MouseTypes'
  BY <1>2 DEF InitDrain, MouseInv, MouseTypes
<1>4. AnswerFirst'
  BY <1>1, <1>2 DEF InitDrain, AnswerFirst
<1>5. BytesInOrder'
  BY <1>1 DEF InitDrain, BytesInOrder
<1> QED BY <1>3, <1>4, <1>5 DEF MouseInv

\* If the byte taken is the answer, the bytes behind it are the movements'.
LEMMA MouseInitAnswer == MouseInv /\ InitAnswer => MouseInv'
<1> SUFFICES ASSUME MouseInv, InitAnswer PROVE MouseInv'
  OBVIOUS
<1>1. /\ packets = <<>> /\ bytes = <<>> /\ drv.pc = "answer" /\ moved \in Nat
      /\ aux \in Seq(Byte) /\ Len(aux) \in Nat
  BY DEF InitAnswer, MouseInv, MouseTypes, AnswerFirst
<1>2. out' = <<>> /\ ~MouseReady' /\ Held' = 0 /\ drv'.pc = "idle" /\ Consumed' = 0
  BY <1>1 DEF InitAnswer, MouseInv, MouseTypes, Held, Consumed, MouseReady, ps2_data_ready
<1>3. MouseTypes'
  <2>1. out' \in Seq(Byte) /\ Len(out') <= 1
    BY <1>2
  <2>2. drv' \in [pc : {"drain", "answer", "idle", "kbd", "mouse"}, len : Nat, got : Nat]
    BY DEF InitAnswer, MouseInv, MouseTypes
  <2>3. UNCHANGED <<kbd, aux, mouse, bytes, pressed, moved, packets>>
    BY DEF InitAnswer
  <2> QED BY <2>1, <2>2, <2>3 DEF MouseInv, MouseTypes
<1>4. AnswerFirst'
  BY <1>2 DEF InitAnswer, MouseInv, AnswerFirst
<1>5. BytesInOrder'
  <2>1. ASSUME out = <<Ack>>
        PROVE  /\ mouse = "on" /\ Len(aux) = 3 * moved
               /\ \A i \in 1 .. Len(aux) : IsByte(aux[i], i)
    <3>1. MouseReady /\ Held = 1
      BY <2>1, SentBytes DEF Held, MouseReady, ps2_data_ready, ps2_output_is_mouse
    <3>2. mouse = "on"
      BY <3>1 DEF MouseInv, AnswerFirst
    <3>3. /\ 1 + Len(aux) = 3 * moved + 1
          /\ \A i \in 2 - 1 .. Len(aux) : IsByte(aux[i], i + 1 - 1)
      BY <1>1, <3>1, <3>2 DEF MouseInv, AnswerFirst
    <3>4. 2 - 1 = 1 /\ \A i \in 1 .. Len(aux) : i + 1 - 1 = i
      OBVIOUS
    <3> QED BY <1>1, <3>2, <3>3, <3>4
  <2>2. ASSUME out = <<Ack>>
        PROVE  /\ \A i \in 1 .. Len(aux) : IsByte(aux[i], Consumed' + Held' + i)
               /\ Consumed' + Held' + Len(aux) = 3 * moved
    <3>1. \A i \in 1 .. Len(aux) : Consumed' + Held' + i = i
      BY <1>2
    <3>2. Consumed' + Held' + Len(aux) = Len(aux)
      BY <1>1, <1>2
    <3> QED BY <2>1, <2>2, <3>1, <3>2
  <2>3. acked' <=> out = <<Ack>>
    BY Zenon DEF InitAnswer
  <2>4. /\ packets' = <<>> /\ bytes' = <<>> /\ aux' = aux /\ mouse' = mouse /\ moved' = moved
        /\ Len(packets') = 0 /\ Len(bytes') = 0
    BY <1>1 DEF InitAnswer
  <2> QED BY <1>2, <2>1, <2>2, <2>3, <2>4 DEF BytesInOrder
<1> QED BY <1>3, <1>4, <1>5 DEF MouseInv

\* A call starts where the last one stopped.
LEMMA MouseRead ==
  ASSUME MouseInv, NEW file \in {"kbd", "mouse"}, NEW len \in Lengths, Read(file, len)
  PROVE  MouseInv'
<1>1. /\ drv.pc = "idle" /\ drv'.pc \in {"kbd", "mouse"}
      /\ drv' \in [pc : {"drain", "answer", "idle", "kbd", "mouse"}, len : Nat, got : Nat]
  BY Ps2Assumption DEF Read
<1>2. MouseTypes'
  BY <1>1 DEF Read, MouseInv, MouseTypes
<1>3. AnswerFirst'
  BY <1>1 DEF Read, MouseInv, AnswerFirst, MouseReady, ps2_data_ready, ps2_output_is_mouse
<1>4. BytesInOrder'
  BY DEF Read, MouseInv, BytesInOrder, Held, Consumed, MouseReady, ps2_data_ready,
         ps2_output_is_mouse
<1> QED BY <1>2, <1>3, <1>4 DEF MouseInv

\* A read of /dev/kbd leaves the bytes of the mouse alone.
LEMMA MousePollChar == MouseInv /\ PollChar => MouseInv'
<1> SUFFICES ASSUME MouseInv, PollChar PROVE MouseInv'
  OBVIOUS
<1>1. /\ drv.pc = "kbd" /\ drv'.pc \in {"idle", "kbd"}
      /\ drv' \in [pc : {"drain", "answer", "idle", "kbd", "mouse"}, len : Nat, got : Nat]
  BY DEF PollChar, Returns, MouseInv, MouseTypes
<1>2. out' = out \/ (out' = <<>> /\ ~MouseReady)
  <2>1. CASE UNCHANGED <<out, keys>>
    BY <2>1
  <2>2. CASE KeyReady /\ out' = <<>>
    BY <2>2 DEF KeyReady, MouseReady
  <2> QED BY <2>1, <2>2 DEF PollChar
<1>3. out' \in Seq(Byte) /\ Len(out') <= 1
  <2>1. out \in Seq(Byte) /\ Len(out) <= 1 /\ <<>> \in Seq(Byte) /\ Len(<<>>) = 0
    BY DEF MouseInv, MouseTypes
  <2>2. CASE out' = out
    BY <2>1, <2>2
  <2>3. CASE out' = <<>>
    BY <2>3
  <2> QED BY <1>2, <2>2, <2>3
<1>4. MouseTypes'
  BY <1>1, <1>3 DEF PollChar, MouseInv, MouseTypes
<1>5. (MouseReady' <=> MouseReady) /\ (MouseReady => out' = out)
  BY <1>2 DEF MouseReady, ps2_data_ready, ps2_output_is_mouse
<1>6. AnswerFirst'
  BY <1>1, <1>5 DEF PollChar, MouseInv, AnswerFirst
<1>7. BytesInOrder'
  BY <1>5 DEF PollChar, MouseInv, BytesInOrder, Held, Consumed
<1> QED BY <1>4, <1>6, <1>7 DEF MouseInv

\* A read of /dev/mouse takes the next byte of the movements.
LEMMA MousePollMouse == MouseInv /\ PollMouse => MouseInv'
<1> SUFFICES ASSUME MouseInv, PollMouse PROVE MouseInv'
  OBVIOUS
<1>1. UNCHANGED <<kbd, aux, mouse, pressed, moved, keys, acked>>
  BY DEF PollMouse
<1>2. /\ drv.pc = "mouse"
      /\ drv \in [pc : {"drain", "answer", "idle", "kbd", "mouse"}, len : Nat, got : Nat]
  BY DEF PollMouse, MouseInv, MouseTypes
<1>3. packets \in Seq(Seq(Byte)) /\ Len(packets) \in Nat
  BY DEF MouseInv, MouseTypes
<1>4. bytes \in Seq(Byte) /\ Len(bytes) \in Nat /\ Len(bytes) <= 2
  BY DEF MouseInv, MouseTypes
<1>5. out \in Seq(Byte) /\ Len(out) <= 1 /\ aux \in Seq(Byte) /\ Len(aux) \in Nat
  BY DEF MouseInv, MouseTypes
<1>6. CASE Returns /\ UNCHANGED <<out, bytes, packets>>
  <2>1. /\ drv'.pc = "idle"
        /\ drv' \in [pc : {"drain", "answer", "idle", "kbd", "mouse"}, len : Nat, got : Nat]
    BY <1>6, <1>2 DEF Returns
  <2>2. MouseTypes'
    BY <1>6, <1>1, <2>1 DEF MouseInv, MouseTypes
  <2>3. AnswerFirst'
    BY <1>6, <1>1, <1>2, <2>1 DEF MouseInv, AnswerFirst, MouseReady, ps2_data_ready, ps2_output_is_mouse
  <2>4. BytesInOrder'
    BY <1>6, <1>1 DEF MouseInv, BytesInOrder, Held, Consumed, MouseReady, ps2_data_ready,
                      ps2_output_is_mouse
  <2> QED BY <2>2, <2>3, <2>4 DEF MouseInv
<1>7. CASE /\ MouseReady /\ out' = <<>>
           /\ IF Accepts(out[1]) /\ Len(bytes) = 2
              THEN /\ packets' = Append(packets, Append(bytes, out[1]))
                   /\ bytes' = <<>>
                   /\ drv' = [drv EXCEPT !.got = @ + 3]
              ELSE /\ bytes' = IF Accepts(out[1]) THEN Append(bytes, out[1]) ELSE bytes
                   /\ Returns /\ UNCHANGED packets
  <2>1. mouse = "on" /\ out[1] \in Byte /\ Held = 1 /\ ~MouseReady' /\ Held' = 0
    <3>1. mouse = "on"
      BY <1>7 DEF MouseInv, AnswerFirst
    <3>2. out[1] \in Byte
      BY <1>3, <1>4, <1>5, <1>7 DEF MouseReady, ps2_data_ready
    <3>3. Held = 1 /\ ~MouseReady' /\ Held' = 0
      BY <1>7 DEF Held, MouseReady, ps2_data_ready
    <3> QED BY <3>1, <3>2, <3>3
  <2>2. /\ drv'.pc \in {"idle", "mouse"}
        /\ drv' \in [pc : {"drain", "answer", "idle", "kbd", "mouse"}, len : Nat, got : Nat]
    <3>1. drv' = [drv EXCEPT !.got = @ + 3] \/ drv' = [drv EXCEPT !.pc = "idle"]
      BY <1>7, Zenon DEF Returns
    <3>2. CASE drv' = [drv EXCEPT !.got = @ + 3]
      BY <1>2, <3>2
    <3>3. CASE drv' = [drv EXCEPT !.pc = "idle"]
      BY <1>2, <3>3
    <3> QED BY <3>1, <3>2, <3>3
  <2>3. bytes' \in Seq(Byte) /\ Len(bytes') <= 2 /\ packets' \in Seq(Seq(Byte))
    <3>1. Append(bytes, out[1]) \in Seq(Byte) /\ Len(Append(bytes, out[1])) = Len(bytes) + 1
      BY <1>3, <1>4, <1>5, <2>1, AppendProperties
    <3>2. Append(packets, Append(bytes, out[1])) \in Seq(Seq(Byte))
      BY <1>3, <1>4, <1>5, <3>1, AppendProperties
    <3>3. CASE Accepts(out[1]) /\ Len(bytes) = 2
      <4>1. packets' = Append(packets, Append(bytes, out[1])) /\ bytes' = <<>>
        BY <1>7, <3>3, Zenon
      <4>2. bytes' \in Seq(Byte) /\ Len(bytes') <= 2
        BY <4>1
      <4> QED BY <3>2, <4>1, <4>2
    <3>4. CASE ~(Accepts(out[1]) /\ Len(bytes) = 2)
      <4>1. packets' = packets
        BY <1>7, <3>4, Zenon
      <4>2. CASE ~Accepts(out[1])
        <5>1. bytes' = bytes
          BY <1>7, <4>2, Zenon
        <5> QED BY <1>3, <1>4, <4>1, <5>1, Zenon
      <4>3. CASE Accepts(out[1])
        <5>1. bytes' = Append(bytes, out[1])
          BY <1>7, <3>4, <4>3, Zenon
        <5>2. Len(bytes) # 2
          BY <3>4, <4>3
        <5>3. Len(bytes) + 1 <= 2
          <6>1. \A n \in Nat : n <= 2 /\ n # 2 => n + 1 <= 2
            OBVIOUS
          <6> QED BY Zenon, <1>4, <5>2, <6>1
        <5>4. Len(bytes') <= 2
          BY <3>1, <5>1, <5>3
        <5> QED BY <1>3, <3>1, <4>1, <5>1, <5>4, Zenon
      <4> QED BY <4>2, <4>3
    <3> QED BY <3>3, <3>4
  <2>4. MouseTypes'
    <3>1. out' \in Seq(Byte) /\ Len(out') <= 1
      BY <1>7
    <3> QED BY <1>1, <2>2, <2>3, <3>1 DEF MouseInv, MouseTypes
  <2>5. AnswerFirst'
    BY <1>1, <2>1, <2>2 DEF AnswerFirst
  <2>6. ASSUME acked PROVE BytesInOrder'
    <3>1. /\ IsByte(out[1], Consumed + 1)
          /\ \A j \in 1 .. Len(bytes) : IsByte(bytes[j], 3 * Len(packets) + j)
          /\ \A k \in 1 .. Len(packets) : WholePacket(packets[k]) /\ packets[k][1].n = k
      BY <1>7, <2>6 DEF MouseInv, BytesInOrder
    <3>2. /\ \A i \in 1 .. Len(aux) : IsByte(aux[i], Consumed + 1 + i)
          /\ Consumed + 1 + Len(aux) = 3 * moved
      BY <2>1, <2>6 DEF MouseInv, BytesInOrder
    <3>3. Accepts(out[1])
      <4>1. CASE Len(bytes) = 0
        <5>1. out[1].place = 1
          BY <1>3, <1>4, <1>5, <2>1, <3>1, <4>1 DEF IsByte, Consumed, Byte
        <5> QED BY <3>1, <5>1 DEF IsByte, Accepts
      <4>2. CASE Len(bytes) # 0
        BY <1>3, <1>4, <1>5, <4>2 DEF Accepts
      <4> QED BY <4>1, <4>2
    <3>4. Consumed' = Consumed + 1 /\ Consumed \in Nat
      <4>1. CASE Len(bytes) = 2
        <5>1. Append(bytes, out[1]) \in Seq(Byte)
          BY <1>3, <1>4, <1>5, <2>1, AppendProperties
        <5>2. Len(packets') = Len(packets) + 1 /\ Len(bytes') = 0
          BY <1>3, <1>4, <1>5, <1>7, <3>3, <4>1, <5>1, AppendProperties
        <5> QED BY <1>3, <1>4, <1>5, <4>1, <5>2 DEF Consumed
      <4>2. CASE Len(bytes) # 2
        <5>1. packets' = packets /\ Len(bytes') = Len(bytes) + 1
          BY <1>3, <1>4, <1>5, <1>7, <2>1, <3>3, <4>2, AppendProperties
        <5> QED BY <1>3, <1>4, <1>5, <5>1 DEF Consumed
      <4> QED BY <4>1, <4>2
    <3>5. /\ \A i \in 1 .. Len(aux) : IsByte(aux[i], Consumed' + Held' + i)
          /\ Consumed' + Held' + Len(aux) = 3 * moved
      <4>1. Consumed' + Held' = Consumed + 1
        BY <2>1, <3>4
      <4> QED BY <3>2, <4>1
    <3>6. CASE Len(bytes) # 2
      <4>1. packets' = packets /\ bytes' = Append(bytes, out[1])
        BY <1>7, <3>3, <3>6
      <4>2. /\ Len(bytes') = Len(bytes) + 1 /\ bytes'[Len(bytes) + 1] = out[1]
            /\ \A j \in 1 .. Len(bytes) : bytes'[j] = bytes[j]
        BY <1>3, <1>4, <1>5, <2>1, <4>1, AppendProperties
      <4>3. ASSUME NEW j \in 1 .. Len(bytes') PROVE IsByte(bytes'[j], 3 * Len(packets') + j)
        <5>1. CASE j \in 1 .. Len(bytes)
          BY <3>1, <4>1, <4>2, <5>1
        <5>2. CASE j = Len(bytes) + 1
          <6>1. Consumed + 1 = 3 * Len(packets') + j
            BY <1>3, <1>4, <1>5, <4>1, <5>2 DEF Consumed
          <6> QED BY <3>1, <4>2, <5>2, <6>1
        <5> QED BY <1>3, <1>4, <1>5, <4>2, <5>1, <5>2
      <4> QED BY <1>3, <1>4, <1>5, <2>1, <3>1, <3>5, <4>1, <4>3, <1>1 DEF BytesInOrder
    <3>7. CASE Len(bytes) = 2
      <4> DEFINE new == Append(bytes, out[1])
      <4>1. packets' = Append(packets, new) /\ bytes' = <<>>
        BY <1>7, <3>3, <3>7
      <4>2. new \in Seq(Byte) /\ new[1] = bytes[1] /\ new[2] = bytes[2] /\ new[3] = out[1]
        <5>1. /\ new \in Seq(Byte) /\ new[Len(bytes) + 1] = out[1]
              /\ \A i \in 1 .. Len(bytes) : new[i] = bytes[i]
          BY <1>4, <2>1, AppendProperties
        <5> HIDE DEF new
        <5>2. 1 \in 1 .. Len(bytes) /\ 2 \in 1 .. Len(bytes) /\ Len(bytes) + 1 = 3
          BY <3>7
        <5> QED BY <5>1, <5>2
      <4>3. /\ IsByte(new[1], 3 * Len(packets) + 1) /\ IsByte(new[2], 3 * Len(packets) + 2)
            /\ IsByte(new[3], 3 * Len(packets) + 3)
        <5>1. Consumed + 1 = 3 * Len(packets) + 3
          BY <1>3, <1>4, <1>5, <3>7 DEF Consumed
        <5> QED BY <3>1, <3>7, <4>2, <5>1
      <4>4. new[1] \in Byte /\ new[2] \in Byte /\ new[3] \in Byte
        BY <1>3, <1>4, <1>5, <2>1, <3>7, <4>2
      <4> HIDE DEF new
      <4>5. /\ new[1].n = Len(packets) + 1 /\ new[1].place = 1
            /\ new[2].n = Len(packets) + 1 /\ new[2].place = 2
            /\ new[3].n = Len(packets) + 1 /\ new[3].place = 3
        <5>1. /\ new[1].n \in Nat /\ new[1].place \in 1 .. 3
              /\ 3 * (new[1].n - 1) + new[1].place = 3 * Len(packets) + 1
          BY <4>3, <4>4 DEF IsByte, Byte
        <5>2. /\ new[2].n \in Nat /\ new[2].place \in 1 .. 3
              /\ 3 * (new[2].n - 1) + new[2].place = 3 * Len(packets) + 2
          BY <4>3, <4>4 DEF IsByte, Byte
        <5>3. /\ new[3].n \in Nat /\ new[3].place \in 1 .. 3
              /\ 3 * (new[3].n - 1) + new[3].place = 3 * Len(packets) + 3
          BY <4>3, <4>4 DEF IsByte, Byte
        <5>4. Len(packets) \in Nat
          BY <1>3
        <5>5. new[1].n = Len(packets) + 1 /\ new[1].place = 1
          BY <5>1, <5>4, PlaceOfByte, SMTT(20)
        <5>6. new[2].n = Len(packets) + 1 /\ new[2].place = 2
          BY <5>2, <5>4, PlaceOfByte, SMTT(20)
        <5>7. new[3].n = Len(packets) + 1 /\ new[3].place = 3
          BY <5>3, <5>4, PlaceOfByte, SMTT(20)
        <5> QED BY <5>5, <5>6, <5>7
      <4>6. WholePacket(new) /\ new[1].n = Len(packets) + 1
        BY <4>5 DEF WholePacket
      <4>7. /\ Len(packets') = Len(packets) + 1 /\ packets'[Len(packets) + 1] = new
            /\ \A k \in 1 .. Len(packets) : packets'[k] = packets[k]
        BY <1>3, <1>4, <1>5, <4>1, <4>2, AppendProperties
      <4>8. ASSUME NEW k \in 1 .. Len(packets')
            PROVE  WholePacket(packets'[k]) /\ packets'[k][1].n = k
        <5>1. CASE k \in 1 .. Len(packets)
          BY <3>1, <4>7, <5>1
        <5>2. CASE k = Len(packets) + 1
          BY <4>6, <4>7, <5>2
        <5> QED BY <1>3, <1>4, <1>5, <4>7, <5>1, <5>2
      <4>9. Len(bytes') = 0
        BY <4>1
      <4> QED BY <1>3, <1>4, <1>5, <2>1, <3>5, <4>8, <4>9, <1>1 DEF BytesInOrder
    <3> QED BY <3>6, <3>7
  <2>7. BytesInOrder'
    BY <1>1, <2>6 DEF BytesInOrder
  <2> QED BY <2>4, <2>5, <2>7 DEF MouseInv
<1> QED BY <1>6, <1>7 DEF PollMouse

\* Every step keeps the invariant.
LEMMA MouseStep == MouseInv /\ [Next]_vars => MouseInv'
<1> SUFFICES ASSUME MouseInv, [Next]_vars PROVE MouseInv'
  OBVIOUS
<1>1. CASE KeyStroke BY <1>1, MouseKeyStroke
<1>2. CASE Movement BY <1>2, MouseMovement
<1>3. CASE MouseAnswers BY <1>3, MouseMouseAnswers
<1>4. CASE FromKeyboard BY <1>4, MouseFromKeyboard
<1>5. CASE FromMouse BY <1>5, MouseFromMouse
<1>6. CASE InitDrain BY <1>6, MouseInitDrain
<1>7. CASE InitAnswer BY <1>7, MouseInitAnswer
<1>8. CASE \E file \in {"kbd", "mouse"}, len \in Lengths : Read(file, len)
  BY <1>8, MouseRead
<1>9. CASE PollChar BY <1>9, MousePollChar
<1>10. CASE PollMouse BY <1>10, MousePollMouse
<1>11. CASE UNCHANGED vars
  <2>1. MouseTypes'
    BY <1>11 DEF vars, MouseInv, MouseTypes
  <2>2. AnswerFirst' /\ BytesInOrder'
    BY <1>11 DEF vars, MouseInv, AnswerFirst, BytesInOrder, Held, Consumed, MouseReady,
                 ps2_data_ready, ps2_output_is_mouse
  <2> QED BY <2>1, <2>2 DEF MouseInv
<1> QED
  BY <1>1, <1>2, <1>3, <1>4, <1>5, <1>6, <1>7, <1>8, <1>9, <1>10, <1>11 DEF Next

\* The invariant says what the packets are.
LEMMA MousePackets == MouseInv => PacketsAreMovements
<1> SUFFICES ASSUME MouseInv, acked PROVE PacketsAreMovements
  BY DEF PacketsAreMovements
<1>1. Len(Waiting("mouse")) = Held + Len(aux)
  <2>1. out \in Seq(Byte) /\ Len(out) <= 1 /\ aux \in Seq(Byte) /\ <<>> \in Seq(Byte)
    BY DEF MouseInv, MouseTypes
  <2>2. CASE MouseReady
    <3>1. Waiting("mouse") = out \o aux /\ Held = 1 /\ Len(out) = 1
      <4>1. out # <<>> /\ out[1].src = "mouse"
        BY <2>2 DEF MouseReady, ps2_data_ready, ps2_output_is_mouse
      <4>2. Len(out) = 1
        <5>1. Len(out) \in Nat \ {0}
          BY <2>1, <4>1, EmptySeq
        <5>2. \A n \in Nat \ {0} : n <= 1 => n = 1
          OBVIOUS
        <5> QED BY Zenon, <2>1, <5>1, <5>2
      <4> QED BY <2>2, <4>1, <4>2 DEF Waiting, Held
    <3> QED BY ZenonT(40), <2>1, <3>1, ConcatProperties
  <2>3. CASE ~MouseReady
    <3>1. Waiting("mouse") = <<>> \o aux /\ Held = 0 /\ Len(<<>>) = 0
      BY ZenonT(40), <2>3 DEF Waiting, Held, MouseReady, ps2_data_ready, ps2_output_is_mouse
    <3> QED BY <2>1, <3>1, ConcatProperties
  <2> QED BY <2>2, <2>3
<1>2. 3 * moved = 3 * Len(packets) + Len(bytes) + (Held + Len(aux))
  <2>1. Len(packets) \in Nat /\ Len(bytes) \in Nat /\ Len(aux) \in Nat /\ Held \in 0 .. 1
    BY DEF MouseInv, MouseTypes, Held
  <2> QED BY <2>1 DEF MouseInv, BytesInOrder, Consumed
<1> QED BY ZenonT(40), <1>1, <1>2 DEF PacketsAreMovements, MouseInv, BytesInOrder

\* If ps2_init read the mouse's answer, the packets of /dev/mouse are the movements,
\* for any number of keys and movements, any reads and any mix of the bytes.
THEOREM MouseInOrder == Spec => []PacketsAreMovements
BY MouseInit, MouseStep, MousePackets, PTL DEF Spec

\* What is left of the types: the bounds of the counters.
Counts ==
    /\ drv.got <= drv.len
    /\ pressed <= MaxKeys /\ moved <= MaxMoves

\* A step delivers bytes only where the buffer has room for them.
LEMMA CountsStep == MouseInv /\ Counts /\ [Next]_vars => Counts'
<1> SUFFICES ASSUME MouseInv, Counts, [Next]_vars PROVE Counts'
  OBVIOUS
<1>1. /\ drv \in [pc : {"drain", "answer", "idle", "kbd", "mouse"}, len : Nat, got : Nat]
      /\ pressed \in Nat /\ moved \in Nat /\ MaxKeys \in Nat /\ MaxMoves \in Nat
  BY Ps2Assumption DEF MouseInv, MouseTypes
<1>2. pressed' <= MaxKeys
  <2>1. pressed' = pressed \/ (pressed < MaxKeys /\ pressed' = pressed + 1)
    BY Zenon DEF Next, vars, KeyStroke, Movement, MouseAnswers, FromKeyboard, FromMouse,
           InitDrain, InitAnswer, Read, PollChar, PollMouse
  <2> QED BY <1>1, <2>1 DEF Counts
<1>3. moved' <= MaxMoves
  <2>1. moved' = moved \/ (moved < MaxMoves /\ moved' = moved + 1)
    BY Zenon DEF Next, vars, KeyStroke, Movement, MouseAnswers, FromKeyboard, FromMouse,
           InitDrain, InitAnswer, Read, PollChar, PollMouse
  <2> QED BY <1>1, <2>1 DEF Counts
<1>4. drv'.got <= drv'.len
  <2>1. \/ drv' = drv
        \/ \E pc \in {"answer", "idle"} : drv' = [drv EXCEPT !.pc = pc]
        \/ \E file \in {"kbd", "mouse"}, len \in Lengths :
               drv' = [pc |-> file, len |-> len, got |-> 0]
        \/ drv.got < drv.len /\ drv' = [drv EXCEPT !.got = @ + 1]
        \/ drv.got + 3 <= drv.len /\ drv' = [drv EXCEPT !.got = @ + 3]
    BY Zenon DEF Next, vars, KeyStroke, Movement, MouseAnswers, FromKeyboard, FromMouse,
           InitDrain, InitAnswer, Read, PollChar, PollMouse, Returns, HasRoom
  <2> QED BY <1>1, <2>1, Ps2Assumption DEF Counts
<1> QED BY <1>2, <1>3, <1>4 DEF Counts

----------------------------------------------------------------------------
(* The keys.                                                               *)

\* b is the k-th code that the keys send.
IsCode(b, k) == b.src = "kbd" /\ b.place \in 1 .. 2 /\ 2 * (b.n - 1) + b.place = k

KeyHeld == IF KeyReady THEN 1 ELSE 0

\* The number of codes that the driver has taken.
Taken == 2 * pressed - KeyHeld - Len(kbd)

\* The codes lie in the output buffer and in the keyboard, in order and without a gap.
CodesInOrder ==
    /\ \A i \in 1 .. Len(aux) : aux[i].src = "mouse"
    /\ Taken \in Nat
    /\ KeyReady => IsCode(out[1], Taken + 1)
    /\ \A i \in 1 .. Len(kbd) : IsCode(kbd[i], Taken + KeyHeld + i)

\* The keys delivered are the last of those whose first code was taken.
Delivered(m) ==
    /\ 2 * m = Taken \/ 2 * m = Taken + 1
    /\ Len(keys) <= m /\ \A i \in 1 .. Len(keys) : keys[i] = m - Len(keys) + i

KeyInv ==
    /\ keys \in Seq(Nat) /\ (drv.pc \in {"drain", "answer"} => keys = <<>>)
    /\ CodesInOrder
    /\ \E m \in Nat : Delivered(m)

\* The types of what the keys depend on.
LEMMA KeyTypes == ASSUME MouseInv
  PROVE /\ kbd \in Seq(Byte) /\ Len(kbd) \in Nat /\ pressed \in Nat /\ aux \in Seq(Byte) /\ Len(aux) \in Nat
        /\ out \in Seq(Byte) /\ KeyHeld \in 0 .. 1 /\ (KeyReady <=> KeyHeld = 1) /\ Taken \in Int
        /\ (KeyReady => out # <<>> /\ out[1] \in Byte)
<1>1. /\ kbd \in Seq(Byte) /\ Len(kbd) \in Nat /\ pressed \in Nat /\ aux \in Seq(Byte) /\ Len(aux) \in Nat
      /\ out \in Seq(Byte)
  BY DEF MouseInv, MouseTypes
<1>2. KeyHeld \in 0 .. 1 /\ (KeyReady <=> KeyHeld = 1)
  BY DEF KeyHeld
<1>3. Taken \in Int
  BY <1>1, <1>2 DEF Taken
<1>4. KeyReady => out # <<>> /\ out[1] \in Byte
  BY <1>1 DEF KeyReady, ps2_data_ready
<1> QED BY Zenon, <1>1, <1>2, <1>3, <1>4

\* A step that takes no code and delivers no key.
LEMMA KeyFrame == ASSUME KeyInv, Taken' = Taken, keys' = keys, CodesInOrder',
                         drv'.pc \in {"drain", "answer"} => drv.pc \in {"drain", "answer"}
  PROVE KeyInv'
<1>1. \A m : Delivered(m) => Delivered(m)'
  BY Zenon DEF Delivered
<1> QED BY Zenon, <1>1 DEF KeyInv

\* A step that leaves the codes alone.
LEMMA KeySame == ASSUME KeyInv, kbd' = kbd, aux' = aux, pressed' = pressed, keys' = keys,
                        KeyReady' <=> KeyReady, KeyReady => out' = out,
                        drv'.pc \in {"drain", "answer"} => drv.pc \in {"drain", "answer"}
  PROVE KeyInv'
<1>1. KeyHeld' = KeyHeld
  BY Zenon DEF KeyHeld
<1>2. Taken' = Taken
  BY Zenon, <1>1 DEF Taken
<1>3. CodesInOrder'
  BY Zenon, <1>1, <1>2 DEF KeyInv, CodesInOrder, IsCode
<1> QED BY Zenon, <1>2, <1>3, KeyFrame

\* No key has been pressed at the start.
LEMMA KeyInit == ASSUME Init PROVE KeyInv
<1>1. kbd = <<>> /\ aux = <<>> /\ out = <<>> /\ pressed = 0 /\ keys = <<>>
  BY Zenon DEF Init
<1>2. ~KeyReady /\ KeyHeld = 0 /\ Len(kbd) = 0 /\ Len(aux) = 0 /\ Len(keys) = 0 /\ keys \in Seq(Nat)
  BY <1>1 DEF KeyReady, ps2_data_ready, KeyHeld
<1>3. Taken = 0
  <2>1. Taken = 2 * 0 - 0 - 0
    BY Zenon, <1>1, <1>2 DEF Taken
  <2>2. 2 * 0 - 0 - 0 = 0
    OBVIOUS
  <2> QED BY Zenon, <2>1, <2>2
<1>4. CodesInOrder
  BY <1>2, <1>3 DEF CodesInOrder
<1>5. Delivered(0)
  BY <1>2, <1>3 DEF Delivered
<1>6. 0 \in Nat
  OBVIOUS
<1> QED BY Zenon, <1>1, <1>2, <1>4, <1>5, <1>6 DEF KeyInv

\* A key sends the next two codes.
LEMMA KeyKeyStroke == ASSUME MouseInv, KeyInv, KeyStroke PROVE KeyInv'
<1> DEFINE a == Key(pressed', 1)   b == Key(pressed', 2)   k == Len(kbd)
<1>1. pressed' = pressed + 1 /\ kbd' = kbd \o <<a, b>> /\ UNCHANGED <<aux, out, drv, keys>>
  BY Zenon DEF KeyStroke
<1>2. /\ kbd \in Seq(Byte) /\ k \in Nat /\ pressed \in Nat /\ KeyHeld \in 0 .. 1 /\ Taken \in Int
  BY Zenon, KeyTypes
<1>3. a \in Byte /\ b \in Byte
  <2>1. pressed' \in Nat /\ 1 \in 0 .. 3 /\ 2 \in 0 .. 3
    BY <1>1, <1>2
  <2> QED BY Zenon, <2>1, SentBytes
<1>4. IsCode(a, 2 * pressed + 1) /\ IsCode(b, 2 * pressed + 2)
  BY <1>1, <1>2 DEF Key, IsCode
<1> HIDE DEF a, b
<1>5. /\ Len(kbd') = k + 2 /\ \A i \in 1 .. k : kbd'[i] = kbd[i]
      /\ kbd'[k + 1] = a /\ kbd'[k + 2] = b
  BY <1>1, <1>2, <1>3, TwoMore
<1>6. KeyReady' = KeyReady /\ KeyHeld' = KeyHeld
  BY Zenon, <1>1 DEF KeyHeld, KeyReady, ps2_data_ready, ps2_output_is_mouse
<1>7. Taken' = Taken /\ Taken + KeyHeld + k = 2 * pressed
  BY <1>1, <1>2, <1>5, <1>6 DEF Taken
<1> HIDE DEF k
<1>8. \A i \in 1 .. Len(kbd') : IsCode(kbd'[i], Taken + KeyHeld + i)
  <2> SUFFICES ASSUME NEW i \in 1 .. k + 2 PROVE IsCode(kbd'[i], Taken + KeyHeld + i)
    BY Zenon, <1>5
  <2>1. i \in 1 .. k \/ (i = k + 1 /\ Taken + KeyHeld + i = 2 * pressed + 1)
                     \/ (i = k + 2 /\ Taken + KeyHeld + i = 2 * pressed + 2)
    BY <1>2, <1>7
  <2>2. \A j \in 1 .. k : IsCode(kbd[j], Taken + KeyHeld + j)
    BY Zenon DEF KeyInv, CodesInOrder, k
  <2> QED BY Zenon, <1>4, <1>5, <2>1, <2>2
<1>9. CodesInOrder'
  BY Zenon, <1>1, <1>6, <1>7, <1>8 DEF KeyInv, CodesInOrder, IsCode
<1> QED BY Zenon, <1>1, <1>7, <1>9, KeyFrame

\* The codes move into the output buffer.
LEMMA KeyFromKeyboard == ASSUME MouseInv, KeyInv, FromKeyboard PROVE KeyInv'
<1>1. out = <<>> /\ kbd # <<>> /\ out' = <<Head(kbd)>> /\ kbd' = Tail(kbd) /\ UNCHANGED <<aux, pressed, drv, keys>>
  BY Zenon DEF FromKeyboard
<1>2. /\ kbd \in Seq(Byte) /\ Len(kbd) \in Nat /\ pressed \in Nat /\ Taken \in Int
  BY Zenon, KeyTypes
<1>3. /\ Len(kbd) >= 1 /\ Head(kbd) = kbd[1] /\ Len(kbd') = Len(kbd) - 1
      /\ \A i \in 1 .. Len(kbd) - 1 : kbd'[i] = kbd[i + 1]
  BY <1>1, <1>2
<1>4. ~KeyReady /\ KeyHeld = 0
  BY Zenon, <1>1 DEF KeyReady, ps2_data_ready, KeyHeld
<1>5. out'[1] = kbd[1] /\ out' # <<>>
  BY <1>1, <1>3
<1>6. \A i \in 1 .. Len(kbd) : IsCode(kbd[i], Taken + 0 + i)
  BY Zenon, <1>4 DEF KeyInv, CodesInOrder
<1>7. IsCode(kbd[1], Taken + 1)
  <2>1. 1 \in 1 .. Len(kbd) /\ Taken + 0 + 1 = Taken + 1
    BY <1>2, <1>3
  <2> QED BY Zenon, <1>6, <2>1
<1>8. KeyReady' /\ KeyHeld' = 1
  <2>1. out'[1].src = "kbd" /\ "kbd" # "mouse"
    BY <1>5, <1>7 DEF IsCode
  <2>2. KeyReady'
    BY Zenon, <1>5, <2>1 DEF KeyReady, ps2_data_ready, ps2_output_is_mouse
  <2> QED BY Zenon, <2>2 DEF KeyHeld
<1>9. Taken' = Taken
  BY <1>1, <1>2, <1>3, <1>4, <1>8 DEF Taken
<1>10. ASSUME NEW i \in 1 .. Len(kbd') PROVE IsCode(kbd'[i], Taken + 1 + i)
  <2>1. i \in 1 .. Len(kbd) - 1 /\ i + 1 \in 1 .. Len(kbd) /\ Taken + 0 + (i + 1) = Taken + 1 + i
    BY <1>2, <1>3
  <2> QED BY ZenonT(40), <1>3, <1>6, <2>1
<1>11. CodesInOrder'
  BY Zenon, <1>1, <1>5, <1>7, <1>8, <1>9, <1>10 DEF KeyInv, CodesInOrder, IsCode
<1> QED BY Zenon, <1>1, <1>9, <1>11, KeyFrame

\* A byte of the mouse in the output buffer is no code.
LEMMA KeyFromMouse == ASSUME MouseInv, KeyInv, FromMouse PROVE KeyInv'
<1>1. out = <<>> /\ aux # <<>> /\ out' = <<Head(aux)>> /\ aux' = Tail(aux) /\ UNCHANGED <<kbd, pressed, drv, keys>>
  BY Zenon DEF FromMouse
<1>2. aux \in Seq(Byte) /\ Len(aux) \in Nat
  BY Zenon, KeyTypes
<1>3. /\ Len(aux) >= 1 /\ Head(aux) = aux[1] /\ Len(aux') = Len(aux) - 1
      /\ \A i \in 1 .. Len(aux) - 1 : aux'[i] = aux[i + 1]
  BY <1>1, <1>2
<1>4. \A i \in 1 .. Len(aux) : aux[i].src = "mouse"
  BY Zenon DEF KeyInv, CodesInOrder
<1>5. out'[1].src = "mouse"
  BY <1>1, <1>3, <1>4
<1>6. ~KeyReady /\ ~KeyReady'
  BY Zenon, <1>1, <1>5 DEF KeyReady, ps2_data_ready, ps2_output_is_mouse
<1>7. KeyHeld' = KeyHeld /\ Taken' = Taken
  BY Zenon, <1>1, <1>6 DEF KeyHeld, Taken
<1>8. \A i \in 1 .. Len(aux') : aux'[i].src = "mouse"
  BY <1>2, <1>3, <1>4
<1>9. CodesInOrder'
  BY Zenon, <1>1, <1>6, <1>7, <1>8 DEF KeyInv, CodesInOrder, IsCode
<1> QED BY Zenon, <1>1, <1>7, <1>9, KeyFrame

\* The mouse sends bytes of its own.
LEMMA KeyMovement == ASSUME MouseInv, KeyInv, Movement \/ MouseAnswers PROVE KeyInv'
<1>1. UNCHANGED <<kbd, out, drv, pressed, keys>>
  BY Zenon DEF Movement, MouseAnswers
<1>2. aux \in Seq(Byte) /\ Len(aux) \in Nat /\ \A i \in 1 .. Len(aux) : aux[i].src = "mouse"
  BY Zenon, KeyTypes DEF KeyInv, CodesInOrder
<1>3. \A i \in 1 .. Len(aux') : aux'[i].src = "mouse"
  <2>1. CASE Movement
    <3>0. moved' \in Nat
      BY <2>1 DEF Movement, MouseInv, MouseTypes
    <3>1. PICK x \in BOOLEAN, y \in BOOLEAN :
            aux' = aux \o <<Move(moved', 1, TRUE), Move(moved', 2, x), Move(moved', 3, y)>>
      BY Zenon, <2>1 DEF Movement
    <3>2. PICK a \in Byte, b \in Byte, c \in Byte :
            aux' = aux \o <<a, b, c>> /\ a.src = "mouse" /\ b.src = "mouse" /\ c.src = "mouse"
      <4>1. Move(moved', 1, TRUE).src = "mouse" /\ Move(moved', 2, x).src = "mouse" /\ Move(moved', 3, y).src = "mouse"
        BY DEF Move
      <4>2. TRUE \in BOOLEAN /\ 1 \in 0 .. 3 /\ 2 \in 0 .. 3 /\ 3 \in 0 .. 3
        OBVIOUS
      <4>3. Move(moved', 1, TRUE) \in Byte /\ Move(moved', 2, x) \in Byte /\ Move(moved', 3, y) \in Byte
        BY ZenonT(40), <3>0, <4>2, SentBytes
      <4> QED BY ZenonT(40), <3>1, <4>1, <4>3
    <3>3. /\ Len(aux') = Len(aux) + 3 /\ \A i \in 1 .. Len(aux) : aux'[i] = aux[i]
          /\ aux'[Len(aux) + 1] = a /\ aux'[Len(aux) + 2] = b /\ aux'[Len(aux) + 3] = c
      BY <1>2, <3>2, ThreeMore
    <3> SUFFICES ASSUME NEW i \in 1 .. Len(aux) + 3 PROVE aux'[i].src = "mouse"
      BY Zenon, <3>3
    <3>4. i \in 1 .. Len(aux) \/ i = Len(aux) + 1 \/ i = Len(aux) + 2 \/ i = Len(aux) + 3
      BY <1>2
    <3> QED BY ZenonT(40), <1>2, <3>2, <3>3, <3>4
  <2>2. CASE MouseAnswers
    <3>1. aux' = Append(aux, Ack) /\ Ack \in Byte /\ Ack.src = "mouse"
      BY Zenon, <2>2, SentBytes DEF MouseAnswers
    <3> QED BY <1>2, <3>1
  <2> QED BY Zenon, <2>1, <2>2
<1>4. KeyReady' = KeyReady /\ KeyHeld' = KeyHeld /\ Taken' = Taken
  BY Zenon, <1>1 DEF KeyHeld, KeyReady, ps2_data_ready, ps2_output_is_mouse, Taken
<1>5. CodesInOrder'
  BY Zenon, <1>1, <1>3, <1>4 DEF KeyInv, CodesInOrder, IsCode
<1> QED BY Zenon, <1>1, <1>4, <1>5, KeyFrame

\* The driver takes the code in the output buffer.
LEMMA CodeTaken == ASSUME MouseInv, KeyInv, KeyReady, out' = <<>>, UNCHANGED <<kbd, aux, pressed>>
  PROVE CodesInOrder' /\ Taken' = Taken + 1
<1>1. kbd \in Seq(Byte) /\ Len(kbd) \in Nat /\ pressed \in Nat /\ Taken \in Nat
  BY Zenon, KeyTypes DEF KeyInv, CodesInOrder
<1>2. KeyHeld = 1 /\ ~KeyReady' /\ KeyHeld' = 0
  BY Zenon DEF KeyHeld, KeyReady, ps2_data_ready
<1>3. Taken' = Taken + 1
  BY <1>1, <1>2 DEF Taken
<1>4. \A i \in 1 .. Len(kbd) : IsCode(kbd[i], Taken + 1 + i)
  BY Zenon, <1>2 DEF KeyInv, CodesInOrder
<1>5. \A i \in 1 .. Len(kbd) : IsCode(kbd[i], Taken' + 0 + i)
  <2>1. \A i \in 1 .. Len(kbd) : Taken' + 0 + i = Taken + 1 + i
    BY <1>1, <1>3
  <2> QED BY Zenon, <1>4, <2>1
<1>6. Taken' \in Nat
  BY <1>1, <1>3
<1> QED BY Zenon, <1>2, <1>3, <1>5, <1>6 DEF KeyInv, CodesInOrder, IsCode

\* ps2_init throws bytes away before any key is delivered.
LEMMA KeyDrain == ASSUME MouseInv, KeyInv, InitDrain \/ InitAnswer PROVE KeyInv'
<1>1. drv.pc \in {"drain", "answer"} /\ UNCHANGED <<kbd, aux, pressed, keys>> /\ (out' = out \/ out' = <<>>)
  BY DEF InitDrain, InitAnswer
<1>2. CASE KeyReady /\ out' = <<>>
  <2>1. CodesInOrder' /\ Taken' = Taken + 1 /\ Taken \in Nat
    BY Zenon, <1>1, <1>2, CodeTaken DEF KeyInv, CodesInOrder
  <2>2. keys' = <<>> /\ keys' \in Seq(Nat) /\ Len(keys') = 0
    <3>1. keys' = <<>>
      BY Zenon, <1>1 DEF KeyInv
    <3> QED BY <3>1
  <2>3. \A t \in Nat : \E m \in Nat : 2 * m = t \/ 2 * m = t + 1
    <3> SUFFICES ASSUME NEW t \in Nat PROVE \E m \in Nat : 2 * m = t \/ 2 * m = t + 1
      BY Zenon
    <3>1. (t + 1) \div 2 \in Nat /\ (2 * ((t + 1) \div 2) = t \/ 2 * ((t + 1) \div 2) = t + 1)
      OBVIOUS
    <3> QED BY Zenon, <3>1
  <2>4. \E m \in Nat : 2 * m = Taken' \/ 2 * m = Taken' + 1
    <3>1. Taken' \in Nat
      BY <2>1
    <3> QED BY Zenon, <2>3, <3>1
  <2>5. \A m \in Nat : 0 <= m /\ 1 .. 0 = {}
    OBVIOUS
  <2>6. \E m \in Nat : Delivered(m)'
    BY Zenon, <2>2, <2>4, <2>5 DEF Delivered
  <2> QED BY Zenon, <2>1, <2>2, <2>6 DEF KeyInv
<1>3. CASE out' = out
  <2>1. KeyReady' <=> KeyReady
    BY Zenon, <1>3 DEF KeyReady, ps2_data_ready, ps2_output_is_mouse
  <2> QED BY Zenon, <1>1, <1>3, <2>1, KeySame
<1>4. CASE ~KeyReady /\ out' = <<>>
  <2>1. ~KeyReady'
    BY Zenon, <1>4 DEF KeyReady, ps2_data_ready
  <2> QED BY Zenon, <1>1, <1>4, <2>1, KeySame
<1> QED BY Zenon, <1>1, <1>2, <1>3, <1>4

\* /dev/kbd delivers the key whose first code it takes.
LEMMA KeyPollChar == ASSUME MouseInv, KeyInv, PollChar PROVE KeyInv'
<1>1. drv.pc = "kbd" /\ UNCHANGED <<kbd, aux, pressed>>
  BY Zenon DEF PollChar
<1>2. "kbd" \notin {"drain", "answer"} /\ "idle" \notin {"drain", "answer"}
  OBVIOUS
<1>d. drv \in [pc : {"drain", "answer", "idle", "kbd", "mouse"}, len : Nat, got : Nat]
  BY Zenon DEF MouseInv, MouseTypes
<1>3. drv'.pc \notin {"drain", "answer"}
  <2>1. drv' = [drv EXCEPT !.pc = "idle"] \/ drv' = [drv EXCEPT !.got = @ + 1]
    BY Zenon DEF PollChar, Returns
  <2> QED BY <1>1, <1>d, <2>1
<1>4. CASE out' = out /\ keys' = keys
  <2>1. KeyReady' <=> KeyReady
    BY Zenon, <1>4 DEF KeyReady, ps2_data_ready, ps2_output_is_mouse
  <2> QED BY Zenon, <1>1, <1>3, <1>4, <2>1, KeySame
<1>5. CASE KeyReady /\ out' = <<>>
  <2> DEFINE b == out[1]   t == Taken   n == Len(keys)
  <2>1. CodesInOrder' /\ Taken' = t + 1 /\ t \in Nat /\ IsCode(b, t + 1)
    BY Zenon, <1>1, <1>5, CodeTaken DEF KeyInv, CodesInOrder
  <2>2. b \in Byte
    BY ZenonT(40), <1>5, KeyTypes
  <2>3. b.n \in Nat /\ b.place \in 1 .. 2 /\ 2 * (b.n - 1) + b.place = t + 1
    BY <2>1, <2>2 DEF IsCode, Byte
  <2>4. keys \in Seq(Nat) /\ n \in Nat
    BY DEF KeyInv
  <2>5. PICK m \in Nat : Delivered(m)
    BY Zenon DEF KeyInv
  <2>6. (2 * m = t \/ 2 * m = t + 1) /\ n <= m /\ \A i \in 1 .. n : keys[i] = m - n + i
    BY Zenon, <2>5 DEF Delivered
  <2>7. IF b.place = 1 THEN keys' = Append(keys, b.n) ELSE keys' = keys
    BY Zenon, <1>5 DEF PollChar, KeyReady, ps2_data_ready
  <2> HIDE DEF b, t, n
  <2>8. CASE b.place = 1
    <3>1. b.n = m + 1 /\ 2 * (m + 1) = (t + 1) + 1
      BY <2>1, <2>3, <2>6, <2>8
    <3>2. keys' = Append(keys, m + 1)
      BY Zenon, <2>7, <2>8, <3>1
    <3>3. keys' \in Seq(Nat) /\ Len(keys') = n + 1 /\ keys'[n + 1] = m + 1 /\ \A i \in 1 .. n : keys'[i] = keys[i]
      BY <2>4, <3>2 DEF n
    <3>4. n + 1 <= m + 1 /\ \A i \in 1 .. n + 1 : keys'[i] = (m + 1) - (n + 1) + i
      <4>1. n + 1 <= m + 1
        BY <2>4, <2>6
      <4>2. ASSUME NEW i \in 1 .. n + 1 PROVE keys'[i] = (m + 1) - (n + 1) + i
        <5>1. i \in 1 .. n \/ i = n + 1
          BY <2>4
        <5>2. (m + 1) - (n + 1) + i = m - n + i /\ (i = n + 1 => (m + 1) - (n + 1) + i = m + 1)
          BY <2>4
        <5> QED BY ZenonT(40), <2>6, <3>3, <5>1, <5>2
      <4> QED BY Zenon, <4>1, <4>2
    <3>5. Delivered(m + 1)' /\ m + 1 \in Nat
      <4>1. m + 1 \in Nat
        OBVIOUS
      <4> QED BY ZenonT(40), <2>1, <3>1, <3>3, <3>4, <4>1 DEF Delivered
    <3> QED BY ZenonT(40), <1>3, <2>1, <3>3, <3>5 DEF KeyInv
  <2>9. CASE b.place # 1
    <3>1. 2 * m = t + 1
      BY <2>1, <2>3, <2>6, <2>9
    <3>2. keys' = keys
      BY Zenon, <2>7, <2>9
    <3>3. Delivered(m)'
      BY Zenon, <2>1, <2>6, <3>1, <3>2 DEF Delivered, n
    <3> QED BY ZenonT(40), <1>3, <2>1, <2>4, <3>2, <3>3 DEF KeyInv
  <2> QED BY Zenon, <2>8, <2>9
<1> QED BY Zenon, <1>4, <1>5 DEF PollChar

\* /dev/mouse takes no code.
LEMMA KeyPollMouse == ASSUME MouseInv, KeyInv, PollMouse PROVE KeyInv'
<1>1. drv.pc = "mouse" /\ UNCHANGED <<kbd, aux, pressed, keys>> /\ (out' = out \/ (MouseReady /\ out' = <<>>))
  BY Zenon DEF PollMouse
<1>d. drv \in [pc : {"drain", "answer", "idle", "kbd", "mouse"}, len : Nat, got : Nat]
  BY Zenon DEF MouseInv, MouseTypes
<1>2. drv'.pc \notin {"drain", "answer"}
  <2>1. drv' = [drv EXCEPT !.pc = "idle"] \/ drv' = [drv EXCEPT !.got = @ + 3]
    BY Zenon DEF PollMouse, Returns
  <2> QED BY <1>1, <1>d, <2>1
<1>3. (KeyReady' <=> KeyReady) /\ (KeyReady => out' = out)
  BY Zenon, <1>1 DEF KeyReady, MouseReady, ps2_data_ready, ps2_output_is_mouse
<1> QED BY Zenon, <1>1, <1>2, <1>3, KeySame

\* Every step keeps the codes and the delivered keys in order.
LEMMA KeyStep == MouseInv /\ KeyInv /\ [Next]_vars => KeyInv'
<1> SUFFICES ASSUME MouseInv, KeyInv, [Next]_vars PROVE KeyInv'
  OBVIOUS
<1>1. CASE UNCHANGED vars
  <2>1. UNCHANGED <<kbd, aux, pressed, keys, out, drv>>
    BY Zenon, <1>1 DEF vars
  <2>2. KeyReady' <=> KeyReady
    BY Zenon, <2>1 DEF KeyReady, ps2_data_ready, ps2_output_is_mouse
  <2> QED BY Zenon, <2>1, <2>2, KeySame
<1>2. CASE \E file \in {"kbd", "mouse"}, len \in Lengths : Read(file, len)
  <2>1. PICK file \in {"kbd", "mouse"}, len \in Lengths : Read(file, len)
    BY Zenon, <1>2
  <2>2. drv' = [pc |-> file, len |-> len, got |-> 0] /\ UNCHANGED <<kbd, aux, pressed, keys, out>>
    BY ZenonT(40), <2>1 DEF Read
  <2>3. drv'.pc \notin {"drain", "answer"}
    BY <2>2
  <2>4. KeyReady' <=> KeyReady
    BY Zenon, <2>2 DEF KeyReady, ps2_data_ready, ps2_output_is_mouse
  <2> QED BY Zenon, <2>2, <2>3, <2>4, KeySame
<1> QED BY ZenonT(40), <1>1, <1>2, KeyKeyStroke, KeyMovement, KeyFromKeyboard, KeyFromMouse, KeyDrain,
           KeyPollChar, KeyPollMouse DEF Next

\* A buffer that is not empty holds one byte.
LEMMA OneOut == ASSUME NEW s \in Seq(Byte), s # <<>>, Len(s) <= 1 PROVE Len(s) = 1
<1>1. Len(s) \in Nat \ {0}
  BY Zenon, EmptySeq
<1> QED BY <1>1

\* A byte in front of others.
LEMMA OneBefore == ASSUME NEW s \in Seq(Byte), NEW r \in Seq(Byte), Len(s) = 1
  PROVE /\ s \o r \in Seq(Byte) /\ Len(s \o r) = 1 + Len(r) /\ (s \o r)[1] = s[1]
        /\ \A i \in 1 .. Len(r) : (s \o r)[1 + i] = r[i]
<1>1. Len(r) \in Nat
  BY Zenon, LenProperties
<1>2. /\ s \o r \in Seq(Byte) /\ Len(s \o r) = Len(s) + Len(r)
      /\ \A i \in 1 .. Len(s) + Len(r) : (s \o r)[i] = IF i <= Len(s) THEN s[i] ELSE r[i - Len(s)]
  BY Zenon, ConcatProperties
<1>3. /\ Len(s \o r) = 1 + Len(r)
      /\ \A i \in 1 .. 1 + Len(r) : (s \o r)[i] = IF i <= 1 THEN s[i] ELSE r[i - 1]
  BY Zenon, <1>2
<1>4. 1 \in 1 .. 1 + Len(r) /\ 1 <= 1
  BY <1>1
<1>5. \A i \in 1 .. Len(r) : 1 + i \in 1 .. 1 + Len(r) /\ ~(1 + i <= 1) /\ (1 + i) - 1 = i
  BY <1>1
<1>6. ASSUME NEW i \in 1 .. Len(r) PROVE (s \o r)[1 + i] = r[i]
  <2>1. (s \o r)[1 + i] = IF 1 + i <= 1 THEN s[1 + i] ELSE r[(1 + i) - 1]
    BY Zenon, <1>3, <1>5
  <2> QED BY Zenon, <1>5, <2>1
<1> QED BY Zenon, <1>2, <1>3, <1>4, <1>6

\* The codes that wait are those after the ones taken.
LEMMA CodesWaiting == ASSUME MouseInv, KeyInv
  PROVE /\ Waiting("kbd") \in Seq(Byte) /\ Len(Waiting("kbd")) = 2 * pressed - Taken
        /\ \A i \in 1 .. Len(Waiting("kbd")) : IsCode(Waiting("kbd")[i], Taken + i)
<1> DEFINE w == Waiting("kbd")
<1>1. /\ kbd \in Seq(Byte) /\ Len(kbd) \in Nat /\ pressed \in Nat /\ out \in Seq(Byte) /\ Taken \in Int
      /\ KeyHeld \in 0 .. 1 /\ (KeyReady <=> KeyHeld = 1)
  BY Zenon, KeyTypes
<1>2. Len(out) <= 1
  BY Zenon DEF MouseInv, MouseTypes
<1>3. /\ KeyReady => IsCode(out[1], Taken + 1)
      /\ \A i \in 1 .. Len(kbd) : IsCode(kbd[i], Taken + KeyHeld + i)
  BY Zenon DEF KeyInv, CodesInOrder
<1>4. Taken = 2 * pressed - KeyHeld - Len(kbd)
  BY Zenon DEF Taken
<1>5. CASE KeyReady
  <2>1. out # <<>> /\ out[1].src = "kbd"
    BY Zenon, <1>3, <1>5 DEF KeyReady, ps2_data_ready, IsCode
  <2>2. w = out \o kbd
    BY Zenon, <2>1 DEF Waiting
  <2>3. Len(out) = 1
    BY Zenon, <1>1, <1>2, <2>1, OneOut
  <2>4. KeyHeld = 1
    BY Zenon, <1>1, <1>5
  <2>5. /\ w \in Seq(Byte) /\ Len(w) = 1 + Len(kbd) /\ w[1] = out[1]
        /\ \A i \in 1 .. Len(kbd) : w[1 + i] = kbd[i]
    <3> HIDE DEF w
    <3> QED BY ZenonT(40), <1>1, <2>2, <2>3, OneBefore
  <2>6. Len(w) = 2 * pressed - Taken
    <3> HIDE DEF w
    <3> QED BY <1>1, <1>4, <2>4, <2>5
  <2>7. ASSUME NEW i \in 1 .. Len(w) PROVE IsCode(w[i], Taken + i)
    <3> HIDE DEF w
    <3>1. i = 1 \/ (i - 1 \in 1 .. Len(kbd) /\ 1 + (i - 1) = i /\ Taken + 1 + (i - 1) = Taken + i)
      BY <1>1, <2>5
    <3> QED BY ZenonT(40), <1>3, <1>5, <2>4, <2>5, <3>1
  <2> QED BY Zenon, <2>5, <2>6, <2>7
<1>6. CASE ~KeyReady
  <2>1. ~(out # <<>> /\ out[1].src = "kbd")
    BY Zenon, <1>6 DEF KeyReady, ps2_data_ready, ps2_output_is_mouse
  <2>2. w = <<>> \o kbd
    BY Zenon, <2>1 DEF Waiting
  <2>3. w = kbd
    BY <1>1, <2>2
  <2>4. KeyHeld = 0
    BY <1>1, <1>6
  <2>5. Len(w) = 2 * pressed - Taken
    BY <1>1, <1>4, <2>3, <2>4
  <2>6. Taken + 0 = Taken
    BY <1>1
  <2> QED BY ZenonT(40), <1>1, <1>3, <2>3, <2>4, <2>5, <2>6
<1> QED BY Zenon, <1>5, <1>6

\* The invariant gives the order of the keys.
LEMMA KeyOrder == ASSUME MouseInv, KeyInv PROVE KeysInOrder
<1> DEFINE w == Waiting("kbd")
           t == Taken
           p == pressed
<1>1. /\ w \in Seq(Byte) /\ Len(w) = 2 * p - t
      /\ \A i \in 1 .. Len(w) : IsCode(w[i], t + i)
  BY Zenon, CodesWaiting
<1>2. t \in Nat /\ p \in Nat
  BY Zenon, KeyTypes DEF KeyInv, CodesInOrder
<1>3. PICK m \in Nat : Delivered(m)
  BY Zenon DEF KeyInv
<1>4. /\ 2 * m = t \/ 2 * m = t + 1
      /\ Len(keys) <= m /\ \A i \in 1 .. Len(keys) : keys[i] = m - Len(keys) + i
  BY Zenon, <1>3 DEF Delivered
<1>5. Len(w) \in Nat /\ DOMAIN w = 1 .. Len(w)
  BY <1>1
<1>6. FirstCodes = {i \in 1 .. Len(w) : w[i].place = 1} /\ KeysWaiting = {w[i].n : i \in FirstCodes}
  BY Zenon, <1>5 DEF FirstCodes, KeysWaiting
<1> HIDE DEF w, t, p
<1>7. m \in 0 .. p
  BY <1>1, <1>2, <1>4, <1>5
<1>8. ASSUME NEW i \in 1 .. Len(w)
      PROVE w[i].n \in Nat /\ w[i].place \in 1 .. 2 /\ 2 * (w[i].n - 1) + w[i].place = t + i
  <2>1. w[i] \in Byte
    BY <1>1
  <2>2. w[i].n \in Nat
    BY <2>1 DEF Byte
  <2> QED BY Zenon, <1>1, <2>2 DEF IsCode
<1>9. ASSUME NEW i \in FirstCodes PROVE i \in 1 .. Len(w) /\ w[i].n \in Nat /\ 2 * w[i].n = t + i + 1
  <2>1. i \in 1 .. Len(w) /\ w[i].place = 1
    BY Zenon, <1>6
  <2>2. w[i].n \in Nat /\ 2 * (w[i].n - 1) + 1 = t + i
    BY ZenonT(40), <1>8, <2>1
  <2>3. \A n \in Nat, k \in 1 .. Len(w) : 2 * (n - 1) + 1 = t + k => 2 * n = t + k + 1
    BY <1>2, <1>5
  <2> QED BY Zenon, <2>1, <2>2, <2>3
<1>10. KeysWaiting \subseteq m + 1 .. p
  <2>1. ASSUME NEW i \in FirstCodes PROVE w[i].n \in m + 1 .. p
    <3>1. \A q \in Nat, n \in Nat : \A k \in 1 .. q :
              (2 * m = t \/ 2 * m = t + 1) /\ q = 2 * p - t /\ 2 * n = t + k + 1 => n \in m + 1 .. p
      BY <1>2
    <3>2. (2 * m = t \/ 2 * m = t + 1) /\ Len(w) \in Nat /\ Len(w) = 2 * p - t
      BY Zenon, <1>1, <1>4, <1>5
    <3>3. i \in 1 .. Len(w) /\ w[i].n \in Nat /\ 2 * w[i].n = t + i + 1
      BY Zenon, <1>9
    <3> QED BY ZenonT(40), <3>1, <3>2, <3>3
  <2> QED BY Zenon, <1>6, <2>1
<1>11. m + 1 .. p \subseteq KeysWaiting
  <2>1. ASSUME NEW n \in m + 1 .. p PROVE n \in KeysWaiting
    <3> DEFINE i == 2 * n - 1 - t
    <3>1. i \in 1 .. Len(w) /\ n \in Nat
      BY <1>1, <1>2, <1>4
    <3>2. t + i = 2 * n - 1
      BY <1>2, <3>1
    <3> HIDE DEF i
    <3>3. \A a \in Nat, c \in 1 .. 2 : 2 * (a - 1) + c = 2 * n - 1 => a = n /\ c = 1
      BY <3>1
    <3>4. w[i].n = n /\ w[i].place = 1
      BY ZenonT(40), <1>8, <3>1, <3>2, <3>3
    <3> QED BY ZenonT(40), <1>6, <3>1, <3>4
  <2> QED BY Zenon, <2>1
<1>12. ASSUME NEW i \in FirstCodes, NEW j \in FirstCodes, i < j PROVE w[i].n < w[j].n
  <2>1. \A a, b \in Nat, k, l \in 1 .. Len(w) : 2 * a = t + k + 1 /\ 2 * b = t + l + 1 /\ k < l => a < b
    BY <1>2, <1>5
  <2> QED BY ZenonT(40), <1>9, <1>12, <2>1
<1>13. KeysWaiting = m + 1 .. p
  BY Zenon, <1>10, <1>11
<1> QED BY ZenonT(40), <1>4, <1>7, <1>12, <1>13 DEF KeysInOrder, w, p

\* The acknowledgement is a Boolean.
LEMMA AckedBoolean == ASSUME acked \in BOOLEAN, [Next]_vars PROVE acked' \in BOOLEAN
<1>1. InitAnswer => acked' \in BOOLEAN
  <2>1. (out = <<Ack>>) \in BOOLEAN
    OBVIOUS
  <2> QED BY <2>1 DEF InitAnswer
<1>2. ~InitAnswer => acked' = acked
  BY Zenon DEF Next, vars, KeyStroke, Movement, MouseAnswers, FromKeyboard, FromMouse, InitDrain, Read, PollChar, PollMouse
<1> QED BY Zenon, <1>1, <1>2

\* Keys reach /dev/kbd once each and in the order they were pressed, and none is
\* missing after the first that arrives, however many keys and movements mix in
\* the controller's buffer and whatever ps2_init threw away.
THEOREM KeysDelivered == Spec => []KeysInOrder
<1>1. Init => MouseInv /\ KeyInv
  BY MouseInit, KeyInit
<1>2. MouseInv /\ KeyInv /\ [Next]_vars => (MouseInv /\ KeyInv)'
  BY MouseStep, KeyStep
<1> QED BY <1>1, <1>2, KeyOrder, PTL DEF Spec

\* The driver and the devices keep their types, and no read of either file delivers
\* more bytes than its buffer has, whatever its length is.
THEOREM InputTypes == Spec => []TypeOK
<1> DEFINE I == MouseInv /\ Counts /\ acked \in BOOLEAN
<1>1. Init => I
  <2>1. Init => acked \in BOOLEAN
    BY Zenon DEF Init
  <2>2. Init => Counts
    BY Ps2Assumption DEF Init, Counts
  <2> QED BY Zenon, <2>1, <2>2, MouseInit
<1>2. I /\ [Next]_vars => I'
  BY MouseStep, CountsStep, AckedBoolean
<1>3. I => TypeOK
  BY DEF MouseInv, MouseTypes, Counts, TypeOK
<1> HIDE DEF I
<1> QED BY <1>1, <1>2, <1>3, PTL DEF Spec
=============================================================================
