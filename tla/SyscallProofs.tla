--------------------------- MODULE SyscallProofs ---------------------------
(***************************************************************************)
(* Proofs about what the system calls do: on the process table (Sched),    *)
(* for every table size, policy and bound, and on the descriptor table     *)
(* (FdTable), where the buffers and the descriptors stay in one-to-one     *)
(* correspondence, for any number of descriptors, files and buffers.       *)
(***************************************************************************)
EXTENDS Sched, FdTable, TLAPS

\* The solver gets more time than by default; the steps that are first-order reasoning
\* cite Zenon.
USE SMTT(30), ZenonT(30), SMTT(31)

----------------------------------------------------------------------------
(* The descriptor table.                                                   *)

\* The live buffers hold bytes.
BuffersOK ==
    /\ DOMAIN mem \subseteq Buffers
    /\ \A b \in DOMAIN mem : mem[b] \in Seq(Byte)

\* The inductive invariant: ownership alone does not say that an offset of a
\* reused descriptor fits its new buffer, and offsets need the ownership to
\* know which buffer they are about.
HeapInv ==
    /\ fds \in [Fds -> Fd]
    /\ BuffersOK
    /\ HeapIsOwned
    /\ OffsetsInBuffer

----------------------------------------------------------------------------
(* What the system calls do to one descriptor.                             *)

\* A free descriptor that receives a new buffer.
LEMMA NewBuffer ==
    ASSUME HeapInv, NEW fd \in Fds, ~fds[fd].used,
           NEW b \in Buffers, NEW content \in Seq(Byte), kalloc(b, content),
           NEW e \in Fd, e.used, ~e.is_pseudo, e.data = b,
           e.size = Len(content), e.off = 0,
           fds' = [fds EXCEPT ![fd] = e]
    PROVE  HeapInv'
<1>1. /\ DOMAIN mem' = DOMAIN mem \cup {b}
      /\ b \notin DOMAIN mem
      /\ mem'[b] = content
      /\ \A x \in DOMAIN mem : mem'[x] = mem[x]
  BY DEF kalloc
<1>2. fds' \in [Fds -> Fd] /\ \A i \in Fds : fds'[i] = IF i = fd THEN e ELSE fds[i]
  BY DEF HeapInv
<1>3. BuffersOK'
  BY <1>1 DEF HeapInv, BuffersOK
<1>4. HoldsBuffer(fd)' /\ ~HoldsBuffer(fd)
      /\ \A i \in Fds : i # fd => HoldsBuffer(i)' = HoldsBuffer(i)
  BY <1>2 DEF HoldsBuffer
<1>5. HeapIsOwned'
  BY <1>1, <1>2, <1>4 DEF HeapInv, HeapIsOwned
<1>6. OffsetsInBuffer'
  <2> SUFFICES ASSUME NEW i \in Fds, HoldsBuffer(i)'
               PROVE  /\ fds'[i].data \in DOMAIN mem'
                      /\ fds'[i].size = Len(mem'[fds'[i].data])
                      /\ fds'[i].off <= fds'[i].size
    BY DEF OffsetsInBuffer
  <2>1. CASE i = fd
    BY <1>1, <1>2, <2>1
  <2>2. CASE i # fd
    BY <1>1, <1>2, <1>4, <2>2 DEF HeapInv, OffsetsInBuffer
  <2> QED BY <2>1, <2>2
<1> QED BY <1>2, <1>3, <1>5, <1>6 DEF HeapInv

\* A free descriptor that becomes a pseudo file, or stays free.
LEMMA NoBuffer ==
    ASSUME HeapInv, NEW fd \in Fds, ~fds[fd].used,
           NEW e \in Fd, e.used => e.is_pseudo,
           fds' = [fds EXCEPT ![fd] = e], mem' = mem
    PROVE  HeapInv'
<1>1. fds' \in [Fds -> Fd] /\ \A i \in Fds : fds'[i] = IF i = fd THEN e ELSE fds[i]
  BY DEF HeapInv
<1>2. ~HoldsBuffer(fd)' /\ ~HoldsBuffer(fd)
      /\ \A i \in Fds : i # fd => HoldsBuffer(i)' = HoldsBuffer(i)
  BY <1>1 DEF HoldsBuffer
<1>3. HeapIsOwned' /\ OffsetsInBuffer' /\ BuffersOK'
  BY <1>1, <1>2 DEF HeapInv, HeapIsOwned, OffsetsInBuffer, BuffersOK
<1> QED BY <1>1, <1>3 DEF HeapInv

\* A descriptor that keeps its buffer and moves its offset.
LEMMA SameBuffer ==
    ASSUME HeapInv, NEW fd \in Fds, HoldsBuffer(fd),
           NEW e \in Fd, e.used, ~e.is_pseudo, e.data = fds[fd].data,
           e.size = fds[fd].size, e.off <= e.size,
           fds' = [fds EXCEPT ![fd] = e],
           DOMAIN mem' = DOMAIN mem,
           \A x \in DOMAIN mem : mem'[x] \in Seq(Byte) /\ Len(mem'[x]) = Len(mem[x])
    PROVE  HeapInv'
<1>1. fds' \in [Fds -> Fd] /\ \A i \in Fds : fds'[i] = IF i = fd THEN e ELSE fds[i]
  BY DEF HeapInv
<1>2. \A i \in Fds : HoldsBuffer(i)' = HoldsBuffer(i) /\ fds'[i].data = fds[i].data
                     /\ fds'[i].size = fds[i].size
  BY <1>1 DEF HoldsBuffer
<1>3. HeapIsOwned'
  BY <1>2 DEF HeapInv, HeapIsOwned
<1>4. OffsetsInBuffer'
  BY <1>1, <1>2 DEF HeapInv, OffsetsInBuffer
<1>5. BuffersOK'
  BY DEF HeapInv, BuffersOK
<1> QED BY <1>1, <1>3, <1>4, <1>5 DEF HeapInv

\* A pseudo descriptor that stays one.
LEMMA PseudoMoves ==
    ASSUME HeapInv, NEW fd \in Fds, fds[fd].is_pseudo,
           NEW e \in Fd, e.is_pseudo, fds' = [fds EXCEPT ![fd] = e], mem' = mem
    PROVE  HeapInv'
<1>1. fds' \in [Fds -> Fd] /\ \A i \in Fds : fds'[i] = IF i = fd THEN e ELSE fds[i]
  BY DEF HeapInv
<1>2. ~HoldsBuffer(fd)' /\ ~HoldsBuffer(fd)
      /\ \A i \in Fds : i # fd => HoldsBuffer(i)' = HoldsBuffer(i)
  BY <1>1 DEF HoldsBuffer
<1>3. HeapIsOwned' /\ OffsetsInBuffer' /\ BuffersOK'
  BY <1>1, <1>2 DEF HeapInv, HeapIsOwned, OffsetsInBuffer, BuffersOK
<1> QED BY <1>1, <1>3 DEF HeapInv

\* A descriptor that is closed and gives its buffer back.
LEMMA Release ==
    ASSUME HeapInv, NEW fd \in Fds, HoldsBuffer(fd), kfree(fds[fd].data),
           fds' = [fds EXCEPT ![fd].used = FALSE]
    PROVE  HeapInv'
<1> DEFINE b == fds[fd].data
<1>1. /\ DOMAIN mem' = DOMAIN mem \ {b}
      /\ \A x \in DOMAIN mem \ {b} : mem'[x] = mem[x]
  BY DEF kfree
<1>2. /\ fds' \in [Fds -> Fd]
      /\ \A i \in Fds : i # fd => fds'[i] = fds[i]
      /\ ~fds'[fd].used
  BY ZenonT(40) DEF HeapInv, Fd
<1>3. ~HoldsBuffer(fd)' /\ \A i \in Fds : i # fd => HoldsBuffer(i)' = HoldsBuffer(i)
  BY <1>2 DEF HoldsBuffer
<1>4. \A i \in Fds : i # fd /\ HoldsBuffer(i) => fds[i].data # b
  BY DEF HeapInv, HeapIsOwned
<1>5. HeapIsOwned'
  BY <1>1, <1>2, <1>3, <1>4 DEF HeapInv, HeapIsOwned
<1>6. OffsetsInBuffer'
  BY <1>1, <1>2, <1>3, <1>4 DEF HeapInv, OffsetsInBuffer
<1>7. BuffersOK'
  BY <1>1 DEF HeapInv, BuffersOK
<1> QED BY <1>2, <1>5, <1>6, <1>7 DEF HeapInv

----------------------------------------------------------------------------
(* The system calls.                                                       *)

\* The volume holds bytes.
DiskOK == disk \in [Files -> Seq(Byte)]

\* SYS_OPEN keeps buffers and descriptors paired: every failure path frees what it took.
LEMMA OpenKeepsHeap ==
    ASSUME HeapInv, DiskOK, NEW path \in Files \cup PseudoPaths \cup {NoPath}, SysOpen(path)
    PROVE  HeapInv'
<1>1. CASE UNCHANGED <<fds, mem>>
  BY <1>1 DEF HeapInv, BuffersOK, HeapIsOwned, OffsetsInBuffer, HoldsBuffer
<1>2. ASSUME NEW fd \in Fds, FirstFree(fd), open_pseudo(fd, path)
      PROVE  HeapInv'
  <2> DEFINE e == [alloc_fd(fd) EXCEPT !.is_pseudo = TRUE, !.dirty = FALSE, !.path = path]
  <2>1. fds[fd] \in Fd /\ ~fds[fd].used
    BY <1>2 DEF HeapInv, FirstFree
  <2>2. e \in Fd /\ e.is_pseudo
    BY Zenon, <1>2, <2>1 DEF alloc_fd, Fd
  <2> HIDE DEF e
  <2>3. fds' = [fds EXCEPT ![fd] = e] /\ mem' = mem
    BY <1>2 DEF open_pseudo, e
  <2> QED BY Zenon, <2>1, <2>2, <2>3, NoBuffer
<1>3. ASSUME NEW fd \in Fds, FirstFree(fd), open_fails(fd, path)
      PROVE  HeapInv'
  <2> DEFINE e == [alloc_fd(fd) EXCEPT !.used = FALSE, !.dirty = FALSE, !.path = path]
  <2>1. fds[fd] \in Fd /\ ~fds[fd].used
    BY <1>3 DEF HeapInv, FirstFree
  <2>2. e \in Fd /\ ~e.used
    BY Zenon, <1>3, <2>1 DEF alloc_fd, Fd
  <2> HIDE DEF e
  <2>3. fds' = [fds EXCEPT ![fd] = e] /\ mem' = mem
    BY <1>3 DEF open_fails, e
  <2> QED BY Zenon, <2>1, <2>2, <2>3, NoBuffer
<1>4. ASSUME NEW fd \in Fds, FirstFree(fd), open_file(fd, path)
      PROVE  HeapInv'
  <2>1. PICK b \in Buffers :
          /\ kalloc(b, disk[path])
          /\ fds' = [fds EXCEPT ![fd] =
                       [alloc_fd(fd) EXCEPT !.dirty = FALSE, !.path = path, !.data = b,
                                            !.size = Len(disk[path]), !.off = 0]]
    BY Zenon, <1>4 DEF open_file
  <2> DEFINE e == [alloc_fd(fd) EXCEPT !.dirty = FALSE, !.path = path, !.data = b,
                                       !.size = Len(disk[path]), !.off = 0]
  <2>2. fds[fd] \in Fd /\ ~fds[fd].used /\ path \in Files
    BY <1>4 DEF HeapInv, FirstFree, open_file
  <2>3. disk[path] \in Seq(Byte) /\ Len(disk[path]) \in Nat
    BY <2>2 DEF DiskOK
  <2>4. e \in Fd /\ e.used /\ ~e.is_pseudo /\ e.data = b /\ e.size = Len(disk[path]) /\ e.off = 0
    BY Zenon, <2>2, <2>3 DEF alloc_fd, Fd
  <2> HIDE DEF e
  <2>5. fds' = [fds EXCEPT ![fd] = e]
    BY <2>1 DEF e
  <2>6. kalloc(b, disk[path])
    BY Zenon, <2>1
  <2> QED BY Zenon, <2>2, <2>3, <2>4, <2>5, <2>6, NewBuffer
<1> QED BY <1>1, <1>2, <1>3, <1>4 DEF SysOpen

\* A file as it was written before boot, or a fresh socket buffer: n bytes with one tag.
LEMMA FilledIsSeq ==
    ASSUME NEW path \in Files \cup {NoPath}, NEW n \in Nat, NEW s \in Filled(path, n)
    PROVE  s \in Seq(Byte) /\ Len(s) = n /\ \A k \in 1 .. n : s[k][1] = path
<1>1. s \in [1 .. n -> {path} \X Values]
  BY DEF Filled
<1>2. {path} \X Values \subseteq Byte
  BY DEF Byte
<1>3. s \in [1 .. n -> Byte]
  BY <1>1, <1>2
<1>4. s \in Seq(Byte) /\ Len(s) = n
  BY <1>3
<1>5. \A k \in 1 .. n : s[k] \in {path} \X Values
  BY <1>1
<1> QED BY <1>4, <1>5

\* SYS_SOCKET and SYS_ACCEPT keep buffers and descriptors paired.
LEMMA SocketKeepsHeap ==
    ASSUME HeapInv, NEW call, new_socket(call)
    PROVE  HeapInv'
<1> USE FdAssumption
<1>1. CASE UNCHANGED <<fds, mem>>
  BY <1>1 DEF HeapInv, BuffersOK, HeapIsOwned, OffsetsInBuffer, HoldsBuffer
<1>2. ASSUME NEW fd \in Fds, NEW b \in Buffers, NEW junk \in Filled(NoPath, SOCK_BUF),
             FirstFree(fd), kalloc(b, junk),
             fds' = [fds EXCEPT ![fd] =
                       [alloc_fd(fd) EXCEPT !.is_socket = TRUE, !.data = b, !.size = SOCK_BUF]]
      PROVE  HeapInv'
  <2> DEFINE e == [alloc_fd(fd) EXCEPT !.is_socket = TRUE, !.data = b, !.size = SOCK_BUF]
  <2>1. fds[fd] \in Fd /\ ~fds[fd].used
    BY <1>2 DEF HeapInv, FirstFree
  <2>2. junk \in Seq(Byte) /\ Len(junk) = SOCK_BUF
    BY FilledIsSeq
  <2>3. e \in Fd /\ e.used /\ ~e.is_pseudo /\ e.data = b /\ e.size = SOCK_BUF /\ e.off = 0
    BY Zenon, <2>1 DEF alloc_fd, Fd
  <2> HIDE DEF e
  <2>4. fds' = [fds EXCEPT ![fd] = e]
    BY <1>2 DEF e
  <2> QED BY ZenonT(40), <1>2, <2>1, <2>2, <2>3, <2>4, NewBuffer
<1> QED BY Zenon, <1>1, <1>2 DEF new_socket

\* The clipped count of a read or a write ends within the buffer.
LEMMA TakeFits ==
    ASSUME HeapInv, NEW fd \in Fds, HoldsBuffer(fd), NEW want \in Nat
    PROVE  /\ Take(fd, want) \in Nat
           /\ fds[fd].off + Take(fd, want) \in Nat
           /\ fds[fd].off + Take(fd, want) <= fds[fd].size
<1>1. fds[fd].off \in Nat /\ fds[fd].size \in Nat /\ fds[fd].off <= fds[fd].size
  BY DEF HeapInv, OffsetsInBuffer, Fd
<1> QED BY <1>1 DEF Take, Smaller

\* SYS_READ keeps buffers and descriptors paired, and its offset in the buffer.
LEMMA ReadKeepsHeap ==
    ASSUME HeapInv, NEW fd \in FdArgs, NEW want \in 0 .. MaxWant, SysRead(fd, want)
    PROVE  HeapInv'
<1> USE FdAssumption
<1> want \in Nat /\ mem' = mem
  BY DEF SysRead
<1>1. CASE UNCHANGED fds
  BY <1>1 DEF HeapInv, BuffersOK, HeapIsOwned, OffsetsInBuffer, HoldsBuffer
<1>2. ASSUME Valid(fd), read_pseudo(fd, want), NEW got \in Nat,
             fds' = [fds EXCEPT ![fd].off = (@ + got) % OffModulus]
      PROVE  HeapInv'
  <2> DEFINE e == [fds[fd] EXCEPT !.off = (fds[fd].off + got) % OffModulus]
  <2>1. fd \in Fds /\ fds[fd] \in Fd /\ fds[fd].is_pseudo
    BY <1>2 DEF HeapInv, Valid, read_pseudo
  <2>2. (fds[fd].off + got) % OffModulus \in Nat
    BY <2>1 DEF Fd
  <2>3. e \in Fd /\ e.is_pseudo
    BY <2>1, <2>2 DEF Fd
  <2>4. fds' = [fds EXCEPT ![fd] = e]
    BY <1>2
  <2> HIDE DEF e
  <2> QED BY Zenon, <2>1, <2>3, <2>4, PseudoMoves
<1>3. ASSUME Valid(fd), read_buffer(fd, want)
      PROVE  HeapInv'
  <2> DEFINE e == [fds[fd] EXCEPT !.off = fds[fd].off + Take(fd, want)]
  <2>1. fd \in Fds /\ fds[fd] \in Fd /\ HoldsBuffer(fd)
    BY <1>3 DEF HeapInv, Valid, read_buffer, HoldsBuffer
  <2>2. fds[fd].off + Take(fd, want) \in Nat /\ fds[fd].off + Take(fd, want) <= fds[fd].size
    BY <2>1, TakeFits
  <2>3. e \in Fd /\ e.used /\ ~e.is_pseudo /\ e.data = fds[fd].data
        /\ e.size = fds[fd].size /\ e.off <= e.size
    BY <2>1, <2>2 DEF Fd, HoldsBuffer
  <2>4. fds' = [fds EXCEPT ![fd] = e]
    BY <1>3 DEF read_buffer
  <2>5. \A x \in DOMAIN mem : mem'[x] \in Seq(Byte) /\ Len(mem'[x]) = Len(mem[x])
    BY DEF HeapInv, BuffersOK
  <2> HIDE DEF e
  <2> QED BY Zenon, <2>1, <2>3, <2>4, <2>5, SameBuffer
<1>4. CASE Valid(fd) /\ read_pseudo(fd, want) /\ ~UNCHANGED fds
  <2>1. PICK got \in vfs_pseudo_pread(fds[fd].path, fds[fd].off, want) :
          got >= 0 /\ fds' = [fds EXCEPT ![fd].off = (@ + got) % OffModulus]
    BY <1>4 DEF read_pseudo
  <2>2. fds[fd].off \in Nat
    BY <1>4 DEF HeapInv, Valid, Fd
  <2>3. got \in Int
    BY <2>1, <2>2 DEF vfs_pseudo_pread, pseudo_copy, devtmpfs_pread, Smaller
  <2>4. got \in Nat
    BY <2>1, <2>3
  <2> QED BY Zenon, <1>2, <1>4, <2>1, <2>4
<1> QED BY <1>1, <1>3, <1>4 DEF SysRead

\* A write into a buffer leaves its length alone.
LEMMA OverwriteFits ==
    ASSUME NEW old \in Seq(Byte), NEW off, NEW n, NEW byte \in Byte
    PROVE  Overwrite(old, off, n, byte) \in Seq(Byte) /\ Len(Overwrite(old, off, n, byte)) = Len(old)
<1>1. Overwrite(old, off, n, byte) \in [1 .. Len(old) -> Byte]
  BY DEF Overwrite
<1>2. Len(old) \in Nat
  OBVIOUS
<1> QED BY <1>1, <1>2

\* What a descriptor writes is tagged with a file, or with none.
OwnersOK == \A i \in Fds : HoldsBuffer(i) => Owner(i) \in Files \cup {NoPath}

\* SYS_WRITE keeps buffers and descriptors paired, and its offset in the buffer.
LEMMA WriteKeepsHeap ==
    ASSUME HeapInv, OwnersOK, NEW fd \in FdArgs, NEW want \in 0 .. MaxWant,
           NEW v \in Values, SysWrite(fd, want, v)
    PROVE  HeapInv'
<1> USE FdAssumption
<1> want \in Nat
  OBVIOUS
<1>1. CASE UNCHANGED <<fds, mem>>
  BY <1>1 DEF HeapInv, BuffersOK, HeapIsOwned, OffsetsInBuffer, HoldsBuffer
<1>2. ASSUME Valid(fd), write_buffer(fd, want, v), ~UNCHANGED <<fds, mem>>
      PROVE  HeapInv'
  <2> DEFINE e == [fds[fd] EXCEPT !.off = fds[fd].off + Take(fd, want), !.dirty = TRUE, !.wrote = TRUE]
             b == fds[fd].data
             byte == <<Owner(fd), v>>
  <2>1. fd \in Fds /\ fds[fd] \in Fd /\ HoldsBuffer(fd) /\ b \in DOMAIN mem
    BY <1>2 DEF HeapInv, Valid, write_buffer, HoldsBuffer, HeapIsOwned
  <2>2. fds[fd].off + Take(fd, want) \in Nat /\ fds[fd].off + Take(fd, want) <= fds[fd].size
    BY <2>1, TakeFits
  <2>3. e \in Fd /\ e.used /\ ~e.is_pseudo /\ e.data = fds[fd].data
        /\ e.size = fds[fd].size /\ e.off <= e.size
    BY Zenon, <2>1, <2>2 DEF Fd, HoldsBuffer
  <2>4. fds' = [fds EXCEPT ![fd] = e]
    BY Zenon, <1>2, <2>1 DEF write_buffer, HeapInv
  <2>5. mem' = [mem EXCEPT ![b] = Overwrite(mem[b], fds[fd].off, Take(fd, want), byte)]
    BY <1>2 DEF write_buffer
  <2>6. mem[b] \in Seq(Byte) /\ byte \in Byte
    BY <2>1 DEF HeapInv, BuffersOK, OwnersOK, Byte
  <2>7. Overwrite(mem[b], fds[fd].off, Take(fd, want), byte) \in Seq(Byte)
        /\ Len(Overwrite(mem[b], fds[fd].off, Take(fd, want), byte)) = Len(mem[b])
    BY <2>6, OverwriteFits
  <2>8. DOMAIN mem' = DOMAIN mem
    BY <2>5
  <2>9. \A x \in DOMAIN mem : mem'[x] \in Seq(Byte) /\ Len(mem'[x]) = Len(mem[x])
    BY <2>5, <2>7 DEF HeapInv, BuffersOK
  <2> HIDE DEF e
  <2> QED BY Zenon, <2>1, <2>3, <2>4, <2>8, <2>9, SameBuffer
<1> QED BY <1>1, <1>2 DEF SysWrite, write_refused

\* SYS_CLOSE frees the one buffer of the descriptor it closes.
LEMMA CloseKeepsHeap ==
    ASSUME HeapInv, NEW fd \in FdArgs, SysClose(fd)
    PROVE  HeapInv'
<1>1. CASE UNCHANGED <<fds, mem>>
  BY <1>1 DEF HeapInv, BuffersOK, HeapIsOwned, OffsetsInBuffer, HoldsBuffer
<1>2. CASE Valid(fd) /\ close_buffer(fd) /\ fds' = [fds EXCEPT ![fd].used = FALSE]
  BY Zenon, <1>2, Release DEF Valid, close_buffer, HoldsBuffer
<1>3. CASE Valid(fd) /\ close_nothing(fd) /\ fds' = [fds EXCEPT ![fd].used = FALSE]
  <2> DEFINE e == [fds[fd] EXCEPT !.used = FALSE]
  <2>1. fd \in Fds /\ fds[fd] \in Fd /\ fds[fd].is_pseudo
    BY <1>3, FdAssumption DEF HeapInv, Valid, close_nothing, HeapIsOwned, HoldsBuffer, BuffersOK
  <2>2. e \in Fd /\ e.is_pseudo
    BY Zenon, <2>1 DEF Fd
  <2>3. fds' = [fds EXCEPT ![fd] = e] /\ mem' = mem
    BY <1>3 DEF close_nothing
  <2> HIDE DEF e
  <2> QED BY Zenon, <2>1, <2>2, <2>3, PseudoMoves
<1> QED BY <1>1, <1>2, <1>3 DEF SysClose

----------------------------------------------------------------------------
(* Where the bytes of a buffer come from.                                  *)

\* s holds bytes of the file path only, as many as the file has.
BytesOf(s, path) ==
    Len(s) = FileSize[path] /\ \A k \in 1 .. Len(s) : s[k][1] = path

\* A socket has no path to flush to; the buffer of a file holds its bytes.
TagsOK(i) ==
    HoldsBuffer(i) =>
        \/ fds[i].is_socket /\ fds[i].path = NoPath
        \/ /\ ~fds[i].is_socket
           /\ fds[i].path \in Files
           /\ BytesOf(mem[fds[i].data], fds[i].path)

\* Buffers and files hold bytes of their own file.
TagInv ==
    /\ \A i \in Fds : TagsOK(i)
    /\ \A f \in Files : BytesOf(disk[f], f)

\* The error number is one the calls set, and the break is within its arena.
ScalarsOK == last_errno \in 0 .. 27 /\ brk_end \in 0 .. BRK_ARENA

\* The inductive invariant of the table.
FdInv == HeapInv /\ DiskOK /\ TagInv /\ ScalarsOK

\* A call on one descriptor leaves the tags of the others alone.
LEMMA TagsElsewhere ==
    ASSUME HeapInv, TagInv, NEW fd \in Fds, NEW e, fds' = [fds EXCEPT ![fd] = e],
           \A j \in Fds : j # fd /\ HoldsBuffer(j) => mem'[fds[j].data] = mem[fds[j].data]
    PROVE  \A j \in Fds : j # fd => TagsOK(j)'
<1> SUFFICES ASSUME NEW j \in Fds, j # fd PROVE TagsOK(j)'
  OBVIOUS
<1>1. fds'[j] = fds[j] /\ TagsOK(j)
  BY DEF HeapInv, TagInv
<1> QED BY <1>1 DEF TagsOK, HoldsBuffer

\* A call that leaves table, buffers and volume alone keeps the tags.
LEMMA TagsUnchanged ==
    ASSUME TagInv, UNCHANGED <<fds, mem, disk>>
    PROVE  TagInv'
BY DEF TagInv, TagsOK, HoldsBuffer

\* SYS_OPEN reads the named file into the buffer, or leaves the descriptor free.
LEMMA OpenKeepsTags ==
    ASSUME HeapInv, DiskOK, TagInv, NEW path \in Files \cup PseudoPaths \cup {NoPath}, SysOpen(path)
    PROVE  TagInv'
<1>1. disk' = disk
  BY DEF SysOpen
<1>2. CASE UNCHANGED <<fds, mem>>
  BY <1>1, <1>2, TagsUnchanged
<1>3. ASSUME NEW fd \in Fds, FirstFree(fd), open_pseudo(fd, path) \/ open_fails(fd, path)
      PROVE  TagInv'
  <2>1. mem' = mem
    BY <1>3 DEF open_pseudo, open_fails
  <2>2. fds[fd] \in Fd
    BY DEF HeapInv
  <2> DEFINE p == [alloc_fd(fd) EXCEPT !.is_pseudo = TRUE, !.dirty = FALSE, !.path = path]
             f == [alloc_fd(fd) EXCEPT !.used = FALSE, !.dirty = FALSE, !.path = path]
  <2>3. p.is_pseudo /\ ~f.used
    BY <2>2 DEF alloc_fd, Fd
  <2>4. fds' = [fds EXCEPT ![fd] = p] \/ fds' = [fds EXCEPT ![fd] = f]
    BY <1>3 DEF open_pseudo, open_fails
  <2> HIDE DEF p, f
  <2>5. PICK e : fds' = [fds EXCEPT ![fd] = e] /\ (e.used => e.is_pseudo)
    BY <2>3, <2>4
  <2>6. \A j \in Fds : j # fd => TagsOK(j)'
    BY Zenon, <2>1, <2>5, TagsElsewhere
  <2>7. TagsOK(fd)'
    BY <2>5 DEF TagsOK, HoldsBuffer, HeapInv
  <2> QED BY <1>1, <2>6, <2>7 DEF TagInv
<1>4. ASSUME NEW fd \in Fds, FirstFree(fd), open_file(fd, path)
      PROVE  TagInv'
  <2>1. path \in Files /\ fds[fd] \in Fd
    BY <1>4 DEF open_file, HeapInv
  <2>2. PICK b \in Buffers :
          /\ kalloc(b, disk[path])
          /\ fds' = [fds EXCEPT ![fd] =
                       [alloc_fd(fd) EXCEPT !.dirty = FALSE, !.path = path, !.data = b,
                                            !.size = Len(disk[path]), !.off = 0]]
    BY Zenon, <1>4 DEF open_file
  <2>3. mem'[b] = disk[path] /\ \A x \in DOMAIN mem : mem'[x] = mem[x]
    BY <2>2 DEF kalloc
  <2>4. \A j \in Fds : j # fd => TagsOK(j)'
    BY Zenon, <2>2, <2>3, TagsElsewhere DEF HeapInv, HeapIsOwned
  <2>5. fds'[fd].path = path /\ fds'[fd].data = b /\ ~fds'[fd].is_socket
    BY <2>1, <2>2 DEF alloc_fd, Fd, HeapInv
  <2>6. TagsOK(fd)'
    BY <2>1, <2>3, <2>5 DEF TagsOK, TagInv
  <2> QED BY <1>1, <2>4, <2>6 DEF TagInv
<1> QED BY <1>2, <1>3, <1>4 DEF SysOpen

\* A socket descriptor has no path, whatever the descriptor was before.
LEMMA SocketKeepsTags ==
    ASSUME HeapInv, TagInv, NEW call, new_socket(call), disk' = disk
    PROVE  TagInv'
<1>1. CASE UNCHANGED <<fds, mem>>
  BY <1>1, TagsUnchanged
<1>2. ASSUME NEW fd \in Fds, NEW b \in Buffers, NEW junk, kalloc(b, junk),
             fds' = [fds EXCEPT ![fd] =
                       [alloc_fd(fd) EXCEPT !.is_socket = TRUE, !.data = b, !.size = SOCK_BUF]]
      PROVE  TagInv'
  <2>1. fds[fd] \in Fd /\ \A x \in DOMAIN mem : mem'[x] = mem[x]
    BY <1>2 DEF kalloc, HeapInv
  <2>2. \A j \in Fds : j # fd => TagsOK(j)'
    BY Zenon, <1>2, <2>1, TagsElsewhere DEF HeapInv, HeapIsOwned
  <2>3. fds'[fd].is_socket /\ fds'[fd].path = NoPath
    BY <1>2, <2>1 DEF alloc_fd, Fd, HeapInv
  <2>4. TagsOK(fd)'
    BY <2>3 DEF TagsOK
  <2> QED BY <2>2, <2>4 DEF TagInv
<1> QED BY Zenon, <1>1, <1>2 DEF new_socket

\* SYS_READ writes no file bytes into a buffer.
LEMMA ReadKeepsTags ==
    ASSUME HeapInv, TagInv, NEW fd \in FdArgs, NEW want, SysRead(fd, want)
    PROVE  TagInv'
<1>1. mem' = mem /\ disk' = disk
  BY DEF SysRead
<1>2. CASE UNCHANGED fds
  BY <1>1, <1>2, TagsUnchanged
<1>3. ASSUME Valid(fd), NEW n, fds' = [fds EXCEPT ![fd].off = n]
      PROVE  TagInv'
  <2>1. fd \in Fds /\ fds[fd] \in Fd
    BY <1>3 DEF HeapInv, Valid
  <2>2. \A i \in Fds : /\ fds'[i].used = fds[i].used
                       /\ fds'[i].is_pseudo = fds[i].is_pseudo
                       /\ fds'[i].is_socket = fds[i].is_socket
                       /\ fds'[i].path = fds[i].path
                       /\ fds'[i].data = fds[i].data
    BY <1>3, <2>1 DEF HeapInv, Fd
  <2> QED BY <1>1, <2>2 DEF TagInv, TagsOK, HoldsBuffer
<1> QED BY <1>2, <1>3 DEF SysRead, read_pseudo, read_buffer

\* SYS_WRITE changes the descriptor's own buffer only.
LEMMA WriteKeepsTags ==
    ASSUME HeapInv, TagInv, NEW fd \in FdArgs, NEW want, NEW v \in Values, SysWrite(fd, want, v)
    PROVE  TagInv'
<1>1. disk' = disk
  BY DEF SysWrite
<1>2. CASE UNCHANGED <<fds, mem>>
  BY <1>1, <1>2, TagsUnchanged
<1>3. ASSUME Valid(fd), write_buffer(fd, want, v), ~UNCHANGED <<fds, mem>>
      PROVE  TagInv'
  <2> DEFINE b == fds[fd].data
             n == Take(fd, want)
             e == [fds[fd] EXCEPT !.off = fds[fd].off + n, !.dirty = TRUE, !.wrote = TRUE]
             byte == <<Owner(fd), v>>
  <2>1. fd \in Fds /\ fds[fd] \in Fd /\ HoldsBuffer(fd) /\ b \in DOMAIN mem
    BY <1>3 DEF HeapInv, Valid, write_buffer, HoldsBuffer, HeapIsOwned
  <2>2. fds' = [fds EXCEPT ![fd] = e]
    BY Zenon, <1>3, <2>1 DEF write_buffer, HeapInv
  <2>3. mem' = [mem EXCEPT ![b] = Overwrite(mem[b], fds[fd].off, n, byte)]
    BY <1>3 DEF write_buffer
  <2>4. \A j \in Fds : j # fd /\ HoldsBuffer(j) => mem'[fds[j].data] = mem[fds[j].data]
    BY <2>1, <2>3 DEF HeapInv, HeapIsOwned
  <2>5. \A j \in Fds : j # fd => TagsOK(j)'
    BY Zenon, <2>1, <2>2, <2>4, TagsElsewhere
  <2>6. /\ fds'[fd].is_socket = fds[fd].is_socket /\ fds'[fd].path = fds[fd].path
        /\ fds'[fd].data = b
    BY <2>1, <2>2 DEF HeapInv, Fd
  <2>7. ASSUME ~fds[fd].is_socket, BytesOf(mem[b], fds[fd].path)
        PROVE  BytesOf(mem'[b], fds[fd].path)
    <3>1. mem[b] \in Seq(Byte) /\ byte[1] = fds[fd].path
      BY <2>1, <2>7 DEF HeapInv, BuffersOK, Owner
    <3>2. mem'[b] = [k \in 1 .. Len(mem[b]) |->
                       IF fds[fd].off < k /\ k <= fds[fd].off + n THEN byte ELSE mem[b][k]]
      BY <2>1, <2>3 DEF Overwrite
    <3>3. Len(mem[b]) \in Nat /\ DOMAIN mem'[b] = 1 .. Len(mem[b])
      BY <3>1, <3>2
    <3>4. Len(mem'[b]) = Len(mem[b])
      BY <3>2, <3>3
    <3>5. \A k \in 1 .. Len(mem[b]) : mem'[b][k][1] = fds[fd].path
      BY <2>7, <3>1, <3>2 DEF BytesOf
    <3> QED BY <2>7, <3>4, <3>5 DEF BytesOf
  <2>8. TagsOK(fd)'
    BY <2>1, <2>6, <2>7 DEF TagInv, TagsOK
  <2> QED BY <1>1, <2>5, <2>8 DEF TagInv
<1> QED BY <1>2, <1>3 DEF SysWrite, write_refused

\* A flush, complete or cut short, leaves each file with its own bytes.
LEMMA FlushKeepsTags ==
    ASSUME DiskOK, \A f \in Files : BytesOf(disk[f], f), NEW path \in Files,
           NEW buf \in Seq(Byte), BytesOf(buf, path), NEW wr, flush(path, buf, wr)
    PROVE  DiskOK' /\ \A f \in Files : BytesOf(disk'[f], f)
<1>1. CASE UNCHANGED disk
  BY <1>1 DEF DiskOK
<1>2. CASE disk' = [disk EXCEPT ![path] = buf]
  BY <1>2 DEF DiskOK
<1>3. ASSUME NEW n \in 0 .. Len(buf),
             disk' = [disk EXCEPT ![path] =
                         [k \in 1 .. Len(buf) |-> IF k <= n THEN buf[k] ELSE @[k]]]
      PROVE  DiskOK' /\ \A f \in Files : BytesOf(disk'[f], f)
  <2> DEFINE mix == [k \in 1 .. Len(buf) |-> IF k <= n THEN buf[k] ELSE disk[path][k]]
  <2>1. disk[path] \in Seq(Byte) /\ Len(disk[path]) = Len(buf) /\ Len(buf) \in Nat
    BY DEF DiskOK, BytesOf
  <2>2. \A k \in 1 .. Len(buf) : mix[k] \in Byte /\ mix[k][1] = path
    BY <2>1 DEF BytesOf
  <2>3. mix \in Seq(Byte) /\ Len(mix) = Len(buf)
    <3>1. mix \in [1 .. Len(buf) -> Byte]
      BY <2>2
    <3> HIDE DEF mix
    <3> QED BY <2>1, <3>1
  <2>4. disk' = [disk EXCEPT ![path] = mix]
    BY <1>3
  <2> HIDE DEF mix
  <2>5. BytesOf(mix, path)
    BY <2>2, <2>3 DEF BytesOf
  <2> QED BY <2>3, <2>4, <2>5 DEF DiskOK
<1> QED BY <1>1, <1>2, <1>3 DEF flush

\* SYS_CLOSE writes a buffer to the file it was read from, or nowhere.
LEMMA CloseKeepsTags ==
    ASSUME HeapInv, DiskOK, TagInv, NEW fd \in FdArgs, SysClose(fd)
    PROVE  DiskOK' /\ TagInv'
<1>1. CASE UNCHANGED <<fds, mem, disk>>
  BY <1>1, TagsUnchanged DEF DiskOK
<1>2. ASSUME Valid(fd), fds' = [fds EXCEPT ![fd].used = FALSE],
             close_buffer(fd) \/ close_nothing(fd)
      PROVE  DiskOK' /\ TagInv'
  <2> DEFINE e == [fds[fd] EXCEPT !.used = FALSE]
  <2>1. fd \in Fds /\ fds[fd] \in Fd /\ fds' = [fds EXCEPT ![fd] = e] /\ ~fds'[fd].used
    BY <1>2 DEF HeapInv, Valid, Fd
  <2>2. \A j \in Fds : j # fd /\ HoldsBuffer(j) => mem'[fds[j].data] = mem[fds[j].data]
    <3>1. CASE close_nothing(fd)
      BY <3>1 DEF close_nothing
    <3>2. CASE close_buffer(fd)
      BY <1>2, <2>1, <3>2 DEF close_buffer, kfree, HeapInv, HeapIsOwned, HoldsBuffer, Valid
    <3> QED BY <1>2, <3>1, <3>2
  <2>3. \A j \in Fds : j # fd => TagsOK(j)'
    BY Zenon, <2>1, <2>2, TagsElsewhere
  <2>4. TagsOK(fd)'
    BY <2>1 DEF TagsOK, HoldsBuffer
  <2>5. DiskOK' /\ \A f \in Files : BytesOf(disk'[f], f)
    <3>1. CASE disk' = disk
      BY <3>1 DEF DiskOK, TagInv
    <3>2. CASE disk' # disk
      <4>1. PICK wr : MustFlush(fd) /\ flush(fds[fd].path, mem[fds[fd].data], wr) /\ HoldsBuffer(fd)
        BY <1>2, <3>2 DEF close_buffer, close_nothing, HoldsBuffer, Valid
      <4>2. /\ fds[fd].path \in Files
            /\ BytesOf(mem[fds[fd].data], fds[fd].path)
            /\ mem[fds[fd].data] \in Seq(Byte)
        BY <2>1, <4>1 DEF TagInv, TagsOK, MustFlush, HeapInv, HeapIsOwned, BuffersOK
      <4> QED BY <4>1, <4>2, FlushKeepsTags DEF TagInv
    <3> QED BY <3>1, <3>2
  <2> QED BY <2>3, <2>4, <2>5 DEF TagInv
<1> QED BY <1>1, <1>2 DEF SysClose

\* What a descriptor writes is tagged with its own file, or with none.
LEMMA TagsGiveOwners == ASSUME TagInv PROVE OwnersOK
BY DEF TagInv, TagsOK, OwnersOK, Owner

\* Every call keeps the error number and the break in range.
LEMMA StepKeepsScalars ==
    ASSUME ScalarsOK, [FdNext]_fdvars
    PROVE  ScalarsOK'
<1> USE FdAssumption DEF ScalarsOK, Return
<1>1. ASSUME NEW path, SysOpen(path) PROVE ScalarsOK'
  <2>1. brk_end' = brk_end
    BY <1>1 DEF SysOpen
  <2>2. ASSUME NEW fd, open_pseudo(fd, path) \/ open_fails(fd, path) \/ open_file(fd, path)
        PROVE  last_errno' \in {0, 4}
    BY Zenon, <2>2 DEF open_pseudo, open_fails, open_file
  <2>3. last_errno' \in {0, 3, 4}
    BY <1>1, <2>2 DEF SysOpen
  <2> QED BY <2>1, <2>3
<1>2. ASSUME NEW fd, SysSocket \/ SysAccept(fd) \/ SysSocketOp(fd) PROVE ScalarsOK'
  <2>1. brk_end' = brk_end
    BY <1>2 DEF SysSocket, SysAccept, SysSocketOp
  <2>2. ASSUME NEW call, new_socket(call) PROVE last_errno' \in {0, 20}
    BY Zenon, <2>2 DEF new_socket
  <2>3. last_errno' \in {0, 20, 21, 22, 23, 24, 25, 26}
    BY <1>2, <2>2 DEF SysSocket, SysAccept, SysSocketOp
  <2> QED BY <2>1, <2>3
<1>3. ASSUME NEW fd, SysClose(fd) PROVE ScalarsOK'
  BY <1>3 DEF SysClose, close_buffer, close_nothing
<1>4. ASSUME NEW fd, NEW want, SysRead(fd, want) PROVE ScalarsOK'
  BY <1>4 DEF SysRead, read_pseudo, read_buffer
<1>5. ASSUME NEW fd, NEW want, NEW v, SysWrite(fd, want, v) PROVE ScalarsOK'
  BY <1>5 DEF SysWrite, write_buffer, write_refused
<1>6. CASE SysErrno \/ SysOther \/ UNCHANGED fdvars
  BY <1>6 DEF SysErrno, SysOther, fdvars
<1>7. ASSUME NEW addr, handle_brk(addr) PROVE ScalarsOK'
  BY <1>7 DEF handle_brk
<1> QED BY <1>1, <1>2, <1>3, <1>4, <1>5, <1>6, <1>7 DEF FdNext

\* The boot state satisfies the invariant.
LEMMA FdStarts == FdInit => FdInv
<1> SUFFICES ASSUME FdInit PROVE FdInv
  OBVIOUS
<1> USE FdAssumption
<1>1. fds \in [Fds -> Fd] /\ \A i \in Fds : ~HoldsBuffer(i)
  BY DEF FdInit, UnusedFd, Fd, HoldsBuffer
<1>2. DOMAIN mem = {}
  BY DEF FdInit
<1>3. HeapInv
  BY <1>1, <1>2 DEF HeapInv, BuffersOK, HeapIsOwned, OffsetsInBuffer
<1>4. \A f \in Files : disk[f] \in Filled(f, FileSize[f]) /\ FileSize[f] \in Nat
  BY DEF FdInit
<1>5. \A f \in Files : disk[f] \in Seq(Byte) /\ BytesOf(disk[f], f)
  <2> SUFFICES ASSUME NEW f \in Files PROVE disk[f] \in Seq(Byte) /\ BytesOf(disk[f], f)
    OBVIOUS
  <2>1. disk[f] \in Seq(Byte) /\ Len(disk[f]) = FileSize[f]
        /\ \A k \in 1 .. FileSize[f] : disk[f][k][1] = f
    BY <1>4, FilledIsSeq
  <2> QED BY <2>1 DEF BytesOf
<1>6. DiskOK
  BY <1>5 DEF FdInit, DiskOK
<1>7. TagInv
  BY <1>1, <1>5 DEF TagInv, TagsOK
<1>8. ScalarsOK
  BY DEF FdInit, ScalarsOK
<1> QED BY <1>3, <1>6, <1>7, <1>8 DEF FdInv

\* Every call, and the calls that do nothing, keep the invariant.
LEMMA FdSteps == FdInv /\ [FdNext]_fdvars => FdInv'
<1> SUFFICES ASSUME FdInv, [FdNext]_fdvars PROVE HeapInv' /\ DiskOK' /\ TagInv'
  BY StepKeepsScalars DEF FdInv
<1> HeapInv /\ DiskOK /\ TagInv
  BY DEF FdInv
<1>1. CASE UNCHANGED <<fds, mem, disk>>
  BY <1>1, TagsUnchanged
     DEF HeapInv, BuffersOK, HeapIsOwned, OffsetsInBuffer, HoldsBuffer, DiskOK
<1>2. ASSUME NEW path \in Files \cup PseudoPaths \cup {NoPath}, SysOpen(path)
      PROVE  HeapInv' /\ DiskOK' /\ TagInv'
  BY <1>2, OpenKeepsHeap, OpenKeepsTags DEF SysOpen, DiskOK
<1>3. ASSUME NEW call, new_socket(call), disk' = disk
      PROVE  HeapInv' /\ DiskOK' /\ TagInv'
  BY <1>3, SocketKeepsHeap, SocketKeepsTags DEF DiskOK
<1>4. ASSUME NEW fd \in FdArgs, SysClose(fd)
      PROVE  HeapInv' /\ DiskOK' /\ TagInv'
  BY <1>4, CloseKeepsHeap, CloseKeepsTags
<1>5. ASSUME NEW fd \in FdArgs, NEW want \in 0 .. MaxWant, SysRead(fd, want)
      PROVE  HeapInv' /\ DiskOK' /\ TagInv'
  BY <1>5, ReadKeepsHeap, ReadKeepsTags DEF SysRead, DiskOK
<1>6. ASSUME NEW fd \in FdArgs, NEW want \in 0 .. MaxWant, NEW v \in Values, SysWrite(fd, want, v)
      PROVE  HeapInv' /\ DiskOK' /\ TagInv'
  BY <1>6, TagsGiveOwners, WriteKeepsHeap, WriteKeepsTags DEF SysWrite, DiskOK
<1>7. CASE SysSocket
  BY <1>3, <1>7 DEF SysSocket
<1>8. ASSUME NEW fd \in FdArgs, SysAccept(fd)
      PROVE  HeapInv' /\ DiskOK' /\ TagInv'
  BY <1>1, <1>3, <1>8 DEF SysAccept
<1>9. ASSUME NEW fd, NEW addr,
             SysSocketOp(fd) \/ SysErrno \/ SysOther \/ handle_brk(addr) \/ UNCHANGED fdvars
      PROVE  HeapInv' /\ DiskOK' /\ TagInv'
  BY <1>1, <1>9 DEF SysSocketOp, SysErrno, SysOther, handle_brk, fdvars
<1> QED BY <1>2, <1>4, <1>5, <1>6, <1>7, <1>8, <1>9 DEF FdNext

----------------------------------------------------------------------------

\* Every variable keeps its type, for any number of descriptors and files.
THEOREM FdTypeCorrect == FdSpec => []FdTypeOK
<1>1. FdInv => FdTypeOK
  BY DEF FdInv, HeapInv, BuffersOK, DiskOK, ScalarsOK, FdTypeOK
<1> QED BY <1>1, FdStarts, FdSteps, PTL DEF FdSpec

\* Buffers and open descriptors correspond one to one, whatever fails: no
\* leak, no double free, no sharing.
THEOREM BuffersAreOwned == FdSpec => []HeapIsOwned
<1>1. FdInv => HeapIsOwned
  BY DEF FdInv, HeapInv
<1> QED BY <1>1, FdStarts, FdSteps, PTL DEF FdSpec

\* SYS_READ and SYS_WRITE stay inside the buffer, for any counts and sizes.
THEOREM OffsetsStayInBuffer == FdSpec => []OffsetsInBuffer
<1>1. FdInv => OffsetsInBuffer
  BY DEF FdInv, HeapInv
<1> QED BY <1>1, FdStarts, FdSteps, PTL DEF FdSpec

\* No sequence of calls puts the bytes of one file, or of a socket, into
\* another file.
THEOREM NoForeignBytes == FdSpec => []FilesKeepTheirBytes
<1>1. FdInv => FilesKeepTheirBytes
  BY DEF FdInv, TagInv, BytesOf, FilesKeepTheirBytes
<1> QED BY <1>1, FdStarts, FdSteps, PTL DEF FdSpec

----------------------------------------------------------------------------
(* The flush on close.                                                     *)

\* Dirty means written since the descriptor was allocated, except for a
\* socket, whose dirty is left from the descriptor's last use.
DirtyOK == \A i \in Fds : fds[i].used /\ ~fds[i].is_socket => fds[i].dirty = fds[i].wrote

\* A call that leaves one descriptor with such an entry.
LEMMA DirtyEntry ==
    ASSUME fds \in [Fds -> Fd], DirtyOK, NEW fd \in Fds, NEW e, fds' = [fds EXCEPT ![fd] = e],
           e.used /\ ~e.is_socket => e.dirty = e.wrote
    PROVE  DirtyOK'
<1>1. \A i \in Fds : fds'[i] = IF i = fd THEN e ELSE fds[i]
  OBVIOUS
<1> QED BY Zenon, <1>1 DEF DirtyOK

\* alloc_fd gives an entry that was not written yet.
LEMMA AllocatedEntry ==
    ASSUME NEW fd \in Fds, fds[fd] \in Fd
    PROVE  alloc_fd(fd) \in Fd /\ alloc_fd(fd).wrote = FALSE
BY Zenon, FdAssumption DEF alloc_fd, Fd

\* Every call keeps dirty in step with the writes.
LEMMA StepKeepsDirty == ASSUME HeapInv, DirtyOK, [FdNext]_fdvars PROVE DirtyOK'
<1>0. fds \in [Fds -> Fd]
  BY Zenon DEF HeapInv
<1>1. CASE UNCHANGED fds
  BY Zenon, <1>1 DEF DirtyOK
<1>2. ASSUME NEW path, SysOpen(path) PROVE DirtyOK'
  <2>1. ASSUME NEW fd \in Fds, open_pseudo(fd, path) PROVE DirtyOK'
    <3> DEFINE e == [alloc_fd(fd) EXCEPT !.is_pseudo = TRUE, !.dirty = FALSE, !.path = path]
    <3>1. e.dirty = FALSE /\ e.wrote = FALSE
      BY ZenonT(40), <1>0, AllocatedEntry DEF Fd
    <3>2. fds' = [fds EXCEPT ![fd] = e]
      BY Zenon, <2>1 DEF open_pseudo
    <3> HIDE DEF e
    <3> QED BY Zenon, <1>0, <3>1, <3>2, DirtyEntry
  <2>2. ASSUME NEW fd \in Fds, open_fails(fd, path) PROVE DirtyOK'
    <3> DEFINE e == [alloc_fd(fd) EXCEPT !.used = FALSE, !.dirty = FALSE, !.path = path]
    <3>1. e.dirty = FALSE /\ e.wrote = FALSE
      BY ZenonT(40), <1>0, AllocatedEntry DEF Fd
    <3>2. fds' = [fds EXCEPT ![fd] = e]
      BY Zenon, <2>2 DEF open_fails
    <3> HIDE DEF e
    <3> QED BY Zenon, <1>0, <3>1, <3>2, DirtyEntry
  <2>3. ASSUME NEW fd \in Fds, open_file(fd, path) PROVE DirtyOK'
    <3>1. PICK b \in Buffers :
             fds' = [fds EXCEPT ![fd] = [alloc_fd(fd) EXCEPT !.dirty = FALSE, !.path = path, !.data = b,
                                                             !.size = Len(disk[path]), !.off = 0]]
      BY Zenon, <2>3 DEF open_file
    <3> DEFINE e == [alloc_fd(fd) EXCEPT !.dirty = FALSE, !.path = path, !.data = b,
                                         !.size = Len(disk[path]), !.off = 0]
    <3>2. e.dirty = FALSE /\ e.wrote = FALSE
      BY ZenonT(40), <1>0, AllocatedEntry DEF Fd
    <3>3. fds' = [fds EXCEPT ![fd] = e]
      BY Zenon, <3>1
    <3> HIDE DEF e
    <3> QED BY Zenon, <1>0, <3>2, <3>3, DirtyEntry
  <2> QED BY Zenon, <1>1, <1>2, <2>1, <2>2, <2>3 DEF SysOpen
<1>3. ASSUME NEW call, new_socket(call) PROVE DirtyOK'
  <2>1. ASSUME NEW fd \in Fds, NEW b,
               fds' = [fds EXCEPT ![fd] =
                         [alloc_fd(fd) EXCEPT !.is_socket = TRUE, !.data = b, !.size = SOCK_BUF]]
        PROVE DirtyOK'
    <3> DEFINE e == [alloc_fd(fd) EXCEPT !.is_socket = TRUE, !.data = b, !.size = SOCK_BUF]
    <3>1. e.is_socket = TRUE
      BY <1>0, AllocatedEntry DEF Fd
    <3>2. fds' = [fds EXCEPT ![fd] = e]
      BY Zenon, <2>1
    <3> HIDE DEF e
    <3> QED BY Zenon, <1>0, <3>1, <3>2, DirtyEntry
  <2> QED BY Zenon, <1>1, <1>3, <2>1 DEF new_socket
<1>4. ASSUME NEW fd \in Fds, NEW x, fds' = [fds EXCEPT ![fd].off = x] PROVE DirtyOK'
  <2> DEFINE e == [fds[fd] EXCEPT !.off = x]
  <2>1. /\ e.used = fds[fd].used /\ e.is_socket = fds[fd].is_socket
        /\ e.dirty = fds[fd].dirty /\ e.wrote = fds[fd].wrote
    BY <1>0 DEF Fd
  <2>2. fds' = [fds EXCEPT ![fd] = e]
    BY <1>4
  <2>3. e.used /\ ~e.is_socket => e.dirty = e.wrote
    BY Zenon, <2>1 DEF DirtyOK
  <2> HIDE DEF e
  <2> QED BY Zenon, <1>0, <2>2, <2>3, DirtyEntry
<1>5. ASSUME NEW fd, NEW want, SysRead(fd, want) PROVE DirtyOK'
  <2>1. UNCHANGED fds \/ (fd \in Fds /\ \E x : fds' = [fds EXCEPT ![fd].off = x])
    BY Zenon, <1>5 DEF SysRead, Valid, read_pseudo, read_buffer
  <2> QED BY Zenon, <1>1, <1>4, <2>1
<1>6. ASSUME NEW fd, NEW want, NEW v, SysWrite(fd, want, v) PROVE DirtyOK'
  <2>1. \/ UNCHANGED fds
        \/ /\ fd \in Fds
           /\ fds' = [fds EXCEPT ![fd].off = @ + Take(fd, want), ![fd].dirty = TRUE, ![fd].wrote = TRUE]
    BY Zenon, <1>6 DEF SysWrite, Valid, write_buffer, write_refused
  <2>2. ASSUME fd \in Fds,
               fds' = [fds EXCEPT ![fd].off = @ + Take(fd, want), ![fd].dirty = TRUE, ![fd].wrote = TRUE]
        PROVE DirtyOK'
    <3> DEFINE e == [fds[fd] EXCEPT !.off = @ + Take(fd, want), !.dirty = TRUE, !.wrote = TRUE]
    <3>1. e.dirty = TRUE /\ e.wrote = TRUE
      BY <1>0, <2>2 DEF Fd
    <3>2. fds' = [fds EXCEPT ![fd] = e]
      BY Zenon, <1>0, <2>2
    <3> HIDE DEF e
    <3> QED BY Zenon, <1>0, <2>2, <3>1, <3>2, DirtyEntry
  <2> QED BY Zenon, <1>1, <2>1, <2>2
<1>7. ASSUME NEW fd, SysClose(fd) PROVE DirtyOK'
  <2>1. UNCHANGED fds \/ (fd \in Fds /\ fds' = [fds EXCEPT ![fd].used = FALSE])
    BY Zenon, <1>7 DEF SysClose, Valid
  <2>2. ASSUME fd \in Fds, fds' = [fds EXCEPT ![fd].used = FALSE] PROVE DirtyOK'
    <3> DEFINE e == [fds[fd] EXCEPT !.used = FALSE]
    <3>1. ~e.used
      BY <1>0, <2>2 DEF Fd
    <3>2. fds' = [fds EXCEPT ![fd] = e]
      BY <2>2
    <3> HIDE DEF e
    <3> QED BY Zenon, <1>0, <2>2, <3>1, <3>2, DirtyEntry
  <2> QED BY Zenon, <1>1, <2>1, <2>2
<1>8. ASSUME NEW fd, SysAccept(fd) \/ SysSocketOp(fd) PROVE DirtyOK'
  BY Zenon, <1>1, <1>3, <1>8 DEF SysAccept, SysSocketOp
<1>9. CASE SysSocket \/ SysErrno \/ SysOther \/ \E addr \in -1 .. BRK_ARENA + 1 : handle_brk(addr)
  BY Zenon, <1>1, <1>3, <1>9 DEF SysSocket, SysErrno, SysOther, handle_brk
<1>10. CASE UNCHANGED fdvars
  BY Zenon, <1>1, <1>10 DEF fdvars
<1> QED BY Zenon, <1>2, <1>5, <1>6, <1>7, <1>8, <1>9, <1>10 DEF FdNext

\* A close whose flush met no error has stored a written buffer.
LEMMA CloseWrites ==
    ASSUME FdInv, DirtyOK, FdNext, NEW fd \in Fds, Closes(fd), HoldsBuffer(fd),
           fds[fd].wrote, ~fds[fd].is_socket, last_errno' = 0
    PROVE  disk'[fds[fd].path] = mem[fds[fd].data]
<1>1. ret'.call = "close" /\ ret'.fd = fd /\ ret'.val = 0
  BY Zenon DEF Closes
<1>2. \A call, x, val, errno : Return(call, x, val, errno) =>
          ret'.call = call /\ ret'.fd = x /\ ret'.val = val /\ last_errno' = errno
  BY DEF Return
<1>3. \A call, x, val, errno : Return(call, x, val, errno) => call = "close"
  BY Zenon, <1>1, <1>2
<1>4. /\ "open" # "close" /\ "socket" # "close" /\ "accept" # "close" /\ "socketop" # "close" /\ "read" # "close"
      /\ "write" # "close" /\ "errno" # "close" /\ "brk" # "close" /\ "other" # "close"
  OBVIOUS
<1>5. /\ \A path : ~SysOpen(path)
      /\ ~SysSocket /\ \A x : ~SysAccept(x) /\ ~SysSocketOp(x)
  BY Zenon, <1>3, <1>4 DEF SysOpen, open_pseudo, open_fails, open_file,
         SysSocket, SysAccept, SysSocketOp, new_socket
<1>6. /\ \A x, want : ~SysRead(x, want)
      /\ \A x, want, v : ~SysWrite(x, want, v)
  BY ZenonT(40), <1>3, <1>4 DEF SysRead, read_pseudo, read_buffer, SysWrite, write_buffer, write_refused
<1>7. ~SysErrno /\ ~SysOther /\ \A addr : ~handle_brk(addr)
  BY Zenon, <1>3, <1>4 DEF SysErrno, SysOther, handle_brk
<1>8. PICK x \in FdArgs : SysClose(x)
  BY Zenon, <1>5, <1>6, <1>7 DEF FdNext
<1>9. x = fd
  BY Zenon, <1>1, <1>2, <1>8 DEF SysClose, close_buffer, close_nothing
<1>10. fds[fd].data # NULL /\ fds[fd].path \in Files
  <2>1. fds[fd].data \in Buffers
    BY Zenon DEF FdInv, HeapInv, HeapIsOwned, BuffersOK
  <2>2. fds[fd].path \in Files
    BY Zenon DEF FdInv, TagInv, TagsOK
  <2> QED BY Zenon, <2>1, <2>2, FdAssumption
<1>11. close_buffer(fd) /\ MustFlush(fd)
  <2>1. Valid(fd)
    BY Zenon DEF Valid, HoldsBuffer
  <2>2. close_buffer(fd)
    BY Zenon, <1>8, <1>9, <1>10, <2>1 DEF SysClose, close_nothing, HoldsBuffer
  <2>3. MustFlush(fd)
    BY Zenon, <1>10, FdAssumption DEF DirtyOK, MustFlush, HoldsBuffer
  <2> QED BY <2>2, <2>3
<1>12. PICK wr \in {0, -1} : flush(fds[fd].path, mem[fds[fd].data], wr)
                               /\ Return("close", fd, 0, IF wr = 0 THEN 0 ELSE 11)
  BY ZenonT(40), <1>11 DEF close_buffer
<1>13. wr = 0
  BY <1>2, <1>12
<1>14. disk' = [disk EXCEPT ![fds[fd].path] = mem[fds[fd].data]]
  BY <1>12, <1>13 DEF flush
<1>15. disk \in [Files -> Seq(Byte)]
  BY Zenon DEF FdInv, DiskOK
<1> QED BY <1>10, <1>14, <1>15

\* Only SYS_CLOSE changes a file: the one its descriptor names, and only if
\* the descriptor was written.
LEMMA ChangedByClose ==
    ASSUME FdInv, DirtyOK, FdNext, NEW f \in Files, disk'[f] # disk[f]
    PROVE  \E fd \in Fds :
              /\ Closes(fd) /\ HoldsBuffer(fd) /\ fds[fd].wrote /\ fds[fd].path = f
              /\ \E n \in 0 .. Len(disk[f]) :
                    disk'[f] = FlushedUpTo(n, mem[fds[fd].data], disk[f])
<1>1. disk' # disk
  OBVIOUS
<1>2. PICK fd : SysClose(fd)
  BY ZenonT(40), <1>1 DEF FdNext, SysOpen, SysSocket, SysAccept, SysSocketOp, SysRead, SysWrite,
                          SysErrno, handle_brk, SysOther
<1>3. fd \in Fds /\ fds[fd].used /\ close_buffer(fd)
  BY Zenon, <1>1, <1>2 DEF SysClose, close_nothing, Valid
<1>4. HoldsBuffer(fd)
  BY Zenon, <1>3 DEF close_buffer, HoldsBuffer
<1>5. PICK wr \in {0, -1} :
         /\ IF MustFlush(fd) THEN flush(fds[fd].path, mem[fds[fd].data], wr)
                             ELSE wr = 0 /\ UNCHANGED disk
         /\ Return("close", fd, 0, IF wr = 0 THEN 0 ELSE 11)
  BY ZenonT(40), <1>3 DEF close_buffer
<1>6. MustFlush(fd) /\ flush(fds[fd].path, mem[fds[fd].data], wr)
  BY Zenon, <1>1, <1>5
<1>7. Closes(fd)
  BY <1>5 DEF Return, Closes
<1>8. ~fds[fd].is_socket /\ fds[fd].path \in Files /\ BytesOf(mem[fds[fd].data], fds[fd].path)
  BY Zenon, <1>3, <1>4, <1>6 DEF FdInv, TagInv, TagsOK, MustFlush
<1>9. fds[fd].wrote
  BY Zenon, <1>3, <1>6, <1>8 DEF DirtyOK, MustFlush
<1> DEFINE buf == mem[fds[fd].data]
<1>10. disk \in [Files -> Seq(Byte)] /\ buf \in Seq(Byte)
  <2>1. fds[fd].data \in DOMAIN mem
    BY Zenon, <1>3, <1>4 DEF FdInv, HeapInv, HeapIsOwned
  <2> QED BY Zenon, <2>1 DEF FdInv, DiskOK, HeapInv, BuffersOK
<1>11. PICK new : disk' = [disk EXCEPT ![fds[fd].path] = new]
  BY ZenonT(40), <1>1, <1>6 DEF flush
<1>12. fds[fd].path = f
  BY <1>8, <1>10, <1>11
<1>13. Len(buf) = Len(disk[f]) /\ Len(disk[f]) \in Nat
  BY <1>8, <1>10, <1>12 DEF FdInv, TagInv, BytesOf
<1>14. \E n \in 0 .. Len(disk[f]) : disk'[f] = FlushedUpTo(n, buf, disk[f])
  <2>1. CASE disk' = [disk EXCEPT ![fds[fd].path] = buf]
    <3>1. disk'[f] = buf
      BY <1>10, <1>12, <2>1
    <3>2. buf = FlushedUpTo(Len(disk[f]), buf, disk[f])
      BY <1>10, <1>13 DEF FlushedUpTo
    <3> QED BY <1>13, <3>1, <3>2
  <2>2. CASE \E n \in 0 .. Len(buf) :
                disk' = [disk EXCEPT ![fds[fd].path] =
                            [k \in 1 .. Len(buf) |-> IF k <= n THEN buf[k] ELSE @[k]]]
    <3> PICK n \in 0 .. Len(buf) :
                disk' = [disk EXCEPT ![fds[fd].path] =
                            [k \in 1 .. Len(buf) |-> IF k <= n THEN buf[k] ELSE @[k]]]
      BY <2>2
    <3>1. disk'[f] = [k \in 1 .. Len(buf) |-> IF k <= n THEN buf[k] ELSE disk[f][k]]
      BY <1>10, <1>12
    <3> QED BY <1>13, <3>1 DEF FlushedUpTo
  <2> QED BY ZenonT(40), <1>1, <1>6, <2>1, <2>2 DEF flush
<1> QED BY Zenon, <1>3, <1>4, <1>7, <1>9, <1>12, <1>14

\* Closing stores what was written through the descriptor since its open and
\* nothing else, on every file system and whatever the descriptor was used
\* for before.
THEOREM ClosesStoreWrites == FdSpec => OnlyWritersFlush
<1> DEFINE Changed == \A f \in Files :
              disk'[f] # disk[f] =>
                 \E fd \in Fds :
                    /\ Closes(fd) /\ HoldsBuffer(fd) /\ fds[fd].wrote /\ fds[fd].path = f
                    /\ \E n \in 0 .. Len(disk[f]) :
                          disk'[f] = FlushedUpTo(n, mem[fds[fd].data], disk[f])
           Stored == \A fd \in Fds :
              /\ Closes(fd) /\ HoldsBuffer(fd) /\ fds[fd].wrote /\ ~fds[fd].is_socket
              /\ last_errno' = 0
              => disk'[fds[fd].path] = mem[fds[fd].data]
<1>1. FdInit => FdInv /\ DirtyOK
  <2>1. FdInit => DirtyOK
    BY DEF FdInit, UnusedFd, DirtyOK
  <2> QED BY ZenonT(40), <2>1, FdStarts
<1>2. FdInv /\ DirtyOK /\ [FdNext]_fdvars => (FdInv /\ DirtyOK)'
  BY Zenon, FdSteps, StepKeepsDirty DEF FdInv
<1>3. FdInv /\ DirtyOK /\ [FdNext]_fdvars => [Changed /\ Stored]_fdvars
  <2>1. FdInv /\ DirtyOK /\ FdNext => Changed
    BY Zenon, ChangedByClose
  <2>2. FdInv /\ DirtyOK /\ FdNext => Stored
    BY Zenon, CloseWrites
  <2> QED BY Zenon, <2>1, <2>2
<1> QED BY <1>1, <1>2, <1>3, PTL DEF FdSpec, OnlyWritersFlush

----------------------------------------------------------------------------
(* The process table.                                                      *)

\* Every step keeps the variables of Sched in their types.
THEOREM TypeCorrect == Spec => []TypeOK
<1>1. Init => TypeOK
  BY SchedAssumption DEF Init, sched_init, TypeOK, Slots, Context, NoContext
<1>2. TypeOK /\ [Next]_vars => TypeOK'
  <2> SUFFICES ASSUME TypeOK, [Next]_vars PROVE TypeOK'
    OBVIOUS
  <2> USE SchedAssumption DEF TypeOK, Slots
  <2>0. FramesAfterStep \in [Slots -> Context]
    BY Zenon DEF FramesAfterStep, Outdate, Context
  <2>1. ASSUME NEW slot \in Slots, NEW vr \in Nat, FillSlot(slot, vr)
        PROVE  /\ state' \in [Slots -> {PROC_UNUSED, PROC_RUNNABLE, PROC_ZOMBIE}]
               /\ pid' \in [Slots -> Nat]
               /\ vruntime' \in [Slots -> Nat]
               /\ frame' \in [Slots -> Context]
               /\ next_pid' \in Nat \ {0}
    <3>1. state' \in [Slots -> {PROC_UNUSED, PROC_RUNNABLE, PROC_ZOMBIE}]
      BY <2>1 DEF FillSlot
    <3>2. pid' \in [Slots -> Nat] /\ vruntime' \in [Slots -> Nat] /\ next_pid' \in Nat \ {0}
      BY <2>1 DEF FillSlot
    <3>3. [tid |-> next_pid, fresh |-> TRUE] \in Context
      BY DEF Context
    <3>4. frame' \in [Slots -> Context]
      BY <2>0, <2>1, <3>3 DEF FillSlot
    <3> QED BY <3>1, <3>2, <3>4
  <2>2. ASSUME jump_to_ring3 PROVE TypeOK'
    <3>1. CASE \E slot \in Slots : /\ sched_create_user(slot)
                                   /\ cpu' = [tid |-> next_pid, fresh |-> TRUE]
                                   /\ mode' = "user"
      <4> PICK slot \in Slots : /\ sched_create_user(slot)
                                /\ cpu' = [tid |-> next_pid, fresh |-> TRUE]
                                /\ mode' = "user"
        BY <3>1
      <4>1. FillSlot(slot, 0) /\ current_proc' \in Slots \cup {-1}
        BY DEF sched_create_user
      <4>2. cpu' \in Context
        BY DEF Context
      <4> QED BY <2>1, <4>1, <4>2
    <3>2. CASE TableFull /\ mode' = "panic"
               /\ UNCHANGED <<state, pid, vruntime, frame, current_proc, next_pid, cpu>>
      BY <3>2
    <3> QED BY Zenon, <2>2, <3>1, <3>2 DEF jump_to_ring3
  <2>3. CASE kmain
    BY Zenon, <2>2, <2>3 DEF kmain, kpanic
  <2>4. CASE Ring3Step
    BY <2>0, <2>4 DEF Ring3Step
  <2>5. CASE sched_fork_current
    <3>1. vruntime[current_proc] \in Nat
      BY <2>5 DEF sched_fork_current
    <3> QED BY Zenon, <2>1, <2>5, <3>1 DEF sched_fork_current
  <2>6. ASSUME NEW i \in Slots, NEW sig \in Signals, sched_kill(i, sig)
        PROVE TypeOK'
    <3>1. state' \in [Slots -> {PROC_UNUSED, PROC_RUNNABLE, PROC_ZOMBIE}]
      BY <2>6 DEF sched_kill
    <3>2. frame' \in [Slots -> Context]
      BY <2>0, <2>6 DEF sched_kill
    <3>3. current_proc' \in Slots \cup {-1}
      BY <2>6 DEF sched_kill
    <3> QED BY <2>6, <3>1, <3>2, <3>3 DEF sched_kill
  <2>7. CASE SysExec
    BY <2>2, <2>7 DEF SysExec
  <2>8. CASE SysExit \/ cpu_exception_handler
    BY <2>8 DEF SysExit, cpu_exception_handler, kpanic
  <2>9. CASE irq_timer_dispatch
    <3>1. frame' \in [Slots -> Context]
      BY <2>9 DEF irq_timer_dispatch, SavesCurrent
    <3>2. vruntime' \in [Slots -> Nat]
      <4>1. \A n \in Nat : (n + 1) % VruntimeModulus \in Nat
        OBVIOUS
      <4> QED BY <2>9, <4>1 DEF irq_timer_dispatch, SavesCurrent
    <3>3. current_proc' \in Slots \cup {-1} /\ cpu' \in Context
      BY Zenon, <2>9, <3>1 DEF irq_timer_dispatch
    <3> QED BY Zenon, <2>9, <3>1, <3>2, <3>3 DEF irq_timer_dispatch
  <2>10. CASE UNCHANGED vars
    BY <2>10 DEF vars
  <2> QED BY Zenon, <2>3, <2>4, <2>5, <2>6, <2>7, <2>8, <2>9, <2>10 DEF Next
<1> QED BY <1>1, <1>2, PTL DEF Spec

----------------------------------------------------------------------------
(* The process table.                                                      *)

\* Before the first image is started the table is empty.
BootIsEmpty ==
    mode = "boot" => current_proc = -1 /\ \A i \in Slots : state[i] = PROC_UNUSED

\* The inductive invariant of the table: it adds to the two properties only
\* what the state at boot contributes.
TableInv == TypeOK /\ PidsNameSlots /\ CurrentIsRunnable /\ BootIsEmpty

\* The slot alloc_proc returns is the one next_pid names.
LEMMA AllocIsNextPid ==
    ASSUME TypeOK, PidsNameSlots, NEW slot \in Slots, alloc_proc(slot)
    PROVE  slot + 1 = next_pid
<1>1. ~(slot + 1 < next_pid)
  BY DEF PidsNameSlots, alloc_proc
<1>2. CASE slot = 0
  BY <1>1, <1>2 DEF TypeOK
<1>3. CASE slot > 0
  <2>1. slot - 1 \in Slots /\ state[slot - 1] # PROC_UNUSED
    BY <1>3, SchedAssumption DEF alloc_proc, Slots
  <2>2. (slot - 1) + 1 < next_pid
    BY <2>1 DEF PidsNameSlots
  <2> QED BY <1>1, <2>2, SchedAssumption DEF TypeOK, Slots
<1> QED BY <1>2, <1>3, SchedAssumption DEF Slots

\* Filling the allocated slot keeps the table in order.
LEMMA FillKeepsTable ==
    ASSUME TypeOK, PidsNameSlots, NEW slot \in Slots, alloc_proc(slot),
           NEW vr, FillSlot(slot, vr)
    PROVE  PidsNameSlots'
<1>1. slot + 1 = next_pid
  BY AllocIsNextPid
<1>2. next_pid' = next_pid + 1 /\ next_pid \in Nat
  BY DEF FillSlot, TypeOK
<1>3. next_pid' <= PROC_MAX + 1
  BY <1>1, <1>2, SchedAssumption DEF Slots
<1>4. ASSUME NEW i \in Slots
      PROVE  /\ state'[i] # PROC_UNUSED <=> i + 1 < next_pid'
             /\ state'[i] # PROC_UNUSED => pid'[i] = i + 1
  <2>1. CASE i = slot
    BY <1>1, <1>2, <2>1, SchedAssumption
       DEF FillSlot, TypeOK, Slots, PROC_UNUSED, PROC_RUNNABLE
  <2>2. CASE i # slot
    <3>1. state'[i] = state[i] /\ pid'[i] = pid[i]
      BY <2>2 DEF FillSlot, TypeOK
    <3> QED BY <1>1, <1>2, <2>2, <3>1, SchedAssumption DEF PidsNameSlots, Slots
  <2> QED BY <2>1, <2>2
<1> QED BY <1>3, <1>4 DEF PidsNameSlots

\* A new image in the first free slot keeps the invariant of the table.
LEMMA JumpKeepsTable ==
    ASSUME TableInv, TypeOK', jump_to_ring3
    PROVE  TableInv'
<1>1. CASE \E slot \in Slots : sched_create_user(slot) /\ mode' = "user"
  <2> PICK slot \in Slots : sched_create_user(slot) /\ mode' = "user"
    BY <1>1
  <2>1. alloc_proc(slot) /\ FillSlot(slot, 0)
    BY DEF sched_create_user
  <2>2. PidsNameSlots'
    BY <2>1, FillKeepsTable DEF TableInv
  <2>3. CurrentIsRunnable'
    BY <2>1, SchedAssumption
       DEF TableInv, TypeOK, CurrentIsRunnable, sched_create_user, FillSlot, Slots
  <2> QED BY <2>2, <2>3 DEF TableInv, BootIsEmpty
<1>2. CASE UNCHANGED <<state, pid, next_pid, current_proc>> /\ mode' = "panic"
  BY <1>2 DEF TableInv, PidsNameSlots, CurrentIsRunnable, BootIsEmpty
<1> QED BY <1>1, <1>2 DEF jump_to_ring3

\* Every step of the kernel preserves the invariant of the table.
LEMMA TableInductive == TableInv /\ TypeOK' /\ [Next]_vars => TableInv'
<1> SUFFICES ASSUME TableInv, TypeOK', [Next]_vars PROVE TableInv'
  OBVIOUS
<1>1. CASE kmain
  BY <1>1, JumpKeepsTable
     DEF kmain, kpanic, TableInv, PidsNameSlots, CurrentIsRunnable, BootIsEmpty
<1>2. CASE Ring3Step \/ SysExit \/ cpu_exception_handler \/ UNCHANGED vars
  BY <1>2 DEF Ring3Step, SysExit, cpu_exception_handler, kpanic, vars,
              TableInv, PidsNameSlots, CurrentIsRunnable, BootIsEmpty
<1>3. CASE sched_fork_current
  <2> PICK slot \in Slots : alloc_proc(slot) /\ FillSlot(slot, vruntime[current_proc])
    BY <1>3 DEF sched_fork_current
  <2>1. PidsNameSlots'
    BY FillKeepsTable DEF TableInv
  <2>2. CurrentIsRunnable'
    BY <1>3 DEF sched_fork_current, FillSlot, TableInv, TypeOK, CurrentIsRunnable
  <2> QED BY <1>3, <2>1, <2>2 DEF sched_fork_current, TableInv, BootIsEmpty
<1>4. ASSUME NEW i \in Slots, NEW sig \in Signals, sched_kill(i, sig)
      PROVE TableInv'
  <2>1. \A j \in Slots : state'[j] # PROC_UNUSED <=> state[j] # PROC_UNUSED
    BY <1>4 DEF sched_kill, TableInv, TypeOK, PROC_UNUSED, PROC_RUNNABLE, PROC_ZOMBIE
  <2>2. PidsNameSlots'
    BY <1>4, <2>1 DEF sched_kill, TableInv, PidsNameSlots
  <2>3. CurrentIsRunnable'
    BY <1>4, SchedAssumption
       DEF sched_kill, TableInv, TypeOK, CurrentIsRunnable, Slots
  <2> QED BY <1>4, <2>2, <2>3 DEF sched_kill, TableInv, BootIsEmpty
<1>5. CASE SysExec
  BY <1>5, JumpKeepsTable DEF SysExec
<1>6. CASE irq_timer_dispatch
  <2>1. PidsNameSlots' /\ BootIsEmpty'
    BY <1>6 DEF irq_timer_dispatch, TableInv, PidsNameSlots, BootIsEmpty
  <2>2. CurrentIsRunnable'
    BY <1>6 DEF irq_timer_dispatch, choose_next, choose_rr, choose_cfs, Runnable,
                TableInv, CurrentIsRunnable
  <2> QED BY <2>1, <2>2 DEF TableInv
<1> QED BY <1>1, <1>2, <1>3, <1>4, <1>5, <1>6 DEF Next

\* The table is in order in every reachable state.
LEMMA TableInvariant == Spec => []TableInv
<1>1. Init => TableInv
  <2> SUFFICES ASSUME Init PROVE TableInv
    OBVIOUS
  <2>1. TypeOK
    BY SchedAssumption DEF Init, sched_init, TypeOK, Slots, Context, NoContext
  <2>2. PidsNameSlots /\ CurrentIsRunnable /\ BootIsEmpty
    BY SchedAssumption
       DEF Init, sched_init, PidsNameSlots, CurrentIsRunnable, BootIsEmpty, Slots
  <2> QED BY <2>1, <2>2 DEF TableInv
<1> QED BY <1>1, TypeCorrect, TableInductive, PTL DEF Spec

\* For every table size, policy and mix of signals and execs, a pid names at
\* most one process for ever and next_pid stays within PROC_MAX + 1.
THEOREM PidsAreUnique == Spec => []PidsNameSlots
BY TableInvariant, PTL DEF TableInv

\* The current slot is runnable in every reachable state.
THEOREM CurrentStaysRunnable == Spec => []CurrentIsRunnable
BY TableInvariant, PTL DEF TableInv

----------------------------------------------------------------------------
(* Contexts.  User programs keep to the documented signals and do not call *)
(* SYS_EXEC.  The run Sched_selfsignal shows what another signal does; an  *)
(* image that SYS_EXEC loads is held by two slots.                         *)

Documented == Signals \subseteq Fatal /\ ~UserExecs

\* Every runnable slot other than the current one holds the latest image of
\* its own thread; the current slot's thread is the one on the CPU.  When no
\* slot is current the thread on the CPU is dead, that is, no runnable slot's.
ContextInv ==
    mode = "user" =>
        /\ cpu.fresh
        /\ current_proc >= 0 => cpu.tid = pid[current_proc]
        /\ \A i \in Slots : state[i] = PROC_RUNNABLE =>
              /\ frame[i].tid = pid[i]
              /\ i # current_proc => frame[i].fresh /\ cpu.tid # pid[i]

\* An instruction outdates the images of its own thread only.
LEMMA StepOutdates ==
    ASSUME TypeOK, NEW i \in Slots
    PROVE  /\ FramesAfterStep[i].tid = frame[i].tid
           /\ frame[i].tid # cpu.tid /\ frame[i].fresh => FramesAfterStep[i].fresh
<1>1. frame[i] \in Context /\ FramesAfterStep[i] = Outdate(frame[i])
  BY DEF TypeOK, FramesAfterStep
<1> QED BY <1>1 DEF Outdate, Context

\* Pids of two used slots differ.
LEMMA PidsDiffer ==
    ASSUME TypeOK, PidsNameSlots, NEW i \in Slots, NEW j \in Slots, i # j,
           state[i] # PROC_UNUSED, state[j] # PROC_UNUSED
    PROVE  pid[i] # pid[j]
BY SchedAssumption DEF PidsNameSlots, Slots

\* The first image, started by kmain, establishes the invariant.
LEMMA BootContext ==
    ASSUME TableInv, TableInv', ContextInv, kmain
    PROVE  ContextInv'
<1>1. CASE kpanic
  BY <1>1 DEF kpanic, ContextInv
<1>2. CASE \E slot \in Slots : /\ sched_create_user(slot)
                              /\ cpu' = [tid |-> next_pid, fresh |-> TRUE]
                              /\ mode' = "user"
  <2> PICK slot \in Slots : /\ sched_create_user(slot)
                            /\ cpu' = [tid |-> next_pid, fresh |-> TRUE]
                            /\ mode' = "user"
    BY <1>2
  <2>1. current_proc' = slot
    BY DEF kmain, TableInv, BootIsEmpty, sched_create_user
  <2>2. /\ state' = [state EXCEPT ![slot] = PROC_RUNNABLE]
        /\ pid' = [pid EXCEPT ![slot] = next_pid]
        /\ frame' = [FramesAfterStep EXCEPT ![slot] = [tid |-> next_pid, fresh |-> TRUE]]
    BY DEF sched_create_user, FillSlot
  <2>3. \A i \in Slots : state'[i] = PROC_RUNNABLE => i = slot
    BY <2>2 DEF kmain, TableInv, BootIsEmpty, TypeOK, PROC_UNUSED, PROC_RUNNABLE
  <2>4. pid'[slot] = next_pid /\ frame'[slot].tid = next_pid
    BY <2>2 DEF TableInv, TypeOK, FramesAfterStep
  <2>5. cpu'.fresh /\ cpu'.tid = next_pid
    OBVIOUS
  <2> QED BY <2>1, <2>3, <2>4, <2>5 DEF ContextInv
<1>3. CASE TableFull /\ mode' = "panic"
  BY <1>3 DEF ContextInv
<1> QED BY <1>1, <1>2, <1>3 DEF kmain, jump_to_ring3

\* A fork leaves the parent on the CPU and gives the child its own image.
LEMMA ForkContext ==
    ASSUME TableInv, TableInv', ContextInv, sched_fork_current
    PROVE  ContextInv'
<1> PICK slot \in Slots : alloc_proc(slot) /\ FillSlot(slot, vruntime[current_proc])
  BY DEF sched_fork_current
<1>1. /\ state' = [state EXCEPT ![slot] = PROC_RUNNABLE]
      /\ pid' = [pid EXCEPT ![slot] = next_pid]
      /\ frame' = [FramesAfterStep EXCEPT ![slot] = [tid |-> next_pid, fresh |-> TRUE]]
      /\ UNCHANGED <<current_proc, cpu, mode>>
      /\ mode = "user"
      /\ current_proc \in Slots
      /\ state[current_proc] = PROC_RUNNABLE
      /\ TypeOK /\ PidsNameSlots /\ TypeOK' /\ PidsNameSlots'
  <2>1. TypeOK /\ PidsNameSlots /\ TypeOK' /\ PidsNameSlots'
    BY DEF TableInv
  <2>2. current_proc \in Slots
    BY <2>1, SchedAssumption DEF sched_fork_current, TypeOK, Slots
  <2> QED BY Zenon, <2>1, <2>2 DEF FillSlot, sched_fork_current
<1>2. slot # current_proc
  BY <1>1 DEF alloc_proc, PROC_UNUSED, PROC_RUNNABLE
<1>3. cpu.fresh /\ cpu.tid = pid[current_proc] /\ pid'[current_proc] = pid[current_proc]
  BY <1>1, <1>2 DEF ContextInv, TypeOK, Slots
<1>4. ASSUME NEW i \in Slots, state'[i] = PROC_RUNNABLE
      PROVE  /\ frame'[i].tid = pid'[i]
             /\ i # current_proc => frame'[i].fresh /\ cpu.tid # pid'[i]
  <2>1. CASE i = slot
    <3>1. frame'[i] = [tid |-> next_pid, fresh |-> TRUE] /\ pid'[i] = next_pid
      BY <1>1, <2>1 DEF FramesAfterStep, TypeOK
    <3>2. state'[current_proc] # PROC_UNUSED /\ state'[i] # PROC_UNUSED
      BY <1>1, <1>2, <1>4 DEF TypeOK, PROC_UNUSED, PROC_RUNNABLE
    <3>3. pid'[i] = i + 1 /\ pid'[current_proc] = current_proc + 1
      BY <1>1, <3>2 DEF PidsNameSlots
    <3> QED BY <1>1, <1>2, <1>3, <2>1, <3>1, <3>3 DEF Slots
  <2>2. CASE i # slot
    <3>1. /\ frame'[i] = FramesAfterStep[i]
          /\ pid'[i] = pid[i]
          /\ state[i] = PROC_RUNNABLE
      BY <1>1, <1>4, <2>2 DEF FramesAfterStep, TypeOK
    <3>2. frame[i].tid = pid[i] /\ (i # current_proc => frame[i].fresh /\ cpu.tid # pid[i])
      BY <1>1, <3>1 DEF ContextInv
    <3> QED BY <1>1, <3>1, <3>2, StepOutdates
  <2> QED BY <2>1, <2>2
<1> QED BY <1>1, <1>3, <1>4 DEF ContextInv

\* A documented kill takes its target out of the runnable slots, and makes
\* no slot current when the target was the one on the CPU.
LEMMA KillContext ==
    ASSUME TableInv, ContextInv, Documented,
           NEW k \in Slots, NEW sig \in Signals, sched_kill(k, sig)
    PROVE  ContextInv'
<1>1. /\ state' = [state EXCEPT ![k] = PROC_ZOMBIE]
      /\ current_proc' = IF k = current_proc THEN -1 ELSE current_proc
      /\ frame' = FramesAfterStep
      /\ UNCHANGED <<pid, cpu, mode>>
      /\ mode = "user"
      /\ TypeOK
  BY ZenonT(40) DEF sched_kill, Documented, TableInv
<1>2. ASSUME NEW i \in Slots, state'[i] = PROC_RUNNABLE
      PROVE  /\ frame'[i].tid = pid'[i]
             /\ i # current_proc' => frame'[i].fresh /\ cpu.tid # pid'[i]
  <2>1. i # k /\ state[i] = PROC_RUNNABLE
    BY <1>1, <1>2 DEF TypeOK, PROC_ZOMBIE, PROC_RUNNABLE
  <2>2. frame[i].tid = pid[i] /\ (i # current_proc => frame[i].fresh /\ cpu.tid # pid[i])
    BY <1>1, <2>1 DEF ContextInv
  <2>3. i = current_proc => i = current_proc'
    BY <1>1, <2>1
  <2> QED BY <1>1, <2>2, <2>3, StepOutdates
<1> QED BY <1>1, <1>2, SchedAssumption DEF ContextInv, TypeOK, Slots

\* A tick saves the interrupted image and resumes the latest of the next one.
LEMMA TickContext ==
    ASSUME TableInv, ContextInv, irq_timer_dispatch
    PROVE  ContextInv'
<1>1. TypeOK /\ PidsNameSlots /\ CurrentIsRunnable /\ mode = "user" /\ mode' = "user"
  BY DEF TableInv, irq_timer_dispatch
<1>2. UNCHANGED <<state, pid>>
  BY DEF irq_timer_dispatch
<1>3. ASSUME NEW i \in Slots, state[i] = PROC_RUNNABLE
      PROVE  frame'[i].tid = pid[i] /\ frame'[i].fresh
  <2>1. CASE i = current_proc
    <3>1. frame'[i] = cpu
      BY <1>1, <1>3, <2>1, SchedAssumption
         DEF irq_timer_dispatch, SavesCurrent, TypeOK, Slots
    <3> QED BY <1>1, <2>1, <3>1, SchedAssumption DEF ContextInv, Slots
  <2>2. CASE i # current_proc
    <3>1. frame'[i] = frame[i]
      BY <1>1, <2>2 DEF irq_timer_dispatch, TypeOK
    <3> QED BY <1>1, <1>3, <2>2, <3>1 DEF ContextInv
  <2> QED BY <2>1, <2>2
<1>4. CASE \E next \in Slots : /\ choose_next(next, vruntime')
                              /\ current_proc' = next
                              /\ cpu' = frame'[next]
  <2> PICK next \in Slots : /\ choose_next(next, vruntime')
                            /\ current_proc' = next
                            /\ cpu' = frame'[next]
    BY <1>4
  <2>1. state[next] = PROC_RUNNABLE
    BY DEF choose_next, choose_cfs, choose_rr, Runnable
  <2>2. cpu'.fresh /\ cpu'.tid = pid[next]
    BY <1>3, <2>1
  <2>3. \A i \in Slots : state[i] = PROC_RUNNABLE /\ i # next => pid[i] # pid[next]
    BY <1>1, <2>1, PidsDiffer DEF PROC_UNUSED, PROC_RUNNABLE
  <2> QED BY <1>2, <1>3, <2>2, <2>3 DEF ContextInv
<1>5. CASE Runnable = {} /\ UNCHANGED <<current_proc, cpu>>
  <2>1. \A i \in Slots : state[i] # PROC_RUNNABLE
    BY <1>5 DEF Runnable
  <2>2. current_proc = -1
    BY <1>1, <2>1, SchedAssumption DEF CurrentIsRunnable, TypeOK, Slots
  <2> QED BY <1>1, <1>2, <1>5, <2>1, <2>2 DEF ContextInv
<1> QED BY Zenon, <1>4, <1>5 DEF irq_timer_dispatch

\* With documented use of the system calls the contexts stay in order.
LEMMA ContextInvariant == Documented => (Spec => [](TableInv /\ ContextInv))
<1> SUFFICES ASSUME Documented PROVE Spec => [](TableInv /\ ContextInv)
  OBVIOUS
<1>1. Init => ContextInv
  BY DEF Init, ContextInv
<1>2. TableInv /\ TableInv' /\ ContextInv /\ [Next]_vars => ContextInv'
  <2> SUFFICES ASSUME TableInv, TableInv', ContextInv, [Next]_vars PROVE ContextInv'
    OBVIOUS
  <2>1. CASE kmain
    BY <2>1, BootContext
  <2>2. CASE Ring3Step
    <3>1. UNCHANGED <<state, pid, current_proc, cpu, mode>> /\ frame' = FramesAfterStep
      BY <2>2 DEF Ring3Step
    <3>2. ASSUME NEW i \in Slots, state[i] = PROC_RUNNABLE
          PROVE  mode = "user" => /\ frame'[i].tid = pid[i]
                                  /\ i # current_proc => frame'[i].fresh /\ cpu.tid # pid[i]
      <4>1. mode = "user" => /\ frame[i].tid = pid[i]
                             /\ i # current_proc => frame[i].fresh /\ cpu.tid # pid[i]
        BY <3>2 DEF ContextInv
      <4>2. /\ frame'[i].tid = frame[i].tid
            /\ frame[i].tid # cpu.tid /\ frame[i].fresh => frame'[i].fresh
        BY <3>1, StepOutdates DEF TableInv
      <4> QED BY <4>1, <4>2
    <3> QED BY <3>1, <3>2 DEF ContextInv
  <2>3. CASE sched_fork_current
    BY <2>3, ForkContext
  <2>4. ASSUME NEW i \in Slots, NEW sig \in Signals, sched_kill(i, sig)
        PROVE ContextInv'
    BY <2>4, KillContext
  <2>5. CASE SysExec
    BY <2>5 DEF SysExec, Documented
  <2>6. CASE SysExit \/ cpu_exception_handler
    BY <2>6 DEF SysExit, cpu_exception_handler, kpanic, ContextInv
  <2>7. CASE irq_timer_dispatch
    BY <2>7, TickContext
  <2>8. CASE UNCHANGED vars
    BY <2>8 DEF vars, ContextInv
  <2> QED BY <2>1, <2>2, <2>3, <2>4, <2>5, <2>6, <2>7, <2>8 DEF Next
<1> QED BY <1>1, <1>2, TableInvariant, PTL DEF Spec

\* For every table size and either policy, a process that is resumed continues
\* exactly where it was interrupted.
THEOREM NeverResumedStale == Documented => (Spec => []NoStaleResume)
<1> SUFFICES ASSUME Documented PROVE Spec => []NoStaleResume
  OBVIOUS
<1>1. ContextInv => NoStaleResume
  BY DEF ContextInv, NoStaleResume
<1> QED BY <1>1, ContextInvariant, PTL

\* The thread on the CPU is never also waiting in another runnable slot.
THEOREM RunnerIsHeldOnce == Documented => (Spec => []RunnerHeldOnce)
<1> SUFFICES ASSUME Documented PROVE Spec => []RunnerHeldOnce
  OBVIOUS
<1>1. ContextInv => RunnerHeldOnce
  BY DEF ContextInv, RunnerHeldOnce, Runnable
<1> QED BY <1>1, ContextInvariant, PTL

\* The current slot, if there is one, is the one whose thread runs.
THEOREM RunnerIsCurrent == Documented => (Spec => []CurrentIsRunner)
<1> SUFFICES ASSUME Documented PROVE Spec => []CurrentIsRunner
  OBVIOUS
<1>1. ContextInv => CurrentIsRunner
  BY DEF ContextInv, CurrentIsRunner
<1> QED BY <1>1, ContextInvariant, PTL

\* No tick ever dispatches a process that was killed.
THEOREM KilledStaysOff == Documented => (Spec => DeadStaysOff)
<1> SUFFICES ASSUME Documented PROVE Spec => DeadStaysOff
  OBVIOUS
<1> DEFINE StaysOff == \A t \in 1 .. PROC_MAX : Dead(t) /\ cpu.tid # t => cpu'.tid # t
<1>1. TableInv /\ ContextInv /\ ContextInv' /\ [Next]_vars => [StaysOff]_vars
  <2> SUFFICES ASSUME TableInv, ContextInv, ContextInv', Next,
                      NEW t \in 1 .. PROC_MAX, Dead(t), cpu.tid # t, cpu' # cpu
               PROVE  cpu'.tid # t
    OBVIOUS
  <2> PICK z \in Slots : state[z] = PROC_ZOMBIE /\ pid[z] = t
    BY DEF Dead
  <2>1. mode # "boot"
    BY DEF TableInv, BootIsEmpty, PROC_ZOMBIE, PROC_UNUSED
  <2>2. irq_timer_dispatch
    BY <2>1 DEF Next, kmain, Ring3Step, sched_fork_current, sched_kill, SysExec,
                SysExit, cpu_exception_handler, kpanic, Documented
  <2> PICK next \in Slots : choose_next(next, vruntime') /\ current_proc' = next
    BY ZenonT(40), <2>2 DEF irq_timer_dispatch
  <2>3. state[next] = PROC_RUNNABLE
    BY DEF choose_next, choose_cfs, choose_rr, Runnable
  <2>4. mode' = "user" /\ UNCHANGED pid
    BY <2>2 DEF irq_timer_dispatch
  <2>5. cpu'.tid = pid[next]
    BY <2>4, SchedAssumption DEF ContextInv, Slots
  <2>6. pid[next] # pid[z]
    BY <2>3, PidsDiffer DEF TableInv, PROC_ZOMBIE, PROC_RUNNABLE, PROC_UNUSED
  <2> QED BY <2>5, <2>6
<1> QED BY <1>1, ContextInvariant, PTL DEF Spec, DeadStaysOff

----------------------------------------------------------------------------
(* Fairness of the CFS policy, as long as no virtual runtime wraps and no  *)
(* SYS_EXEC starts a process with virtual runtime 0.                       *)

CfsSetting ==
    Policy = "CFS" /\ ~UserExecs /\ MaxVruntime < VruntimeModulus

\* The current process has the least virtual runtime, and nobody is more than
\* one tick ahead of anybody.
CfsInv ==
    /\ \A i, j \in Runnable : vruntime[i] <= vruntime[j] + 1
    /\ current_proc >= 0 => \A i \in Runnable : vruntime[current_proc] <= vruntime[i]

\* A tick charges the process that was least and dispatches the new least one.
LEMMA TickSpread ==
    ASSUME CfsSetting, TableInv, CfsInv, irq_timer_dispatch
    PROVE  CfsInv'
<1> USE SchedAssumption
<1>1. /\ Runnable' = Runnable
      /\ \A i \in Runnable : i \in Slots /\ vruntime[i] \in Nat
      /\ current_proc >= 0 => current_proc \in Runnable
  BY DEF irq_timer_dispatch, Runnable, TableInv, TypeOK, CurrentIsRunnable, Slots
<1>2. \A i, j \in Runnable : vruntime'[i] \in Nat /\ vruntime'[i] <= vruntime'[j] + 1
  <2>1. CASE SavesCurrent
    <3>1. current_proc \in Runnable /\ vruntime[current_proc] < MaxVruntime
      BY <1>1, <2>1 DEF irq_timer_dispatch, SavesCurrent
    <3>2. (vruntime[current_proc] + 1) % VruntimeModulus = vruntime[current_proc] + 1
      BY <1>1, <3>1 DEF CfsSetting
    <3>3. vruntime' = [vruntime EXCEPT ![current_proc] = vruntime[current_proc] + 1]
      BY ZenonT(40), <2>1, <3>2 DEF irq_timer_dispatch
    <3>4. \A i \in Runnable : vruntime'[i] = IF i = current_proc THEN vruntime[i] + 1
                                                                 ELSE vruntime[i]
      BY <1>1, <3>3 DEF TableInv, TypeOK
    <3>5. \A i \in Runnable : vruntime[current_proc] <= vruntime[i]
      BY <2>1 DEF CfsInv, SavesCurrent
    <3> QED BY <1>1, <3>1, <3>4, <3>5 DEF CfsInv
  <2>2. CASE ~SavesCurrent
    BY <1>1, <2>2 DEF irq_timer_dispatch, CfsInv
  <2> QED BY <2>1, <2>2
<1>3. current_proc' >= 0 => \A i \in Runnable : vruntime'[current_proc'] <= vruntime'[i]
  <2>1. ASSUME NEW next \in Slots, choose_next(next, vruntime'), current_proc' = next
        PROVE  \A i \in Runnable : vruntime'[current_proc'] <= vruntime'[i]
    BY <1>2, <2>1 DEF CfsSetting, choose_next, choose_cfs
  <2> QED BY ZenonT(40), <2>1 DEF irq_timer_dispatch
<1> QED BY <1>1, <1>2, <1>3 DEF CfsInv

\* A forked child starts level with its parent, the least process.
LEMMA ForkSpread ==
    ASSUME TableInv, CfsInv, sched_fork_current
    PROVE  CfsInv'
<1> USE SchedAssumption
<1> PICK slot \in Slots : alloc_proc(slot) /\ FillSlot(slot, vruntime[current_proc])
  BY DEF sched_fork_current
<1>1. current_proc \in Runnable /\ current_proc' = current_proc /\ slot # current_proc
  BY DEF sched_fork_current, TableInv, TypeOK, Slots, Runnable, alloc_proc,
         PROC_UNUSED, PROC_RUNNABLE
<1>2. \A i \in Runnable : i \in Slots /\ vruntime[i] \in Nat
  BY DEF Runnable, TableInv, TypeOK
<1>3. \A i \in Runnable' : i = slot \/ i \in Runnable
  BY DEF FillSlot, Runnable, TableInv, TypeOK
<1>4. \A i \in Slots : vruntime'[i] = IF i = slot THEN vruntime[current_proc] ELSE vruntime[i]
  BY DEF FillSlot, TableInv, TypeOK
<1>5. \A i \in Runnable : vruntime[current_proc] <= vruntime[i]
  BY <1>1 DEF CfsInv, Runnable, Slots
<1> QED BY <1>1, <1>2, <1>3, <1>4, <1>5 DEF CfsInv, Runnable, Slots

\* For every table size, the virtual runtimes of runnable processes stay within
\* one tick of each other under CFS.
THEOREM CfsIsFair == CfsSetting => (Spec => []CfsSpread)
<1> SUFFICES ASSUME CfsSetting PROVE Spec => []CfsSpread
  OBVIOUS
<1> USE SchedAssumption
<1>1. Init => CfsInv
  BY DEF Init, sched_init, CfsInv, Runnable, PROC_UNUSED, PROC_RUNNABLE
<1>2. TableInv /\ CfsInv /\ [Next]_vars => CfsInv'
  <2> SUFFICES ASSUME TableInv, CfsInv, [Next]_vars PROVE CfsInv'
    OBVIOUS
  <2>1. CASE kmain
    <3>1. CASE \E slot \in Slots : sched_create_user(slot)
      <4> PICK slot \in Slots : sched_create_user(slot)
        BY <3>1
      <4>1. state' = [state EXCEPT ![slot] = PROC_RUNNABLE]
            /\ vruntime' = [vruntime EXCEPT ![slot] = 0] /\ current_proc' = slot
        BY <2>1 DEF kmain, TableInv, BootIsEmpty, sched_create_user, FillSlot
      <4>2. \A i \in Runnable' : i = slot
        BY <2>1, <4>1 DEF kmain, TableInv, BootIsEmpty, TypeOK, Runnable,
                          PROC_UNUSED, PROC_RUNNABLE
      <4>3. vruntime'[slot] = 0
        BY <4>1 DEF TableInv, TypeOK
      <4> QED BY <4>1, <4>2, <4>3 DEF CfsInv
    <3>2. CASE UNCHANGED <<state, vruntime, current_proc>>
      BY <3>2 DEF CfsInv, Runnable
    <3> QED BY <2>1, <3>1, <3>2 DEF kmain, jump_to_ring3, kpanic
  <2>2. CASE Ring3Step \/ SysExit \/ cpu_exception_handler \/ UNCHANGED vars
    BY <2>2 DEF Ring3Step, SysExit, cpu_exception_handler, kpanic, vars, CfsInv, Runnable
  <2>3. CASE sched_fork_current
    BY <2>3, ForkSpread
  <2>4. ASSUME NEW k \in Slots, NEW sig \in Signals, sched_kill(k, sig)
        PROVE CfsInv'
    <3>1. Runnable' \subseteq Runnable
      BY <2>4 DEF sched_kill, Runnable, TableInv, TypeOK
    <3>2. vruntime' = vruntime /\ (current_proc' >= 0 => current_proc' = current_proc)
      BY <2>4 DEF sched_kill
    <3> QED BY <3>1, <3>2 DEF CfsInv
  <2>5. CASE SysExec
    BY <2>5 DEF SysExec, CfsSetting
  <2>6. CASE irq_timer_dispatch
    BY <2>6, TickSpread
  <2> QED BY <2>1, <2>2, <2>3, <2>4, <2>5, <2>6 DEF Next
<1>3. CfsInv => CfsSpread
  BY DEF CfsInv, CfsSpread
<1> QED BY <1>1, <1>2, <1>3, TableInvariant, PTL DEF Spec

----------------------------------------------------------------------------
(* Sched implements Processes.  Besides the two invariants above the       *)
(* mapping needs that ring 3 always runs some process.                     *)

CpuInv ==
    /\ mode = "boot" => cpu.tid = 0
    /\ mode = "user" => cpu.tid # 0

\* The pids of a used state are those of its slots, each pid one slot's.
LEMMA MemberOfPids ==
    ASSUME TypeOK, PidsNameSlots, NEW st \in {PROC_RUNNABLE, PROC_ZOMBIE}
    PROVE  /\ PidsOf(st) = {i + 1 : i \in {j \in Slots : state[j] = st}}
           /\ PidsOf(st) \subseteq 1 .. PROC_MAX
<1>1. ASSUME NEW i \in Slots, state[i] = st PROVE pid[i] = i + 1
  BY <1>1 DEF PidsNameSlots, PROC_UNUSED, PROC_RUNNABLE, PROC_ZOMBIE
<1> QED BY <1>1, SchedAssumption DEF PidsOf, Slots

\* The same after a step.
LEMMA MemberOfPidsNext ==
    ASSUME TypeOK', PidsNameSlots', NEW st \in {PROC_RUNNABLE, PROC_ZOMBIE}
    PROVE  PidsOf(st)' = {i + 1 : i \in {j \in Slots : state'[j] = st}}
<1>1. ASSUME NEW i \in Slots, state'[i] = st PROVE pid'[i] = i + 1
  BY <1>1 DEF PidsNameSlots, PROC_UNUSED, PROC_RUNNABLE, PROC_ZOMBIE
<1> QED BY <1>1, SchedAssumption DEF PidsOf, Slots

\* A slot that alloc_proc returned becomes one new live process.
LEMMA FillAddsOne ==
    ASSUME TableInv, TableInv', NEW slot \in Slots, alloc_proc(slot), NEW vr, FillSlot(slot, vr)
    PROVE  /\ next_pid \in (1 .. PROC_MAX) \ (PidsOf(PROC_RUNNABLE) \cup PidsOf(PROC_ZOMBIE))
           /\ PidsOf(PROC_RUNNABLE)' = PidsOf(PROC_RUNNABLE) \cup {next_pid}
           /\ PidsOf(PROC_ZOMBIE)' = PidsOf(PROC_ZOMBIE)
<1> USE DEF PROC_UNUSED, PROC_RUNNABLE, PROC_ZOMBIE
<1>1. TypeOK /\ PidsNameSlots /\ TypeOK' /\ PidsNameSlots'
  BY DEF TableInv
<1>2. slot + 1 = next_pid /\ state[slot] = PROC_UNUSED
  BY <1>1, AllocIsNextPid DEF alloc_proc
<1>3. state' = [state EXCEPT ![slot] = PROC_RUNNABLE]
  BY DEF FillSlot
<1>4. \A j \in Slots : j # slot => j + 1 # next_pid
  BY <1>2 DEF Slots
<1>5. /\ PidsOf(PROC_RUNNABLE) = {i + 1 : i \in {j \in Slots : state[j] = PROC_RUNNABLE}}
      /\ PidsOf(PROC_ZOMBIE) = {i + 1 : i \in {j \in Slots : state[j] = PROC_ZOMBIE}}
  BY <1>1, MemberOfPids
<1>6. /\ PidsOf(PROC_RUNNABLE)' = {i + 1 : i \in {j \in Slots : state'[j] = PROC_RUNNABLE}}
      /\ PidsOf(PROC_ZOMBIE)' = {i + 1 : i \in {j \in Slots : state'[j] = PROC_ZOMBIE}}
  BY <1>1, MemberOfPidsNext
<1>7. next_pid \in 1 .. PROC_MAX
  BY <1>2, SchedAssumption DEF Slots
<1>8. next_pid \notin PidsOf(PROC_RUNNABLE) \cup PidsOf(PROC_ZOMBIE)
  BY <1>2, <1>4, <1>5
<1>9. {j \in Slots : state'[j] = PROC_RUNNABLE} = {j \in Slots : state[j] = PROC_RUNNABLE} \cup {slot}
  BY <1>1, <1>3 DEF TypeOK
<1>10. {j \in Slots : state'[j] = PROC_ZOMBIE} = {j \in Slots : state[j] = PROC_ZOMBIE}
  BY <1>1, <1>2, <1>3 DEF TypeOK
<1> QED BY <1>2, <1>5, <1>6, <1>7, <1>8, <1>9, <1>10

\* The CPU holds a process exactly from the first entry into ring 3 on.
LEMMA CpuStep ==
    ASSUME TableInv, TableInv', ContextInv, ContextInv', CpuInv, [Next]_vars
    PROVE  CpuInv'
<1> USE DEF CpuInv
<1>1. TypeOK /\ TypeOK' /\ PidsNameSlots'
  BY DEF TableInv
<1>2. CASE kmain
  BY <1>1, <1>2 DEF kmain, kpanic, jump_to_ring3, TypeOK
<1>3. CASE Ring3Step \/ sched_fork_current \/ SysExit \/ cpu_exception_handler \/ UNCHANGED vars
  BY <1>3 DEF Ring3Step, sched_fork_current, SysExit, cpu_exception_handler, kpanic, vars
<1>4. ASSUME NEW i \in Slots, NEW sig \in Signals, sched_kill(i, sig) PROVE CpuInv'
  BY <1>4 DEF sched_kill
<1>5. CASE SysExec
  BY <1>1, <1>5 DEF SysExec, jump_to_ring3, TypeOK
<1>6. CASE irq_timer_dispatch
  <2>1. CASE UNCHANGED cpu
    BY <1>6, <2>1 DEF irq_timer_dispatch
  <2>2. CASE \E next \in Slots : choose_next(next, vruntime') /\ current_proc' = next
    <3> PICK next \in Slots : choose_next(next, vruntime') /\ current_proc' = next
      BY <2>2
    <3>1. state'[next] # PROC_UNUSED
      BY <1>6 DEF choose_next, choose_cfs, choose_rr, Runnable, irq_timer_dispatch,
                  PROC_UNUSED, PROC_RUNNABLE
    <3>2. pid'[next] = next + 1 /\ next >= 0
      BY <1>1, <3>1 DEF PidsNameSlots, Slots
    <3>3. mode' = "user" => cpu'.tid = next + 1
      BY <3>2 DEF ContextInv
    <3> QED BY <1>6, <3>2, <3>3, SchedAssumption DEF irq_timer_dispatch, Slots
  <2> QED BY ZenonT(40), <1>6, <2>1, <2>2 DEF irq_timer_dispatch
<1> QED BY <1>2, <1>3, <1>4, <1>5, <1>6 DEF Next

\* A panic is the abstract Halt.
LEMMA PanicHalts ==
    ASSUME mode # "panic", kpanic
    PROVE  Abstract!Halt
BY DEF kpanic, Abstract!Halt, PidsOf, RunningPid

\* The first entry into ring 3 is the abstract Start.
LEMMA KmainSimulates ==
    ASSUME TableInv, TableInv', CpuInv, kmain
    PROVE  Abstract!Next
<1>1. CASE kpanic
  BY <1>1, PanicHalts DEF kmain, Abstract!Next
<1>2. CASE TableFull /\ mode' = "panic" /\ UNCHANGED <<state, pid, vruntime, frame, current_proc, next_pid, cpu>>
  BY <1>2, PanicHalts DEF kmain, kpanic, Abstract!Next
<1>3. CASE \E slot \in Slots : /\ sched_create_user(slot)
                              /\ cpu' = [tid |-> next_pid, fresh |-> TRUE]
                              /\ mode' = "user"
  <2> PICK slot \in Slots : /\ sched_create_user(slot)
                            /\ cpu' = [tid |-> next_pid, fresh |-> TRUE]
                            /\ mode' = "user"
    BY <1>3
  <2>1. /\ next_pid \in (1 .. PROC_MAX) \ (PidsOf(PROC_RUNNABLE) \cup PidsOf(PROC_ZOMBIE))
        /\ PidsOf(PROC_RUNNABLE)' = PidsOf(PROC_RUNNABLE) \cup {next_pid}
        /\ PidsOf(PROC_ZOMBIE)' = PidsOf(PROC_ZOMBIE)
    BY FillAddsOne DEF sched_create_user
  <2>2. RunningPid = 0 /\ RunningPid' = next_pid
    BY DEF CpuInv, kmain, RunningPid
  <2>3. (mode = "panic") = FALSE /\ (mode' = "panic") = FALSE
    BY DEF kmain
  <2>4. Abstract!Start(next_pid)
    BY <2>1, <2>2, <2>3 DEF Abstract!Start, Abstract!New
  <2> QED BY <2>1, <2>4 DEF Abstract!Next
<1> QED BY <1>1, <1>2, <1>3 DEF kmain, jump_to_ring3

\* SYS_FORK is the abstract Fork: its caller is alive and on the CPU.
LEMMA ForkSimulates ==
    ASSUME TableInv, TableInv', ContextInv, CpuInv, sched_fork_current
    PROVE  Abstract!Next
<1> PICK slot \in Slots : alloc_proc(slot) /\ FillSlot(slot, vruntime[current_proc])
  BY DEF sched_fork_current
<1>1. /\ next_pid \in (1 .. PROC_MAX) \ (PidsOf(PROC_RUNNABLE) \cup PidsOf(PROC_ZOMBIE))
      /\ PidsOf(PROC_RUNNABLE)' = PidsOf(PROC_RUNNABLE) \cup {next_pid}
      /\ PidsOf(PROC_ZOMBIE)' = PidsOf(PROC_ZOMBIE)
  BY FillAddsOne
<1>2. current_proc \in Slots /\ state[current_proc] = PROC_RUNNABLE
  BY SchedAssumption DEF sched_fork_current, TableInv, TypeOK, Slots
<1>3. RunningPid = pid[current_proc] /\ RunningPid' = RunningPid
  BY DEF sched_fork_current, ContextInv, RunningPid
<1>4. RunningPid \in PidsOf(PROC_RUNNABLE)
  BY <1>2, <1>3 DEF PidsOf
<1>5. (mode = "panic") = FALSE /\ (mode' = "panic") = FALSE
  BY DEF sched_fork_current
<1>6. Abstract!Fork(next_pid)
  BY <1>1, <1>3, <1>4, <1>5 DEF Abstract!Fork, Abstract!New
<1> QED BY <1>1, <1>6 DEF Abstract!Next

\* A documented SYS_KILL is the abstract Kill of one process.
LEMMA KillSimulates ==
    ASSUME TableInv, TableInv', ContextInv, CpuInv, Documented,
           NEW k \in Slots, NEW sig \in Signals, sched_kill(k, sig)
    PROVE  Abstract!Next
<1> USE DEF PROC_UNUSED, PROC_RUNNABLE, PROC_ZOMBIE
<1>1. TypeOK /\ PidsNameSlots /\ TypeOK' /\ PidsNameSlots'
  BY DEF TableInv
<1>2. state[k] = PROC_RUNNABLE /\ state' = [state EXCEPT ![k] = PROC_ZOMBIE]
  BY ZenonT(40) DEF sched_kill, Documented
<1>3. /\ PidsOf(PROC_RUNNABLE) = {i + 1 : i \in {j \in Slots : state[j] = PROC_RUNNABLE}}
      /\ PidsOf(PROC_ZOMBIE) = {i + 1 : i \in {j \in Slots : state[j] = PROC_ZOMBIE}}
      /\ PidsOf(PROC_RUNNABLE) \subseteq 1 .. PROC_MAX
  BY <1>1, MemberOfPids
<1>4. /\ PidsOf(PROC_RUNNABLE)' = {i + 1 : i \in {j \in Slots : state'[j] = PROC_RUNNABLE}}
      /\ PidsOf(PROC_ZOMBIE)' = {i + 1 : i \in {j \in Slots : state'[j] = PROC_ZOMBIE}}
  BY <1>1, MemberOfPidsNext
<1>5. {j \in Slots : state'[j] = PROC_RUNNABLE} = {j \in Slots : state[j] = PROC_RUNNABLE} \ {k}
  BY <1>1, <1>2 DEF TypeOK
<1>6. {j \in Slots : state'[j] = PROC_ZOMBIE} = {j \in Slots : state[j] = PROC_ZOMBIE} \cup {k}
  BY <1>1, <1>2 DEF TypeOK
<1>7. k + 1 \in PidsOf(PROC_RUNNABLE)
  BY <1>2, <1>3
<1>8. PidsOf(PROC_RUNNABLE)' = PidsOf(PROC_RUNNABLE) \ {k + 1}
  BY <1>3, <1>4, <1>5 DEF Slots
<1>9. PidsOf(PROC_ZOMBIE)' = PidsOf(PROC_ZOMBIE) \cup {k + 1}
  BY <1>3, <1>4, <1>6
<1>10. RunningPid # 0 /\ RunningPid' = RunningPid
  BY DEF sched_kill, ContextInv, CpuInv, RunningPid
<1>11. (mode = "panic") = FALSE /\ (mode' = "panic") = FALSE
  BY DEF sched_kill
<1>12. Abstract!Kill(k + 1)
  BY <1>7, <1>8, <1>9, <1>10, <1>11 DEF Abstract!Kill
<1> QED BY <1>3, <1>7, <1>12 DEF Abstract!Next

\* A tick is the abstract Dispatch, or nothing when nobody is runnable.
LEMMA TickSimulates ==
    ASSUME TableInv, TableInv', ContextInv, ContextInv', CpuInv, irq_timer_dispatch
    PROVE  Abstract!Next \/ UNCHANGED Abstract!vars
<1>1. UNCHANGED <<state, pid, mode>> /\ mode = "user"
  BY DEF irq_timer_dispatch
<1>2. PidsOf(PROC_RUNNABLE)' = PidsOf(PROC_RUNNABLE) /\ PidsOf(PROC_ZOMBIE)' = PidsOf(PROC_ZOMBIE)
  BY <1>1 DEF PidsOf
<1>3. CASE UNCHANGED cpu
  BY <1>1, <1>2, <1>3 DEF Abstract!vars, RunningPid
<1>4. CASE \E next \in Slots : choose_next(next, vruntime') /\ current_proc' = next
  <2> PICK next \in Slots : choose_next(next, vruntime') /\ current_proc' = next
    BY <1>4
  <2>1. state[next] = PROC_RUNNABLE
    BY DEF choose_next, choose_cfs, choose_rr, Runnable
  <2>2. RunningPid' = pid[next]
    BY <1>1, SchedAssumption DEF ContextInv, RunningPid, Slots
  <2>3. pid[next] \in PidsOf(PROC_RUNNABLE)
    BY <2>1 DEF PidsOf
  <2>4. PidsOf(PROC_RUNNABLE) \subseteq 1 .. PROC_MAX
    BY MemberOfPids DEF TableInv
  <2>5. RunningPid # 0
    BY <1>1 DEF ContextInv, CpuInv, RunningPid
  <2>6. (mode = "panic") = FALSE /\ (mode' = "panic") = FALSE
    BY <1>1
  <2>7. Abstract!Dispatch(pid[next])
    BY <1>2, <2>2, <2>3, <2>5, <2>6 DEF Abstract!Dispatch
  <2> QED BY <2>3, <2>4, <2>7 DEF Abstract!Next
<1> QED BY ZenonT(40), <1>3, <1>4 DEF irq_timer_dispatch

\* For every table size and policy, with documented use of the system calls,
\* the kernel's process table implements the abstract scheduler.
THEOREM SchedImplementsProcesses == Documented => (Spec => ImplementsProcesses)
<1> SUFFICES ASSUME Documented PROVE Spec => Abstract!Spec
  BY DEF ImplementsProcesses
<1>1. Init => Abstract!Init
  <2> SUFFICES ASSUME Init PROVE Abstract!Init
    OBVIOUS
  <2>1. PidsOf(PROC_RUNNABLE) = {} /\ PidsOf(PROC_ZOMBIE) = {}
    BY DEF Init, sched_init, PidsOf, PROC_UNUSED, PROC_RUNNABLE, PROC_ZOMBIE
  <2>2. RunningPid = 0 /\ (mode = "panic") = FALSE
    BY DEF Init, RunningPid, NoContext
  <2> QED BY <2>1, <2>2 DEF Abstract!Init
<1>2. Init => CpuInv
  BY DEF Init, CpuInv, NoContext
<1>3. /\ TableInv /\ TableInv' /\ ContextInv /\ ContextInv' /\ CpuInv
      /\ [Next]_vars
      => [Abstract!Next]_(Abstract!vars)
  <2> SUFFICES ASSUME TableInv, TableInv', ContextInv, ContextInv', CpuInv, [Next]_vars
               PROVE  Abstract!Next \/ UNCHANGED Abstract!vars
    OBVIOUS
  <2>1. CASE kmain
    BY <2>1, KmainSimulates
  <2>2. CASE Ring3Step \/ UNCHANGED vars
    BY <2>2 DEF Ring3Step, vars, Abstract!vars, PidsOf, RunningPid
  <2>3. CASE sched_fork_current
    BY <2>3, ForkSimulates
  <2>4. ASSUME NEW i \in Slots, NEW sig \in Signals, sched_kill(i, sig) PROVE Abstract!Next
    BY <2>4, KillSimulates
  <2>5. CASE SysExec
    BY <2>5 DEF SysExec, Documented
  <2>6. CASE SysExit \/ cpu_exception_handler
    BY <2>6, PanicHalts DEF SysExit, cpu_exception_handler, Abstract!Next
  <2>7. CASE irq_timer_dispatch
    BY <2>7, TickSimulates
  <2> QED BY <2>1, <2>2, <2>3, <2>4, <2>5, <2>6, <2>7 DEF Next
<1> QED BY <1>1, <1>2, <1>3, ContextInvariant, CpuStep, PTL DEF Spec, Abstract!Spec
=============================================================================
