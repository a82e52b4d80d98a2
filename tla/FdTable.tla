------------------------------ MODULE FdTable ------------------------------
(***************************************************************************)
(* The global file descriptor table and the system calls on it             *)
(* (src/cpu/syscall.c), over the root volume and the pseudo files          *)
(* (src/fs/vfs.c, src/fs/devtmpfs.c).                                      *)
(*                                                                         *)
(* The table is shared by all processes and a system call is atomic (IF is *)
(* masked), so an action is one call by any process.  A file is read into  *)
(* a kalloc'ed buffer by SYS_OPEN and written back by SYS_CLOSE.           *)
(*                                                                         *)
(* Data: a byte is tagged with the file it was written to, so that bytes   *)
(* that reach the wrong file can be told apart; the bytes of a socket      *)
(* buffer belong to no file.  A file keeps its size: the file systems do   *)
(* not extend or truncate.  A path longer than the path field of Fd is not *)
(* modelled.                                                               *)
(*                                                                         *)
(* History: the field wrote of a descriptor, which only the properties     *)
(* read, says whether a SYS_WRITE has gone into the buffer since the       *)
(* descriptor was allocated.  It is what dirty should be.                  *)
(***************************************************************************)
EXTENDS Integers, Sequences, FiniteSets

CONSTANTS
    FD_MAX,
    FsKind,          \* "FAT32", "EXFAT" or "EXT": fs_kind of the root volume
    IoFails,         \* whether block I/O may fail
    Files,           \* paths of regular files on the root volume
    FileSize,        \* their sizes
    Values,          \* the values a byte can have
    PseudoText,      \* pseudo files with a fixed text
    TextLen,         \* the length of that text
    PseudoStream,    \* /dev files that deliver any number of bytes
    PseudoUnknown,   \* paths under a pseudo mount that name nothing
    Buffers,         \* the addresses kalloc can return
    NULL,            \* the null pointer
    NoPath,          \* the empty string
    SOCK_BUF,        \* the size of a socket's buffer, 4096 in the code
    BRK_ARENA,       \* USER_BRK_ARENA_BYTES
    OffModulus,      \* 2^32 in the code: Fd.off is a uint32_t
    MaxWant          \* bound: the largest count passed to a read or a write

ASSUME FdAssumption ==
    /\ FD_MAX \in Nat \ {0}
    /\ FsKind \in {"FAT32", "EXFAT", "EXT"}
    /\ IoFails \in BOOLEAN
    /\ FileSize \in [Files -> Nat]
    /\ TextLen \in Nat
    /\ NULL \notin Buffers
    /\ NoPath \notin Files
    /\ PseudoText \cap Files = {} /\ PseudoStream \cap Files = {}
    /\ PseudoUnknown \cap Files = {}
    /\ SOCK_BUF \in Nat /\ BRK_ARENA \in Nat /\ MaxWant \in Nat
    /\ OffModulus \in Nat \ {0}

VARIABLES
    fds,         \* fds[i]
    mem,         \* the contents of the live buffers
    disk,        \* the contents of the files on the root volume
    last_errno,
    brk_end,     \* user_brk_end - user_brk_arena
    ret          \* the last call, its descriptor and what it returned

fdvars == <<fds, mem, disk, last_errno, brk_end, ret>>

Fds == 0 .. FD_MAX - 1

PseudoPaths == PseudoText \cup PseudoStream \cup PseudoUnknown

Byte == (Files \cup {NoPath}) \X Values

Fd == [used : BOOLEAN, data : Buffers \cup {NULL}, size : Nat, off : Nat,
       path : Files \cup PseudoPaths \cup {NoPath},
       is_pseudo : BOOLEAN, dirty : BOOLEAN, is_socket : BOOLEAN,
       wrote : BOOLEAN]

UnusedFd == [used |-> FALSE, data |-> NULL, size |-> 0, off |-> 0, path |-> NoPath,
             is_pseudo |-> FALSE, dirty |-> FALSE, is_socket |-> FALSE,
             wrote |-> FALSE]

Filled(path, n) == {s \in [1 .. n -> {path} \X Values] : \A k \in 1 .. n : s[k] = s[1]}

FdInit ==
    /\ fds = [i \in Fds |-> UnusedFd]
    /\ mem = [b \in {} |-> <<>>]
    /\ disk \in {d \in [Files -> UNION {Filled(f, FileSize[f]) : f \in Files}] :
                    \A f \in Files : d[f] \in Filled(f, FileSize[f])}
    /\ last_errno = 0
    /\ brk_end = 0
    /\ ret = [call |-> "boot", fd |-> -1, val |-> 0]

Smaller(a, b) == IF a < b THEN a ELSE b

\* A call returns val; syscall_handler clears last_errno before it runs, so
\* errno is what this call leaves.
Return(call, fd, val, errno) ==
    /\ ret' = [call |-> call, fd |-> fd, val |-> val]
    /\ last_errno' = errno

\* kalloc never returns null (the heap has no upper bound).
kalloc(b, content) ==
    /\ b \in Buffers \ DOMAIN mem
    /\ mem' = [x \in DOMAIN mem \cup {b} |-> IF x = b THEN content ELSE mem[x]]

kfree(b) == mem' = [x \in DOMAIN mem \ {b} |-> mem[x]]

----------------------------------------------------------------------------
(* SYS_OPEN, SYS_SOCKET, SYS_ACCEPT                                        *)

NoFreeFd == \A i \in Fds : fds[i].used

\* fd is the first free descriptor.
FirstFree(fd) ==
    /\ ~fds[fd].used
    /\ \A j \in Fds : j < fd => fds[j].used

\* Faulty variant: the path of the descriptor's last use is kept.
alloc_fd_KeepPath(fd) ==
    [fds[fd] EXCEPT !.used = TRUE, !.data = NULL, !.size = 0, !.off = 0,
                    !.is_pseudo = FALSE, !.is_socket = FALSE, !.wrote = FALSE]

\* Faulty variant: the offset of the descriptor's last use is kept.
alloc_fd_KeepOff(fd) ==
    [fds[fd] EXCEPT !.used = TRUE, !.data = NULL, !.size = 0,
                    !.is_pseudo = FALSE, !.is_socket = FALSE, !.path = NoPath,
                    !.wrote = FALSE]

\* The entry as alloc_fd leaves it; dirty keeps the value of the last use.
alloc_fd(fd) ==
    [fds[fd] EXCEPT !.used = TRUE, !.data = NULL, !.size = 0, !.off = 0,
                    !.is_pseudo = FALSE, !.is_socket = FALSE, !.path = NoPath,
                    !.wrote = FALSE]

open_pseudo(fd, path) ==
    /\ path \in PseudoPaths
    /\ fds' = [fds EXCEPT ![fd] =
                 [alloc_fd(fd) EXCEPT !.is_pseudo = TRUE, !.dirty = FALSE, !.path = path]]
    /\ Return("open", fd, fd, 0)
    /\ UNCHANGED mem

\* No such file, a directory, or a read error after the buffer was allocated
\* (read_file_into_mem frees it again).
open_fails(fd, path) ==
    /\ IoFails \/ path \notin Files
    /\ path \notin PseudoPaths
    /\ fds' = [fds EXCEPT ![fd] =
                 [alloc_fd(fd) EXCEPT !.used = FALSE, !.dirty = FALSE, !.path = path]]
    /\ Return("open", fd, -1, 4)
    /\ UNCHANGED mem

\* Faulty variant: dirty keeps the value of the descriptor's last use.
open_file_KeepDirty(fd, path) ==
    /\ path \in Files
    /\ \E b \in Buffers :
          /\ kalloc(b, disk[path])
          /\ fds' = [fds EXCEPT ![fd] =
                       [alloc_fd(fd) EXCEPT !.path = path, !.data = b,
                                            !.size = Len(disk[path]), !.off = 0]]
    /\ Return("open", fd, fd, 0)

\* read_file_into_mem returned a buffer with the whole file.
open_file(fd, path) ==
    /\ path \in Files
    /\ \E b \in Buffers :
          /\ kalloc(b, disk[path])
          /\ fds' = [fds EXCEPT ![fd] =
                       [alloc_fd(fd) EXCEPT !.dirty = FALSE, !.path = path, !.data = b,
                                            !.size = Len(disk[path]), !.off = 0]]
    /\ Return("open", fd, fd, 0)

SysOpen(path) ==
    /\ \/ NoFreeFd /\ Return("open", -1, -1, 3) /\ UNCHANGED <<fds, mem>>
       \/ \E fd \in Fds :
             /\ FirstFree(fd)
             /\ open_pseudo(fd, path) \/ open_fails(fd, path) \/ open_file(fd, path)
    /\ UNCHANGED <<disk, brk_end>>

\* The part SYS_SOCKET and SYS_ACCEPT share: a descriptor with a buffer of
\* uninitialised bytes.
new_socket(call) ==
    \/ NoFreeFd /\ Return(call, -1, -1, 20) /\ UNCHANGED <<fds, mem>>
    \/ \E fd \in Fds, b \in Buffers, junk \in Filled(NoPath, SOCK_BUF) :
          /\ FirstFree(fd)
          /\ kalloc(b, junk)
          /\ fds' = [fds EXCEPT ![fd] =
                       [alloc_fd(fd) EXCEPT !.is_socket = TRUE, !.data = b, !.size = SOCK_BUF]]
          /\ Return(call, fd, fd, 0)

SysSocket == new_socket("socket") /\ UNCHANGED <<disk, brk_end>>

IsSocket(fd) == fd \in Fds /\ fds[fd].used /\ fds[fd].is_socket

SysAccept(fd) ==
    /\ \/ IsSocket(fd) /\ new_socket("accept")
       \/ ~IsSocket(fd) /\ Return("accept", fd, -1, 23) /\ UNCHANGED <<fds, mem>>
    /\ UNCHANGED <<disk, brk_end>>

\* SYS_BIND, SYS_LISTEN, SYS_CONNECT, SYS_SEND and SYS_RECV check the
\* descriptor and change nothing here; SYS_SEND hands the bytes to the network
\* device and fails without an error code if there is none.
SysSocketOp(fd) ==
    /\ \/ IsSocket(fd) /\ \E val \in {0, -1} : Return("socketop", fd, val, 0)
       \/ ~IsSocket(fd) /\ \E errno \in {21, 22, 24, 25, 26} : Return("socketop", fd, -1, errno)
    /\ UNCHANGED <<fds, mem, disk, brk_end>>

----------------------------------------------------------------------------
(* SYS_READ, SYS_WRITE                                                     *)

Valid(fd) == fd \in Fds /\ fds[fd].used

pseudo_copy(off, want) == IF off >= TextLen THEN 0 ELSE Smaller(TextLen - off, want)

\* /dev/zero and the random devices deliver all that is asked for, /dev/kbd and
\* /dev/mouse what the PS/2 controller has.
devtmpfs_pread(want) == 0 .. want

\* The counts a read of a pseudo file can deliver; -1 is an error.
vfs_pseudo_pread(path, off, want) ==
    IF path \in PseudoText THEN {pseudo_copy(off, want)}
    ELSE IF path \in PseudoStream THEN devtmpfs_pread(want)
    ELSE {-1}

read_pseudo(fd, want) ==
    /\ fds[fd].is_pseudo
    /\ \E got \in vfs_pseudo_pread(fds[fd].path, fds[fd].off, want) :
          \/ /\ got = -1
             /\ Return("read", fd, -1, 1)
             /\ UNCHANGED fds
          \/ /\ got >= 0
             /\ fds' = [fds EXCEPT ![fd].off = (@ + got) % OffModulus]
             /\ Return("read", fd, got, 0)

Take(fd, want) ==
    IF fds[fd].off >= fds[fd].size THEN 0 ELSE Smaller(fds[fd].size - fds[fd].off, want)

read_buffer(fd, want) ==
    /\ ~fds[fd].is_pseudo
    /\ fds' = [fds EXCEPT ![fd].off = @ + Take(fd, want)]
    /\ Return("read", fd, Take(fd, want), 0)

SysRead(fd, want) ==
    /\ \/ Valid(fd) /\ (read_pseudo(fd, want) \/ read_buffer(fd, want))
       \/ ~Valid(fd) /\ Return("read", fd, -1, 2) /\ UNCHANGED fds
    /\ UNCHANGED <<mem, disk, brk_end>>

Owner(fd) == IF fds[fd].is_socket THEN NoPath ELSE fds[fd].path

Overwrite(old, off, n, byte) ==
    [k \in 1 .. Len(old) |-> IF off < k /\ k <= off + n THEN byte ELSE old[k]]

write_buffer(fd, want, v) ==
    /\ ~fds[fd].is_pseudo
    /\ fds[fd].data # NULL
    /\ \/ /\ fds[fd].off >= fds[fd].size
          /\ Return("write", fd, 0, 0)
          /\ UNCHANGED <<fds, mem>>
       \/ /\ fds[fd].off < fds[fd].size
          /\ mem' = [mem EXCEPT ![fds[fd].data] =
                        Overwrite(@, fds[fd].off, Take(fd, want), <<Owner(fd), v>>)]
          /\ fds' = [fds EXCEPT ![fd].off = @ + Take(fd, want), ![fd].dirty = TRUE,
                                ![fd].wrote = TRUE]
          /\ Return("write", fd, Take(fd, want), 0)

write_refused(fd) ==
    /\ \/ fds[fd].is_pseudo /\ Return("write", fd, -1, 8)
       \/ ~fds[fd].is_pseudo /\ fds[fd].data = NULL /\ Return("write", fd, -1, 9)
    /\ UNCHANGED <<fds, mem>>

SysWrite(fd, want, v) ==
    /\ \/ Valid(fd) /\ (write_buffer(fd, want, v) \/ write_refused(fd))
       \/ /\ ~Valid(fd)
          /\ \/ fd \in {1, 2} /\ Return("write", fd, 0, 0)     \* kprint
             \/ fd \notin {1, 2} /\ Return("write", fd, -1, 10)
          /\ UNCHANGED <<fds, mem>>
    /\ UNCHANGED <<disk, brk_end>>

----------------------------------------------------------------------------
(* SYS_CLOSE                                                               *)

\* extfs_write_file and exfat_write_file overwrite block by block and stop at
\* the first error; there is no branch for a FAT32 root.  wr is their result.
flush(path, buf, wr) ==
    \/ /\ FsKind = "FAT32"
       /\ wr = -1
       /\ UNCHANGED disk
    \/ /\ FsKind # "FAT32"
       /\ wr = 0
       /\ disk' = [disk EXCEPT ![path] = buf]
    \/ /\ FsKind # "FAT32"
       /\ IoFails
       /\ wr = -1
       /\ \E n \in 0 .. Len(buf) :
             disk' = [disk EXCEPT ![path] =
                         [k \in 1 .. Len(buf) |-> IF k <= n THEN buf[k] ELSE @[k]]]

MustFlush(fd) == fds[fd].dirty /\ fds[fd].path # NoPath

\* Faulty variant: the buffer of a clean descriptor is not released.
close_buffer_FreeDirty(fd) ==
    /\ ~fds[fd].is_pseudo /\ fds[fd].data # NULL
    /\ \E wr \in {0, -1} :
          /\ IF MustFlush(fd) THEN flush(fds[fd].path, mem[fds[fd].data], wr)
                              ELSE wr = 0 /\ UNCHANGED disk
          /\ Return("close", fd, 0, IF wr = 0 THEN 0 ELSE 11)
    /\ IF fds[fd].dirty THEN kfree(fds[fd].data) ELSE UNCHANGED mem

close_buffer(fd) ==
    /\ ~fds[fd].is_pseudo /\ fds[fd].data # NULL
    /\ \E wr \in {0, -1} :
          /\ IF MustFlush(fd) THEN flush(fds[fd].path, mem[fds[fd].data], wr)
                              ELSE wr = 0 /\ UNCHANGED disk
          /\ Return("close", fd, 0, IF wr = 0 THEN 0 ELSE 11)
    /\ kfree(fds[fd].data)

close_nothing(fd) ==
    /\ fds[fd].is_pseudo \/ fds[fd].data = NULL
    /\ Return("close", fd, 0, 0)
    /\ UNCHANGED <<mem, disk>>

SysClose(fd) ==
    /\ \/ /\ Valid(fd)
          /\ close_buffer(fd) \/ close_nothing(fd)
          /\ fds' = [fds EXCEPT ![fd].used = FALSE]
       \/ ~Valid(fd) /\ Return("close", fd, -1, 5) /\ UNCHANGED <<fds, mem, disk>>
    /\ UNCHANGED brk_end

----------------------------------------------------------------------------
(* The remaining calls that touch this module's state.                     *)

\* last_errno is cleared before the case that returns it.
SysErrno ==
    /\ Return("errno", -1, 0, 0)
    /\ UNCHANGED <<fds, mem, disk, brk_end>>

\* Faulty variant: one byte past the arena is accepted.
handle_brk_PastEnd(addr) ==
    /\ \/ addr \in 0 .. BRK_ARENA + 1 /\ brk_end' = addr /\ Return("brk", -1, addr, 0)
       \/ addr \notin 0 .. BRK_ARENA + 1 /\ Return("brk", -1, -1, 0) /\ UNCHANGED brk_end
    /\ UNCHANGED <<fds, mem, disk>>

\* addr is relative to the arena; SYS_BRK with the null address (a query) is
\* the stuttering step that returns brk_end.
handle_brk(addr) ==
    /\ \/ addr \in 0 .. BRK_ARENA /\ brk_end' = addr /\ Return("brk", -1, addr, 0)
       \/ addr \notin 0 .. BRK_ARENA /\ Return("brk", -1, -1, 0) /\ UNCHANGED brk_end
    /\ UNCHANGED <<fds, mem, disk>>

\* SYS_GETADDRINFO always fails; an unknown number fails without an error code.
SysOther ==
    /\ \E errno \in {0, 27} : Return("other", -1, -1, errno)
    /\ UNCHANGED <<fds, mem, disk, brk_end>>

\* Descriptor arguments: valid ones, 1 and 2, and one out of range.
FdArgs == Fds \cup {1, 2, FD_MAX}

FdNext ==
    \/ \E path \in Files \cup PseudoPaths \cup {NoPath} : SysOpen(path)
    \/ SysSocket
    \/ \E fd \in FdArgs : SysAccept(fd) \/ SysSocketOp(fd) \/ SysClose(fd)
    \/ \E fd \in FdArgs, want \in 0 .. MaxWant : SysRead(fd, want)
    \/ \E fd \in FdArgs, want \in 0 .. MaxWant, v \in Values : SysWrite(fd, want, v)
    \/ SysErrno
    \/ \E addr \in -1 .. BRK_ARENA + 1 : handle_brk(addr)
    \/ SysOther

FdSpec == FdInit /\ [][FdNext]_fdvars

----------------------------------------------------------------------------
(* Properties.                                                             *)

\* Every variable has its type; the break stays inside the arena.
FdTypeOK ==
    /\ fds \in [Fds -> Fd]
    /\ DOMAIN mem \subseteq Buffers
    /\ \A b \in DOMAIN mem : mem[b] \in Seq(Byte)
    /\ disk \in [Files -> Seq(Byte)]
    /\ last_errno \in 0 .. 27
    /\ brk_end \in 0 .. BRK_ARENA

HoldsBuffer(i) == fds[i].used /\ ~fds[i].is_pseudo

\* The live buffers are exactly the ones the open descriptors hold, each held
\* by one descriptor: no sequence of opens, failed opens, sockets and closes
\* leaks a buffer, frees one twice or lets two descriptors share one.
HeapIsOwned ==
    /\ \A i \in Fds : HoldsBuffer(i) => fds[i].data \in DOMAIN mem
    /\ \A i, j \in Fds :
          HoldsBuffer(i) /\ HoldsBuffer(j) /\ fds[i].data = fds[j].data => i = j
    /\ \A b \in DOMAIN mem : \E i \in Fds : HoldsBuffer(i) /\ fds[i].data = b

\* SYS_READ and SYS_WRITE never index outside the buffer: the offset of an
\* open descriptor stays within the size it recorded, which is the length of
\* the buffer it holds now, however the descriptor was used before.
OffsetsInBuffer ==
    \A i \in Fds : HoldsBuffer(i) =>
        /\ fds[i].data \in DOMAIN mem
        /\ fds[i].size = Len(mem[fds[i].data])
        /\ fds[i].off <= fds[i].size

\* A file on the root volume only ever holds bytes that were written to it:
\* no reuse of a descriptor, by a socket or another file, flushes foreign
\* bytes into it, and a failed flush leaves a mix of its own bytes.
FilesKeepTheirBytes ==
    \A f \in Files :
        /\ Len(disk[f]) = FileSize[f]
        /\ \A k \in 1 .. Len(disk[f]) : disk[f][k][1] = f

Closes(fd) == ret'.call = "close" /\ ret'.fd = fd /\ ret'.val = 0

\* "The dirty buffer is flushed on close": when SYS_CLOSE returns 0 for a
\* descriptor whose file was written, the volume holds the buffer.
CloseFlushes ==
    [][\A fd \in Fds :
          Closes(fd) /\ fds[fd].used /\ MustFlush(fd)
             => disk'[fds[fd].path] = mem[fds[fd].data]]_fdvars

\* What a flush of buf that stops behind its n-th byte leaves of the file old.
FlushedUpTo(n, buf, old) ==
    [k \in 1 .. Len(old) |-> IF k <= n THEN buf[k] ELSE old[k]]

\* Closing stores what was written through the descriptor, and only that.
\* A file changes only when a descriptor is closed through which it was
\* written since this open: the copy of a process that only read never undoes
\* what another one has stored, however the descriptor was used before.  The
\* file then holds the buffer, up to some byte if a block access failed.  If
\* none failed (flush returned 0), a written buffer is stored whole.
\* Nobody outside the kernel can tell the two outcomes apart: SYS_CLOSE
\* returns 0 in both, and SYS_ERRNO clears last_errno before returning it.
OnlyWritersFlush ==
    [][/\ \A f \in Files :
             disk'[f] # disk[f] =>
                \E fd \in Fds :
                   /\ Closes(fd) /\ HoldsBuffer(fd) /\ fds[fd].wrote /\ fds[fd].path = f
                   /\ \E n \in 0 .. Len(disk[f]) :
                         disk'[f] = FlushedUpTo(n, mem[fds[fd].data], disk[f])
       /\ \A fd \in Fds :
             /\ Closes(fd) /\ HoldsBuffer(fd) /\ fds[fd].wrote /\ ~fds[fd].is_socket
             /\ last_errno' = 0
             => disk'[fds[fd].path] = mem[fds[fd].data]]_fdvars
============================================================================
