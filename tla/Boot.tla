-------------------------------- MODULE Boot --------------------------------
(***************************************************************************)
(* Booting (src/main.c, src/storage.c): the xHCI ports are enumerated (the *)
(* Xhci module), the IDE and SATA drives are detected, the first file      *)
(* system found becomes the root volume and is checked, the storage        *)
(* self-tests run (src/tests/storage_tests.c), and init is loaded          *)
(* (src/programs/elf.c) and entered.                                       *)
(*                                                                         *)
(* A machine is chosen at the start.  Its controllers are PCI functions    *)
(* (the Pci module), and a controller that is not found has no ports.      *)
(* Every access to a drive may fail, and the two waits of the AHCI driver  *)
(* that have no limit may never end.                                       *)
(* An operation on a volume (mount, lookup, read) is one step here, which  *)
(* fails as a whole if one of its accesses does; its loop is the Volume    *)
(* module's subject.  What is on a drive is abstracted to what the boot    *)
(* code tells apart:                                                       *)
(*   drive: kind ("none", "disk", "atapi"), sig (sector 0 ends in 55 AA),  *)
(*          parts (the partition table), whole (the volume at sector 0);   *)
(*   partition: type ("empty", "fat32", "fat16", "other") and its volume:  *)
(*          fs, sig (its first sector ends in 55 AA), fhs (the root holds  *)
(*          BOOT, BIN, USR and LIB), coarse (clusters of more than 8       *)
(*          sectors), files (by path);                                     *)
(*   file:  kind ("dir", "empty", "huge" for one above 16 MiB, "junk",     *)
(*          "elf", or "interp" for a script or a program that names an     *)
(*          interpreter) and its interpreter.                              *)
(***************************************************************************)
EXTENDS Xhci, Pci, FiniteSets

CONSTANTS
    Machines,           \* pci: the PCI functions; ports: connected USB ports; ide: four
                        \* drives; sata: drives
    AHCI_MAX_DEVICES,   \* 8 in the code
    StorageTests,       \* CONFIG_STORAGE_TESTS
    MaxFaults           \* bound: accesses and allocations that fail

IsSequence(s) == s \in Seq({s[i] : i \in DOMAIN s})

\* A drive has a table of partitions; mount_first_fs takes a whole disk as type 0.
IsDrive(d) == IsSequence(d.parts) /\ d.whole.type = "empty"

ASSUME BootAssumption ==
    /\ AHCI_MAX_DEVICES \in Nat
    /\ StorageTests \in BOOLEAN
    /\ MaxFaults \in Nat
    /\ \A m \in Machines :
          /\ DOMAIN m.pci \subseteq Address
          /\ m.ports \in Seq(Nat \ {0}) /\ Len(m.ports) < CMD_RING_TRBS
          /\ Len(m.ide) = 4 /\ \A u \in 1 .. 4 : IsDrive(m.ide[u])
          /\ IsSequence(m.sata) /\ \A p \in DOMAIN m.sata : IsDrive(m.sata[p])

VARIABLES
    machine,
    phase,     \* where kmain is; "hung" in a wait that never ends
    unit,      \* the IDE unit ide_init probes next
    found,     \* ide and ahci: the drives found, in order
    bus,       \* sel: the unit selected on an IDE channel; err: units whose status
               \* shows ERR; stopped: SATA ports stopped by a task file error
    queue,     \* the drives that are left to mount from
    todo,      \* the mounts that are left to try on the first of them
    root,      \* root_volume: drive, partition and fs_kind; <<>> before the mount
    inits,     \* the init paths that are left to try
    load,      \* elf_load_and_run_inner: pc, path, argv1, and the path it began with
    buffers,   \* ELF buffers allocated and not freed
    faults,    \* failures injected
    failed     \* history: an access or an allocation has failed

bvars == <<machine, phase, unit, found, bus, queue, todo, root, inits, load, buffers,
           faults, failed>>

vars == <<xvars, bvars>>

Units == 1 .. 4

Channel(u) == (u - 1) \div 2

Drive(d) == IF d[1] = "ide" THEN machine.ide[d[2]] ELSE machine.sata[d[2]]

\* The paths kmain tries; the third is the first again unless CONFIG_INIT_PATH differs.
InitPaths == <<"/sbin/init", "/INIT", "/sbin/init">>

Idle == [pc |-> "idle", path |-> "", argv1 |-> "", began |-> ""]

Init ==
    /\ machine \in Machines
    /\ XhciInit(machine.ports)
    /\ phase = "xhci"
    /\ unit = 1
    /\ found = [ide |-> <<>>, ahci |-> <<>>]
    /\ bus = [sel |-> [c \in 0 .. 1 |-> 2 * c + 1], err |-> {}, stopped |-> {}]
    /\ queue = <<>> /\ todo = <<>> /\ root = <<>>
    /\ inits = InitPaths
    /\ load = Idle
    /\ buffers = 0
    /\ faults = 0
    /\ failed = FALSE

----------------------------------------------------------------------------
(* Drives.                                                                 *)

Outcome(ok, b, cost) == [ok |-> ok, bus |-> b, cost |-> cost]

\* The drive register of a channel takes a unit.
Select(b, u) == [b EXCEPT !.sel[Channel(u)] = u]

\* ide_read: the status that is waited on first is that of the unit selected last,
\* and ERR stays up until that unit gets a command; so after an error the channel's
\* accesses fail before they select a unit.  Else the unit is selected and given
\* the command, which may time out or set ERR.
ide_read(u) ==
    LET c == Channel(u)
        b == [Select(bus, u) EXCEPT !.err = @ \ {u}]
    IN  IF bus.sel[c] \in bus.err
        THEN {Outcome(FALSE, bus, 0)}
        ELSE {Outcome(TRUE, b, 0), Outcome(FALSE, bus, 1), Outcome(FALSE, b, 1),
              Outcome(FALSE, [b EXCEPT !.err = @ \cup {u}], 1)}

\* ahci_transfer, when it returns: it succeeds, the port stays busy, or it reports
\* a task file error, which stops it.  Nothing restarts a port, so no transfer on a
\* stopped one returns (ahci_waits).
ahci_transfer(p) ==
    IF p \in bus.stopped
    THEN {}
    ELSE {Outcome(TRUE, bus, 0), Outcome(FALSE, bus, 1),
          Outcome(FALSE, [bus EXCEPT !.stopped = @ \cup {p}], 1)}

\* block_read, or an operation of several block_reads, on a drive.
Access(d, ok) ==
    \E o \in IF d[1] = "ide" THEN ide_read(d[2]) ELSE ahci_transfer(d[2]) :
        /\ o.ok = ok
        /\ faults + o.cost <= MaxFaults
        /\ bus' = o.bus
        /\ faults' = faults + o.cost
        /\ failed' = (failed \/ ~ok)

\* xhci_init looks for its controller, and returns if there is none or its
\* base address is 0.
XhciProbe ==
    LET at == pci_find_class(machine.pci, "usb", "xhci")
    IN  /\ phase = "xhci"
        /\ phase' = IF at # <<>> /\ pci_bar(machine.pci[at[1]]) # 0 THEN "usb" ELSE "ide"
        /\ UNCHANGED <<machine, unit, found, bus, queue, todo, root, inits, load, buffers,
                       faults, failed>>

\* xhci_init has returned.
UsbDone ==
    /\ phase = "usb" /\ XhciDone
    /\ phase' = "ide"
    /\ UNCHANGED <<machine, unit, found, bus, queue, todo, root, inits, load, buffers,
                   faults, failed>>

NextUnit ==
    /\ unit' = unit + 1
    /\ phase' = IF unit = 4 THEN "ahci" ELSE "ide"
    /\ UNCHANGED <<machine, queue, todo, root, inits, load, buffers>>

\* ide_identify fails: no unit, a unit that is not a disk and aborts the command,
\* or a disk that times out or reports an error.
IdeAbsent ==
    /\ phase = "ide"
    /\ LET kind == machine.ide[unit].kind
           b == Select(bus, unit)
           error == [b EXCEPT !.err = @ \cup {unit}]
       IN  \/ kind = "none" /\ bus' = b /\ UNCHANGED <<faults, failed>>
           \/ kind = "atapi" /\ bus' = error /\ UNCHANGED <<faults, failed>>
           \/ /\ kind = "disk" /\ faults < MaxFaults
              /\ bus' \in {b, error}
              /\ faults' = faults + 1
              /\ failed' = TRUE
    /\ NextUnit
    /\ UNCHANGED found

\* ide_init finds a disk.
IdeFound ==
    /\ phase = "ide" /\ machine.ide[unit].kind = "disk"
    /\ bus' = Select(bus, unit)
    /\ found' = [found EXCEPT !.ide = Append(@, <<"ide", unit>>)]
    /\ NextUnit
    /\ UNCHANGED <<faults, failed>>

port_is_sata(drive) == drive.kind = "disk"

\* The elements of a sequence at the positions of a set, in order.
Kept(s, keep) ==
    LET upto[n \in 0 .. Len(s)] ==
          IF n = 0 THEN <<>>
          ELSE IF n \in keep THEN Append(upto[n - 1], s[n]) ELSE upto[n - 1]
    IN  upto[Len(s)]

\* The SATA ports with a disk, in order.
SataPorts ==
    Kept([p \in DOMAIN machine.sata |-> <<"ahci", p>>],
         {p \in DOMAIN machine.sata : port_is_sata(machine.sata[p])})

\* Faulty variant: the table's size is not checked.
SataDisks_NoLimit == SataPorts

\* They are found up to the table's size.
SataDisks ==
    SubSeq(SataPorts, 1,
           IF Len(SataPorts) < AHCI_MAX_DEVICES THEN Len(SataPorts) ELSE AHCI_MAX_DEVICES)

\* Faulty variant: the IDE drives come first.
MountOrder_IdeFirst(ide, ahci) == ide \o ahci

MountOrder(ide, ahci) == ahci \o ide

\* There is a controller, and its BAR5 is not 0.
AhciPresent ==
    LET at == pci_find_class(machine.pci, "storage", "ahci")
    IN  at # <<>> /\ machine.pci[at[1]].lo \div 16 # 0

\* ahci_init, with a controller whose BAR5 is not 0 or without one, and the check
\* that there is a drive.
ahci_init ==
    LET disks == IF AhciPresent THEN SataDisks ELSE <<>>
    IN
    /\ phase = "ahci"
    /\ found' = [found EXCEPT !.ahci = disks]
    /\ queue' = MountOrder(found.ide, disks)
    /\ phase' = IF queue' = <<>> THEN "panic" ELSE "scan"
    /\ UNCHANGED <<machine, unit, bus, todo, root, inits, load, buffers, faults, failed>>

\* kmain stays in a wait that has no limit.
Hang ==
    /\ phase' = "hung"
    /\ failed' = TRUE
    /\ UNCHANGED <<machine, unit, found, bus, queue, todo, root, inits, load, buffers>>

\* start_port, called by ahci_init for each port it enters in the table, waits
\* without a limit for the port's command engine, although stop_port gave up
\* waiting for it.
start_port ==
    /\ phase = "ahci"
    /\ AhciPresent /\ SataDisks # <<>>
    /\ faults < MaxFaults
    /\ faults' = faults + 1
    /\ Hang

----------------------------------------------------------------------------
(* The root volume.                                                        *)

\* partition_scan_mbr on a sector 0 that was read.
partition_scan_mbr(drive) ==
    IF drive.sig
    THEN Kept(drive.parts, {i \in DOMAIN drive.parts : drive.parts[i].type # "empty"})
    ELSE <<>>

partition_is_fat32(part) == part.type = "fat32"

partition_is_fat(part) == part.type \in {"fat32", "fat16"}

\* The boot sector ends in 55 AA and describes a FAT of any width, in a partition
\* of a FAT type.
fat32_mount(part) ==
    partition_is_fat(part) /\ part.sig /\ part.fs \in {"fat12", "fat16", "fat32"}

exfat_probe_boot(part) == part.sig /\ part.fs = "exfat"

\* A volume of kind "exfat" has a geometry that exfat_mount supports.
exfat_mount(part) == exfat_probe_boot(part)

\* extfs_probe wants the superblock's magic, extfs_mount supported features.
extfs_mount(part) == part.fs = "ext"

Mounts(fs, part) ==
    CASE fs = "fat" -> fat32_mount(part)
      [] fs = "exfat" -> exfat_mount(part)
      [] fs = "ext" -> extfs_mount(part)

\* mount_first_fs: FAT on the partitions of a FAT type, then exFAT on all of them,
\* then ext.  With no partition the whole disk is tried, as type 0.
MountAttempts(parts, whole) ==
    LET ps == IF parts = <<>> THEN <<whole>> ELSE parts
        try(fs) == [i \in DOMAIN ps |-> [fs |-> fs, part |-> ps[i]]]
    IN  Kept(try("fat"), {i \in DOMAIN ps : partition_is_fat(ps[i])}) \o try("exfat") \o try("ext")

ScanDrive ==
    LET d == Head(queue)
    IN  /\ phase = "scan"
        /\ \E ok \in BOOLEAN :
            /\ Access(d, ok)
            /\ todo' = MountAttempts(IF ok THEN partition_scan_mbr(Drive(d)) ELSE <<>>,
                                     Drive(d).whole)
        /\ phase' = "mount"
        /\ UNCHANGED <<machine, unit, found, queue, root, inits, load, buffers>>

\* One mount attempt; after the last one the next drive, and after the last drive
\* there is no root.
TryMount ==
    /\ phase = "mount"
    /\ \E ok \in BOOLEAN :
        /\ Access(Head(queue), ok)
        /\ IF ok /\ Mounts(Head(todo).fs, Head(todo).part)
           THEN /\ root' = [drive |-> Head(queue), fs |-> Head(todo).fs,
                            part |-> Head(todo).part]
                /\ phase' = "fhs"
                /\ UNCHANGED <<todo, queue>>
           ELSE /\ todo' = Tail(todo)
                /\ queue' = IF todo' = <<>> THEN Tail(queue) ELSE queue
                /\ phase' = IF todo' # <<>> THEN "mount"
                            ELSE IF queue' # <<>> THEN "scan" ELSE "panic"
                /\ UNCHANGED root
    /\ UNCHANGED <<machine, unit, found, inits, load, buffers>>

\* A check of the root: an access to the drive, then the condition, or a panic.
Check(at, drive, condition, next) ==
    /\ phase = at
    /\ \E ok \in BOOLEAN :
        /\ Access(drive, ok)
        /\ phase' = IF ok /\ condition THEN next ELSE "panic"
    /\ UNCHANGED <<machine, unit, found, queue, todo, root, inits, load, buffers>>

\* The lookups of the directories in the root: on a volume with more than 8 sectors
\* per cluster, which fat32_mount accepts, the FAT driver lists nothing.
fhs_dirs_exist(part) == part.fhs /\ ~(part.fs \in {"fat12", "fat16", "fat32"} /\ part.coarse)

validate_fhs ==
    Check("fhs", root.drive, fhs_dirs_exist(root.part), IF StorageTests THEN "test_block" ELSE "init")

\* Both controllers have drives: sector 0 of the first of each is read.
Dual == found.ide # <<>> /\ found.ahci # <<>>

\* Faulty variant: FAT is compared like the other kinds.
TestedAs_ByKind(r) == r.part.fs = r.fs

\* The volume that was mounted is read again as what it was mounted as.
TestedAs(r) == IF r.fs = "fat" THEN partition_is_fat32(r.part) ELSE Mounts(r.fs, r.part)

\* storage_tests_run: every expect() that fails is a panic.
storage_tests_run ==
    \/ Check("test_block", root.drive, root.part.sig, "test_mbr")
    \/ Check("test_mbr", root.drive, partition_scan_mbr(Drive(root.drive)) # <<>>, "test_fs")
    \/ Check("test_fs", root.drive, TestedAs(root) /\ fhs_dirs_exist(root.part),
             IF Dual THEN "test_ide" ELSE "init")
    \/ Check("test_ide", Head(found.ide), TRUE, "test_ahci")
    \/ Check("test_ahci", Head(found.ahci),
             Drive(Head(found.ide)).sig /\ Drive(Head(found.ahci)).sig, "init")

----------------------------------------------------------------------------
(* The loader.                                                             *)

Files == root.part.files

\* elf_load_and_run(_inner) returns -1: kmain tries its next path.
GiveUp == load' = Idle

\* Faulty variant: a path that failed is tried again.
NextInit_Retries ==
    /\ phase = "init" /\ load.pc = "idle"
    /\ load' = [pc |-> "stat", path |-> Head(inits), argv1 |-> "", began |-> Head(inits)]
    /\ UNCHANGED <<machine, phase, unit, found, bus, queue, todo, root, inits, buffers,
                   faults, failed>>

\* kmain calls elf_load_and_run with its next path, or panics.
NextInit ==
    /\ phase = "init" /\ load.pc = "idle"
    /\ IF inits = <<>>
       THEN phase' = "panic" /\ UNCHANGED <<inits, load>>
       ELSE /\ load' = [pc |-> "stat", path |-> Head(inits), argv1 |-> "",
                        began |-> Head(inits)]
            /\ inits' = Tail(inits)
            /\ UNCHANGED phase
    /\ UNCHANGED <<machine, unit, found, bus, queue, todo, root, buffers, faults, failed>>

\* The path is looked up; a directory, an empty file or one above 16 MiB is refused.
ElfStat ==
    /\ phase = "init" /\ load.pc = "stat"
    /\ \E ok \in BOOLEAN :
        /\ Access(root.drive, ok)
        /\ IF ok /\ load.path \in DOMAIN Files /\ Files[load.path].kind \notin {"dir", "empty", "huge"}
           THEN load' = [load EXCEPT !.pc = "alloc"]
           ELSE GiveUp
    /\ UNCHANGED <<machine, phase, unit, found, queue, todo, root, inits, buffers>>

\* kalloc of the file's size.
ElfAlloc ==
    /\ phase = "init" /\ load.pc = "alloc"
    /\ \/ /\ load' = [load EXCEPT !.pc = "read"]
          /\ buffers' = buffers + 1
          /\ UNCHANGED <<faults, failed>>
       \/ /\ faults < MaxFaults
          /\ faults' = faults + 1 /\ failed' = TRUE
          /\ GiveUp
          /\ UNCHANGED buffers
    /\ UNCHANGED <<machine, phase, unit, found, bus, queue, todo, root, inits>>

\* Faulty variant: a failed read returns without freeing the buffer.
ElfRead_Leaks ==
    /\ phase = "init" /\ load.pc = "read"
    /\ \E ok \in BOOLEAN :
        /\ Access(root.drive, ok)
        /\ IF ok THEN load' = [load EXCEPT !.pc = "parse"] ELSE GiveUp
    /\ UNCHANGED <<machine, phase, unit, found, queue, todo, root, inits, buffers>>

\* The whole file must arrive; else the buffer is freed.
ElfRead ==
    /\ phase = "init" /\ load.pc = "read"
    /\ \E ok \in BOOLEAN :
        /\ Access(root.drive, ok)
        /\ IF ok
           THEN load' = [load EXCEPT !.pc = "parse"] /\ UNCHANGED buffers
           ELSE GiveUp /\ buffers' = buffers - 1
    /\ UNCHANGED <<machine, phase, unit, found, queue, todo, root, inits>>

\* The call for the interpreter of a script (#!) or of a program (PT_INTERP).
Interpreter == [load EXCEPT !.pc = "stat", !.path = Files[load.path].interp,
                            !.argv1 = load.path]

\* Faulty variant: the ELF magic is not checked.
ElfParse_NoMagic ==
    /\ phase = "init" /\ load.pc = "parse"
    /\ buffers' = buffers - 1
    /\ IF Files[load.path].kind = "interp"
       THEN load' = Interpreter /\ UNCHANGED phase
       ELSE phase' = "user" /\ UNCHANGED load
    /\ UNCHANGED <<machine, unit, found, bus, queue, todo, root, inits, faults, failed>>

\* The buffer is freed on every way out: for the interpreter, for a file that is
\* no program, and before ring 3 is entered.
ElfParse ==
    /\ phase = "init" /\ load.pc = "parse"
    /\ buffers' = buffers - 1
    /\ CASE Files[load.path].kind = "interp" -> load' = Interpreter /\ UNCHANGED phase
         [] Files[load.path].kind = "elf" -> phase' = "user" /\ UNCHANGED load
         [] OTHER -> GiveUp /\ UNCHANGED phase
    /\ UNCHANGED <<machine, unit, found, bus, queue, todo, root, inits, faults, failed>>

----------------------------------------------------------------------------
\* The code that accesses a drive next, and the drive.
Accessing ==
    \/ phase \in {"scan", "mount", "fhs", "test_block", "test_mbr", "test_fs", "test_ide", "test_ahci"}
    \/ phase = "init" /\ load.pc \in {"stat", "read"}

Accessed ==
    CASE phase \in {"scan", "mount"} -> Head(queue)
      [] phase = "test_ide" -> Head(found.ide)
      [] phase = "test_ahci" -> Head(found.ahci)
      [] OTHER -> root.drive

\* The loop of ahci_transfer that waits for PxCI never ends: the port is stopped, or
\* this command neither completes nor sets the task file error bit.
ahci_waits ==
    /\ Accessing /\ Accessed[1] = "ahci"
    /\ \/ Accessed[2] \in bus.stopped /\ UNCHANGED faults
       \/ faults < MaxFaults /\ faults' = faults + 1
    /\ Hang

kmain ==
    \/ XhciProbe
    \/ UsbDone
    \/ IdeAbsent
    \/ IdeFound
    \/ ahci_init
    \/ start_port
    \/ ahci_waits
    \/ ScanDrive
    \/ TryMount
    \/ validate_fhs
    \/ storage_tests_run
    \/ NextInit
    \/ ElfStat
    \/ ElfAlloc
    \/ ElfRead
    \/ ElfParse

XhciInUse == phase = "usb" /\ XhciDriver

Next ==
    \/ kmain /\ UNCHANGED xvars
    \/ XhciInUse /\ UNCHANGED bvars
    \/ XhciController /\ UNCHANGED bvars

\* The kernel keeps executing; the controller need not.
Spec == Init /\ [][Next]_vars /\ WF_vars((kmain /\ UNCHANGED xvars) \/ (XhciInUse /\ UNCHANGED bvars))
----------------------------------------------------------------------------
(* Properties.                                                             *)

Ended == phase \in {"user", "panic"}

\* Every variable of the boot code has its type.
TypeOK ==
    /\ unit \in 1 .. 5
    /\ bus.err \subseteq Units
    /\ \A c \in 0 .. 1 : Channel(bus.sel[c]) = c
    /\ Len(found.ide) <= 4 /\ Len(found.ahci) <= AHCI_MAX_DEVICES
    /\ buffers \in 0 .. 1
    /\ faults \in 0 .. MaxFaults
    /\ phase = "mount" => todo # <<>> /\ queue # <<>>
    /\ load.pc \in {"idle", "stat", "alloc", "read", "parse"}

\* The loader frees every buffer it allocates, whichever path, interpreter or
\* failure it goes through: between attempts and in ring 3 none is left.
LoaderFreesBuffers == Ended \/ load.pc \in {"idle", "stat", "alloc"} => buffers = 0

\* The volumes on a drive that some mount would accept, with the order in which
\* they are preferred: FAT, exFAT, ext, and the lower partition first.
Candidates(drive) ==
    LET ps == IF partition_scan_mbr(drive) = <<>> THEN <<drive.whole>>
              ELSE partition_scan_mbr(drive)
    IN  {c \in (1 .. 3) \X DOMAIN ps :
            CASE c[1] = 1 -> fat32_mount(ps[c[2]])
              [] c[1] = 2 -> exfat_mount(ps[c[2]])
              [] c[1] = 3 -> extfs_mount(ps[c[2]])}

\* When no access fails the root volume is on the first SATA drive that has a
\* usable volume, on the first IDE drive if there is none, and it is that drive's
\* preferred volume.
RootIsFirst ==
    root # <<>> /\ ~failed =>
        LET order == found.ahci \o found.ide
            i == CHOOSE i \in DOMAIN order : order[i] = root.drive
            drive == Drive(root.drive)
            ps == partition_scan_mbr(drive)
            rank == CASE root.fs = "fat" -> 1 [] root.fs = "exfat" -> 2 [] root.fs = "ext" -> 3
        IN  /\ \A j \in 1 .. i - 1 : Candidates(Drive(order[j])) = {}
            /\ \E c \in Candidates(drive) :
                /\ c[1] = rank
                /\ root.part = IF ps = <<>> THEN drive.whole ELSE ps[c[2]]
                /\ \A e \in Candidates(drive) :
                       c[1] < e[1] \/ (c[1] = e[1] /\ c[2] <= e[2])

\* The files of the root volume that are programs, or whose interpreter is in a set.
LeadInto(S) ==
    {p \in DOMAIN Files : \/ Files[p].kind = "elf"
                          \/ Files[p].kind = "interp" /\ Files[p].interp \in S}

\* The paths from which interpreters lead to a program: the least set that has the
\* files that lead into it.
Workable ==
    {p \in DOMAIN Files : \A S \in SUBSET DOMAIN Files : LeadInto(S) \subseteq S => p \in S}

\* Without failures ring 3 is entered with the first of /sbin/init and /INIT that
\* leads to a program, an interpreter on the way with the file that names it as its
\* argument; "No working init found" is reported only if none does.
FirstWorkingInit ==
    /\ phase = "user" /\ ~failed =>
        /\ load.began \in Workable
        /\ \A i \in DOMAIN InitPaths :
              InitPaths[i] \in Workable =>
                  \E j \in 1 .. i : InitPaths[j] = load.began
    /\ phase = "user" =>
        IF load.path = load.began
        THEN load.argv1 = ""
        ELSE load.argv1 \in DOMAIN Files /\ Files[load.argv1].interp = load.path
    /\ phase = "panic" /\ root # <<>> /\ inits = <<>> /\ ~failed =>
        \A i \in DOMAIN InitPaths : InitPaths[i] \notin Workable

\* The root volume is complete: the directories, clusters that the driver can read,
\* and a working init.
Complete == root.part.fhs /\ ~root.part.coarse /\ \E i \in DOMAIN InitPaths : InitPaths[i] \in Workable

\* With both controllers in use, both first drives have a boot signature.
Signed == Dual => Drive(Head(found.ide)).sig /\ Drive(Head(found.ahci)).sig

\* A complete FAT32 root in a partition of a FAT32 type boots when no access
\* fails: none of the checks between the mount and ring 3 panics.
BootsFat32Root ==
    root # <<>> /\ ~failed =>
        (root.part.type = "fat32" /\ root.part.fs = "fat32"
            /\ Complete /\ Signed => phase # "panic")

\* A search of the PCI buses, by class with or without a programming interface or
\* by device, returns the first function that matches in the order of buses, slots
\* and functions, and reports none only if there is none: no function is hidden by
\* an empty slot, a gap between functions or a single-function device.
FindsFirst ==
    phase = "xhci" /\ WellFormed(machine.pci) =>
        LET pci == machine.pci
            kinds == {<<f.class, f.prog_if, f.device>> : f \in {pci[a] : a \in DOMAIN pci}}
                           \cup {<<"usb", "xhci", "none">>}
            of(c) == {a \in DOMAIN pci : pci[a].class = c}
        IN  \A k \in kinds :
                /\ IsFirst({a \in of(k[1]) : pci[a].prog_if = k[2]}, pci_find_class(pci, k[1], k[2]))
                /\ IsFirst(of(k[1]), pci_find_class_any_prog_if(pci, k[1]))
                /\ IsFirst({a \in DOMAIN pci : pci[a].device = k[3]}, pci_find_device(pci, k[3]))

\* Booting comes to an end, in ring 3 or in a panic, whichever accesses and
\* allocations fail and however slow the USB controller is, except in the two waits
\* of the AHCI driver that have no limit (start_port, ahci_waits): every retry,
\* fallback and interpreter leads on.
BootEnds == <>(Ended \/ phase = "hung")
============================================================================
