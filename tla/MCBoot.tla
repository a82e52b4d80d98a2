------------------------------- MODULE MCBoot -------------------------------
(* Machines for Boot: small sets of drives and USB ports.                   *)
EXTENDS Boot, TLC

File(kind, interp) == [kind |-> kind, interp |-> interp]

\* /sbin/init is a script of /sh, and /sh a program that names /ld.
Scripted ==
    [p \in {"/sbin/init", "/sh", "/ld"} |->
        CASE p = "/sbin/init" -> File("interp", "/sh")
          [] p = "/sh" -> File("interp", "/ld")
          [] OTHER -> File("elf", "")]

\* Only /INIT works: /sbin/init names an interpreter that is no program.
Fallback ==
    [p \in {"/sbin/init", "/sh", "/INIT"} |->
        CASE p = "/sbin/init" -> File("interp", "/sh")
          [] p = "/sh" -> File("junk", "")
          [] OTHER -> File("elf", "")]

\* Only /INIT works: /sbin/init is too large.
Oversized == [p \in {"/sbin/init", "/INIT"} |-> File(IF p = "/INIT" THEN "elf" ELSE "huge", "")]

\* No init works.
Broken ==
    [p \in {"/sbin/init", "/INIT"} |->
        IF p = "/INIT" THEN File("empty", "") ELSE File("dir", "")]

Part(type, fs, sig, files) ==
    [type |-> type, fs |-> fs, sig |-> sig, fhs |-> fs # "none", coarse |-> FALSE, files |-> files]

Nothing == Part("empty", "none", FALSE, Broken)

\* A drive with an MBR, one with a volume at sector 0, and no drive.
Mbr(parts) == [kind |-> "disk", sig |-> TRUE, parts |-> parts, whole |-> Nothing]

Bare(whole) == [kind |-> "disk", sig |-> whole.sig, parts |-> <<Nothing>>, whole |-> whole]

None == [kind |-> "none", sig |-> FALSE, parts |-> <<>>, whole |-> Nothing]

Cdrom == [None EXCEPT !.kind = "atapi"]

Fat32(files) == Part("fat32", "fat32", TRUE, files)

Ext(files) == Part("other", "ext", FALSE, files)

Function(class, prog_if, multi, lo) ==
    [class |-> class, prog_if |-> prog_if, device |-> prog_if, multi |-> multi, lo |-> lo,
     hi |-> 0]

\* Both controllers in one slot, as functions 0 and 2.
Controllers ==
    [a \in {<<0, 1, 0>>, <<0, 1, 2>>} |->
        IF a[3] = 0 THEN Function("storage", "ahci", TRUE, 32) ELSE Function("usb", "xhci", TRUE, 20)]

Machine(usb, ide, sata) ==
    [pci |-> Controllers, ports |-> usb, ide |-> ide, sata |-> sata]

\* What may be in a slot, as a function from function numbers: nothing, one
\* function, or function 0 and any others.
Kinds == {<<"usb", "xhci">>, <<"usb", "ehci">>}

SlotContents ==
    LET some(k, multi) == Function(k[1], k[2], multi, 16)
        single == {(0 :> some(k, FALSE)) : k \in Kinds}
        multi == UNION {{[n \in {0} \cup others |-> some(ks[n], TRUE)] : ks \in [{0} \cup others -> Kinds]} :
                            others \in SUBSET {1, 2}}
    IN  single \cup multi

\* Well-formed machines with two occupied slots, on one bus or on two, and none.
Layouts ==
    {<<>>} \cup
    {[a \in {x \in Address : <<x[1], x[2]>> \in DOMAIN c /\ x[3] \in DOMAIN c[<<x[1], x[2]>>]} |->
        c[<<a[1], a[2]>>][a[3]]] :
     c \in UNION {[two -> SlotContents] : two \in {{<<0, 0>>, <<0, 1>>}, {<<0, 1>>, <<1, 0>>}}}}

\* The images that the Makefile builds, on the first IDE channel.
DiskImg == Machine(<<>>, <<Mbr(<<Fat32(Scripted)>>), None, None, None>>, <<>>)

Ext4Img ==
    Machine(<<>>, <<Bare(Part("empty", "ext", FALSE, Fallback)), None, None, None>>, <<>>)

ExfatImg ==
    Machine(<<>>, <<Bare(Part("empty", "exfat", TRUE, Fallback)), None, None, None>>, <<>>)

Booting == {
    DiskImg, Ext4Img, ExfatImg,
    \* USB devices on four ports, and no drive
    Machine(<<1, 2, 3, 4>>, <<None, None, None, None>>, <<>>),
    \* a CD-ROM drive beside the disk, on its channel and on the other one
    Machine(<<>>, <<Mbr(<<Fat32(Oversized)>>), Cdrom, None, None>>, <<>>),
    Machine(<<>>, <<Mbr(<<Nothing, Ext(Scripted), Fat32(Fallback)>>), None, Cdrom, None>>, <<>>),
    \* a blank SATA drive, one with exFAT before FAT16, and one too many; FAT32 on IDE
    Machine(<<>>, <<None, Mbr(<<Fat32(Scripted)>>), None, None>>,
            <<None, Mbr(<<Nothing>>),
              Mbr(<<Part("other", "exfat", TRUE, Fallback),
                    Part("fat16", "fat16", TRUE, Fallback)>>),
              Mbr(<<Fat32(Scripted)>>)>>),
    \* FAT32 with 16 sectors per cluster
    Machine(<<>>, <<Mbr(<<[Fat32(Fallback) EXCEPT !.coarse = TRUE]>>), None, None, None>>, <<>>),
    \* an unmountable SATA drive without a signature, and FAT32 on IDE
    Machine(<<>>, <<Mbr(<<Fat32(Broken)>>), None, None, None>>, <<Bare(Nothing)>>),
    \* a signed SATA drive with two FAT32 partitions, and ext on IDE
    Machine(<<1>>, <<Mbr(<<Ext(Fallback)>>), None, None, None>>,
            <<Mbr(<<Part("fat32", "none", FALSE, Broken), Fat32(Fallback)>>)>>)}

Diskless == Machine(<<1>>, <<None, None, None, None>>, <<Bare(Nothing)>>)

\* A controller whose base address was never set.
NoBar == [Diskless EXCEPT !.pci = (<<0, 0, 0>> :> Function("usb", "xhci", FALSE, 4))]

AllMachines == Booting \cup {NoBar} \cup {[Diskless EXCEPT !.pci = l, !.ports = <<>>, !.sata = <<>>] : l \in Layouts}
=============================================================================
