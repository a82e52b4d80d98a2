-------------------------------- MODULE Pci --------------------------------
(***************************************************************************)
(* The search of PCI configuration space and the decoding of a base        *)
(* address register (src/drivers/bus/pci.c).                               *)
(*                                                                         *)
(* A machine is a function from the addresses <<bus, slot, function>> that *)
(* answer (the others read as vendor 0xFFFF) to what the driver reads of   *)
(* them: device (vendor and device id), class (class and subclass), prog_if, *)
(* multi (the multi-function bit of the header) and the base address       *)
(* register and its upper half, lo and hi.                                 *)
(***************************************************************************)
EXTENDS Integers, Sequences

CONSTANTS
    BUSES, SLOTS, FUNCTIONS,    \* 256, 32 and 8 in the code
    WORD                        \* the values of a register, 2^32 in the code

ASSUME PciAssumption ==
    /\ BUSES \in Nat \ {0} /\ SLOTS \in Nat \ {0} /\ FUNCTIONS \in Nat \ {0}
    /\ WORD \in Nat

Address == (0 .. BUSES - 1) \X (0 .. SLOTS - 1) \X (0 .. FUNCTIONS - 1)

\* The order of the loops over buses, slots and functions.
Before(a, b) ==
    \/ a[1] < b[1]
    \/ a[1] = b[1] /\ a[2] < b[2]
    \/ a[1] = b[1] /\ a[2] = b[2] /\ a[3] < b[3]

\* Faulty variant: the search of a slot ends at the first missing function.
GoesOn_BreakAlways(pci, a) == a \in DOMAIN pci /\ (a[3] # 0 \/ pci[a].multi)

\* Whether the inner loop goes on after a function that does not match: a slot
\* without function 0, or whose function 0 is not one of several, has no more.
GoesOn(pci, a) == a[3] # 0 \/ (a \in DOMAIN pci /\ pci[a].multi)

\* The search of a slot for a function of the set wanted, from a function on.
FindInSlot(pci, wanted, bus, slot) ==
    LET from[f \in 0 .. FUNCTIONS] ==
          LET a == <<bus, slot, f>>
          IN  IF f = FUNCTIONS THEN <<>>
              ELSE IF a \in wanted THEN <<a>>
              ELSE IF GoesOn(pci, a) THEN from[f + 1] ELSE <<>>
    IN  from[0]

\* The address found as a sequence of one, or <<>> for -1.
Find(pci, wanted) ==
    LET from[i \in 0 .. BUSES * SLOTS] ==
          LET hit == FindInSlot(pci, wanted, i \div SLOTS, i % SLOTS)
          IN  IF i = BUSES * SLOTS THEN <<>>
              ELSE IF hit # <<>> THEN hit ELSE from[i + 1]
    IN  from[0]

OfClass(pci, class) == {a \in DOMAIN pci : pci[a].class = class}

pci_find_class(pci, class, prog_if) ==
    Find(pci, {a \in OfClass(pci, class) : pci[a].prog_if = prog_if})

pci_find_class_any_prog_if(pci, class) ==
    Find(pci, OfClass(pci, class))

pci_find_device(pci, device) ==
    Find(pci, {a \in DOMAIN pci : pci[a].device = device})

\* Bit 0 of a base address register marks a port address, bits 1 and 2 hold 2
\* for a 64-bit memory address.  The marks are cleared in the result.
pci_bar(f) ==
    IF f.lo % 2 = 1 THEN f.lo - (f.lo % 4)
    ELSE f.lo - (f.lo % 16) + (IF (f.lo \div 2) % 4 = 2 THEN f.hi * WORD ELSE 0)

----------------------------------------------------------------------------
(* What the search has to find.                                            *)

\* Machines whose slots answer as the PCI specification says: function 0 is
\* there if any is, and it says so if there are others.
WellFormed(pci) ==
    \A a \in DOMAIN pci : a[3] # 0 =>
        LET zero == <<a[1], a[2], 0>> IN zero \in DOMAIN pci /\ pci[zero].multi

IsFirst(wanted, hit) ==
    IF hit = <<>> THEN wanted = {}
    ELSE hit[1] \in wanted /\ \A a \in wanted : ~Before(a, hit[1])
============================================================================
