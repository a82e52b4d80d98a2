-------------------------------- MODULE Xhci --------------------------------
(***************************************************************************)
(* The xHCI driver's command and event rings (src/drivers/usb/xhci.c) and  *)
(* the controller that works on them concurrently.  xhci_init enables a    *)
(* slot for, and addresses, the device on every connected port, one        *)
(* command at a time.  It polls the event ring for the completion and      *)
(* gives up after a number of polls, so a completion may arrive after its  *)
(* command was given up, and is then met by a later command.               *)
(*                                                                         *)
(* Data: a command TRB is its kind, port and slot, and the address of a    *)
(* TRB is its index in the ring.  The contents of the device contexts are  *)
(* left out.                                                               *)
(***************************************************************************)
EXTENDS Integers, Sequences

CONSTANTS
    CMD_RING_TRBS,     \* XHCI_CMD_RING_TRBS, 256 in the code
    EVENT_RING_TRBS,   \* XHCI_EVENT_RING_TRBS, 256 in the code
    MAX_SLOTS,         \* XHCI_MAX_SLOTS, 64 in the code
    MaxPortEvents      \* bound: port status change events the controller posts

ASSUME XhciAssumption ==
    /\ CMD_RING_TRBS \in Nat /\ CMD_RING_TRBS > 2
    /\ EVENT_RING_TRBS \in Nat /\ EVENT_RING_TRBS > 1
    /\ MAX_SLOTS \in Nat /\ MAX_SLOTS > 1
    /\ MaxPortEvents \in Nat

VARIABLES
    ports,       \* the connected ports that are left, in order
    drv,         \* the driver: pc, ring positions and the current command
    cmd_ring,
    event_ring,
    dcbaa,       \* the slots that were given a device context
    hw,          \* the controller: ring positions, slots, posted port events
    addressed,   \* history: the pairs <<port, slot>> reported as addressed
    issued,      \* history: the commands written, in order
    executed,    \* history: the commands the controller executed, in order
    taken        \* history: how many completions the driver has consumed

xvars == <<ports, drv, cmd_ring, event_ring, dcbaa, hw, addressed, issued, executed, taken>>

CmdIndexes == 0 .. CMD_RING_TRBS - 1

EventIndexes == 0 .. EVENT_RING_TRBS - 1

\* MaxSlotsEn is set to XHCI_MAX_SLOTS - 1.
Slots == 1 .. MAX_SLOTS - 1

Trb(kind, port, slot, cycle) == [kind |-> kind, port |-> port, slot |-> slot, cycle |-> cycle]

Event(type, trb, code, slot, cycle) ==
    [type |-> type, trb |-> trb, code |-> code, slot |-> slot, cycle |-> cycle]

NoTrb == Trb("none", 0, 0, 0)

NoEvent == Event("none", 0, 0, 0, 0)

\* Before xhci_init, on a machine with the given connected ports; both rings
\* are the zeroed pages that xhci_init_rings allocates.
XhciInit(connected) ==
    /\ ports = connected
    /\ drv = [pc |-> "rings", cmd_index |-> 0, cmd_cycle |-> 0, event_index |-> 0,
              event_cycle |-> 0, expected |-> 0, port |-> 0, slot |-> 0]
    /\ cmd_ring = [i \in CmdIndexes |-> NoTrb]
    /\ event_ring = [i \in EventIndexes |-> NoEvent]
    /\ dcbaa = {}
    /\ hw = [status |-> "halted", deq |-> 0, ccs |-> 0, enq |-> 0, pcs |-> 0, erdp |-> 0,
             owner |-> [s \in Slots |-> 0], device |-> [s \in Slots |-> 0],
             port_events |-> 0]
    /\ addressed = {}
    /\ issued = <<>>
    /\ executed = <<>>
    /\ taken = 0

----------------------------------------------------------------------------
(* The driver.                                                             *)

\* Faulty variant: the cycle bit is left out of the command ring pointer.
xhci_init_rings_NoCycle ==
    /\ drv.pc = "rings"
    /\ drv' = [drv EXCEPT !.pc = "ports", !.cmd_cycle = 1, !.event_cycle = 1]
    /\ hw' = [hw EXCEPT !.status = "running", !.ccs = 0, !.pcs = 1]
    /\ UNCHANGED <<ports, cmd_ring, event_ring, dcbaa, addressed, issued, executed, taken>>

\* The driver and the controller start on zeroed rings with cycle 1; then the
\* controller is set running.
xhci_init_rings ==
    /\ drv.pc = "rings"
    /\ drv' = [drv EXCEPT !.pc = "ports", !.cmd_cycle = 1, !.event_cycle = 1]
    /\ hw' = [hw EXCEPT !.status = "running", !.ccs = 1, !.pcs = 1]
    /\ UNCHANGED <<ports, cmd_ring, event_ring, dcbaa, addressed, issued, executed, taken>>

\* The command goes to cmd_index.  After the last usable TRB the link TRB is
\* written with the same cycle, and the next round uses the other cycle.
xhci_cmd(kind, port, slot) ==
    LET i == drv.cmd_index
        wraps == i + 1 = CMD_RING_TRBS - 1
        written == [cmd_ring EXCEPT ![i] = Trb(kind, port, slot, drv.cmd_cycle)]
    IN  /\ cmd_ring' = IF wraps
                       THEN [written EXCEPT ![i + 1] = Trb("link", 0, 0, drv.cmd_cycle)]
                       ELSE written
        /\ drv' = [drv EXCEPT !.pc = kind, !.port = port, !.slot = slot, !.expected = i,
                              !.cmd_index = IF wraps THEN 0 ELSE i + 1,
                              !.cmd_cycle = IF wraps THEN 1 - @ ELSE @]
        /\ issued' = Append(issued, <<kind, port>>)

\* xhci_address_port starts on the next connected port.
EnableSlot ==
    /\ drv.pc = "ports" /\ ports # <<>>
    /\ xhci_cmd("enable", Head(ports), 0)
    /\ ports' = Tail(ports)
    /\ UNCHANGED <<event_ring, dcbaa, hw, addressed, executed, taken>>

Polled == event_ring[drv.event_index]

\* Polling ends at a command completion at the head of the event ring; an event
\* of another type stays at the head.
Completed == Polled.cycle = drv.event_cycle /\ Polled.type = "completion"

\* Faulty variant: any successful completion is taken for the command's own.
Succeeded_AnyTrb == Polled.code = 1

\* The completion names the command's TRB, and its code is success.
Succeeded == Polled.code = 1 /\ Polled.trb = drv.expected

\* The event is consumed: the next index, and the cycle flips at the end.
Advanced(pc, slot) ==
    LET last == drv.event_index + 1 = EVENT_RING_TRBS
    IN  [drv EXCEPT !.pc = pc, !.slot = slot,
                    !.event_index = IF last THEN 0 ELSE @ + 1,
                    !.event_cycle = IF last THEN 1 - @ ELSE @]

\* xhci_wait_cmd finds a completion.  The dequeue pointer is written back, and
\* the caller goes on (Enable Slot to the contexts, Address Device to its
\* report) or gives the port up.
xhci_wait_cmd ==
    /\ drv.pc \in {"enable", "address"}
    /\ Completed
    /\ LET valid == Polled.slot # 0 /\ Polled.slot < MAX_SLOTS
           pc == IF drv.pc = "enable" /\ Succeeded /\ valid THEN "contexts" ELSE "ports"
       IN  /\ drv' = Advanced(pc, Polled.slot)
           /\ hw' = [hw EXCEPT !.erdp = drv'.event_index]
    /\ addressed' = IF drv.pc = "address" /\ Succeeded
                    THEN addressed \cup {<<drv.port, Polled.slot>>} ELSE addressed
    /\ taken' = taken + 1
    /\ UNCHANGED <<ports, cmd_ring, event_ring, dcbaa, issued, executed>>

\* No poll found a completion: the command is given up, not withdrawn.
WaitTimeout ==
    /\ drv.pc \in {"enable", "address"}
    /\ ~Completed
    /\ drv' = [drv EXCEPT !.pc = "ports", !.slot = 0]
    /\ UNCHANGED <<ports, cmd_ring, event_ring, dcbaa, hw, addressed, issued, executed, taken>>

\* The contexts are allocated and filled, and the address command is written.
AddressDevice ==
    /\ drv.pc = "contexts"
    /\ dcbaa' = dcbaa \cup {drv.slot}
    /\ xhci_cmd("address", drv.port, drv.slot)
    /\ UNCHANGED <<ports, event_ring, hw, addressed, executed, taken>>

\* A page for the contexts is missing: the slot stays enabled and unused.
NoContexts ==
    /\ drv.pc = "contexts"
    /\ drv' = [drv EXCEPT !.pc = "ports"]
    /\ UNCHANGED <<ports, cmd_ring, event_ring, dcbaa, hw, addressed, issued, executed, taken>>

XhciDone == drv.pc = "ports" /\ ports = <<>>

XhciDriver ==
    \/ xhci_init_rings
    \/ EnableSlot
    \/ xhci_wait_cmd
    \/ WaitTimeout
    \/ AddressDevice
    \/ NoContexts

----------------------------------------------------------------------------
(* The controller (external).                                              *)

EventRoom == (hw.enq + 1) % EVENT_RING_TRBS # hw.erdp

\* The state of the controller after posting an event.
Posted(h) ==
    LET last == h.enq + 1 = EVENT_RING_TRBS
    IN  [h EXCEPT !.enq = IF last THEN 0 ELSE @ + 1, !.pcs = IF last THEN 1 - @ ELSE @]

\* What the controller may answer to a command: code and slot, and its slots
\* afterwards.  Enable Slot takes any free slot or reports that there is none (9);
\* Address Device may fail on the bus (4).
Answers(trb) ==
    LET free == {s \in Slots : hw.owner[s] = 0}
        answer(code, slot, h) == [code |-> code, slot |-> slot, hw |-> h]
    IN  CASE trb.kind = "enable" /\ free # {} ->
               {answer(1, s, [hw EXCEPT !.owner[s] = trb.port]) : s \in free}
          [] trb.kind = "enable" /\ free = {} -> {answer(9, 0, hw)}
          [] trb.kind = "address" /\ trb.slot \in dcbaa ->
               {answer(1, trb.slot, [hw EXCEPT !.device[trb.slot] = trb.port]),
                answer(4, trb.slot, hw)}
          [] OTHER -> {answer(5, trb.slot, hw)}

\* The TRB at the dequeue pointer belongs to the controller if its cycle agrees.
HwOwns == hw.status = "running" /\ cmd_ring[hw.deq].cycle = hw.ccs

HwLink ==
    /\ HwOwns /\ cmd_ring[hw.deq].kind = "link"
    /\ hw' = [hw EXCEPT !.deq = 0, !.ccs = 1 - @]
    /\ UNCHANGED <<ports, drv, cmd_ring, event_ring, dcbaa, addressed, issued, executed, taken>>

HwCommand ==
    /\ HwOwns /\ cmd_ring[hw.deq].kind # "link"
    /\ EventRoom
    /\ \E a \in Answers(cmd_ring[hw.deq]) :
        /\ event_ring' = [event_ring EXCEPT
               ![hw.enq] = Event("completion", hw.deq, a.code, a.slot, hw.pcs)]
        /\ hw' = Posted([a.hw EXCEPT !.deq = (@ + 1) % CMD_RING_TRBS])
    /\ executed' = Append(executed, <<cmd_ring[hw.deq].kind, cmd_ring[hw.deq].port>>)
    /\ UNCHANGED <<ports, drv, cmd_ring, dcbaa, addressed, issued, taken>>

\* A device is plugged in or a port changes: an event the driver does not expect.
HwPortEvent ==
    /\ hw.status = "running" /\ hw.port_events < MaxPortEvents
    /\ EventRoom
    /\ event_ring' = [event_ring EXCEPT ![hw.enq] = Event("port", 0, 1, 0, hw.pcs)]
    /\ hw' = [Posted(hw) EXCEPT !.port_events = @ + 1]
    /\ UNCHANGED <<ports, drv, cmd_ring, dcbaa, addressed, issued, executed, taken>>

XhciController == HwLink \/ HwCommand \/ HwPortEvent

----------------------------------------------------------------------------
(* Properties.                                                             *)

\* A device reported as addressed got a slot that was enabled for its own port
\* and addressed with its own contexts, even though completions of commands that
\* were given up arrive later and the ring's TRB addresses are used again.
AddressedOwnSlot ==
    \A a \in addressed : hw.owner[a[2]] = a[1] /\ hw.device[a[2]] = a[1]

\* The controller executes the commands in the order in which the driver wrote
\* them, each once and none that was not written, across the link TRB and the
\* change of the cycle bit.
FetchInOrder == Len(executed) <= Len(issued) /\ executed = SubSeq(issued, 1, Len(executed))
============================================================================
