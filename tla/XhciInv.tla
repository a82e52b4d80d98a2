------------------------------ MODULE XhciInv -------------------------------
(***************************************************************************)
(* The invariant behind the theorems of XhciProofs, which hold for the     *)
(* xHCI driver on rings of any size, any number of slots and any number of *)
(* connected ports below the number of command TRBs (n_ports is a byte and *)
(* the ring has 256 TRBs): the controller fetches the commands in order,   *)
(* and a device is reported with its own slot.                             *)
(*                                                                         *)
(* The argument numbers the commands.  The command ring holds the last     *)
(* LinkAt commands (CmdRing), the controller is behind the driver by at    *)
(* most a round (Behind), and the completions before the first port event  *)
(* are those of the next commands (Completions).  A completion therefore   *)
(* names the TRB that the driver waits for only if it answers that very    *)
(* command, although the address was used before.  The driver does not     *)
(* check for room, so that it never overtakes the controller has to follow *)
(* from the number of ports (Budget): a command that is given up costs its *)
(* port, and only a completion lets a port issue its second command.       *)
(***************************************************************************)
EXTENDS Xhci

\* Ports are numbered from 1.
Port == Nat \ {0}

\* The index of the link TRB, which is the number of usable TRBs.
LinkAt == CMD_RING_TRBS - 1

\* The indexes that hold commands.
CmdSlots == 0 .. LinkAt - 1

(* The types of the records.                                              *)

DrvType ==
    [pc : {"rings", "ports", "enable", "contexts", "address"}, cmd_index : CmdSlots,
     cmd_cycle : 0 .. 1, event_index : EventIndexes, event_cycle : 0 .. 1,
     expected : CmdSlots, port : Nat, slot : Nat]

TrbType == [kind : {"none", "enable", "address", "link"}, port : Nat, slot : Nat, cycle : 0 .. 1]

EventType ==
    [type : {"none", "completion", "port"}, trb : CmdIndexes, code : Nat, slot : Nat, cycle : 0 .. 1]

HwType ==
    [status : {"halted", "running"}, deq : CmdIndexes, ccs : 0 .. 1, enq : EventIndexes,
     pcs : 0 .. 1, erdp : EventIndexes, owner : [Slots -> Nat], device : [Slots -> Nat],
     port_events : Nat]

Commands == {"enable", "address"} \X Port

Types ==
    /\ ports \in Seq(Port)
    /\ drv \in DrvType
    /\ cmd_ring \in [CmdIndexes -> TrbType]
    /\ event_ring \in [EventIndexes -> EventType]
    /\ hw \in HwType
    /\ issued \in Seq(Commands) /\ executed \in Seq(Commands)
    /\ taken \in Nat

\* The number of the last command written at index i; not positive if there is none.
Number(i) ==
    Len(issued) - drv.cmd_index + i + 1 - (IF i < drv.cmd_index THEN 0 ELSE LinkAt)

\* The driver has written the indexes below cmd_index in this round, and the others
\* and the link in the round before.
CmdRing ==
    /\ \A i \in CmdSlots :
        /\ cmd_ring[i].cycle = IF i < drv.cmd_index THEN drv.cmd_cycle ELSE 1 - drv.cmd_cycle
        /\ cmd_ring[i].kind # "link"
        /\ Number(i) >= 1 => issued[Number(i)] = <<cmd_ring[i].kind, cmd_ring[i].port>>
    /\ cmd_ring[LinkAt].cycle = 1 - drv.cmd_cycle

\* The controller is behind the driver, by at most a round: in the same round, or in
\* the round before.
Behind ==
    LET d == Len(issued) - Len(executed)
    IN  /\ 0 <= d /\ d <= LinkAt /\ hw.deq <= Len(executed)
        /\ \/ hw.ccs = drv.cmd_cycle /\ hw.deq + d = drv.cmd_index
           \/ /\ hw.ccs = 1 - drv.cmd_cycle /\ hw.deq + d = drv.cmd_index + LinkAt
              /\ cmd_ring[LinkAt].kind = "link"

\* What was executed is what was issued.
Executed == \A k \in 1 .. Len(executed) : executed[k] = issued[k]

\* The events from event_index up to enq are waiting.
EventRing ==
    /\ hw.erdp = drv.event_index
    /\ \A i \in EventIndexes : event_ring[i].cycle = IF i < hw.enq THEN hw.pcs ELSE 1 - hw.pcs
    /\ \/ hw.pcs = drv.event_cycle /\ drv.event_index <= hw.enq
       \/ hw.pcs = 1 - drv.event_cycle /\ hw.enq < drv.event_index

\* How far index i is behind the head of the event ring.
Offset(i) == i - drv.event_index + (IF i < drv.event_index THEN EVENT_RING_TRBS ELSE 0)

\* The indexes of the waiting events.
Pending == {i \in EventIndexes : Offset(i) < Offset(hw.enq)}

\* No port event is in front of i or at i.
Clear(i) == \A j \in EventIndexes : Offset(j) <= Offset(i) => event_ring[j].type = "completion"

\* The completions before the first port event are those of the next commands.
Completions ==
    \A i \in Pending : Clear(i) =>
        /\ event_ring[i].trb \in CmdSlots
        /\ Number(event_ring[i].trb) = taken + 1 + Offset(i)
        /\ taken + 1 + Offset(i) <= Len(executed)

\* A port event stays; without one, exactly the executed commands were reported.
Reported ==
    /\ taken <= Len(executed)
    /\ hw.port_events = 0 =>
        /\ taken + Offset(hw.enq) = Len(executed)
        /\ \A i \in Pending : event_ring[i].type = "completion"
    /\ hw.port_events > 0 => \E i \in Pending : event_ring[i].type = "port"

\* The TRBs in use, and one for each port that is left.
Needed == Len(issued) - taken + Len(ports)

\* The ring has room for them.  It is needed to the last TRB only until the second
\* completion, when the first of all commands was answered and the second one is
\* the Address Device command that followed it.
Budget ==
    /\ Needed <= LinkAt
    /\ taken >= 2 => Needed < LinkAt
    /\ taken = 1 /\ Needed = LinkAt => Len(issued) >= 2 /\ issued[2][1] = "address"

\* While it waits, the driver expects the last command written; at the contexts,
\* all commands were answered and the slot was enabled for the port.
Driver ==
    /\ drv.pc \in {"enable", "address"} =>
        /\ Len(issued) >= 1 /\ Number(drv.expected) = Len(issued)
        /\ issued[Len(issued)] = <<drv.pc, drv.port>>
    /\ drv.pc = "contexts" =>
        /\ taken = Len(issued) /\ Len(ports) < LinkAt
        /\ taken >= 2 => Len(ports) < LinkAt - 1
        /\ drv.slot \in Slots /\ drv.port \in Port /\ hw.owner[drv.slot] = drv.port

\* The slot was enabled for the port.
Owned(port, slot) == slot \in Slots /\ port # 0 /\ hw.owner[slot] = port

\* Commands, waiting completions and reports name slots of their own port.
SlotsOwned ==
    /\ \A i \in CmdSlots :
        /\ cmd_ring[i].kind = "address" => Owned(cmd_ring[i].port, cmd_ring[i].slot)
        /\ cmd_ring[i].kind = "enable" => cmd_ring[i].port # 0
    /\ \A i \in Pending : Clear(i) /\ event_ring[i].code = 1 =>
        LET command == issued[taken + 1 + Offset(i)]
            slot == event_ring[i].slot
        IN  /\ Owned(command[2], slot)
            /\ command[1] = "address" => hw.device[slot] = command[2]
    /\ \A a \in addressed :
        a \in Nat \X Nat /\ Owned(a[1], a[2]) /\ hw.device[a[2]] = a[1]

\* Before xhci_init_rings.
Fresh == XhciInit(ports) /\ Len(ports) <= LinkAt

\* Afterwards.
Running ==
    /\ hw.status = "running"
    /\ CmdRing /\ Behind /\ Executed /\ EventRing /\ Completions /\ Reported /\ Budget /\ Driver
    /\ SlotsOwned

\* The inductive invariant.
RingInv == Types /\ (IF drv.pc = "rings" THEN Fresh ELSE Running)
=============================================================================
