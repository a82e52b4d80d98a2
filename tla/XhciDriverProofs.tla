-------------------------- MODULE XhciDriverProofs --------------------------
(***************************************************************************)
(* The driver's steps keep the invariant of XhciInv.                       *)
(***************************************************************************)
EXTENDS XhciInv, TLAPS

\* The solver gets more time than by default; the steps that are first-order reasoning
\* cite Zenon.
USE SMTT(30), ZenonT(30), SMTT(31)

\* The ring sizes as numbers.
LEMMA Sizes ==
  /\ LinkAt \in Nat /\ LinkAt >= 2 /\ CMD_RING_TRBS = LinkAt + 1
  /\ EVENT_RING_TRBS \in Nat /\ EVENT_RING_TRBS >= 2
BY XhciAssumption DEF LinkAt

\* The next index of a ring of n entries.
LEMMA Wrapped ==
  ASSUME NEW n \in Nat, NEW i \in 0 .. n - 1
  PROVE  (i + 1) % n = IF i + 1 = n THEN 0 ELSE i + 1
BY SMT

\* No command on the ring is newer than the last one issued.
LEMMA NumberBound ==
  ASSUME Types, NEW i \in CmdSlots
  PROVE  Number(i) \in Int /\ Number(i) <= Len(issued)
<1>1. drv.cmd_index \in Int /\ 0 <= drv.cmd_index /\ drv.cmd_index < LinkAt
  BY Sizes DEF Types, DrvType, CmdSlots
<1>2. Len(issued) \in Nat
  BY DEF Types
<1> QED BY <1>1, <1>2, Sizes DEF Number, CmdSlots

\* Offsets number the indexes of the event ring from its head.
LEMMA OffsetFacts ==
  ASSUME Types
  PROVE  /\ \A i \in EventIndexes : Offset(i) \in Nat /\ Offset(i) < EVENT_RING_TRBS
         /\ \A i, j \in EventIndexes : Offset(i) = Offset(j) => i = j
         /\ Offset(drv.event_index) = 0
         /\ drv.event_index \in EventIndexes /\ hw.enq \in EventIndexes
<1>1. drv.event_index \in EventIndexes /\ hw.enq \in EventIndexes
  BY DEF Types, DrvType, HwType
<1> QED BY <1>1, Sizes DEF Offset, EventIndexes

\* The numbers from the index after c on are those from c on and a new one at c.
LEMMA Renumbered ==
  ASSUME NEW n \in Nat, NEW l \in Nat, NEW c \in 0 .. l - 1, NEW i \in 0 .. l - 1,
         NEW next, next = IF c + 1 = l THEN 0 ELSE c + 1
  PROVE  n + 1 - next + i + 1 - (IF i < next THEN 0 ELSE l)
           = IF i = c THEN n + 1 ELSE n - c + i + 1 - (IF i < c THEN 0 ELSE l)
<1>1. CASE c + 1 = l
  BY SMT, <1>1
<1>2. CASE c + 1 # l
  BY SMT, <1>2
<1> QED BY <1>1, <1>2

\* What xhci_cmd changes of the numbers of the commands on the ring.
LEMMA NumberOfNew ==
  ASSUME Types, NEW kind, NEW port, NEW slot, xhci_cmd(kind, port, slot)
  PROVE  /\ Len(issued)' = Len(issued) + 1
         /\ \A i \in CmdSlots :
               Number(i)' = IF i = drv.cmd_index THEN Len(issued) + 1 ELSE Number(i)
<1>1. issued' = Append(issued, <<kind, port>>) /\ issued \in Seq(Commands)
  BY DEF xhci_cmd, Types
<1>2. Len(issued') = Len(issued) + 1 /\ Len(issued) \in Nat
  BY <1>1 
<1>3. drv \in DrvType
  BY DEF Types
<1>4. /\ drv'.cmd_index = IF drv.cmd_index + 1 = LinkAt THEN 0 ELSE drv.cmd_index + 1
      /\ drv.cmd_index \in CmdSlots
  BY <1>3 DEF xhci_cmd, LinkAt, DrvType
<1>5. ASSUME NEW i \in CmdSlots
      PROVE  Number(i)' = IF i = drv.cmd_index THEN Len(issued) + 1 ELSE Number(i)
  <2> DEFINE n == Len(issued)
             c == drv.cmd_index
             next == drv'.cmd_index
  <2>1. Number(i)' = Len(issued') - next + i + 1 - (IF i < next THEN 0 ELSE LinkAt)
    BY DEF Number
  <2>2. n \in Nat /\ Len(issued') = n + 1 /\ next = IF c + 1 = LinkAt THEN 0 ELSE c + 1
    BY Zenon, <1>2, <1>4
  <2>3. i \in 0 .. LinkAt - 1 /\ c \in 0 .. LinkAt - 1 /\ LinkAt \in Nat
    BY Zenon, <1>4, Sizes DEF CmdSlots
  <2>4. Number(i) = n - c + i + 1 - (IF i < c THEN 0 ELSE LinkAt)
    BY Zenon DEF Number
  <2> HIDE DEF n, c, next
  <2>5. n + 1 - next + i + 1 - (IF i < next THEN 0 ELSE LinkAt)
          = IF i = c THEN n + 1 ELSE n - c + i + 1 - (IF i < c THEN 0 ELSE LinkAt)
    BY <2>2, <2>3, Renumbered
  <2>6. Number(i)' = IF i = c THEN n + 1 ELSE Number(i)
    BY <2>1, <2>2, <2>4, <2>5
  <2> QED BY Zenon, <2>6 DEF n, c
<1> QED BY <1>2, <1>5

\* A controller that is a round behind a driver at the last index waits at the link.
LEMMA LastOfRound ==
  ASSUME NEW q \in Nat, NEW d \in Nat, NEW i \in Nat, NEW l \in Nat,
         i + 1 = l, q <= l, d < l, q + d = i + l
  PROVE  q = l /\ d = l - 1
BY SMT

\* With n commands issued, e executed and t taken, a driver that has room cannot be
\* a round ahead.
LEMMA RoundSeen ==
  ASSUME NEW n \in Nat, NEW e \in Nat, NEW t \in Nat, NEW l \in Nat, l >= 2,
         n - e = l - 1, e >= l, t <= e, n - t < l, t >= 2 => n - t < l - 1
  PROVE  FALSE
BY SMT

\* xhci_cmd keeps the invariant if the ring has room.
LEMMA WriteCommand ==
  ASSUME Types, Running, NEW kind \in {"enable", "address"}, NEW port \in Port, NEW slot \in Nat,
         xhci_cmd(kind, port, slot), ports' \in Seq(Port),
         UNCHANGED <<event_ring, hw, addressed, executed, taken>>,
         kind = "address" => Owned(port, slot),
         Len(issued) - taken < LinkAt,
         taken >= 2 => Len(issued) - taken < LinkAt - 1
  PROVE  /\ Types' /\ CmdRing' /\ Behind' /\ Executed' /\ EventRing' /\ Completions' /\ Reported'
         /\ SlotsOwned'
         /\ drv'.pc = kind /\ Number(drv.expected)' = Len(issued)'
         /\ issued' = Append(issued, <<kind, port>>)
         /\ drv'.port = port
<1> DEFINE i0 == drv.cmd_index
<1>1. drv \in DrvType /\ i0 \in CmdSlots /\ i0 \in Nat /\ i0 < LinkAt
  BY Sizes DEF Types, DrvType, CmdSlots
<1>2. /\ Len(issued) \in Nat /\ Len(executed) \in Nat /\ taken \in Nat
      /\ issued' = Append(issued, <<kind, port>>)
      /\ Len(issued') = Len(issued) + 1
      /\ \A k \in 1 .. Len(issued) : issued'[k] = issued[k]
      /\ issued'[Len(issued) + 1] = <<kind, port>>
  BY DEF Types, xhci_cmd
<1>3. /\ drv' \in DrvType /\ drv'.pc = kind /\ drv'.port = port /\ drv'.expected = i0
      /\ drv'.event_index = drv.event_index /\ drv'.event_cycle = drv.event_cycle
  <2> DEFINE c == IF i0 + 1 = CMD_RING_TRBS - 1 THEN 0 ELSE i0 + 1
             y == IF i0 + 1 = CMD_RING_TRBS - 1 THEN 1 - drv.cmd_cycle ELSE drv.cmd_cycle
  <2>1. drv' = [drv EXCEPT !.pc = kind, !.port = port, !.slot = slot, !.expected = i0,
                           !.cmd_index = c, !.cmd_cycle = y]
    BY DEF xhci_cmd
  <2>2. c \in CmdSlots
    BY <1>1, Sizes DEF CmdSlots
  <2>3. y \in 0 .. 1
    BY <1>1 DEF DrvType
  <2>4. port \in Nat
    BY DEF Port
  <2> HIDE DEF c, y
  <2> QED BY Zenon, <1>1, <2>1, <2>2, <2>3, <2>4 DEF DrvType
<1>4. /\ drv'.cmd_index = IF i0 + 1 = LinkAt THEN 0 ELSE i0 + 1
      /\ drv'.cmd_cycle = IF i0 + 1 = LinkAt THEN 1 - drv.cmd_cycle ELSE drv.cmd_cycle
      /\ drv.cmd_cycle \in 0 .. 1
  BY <1>1 DEF xhci_cmd, DrvType, LinkAt
<1>5. \A i \in CmdSlots : Number(i)' = IF i = i0 THEN Len(issued) + 1 ELSE Number(i)
  BY NumberOfNew
<1>6. \A i \in CmdSlots : i \in CmdIndexes
  BY Sizes DEF CmdSlots, CmdIndexes
<1>7. LinkAt \in CmdIndexes /\ LinkAt \notin CmdSlots /\ i0 # LinkAt
  BY <1>1, Sizes DEF CmdSlots, CmdIndexes
<1>8. /\ \A i \in CmdSlots : cmd_ring'[i] = IF i = i0 THEN Trb(kind, port, slot, drv.cmd_cycle)
                                            ELSE cmd_ring[i]
      /\ cmd_ring'[LinkAt] = IF i0 + 1 = LinkAt THEN Trb("link", 0, 0, drv.cmd_cycle)
                             ELSE cmd_ring[LinkAt]
  <2>1. cmd_ring \in [CmdIndexes -> TrbType]
    BY DEF Types
  <2>2. cmd_ring' = IF i0 + 1 = LinkAt
                    THEN [[cmd_ring EXCEPT ![i0] = Trb(kind, port, slot, drv.cmd_cycle)]
                             EXCEPT ![i0 + 1] = Trb("link", 0, 0, drv.cmd_cycle)]
                    ELSE [cmd_ring EXCEPT ![i0] = Trb(kind, port, slot, drv.cmd_cycle)]
    BY DEF xhci_cmd, LinkAt
  <2> QED BY <1>1, <1>6, <1>7, <2>1, <2>2
<1>9. Types'
  <2>1. cmd_ring' \in [CmdIndexes -> TrbType]
    <3>1. Trb(kind, port, slot, drv.cmd_cycle) \in TrbType
      BY <1>4 DEF Trb, TrbType, Port
    <3>2. Trb("link", 0, 0, drv.cmd_cycle) \in TrbType
      BY <1>4 DEF Trb, TrbType
    <3> QED BY Zenon, <1>1, <1>6, <1>7, <3>1, <3>2 DEF xhci_cmd, Types, LinkAt
  <2>2. issued' \in Seq(Commands)
    BY <1>2 DEF Types, Commands
  <2> QED BY <1>3, <2>1, <2>2 DEF Types
<1>10. CmdRing'
  <2>1. ASSUME NEW i \in CmdSlots
        PROVE  /\ cmd_ring'[i].cycle = IF i < drv'.cmd_index THEN drv'.cmd_cycle ELSE 1 - drv'.cmd_cycle
               /\ cmd_ring'[i].kind # "link"
    <3>1. i \in Nat /\ i < LinkAt
      BY Sizes DEF CmdSlots
    <3>2. CASE i = i0
      BY <1>1, <1>4, <1>8, <3>1, <3>2, Sizes DEF Trb
    <3>3. CASE i # i0
      <4>1. /\ cmd_ring[i].cycle = IF i < i0 THEN drv.cmd_cycle ELSE 1 - drv.cmd_cycle
            /\ cmd_ring[i].kind # "link"
        BY DEF Running, CmdRing
      <4>2. cmd_ring'[i] = cmd_ring[i]
        BY <1>8, <3>3
      <4> QED BY <1>1, <1>4, <3>1, <3>3, <4>1, <4>2, Sizes
    <3> QED BY <3>2, <3>3
  <2>2. ASSUME NEW i \in CmdSlots, Number(i)' >= 1
        PROVE  issued'[Number(i)'] = <<cmd_ring'[i].kind, cmd_ring'[i].port>>
    <3>1. CASE i = i0
      BY <1>2, <1>5, <1>8, <3>1 DEF Trb
    <3>2. CASE i # i0
      <4>1. Number(i)' = Number(i) /\ cmd_ring'[i] = cmd_ring[i]
        BY <1>5, <1>8, <3>2
      <4>2. issued[Number(i)] = <<cmd_ring[i].kind, cmd_ring[i].port>>
        BY <2>2, <4>1 DEF Running, CmdRing
      <4>3. Number(i) >= 1
        BY <2>2, <4>1
      <4>4. Number(i) \in 1 .. Len(issued)
        BY <1>2, <4>3, NumberBound
      <4> QED BY <1>2, <4>1, <4>2, <4>4
    <3> QED BY <3>1, <3>2
  <2>3. cmd_ring'[LinkAt].cycle = 1 - drv'.cmd_cycle
    BY <1>4, <1>8 DEF Running, CmdRing, Trb
  <2> QED BY <2>1, <2>2, <2>3 DEF CmdRing
<1>11. /\ 0 <= Len(issued) - Len(executed) /\ Len(issued) - Len(executed) < LinkAt
       /\ taken <= Len(executed)
  BY <1>2, Sizes DEF Running, Behind, Reported
<1>12. Behind'
  <2> DEFINE d == Len(issued) - Len(executed)
  <2>1. Len(issued') - Len(executed') = d + 1 /\ d \in Nat /\ d < LinkAt
    BY <1>2, <1>11
  <2>2. hw' = hw /\ hw.deq \in Nat /\ hw.deq <= LinkAt /\ hw.ccs \in 0 .. 1
    BY Sizes DEF Types, HwType, CmdIndexes
  <2>3. \/ hw.ccs = drv.cmd_cycle /\ hw.deq + d = i0
        \/ /\ hw.ccs = 1 - drv.cmd_cycle /\ hw.deq + d = i0 + LinkAt
           /\ cmd_ring[LinkAt].kind = "link"
    BY DEF Running, Behind
  <2>4. \/ hw.ccs = drv'.cmd_cycle /\ hw.deq + d + 1 = drv'.cmd_index
        \/ /\ hw.ccs = 1 - drv'.cmd_cycle /\ hw.deq + d + 1 = drv'.cmd_index + LinkAt
           /\ cmd_ring'[LinkAt].kind = "link"
    <3>1. CASE i0 + 1 # LinkAt
      BY <1>1, <1>4, <1>8, <2>1, <2>2, <2>3, <3>1, Sizes
    <3>2. CASE i0 + 1 = LinkAt
      <4>1. cmd_ring'[LinkAt].kind = "link"
        BY <1>8, <3>2 DEF Trb
      <4>2. CASE hw.ccs = drv.cmd_cycle /\ hw.deq + d = i0
        <5>1. drv'.cmd_index = 0 /\ drv'.cmd_cycle = 1 - drv.cmd_cycle
          BY <1>4, <3>2
        <5>2. hw.ccs = 1 - drv'.cmd_cycle
          BY <1>4, <4>2, <5>1
        <5>3. hw.deq + d + 1 = drv'.cmd_index + LinkAt
          BY <1>1, <3>2, <4>2, <5>1
        <5> QED BY <4>1, <5>2, <5>3
      <4>3. CASE hw.ccs = 1 - drv.cmd_cycle /\ hw.deq + d = i0 + LinkAt
        <5>1. hw.deq = LinkAt /\ d = LinkAt - 1
          <6>1. hw.deq \in Nat /\ d \in Nat /\ i0 \in Nat /\ LinkAt \in Nat
            BY <1>1, <2>1, <2>2, Sizes
          <6>2. i0 + 1 = LinkAt /\ hw.deq <= LinkAt /\ d < LinkAt /\ hw.deq + d = i0 + LinkAt
            BY <2>1, <2>2, <3>2, <4>3
          <6> HIDE DEF d, i0
          <6> QED BY <6>1, <6>2, LastOfRound, SMTT(20)
        \* The controller has executed a whole round, which the driver has seen.
        <5>2. Len(executed) >= LinkAt
          BY <5>1 DEF Running, Behind
        <5>3. Len(issued) - Len(executed) = LinkAt - 1
          BY Zenon, <5>1
        <5> QED BY Zenon, <1>2, <1>11, <5>2, <5>3, RoundSeen, Sizes
      <4> QED BY <2>3, <4>2, <4>3
    <3> QED BY <3>1, <3>2
  <2>5. hw.deq <= Len(executed) /\ executed' = executed
    BY DEF Running, Behind
  <2> HIDE DEF d
  <2>6. 0 <= d + 1 /\ d + 1 <= LinkAt /\ hw.deq + (d + 1) = hw.deq + d + 1
    <3>1. d \in Nat /\ d < LinkAt /\ LinkAt \in Nat /\ hw.deq \in Nat
      BY <2>1, <2>2, Sizes
    <3> QED BY <3>1, SMTT(20)
  <2>7. Len(issued') - Len(executed') = d + 1
    BY <2>1
  <2>8. hw' = hw /\ executed' = executed /\ hw.deq <= Len(executed)
    BY <2>2, <2>5
  <2> QED BY <2>4, <2>6, <2>7, <2>8 DEF Behind
<1>13. Executed'
  BY <1>2, <1>11 DEF Running, Executed
<1>14. EventRing'
  BY <1>3 DEF Running, EventRing
<1>15. /\ \A i \in EventIndexes : Offset(i)' = Offset(i) /\ Clear(i)' = Clear(i)
       /\ Offset(hw.enq)' = Offset(hw.enq)
       /\ Pending' = Pending
  BY <1>3 DEF Offset, Clear, Pending
<1>16. Completions'
  <2> SUFFICES ASSUME NEW i \in Pending, Clear(i)
               PROVE  /\ event_ring[i].trb \in CmdSlots
                      /\ Number(event_ring[i].trb)' = taken + 1 + Offset(i)
                      /\ taken + 1 + Offset(i) <= Len(executed)
    BY <1>15 DEF Completions, Pending
  <2>1. /\ event_ring[i].trb \in CmdSlots
        /\ Number(event_ring[i].trb) = taken + 1 + Offset(i)
        /\ taken + 1 + Offset(i) <= Len(executed)
    BY DEF Running, Completions
  <2>2. Offset(i) \in Nat
    BY Zenon, OffsetFacts DEF Pending
  <2>3. Number(i0) = Len(issued) + 1 - LinkAt
    BY <1>1, <1>2, Sizes DEF Number
  <2>4. event_ring[i].trb # i0
    BY <1>2, <2>1, <2>2, <2>3, Sizes
  <2> QED BY <1>5, <2>1, <2>4
<1>17. Reported'
  BY <1>15 DEF Running, Reported
<1>18. SlotsOwned'
  <2>1. \A p, t : Owned(p, t)' <=> Owned(p, t)
    BY DEF Owned
  <2>2. ASSUME NEW i \in CmdSlots
        PROVE  /\ cmd_ring'[i].kind = "address" => Owned(cmd_ring'[i].port, cmd_ring'[i].slot)
               /\ cmd_ring'[i].kind = "enable" => cmd_ring'[i].port # 0
    <3>1. CASE i = i0
      BY <1>8, <3>1 DEF Trb, Port
    <3>2. CASE i # i0
      BY <1>8, <3>2 DEF Running, SlotsOwned
    <3> QED BY <3>1, <3>2
  <2>3. ASSUME NEW i \in Pending, Clear(i), event_ring[i].code = 1
        PROVE  issued'[taken + 1 + Offset(i)] = issued[taken + 1 + Offset(i)]
    <3>1. taken + 1 + Offset(i) <= Len(executed)
      BY <2>3 DEF Running, Completions
    <3>2. Offset(i) \in Nat
      BY Zenon, OffsetFacts DEF Pending
    <3> QED BY <1>2, <1>11, <3>1, <3>2
  <2>4. ASSUME NEW i \in Pending, Clear(i), event_ring[i].code = 1
        PROVE  LET command == issued'[taken + 1 + Offset(i)]
                   t == event_ring[i].slot
               IN  /\ Owned(command[2], t)
                   /\ command[1] = "address" => hw.device[t] = command[2]
    BY <2>3, <2>4 DEF Running, SlotsOwned
  <2>5. \A a \in addressed :
           a \in Nat \X Nat /\ Owned(a[1], a[2]) /\ hw.device[a[2]] = a[1]
    BY DEF Running, SlotsOwned
  <2>6. \A i \in Pending : i \in EventIndexes
    BY DEF Pending
  <2> QED BY <1>15, <2>1, <2>2, <2>4, <2>5, <2>6 DEF SlotsOwned
<1>19. Number(drv.expected)' = Len(issued)'
  <2>1. PICK x \in CmdSlots : x = i0
    BY <1>1
  <2>2. Number(x)' = Len(issued) + 1
    BY <1>5, <2>1
  <2>3. drv'.expected = x
    BY <1>3, <2>1
  <2>4. Number(drv.expected)' = Number(x)'
    BY <2>3 DEF Number
  <2> QED BY <1>2, <2>2, <2>4
<1> QED BY <1>2, <1>3, <1>9, <1>10, <1>12, <1>13, <1>14, <1>16, <1>17, <1>18, <1>19

\* xhci_init_rings establishes the invariant of the rings.
LEMMA RingsKeep == RingInv /\ xhci_init_rings => RingInv'
<1> SUFFICES ASSUME RingInv, xhci_init_rings PROVE RingInv'
  OBVIOUS
<1>1. Types /\ XhciInit(ports) /\ Len(ports) <= LinkAt
  BY DEF RingInv, xhci_init_rings, Fresh
<1>2. /\ drv' = [pc |-> "ports", cmd_index |-> 0, cmd_cycle |-> 1, event_index |-> 0,
                 event_cycle |-> 1, expected |-> 0, port |-> 0, slot |-> 0]
      /\ hw' = [status |-> "running", deq |-> 0, ccs |-> 1, enq |-> 0, pcs |-> 1, erdp |-> 0,
                owner |-> [t \in Slots |-> 0], device |-> [t \in Slots |-> 0],
                port_events |-> 0]
  BY Zenon, <1>1 DEF xhci_init_rings, XhciInit
<1>3. /\ cmd_ring' = [i \in CmdIndexes |-> NoTrb] /\ event_ring' = [i \in EventIndexes |-> NoEvent]
      /\ issued' = <<>> /\ executed' = <<>> /\ taken' = 0 /\ addressed' = {} /\ ports' = ports
  BY <1>1 DEF xhci_init_rings, XhciInit
<1>4. Len(issued') = 0 /\ Len(executed') = 0
  BY <1>3
<1>5. Types'
  <2>1. drv' \in DrvType
    BY <1>2, Sizes DEF DrvType, CmdSlots, EventIndexes
  <2>2. hw' \in HwType
    BY <1>2, Sizes DEF HwType, CmdIndexes, EventIndexes
  <2>3. /\ cmd_ring' \in [CmdIndexes -> TrbType] /\ event_ring' \in [EventIndexes -> EventType]
        /\ issued' \in Seq(Commands) /\ executed' \in Seq(Commands) /\ taken' \in Nat
        /\ ports' \in Seq(Port)
    BY <1>1, <1>3 DEF Types, xhci_init_rings
  <2> QED BY <2>1, <2>2, <2>3 DEF Types
<1>6. \A i \in CmdSlots : i \in Nat /\ i < LinkAt /\ i \in CmdIndexes
  BY Sizes DEF CmdSlots, CmdIndexes
<1>7. CmdRing'
  <2>1. ASSUME NEW i \in CmdSlots PROVE Number(i)' < 1
    BY <1>2, <1>4, <1>6, Sizes DEF Number
  <2>2. LinkAt \in CmdIndexes
    BY Sizes DEF CmdIndexes
  <2>3. \A i \in CmdSlots : ~(Number(i)' >= 1)
    <3> SUFFICES ASSUME NEW i \in CmdSlots, Number(i)' >= 1 PROVE FALSE
      OBVIOUS
    <3>1. Number(i)' \in Int
      BY <1>2, <1>4, <1>6, Sizes DEF Number
    <3> QED BY <2>1, <3>1
  <2> QED BY <1>2, <1>3, <1>6, <2>2, <2>3 DEF CmdRing, NoTrb, Trb
<1>8. Behind' /\ Executed'
  BY <1>2, <1>4, Sizes DEF Behind, Executed
<1>9. EventRing'
  BY <1>2, <1>3 DEF EventRing, NoEvent, Event, EventIndexes
<1>10. Pending' = {}
  BY <1>2, Sizes DEF Pending, Offset, EventIndexes
<1>11. Offset(hw.enq)' = 0
  BY <1>2 DEF Offset
<1>12. Completions' /\ Reported'
  BY <1>2, <1>3, <1>4, <1>10, <1>11 DEF Completions, Reported
<1>13. Budget' /\ Driver'
  <2>1. Len(ports) \in Nat
    BY <1>1 DEF Types
  <2> QED BY <1>1, <1>2, <1>3, <1>4, <2>1, Sizes DEF Budget, Needed, Driver
<1>14. SlotsOwned'
  BY <1>3, <1>6, <1>10 DEF SlotsOwned, NoTrb, Trb
<1> QED BY <1>2, <1>5, <1>7, <1>8, <1>9, <1>12, <1>13, <1>14 DEF RingInv, Running

\* Writing Enable Slot keeps it: the port that is taken off pays for the TRB.
LEMMA EnableKeeps == RingInv /\ EnableSlot => RingInv'
<1> SUFFICES ASSUME RingInv, EnableSlot PROVE RingInv'
  OBVIOUS
<1>1. Types /\ Running
  BY DEF RingInv, EnableSlot
<1>2. /\ ports \in Seq(Port) /\ ports # <<>> /\ ports' = Tail(ports)
      /\ Head(ports) \in Port /\ ports' \in Seq(Port)
      /\ Len(ports) \in Nat /\ Len(ports) >= 1 /\ Len(ports') = Len(ports) - 1
  BY <1>1 DEF Types, EnableSlot
<1>3. Len(issued) \in Nat /\ taken \in Nat
  BY <1>1 DEF Types
<1>4. /\ Len(issued) - taken < LinkAt
      /\ taken >= 2 => Len(issued) - taken < LinkAt - 1
  BY <1>1, <1>2, <1>3, Sizes DEF Running, Budget, Needed
<1>5. /\ xhci_cmd("enable", Head(ports), 0)
      /\ UNCHANGED <<event_ring, hw, addressed, executed, taken>>
  BY DEF EnableSlot
<1>6. /\ Types' /\ CmdRing' /\ Behind' /\ Executed' /\ EventRing' /\ Completions' /\ Reported'
      /\ SlotsOwned'
      /\ drv'.pc = "enable" /\ Number(drv.expected)' = Len(issued)'
      /\ issued' = Append(issued, <<"enable", Head(ports)>>)
      /\ drv'.port = Head(ports)
  BY <1>1, <1>2, <1>4, <1>5, WriteCommand
<1>7. /\ Len(issued') = Len(issued) + 1 /\ issued'[Len(issued')] = <<"enable", Head(ports)>>
      /\ \A k \in 1 .. Len(issued) : issued'[k] = issued[k]
  BY <1>1, <1>6 DEF Types
<1>8. Budget'
  <2>1. Needed' = Needed /\ taken' = taken
    BY <1>2, <1>3, <1>5, <1>7 DEF Needed
  <2>2. Budget
    BY <1>1 DEF Running
  <2> QED BY <1>3, <1>7, <2>1, <2>2 DEF Budget
<1>9. Driver'
  BY <1>3, <1>6, <1>7 DEF Driver
<1> QED BY <1>1, <1>5, <1>6, <1>8, <1>9 DEF RingInv, Running

\* Writing Address Device keeps it: the completion of Enable Slot pays for the TRB.
LEMMA AddressKeeps == RingInv /\ AddressDevice => RingInv'
<1> SUFFICES ASSUME RingInv, AddressDevice PROVE RingInv'
  OBVIOUS
<1>1. Types /\ Running
  BY DEF RingInv, AddressDevice
<1>2. /\ taken = Len(issued) /\ Len(ports) < LinkAt
      /\ taken >= 2 => Len(ports) < LinkAt - 1
      /\ drv.slot \in Slots /\ drv.port \in Port /\ hw.owner[drv.slot] = drv.port
  BY <1>1 DEF Running, Driver, AddressDevice
<1>3. Len(issued) \in Nat /\ taken \in Nat /\ Len(ports) \in Nat /\ ports' \in Seq(Port)
  BY <1>1 DEF Types, AddressDevice
<1>4. /\ Len(issued) - taken < LinkAt
      /\ taken >= 2 => Len(issued) - taken < LinkAt - 1
  BY <1>2, <1>3, Sizes
<1>5. /\ xhci_cmd("address", drv.port, drv.slot) /\ ports' = ports
      /\ UNCHANGED <<event_ring, hw, addressed, executed, taken>>
  BY DEF AddressDevice
<1>6. drv.slot \in Nat /\ Owned(drv.port, drv.slot)
  BY <1>2 DEF Owned, Port, Slots
<1>7. /\ Types' /\ CmdRing' /\ Behind' /\ Executed' /\ EventRing' /\ Completions' /\ Reported'
      /\ SlotsOwned'
      /\ drv'.pc = "address" /\ Number(drv.expected)' = Len(issued)'
      /\ issued' = Append(issued, <<"address", drv.port>>)
      /\ drv'.port = drv.port
  BY <1>1, <1>2, <1>3, <1>4, <1>5, <1>6, WriteCommand
<1>8. /\ Len(issued') = Len(issued) + 1 /\ issued'[Len(issued')] = <<"address", drv.port>>
  BY <1>1, <1>7 DEF Types
<1>9. Budget'
  BY <1>2, <1>3, <1>5, <1>8, Sizes DEF Budget, Needed
<1>10. Driver'
  BY <1>3, <1>7, <1>8 DEF Driver
<1> QED BY <1>1, <1>5, <1>7, <1>9, <1>10 DEF RingInv, Running

\* A completion that xhci_wait_cmd finds is the first of those that wait.
LEMMA FoundIsFirst ==
  ASSUME Types, EventRing, Completed
  PROVE  drv.event_index \in Pending /\ Clear(drv.event_index)
<1> DEFINE x == drv.event_index
<1>1. x \in EventIndexes /\ hw.enq \in EventIndexes /\ hw.pcs \in 0 .. 1 /\ drv.event_cycle \in 0 .. 1
  BY DEF Types, DrvType, HwType
<1>2. event_ring[x].cycle = drv.event_cycle /\ event_ring[x].type = "completion"
  BY DEF Completed, Polled
<1>3. Offset(hw.enq) > 0
  <2>1. event_ring[x].cycle = IF x < hw.enq THEN hw.pcs ELSE 1 - hw.pcs
    BY <1>1 DEF EventRing
  <2>2. CASE hw.pcs = drv.event_cycle /\ x <= hw.enq
    <3>1. x < hw.enq
      BY <1>1, <1>2, <2>1, <2>2
    <3> QED BY <1>1, <3>1, Sizes DEF Offset, EventIndexes
  <2>3. CASE hw.pcs = 1 - drv.event_cycle /\ hw.enq < x
    BY <1>1, <2>3, Sizes DEF Offset, EventIndexes
  <2> QED BY <2>2, <2>3 DEF EventRing
<1>4. x \in Pending
  BY <1>1, <1>3, OffsetFacts DEF Pending
<1>5. Clear(x)
  <2> SUFFICES ASSUME NEW j \in EventIndexes, Offset(j) <= Offset(x)
               PROVE  event_ring[j].type = "completion"
    BY DEF Clear
  <2>1. j = x
    BY <1>1, OffsetFacts
  <2> QED BY <1>2, <2>1
<1> QED BY <1>4, <1>5

\* Taking a completion keeps it: it answers the command after the last one taken, and
\* the awaited one exactly if it names its TRB.
LEMMA WaitKeeps == RingInv /\ xhci_wait_cmd => RingInv'
<1> SUFFICES ASSUME RingInv, xhci_wait_cmd PROVE RingInv'
  OBVIOUS
<1> DEFINE x == drv.event_index
<1>1. Types /\ Running /\ Completed /\ drv.pc \in {"enable", "address"}
  BY DEF RingInv, xhci_wait_cmd
<1>2. /\ x \in Pending /\ Clear(x) /\ x \in EventIndexes /\ x \in Nat
      /\ Polled = event_ring[x] /\ Polled \in EventType /\ Polled.type = "completion"
  BY <1>1, FoundIsFirst, OffsetFacts DEF Running, Completed, Polled, Types, EventIndexes
<1>3. /\ Polled.trb \in CmdSlots /\ Number(Polled.trb) = taken + 1
      /\ taken + 1 <= Len(executed)
  <2>1. /\ Polled.trb \in CmdSlots /\ Number(Polled.trb) = taken + 1 + Offset(x)
        /\ taken + 1 + Offset(x) <= Len(executed)
    BY <1>1, <1>2 DEF Running, Completions
  <2> QED BY <1>1, <2>1, OffsetFacts DEF Types
<1>4. /\ Len(issued) \in Nat /\ Len(executed) \in Nat /\ taken \in Nat /\ Len(ports) \in Nat
      /\ taken' = taken + 1
      /\ UNCHANGED <<ports, cmd_ring, event_ring, issued, executed>>
  BY <1>1 DEF Types, xhci_wait_cmd
<1>5. PICK pc \in {"contexts", "ports"} :
        /\ pc = "contexts" => drv.pc = "enable" /\ Succeeded
        /\ drv' = Advanced(pc, Polled.slot)
  BY DEF xhci_wait_cmd
<1>6. /\ drv'.pc = pc /\ drv'.slot = Polled.slot /\ drv'.port = drv.port
      /\ drv'.cmd_index = drv.cmd_index /\ drv'.cmd_cycle = drv.cmd_cycle
      /\ drv'.event_index = IF x + 1 = EVENT_RING_TRBS THEN 0 ELSE x + 1
      /\ drv'.event_cycle = IF x + 1 = EVENT_RING_TRBS THEN 1 - drv.event_cycle ELSE drv.event_cycle
      /\ drv' \in DrvType
  <2> DEFINE e == IF x + 1 = EVENT_RING_TRBS THEN 0 ELSE x + 1
             y == IF x + 1 = EVENT_RING_TRBS THEN 1 - drv.event_cycle ELSE drv.event_cycle
  <2>1. drv' = [drv EXCEPT !.pc = pc, !.slot = Polled.slot, !.event_index = e, !.event_cycle = y]
    BY <1>5 DEF Advanced
  <2>2. drv \in DrvType
    BY <1>1 DEF Types
  <2>3. e \in EventIndexes
    BY <1>2, Sizes DEF EventIndexes
  <2>4. y \in 0 .. 1
    BY <2>2 DEF DrvType
  <2>5. Polled.slot \in Nat
    BY <1>2 DEF EventType
  <2> HIDE DEF e, y
  <2>6. /\ drv'.pc = pc /\ drv'.slot = Polled.slot /\ drv'.port = drv.port
        /\ drv'.cmd_index = drv.cmd_index /\ drv'.cmd_cycle = drv.cmd_cycle
        /\ drv'.event_index = e /\ drv'.event_cycle = y
        /\ drv' \in DrvType
    BY Zenon, <2>1, <2>2, <2>3, <2>4, <2>5 DEF DrvType
  <2> QED BY <2>6 DEF e, y
<1>7. /\ hw' = [hw EXCEPT !.erdp = drv'.event_index] /\ hw' \in HwType
      /\ hw'.erdp = drv'.event_index /\ hw'.status = hw.status /\ hw'.deq = hw.deq
      /\ hw'.ccs = hw.ccs /\ hw'.enq = hw.enq /\ hw'.pcs = hw.pcs /\ hw'.owner = hw.owner
      /\ hw'.device = hw.device /\ hw'.port_events = hw.port_events
  <2>1. hw' = [hw EXCEPT !.erdp = drv'.event_index] /\ hw \in HwType
    BY <1>1 DEF xhci_wait_cmd, Types
  <2>2. drv'.event_index \in EventIndexes
    BY <1>6 DEF DrvType
  <2> QED BY <2>1, <2>2 DEF HwType
<1>8. Types'
  BY <1>1, <1>4, <1>6, <1>7 DEF Types
<1>9. \A i \in CmdSlots : Number(i)' = Number(i)
  BY <1>4, <1>6 DEF Number
<1>10. CmdRing' /\ Behind' /\ Executed'
  <2>1. CmdRing /\ Behind /\ Executed
    BY <1>1 DEF Running
  <2>2. CmdRing'
    BY <1>4, <1>6, <1>9, <2>1 DEF CmdRing
  <2> QED BY <1>4, <1>6, <1>7, <2>1, <2>2 DEF Behind, Executed
<1>11. /\ \A i \in EventIndexes :
            Offset(i)' = IF i = x THEN EVENT_RING_TRBS - 1 ELSE Offset(i) - 1
       /\ Offset(hw.enq)' = Offset(hw.enq) - 1
       /\ hw.enq \in EventIndexes /\ Offset(hw.enq) > 0
  <2>1. hw.enq \in EventIndexes /\ Offset(hw.enq) > 0
    BY <1>1, <1>2, OffsetFacts DEF Pending
  <2>2. ASSUME NEW i \in EventIndexes
        PROVE  Offset(i)' = IF i = x THEN EVENT_RING_TRBS - 1 ELSE Offset(i) - 1
    <3>1. Offset(i)' = i - drv'.event_index + (IF i < drv'.event_index THEN EVENT_RING_TRBS ELSE 0)
      BY DEF Offset
    <3>2. Offset(i) = i - x + (IF i < x THEN EVENT_RING_TRBS ELSE 0)
      BY DEF Offset
    <3>3. i \in Nat /\ i < EVENT_RING_TRBS /\ x \in Nat /\ x < EVENT_RING_TRBS
      BY <1>2, Sizes DEF EventIndexes
    <3>4. CASE x + 1 = EVENT_RING_TRBS
      BY <1>6, <3>1, <3>2, <3>3, <3>4, Sizes
    <3>5. CASE x + 1 # EVENT_RING_TRBS
      BY <1>6, <3>1, <3>2, <3>3, <3>5, Sizes
    <3> QED BY <3>4, <3>5
  <2>3. PICK n \in EventIndexes : n = hw.enq
    BY <2>1
  <2>4. n # x
    BY <1>1, <2>1, <2>3, OffsetFacts
  <2>5. Offset(hw.enq)' = Offset(n)'
    BY <1>7, <2>3 DEF Offset
  <2> QED BY <2>1, <2>2, <2>3, <2>4, <2>5
<1>12. Pending' = Pending \ {x}
  <2>1. Pending' = {i \in EventIndexes : Offset(i)' < Offset(hw.enq)'}
    BY DEF Pending
  <2>2. ASSUME NEW i \in EventIndexes
        PROVE  Offset(i)' < Offset(hw.enq)' <=> i # x /\ Offset(i) < Offset(hw.enq)
    BY <1>1, <1>2, <1>11, OffsetFacts, Sizes
  <2> QED BY <2>1, <2>2 DEF Pending
<1>13. ASSUME NEW i \in Pending', Clear(i)'
       PROVE  i \in Pending /\ Clear(i) /\ Offset(i)' = Offset(i) - 1 /\ Offset(i) \in Nat
  <2>1. i \in Pending /\ i # x /\ i \in EventIndexes
    BY <1>12 DEF Pending
  <2>2. Offset(i)' = Offset(i) - 1 /\ Offset(i) \in Nat
    BY <1>1, <1>11, <2>1, OffsetFacts
  <2>3. ASSUME NEW j \in EventIndexes, Offset(j) <= Offset(i)
        PROVE  event_ring[j].type = "completion"
    <3>1. CASE j = x
      BY <1>2, <3>1
    <3>2. CASE j # x
      <4>1. Offset(j)' <= Offset(i)'
        BY <1>1, <1>11, <2>2, <2>3, <3>2, OffsetFacts
      <4> QED BY <1>4, <1>13, <4>1 DEF Clear
    <3> QED BY <3>1, <3>2
  <2> QED BY <2>1, <2>2, <2>3 DEF Clear
<1>14. ASSUME NEW i \in Pending', Clear(i)'
       PROVE  taken' + 1 + Offset(i)' = taken + 1 + Offset(i)
  BY <1>4, <1>13, <1>14
<1>15. Completions'
  <2> SUFFICES ASSUME NEW i \in Pending', Clear(i)'
               PROVE  /\ event_ring[i].trb \in CmdSlots
                      /\ Number(event_ring[i].trb)' = taken' + 1 + Offset(i)'
                      /\ taken' + 1 + Offset(i)' <= Len(executed)
    BY <1>4 DEF Completions
  <2>1. i \in Pending /\ Clear(i)
    BY <1>13
  <2>2. /\ event_ring[i].trb \in CmdSlots
        /\ Number(event_ring[i].trb) = taken + 1 + Offset(i)
        /\ taken + 1 + Offset(i) <= Len(executed)
    BY <1>1, <2>1 DEF Running, Completions
  <2>3. PICK t \in CmdSlots : t = event_ring[i].trb
    BY <2>2
  <2>4. Number(event_ring[i].trb)' = Number(t)'
    BY <1>4, <2>3
  <2> QED BY <1>9, <1>14, <2>2, <2>3, <2>4
<1>16. Reported'
  <2>1. CASE hw.port_events = 0
    BY <1>1, <1>3, <1>4, <1>7, <1>11, <1>12, <2>1, OffsetFacts DEF Running, Reported
  <2>2. CASE hw.port_events # 0
    <3>1. hw.port_events \in Nat
      BY <1>1 DEF Types, HwType
    <3>2. PICK i \in Pending : event_ring[i].type = "port"
      BY <1>1, <2>2, <3>1 DEF Running, Reported
    <3>3. i \in Pending'
      BY <1>2, <1>12, <3>2
    <3> QED BY <1>3, <1>4, <1>7, <2>2, <3>2, <3>3 DEF Reported
  <2> QED BY <2>1, <2>2
<1>17. EventRing'
  <2>1. EventRing /\ event_ring' = event_ring
    BY <1>1, <1>4 DEF Running
  <2>2. hw.enq \in Nat /\ hw.enq < EVENT_RING_TRBS /\ hw.pcs \in 0 .. 1 /\ drv.event_cycle \in 0 .. 1
    BY <1>1, Sizes DEF Types, HwType, DrvType, EventIndexes
  <2>3. \/ hw.pcs = drv.event_cycle /\ x < hw.enq
        \/ hw.pcs = 1 - drv.event_cycle /\ hw.enq < x
    <3>1. hw.enq # x
      BY <1>1, <1>11, OffsetFacts
    <3> QED BY <1>2, <2>1, <2>2, <3>1 DEF EventRing
  <2>4. \/ hw.pcs = drv'.event_cycle /\ drv'.event_index <= hw.enq
        \/ hw.pcs = 1 - drv'.event_cycle /\ hw.enq < drv'.event_index
    BY <1>2, <1>6, <2>2, <2>3, Sizes
  <2> QED BY <1>7, <2>1, <2>4 DEF EventRing
<1>18. Budget'
  <2>1. Needed' = Needed - 1 /\ Needed \in Int
    BY <1>4 DEF Needed
  <2>2. Needed <= LinkAt
    BY <1>1 DEF Running, Budget
  <2> QED BY <1>4, <2>1, <2>2, Sizes DEF Budget
\* A success is that of the last command: every command has been answered.
<1>19. ASSUME Succeeded
       PROVE  /\ taken + 1 = Len(issued) /\ issued[taken + 1] = <<drv.pc, drv.port>>
              /\ Owned(drv.port, Polled.slot)
              /\ drv.pc = "address" => hw.device[Polled.slot] = drv.port
  <2>1. Number(drv.expected) = Len(issued) /\ issued[Len(issued)] = <<drv.pc, drv.port>>
    BY <1>1 DEF Running, Driver
  <2>2. taken + 1 = Len(issued)
    BY <1>3, <1>19, <2>1 DEF Succeeded
  <2>3. taken + 1 + Offset(x) = Len(issued)
    BY <1>1, <1>4, <2>2, OffsetFacts
  <2>4. event_ring[x].code = 1
    BY <1>2, <1>19 DEF Succeeded
  <2>5. LET command == issued[taken + 1 + Offset(x)]
            slot == event_ring[x].slot
        IN  /\ Owned(command[2], slot)
            /\ command[1] = "address" => hw.device[slot] = command[2]
    BY <1>1, <1>2, <2>4 DEF Running, SlotsOwned
  <2> QED BY <1>2, <2>1, <2>2, <2>3, <2>5
<1>20. Driver'
  <2>1. CASE pc = "ports"
    BY <1>6, <2>1 DEF Driver
  <2>2. CASE pc = "contexts"
    <3>1. /\ taken + 1 = Len(issued) /\ issued[taken + 1] = <<"enable", drv.port>>
          /\ Owned(drv.port, Polled.slot)
      BY <1>5, <1>19, <2>2
    <3>2. Budget /\ Needed = 1 + Len(ports)
      BY <1>1, <1>4, <3>1 DEF Running, Needed
    <3>3. Len(ports) < LinkAt
      BY <1>4, <3>2, Sizes DEF Budget
    <3>4. taken + 1 >= 2 => Len(ports) < LinkAt - 1
      <4> SUFFICES ASSUME taken + 1 >= 2 PROVE Len(ports) < LinkAt - 1
        OBVIOUS
      <4>1. CASE taken = 1
        <5>1. issued[2][1] = "enable"
          BY <3>1, <4>1
        <5>2. Needed # LinkAt
          BY <3>2, <4>1, <5>1 DEF Budget
        <5> QED BY <1>4, <3>2, <5>2, Sizes DEF Budget
      <4>2. CASE taken >= 2
        BY <1>4, <3>2, <4>2, Sizes DEF Budget
      <4> QED BY <1>4, <4>1, <4>2
    <3>5. drv.port \in Port
      BY <1>1, <3>1 DEF Types, DrvType, Port, Owned
    <3> QED BY <1>4, <1>6, <1>7, <2>2, <3>1, <3>3, <3>4, <3>5 DEF Driver, Owned
  <2> QED BY <1>5, <2>1, <2>2
<1>21. SlotsOwned'
  <2>1. \A p, t : Owned(p, t)' <=> Owned(p, t)
    BY <1>7 DEF Owned
  <2>2. SlotsOwned
    BY <1>1 DEF Running
  <2>3. ASSUME NEW i \in Pending', Clear(i)', event_ring[i].code = 1
        PROVE  LET command == issued[taken' + 1 + Offset(i)']
                   slot == event_ring[i].slot
               IN  /\ Owned(command[2], slot)
                   /\ command[1] = "address" => hw.device[slot] = command[2]
    <3>1. i \in Pending /\ Clear(i)
      BY <1>13, <2>3
    <3>2. taken' + 1 + Offset(i)' = taken + 1 + Offset(i)
      BY <1>14, <2>3
    <3> QED BY <2>2, <2>3, <3>1, <3>2 DEF SlotsOwned
  <2>4. ASSUME NEW a \in addressed'
        PROVE  a \in Nat \X Nat /\ Owned(a[1], a[2]) /\ hw.device[a[2]] = a[1]
    <3>1. CASE a \in addressed
      BY <2>2, <3>1 DEF SlotsOwned
    <3>2. CASE a \notin addressed
      <4>1. drv.pc = "address" /\ Succeeded /\ a = <<drv.port, Polled.slot>>
        BY <3>2 DEF xhci_wait_cmd
      <4>2. drv.port \in Nat /\ Polled.slot \in Nat
        BY <1>1, <1>2 DEF Types, DrvType, EventType
      <4> QED BY <1>19, <4>1, <4>2
    <3> QED BY <3>1, <3>2
  <2> QED BY <1>4, <1>7, <2>1, <2>2, <2>3, <2>4 DEF SlotsOwned
<1> QED BY <1>1, <1>5, <1>6, <1>7, <1>8, <1>10, <1>15, <1>16, <1>17, <1>18, <1>20, <1>21
       DEF RingInv, Running

\* A command that is given up, and a port without contexts, change only what the
\* driver does next.
LEMMA GivesUpKeeps ==
  ASSUME RingInv, drv.pc # "rings", NEW slot \in Nat,
         \/ drv' = [drv EXCEPT !.pc = "ports", !.slot = slot]
         \/ drv' = [drv EXCEPT !.pc = "ports"],
         UNCHANGED <<ports, cmd_ring, event_ring, hw, addressed, issued, executed, taken>>
  PROVE  RingInv'
<1>1. Types /\ Running
  BY DEF RingInv
<1>2. /\ drv' \in DrvType /\ drv'.pc = "ports" /\ drv'.cmd_index = drv.cmd_index
      /\ drv'.cmd_cycle = drv.cmd_cycle /\ drv'.event_index = drv.event_index
      /\ drv'.event_cycle = drv.event_cycle
  BY Zenon, <1>1 DEF Types, DrvType
<1>3. Types' /\ Driver' /\ Budget'
  BY <1>1, <1>2 DEF Types, Driver, Running, Budget, Needed
<1>4. \A i \in CmdSlots : Number(i)' = Number(i)
  BY <1>2 DEF Number
<1>5. CmdRing' /\ Behind' /\ Executed' /\ EventRing'
  <2>1. CmdRing'
    BY <1>1, <1>2, <1>4 DEF Running, CmdRing
  <2> QED BY <1>1, <1>2, <2>1 DEF Running, Behind, Executed, EventRing
<1>6. /\ \A i \in EventIndexes : Offset(i)' = Offset(i) /\ Clear(i)' = Clear(i)
      /\ Offset(hw.enq)' = Offset(hw.enq)
      /\ Pending' = Pending
  BY <1>2 DEF Offset, Clear, Pending
<1>7. \A i \in Pending : i \in EventIndexes
  BY DEF Pending
<1>8. Completions'
  <2> SUFFICES ASSUME NEW i \in Pending, Clear(i)
               PROVE  /\ event_ring[i].trb \in CmdSlots
                      /\ Number(event_ring[i].trb)' = taken + 1 + Offset(i)
                      /\ taken + 1 + Offset(i) <= Len(executed)
    BY <1>6, <1>7 DEF Completions
  <2>1. /\ event_ring[i].trb \in CmdSlots
        /\ Number(event_ring[i].trb) = taken + 1 + Offset(i)
        /\ taken + 1 + Offset(i) <= Len(executed)
    BY <1>1 DEF Running, Completions
  <2>2. PICK t \in CmdSlots : t = event_ring[i].trb
    BY <2>1
  <2>3. Number(event_ring[i].trb)' = Number(t)'
    BY <2>2
  <2> QED BY <1>4, <2>1, <2>2, <2>3
<1>9. Reported' /\ SlotsOwned'
  <2>1. Reported'
    BY <1>1, <1>6 DEF Running, Reported
  <2>2. \A p, t : Owned(p, t)' <=> Owned(p, t)
    BY DEF Owned
  <2>3. SlotsOwned'
    BY <1>1, <1>6, <1>7, <2>2 DEF Running, SlotsOwned
  <2> QED BY <2>1, <2>3
<1> QED BY <1>1, <1>2, <1>3, <1>5, <1>8, <1>9 DEF RingInv, Running
=============================================================================
