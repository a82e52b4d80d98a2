----------------------------- MODULE XhciProofs -----------------------------
(***************************************************************************)
(* The theorems about the xHCI driver's rings, as part of the boot: RingInv*)
(* (XhciInv) holds at the start, and every step of the kernel and of the   *)
(* controller keeps it.                                                    *)
(***************************************************************************)
EXTENDS Boot, XhciDriverProofs

\* The solver gets more time than by default; the steps that are first-order reasoning
\* cite Zenon.
USE SMTT(30), ZenonT(30), SMTT(31)

----------------------------------------------------------------------------
(* The controller's steps.                                                 *)

\* Following the link TRB keeps it: the controller starts the round that the driver
\* is in.
LEMMA LinkKeeps == RingInv /\ HwLink => RingInv'
<1> SUFFICES ASSUME RingInv, HwLink PROVE RingInv'
  OBVIOUS
<1>1. Types /\ Running /\ drv.pc # "rings"
  <2>1. hw.status = "running"
    BY DEF HwLink, HwOwns
  <2> QED BY <2>1 DEF RingInv, Fresh, XhciInit
<1>2. /\ UNCHANGED <<ports, drv, cmd_ring, event_ring, addressed, issued, executed, taken>>
      /\ hw' = [hw EXCEPT !.deq = 0, !.ccs = 1 - hw.ccs] /\ hw \in HwType
      /\ cmd_ring[hw.deq].cycle = hw.ccs /\ cmd_ring[hw.deq].kind = "link"
  BY <1>1 DEF HwLink, HwOwns, Types
<1>3. /\ hw' \in HwType /\ hw'.deq = 0 /\ hw'.ccs = 1 - hw.ccs /\ hw'.status = hw.status
      /\ hw'.erdp = hw.erdp /\ hw'.enq = hw.enq /\ hw'.pcs = hw.pcs /\ hw'.owner = hw.owner
      /\ hw'.device = hw.device /\ hw'.port_events = hw.port_events
  <2>1. 0 \in CmdIndexes /\ 1 - hw.ccs \in 0 .. 1
    BY <1>2, Sizes DEF HwType, CmdIndexes
  <2> QED BY Zenon, <1>2, <2>1 DEF HwType
<1>4. hw.deq = LinkAt
  <2>1. hw.deq \notin CmdSlots
    BY <1>1, <1>2 DEF Running, CmdRing
  <2>2. hw.deq \in 0 .. LinkAt
    BY <1>2, Sizes DEF HwType, CmdIndexes
  <2> QED BY <2>1, <2>2, Sizes DEF CmdSlots
<1>5. Behind'
  <2> DEFINE d == Len(issued) - Len(executed)
  <2>1. /\ Len(issued) \in Nat /\ Len(executed) \in Nat
        /\ drv.cmd_index \in Nat /\ drv.cmd_index < LinkAt /\ drv.cmd_cycle \in 0 .. 1
        /\ hw.ccs \in 0 .. 1
    BY <1>1, Sizes DEF Types, DrvType, HwType, CmdSlots
  <2>2. /\ 0 <= d /\ d <= LinkAt
        /\ \/ hw.ccs = drv.cmd_cycle /\ LinkAt + d = drv.cmd_index
           \/ hw.ccs = 1 - drv.cmd_cycle /\ LinkAt + d = drv.cmd_index + LinkAt
    BY <1>1, <1>4 DEF Running, Behind
  <2>3. hw.ccs = 1 - drv.cmd_cycle /\ d = drv.cmd_index
    BY <2>1, <2>2, Sizes
  <2> HIDE DEF d
  <2>4. 1 - hw.ccs = drv.cmd_cycle /\ 0 + d = drv.cmd_index
    BY <2>1, <2>3
  <2> QED BY <1>2, <1>3, <2>1, <2>2, <2>4 DEF Behind, d
<1>6. \A i \in CmdSlots : Number(i)' = Number(i)
  BY <1>2 DEF Number
<1>7. Types' /\ CmdRing' /\ Executed' /\ EventRing' /\ Budget' /\ Driver'
  <2>1. Types'
    BY <1>1, <1>2, <1>3 DEF Types
  <2>2. CmdRing' /\ Executed'
    BY <1>1, <1>2, <1>6 DEF Running, CmdRing, Executed
  <2>3. EventRing' /\ Budget'
    BY <1>1, <1>2, <1>3 DEF Running, EventRing, Budget, Needed
  <2>4. Driver'
    BY <1>1, <1>2, <1>3 DEF Running, Driver, Number
  <2> QED BY <2>1, <2>2, <2>3, <2>4
<1>8. /\ \A i \in EventIndexes : Offset(i)' = Offset(i) /\ Clear(i)' = Clear(i)
      /\ Offset(hw.enq)' = Offset(hw.enq)
      /\ Pending' = Pending
  BY <1>2, <1>3 DEF Offset, Clear, Pending
<1>9. \A i \in Pending : i \in EventIndexes
  BY DEF Pending
<1>10. Completions' /\ Reported' /\ SlotsOwned'
  <2>1. Completions'
    BY <1>1, <1>2, <1>6, <1>8, <1>9 DEF Running, Completions
  <2>2. Reported'
    BY <1>1, <1>2, <1>3, <1>8 DEF Running, Reported
  <2>3. \A p, t : Owned(p, t)' <=> Owned(p, t)
    BY <1>3 DEF Owned
  <2>4. SlotsOwned'
    BY <1>1, <1>2, <1>3, <1>8, <1>9, <2>3 DEF Running, SlotsOwned
  <2> QED BY <2>1, <2>2, <2>4
<1> QED BY <1>1, <1>2, <1>3, <1>5, <1>7, <1>10 DEF RingInv, Running

\* Posting an event puts it behind those that wait.
LEMMA PostKeeps ==
  ASSUME Types, EventRing, EventRoom, drv' = drv, NEW e \in EventType, e.cycle = hw.pcs,
         event_ring' = [event_ring EXCEPT ![hw.enq] = e],
         hw'.enq = (IF hw.enq + 1 = EVENT_RING_TRBS THEN 0 ELSE hw.enq + 1),
         hw'.pcs = (IF hw.enq + 1 = EVENT_RING_TRBS THEN 1 - hw.pcs ELSE hw.pcs),
         hw'.erdp = hw.erdp
  PROVE  /\ EventRing'
         /\ event_ring' \in [EventIndexes -> EventType]
         /\ \A i \in EventIndexes : Offset(i)' = Offset(i)
         /\ Offset(hw.enq)' = Offset(hw.enq) + 1
         /\ Pending' = Pending \cup {hw.enq} /\ hw.enq \notin Pending
         /\ \A i \in Pending : event_ring'[i] = event_ring[i] /\ (Clear(i)' <=> Clear(i))
         /\ event_ring'[hw.enq] = e
<1> DEFINE n == hw.enq
           x == drv.event_index
<1>1. /\ n \in EventIndexes /\ x \in EventIndexes /\ hw.pcs \in 0 .. 1 /\ drv.event_cycle \in 0 .. 1
      /\ n \in Nat /\ n < EVENT_RING_TRBS /\ x \in Nat /\ x < EVENT_RING_TRBS
      /\ event_ring \in [EventIndexes -> EventType]
  BY Sizes DEF Types, DrvType, HwType, EventIndexes
<1>2. /\ event_ring' \in [EventIndexes -> EventType]
      /\ \A i \in EventIndexes : event_ring'[i] = IF i = n THEN e ELSE event_ring[i]
  BY <1>1
<1>3. (IF n + 1 = EVENT_RING_TRBS THEN 0 ELSE n + 1) # x
  <2>1. (n + 1) % EVENT_RING_TRBS # x
    BY DEF EventRoom, EventRing
  <2>2. n \in 0 .. EVENT_RING_TRBS - 1
    BY <1>1 DEF EventIndexes
  <2> HIDE DEF n, x
  <2> QED BY <2>1, <2>2, Sizes, Wrapped
<1>4. \/ hw.pcs = drv.event_cycle /\ x <= n
      \/ hw.pcs = 1 - drv.event_cycle /\ n < x
  BY DEF EventRing
<1>5. EventRing'
  <2>1. ASSUME NEW i \in EventIndexes
        PROVE  event_ring'[i].cycle = IF i < hw'.enq THEN hw'.pcs ELSE 1 - hw'.pcs
    <3>1. i \in Nat /\ i < EVENT_RING_TRBS
      BY Sizes DEF EventIndexes
    <3>2. CASE i = n
      BY <1>1, <1>2, <3>1, <3>2
    <3>3. CASE i # n
      <4>1. event_ring'[i].cycle = IF i < n THEN hw.pcs ELSE 1 - hw.pcs
        BY <1>2, <3>3 DEF EventRing
      <4> QED BY <1>1, <3>1, <3>3, <4>1
    <3> QED BY <3>2, <3>3
  <2>2. \/ hw'.pcs = drv.event_cycle /\ x <= hw'.enq
        \/ hw'.pcs = 1 - drv.event_cycle /\ hw'.enq < x
    BY <1>1, <1>3, <1>4, Sizes
  <2> QED BY <2>1, <2>2 DEF EventRing
<1>6. \A i \in EventIndexes : Offset(i)' = Offset(i)
  BY DEF Offset
<1>7. Offset(hw.enq)' = Offset(hw.enq) + 1
  <2>1. Offset(hw.enq)' = hw'.enq - x + (IF hw'.enq < x THEN EVENT_RING_TRBS ELSE 0)
    BY DEF Offset
  <2>2. Offset(hw.enq) = n - x + (IF n < x THEN EVENT_RING_TRBS ELSE 0)
    BY DEF Offset
  <2>3. CASE n + 1 = EVENT_RING_TRBS
    BY <1>1, <1>3, <2>1, <2>2, <2>3, Sizes
  <2>4. CASE n + 1 # EVENT_RING_TRBS
    BY <1>1, <1>3, <2>1, <2>2, <2>4, Sizes
  <2> QED BY <2>3, <2>4
<1>8. Pending' = Pending \cup {n} /\ n \notin Pending
  <2>1. Pending' = {i \in EventIndexes : Offset(i)' < Offset(hw.enq)'}
    BY DEF Pending
  <2>2. ASSUME NEW i \in EventIndexes
        PROVE  Offset(i)' < Offset(hw.enq)' <=> i = n \/ Offset(i) < Offset(n)
    BY <1>1, <1>6, <1>7, OffsetFacts
  <2>3. n \notin Pending
    BY <1>1, OffsetFacts DEF Pending
  <2> QED BY <1>1, <2>1, <2>2, <2>3 DEF Pending
<1>9. ASSUME NEW i \in Pending
      PROVE  event_ring'[i] = event_ring[i] /\ (Clear(i)' <=> Clear(i))
  <2>1. i \in EventIndexes /\ i # n /\ Offset(i) < Offset(n)
    BY <1>8 DEF Pending
  <2>2. \A j \in EventIndexes : Offset(j) <= Offset(i) => event_ring'[j] = event_ring[j]
    <3> SUFFICES ASSUME NEW j \in EventIndexes, Offset(j) <= Offset(i)
                 PROVE  event_ring'[j] = event_ring[j]
      OBVIOUS
    <3>1. j # n
      BY <1>1, <2>1, OffsetFacts
    <3> QED BY <1>2, <3>1
  <2> QED BY <1>2, <1>6, <2>1, <2>2 DEF Clear
<1> QED BY <1>1, <1>2, <1>5, <1>6, <1>7, <1>8, <1>9

\* A port event keeps it: nothing behind it is found by the driver.
LEMMA PortEventKeeps == RingInv /\ HwPortEvent => RingInv'
<1> SUFFICES ASSUME RingInv, HwPortEvent PROVE RingInv'
  OBVIOUS
<1>1. Types /\ Running /\ drv.pc # "rings"
  <2>1. hw.status = "running"
    BY DEF HwPortEvent
  <2> QED BY <2>1 DEF RingInv, Fresh, XhciInit
<1> DEFINE e == Event("port", 0, 1, 0, hw.pcs)
<1>2. /\ UNCHANGED <<ports, drv, cmd_ring, addressed, issued, executed, taken>>
      /\ event_ring' = [event_ring EXCEPT ![hw.enq] = e] /\ EventRoom
      /\ hw' = [Posted(hw) EXCEPT !.port_events = Posted(hw).port_events + 1] /\ hw \in HwType
  BY <1>1 DEF HwPortEvent, Types
<1>3. /\ hw'.enq = (IF hw.enq + 1 = EVENT_RING_TRBS THEN 0 ELSE hw.enq + 1)
      /\ hw'.pcs = (IF hw.enq + 1 = EVENT_RING_TRBS THEN 1 - hw.pcs ELSE hw.pcs)
      /\ hw'.erdp = hw.erdp /\ hw'.status = hw.status /\ hw'.deq = hw.deq /\ hw'.ccs = hw.ccs
      /\ hw'.owner = hw.owner /\ hw'.device = hw.device
      /\ hw'.port_events = hw.port_events + 1 /\ hw.port_events \in Nat
      /\ hw' \in HwType
  <2> DEFINE n == IF hw.enq + 1 = EVENT_RING_TRBS THEN 0 ELSE hw.enq + 1
             y == IF hw.enq + 1 = EVENT_RING_TRBS THEN 1 - hw.pcs ELSE hw.pcs
  <2>1. hw' = [hw EXCEPT !.enq = n, !.pcs = y, !.port_events = hw.port_events + 1]
    BY <1>2 DEF Posted, HwType
  <2>2. n \in EventIndexes /\ y \in 0 .. 1 /\ hw.port_events \in Nat
    BY <1>2, Sizes DEF HwType, EventIndexes
  <2> HIDE DEF n, y
  <2>3. /\ hw'.enq = n /\ hw'.pcs = y
        /\ hw'.erdp = hw.erdp /\ hw'.status = hw.status /\ hw'.deq = hw.deq /\ hw'.ccs = hw.ccs
        /\ hw'.owner = hw.owner /\ hw'.device = hw.device
        /\ hw'.port_events = hw.port_events + 1
        /\ hw' \in HwType
    <3>1. hw \in HwType /\ hw.port_events + 1 \in Nat
      BY <1>2, <2>2
    <3> QED BY Zenon, <2>1, <2>2, <3>1 DEF HwType
  <2> QED BY <2>2, <2>3 DEF n, y
<1>4. e \in EventType /\ e.cycle = hw.pcs /\ e.type = "port"
  BY <1>2, Sizes DEF Event, EventType, HwType, CmdIndexes
<1>5. EventRing
  BY <1>1 DEF Running
<1> HIDE DEF e
<1>6. /\ EventRing'
      /\ event_ring' \in [EventIndexes -> EventType]
      /\ \A i \in EventIndexes : Offset(i)' = Offset(i)
      /\ Pending' = Pending \cup {hw.enq} /\ hw.enq \notin Pending
      /\ \A i \in Pending : event_ring'[i] = event_ring[i] /\ (Clear(i)' <=> Clear(i))
      /\ event_ring'[hw.enq] = e
  BY Zenon, <1>1, <1>2, <1>3, <1>4, <1>5, PostKeeps
<1>7. PICK n \in EventIndexes : n = hw.enq
  BY <1>1, OffsetFacts
<1>8. ~Clear(n)'
  BY <1>4, <1>6, <1>7, OffsetFacts, <1>1 DEF Clear
<1>9. \A i \in CmdSlots : Number(i)' = Number(i)
  BY <1>2 DEF Number
<1>10. /\ Types' /\ CmdRing' /\ Behind' /\ Executed' /\ Budget' /\ Driver'
  <2>1. Types'
    BY <1>1, <1>2, <1>3, <1>6 DEF Types
  <2>2. CmdRing' /\ Executed'
    BY <1>1, <1>2, <1>9 DEF Running, CmdRing, Executed
  <2>3. Behind' /\ Budget'
    BY <1>1, <1>2, <1>3 DEF Running, Behind, Budget, Needed
  <2>4. Driver'
    BY <1>1, <1>2, <1>3 DEF Running, Driver, Number
  <2> QED BY <2>1, <2>2, <2>3, <2>4
<1>11. ASSUME NEW i \in Pending', Clear(i)'
       PROVE  /\ i \in Pending /\ Clear(i) /\ Offset(i)' = Offset(i)
              /\ event_ring'[i] = event_ring[i]
  <2>1. i \in Pending
    BY <1>6, <1>7, <1>8, <1>11
  <2> QED BY <1>6, <1>11, <2>1 DEF Pending
<1>12. Completions'
  <2> SUFFICES ASSUME NEW i \in Pending', Clear(i)'
               PROVE  /\ event_ring'[i].trb \in CmdSlots
                      /\ Number(event_ring[i].trb)' = taken + 1 + Offset(i)'
                      /\ taken + 1 + Offset(i)' <= Len(executed)
    BY <1>2 DEF Completions
  <2>1. /\ event_ring[i].trb \in CmdSlots
        /\ Number(event_ring[i].trb) = taken + 1 + Offset(i)
        /\ taken + 1 + Offset(i) <= Len(executed)
    BY <1>1, <1>11 DEF Running, Completions
  <2>2. PICK t \in CmdSlots : t = event_ring[i].trb
    BY <2>1
  <2>3. Number(event_ring[i].trb)' = Number(t)'
    BY <1>11, <2>2
  <2> QED BY <1>9, <1>11, <2>1, <2>2, <2>3
<1>13. Reported'
  <2>1. n \in Pending' /\ event_ring'[n].type = "port"
    BY <1>4, <1>6, <1>7
  <2>2. taken' <= Len(executed')
    BY <1>1, <1>2 DEF Running, Reported
  <2>3. hw'.port_events # 0
    BY <1>3
  <2> QED BY <2>1, <2>2, <2>3 DEF Reported
<1>14. SlotsOwned'
  <2>1. \A p, t : Owned(p, t)' <=> Owned(p, t)
    BY <1>3 DEF Owned
  <2>2. SlotsOwned
    BY <1>1 DEF Running
  <2>3. ASSUME NEW i \in Pending', Clear(i)', event_ring'[i].code = 1
        PROVE  LET command == issued[taken + 1 + Offset(i)']
                   slot == event_ring'[i].slot
               IN  /\ Owned(command[2], slot)
                   /\ command[1] = "address" => hw.device[slot] = command[2]
    BY <1>11, <2>2, <2>3 DEF SlotsOwned
  <2> QED BY <1>2, <1>3, <2>1, <2>2, <2>3 DEF SlotsOwned
<1> QED BY <1>1, <1>2, <1>3, <1>6, <1>10, <1>12, <1>13, <1>14 DEF RingInv, Running

\* What the controller may answer: slots that have an owner keep it, and a success
\* means that the slot belongs to the command's port.
LEMMA AnswerFacts ==
  ASSUME hw \in HwType, NEW trb \in TrbType, trb.kind \in {"enable", "address"}, trb.port # 0,
         trb.kind = "address" => Owned(trb.port, trb.slot), NEW a \in Answers(trb)
  PROVE  /\ a.code \in Nat /\ a.slot \in Nat /\ a.hw \in HwType
         /\ a.hw.status = hw.status /\ a.hw.deq = hw.deq /\ a.hw.ccs = hw.ccs
         /\ a.hw.enq = hw.enq /\ a.hw.pcs = hw.pcs /\ a.hw.erdp = hw.erdp
         /\ a.hw.port_events = hw.port_events
         /\ \A t \in Slots :
               /\ hw.owner[t] # 0 => a.hw.owner[t] = hw.owner[t]
               /\ hw.device[t] # 0 /\ hw.device[t] = hw.owner[t] => a.hw.device[t] = hw.device[t]
         /\ a.code = 1 =>
               /\ a.slot \in Slots /\ a.hw.owner[a.slot] = trb.port
               /\ trb.kind = "address" => a.hw.device[a.slot] = trb.port
<1> DEFINE free == {s \in Slots : hw.owner[s] = 0}
<1>1. trb.port \in Nat /\ trb.slot \in Nat /\ \A s \in Slots : s \in Nat
  BY DEF TrbType, Slots
<1>2. CASE trb.kind = "enable" /\ free # {}
  <2>1. a \in {[code |-> 1, slot |-> s, hw |-> [hw EXCEPT !.owner[s] = trb.port]] : s \in free}
    BY <1>2 DEF Answers
  <2>2. PICK s \in free : a = [code |-> 1, slot |-> s, hw |-> [hw EXCEPT !.owner[s] = trb.port]]
    BY <2>1
  <2> QED BY <1>1, <1>2, <2>2 DEF HwType
<1>3. CASE trb.kind = "enable" /\ free = {}
  <2>1. a = [code |-> 9, slot |-> 0, hw |-> hw]
    BY <1>3 DEF Answers
  <2> QED BY <2>1 DEF HwType
<1>4. CASE trb.kind = "address" /\ trb.slot \in dcbaa
  <2>1. \/ a = [code |-> 1, slot |-> trb.slot, hw |-> [hw EXCEPT !.device[trb.slot] = trb.port]]
        \/ a = [code |-> 4, slot |-> trb.slot, hw |-> hw]
    BY <1>4 DEF Answers
  <2>2. trb.slot \in Slots /\ hw.owner[trb.slot] = trb.port
    BY <1>4 DEF Owned
  <2> QED BY <1>1, <1>4, <2>1, <2>2 DEF HwType
<1>5. CASE trb.kind = "address" /\ trb.slot \notin dcbaa
  <2>1. a = [code |-> 5, slot |-> trb.slot, hw |-> hw]
    BY <1>5 DEF Answers
  <2> QED BY <1>1, <2>1 DEF HwType
<1> QED BY <1>2, <1>3, <1>4, <1>5

\* Executing a command keeps it: it is the next one issued, and its completion is
\* the next one reported.
LEMMA CommandKeeps == RingInv /\ HwCommand => RingInv'
<1> SUFFICES ASSUME RingInv, HwCommand PROVE RingInv'
  OBVIOUS
<1>1. Types /\ Running /\ drv.pc # "rings"
  <2>1. hw.status = "running"
    BY DEF HwCommand, HwOwns
  <2> QED BY <2>1 DEF RingInv, Fresh, XhciInit
<1> DEFINE q == hw.deq
           trb == cmd_ring[q]
           d == Len(issued) - Len(executed)
<1>2. /\ UNCHANGED <<ports, drv, cmd_ring, addressed, issued, taken>> /\ EventRoom
      /\ trb.cycle = hw.ccs /\ trb.kind # "link"
      /\ executed' = Append(executed, <<trb.kind, trb.port>>)
  BY DEF HwCommand, HwOwns
<1>3. /\ hw \in HwType /\ q \in Nat /\ q <= LinkAt /\ q \in CmdIndexes /\ hw.ccs \in 0 .. 1
      /\ drv.cmd_index \in Nat /\ drv.cmd_index < LinkAt /\ drv.cmd_cycle \in 0 .. 1
      /\ Len(issued) \in Nat /\ Len(executed) \in Nat /\ taken \in Nat
      /\ trb \in TrbType
  BY <1>1, Sizes DEF Types, HwType, DrvType, CmdIndexes, CmdSlots
<1>4. /\ d \in Nat /\ d <= LinkAt /\ q <= Len(executed)
      /\ \/ hw.ccs = drv.cmd_cycle /\ q + d = drv.cmd_index
         \/ hw.ccs = 1 - drv.cmd_cycle /\ q + d = drv.cmd_index + LinkAt
            /\ cmd_ring[LinkAt].kind = "link"
  BY <1>1, <1>3 DEF Running, Behind
\* The command at the dequeue pointer is the next one that was issued.
<1>5. q \in CmdSlots /\ q < LinkAt /\ d >= 1 /\ Number(q) = Len(executed) + 1
  <2>1. CASE hw.ccs = drv.cmd_cycle /\ q + d = drv.cmd_index
    <3>1. q \in CmdSlots
      BY <1>3, <1>4, <2>1, Sizes DEF CmdSlots
    <3>2. trb.cycle = IF q < drv.cmd_index THEN drv.cmd_cycle ELSE 1 - drv.cmd_cycle
      BY <1>1, <3>1 DEF Running, CmdRing
    <3>3. q < drv.cmd_index
      BY <1>2, <1>3, <2>1, <3>2
    <3> QED BY SMTT(20), <1>3, <1>4, <2>1, <3>1, <3>3, Sizes DEF Number
  <2>2. CASE hw.ccs = 1 - drv.cmd_cycle /\ q + d = drv.cmd_index + LinkAt
                /\ cmd_ring[LinkAt].kind = "link"
    <3>1. q # LinkAt
      BY <1>2, <2>2
    <3>2. q \in CmdSlots /\ q < LinkAt
      BY <1>3, <3>1, Sizes DEF CmdSlots
    <3>3. /\ q \in Nat /\ d \in Nat /\ drv.cmd_index \in Nat /\ d <= LinkAt
          /\ q + d = drv.cmd_index + LinkAt
      BY <1>3, <1>4, <2>2
    <3>4. Len(issued) \in Nat /\ Len(executed) \in Nat /\ d = Len(issued) - Len(executed)
      BY <1>3
    <3>5. Number(q) = Len(issued) - drv.cmd_index + q + 1
                        - (IF q < drv.cmd_index THEN 0 ELSE LinkAt)
      BY DEF Number
    <3> HIDE DEF q, d
    <3>6. ~(q < drv.cmd_index) /\ d >= 1
      BY <3>2, <3>3, Sizes
    <3> QED BY <3>2, <3>3, <3>4, <3>5, <3>6, Sizes
  <2> QED BY <1>4, <2>1, <2>2
<1>6. /\ issued[Len(executed) + 1] = <<trb.kind, trb.port>>
      /\ trb.kind \in {"enable", "address"} /\ trb.port # 0
      /\ trb.kind = "address" => Owned(trb.port, trb.slot)
      /\ <<trb.kind, trb.port>> \in Commands
  <2>1. Number(q) >= 1
    BY <1>3, <1>5
  <2>2. issued[Len(executed) + 1] = <<trb.kind, trb.port>>
    BY <1>1, <1>5, <2>1 DEF Running, CmdRing
  <2>3. Len(executed) + 1 \in 1 .. Len(issued)
    BY <1>3, <1>5
  <2>4. issued[Len(executed) + 1] \in Commands
    BY <1>1, <2>3 DEF Types
  <2>5. <<trb.kind, trb.port>> \in Commands
    BY <2>2, <2>4
  <2>6. trb.kind = "address" => Owned(trb.port, trb.slot)
    BY <1>1, <1>5 DEF Running, SlotsOwned
  <2> HIDE DEF trb
  <2> QED BY <2>2, <2>5, <2>6 DEF Commands, Port
<1>7. PICK a \in Answers(trb) :
        /\ event_ring' = [event_ring EXCEPT ![hw.enq] = Event("completion", q, a.code, a.slot, hw.pcs)]
        /\ hw' = Posted([a.hw EXCEPT !.deq = (a.hw.deq + 1) % CMD_RING_TRBS])
  BY ZenonT(40) DEF HwCommand
<1> DEFINE e == Event("completion", q, a.code, a.slot, hw.pcs)
<1>8. /\ a.code \in Nat /\ a.slot \in Nat /\ a.hw \in HwType
      /\ a.hw.status = hw.status /\ a.hw.deq = hw.deq /\ a.hw.ccs = hw.ccs
      /\ a.hw.enq = hw.enq /\ a.hw.pcs = hw.pcs /\ a.hw.erdp = hw.erdp
      /\ a.hw.port_events = hw.port_events
      /\ \A t \in Slots :
            /\ hw.owner[t] # 0 => a.hw.owner[t] = hw.owner[t]
            /\ hw.device[t] # 0 /\ hw.device[t] = hw.owner[t] => a.hw.device[t] = hw.device[t]
      /\ a.code = 1 =>
            /\ a.slot \in Slots /\ a.hw.owner[a.slot] = trb.port
            /\ trb.kind = "address" => a.hw.device[a.slot] = trb.port
  BY <1>3, <1>6, AnswerFacts
<1>9. /\ hw'.enq = (IF hw.enq + 1 = EVENT_RING_TRBS THEN 0 ELSE hw.enq + 1)
      /\ hw'.pcs = (IF hw.enq + 1 = EVENT_RING_TRBS THEN 1 - hw.pcs ELSE hw.pcs)
      /\ hw'.erdp = hw.erdp /\ hw'.status = hw.status /\ hw'.deq = q + 1 /\ hw'.ccs = hw.ccs
      /\ hw'.owner = a.hw.owner /\ hw'.device = a.hw.device
      /\ hw'.port_events = hw.port_events /\ hw.port_events \in Nat
      /\ hw' \in HwType
  <2> DEFINE n == IF hw.enq + 1 = EVENT_RING_TRBS THEN 0 ELSE hw.enq + 1
             y == IF hw.enq + 1 = EVENT_RING_TRBS THEN 1 - hw.pcs ELSE hw.pcs
             p == (q + 1) % CMD_RING_TRBS
  <2>1. p = q + 1
    <3>1. CMD_RING_TRBS \in Nat /\ q \in 0 .. CMD_RING_TRBS - 1 /\ q + 1 # CMD_RING_TRBS
      BY <1>3, <1>5, Sizes
    <3> HIDE DEF q
    <3> QED BY <3>1, Wrapped
  <2>2. hw' = [a.hw EXCEPT !.deq = p, !.enq = n, !.pcs = y]
    <3>1. a.hw \in HwType
      BY <1>8
    <3> QED BY ZenonT(40), <1>7, <1>8, <3>1 DEF Posted, HwType
  <2>3. p \in CmdIndexes
    <3>1. q \in Nat /\ q < LinkAt
      BY <1>3, <1>5
    <3> HIDE DEF q
    <3>2. q + 1 \in 0 .. CMD_RING_TRBS - 1
      BY <3>1, Sizes
    <3> QED BY Zenon, <2>1, <3>2 DEF CmdIndexes
  <2>4. n \in EventIndexes /\ y \in 0 .. 1 /\ hw.port_events \in Nat
    BY SMTT(20), <1>3, Sizes DEF HwType, EventIndexes
  <2> HIDE DEF n, y, p
  <2>5. a.hw \in HwType
    BY <1>8
  <2>6. /\ hw'.enq = n /\ hw'.pcs = y /\ hw'.deq = p
        /\ hw'.erdp = a.hw.erdp /\ hw'.status = a.hw.status /\ hw'.ccs = a.hw.ccs
        /\ hw'.owner = a.hw.owner /\ hw'.device = a.hw.device
        /\ hw'.port_events = a.hw.port_events
        /\ hw' \in HwType
    BY Zenon, <2>2, <2>3, <2>4, <2>5 DEF HwType
  <2> QED BY <1>8, <2>1, <2>4, <2>6 DEF n, y
<1>10. e \in EventType /\ e.cycle = hw.pcs /\ e.type = "completion" /\ e.trb = q
       /\ e.code = a.code /\ e.slot = a.slot
  BY <1>3, <1>8 DEF Event, EventType, HwType
<1>11. EventRing
  BY <1>1 DEF Running
<1>12. /\ EventRing'
       /\ event_ring' \in [EventIndexes -> EventType]
       /\ \A i \in EventIndexes : Offset(i)' = Offset(i)
       /\ Offset(hw.enq)' = Offset(hw.enq) + 1
       /\ Pending' = Pending \cup {hw.enq} /\ hw.enq \notin Pending
       /\ \A i \in Pending : event_ring'[i] = event_ring[i] /\ (Clear(i)' <=> Clear(i))
       /\ event_ring'[hw.enq] = e
  <2>1. event_ring' = [event_ring EXCEPT ![hw.enq] = e]
    BY <1>7
  <2> HIDE DEF e
  <2> QED BY Zenon, <1>1, <1>2, <1>9, <1>10, <1>11, <2>1, PostKeeps
<1> HIDE DEF e
<1>13. PICK n \in EventIndexes : n = hw.enq
  BY <1>1, OffsetFacts
<1>14. \A i \in CmdSlots : Number(i)' = Number(i)
  BY <1>2 DEF Number
<1>15. /\ Len(executed') = Len(executed) + 1
       /\ \A k \in 1 .. Len(executed) : executed'[k] = executed[k]
       /\ executed'[Len(executed) + 1] = <<trb.kind, trb.port>>
       /\ executed' \in Seq(Commands)
  <2>1. executed \in Seq(Commands)
    BY <1>1 DEF Types
  <2> HIDE DEF trb
  <2> QED BY <1>2, <1>6, <2>1
<1>16. Types' /\ CmdRing' /\ Executed' /\ Budget'
  <2>1. Types'
    BY <1>1, <1>2, <1>9, <1>12, <1>15 DEF Types
  <2>2. CmdRing'
    BY Zenon, <1>1, <1>2, <1>14 DEF Running, CmdRing
  <2>3. Executed'
    <3> SUFFICES ASSUME NEW k \in 1 .. Len(executed')
                 PROVE  executed'[k] = issued'[k]
      BY DEF Executed
    <3>1. k \in 1 .. Len(executed) \/ k = Len(executed) + 1
      BY <1>3, <1>15
    <3> QED BY Zenon, <1>1, <1>2, <1>6, <1>15, <3>1 DEF Running, Executed
  <2>4. Budget'
    BY <1>1, <1>2 DEF Running, Budget, Needed
  <2> QED BY ZenonT(40), <2>1, <2>2, <2>3, <2>4
<1>17. Behind'
  <2>1. /\ Len(issued') - Len(executed') = d - 1 /\ d \in Nat /\ d >= 1 /\ d <= LinkAt
        /\ hw'.deq = q + 1 /\ q + 1 <= Len(executed')
    BY SMTT(20), <1>2, <1>3, <1>4, <1>5, <1>9, <1>15
  <2>2. \/ hw.ccs = drv.cmd_cycle /\ q + d = drv.cmd_index
        \/ hw.ccs = 1 - drv.cmd_cycle /\ q + d = drv.cmd_index + LinkAt
            /\ cmd_ring[LinkAt].kind = "link"
    BY <1>4
  <2>3. q \in Nat /\ (q + 1) + (d - 1) = q + d
    BY <1>3, <2>1
  <2>4. hw'.ccs = hw.ccs /\ drv' = drv /\ cmd_ring' = cmd_ring
    BY <1>2, <1>9
  <2>5. 0 <= d - 1 /\ d - 1 <= LinkAt
    BY <2>1, Sizes
  <2> HIDE DEF d, q
  <2> QED BY <2>1, <2>2, <2>3, <2>4, <2>5 DEF Behind
<1>18. \A p, t : Owned(p, t) => Owned(p, t)'
  BY ZenonT(40), <1>8, <1>9 DEF Owned
<1>19. Driver'
  <2>1. drv.pc = "contexts" => hw'.owner[drv.slot] = drv.port
    BY Zenon, <1>1, <1>8, <1>9 DEF Running, Driver, Port
  <2> QED BY <1>1, <1>2, <2>1 DEF Running, Driver, Number
\* The new event is behind a port event, or it answers the next command.
<1>20. /\ taken <= Len(executed)
       /\ hw.port_events = 0 =>
            /\ taken + Offset(n) = Len(executed)
            /\ \A i \in Pending : event_ring[i].type = "completion"
       /\ hw.port_events > 0 => ~Clear(n)'
  <2>1. ASSUME hw.port_events > 0 PROVE ~Clear(n)'
    <3>1. PICK i \in Pending : event_ring[i].type = "port"
      BY <1>1, <2>1 DEF Running, Reported
    <3>2. i \in EventIndexes /\ Offset(i) <= Offset(n)
      BY <1>1, <1>13, OffsetFacts DEF Pending
    <3>3. event_ring'[i].type = "port" /\ Offset(i)' = Offset(i) /\ Offset(n)' = Offset(n)
      BY <1>12, <3>1, <3>2
    <3> QED BY <3>2, <3>3 DEF Clear
  <2> QED BY <1>1, <1>13, <2>1 DEF Running, Reported
<1>21. ASSUME NEW i \in Pending', Clear(i)'
       PROVE  /\ i \in EventIndexes /\ Offset(i)' = Offset(i)
              /\ \/ /\ i \in Pending /\ Clear(i) /\ event_ring'[i] = event_ring[i]
                 \/ /\ i = n /\ event_ring'[i] = e
                    /\ taken + 1 + Offset(i) = Len(executed) + 1
  <2>1. i \in EventIndexes /\ (i \in Pending \/ i = n)
    BY <1>12, <1>13 DEF Pending
  <2>2. CASE i \in Pending
    BY <1>12, <1>21, <2>1, <2>2
  <2>3. CASE i = n
    <3>1. hw.port_events = 0
      BY <1>9, <1>20, <1>21, <2>3
    <3>2. Offset(n) \in Nat
      BY <1>1, <1>13, OffsetFacts
    <3> QED BY SMTT(20), <1>3, <1>12, <1>13, <1>20, <2>1, <2>3, <3>1, <3>2
  <2> QED BY <2>1, <2>2, <2>3
<1>22. Completions'
  <2> SUFFICES ASSUME NEW i \in Pending', Clear(i)'
               PROVE  /\ event_ring'[i].trb \in CmdSlots
                      /\ Number(event_ring[i].trb)' = taken' + 1 + Offset(i)'
                      /\ taken' + 1 + Offset(i)' <= Len(executed')
    BY DEF Completions
  <2>1. CASE i \in Pending /\ Clear(i) /\ event_ring'[i] = event_ring[i]
    <3>1. PICK t \in CmdSlots : t = event_ring[i].trb
      BY ZenonT(40), <1>1, <2>1 DEF Running, Completions
    <3>2. Number(t) = taken + 1 + Offset(i) /\ taken + 1 + Offset(i) <= Len(executed)
      BY <1>1, <2>1, <3>1 DEF Running, Completions
    <3>3. Number(event_ring[i].trb)' = Number(t)
      BY <1>2, <2>1, <3>1 DEF Number
    <3>4. i \in EventIndexes /\ Offset(i) \in Nat
      BY <1>1, <1>21, OffsetFacts
    <3> QED BY SMTT(20), <1>2, <1>3, <1>15, <1>21, <2>1, <3>1, <3>2, <3>3, <3>4
  <2>2. CASE i = n /\ event_ring'[i] = e /\ taken + 1 + Offset(i) = Len(executed) + 1
    <3>1. event_ring'[i].trb = q /\ Number(event_ring[i].trb)' = Number(q)
      BY <1>2, <1>10, <2>2 DEF Number
    <3> QED BY SMTT(20), <1>2, <1>3, <1>5, <1>15, <1>21, <2>2, <3>1
  <2> QED BY <1>21, <2>1, <2>2
<1>23. Reported'
  <2>1. taken' <= Len(executed')
    BY <1>2, <1>3, <1>15, <1>20
  <2>2. hw'.port_events = 0 =>
           /\ taken' + Offset(hw.enq)' = Len(executed')
           /\ \A i \in Pending' : event_ring'[i].type = "completion"
    <3>1. Offset(n) \in Nat
      BY <1>1, <1>13, OffsetFacts
    <3>2. taken' = taken /\ taken \in Nat /\ Len(executed) \in Nat /\ hw'.port_events = hw.port_events
      BY <1>2, <1>3, <1>9
    <3>3. Len(executed') = Len(executed) + 1 /\ Offset(hw.enq)' = Offset(n) + 1
      BY <1>12, <1>13, <1>15
    <3>4. hw.port_events = 0 => taken + Offset(n) = Len(executed)
      BY <1>20
    <3>5. hw.port_events = 0 => \A i \in Pending' : event_ring'[i].type = "completion"
      BY <1>10, <1>12, <1>20
    <3>6. hw.port_events = 0 => taken' + Offset(hw.enq)' = Len(executed')
      <4>1. ASSUME hw.port_events = 0 PROVE taken + (Offset(n) + 1) = Len(executed) + 1
        <5>1. taken + Offset(n) = Len(executed)
          BY Zenon, <3>4, <4>1
        <5> QED BY <3>1, <3>2, <5>1
      <4> QED BY Zenon, <3>2, <3>3, <4>1
    <3> QED BY <3>2, <3>5, <3>6
  <2>3. hw'.port_events > 0 => \E i \in Pending' : event_ring'[i].type = "port"
    BY Zenon, <1>1, <1>9, <1>12 DEF Running, Reported
  <2> QED BY <2>1, <2>2, <2>3 DEF Reported
<1>24. SlotsOwned'
  <2>1. ASSUME NEW i \in CmdSlots
        PROVE  /\ cmd_ring'[i].kind = "address" => Owned(cmd_ring[i].port, cmd_ring[i].slot)'
               /\ cmd_ring'[i].kind = "enable" => cmd_ring'[i].port # 0
    BY ZenonT(40), <1>1, <1>2, <1>8, <1>9 DEF Running, SlotsOwned, Owned
  <2>2. ASSUME NEW i \in Pending', Clear(i)', event_ring'[i].code = 1
        PROVE  LET command == issued'[taken' + 1 + Offset(i)']
                   slot == event_ring'[i].slot
               IN  /\ slot \in Slots /\ command[2] # 0 /\ hw'.owner[slot] = command[2]
                   /\ command[1] = "address" => hw'.device[slot] = command[2]
    <3>1. CASE i \in Pending /\ Clear(i) /\ event_ring'[i] = event_ring[i]
      <4>1. PICK s : s = event_ring[i].slot
        OBVIOUS
      <4>2. PICK c : c = issued[taken + 1 + Offset(i)]
        OBVIOUS
      <4>3. /\ s \in Slots /\ c[2] # 0 /\ hw.owner[s] = c[2]
            /\ c[1] = "address" => hw.device[s] = c[2]
        BY Zenon, <1>1, <2>2, <3>1, <4>1, <4>2 DEF Running, SlotsOwned, Owned
      <4>4. /\ hw'.owner[s] = c[2]
            /\ c[1] = "address" => hw'.device[s] = c[2]
        BY Zenon, <1>8, <1>9, <4>3
      <4>5. event_ring'[i].slot = s /\ issued'[taken' + 1 + Offset(i)'] = c
        BY ZenonT(40), <1>2, <1>21, <2>2, <3>1, <4>1, <4>2
      <4> QED BY <4>3, <4>4, <4>5
    <3>2. CASE i = n /\ event_ring'[i] = e /\ taken + 1 + Offset(i) = Len(executed) + 1
      <4>1. event_ring'[i].slot = a.slot /\ a.code = 1
        BY Zenon, <1>10, <2>2, <3>2
      <4>2. issued'[taken' + 1 + Offset(i)'] = <<trb.kind, trb.port>>
        BY Zenon, <1>2, <1>6, <1>21, <2>2, <3>2
      <4>3. /\ a.slot \in Slots /\ hw'.owner[a.slot] = trb.port
            /\ trb.kind = "address" => hw'.device[a.slot] = trb.port
        BY ZenonT(40), <1>8, <1>9, <4>1
      <4> HIDE DEF trb
      <4> QED BY <1>6, <4>1, <4>2, <4>3
    <3> QED BY <1>21, <2>2, <3>1, <3>2
  <2>3. ASSUME NEW p \in addressed'
        PROVE  p \in Nat \X Nat /\ Owned(p[1], p[2])' /\ hw'.device[p[2]] = p[1]
    <3>1. p \in Nat \X Nat /\ Owned(p[1], p[2]) /\ hw.device[p[2]] = p[1]
      BY Zenon, <1>1, <1>2, <2>3 DEF Running, SlotsOwned
    <3> QED BY <1>8, <1>9, <3>1 DEF Owned
  <2> QED BY Zenon, <2>1, <2>2, <2>3 DEF SlotsOwned, Owned
<1> QED BY <1>1, <1>2, <1>9, <1>12, <1>16, <1>17, <1>19, <1>22, <1>23, <1>24 DEF RingInv, Running

----------------------------------------------------------------------------
(* The whole boot.                                                         *)


\* The initial states, for every machine with fewer connected ports than TRBs.
LEMMA InitKeeps == Init => RingInv
<1> SUFFICES ASSUME Init PROVE RingInv
  OBVIOUS
<1>1. XhciInit(machine.ports) /\ machine.ports \in Seq(Port) /\ Len(machine.ports) < CMD_RING_TRBS
  BY BootAssumption DEF Init, Port
<1>2. ports = machine.ports /\ Len(ports) \in Nat
  BY <1>1 DEF XhciInit
<1>3. drv \in DrvType /\ drv.pc = "rings"
  BY <1>1, Sizes DEF XhciInit, DrvType, CmdSlots, EventIndexes
<1>4. cmd_ring \in [CmdIndexes -> TrbType] /\ event_ring \in [EventIndexes -> EventType]
  <2>1. NoTrb \in TrbType
    BY DEF NoTrb, Trb, TrbType
  <2>2. NoEvent \in EventType
    BY Sizes DEF NoEvent, Event, EventType, CmdIndexes
  <2> QED BY <1>1, <2>1, <2>2 DEF XhciInit
<1>5. hw \in HwType
  <2>1. 0 \in CmdIndexes /\ 0 \in EventIndexes
    BY Sizes DEF CmdIndexes, EventIndexes
  <2> QED BY <1>1, <2>1 DEF XhciInit, HwType
<1>6. issued \in Seq(Commands) /\ executed \in Seq(Commands) /\ taken \in Nat
  BY <1>1 DEF XhciInit
<1>7. Len(ports) <= LinkAt
  BY <1>1, <1>2, Sizes
<1> QED BY <1>1, <1>2, <1>3, <1>4, <1>5, <1>6, <1>7 DEF RingInv, Types, Fresh

\* The steps of the rest of the kernel leave the driver and the controller alone.
LEMMA OthersKeep == RingInv /\ UNCHANGED xvars => RingInv'
<1> SUFFICES ASSUME RingInv, UNCHANGED xvars PROVE RingInv'
  OBVIOUS
<1>1. UNCHANGED <<ports, drv, cmd_ring, event_ring, dcbaa, hw, addressed, issued, executed, taken>>
  BY DEF xvars
<1>2. Types'
  BY ZenonT(40), <1>1 DEF RingInv, Types
<1>3. drv.pc = "rings" => Fresh'
  BY <1>1 DEF RingInv, Fresh, XhciInit
<1>4. ASSUME drv.pc # "rings" PROVE Running'
  <2>1. Running
    BY <1>4 DEF RingInv
  <2>2. CmdRing' /\ Behind' /\ Executed' /\ EventRing'
    BY ZenonT(40), <1>1, <2>1 DEF Running, CmdRing, Behind, Executed, EventRing, Number
  <2>3. Completions' /\ Reported'
    BY <1>1, <2>1 DEF Running, Completions, Reported, Number, Pending, Clear, Offset
  <2>4. Budget' /\ Driver'
    BY ZenonT(40), <1>1, <2>1 DEF Running, Budget, Driver, Needed, Number
  <2>5. SlotsOwned'
    BY <1>1, <2>1 DEF Running, SlotsOwned, Owned, Pending, Clear, Offset
  <2> QED BY <1>1, <2>1, <2>2, <2>3, <2>4, <2>5 DEF Running
<1> QED BY <1>1, <1>2, <1>3, <1>4 DEF RingInv

\* Every step of the kernel and of the controller keeps the invariant.
LEMMA StepKeeps == RingInv /\ [Next]_vars => RingInv'
<1> SUFFICES ASSUME RingInv, [Next]_vars PROVE RingInv'
  OBVIOUS
<1>1. CASE UNCHANGED xvars
  BY <1>1, OthersKeep
<1>2. CASE XhciInUse
  <2>1. CASE WaitTimeout
    <3>1. /\ drv.pc # "rings" /\ drv' = [drv EXCEPT !.pc = "ports", !.slot = 0] /\ 0 \in Nat
          /\ UNCHANGED <<ports, cmd_ring, event_ring, hw, addressed, issued, executed, taken>>
      BY <2>1 DEF WaitTimeout
    <3> QED BY Zenon, <3>1, GivesUpKeeps
  <2>2. CASE NoContexts
    <3>1. /\ drv.pc # "rings" /\ drv' = [drv EXCEPT !.pc = "ports"] /\ 0 \in Nat
          /\ UNCHANGED <<ports, cmd_ring, event_ring, hw, addressed, issued, executed, taken>>
      BY <2>2 DEF NoContexts
    <3> QED BY <3>1, GivesUpKeeps
  <2> QED BY <1>2, <2>1, <2>2, RingsKeep, EnableKeeps, WaitKeeps, AddressKeeps
           DEF XhciInUse, XhciDriver
<1>3. CASE XhciController
  BY <1>3, LinkKeeps, CommandKeeps, PortEventKeeps DEF XhciController
<1> QED BY <1>1, <1>2, <1>3 DEF Next, vars

----------------------------------------------------------------------------
\* The controller executes the commands in the order in which the driver wrote
\* them, each once, for rings of any size and any number of ports below that of
\* the TRBs, in every interleaving of xhci_cmd, xhci_wait_cmd and the controller.
THEOREM CommandsInOrder == Spec => []FetchInOrder
<1>1. RingInv => FetchInOrder
  <2> SUFFICES ASSUME RingInv PROVE FetchInOrder
    OBVIOUS
  <2>1. issued \in Seq(Commands) /\ executed \in Seq(Commands)
    BY DEF RingInv, Types
  <2>2. CASE drv.pc = "rings"
    <3>1. issued = <<>> /\ executed = <<>>
      BY <2>2 DEF RingInv, Fresh, XhciInit
    <3> QED BY <3>1 DEF FetchInOrder
  <2>3. CASE drv.pc # "rings"
    <3>1. Len(executed) <= Len(issued) /\ Executed
      BY <2>1, <2>3 DEF RingInv, Running, Behind
    <3>2. executed = SubSeq(issued, 1, Len(executed))
      BY <2>1, <3>1 DEF Executed
    <3> QED BY <3>1, <3>2 DEF FetchInOrder
  <2> QED BY <2>2, <2>3
<1> QED BY <1>1, InitKeeps, StepKeeps, PTL DEF Spec

\* A device that xhci_address_port reports as addressed got a slot that was
\* enabled for its own port and holds its own contexts, although completions of
\* commands that were given up are met by later commands and the addresses of
\* TRBs are used again, for rings of any size.
THEOREM SlotIsOwn == Spec => []AddressedOwnSlot
<1>1. RingInv => AddressedOwnSlot
  <2> SUFFICES ASSUME RingInv PROVE AddressedOwnSlot
    OBVIOUS
  <2>1. CASE drv.pc = "rings"
    BY <2>1 DEF RingInv, Fresh, XhciInit, AddressedOwnSlot
  <2>2. CASE drv.pc # "rings"
    BY <2>2 DEF RingInv, Running, SlotsOwned, Owned, AddressedOwnSlot
  <2> QED BY <2>1, <2>2
<1> QED BY <1>1, InitKeeps, StepKeeps, PTL DEF Spec
=============================================================================
