-------------------------------- MODULE Net --------------------------------
(***************************************************************************)
(* The network devices (src/drivers/net): net_init, e1000_init and         *)
(* rtl8139_init as kmain calls them, and SYS_SEND, which hands a packet to *)
(* the first registered device and waits until the card reports that it    *)
(* has been sent.                                                          *)
(*                                                                         *)
(* The driver and the card share the ring of transmit descriptors as       *)
(* bytes, each with its own idea of a descriptor: the driver writes        *)
(* e1000_tx_desc_t, the card (external) reads Intel's legacy transmit      *)
(* descriptor.  Packets and their buffers are left out.                    *)
(***************************************************************************)
EXTENDS Pci

CONSTANTS
    Machines,              \* functions of PCI addresses, as in Pci
    E1000_TX_DESC_COUNT,   \* 128 in the code
    Ids,                   \* e1000_find's device ids, in its order
    Lengths,               \* the lengths of packets
    Junk                   \* values of the bytes that kalloc leaves in a block

VARIABLES
    pci,
    devices,    \* net_devices
    tx_descs,   \* the bytes of the ring, from the 16-byte line in which it begins
    at,         \* where in that line kalloc's block begins: its header has 24 bytes
    tx_index,
    card,       \* tdh and tdt
    pc,         \* the kernel: booting, in ring 3 ("idle"), or waiting in e1000_send
    desc        \* e1000_send's descriptor

vars == <<pci, devices, tx_descs, at, tx_index, card, pc, desc>>

\* The offsets of e1000_tx_desc_t, packed, and its size.
Tx == [length |-> 8, cmd |-> 12, status |-> 13, size |-> 18]

\* The offsets and the size of the card's legacy transmit descriptor.
Legacy == [cmd |-> 11, status |-> 12, size |-> 16]

Bytes == 0 .. 16 + Tx.size * E1000_TX_DESC_COUNT - 1

Field(i, offset) == at + Tx.size * i + offset

Init ==
    /\ pci \in Machines
    /\ devices = <<>>
    /\ at \in {0, 8}
    /\ \E junk \in Junk : tx_descs = [b \in Bytes |-> junk]
    /\ tx_index = 0
    /\ card = [tdh |-> 0, tdt |-> 0]
    /\ pc = "e1000_init"
    /\ desc = 0

----------------------------------------------------------------------------
(* Registration.                                                           *)

\* The first id of the list that some function has.
e1000_find ==
    LET found == SelectSeq(Ids, LAMBDA id : pci_find_device(pci, id) # <<>>)
    IN  IF found = <<>> THEN <<>> ELSE pci_find_device(pci, Head(found))

net_register_device(dev) == devices' = <<dev>> \o devices

\* A card without a base address is left alone.  Else every descriptor is marked
\* as done, the ring is empty, and the device is registered.
e1000_init ==
    /\ pc = "e1000_init"
    /\ IF e1000_find # <<>> /\ pci_bar(pci[e1000_find[1]]) # 0
       THEN /\ tx_descs' = [b \in Bytes |->
                   IF \E i \in 0 .. E1000_TX_DESC_COUNT - 1 : b = Field(i, Tx.status)
                   THEN 1 ELSE tx_descs[b]]
            /\ card' = [tdh |-> 0, tdt |-> 0]
            /\ net_register_device("e1000")
       ELSE UNCHANGED <<tx_descs, card, devices>>
    /\ pc' = "rtl8139_init"
    /\ UNCHANGED <<pci, at, tx_index, desc>>

\* The mark of a port address is looked for in what pci_bar returns.
rtl8139_init ==
    LET found == pci_find_device(pci, "rtl8139")
    IN  /\ pc = "rtl8139_init"
        /\ IF found # <<>> /\ pci_bar(pci[found[1]]) % 2 # 0
           THEN net_register_device("rtl8139")
           ELSE UNCHANGED devices
        /\ pc' = "idle"
        /\ UNCHANGED <<pci, tx_descs, at, tx_index, card, desc>>

----------------------------------------------------------------------------
(* Sending.                                                                *)

\* SYS_SEND and e1000_send up to the wait: length (16 bits), cmd (EOP, IFCS and
\* RS, 0x0B) and status are written, and the card gets the new tail.
SysSend(len) ==
    /\ pc = "idle" /\ devices # <<>> /\ Head(devices) = "e1000"
    /\ tx_descs' = [tx_descs EXCEPT
           ![Field(tx_index, Tx.length)] = len % 256,
           ![Field(tx_index, Tx.length + 1)] = (len \div 256) % 256,
           ![Field(tx_index, Tx.cmd)] = 11,
           ![Field(tx_index, Tx.status)] = 0]
    /\ desc' = tx_index
    /\ tx_index' = (tx_index + 1) % E1000_TX_DESC_COUNT
    /\ card' = [card EXCEPT !.tdt = tx_index']
    /\ pc' = "wait"
    /\ UNCHANGED <<pci, devices, at>>

\* SYS_SEND without a device returns -1.
SysSendFails == pc = "idle" /\ devices = <<>> /\ UNCHANGED vars

\* The wait ends when the descriptor's status says that it is done.
SendDone ==
    /\ pc = "wait" /\ tx_descs[Field(desc, Tx.status)] % 2 = 1
    /\ pc' = "idle"
    /\ UNCHANGED <<pci, devices, tx_descs, at, tx_index, card, desc>>

\* The card (external) sends the packet of the descriptor at its head, and sets
\* Descriptor Done (1) in its status if the command has Report Status (8).
CardSends ==
    LET first == Legacy.size * card.tdh
        reports == (tx_descs[first + Legacy.cmd] \div 8) % 2 = 1
        status == tx_descs[first + Legacy.status]
        entries == (Tx.size * E1000_TX_DESC_COUNT) \div Legacy.size
    IN  /\ card.tdh # card.tdt
        /\ tx_descs' = [tx_descs EXCEPT ![first + Legacy.status] =
               IF reports /\ status % 2 = 0 THEN status + 1 ELSE status]
        /\ card' = [card EXCEPT !.tdh = (@ + 1) % entries]
        /\ UNCHANGED <<pci, devices, at, tx_index, pc, desc>>

----------------------------------------------------------------------------
Next ==
    \/ e1000_init
    \/ rtl8139_init
    \/ \E len \in Lengths : SysSend(len)
    \/ SysSendFails
    \/ SendDone
    \/ CardSends

\* The kernel goes on where it can, and the card, with its link up, sends what it
\* is given.
Spec ==
    /\ Init /\ [][Next]_vars
    /\ WF_vars(e1000_init \/ rtl8139_init \/ SendDone)
    /\ WF_vars(CardSends)

\* "Wait for transmission to complete" (src/drivers/net/e1000.c:119): a send
\* returns once the card has sent the packet.
SendReturns == (pc = "wait" /\ card.tdh = card.tdt) ~> (pc = "idle")
============================================================================
