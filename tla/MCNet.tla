------------------------------- MODULE MCNet -------------------------------
(* Machines for Net: PCI functions with network cards.                     *)
EXTENDS Net, TLC

Card(device, lo) ==
    [class |-> "net", prog_if |-> "ethernet", device |-> device, multi |-> FALSE, lo |-> lo,
     hi |-> 0]

\* No card, an E1000 behind an RTL8139, and an E1000 without a base address.
Cards == {
    <<>>,
    (<<0, 0, 0>> :> Card("rtl8139", 17)) @@ (<<0, 1, 0>> :> Card("82545EM", 32)),
    (<<0, 1, 0>> :> Card("82540EM", 0))}

IdList == <<"82540EM", "82545EM">>
============================================================================
