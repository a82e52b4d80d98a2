-------------------------------- MODULE Ps2 --------------------------------
(***************************************************************************)
(* The PS/2 keyboard and mouse behind /dev/kbd and /dev/mouse              *)
(* (src/drivers/input/ps2.c, the two device cases of src/fs/devtmpfs.c).   *)
(*                                                                         *)
(* Both devices share the controller's one-byte output buffer, and the     *)
(* devices run concurrently with the kernel.  Within one poll the driver   *)
(* reads the status twice and then the data; a full buffer stays as it is  *)
(* until the data is read, so a poll is one step.                          *)
(*                                                                         *)
(* A byte is the device it comes from, the number of the key or movement,  *)
(* its place among the bytes of that key or movement, and whether bit 3,   *)
(* which marks the first byte of a mouse packet, is set.  A key sends a    *)
(* code that scancode_to_char maps to a character and, when released, one  *)
(* that it maps to 0.                                                      *)
(***************************************************************************)
EXTENDS Integers, Sequences

CONSTANTS
    MaxKeys,   \* bound: key presses
    MaxMoves,  \* bound: mouse movements
    Lengths    \* the buffer lengths that programs pass to SYS_READ

ASSUME Ps2Assumption ==
    MaxKeys \in Nat /\ MaxMoves \in Nat /\ Lengths \subseteq Nat

VARIABLES
    kbd,      \* codes waiting in the keyboard
    aux,      \* bytes waiting in the mouse
    mouse,    \* "off", "asked" (F4 was sent) or "on" (it reports movements)
    out,      \* the output buffer: a sequence of at most one byte
    drv,      \* the driver: what it executes, the length asked for, the count so far
    bytes,    \* bytes[] of ps2_poll_mouse_packet, filled up to pos
    pressed,  \* history: keys and movements so far
    moved,
    keys,     \* history: what /dev/kbd and /dev/mouse delivered
    packets,
    acked     \* history: ps2_init read the mouse's answer

vars == <<kbd, aux, mouse, out, drv, bytes, pressed, moved, keys, packets, acked>>

Key(n, place) == [src |-> "kbd", n |-> n, place |-> place, bit3 |-> FALSE]

Move(n, place, bit3) == [src |-> "mouse", n |-> n, place |-> place, bit3 |-> bit3]

\* 0xFA, which the mouse answers to a command, has bit 3 set.
Ack == Move(0, 0, TRUE)

Init ==
    /\ kbd = <<>> /\ aux = <<>> /\ mouse = "off" /\ out = <<>>
    /\ drv = [pc |-> "drain", len |-> 0, got |-> 0]
    /\ bytes = <<>>
    /\ pressed = 0 /\ moved = 0 /\ keys = <<>> /\ packets = <<>>
    /\ acked = FALSE

----------------------------------------------------------------------------
(* The devices and the controller.                                         *)

KeyStroke ==
    /\ pressed < MaxKeys
    /\ pressed' = pressed + 1
    /\ kbd' = kbd \o <<Key(pressed', 1), Key(pressed', 2)>>
    /\ UNCHANGED <<aux, mouse, out, drv, bytes, moved, keys, packets, acked>>

\* The data bytes of a movement may have bit 3 set as well.
Movement ==
    /\ mouse = "on" /\ moved < MaxMoves
    /\ moved' = moved + 1
    /\ \E x, y \in BOOLEAN :
          aux' = aux \o <<Move(moved', 1, TRUE), Move(moved', 2, x), Move(moved', 3, y)>>
    /\ UNCHANGED <<kbd, mouse, out, drv, bytes, pressed, keys, packets, acked>>

MouseAnswers ==
    /\ mouse = "asked"
    /\ mouse' = "on"
    /\ aux' = Append(aux, Ack)
    /\ UNCHANGED <<kbd, out, drv, bytes, pressed, moved, keys, packets, acked>>

\* The controller takes the next byte of either device when its buffer is empty.
FromKeyboard ==
    /\ out = <<>> /\ kbd # <<>>
    /\ out' = <<Head(kbd)>> /\ kbd' = Tail(kbd)
    /\ UNCHANGED <<aux, mouse, drv, bytes, pressed, moved, keys, packets, acked>>

FromMouse ==
    /\ out = <<>> /\ aux # <<>>
    /\ out' = <<Head(aux)>> /\ aux' = Tail(aux)
    /\ UNCHANGED <<kbd, mouse, drv, bytes, pressed, moved, keys, packets, acked>>

----------------------------------------------------------------------------
(* ps2_init.                                                               *)

ps2_data_ready == out # <<>>

ps2_output_is_mouse == out[1].src = "mouse"

InitDrain ==
    /\ drv.pc = "drain"
    /\ \/ ps2_data_ready /\ out' = <<>> /\ UNCHANGED <<mouse, drv>>
       \/ /\ ~ps2_data_ready
          /\ drv' = [drv EXCEPT !.pc = "answer"]
          /\ mouse' = "asked"    \* A8 enables the port, D4 F4 asks for reports
          /\ UNCHANGED out
    /\ UNCHANGED <<kbd, aux, bytes, pressed, moved, keys, packets, acked>>

\* The wait for an answer ends with a byte, which may be any, or with its limit.
InitAnswer ==
    /\ drv.pc = "answer"
    /\ out' = <<>>
    /\ drv' = [drv EXCEPT !.pc = "idle"]
    /\ acked' = (out = <<Ack>>)
    /\ UNCHANGED <<kbd, aux, mouse, bytes, pressed, moved, keys, packets>>

----------------------------------------------------------------------------
(* Reading /dev/kbd and /dev/mouse.                                        *)

\* Faulty variant: the source of the byte is not looked at.
KeyReady_AnySource == ps2_data_ready

KeyReady == ps2_data_ready /\ ~ps2_output_is_mouse

Returns == drv' = [drv EXCEPT !.pc = "idle"]

\* ps2_poll_char and one iteration of the loop around it: a code without a
\* character is consumed and ends the call.
PollChar ==
    /\ drv.pc = "kbd"
    /\ \/ /\ drv.got >= drv.len \/ ~KeyReady
          /\ Returns /\ UNCHANGED <<out, keys>>
       \/ /\ drv.got < drv.len /\ KeyReady
          /\ out' = <<>>
          /\ IF out[1].place = 1
             THEN /\ keys' = Append(keys, out[1].n)
                  /\ drv' = [drv EXCEPT !.got = @ + 1]
             ELSE Returns /\ UNCHANGED keys
    /\ UNCHANGED <<kbd, aux, mouse, bytes, pressed, moved, packets, acked>>

MouseReady == ps2_data_ready /\ ps2_output_is_mouse

\* Faulty variant: the room for a packet is not checked.
HasRoom_Any == drv.got < drv.len

HasRoom == drv.got + 3 <= drv.len

\* A packet starts with a byte whose bit 3 is set.
Accepts(b) == bytes # <<>> \/ b.bit3

\* Faulty variant: a byte that starts no packet is left in the buffer.
PollMouse_KeepsStray ==
    /\ drv.pc = "mouse"
    /\ \/ /\ IF HasRoom /\ MouseReady THEN ~Accepts(out[1]) ELSE TRUE
          /\ Returns /\ UNCHANGED <<out, bytes, packets>>
       \/ /\ HasRoom /\ MouseReady /\ Accepts(out[1])
          /\ out' = <<>>
          /\ IF Len(bytes) = 2
             THEN /\ packets' = Append(packets, Append(bytes, out[1]))
                  /\ bytes' = <<>>
                  /\ drv' = [drv EXCEPT !.got = @ + 3]
             ELSE bytes' = Append(bytes, out[1]) /\ Returns /\ UNCHANGED packets
    /\ UNCHANGED <<kbd, aux, mouse, pressed, moved, keys, acked>>

\* ps2_poll_mouse_packet and one iteration of the loop around it: every byte
\* that does not complete a packet ends the call, with pos kept for the next.
PollMouse ==
    /\ drv.pc = "mouse"
    /\ \/ /\ ~HasRoom \/ ~MouseReady
          /\ Returns /\ UNCHANGED <<out, bytes, packets>>
       \/ /\ HasRoom /\ MouseReady
          /\ out' = <<>>
          /\ IF Accepts(out[1]) /\ Len(bytes) = 2
             THEN /\ packets' = Append(packets, Append(bytes, out[1]))
                  /\ bytes' = <<>>
                  /\ drv' = [drv EXCEPT !.got = @ + 3]
             ELSE /\ bytes' = IF Accepts(out[1]) THEN Append(bytes, out[1]) ELSE bytes
                  /\ Returns /\ UNCHANGED packets
    /\ UNCHANGED <<kbd, aux, mouse, pressed, moved, keys, acked>>

\* Faulty variant: a packet is collected anew in every call.
Read_NewPacket(file, len) ==
    /\ drv.pc = "idle"
    /\ drv' = [pc |-> file, len |-> len, got |-> 0]
    /\ bytes' = <<>>
    /\ UNCHANGED <<kbd, aux, mouse, out, pressed, moved, keys, packets, acked>>

\* A program reads one of the files into a buffer of len bytes.
Read(file, len) ==
    /\ drv.pc = "idle"
    /\ drv' = [pc |-> file, len |-> len, got |-> 0]
    /\ UNCHANGED <<kbd, aux, mouse, out, bytes, pressed, moved, keys, packets, acked>>

Next ==
    \/ KeyStroke \/ Movement \/ MouseAnswers \/ FromKeyboard \/ FromMouse
    \/ InitDrain \/ InitAnswer
    \/ \E file \in {"kbd", "mouse"}, len \in Lengths : Read(file, len)
    \/ PollChar \/ PollMouse

\* Programs poll both files again and again, with room for a packet.
Polls(file) == \E len \in Lengths : len >= 3 /\ Read(file, len)

\* The kernel is not interrupted, and the controller passes bytes on.
Spec ==
    /\ Init /\ [][Next]_vars
    /\ WF_vars(InitDrain) /\ WF_vars(InitAnswer) /\ WF_vars(PollChar) /\ WF_vars(PollMouse)
    /\ WF_vars(FromKeyboard \/ FromMouse)
    /\ SF_vars(Polls("kbd")) /\ SF_vars(Polls("mouse"))

----------------------------------------------------------------------------
(* Properties.                                                             *)

\* Every variable has its type, and a read never delivers more bytes than its
\* buffer has.
TypeOK ==
    /\ mouse \in {"off", "asked", "on"} /\ Len(out) <= 1 /\ Len(bytes) <= 2
    /\ drv.pc \in {"drain", "answer", "idle", "kbd", "mouse"}
    /\ drv.got <= drv.len
    /\ pressed \in 0 .. MaxKeys /\ moved \in 0 .. MaxMoves
    /\ acked \in BOOLEAN

Waiting(src) == (IF out # <<>> /\ out[1].src = src THEN out ELSE <<>>)
                    \o (IF src = "kbd" THEN kbd ELSE aux)

\* The first codes of keys, which have a character, among those that wait.
FirstCodes == {i \in DOMAIN Waiting("kbd") : Waiting("kbd")[i].place = 1}

KeysWaiting == {Waiting("kbd")[i].n : i \in FirstCodes}

\* Keys reach /dev/kbd once each and in the order they were pressed, and after
\* the first one that arrives none is missing: of the first m keys the last ones
\* were delivered, and the others wait in their order.  None is taken by the mouse
\* reader, dropped with a release code or overtaken, however the bytes of both
\* devices mix.
KeysInOrder ==
    \E m \in 0 .. pressed :
        /\ Len(keys) <= m
        /\ \A i \in 1 .. Len(keys) : keys[i] = m - Len(keys) + i
        /\ KeysWaiting = m + 1 .. pressed
        /\ \A i, j \in FirstCodes : i < j => Waiting("kbd")[i].n < Waiting("kbd")[j].n

WholePacket(p) == \A i \in 1 .. 3 : p[i].n = p[1].n /\ p[i].place = i

\* If ps2_init read the mouse's answer, every packet of /dev/mouse is one
\* movement and no movement is missing or repeated, whatever is read or typed
\* between its bytes.
PacketsAreMovements ==
    acked =>
        /\ \A k \in 1 .. Len(packets) : WholePacket(packets[k]) /\ packets[k][1].n = k
        /\ 3 * moved = 3 * Len(packets) + Len(bytes) + Len(Waiting("mouse"))

\* A key pressed after the start is delivered if programs poll both files; the
\* mouse bytes in front of it, stray ones included, do not hold it back.
PolledKeysArrive ==
    \A n \in 1 .. MaxKeys :
        drv.pc \notin {"drain", "answer"} /\ n \in KeysWaiting
            ~> \E i \in 1 .. Len(keys) : keys[i] = n
============================================================================
