----------------------------- MODULE Processes -----------------------------
(***************************************************************************)
(* What the scheduler promises to user programs, without slots, frames or  *)
(* a current index: processes are started once, run one at a time, each    *)
(* from where it last stopped, and never again after a tick has taken a    *)
(* dead one off the CPU.  Sched implements it when system calls are used   *)
(* as docs/KERNEL_ABI.md describes them.                                   *)
(***************************************************************************)
EXTENDS Naturals

CONSTANT Pids

VARIABLES
    live,     \* the processes that were started and not killed
    dead,     \* the processes that were killed
    running,  \* the process on the CPU, 0 before the first one
    halted    \* whether the kernel has panicked

vars == <<live, dead, running, halted>>

Init ==
    /\ live = {}
    /\ dead = {}
    /\ running = 0
    /\ halted = FALSE

New(p) == p \in Pids \ (live \cup dead)

\* The kernel enters the first process.
Start(p) ==
    /\ ~halted
    /\ running = 0
    /\ New(p)
    /\ live' = live \cup {p}
    /\ running' = p
    /\ UNCHANGED <<dead, halted>>

\* A live process starts another one and goes on.
Fork(p) ==
    /\ ~halted
    /\ running \in live
    /\ New(p)
    /\ live' = live \cup {p}
    /\ UNCHANGED <<dead, running, halted>>

\* The process on the CPU, which may itself be dead until the next tick, kills
\* a live one, maybe itself.
Kill(p) ==
    /\ ~halted
    /\ running # 0
    /\ p \in live
    /\ live' = live \ {p}
    /\ dead' = dead \cup {p}
    /\ UNCHANGED <<running, halted>>

\* A tick gives the CPU to a live process.
Dispatch(p) ==
    /\ ~halted
    /\ running # 0
    /\ p \in live
    /\ running' = p
    /\ UNCHANGED <<live, dead, halted>>

Halt ==
    /\ ~halted
    /\ halted' = TRUE
    /\ UNCHANGED <<live, dead, running>>

Next ==
    \/ \E p \in Pids : Start(p) \/ Fork(p) \/ Kill(p) \/ Dispatch(p)
    \/ Halt

Spec == Init /\ [][Next]_vars
============================================================================
