------------------------------- MODULE Sched -------------------------------
(***************************************************************************)
(* The process table, the system calls that change it and the timer        *)
(* interrupt (src/cpu/sched.c, src/cpu/irq.asm, the process cases of       *)
(* src/cpu/syscall.c, jump_to_ring3 in src/programs/elf.c).                *)
(*                                                                         *)
(* One CPU.  Ring 0 runs with IF clear (boot starts with cli, SFMASK clears *)
(* IF on SYSCALL, every IDT gate is an interrupt gate), so a system call   *)
(* and the timer handler are each one atomic step, and the timer arrives   *)
(* only between two ring-3 instructions.  The early returns of             *)
(* irq_timer_dispatch for an unarmed scheduler and for a ring-0 frame are  *)
(* therefore behind the conjunct mode = "user": jump_to_ring3 arms         *)
(* preemption before the first instruction of ring 3.                      *)
(*                                                                         *)
(* A register image is abstracted to the thread whose image it is and to   *)
(* whether that thread has executed anything since: a ring-3 instruction   *)
(* makes every saved image of its thread stale.  A thread is named by the  *)
(* pid under which it was started.                                         *)
(*                                                                         *)
(* Left out because nothing reads them: procs[].signal, sched_jiffies,     *)
(* sched_in_idle.                                                          *)
(***************************************************************************)
EXTENDS Integers, FiniteSets

CONSTANTS
    PROC_MAX,         \* CONFIG_SCHED_MAX_PROCS
    Policy,           \* "RR" (CONFIG_SCHED_RR) or "CFS" (CONFIG_SCHED_CFS)
    Signals,          \* the signal numbers user programs pass to SYS_KILL
    UserExecs,        \* whether user programs call SYS_EXEC
    VruntimeModulus,  \* 2^64 in the code: vruntime is a uint64_t
    MaxVruntime       \* bound: no tick charges a process beyond this

ASSUME SchedAssumption ==
    /\ PROC_MAX \in Nat \ {0}
    /\ Policy \in {"RR", "CFS"}
    /\ Signals \subseteq Nat
    /\ UserExecs \in BOOLEAN
    /\ VruntimeModulus \in Nat \ {0}
    /\ MaxVruntime \in Nat

VARIABLES
    state,         \* procs[i].state
    pid,           \* procs[i].pid
    vruntime,      \* procs[i].vruntime
    frame,         \* procs[i].frame
    current_proc,  \* the slot the kernel believes is running, or -1
    next_pid,
    cpu,           \* the context ring 3 really executes
    mode           \* "boot", "user" or "panic"

vars == <<state, pid, vruntime, frame, current_proc, next_pid, cpu, mode>>

PROC_UNUSED   == "unused"
PROC_RUNNABLE == "runnable"
PROC_ZOMBIE   == "zombie"

Fatal == {2, 9, 11}    \* SIGINT, SIGKILL, SIGSEGV

Slots == 0 .. PROC_MAX - 1

Context == [tid : Nat, fresh : BOOLEAN]

NoContext == [tid |-> 0, fresh |-> FALSE]

Runnable == {i \in Slots : state[i] = PROC_RUNNABLE}

\* Faulty variant: the first process gets pid 0, the pid of an unused slot.
sched_init_PidZero ==
    /\ state = [i \in Slots |-> PROC_UNUSED]
    /\ pid = [i \in Slots |-> 0]
    /\ vruntime = [i \in Slots |-> 0]
    /\ frame = [i \in Slots |-> NoContext]
    /\ current_proc = -1
    /\ next_pid = 0

sched_init ==
    /\ state = [i \in Slots |-> PROC_UNUSED]
    /\ pid = [i \in Slots |-> 0]
    /\ vruntime = [i \in Slots |-> 0]
    /\ frame = [i \in Slots |-> NoContext]
    /\ current_proc = -1
    /\ next_pid = 1

Init ==
    /\ sched_init
    /\ cpu = NoContext
    /\ mode = "boot"

----------------------------------------------------------------------------
(* Ring 3 executes one instruction of the thread on the CPU.               *)

Outdate(f) == [f EXCEPT !.fresh = f.fresh /\ f.tid # cpu.tid]

FramesAfterStep == [i \in Slots |-> Outdate(frame[i])]

\* Faulty variant: zombie slots are handed out again.
alloc_proc_Reuse(slot) ==
    /\ state[slot] # PROC_RUNNABLE
    /\ \A j \in Slots : j < slot => state[j] = PROC_RUNNABLE

\* slot is what alloc_proc returns: the first unused entry.
alloc_proc(slot) ==
    /\ state[slot] = PROC_UNUSED
    /\ \A j \in Slots : j < slot => state[j] # PROC_UNUSED

TableFull == \A i \in Slots : state[i] # PROC_UNUSED

\* The part sched_create_user and sched_fork_current share: fill the slot.
FillSlot(slot, vr) ==
    /\ state' = [state EXCEPT ![slot] = PROC_RUNNABLE]
    /\ pid' = [pid EXCEPT ![slot] = next_pid]
    /\ vruntime' = [vruntime EXCEPT ![slot] = vr]
    /\ frame' = [FramesAfterStep EXCEPT ![slot] = [tid |-> next_pid, fresh |-> TRUE]]
    /\ next_pid' = next_pid + 1

sched_create_user(slot) ==
    /\ alloc_proc(slot)
    /\ FillSlot(slot, 0)
    /\ current_proc' = IF current_proc < 0 THEN slot ELSE current_proc

\* The new image is on the CPU at its entry point; its slot holds the same.
jump_to_ring3 ==
    \/ \E slot \in Slots :
          /\ sched_create_user(slot)
          /\ cpu' = [tid |-> next_pid, fresh |-> TRUE]
          /\ mode' = "user"
    \/ /\ TableFull
       /\ mode' = "panic"
       /\ UNCHANGED <<state, pid, vruntime, frame, current_proc, next_pid, cpu>>

kpanic ==
    /\ mode' = "panic"
    /\ UNCHANGED <<state, pid, vruntime, frame, current_proc, next_pid, cpu>>

\* The end of kmain: one of the init paths loads, or the kernel panics.
kmain ==
    /\ mode = "boot"
    /\ jump_to_ring3 \/ kpanic

\* An instruction or a system call that does not touch the process table,
\* a failing SYS_FORK, SYS_KILL or SYS_EXEC included.
Ring3Step ==
    /\ mode = "user"
    /\ frame' = FramesAfterStep
    /\ UNCHANGED <<state, pid, vruntime, current_proc, next_pid, cpu, mode>>

\* Faulty variant: the child starts with virtual runtime 0.
sched_fork_current_ZeroVruntime ==
    /\ mode = "user"
    /\ current_proc >= 0
    /\ state[current_proc] = PROC_RUNNABLE
    /\ \E slot \in Slots : alloc_proc(slot) /\ FillSlot(slot, 0)
    /\ UNCHANGED <<current_proc, cpu, mode>>

\* Faulty variant: a process that was killed and is still on the CPU can fork.
sched_fork_current_AnyCaller ==
    /\ mode = "user"
    /\ \E slot \in Slots : alloc_proc(slot) /\ FillSlot(slot, 0)
    /\ UNCHANGED <<current_proc, cpu, mode>>

sched_fork_current ==
    /\ mode = "user"
    /\ current_proc >= 0
    /\ state[current_proc] = PROC_RUNNABLE
    /\ \E slot \in Slots :
          alloc_proc(slot) /\ FillSlot(slot, vruntime[current_proc])
    /\ UNCHANGED <<current_proc, cpu, mode>>

sched_kill(i, sig) ==
    /\ mode = "user"
    /\ state[i] = PROC_RUNNABLE
    /\ state' = [state EXCEPT ![i] = IF sig \in Fatal THEN PROC_ZOMBIE ELSE @]
    /\ current_proc' = IF i = current_proc THEN -1 ELSE current_proc
    /\ frame' = FramesAfterStep
    /\ UNCHANGED <<pid, vruntime, next_pid, cpu, mode>>

SysExec ==
    /\ mode = "user"
    /\ UserExecs
    /\ jump_to_ring3

SysExit ==
    /\ mode = "user"
    /\ kpanic

\* An invalid opcode, protection or page fault of any process.
cpu_exception_handler ==
    /\ mode = "user"
    /\ kpanic

----------------------------------------------------------------------------
(* The timer interrupt.                                                    *)

\* Faulty variant: the scan always starts at slot 0.
RrDistance_FromZero(i) == i

\* Steps of the scan of choose_rr from its start to entry i.
RrDistance(i) ==
    (i - (IF current_proc < 0 THEN 0 ELSE current_proc + 1)) % PROC_MAX

\* Faulty variant: every used slot can be chosen.
choose_rr_ZombieToo(next) ==
    /\ state[next] # PROC_UNUSED
    /\ \A j \in Slots : state[j] # PROC_UNUSED => RrDistance(next) <= RrDistance(j)

choose_rr(next) ==
    /\ next \in Runnable
    /\ \A j \in Runnable : RrDistance(next) <= RrDistance(j)

\* vr: the virtual runtimes after the interrupted process was charged.
choose_cfs(next, vr) ==
    /\ next \in Runnable
    /\ \A j \in Runnable : vr[next] < vr[j] \/ (vr[next] = vr[j] /\ next <= j)

choose_next(next, vr) ==
    IF Policy = "CFS" THEN choose_cfs(next, vr) ELSE choose_rr(next)

\* Faulty variant: slot 0 counts as "no current process".
SavesCurrent_NotSlotZero ==
    current_proc > 0 /\ state[current_proc] = PROC_RUNNABLE

SavesCurrent ==
    current_proc >= 0 /\ state[current_proc] = PROC_RUNNABLE

\* Faulty variant: current_proc is advanced before the frame is saved.
irq_timer_dispatch_LateSave ==
    /\ mode = "user"
    /\ UNCHANGED vruntime
    /\ \/ \E next \in Slots :
             /\ choose_next(next, vruntime)
             /\ current_proc' = next
             /\ frame' = [frame EXCEPT ![next] = cpu]
       \/ /\ Runnable = {}
          /\ UNCHANGED <<current_proc, frame>>
    /\ UNCHANGED <<state, pid, next_pid, cpu, mode>>

\* Faulty variant: nothing is dispatched when there is no current process.
irq_timer_dispatch_NeedsCurrent ==
    /\ mode = "user"
    /\ SavesCurrent
    /\ frame' = [frame EXCEPT ![current_proc] = cpu]
    /\ \E next \in Slots :
          /\ choose_next(next, vruntime)
          /\ current_proc' = next
          /\ cpu' = frame'[next]
    /\ UNCHANGED <<state, pid, vruntime, next_pid, mode>>

irq_timer_dispatch ==
    /\ mode = "user"
    /\ SavesCurrent => vruntime[current_proc] < MaxVruntime
    /\ frame' = IF SavesCurrent THEN [frame EXCEPT ![current_proc] = cpu] ELSE frame
    /\ vruntime' = IF SavesCurrent
                   THEN [vruntime EXCEPT ![current_proc] = (@ + 1) % VruntimeModulus]
                   ELSE vruntime
    /\ \/ \E next \in Slots :
             /\ choose_next(next, vruntime')
             /\ current_proc' = next
             /\ cpu' = frame'[next]
       \/ /\ Runnable = {}
          /\ UNCHANGED <<current_proc, cpu>>
    /\ UNCHANGED <<state, pid, next_pid, mode>>

Next ==
    \/ kmain
    \/ Ring3Step
    \/ sched_fork_current
    \/ \E i \in Slots, sig \in Signals : sched_kill(i, sig)
    \/ SysExec
    \/ SysExit
    \/ cpu_exception_handler
    \/ irq_timer_dispatch

Spec == Init /\ [][Next]_vars

\* The PIT fires periodically and ring 3 cannot mask it (IOPL is 0).
FairSpec == Spec /\ WF_vars(irq_timer_dispatch)

----------------------------------------------------------------------------
(* Properties.                                                             *)

\* Every variable has its type.
TypeOK ==
    /\ state \in [Slots -> {PROC_UNUSED, PROC_RUNNABLE, PROC_ZOMBIE}]
    /\ pid \in [Slots -> Nat]
    /\ vruntime \in [Slots -> Nat]
    /\ frame \in [Slots -> Context]
    /\ current_proc \in Slots \cup {-1}
    /\ next_pid \in Nat \ {0}
    /\ cpu \in Context
    /\ mode \in {"boot", "user", "panic"}

\* Slots are handed out in order and never reclaimed, so the used slots are
\* the first next_pid - 1 and slot i holds pid i + 1: a pid given to SYS_KILL
\* names at most one process for the life of the system, and next_pid (a C
\* int) cannot overflow.
PidsNameSlots ==
    /\ next_pid <= PROC_MAX + 1
    /\ \A i \in Slots : state[i] # PROC_UNUSED <=> i + 1 < next_pid
    /\ \A i \in Slots : state[i] # PROC_UNUSED => pid[i] = i + 1

\* The slot the kernel takes for the running one is always runnable, however
\* kills and ticks interleave: irq_timer_dispatch never saves into a dead slot
\* and sched_fork_current never forks a dead process.
CurrentIsRunnable ==
    current_proc >= 0 => state[current_proc] = PROC_RUNNABLE

\* The context ring 3 runs is the latest one of its thread: no tick resumes a
\* process from an image saved before instructions it has already executed.
NoStaleResume ==
    mode = "user" => cpu.fresh

\* The thread on the CPU is held by no runnable slot other than the current
\* one: no later tick can start a second copy of it.
RunnerHeldOnce ==
    mode = "user" => \A i \in Runnable : i # current_proc => frame[i].tid # cpu.tid

\* The kernel's idea of who runs is right: if it has a current slot, the CPU
\* executes the thread started in that slot.
CurrentIsRunner ==
    mode = "user" /\ current_proc >= 0 => cpu.tid = pid[current_proc]

Dead(t) == \E i \in Slots : state[i] = PROC_ZOMBIE /\ pid[i] = t

\* Once a killed process is off the CPU it never executes again: no tick
\* dispatches a zombie.
DeadStaysOff ==
    [][\A t \in 1 .. PROC_MAX : Dead(t) /\ cpu.tid # t => cpu'.tid # t]_vars

\* Round robin is free of starvation: a runnable process gets the CPU, unless
\* it is killed or the kernel panics first.
RunnableGetsCpu ==
    \A i \in Slots :
        state[i] = PROC_RUNNABLE ~>
            (cpu.tid = pid[i] \/ state[i] = PROC_ZOMBIE \/ mode = "panic")

\* A process that killed itself loses the CPU if anyone else can run.
KilledLeavesCpu ==
    \A t \in 1 .. PROC_MAX :
        (cpu.tid = t /\ Dead(t) /\ Runnable # {}) ~>
            (cpu.tid # t \/ Runnable = {} \/ mode = "panic")

\* CFS never lets two runnable processes drift apart: their virtual runtimes
\* differ by at most one tick, whatever is forked or killed.
CfsSpread ==
    Policy = "CFS" =>
        \A i, j \in Runnable : vruntime[i] <= vruntime[j] + 1

----------------------------------------------------------------------------
(* The abstract scheduler this one implements.                             *)

PidsOf(st) == {pid[i] : i \in {j \in Slots : state[j] = st}}

\* The process whose latest context is on the CPU; an outdated context is no
\* process of the abstract scheduler.
RunningPid == IF cpu.fresh \/ cpu.tid = 0 THEN cpu.tid ELSE -1

Abstract == INSTANCE Processes
    WITH Pids <- 1 .. PROC_MAX, live <- PidsOf(PROC_RUNNABLE), dead <- PidsOf(PROC_ZOMBIE),
         running <- RunningPid, halted <- mode = "panic"

\* The table, the frames and current_proc behave like the abstract scheduler:
\* only a live process on the CPU forks, a fork or a kill changes one process,
\* and a tick resumes the latest context of a live process.
ImplementsProcesses == Abstract!Spec
============================================================================
