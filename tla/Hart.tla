-------------------------------- MODULE Hart --------------------------------
(***************************************************************************)
(* The hart under the kernel: privilege bits of mstatus, the timer, and    *)
(* how a trap saves one process and resumes another (earth/earth.s,        *)
(* earth/cpu_intr.c, earth/cpu_timer.c, grass/grass.s, ctx_entry and the   *)
(* mret of proc_yield in grass/kernel.c), from earth_enter on.             *)
(*                                                                         *)
(* A handler runs in machine mode with interrupts off; it is a few steps   *)
(* here: into the kernel, proc_yield if the process is to wait, and back.  *)
(* Each is composed of functions on the machine m.  Which process the      *)
(* kernel picks is Grass; here it may pick any that has been started.      *)
(***************************************************************************)
EXTENDS Integers

CONSTANTS
    NSlots,            \* processes (slots of proc_set)
    GPID_SHELL, GPID_USER_START,
    HALF,              \* values of half of the compare register (2^32)
    QUANTUM,           \* ticks of a time slice
    MaxTime,           \* bound: the counter stops here
    K                  \* bound: instruction addresses and values wrap here

Procs == 1..NSlots
Top   == HALF * HALF

ASSUME HartAssumption ==
    /\ {NSlots, GPID_SHELL, GPID_USER_START, HALF, QUANTUM, MaxTime, K} \subseteq Nat \ {0}
    /\ MaxTime + QUANTUM < Top - 1

(* privileges as in mstatus.MPP *)
U_MODE == 0
S_MODE == 1
M_MODE == 3
Or(a, b) == IF a = b THEN a ELSE IF M_MODE \in {a, b} THEN M_MODE ELSE a + b

ENTRY == 0             \* APPS_ENTRY
ARGS  == 0             \* what registers hold when a process starts
JUNK  == K             \* what memory holds that was never written

VARIABLES
    translation,       \* earth->translation
    stage,             \* how far the boot has come; then "run" in a process,
                       \* "kernel", "yield" or "exit" in a handler
    m,                 \* the machine: registers, memory, compare, proc_set
    time,              \* the 64-bit counter
    left               \* (history) how each process stood when it lost the hart

hartVars == <<translation, stage, m, time, left>>

-----------------------------------------------------------------------------
(* The hart (privileged architecture 1.10)                                 *)

Trap(s) == [s EXCEPT !.mepc = s.pc, !.mpp = s.mode, !.mode = M_MODE,
                     !.mpie = s.mie, !.mie = FALSE]

(* mret does not clear MPRV *)
mret(s) == [s EXCEPT !.pc = s.mepc, !.mode = s.mpp, !.mpp = U_MODE,
                     !.mie = s.mpie, !.mpie = TRUE]

(* loads and stores run with this privilege *)
Effective(s) == IF s.mode = M_MODE /\ s.mprv THEN s.mpp ELSE s.mode

(* whose memory the address of a stack leads to; 0: physical memory *)
Space(s) == IF translation = "PAGE_TABLE" /\ Effective(s) = M_MODE THEN 0 ELSE s.satp

Compare(s) == s.cmp.h * HALF + s.cmp.l
Pending(s) == s.mtie /\ time >= Compare(s)
Interrupts(s) == Pending(s) /\ (s.mode # M_MODE \/ s.mie)

-----------------------------------------------------------------------------
(* earth/cpu_timer.c                                                       *)

(* the upper half is set out of reach, then the lower one, then the upper: *)
(* with interrupts off only the result counts.  The register is in no page *)
(* table, so a store with less than machine privilege faults.              *)
mtimecmp_set(s, t) ==
    IF translation = "PAGE_TABLE" /\ Effective(s) # M_MODE
    THEN [s EXCEPT !.fatal = "fault"]
    ELSE [s EXCEPT !.cmp = [h |-> t \div HALF, l |-> t % HALF]]

csrc_mprv(s) == [s EXCEPT !.mprv = FALSE]
csrs_mprv(s) == [s EXCEPT !.mprv = TRUE]

timer_reset(s) == csrs_mprv(mtimecmp_set(csrc_mprv(s), time + QUANTUM))

-----------------------------------------------------------------------------
(* Trap entry and exit: earth/earth.s, earth/cpu_intr.c                    *)

CTX_SAVE(s) == [s EXCEPT !.mem[Space(s)][s.sp] = s.regs]
(* what is left below the stack pointer is dead *)
CTX_RESTORE(s) == [s EXCEPT !.regs = s.mem[Space(s)][s.sp], !.mem[Space(s)][s.sp] = JUNK]

(* trap_entry_vm sets MPRV and the lower bit of MPP, and keeps the old MPP *)
(* in tp; trap_entry is compiled as an interrupt function                  *)
SetMprv(s) == [s EXCEPT !.tp = s.mpp, !.mpp = Or(s.mpp, S_MODE), !.mprv = TRUE]
trap_entry(s) == IF translation = "PAGE_TABLE" THEN CTX_SAVE(SetMprv(s)) ELSE CTX_SAVE(s)

ClearMprv(s) == [s EXCEPT !.mpp = s.tp, !.mprv = FALSE]
trap_exit(s) ==
    IF translation = "PAGE_TABLE" THEN mret(ClearMprv(CTX_RESTORE(s))) ELSE mret(CTX_RESTORE(s))

-----------------------------------------------------------------------------
(* grass: ctx_start, ctx_entry, ctx_switch and proc_yield                  *)

(* the stack pointer and mepc of the process that trapped *)
ctx_entry_nomepc(s) == [s EXCEPT !.proc[s.curr].sp = s.sp]
ctx_entry(s) == [s EXCEPT !.proc[s.curr].sp = s.sp, !.proc[s.curr].mepc = s.mepc]

ctx_switch(s) == [s EXCEPT !.mepc = s.proc[s.curr].mepc, !.sp = s.proc[s.curr].sp]

mmu_switch(s, n) == [s EXCEPT !.curr = n, !.satp = n]

(* csrs sets bits: MPP keeps those that trap_entry_vm left in it *)
Mpp_written(s) == IF s.curr < GPID_USER_START THEN S_MODE ELSE U_MODE
Mpp(s) == Or(s.mpp, IF s.curr < GPID_USER_START THEN S_MODE ELSE U_MODE)

(* the entry of a new process, whose app_enter sets the stack pointer *)
EnterApp(s) ==
    mret([s EXCEPT !.mepc = ENTRY, !.regs = ARGS, !.sp = s.curr, !.mpp = Mpp(s), !.mprv = FALSE,
                   !.proc[s.curr].status = "started"])

YieldTo_unset(s, n) == mmu_switch(s, n)
YieldTo(s, n) == timer_reset(mmu_switch(s, n))

-----------------------------------------------------------------------------
Init ==
    /\ translation \in {"PAGE_TABLE", "SOFT_TLB"}
    /\ stage = "earth_enter" /\ time = 0
    /\ \E c \in {0, Top - 1} :       \* the compare register at power-on
          m = [mode |-> M_MODE, mpp |-> M_MODE, mprv |-> FALSE, mie |-> FALSE, mpie |-> FALSE,
               mtie |-> FALSE, mepc |-> ENTRY, tp |-> U_MODE, pc |-> ENTRY, regs |-> ARGS, sp |-> 1,
               satp |-> 0, cmp |-> [h |-> c \div HALF, l |-> c % HALF],
               mem |-> [a \in Procs \union {0} |-> [b \in Procs |-> JUNK]],
               curr |-> 1, handlers |-> FALSE, fatal |-> "none",
               proc |-> [p \in Procs |-> [status |-> "unused", mepc |-> ENTRY, sp |-> p]]]
    /\ left = [p \in Procs |-> [pc |-> ENTRY, regs |-> ARGS]]

At(s) == stage = s /\ m.fatal = "none" /\ ~Interrupts(m)

(* earth_init: timer_init, then intr_init *)
timer_init_nothing ==
    /\ At("earth_enter") /\ stage' = "timer_init"
    /\ UNCHANGED <<translation, m, time, left>>
timer_init ==
    /\ At("earth_enter") /\ stage' = "timer_init"
    /\ m' = mtimecmp_set(m, Top - 1)
    /\ UNCHANGED <<translation, time, left>>

intr_init_masked ==
    /\ At("timer_init") /\ stage' = "intr_init"
    /\ m' = [m EXCEPT !.mie = TRUE, !.mpie = TRUE]
    /\ UNCHANGED <<translation, time, left>>
intr_init ==
    /\ At("timer_init") /\ stage' = "intr_init"
    /\ m' = [m EXCEPT !.mtie = TRUE, !.mie = TRUE, !.mpie = TRUE]
    /\ UNCHANGED <<translation, time, left>>

(* main of earth enters grass, in supervisor mode with page tables *)
earth_main ==
    /\ At("intr_init") /\ stage' = "grass"
    /\ m' = mret([m EXCEPT !.mpp = IF translation = "PAGE_TABLE" THEN S_MODE ELSE m.mpp])
    /\ UNCHANGED <<translation, time, left>>

(* main of grass registers the handlers, and jumps to sys_proc *)
register ==
    /\ At("grass") /\ stage' = "registered"
    /\ m' = [m EXCEPT !.handlers = TRUE]
    /\ UNCHANGED <<translation, time, left>>

grass_main ==
    /\ At("registered") /\ stage' = "run"
    /\ m' = [m EXCEPT !.satp = 1, !.proc[1].status = "started"]
    /\ left' = [p \in Procs |-> [pc |-> ENTRY, regs |-> ARGS, mode |-> m.mode]]
    /\ UNCHANGED <<translation, time>>

Boot == timer_init \/ intr_init \/ earth_main \/ register \/ grass_main

-----------------------------------------------------------------------------
Running == At("run")

(* an instruction of the current process *)
Run ==
    /\ Running
    /\ m' = [m EXCEPT !.regs = m.pc, !.pc = (m.pc + 1) % K]
    /\ UNCHANGED <<translation, stage, time, left>>

(* sys_proc starts a process in a free slot, or frees one that is not it;  *)
(* what the slot and the pages held before is dead                         *)
SetStatus(p) ==
    /\ Running /\ m.curr = 1 /\ p # 1
    /\ m' = [m EXCEPT !.proc[p] = [status |-> IF m.proc[p].status = "unused" THEN "ready" ELSE "unused",
                                  mepc |-> ENTRY, sp |-> p],
                     !.mem[p] = [b \in Procs |-> JUNK]]
    /\ left' = [left EXCEPT ![p] = [pc |-> ENTRY, regs |-> ARGS, mode |-> m.mode]]
    /\ UNCHANGED <<translation, stage, time>>

(* what the current process will find when it continues at address a *)
Leave(a) == left' = [left EXCEPT ![m.curr] = [pc |-> a, regs |-> m.regs, mode |-> m.mode]]

Enter(s, next) == m' = s /\ stage' = next
handle_trap(s, next) ==
    IF m.handlers THEN Enter(s, next) ELSE Enter([s EXCEPT !.fatal = "not registered"], next)

(* an ecall: excp_entry has mret go on after it *)
Skip(s) == [s EXCEPT !.mepc = (s.mepc + 1) % K]
excp_entry ==
    /\ Running
    /\ handle_trap(ctx_entry(Skip(trap_entry(Trap(m)))), "kernel")
    /\ Leave((m.pc + 1) % K)
    /\ UNCHANGED <<translation, time>>

(* the timer: servers, and the boot if it came to that, go on with a new   *)
(* time slice; the others yield, and an app may be killed by Ctrl+C        *)
Killed(s) == [s EXCEPT !.proc[s.curr].status = "unused"]
intr_entry ==
    /\ m.fatal = "none" /\ Interrupts(m)
    /\ \/ m.curr < GPID_SHELL /\ handle_trap(timer_reset(trap_entry(Trap(m))), "exit")
       \/ m.curr >= GPID_SHELL /\ handle_trap(ctx_entry(trap_entry(Trap(m))), "yield")
       \/ m.curr >= GPID_USER_START /\ handle_trap(Killed(ctx_entry(trap_entry(Trap(m)))), "yield")
    /\ Leave(m.pc)
    /\ UNCHANGED <<translation, time>>

(* the system call is done: back to the same process *)
proc_syscall ==
    /\ stage = "kernel"
    /\ Enter(ctx_switch(m), "exit")
    /\ UNCHANGED <<translation, time, left>>

(* after a call that blocks, or at the end of a time slice *)
proc_yield(n) ==
    /\ stage \in {"kernel", "yield"} /\ m.proc[n].status # "unused"
    /\ IF m.proc[n].status = "ready" THEN Enter(EnterApp(YieldTo(m, n)), "run")
       ELSE Enter(ctx_switch(YieldTo(m, n)), "exit")
    /\ UNCHANGED <<translation, time, left>>

Exit ==
    /\ stage = "exit"
    /\ Enter(trap_exit(m), "run")
    /\ UNCHANGED <<translation, time, left>>

Handler == proc_syscall \/ (\E n \in Procs : proc_yield(n)) \/ Exit

Tick ==
    /\ time < MaxTime /\ time' = time + 1
    /\ UNCHANGED <<translation, stage, m, left>>

Next == Boot \/ Run \/ Tick \/ excp_entry \/ intr_entry \/ Handler \/ \E p \in Procs : SetStatus(p)

(* time passes, a pending interrupt that is enabled is taken, and handlers *)
(* go on                                                                   *)
Spec == /\ Init /\ [][Next]_hartVars
        /\ WF_hartVars(Boot) /\ WF_hartVars(Tick) /\ WF_hartVars(intr_entry) /\ WF_hartVars(Handler)

-----------------------------------------------------------------------------
(* Every trap finds its handler, and no handler faults: the timer cannot   *)
(* interrupt the boot before grass has registered intr_entry, whatever the *)
(* compare register held, and the compare register is written with machine *)
(* privilege although the handlers of trap_entry_vm run with MPRV set.     *)
TrapsHandled == m.fatal = "none"

(* a handler gives the hart back to a process, or to a new one *)
Resumed == stage \in {"kernel", "yield", "exit"} /\ stage' = "run"

(* A process goes on where it was: after a trap the hart has the registers *)
(* and the address that the process it resumes had when it lost the hart   *)
(* (after the ecall, if that was one), out of that process's own stack.    *)
ResumesItself ==
    [][Resumed => m'.pc = left[m'.curr].pc /\ m'.regs = left[m'.curr].regs]_hartVars

(* ... and in the privilege it had.  trap_entry_vm keeps that in tp, which *)
(* is not saved with the process: it is the privilege of the process that  *)
(* trapped, not of the one that is resumed.                                *)
ModeKept == [][stage = "exit" /\ stage' = "run" => m'.mode = left[m'.curr].mode]_hartVars

(* A process that is given the hart gets a whole time slice.               *)
FullSlice == [][m'.curr # m.curr => Compare(m') = time + QUANTUM]_hartVars

(* No time slice is endless: a shell or an app that runs is back in the    *)
(* kernel within QUANTUM ticks, even if it never makes a system call.      *)
SliceEnds ==
    (stage = "run" /\ m.curr >= GPID_SHELL /\ time + QUANTUM <= MaxTime) ~> stage # "run"
-----------------------------------------------------------------------------
(* The inductive invariant behind the safety properties.                   *)

Modes == {U_MODE, S_MODE, M_MODE}
Addr  == 0..(K - 1)

Halves  == [h : Nat, l : Nat]
Process == [status : {"unused", "ready", "started"}, mepc : Addr, sp : Procs]
Machine ==
    [mode : Modes, mpp : Modes, mprv : BOOLEAN, mie : BOOLEAN, mpie : BOOLEAN, mtie : BOOLEAN,
     mepc : Addr, tp : Modes, pc : Addr, regs : 0..K, sp : Procs, satp : Procs \union {0},
     cmp : Halves, mem : [Procs \union {0} -> [Procs -> 0..K]], curr : Procs,
     handlers : BOOLEAN, fatal : {"none", "fault", "not registered"},
     proc : [Procs -> Process]]

(* the privilege processes run with: the bits of MPP are never cleared *)
PMode == IF translation = "PAGE_TABLE" THEN S_MODE ELSE M_MODE

BootStage    == {"earth_enter", "timer_init", "intr_init", "grass", "registered"}
HandlerStage == {"kernel", "yield", "exit"}

BootInv ==
    /\ m.curr = 1 /\ ~m.mprv /\ \A p \in Procs : m.proc[p].status = "unused"
    /\ IF stage \in {"earth_enter", "timer_init"} THEN ~m.mtie ELSE Compare(m) = Top - 1
    /\ stage = "timer_init" => Compare(m) = Top - 1
    /\ IF stage \in {"grass", "registered"} THEN m.mode = PMode
       ELSE m.mode = M_MODE /\ m.mpp = M_MODE
    /\ stage = "registered" => m.handlers

(* what a process will be resumed with is on its own stack and in proc_set *)
Saved(p) == m.proc[p].mepc = left[p].pc /\ m.mem[p][p] = left[p].regs

ProcsInv ==
    /\ m.handlers /\ m.satp = m.curr
    /\ left = [p \in Procs |-> left[p]]
    /\ \A p \in Procs :
          /\ left[p].mode = PMode
          /\ m.proc[p].status = "ready" => left[p].pc = ENTRY /\ left[p].regs = ARGS
          /\ m.proc[p].status = "started" /\ p # m.curr => Saved(p)

RunInv ==
    /\ m.proc[m.curr].status = "started" /\ m.mode = PMode
    /\ translation = "PAGE_TABLE" => ~m.mprv

HandlerInv ==
    /\ m.mode = M_MODE /\ ~m.mie /\ m.mpp = PMode
    /\ translation = "PAGE_TABLE" => m.mprv /\ m.tp = S_MODE
    /\ stage # "yield" => m.proc[m.curr].status = "started"
    /\ IF stage = "exit"
       THEN m.mepc = left[m.curr].pc /\ m.mem[m.curr][m.curr] = left[m.curr].regs
       ELSE m.proc[m.curr].status = "started" => Saved(m.curr)

(* A process that is not running has its context where ctx_switch and      *)
(* CTX_RESTORE will look for it, in its own address space, whichever       *)
(* translation is used and whatever MPRV and MPP are by then; and no       *)
(* handler has failed.                                                     *)
HartInv ==
    /\ translation \in {"PAGE_TABLE", "SOFT_TLB"} /\ time \in 0..MaxTime /\ m \in Machine
    /\ m.fatal = "none" /\ m.sp = m.curr /\ \A p \in Procs : m.proc[p].sp = p
    /\ \/ stage \in BootStage /\ BootInv
       \/ stage = "run" /\ ProcsInv /\ RunInv
       \/ stage \in HandlerStage /\ ProcsInv /\ HandlerInv
=============================================================================
