----------------------------- MODULE HartProofs -----------------------------
(***************************************************************************)
(* The safety properties of Hart for any number of processes, length of a  *)
(* time slice, width of the compare register, instructions and values.     *)
(* HartInv is inductive: what each function does to the machine is stated  *)
(* once, as the fields it sets and those it keeps.                         *)
(***************************************************************************)
EXTENDS Hart, TLAPS

LEMMA Constants ==
    /\ NSlots \in Nat /\ NSlots > 0 /\ HALF \in Nat /\ HALF > 0 /\ QUANTUM \in Nat /\ K \in Nat
    /\ K > 0 /\ MaxTime \in Nat /\ 1 \in Procs /\ 0 \notin Procs
    /\ Top \in Nat /\ MaxTime + QUANTUM < Top - 1 /\ Top > 0
<1>1. /\ NSlots \in Nat /\ NSlots > 0 /\ HALF \in Nat /\ HALF > 0 /\ QUANTUM \in Nat /\ K \in Nat
      /\ K > 0 /\ MaxTime \in Nat /\ MaxTime + QUANTUM < Top - 1
  BY HartAssumption
<1>2. HALF * HALF \in Nat
  BY <1>1
<1>3. Top \in Nat
  BY <1>2 DEF Top
<1> QED BY <1>1, <1>3 DEF Procs

LEMMA DivMod ==
    ASSUME NEW t \in Nat
    PROVE  /\ t \div HALF \in Nat /\ t % HALF \in Nat
           /\ (t \div HALF) * HALF + (t % HALF) = t
<1>1. HALF \in Nat /\ HALF > 0
  BY Constants
<1> QED BY <1>1

LEMMA Wraps ==
    ASSUME NEW a \in Addr
    PROVE  (a + 1) % K \in Addr
<1>1. K \in Nat /\ K > 0
  BY Constants
<1> QED BY <1>1 DEF Addr

-----------------------------------------------------------------------------
(* fields of a machine that no trap handler touches, and those a step of   *)
(* one keeps                                                               *)
Fixed(s, t) == t.mtie = s.mtie /\ t.handlers = s.handlers /\ t.fatal = s.fatal

LEMMA TrapFields ==
    ASSUME NEW s \in Machine
    PROVE  /\ Trap(s) \in Machine /\ Fixed(s, Trap(s))
           /\ Trap(s).mepc = s.pc /\ Trap(s).mpp = s.mode /\ Trap(s).mode = M_MODE
           /\ Trap(s).mie = FALSE /\ Trap(s).mprv = s.mprv /\ Trap(s).cmp = s.cmp
           /\ Trap(s).sp = s.sp /\ Trap(s).satp = s.satp /\ Trap(s).curr = s.curr
           /\ Trap(s).regs = s.regs /\ Trap(s).mem = s.mem /\ Trap(s).proc = s.proc
BY DEF Trap, Machine, Modes, M_MODE, Fixed

LEMMA MretFields ==
    ASSUME NEW s \in Machine
    PROVE  /\ mret(s) \in Machine /\ Fixed(s, mret(s))
           /\ mret(s).pc = s.mepc /\ mret(s).mode = s.mpp /\ mret(s).mprv = s.mprv
           /\ mret(s).cmp = s.cmp /\ mret(s).sp = s.sp /\ mret(s).satp = s.satp
           /\ mret(s).curr = s.curr /\ mret(s).regs = s.regs /\ mret(s).mem = s.mem
           /\ mret(s).proc = s.proc
BY DEF mret, Machine, Modes, U_MODE, Fixed

(* CTX_SAVE and CTX_RESTORE use the stack in the space s has, here that of *)
(* a process                                                               *)
LEMMA SaveFields ==
    ASSUME NEW s \in Machine, Space(s) = s.satp
    PROVE  /\ CTX_SAVE(s) \in Machine /\ Fixed(s, CTX_SAVE(s))
           /\ CTX_SAVE(s).mode = s.mode /\ CTX_SAVE(s).mpp = s.mpp /\ CTX_SAVE(s).mie = s.mie
           /\ CTX_SAVE(s).mprv = s.mprv /\ CTX_SAVE(s).tp = s.tp /\ CTX_SAVE(s).mepc = s.mepc
           /\ CTX_SAVE(s).cmp = s.cmp /\ CTX_SAVE(s).sp = s.sp /\ CTX_SAVE(s).satp = s.satp
           /\ CTX_SAVE(s).curr = s.curr /\ CTX_SAVE(s).proc = s.proc
           /\ CTX_SAVE(s).mem[s.satp][s.sp] = s.regs
           /\ \A p \in Procs \ {s.satp} : CTX_SAVE(s).mem[p] = s.mem[p]
<1> DEFINE M == [s.mem EXCEPT ![s.satp][s.sp] = s.regs]
<1>1. /\ s.mem \in [Procs \union {0} -> [Procs -> 0..K]]
      /\ s.satp \in Procs \union {0} /\ s.sp \in Procs /\ s.regs \in 0..K
  BY DEF Machine
<1>2. /\ M \in [Procs \union {0} -> [Procs -> 0..K]] /\ M[s.satp][s.sp] = s.regs
      /\ \A p \in Procs \ {s.satp} : M[p] = s.mem[p]
  BY <1>1
<1>3. CTX_SAVE(s) = [s EXCEPT !.mem = M]
  BY DEF CTX_SAVE, Machine
<1> HIDE DEF M
<1> QED BY <1>2, <1>3 DEF Machine, Fixed

LEMMA RestoreFields ==
    ASSUME NEW s \in Machine, Space(s) = s.satp
    PROVE  /\ CTX_RESTORE(s) \in Machine /\ Fixed(s, CTX_RESTORE(s))
           /\ CTX_RESTORE(s).mode = s.mode /\ CTX_RESTORE(s).mpp = s.mpp
           /\ CTX_RESTORE(s).mprv = s.mprv /\ CTX_RESTORE(s).tp = s.tp
           /\ CTX_RESTORE(s).mepc = s.mepc /\ CTX_RESTORE(s).cmp = s.cmp
           /\ CTX_RESTORE(s).sp = s.sp /\ CTX_RESTORE(s).satp = s.satp
           /\ CTX_RESTORE(s).curr = s.curr /\ CTX_RESTORE(s).proc = s.proc
           /\ CTX_RESTORE(s).regs = s.mem[s.satp][s.sp]
           /\ \A p \in Procs \ {s.satp} : CTX_RESTORE(s).mem[p] = s.mem[p]
<1>1. JUNK \in 0..K
  BY Constants DEF JUNK
<1> DEFINE M == [s.mem EXCEPT ![s.satp][s.sp] = JUNK]
           r == s.mem[s.satp][s.sp]
<1>2. /\ s.mem \in [Procs \union {0} -> [Procs -> 0..K]]
      /\ s.satp \in Procs \union {0} /\ s.sp \in Procs
  BY DEF Machine
<1>3. /\ M \in [Procs \union {0} -> [Procs -> 0..K]] /\ r \in 0..K
      /\ \A p \in Procs \ {s.satp} : M[p] = s.mem[p]
  BY <1>1, <1>2
<1>4. CTX_RESTORE(s) = [s EXCEPT !.regs = r, !.mem = M]
  BY DEF CTX_RESTORE, Machine
<1> HIDE DEF M, r
<1>5. CTX_RESTORE(s).regs = r
  BY <1>3, <1>4 DEF Machine
<1> QED BY <1>3, <1>4, <1>5 DEF Machine, Fixed, r

LEMMA EntrySaves ==
    ASSUME translation \in {"PAGE_TABLE", "SOFT_TLB"}, NEW s \in Machine, s.mode = PMode
    PROVE  LET e == trap_entry(Trap(s))
           IN  /\ e \in Machine /\ Fixed(s, e)
               /\ e.mode = M_MODE /\ ~e.mie /\ e.mpp = PMode
               /\ translation = "PAGE_TABLE" => e.mprv /\ e.tp = S_MODE
               /\ e.mepc = s.pc /\ e.cmp = s.cmp /\ e.sp = s.sp /\ e.satp = s.satp
               /\ e.curr = s.curr /\ e.proc = s.proc /\ e.mem[s.satp][s.sp] = s.regs
               /\ \A p \in Procs \ {s.satp} : e.mem[p] = s.mem[p]
<1> DEFINE t == Trap(s)
<1>1. /\ t \in Machine /\ Fixed(s, t)
      /\ t.mepc = s.pc /\ t.mpp = PMode /\ t.mode = M_MODE
      /\ t.mie = FALSE /\ t.cmp = s.cmp /\ t.sp = s.sp /\ t.satp = s.satp /\ t.curr = s.curr
      /\ t.regs = s.regs /\ t.mem = s.mem /\ t.proc = s.proc
  BY TrapFields
<1> HIDE DEF t
<1>2. CASE translation = "PAGE_TABLE"
  <2> DEFINE u == SetMprv(t)
  <2>1. u = [t EXCEPT !.tp = S_MODE, !.mpp = S_MODE, !.mprv = TRUE]
    BY <1>1, <1>2 DEF SetMprv, PMode, Or
  <2>2. /\ u \in Machine /\ Fixed(t, u) /\ u.tp = S_MODE /\ u.mpp = S_MODE /\ u.mprv
        /\ u.mode = t.mode /\ u.mie = t.mie /\ u.mepc = t.mepc /\ u.cmp = t.cmp /\ u.sp = t.sp
        /\ u.satp = t.satp /\ u.curr = t.curr /\ u.proc = t.proc /\ u.mem = t.mem /\ u.regs = t.regs
    <3>1. S_MODE \in Modes
      BY DEF Modes
    <3> HIDE DEF u
    <3> QED BY <1>1, <2>1, <3>1 DEF Machine, Fixed
  <2> HIDE DEF u
  <2>3. Space(u) = u.satp
    BY <2>2 DEF Space, Effective, S_MODE, M_MODE
  <2>4. trap_entry(t) = CTX_SAVE(u)
    BY <1>2 DEF trap_entry, u
  <2> QED BY <1>1, <1>2, <2>2, <2>3, <2>4, SaveFields DEF Fixed, t, PMode
<1>3. CASE translation = "SOFT_TLB"
  <2>1. Space(t) = t.satp
    BY <1>3 DEF Space
  <2>2. trap_entry(t) = CTX_SAVE(t)
    BY <1>3 DEF trap_entry
  <2> QED BY <1>1, <1>3, <2>1, <2>2, SaveFields DEF Fixed, t
<1> QED BY <1>2, <1>3

LEMMA ExitRestores ==
    ASSUME translation \in {"PAGE_TABLE", "SOFT_TLB"}, NEW s \in Machine, s.mode = M_MODE,
           s.mpp = PMode, translation = "PAGE_TABLE" => s.mprv /\ s.tp = S_MODE
    PROVE  LET e == trap_exit(s)
           IN  /\ e \in Machine /\ Fixed(s, e)
               /\ e.mode = PMode /\ (translation = "PAGE_TABLE" => ~e.mprv)
               /\ e.pc = s.mepc /\ e.regs = s.mem[s.satp][s.sp] /\ e.cmp = s.cmp /\ e.sp = s.sp
               /\ e.satp = s.satp /\ e.curr = s.curr /\ e.proc = s.proc
               /\ \A p \in Procs \ {s.satp} : e.mem[p] = s.mem[p]
<1> DEFINE t == CTX_RESTORE(s)
<1>1. Space(s) = s.satp
  BY DEF Space, Effective, PMode, S_MODE, M_MODE
<1>2. /\ t \in Machine /\ Fixed(s, t) /\ t.mode = s.mode /\ t.mpp = s.mpp /\ t.mprv = s.mprv
      /\ t.tp = s.tp /\ t.mepc = s.mepc /\ t.cmp = s.cmp /\ t.sp = s.sp /\ t.satp = s.satp
      /\ t.curr = s.curr /\ t.proc = s.proc /\ t.regs = s.mem[s.satp][s.sp]
      /\ \A p \in Procs \ {s.satp} : t.mem[p] = s.mem[p]
  BY <1>1, RestoreFields
<1> HIDE DEF t
<1>3. CASE translation = "PAGE_TABLE"
  <2> DEFINE u == ClearMprv(t)
  <2>1. /\ u \in Machine /\ Fixed(t, u) /\ u.mpp = S_MODE /\ u.mprv = FALSE
        /\ u.mepc = t.mepc /\ u.cmp = t.cmp /\ u.sp = t.sp
        /\ u.satp = t.satp /\ u.curr = t.curr /\ u.proc = t.proc /\ u.mem = t.mem /\ u.regs = t.regs
    BY <1>2, <1>3 DEF ClearMprv, Machine, Fixed, Modes
  <2> HIDE DEF u
  <2>2. trap_exit(s) = mret(u)
    BY <1>3 DEF trap_exit, t, u
  <2> QED BY <1>2, <1>3, <2>1, <2>2, MretFields DEF Fixed, PMode
<1>4. CASE translation = "SOFT_TLB"
  <2>1. trap_exit(s) = mret(t)
    BY <1>4 DEF trap_exit, t
  <2> QED BY <1>2, <1>4, <2>1, MretFields DEF Fixed
<1> QED BY <1>3, <1>4

-----------------------------------------------------------------------------
(* timer_reset reaches the compare register whatever MPRV was.             *)
LEMMA TimerReset ==
    ASSUME NEW s \in Machine, s.mode = M_MODE, time \in 0..MaxTime
    PROVE  LET e == timer_reset(s)
           IN  /\ e \in Machine /\ Fixed(s, e) /\ Compare(e) = time + QUANTUM
               /\ e.mode = s.mode /\ e.mie = s.mie /\ e.mpp = s.mpp /\ e.mprv /\ e.tp = s.tp
               /\ e.mepc = s.mepc /\ e.sp = s.sp /\ e.satp = s.satp /\ e.curr = s.curr
               /\ e.proc = s.proc /\ e.mem = s.mem
<1> DEFINE t == csrc_mprv(s)
           c == [h |-> (time + QUANTUM) \div HALF, l |-> (time + QUANTUM) % HALF]
<1>1. c \in Halves /\ c.h * HALF + c.l = time + QUANTUM
  <2>1. time + QUANTUM \in Nat
    BY Constants
  <2> QED BY <2>1, DivMod DEF Halves
<1> HIDE DEF c
<1>0. c \in Halves
  BY <1>1
<1>2. Effective(t) = M_MODE
  BY DEF Effective, csrc_mprv, Machine
<1>3. mtimecmp_set(t, time + QUANTUM) = [t EXCEPT !.cmp = c]
  BY <1>2 DEF mtimecmp_set, c
<1>4. timer_reset(s) = [s EXCEPT !.mprv = TRUE, !.cmp = c]
  BY <1>3 DEF timer_reset, csrc_mprv, csrs_mprv, Machine
<1>5. Compare([s EXCEPT !.mprv = TRUE, !.cmp = c]) = time + QUANTUM
  BY <1>1 DEF Compare, Machine
<1> HIDE DEF t
<1> DEFINE e == timer_reset(s)
<1>6. /\ e \in Machine /\ Fixed(s, e) /\ e.mode = s.mode /\ e.mie = s.mie /\ e.mpp = s.mpp
      /\ e.mprv = TRUE /\ e.tp = s.tp /\ e.mepc = s.mepc /\ e.sp = s.sp /\ e.satp = s.satp
      /\ e.curr = s.curr /\ e.proc = s.proc /\ e.mem = s.mem
  BY <1>0, <1>4 DEF Machine, Fixed
<1> QED BY <1>4, <1>5, <1>6

(* ctx_entry and ctx_switch                                                *)
LEMMA EntryFields ==
    ASSUME NEW s \in Machine
    PROVE  LET e == ctx_entry(s)
           IN  /\ e \in Machine /\ Fixed(s, e)
               /\ e.mode = s.mode /\ e.mie = s.mie /\ e.mpp = s.mpp /\ e.mprv = s.mprv
               /\ e.tp = s.tp /\ e.mepc = s.mepc /\ e.sp = s.sp /\ e.satp = s.satp
               /\ e.curr = s.curr /\ e.mem = s.mem
               /\ e.proc[s.curr].sp = s.sp /\ e.proc[s.curr].mepc = s.mepc
               /\ e.proc[s.curr].status = s.proc[s.curr].status
               /\ \A p \in Procs \ {s.curr} : e.proc[p] = s.proc[p]
<1> DEFINE P == [s.proc EXCEPT ![s.curr].sp = s.sp, ![s.curr].mepc = s.mepc]
<1>1. s.proc \in [Procs -> Process] /\ s.curr \in Procs /\ s.sp \in Procs /\ s.mepc \in Addr
  BY DEF Machine
<1>2. /\ P \in [Procs -> Process] /\ P[s.curr].sp = s.sp /\ P[s.curr].mepc = s.mepc
      /\ P[s.curr].status = s.proc[s.curr].status
      /\ \A p \in Procs \ {s.curr} : P[p] = s.proc[p]
  BY <1>1 DEF Process
<1>3. ctx_entry(s) = [s EXCEPT !.proc = P]
  BY DEF ctx_entry, Machine
<1> HIDE DEF P
<1> QED BY <1>2, <1>3 DEF Machine, Fixed

LEMMA SwitchFields ==
    ASSUME NEW s \in Machine
    PROVE  LET e == ctx_switch(s)
           IN  /\ e \in Machine /\ Fixed(s, e)
               /\ e.mode = s.mode /\ e.mie = s.mie /\ e.mpp = s.mpp /\ e.mprv = s.mprv
               /\ e.tp = s.tp /\ e.cmp = s.cmp /\ e.satp = s.satp /\ e.curr = s.curr
               /\ e.mem = s.mem /\ e.proc = s.proc
               /\ e.mepc = s.proc[s.curr].mepc /\ e.sp = s.proc[s.curr].sp
<1>1. s.proc[s.curr].mepc \in Addr /\ s.proc[s.curr].sp \in Procs
  BY DEF Machine, Process
<1> QED BY <1>1 DEF ctx_switch, Machine, Fixed

(* proc_yield up to the choice between a new process and one to resume     *)
LEMMA YieldFields ==
    ASSUME NEW s \in Machine, s.mode = M_MODE, time \in 0..MaxTime, NEW n \in Procs
    PROVE  LET e == YieldTo(s, n)
           IN  /\ e \in Machine /\ Fixed(s, e) /\ Compare(e) = time + QUANTUM
               /\ e.mode = s.mode /\ e.mie = s.mie /\ e.mpp = s.mpp /\ e.mprv /\ e.tp = s.tp
               /\ e.satp = n /\ e.curr = n /\ e.proc = s.proc /\ e.mem = s.mem
<1> DEFINE t == mmu_switch(s, n)
<1>1. /\ t \in Machine /\ Fixed(s, t)
      /\ t.mode = s.mode /\ t.mie = s.mie /\ t.mpp = s.mpp /\ t.tp = s.tp
      /\ t.satp = n /\ t.curr = n /\ t.proc = s.proc /\ t.mem = s.mem
  BY DEF mmu_switch, Machine, Fixed
<1> HIDE DEF t
<1>2. YieldTo(s, n) = timer_reset(t)
  BY DEF YieldTo, t
<1> QED BY <1>1, <1>2, TimerReset DEF Fixed

LEMMA EnterFields ==
    ASSUME NEW s \in Machine, s.mpp = PMode, translation \in {"PAGE_TABLE", "SOFT_TLB"}
    PROVE  LET e == EnterApp(s)
           IN  /\ e \in Machine /\ Fixed(s, e) /\ e.cmp = s.cmp
               /\ e.mode = PMode /\ ~e.mprv /\ e.pc = ENTRY /\ e.regs = ARGS
               /\ e.sp = s.curr /\ e.satp = s.satp /\ e.curr = s.curr /\ e.mem = s.mem
               /\ e.proc[s.curr].sp = s.proc[s.curr].sp
               /\ e.proc[s.curr].status = "started"
               /\ \A p \in Procs \ {s.curr} : e.proc[p] = s.proc[p]
<1> DEFINE P == [s.proc EXCEPT ![s.curr].status = "started"]
           t == [s EXCEPT !.mepc = ENTRY, !.regs = ARGS, !.sp = s.curr, !.mpp = Mpp(s),
                          !.mprv = FALSE, !.proc[s.curr].status = "started"]
<1>1. s.proc \in [Procs -> Process] /\ s.curr \in Procs
  BY DEF Machine
<1>2. /\ P \in [Procs -> Process] /\ P[s.curr].sp = s.proc[s.curr].sp
      /\ P[s.curr].status = "started"
      /\ \A p \in Procs \ {s.curr} : P[p] = s.proc[p]
  BY <1>1 DEF Process
<1>3. Mpp(s) = PMode /\ PMode \in Modes
  BY DEF Mpp, Or, PMode, U_MODE, S_MODE, M_MODE, Modes
<1>4. t = [s EXCEPT !.mepc = ENTRY, !.regs = ARGS, !.sp = s.curr, !.mpp = PMode,
                    !.mprv = FALSE, !.proc = P]
  BY <1>3 DEF Machine
<1>5. ENTRY \in Addr /\ ARGS \in 0..K
  BY Constants DEF ENTRY, ARGS, Addr
<1> HIDE DEF P, t
<1>6. /\ t \in Machine /\ Fixed(s, t) /\ t.cmp = s.cmp /\ t.mpp = PMode /\ t.mprv = FALSE
      /\ t.mepc = ENTRY /\ t.regs = ARGS /\ t.sp = s.curr /\ t.satp = s.satp
      /\ t.curr = s.curr /\ t.mem = s.mem /\ t.proc = P
  BY <1>1, <1>2, <1>3, <1>4, <1>5 DEF Machine, Fixed
<1>7. EnterApp(s) = mret(t)
  BY DEF EnterApp, t
<1> QED BY <1>2, <1>6, <1>7, MretFields DEF Fixed

-----------------------------------------------------------------------------
(* The timer interrupts a process only, never the boot or a handler.       *)
LEMMA InterruptsRun ==
    ASSUME HartInv, Interrupts(m)
    PROVE  stage = "run"
<1>1. CASE stage \in BootStage /\ BootInv
  <2>1. m.mtie /\ time >= Compare(m)
    BY DEF Interrupts, Pending
  <2>2. Compare(m) = Top - 1
    BY <1>1, <2>1 DEF BootInv
  <2> HIDE DEF Top
  <2> QED BY <2>1, <2>2, Constants DEF HartInv
<1>2. CASE stage \in HandlerStage /\ HandlerInv
  BY <1>2 DEF Interrupts, HandlerInv
<1> QED BY <1>1, <1>2 DEF HartInv

(* e is the machine after a trap has saved the process that ran, which is  *)
(* to go on at a                                                           *)
Trapped(e, a, next) ==
    /\ e \in Machine /\ Fixed(m, e) /\ e.mode = M_MODE /\ ~e.mie /\ e.mpp = PMode
    /\ translation = "PAGE_TABLE" => e.mprv /\ e.tp = S_MODE
    /\ e.sp = m.sp /\ e.satp = m.satp /\ e.curr = m.curr /\ e.mem[m.satp][m.sp] = m.regs
    /\ \A p \in Procs \ {m.satp} : e.mem[p] = m.mem[p]
    /\ \A p \in Procs \ {m.curr} : e.proc[p] = m.proc[p]
    /\ e.proc[m.curr].sp = m.sp
    /\ e.proc[m.curr].status \in {"started", "unused"}
    /\ next # "yield" => e.proc[m.curr].status = "started"
    /\ IF next = "exit" THEN e.mepc = a ELSE e.proc[m.curr].mepc = a

LEMMA TrapKeeps ==
    ASSUME HartInv, stage = "run", NEW a, Trapped(m', a, stage'), Leave(a),
           stage' \in HandlerStage, UNCHANGED <<translation, time>>
    PROVE  HartInv'
<1> DEFINE e == m'
<1> USE DEF Trapped, Leave
<1> DEFINE c == m.curr
<1>1. /\ m.sp = c /\ m.satp = c /\ c \in Procs /\ m.mode = PMode /\ m.handlers /\ m.fatal = "none"
      /\ left = [p \in Procs |-> left[p]] /\ PMode' = PMode
  BY DEF HartInv, ProcsInv, RunInv, BootStage, HandlerStage, Machine, PMode
<1>2. /\ left' = [p \in Procs |-> left'[p]] /\ \A p \in Procs \ {c} : left'[p] = left[p]
      /\ left'[c].pc = a /\ left'[c].regs = m.regs /\ left'[c].mode = PMode
  BY <1>1
<1>3. ProcsInv'
  <2>1. ASSUME NEW p \in Procs
        PROVE  /\ left'[p].mode = PMode
               /\ e.proc[p].status = "ready" => left'[p].pc = ENTRY /\ left'[p].regs = ARGS
               /\ e.proc[p].status = "started" /\ p # e.curr =>
                     e.proc[p].mepc = left'[p].pc /\ e.mem[p][p] = left'[p].regs
    <3>1. CASE p = c
      BY <1>2, <3>1
    <3>2. CASE p # c
      BY <1>1, <1>2, <3>2 DEF HartInv, ProcsInv, Saved, BootStage, HandlerStage
    <3> QED BY <3>1, <3>2
  <2> QED BY <1>1, <1>2, <2>1 DEF ProcsInv, Saved, Fixed
<1>4. HandlerInv'
  BY <1>1, <1>2 DEF HandlerInv, Saved
<1>5. \A p \in Procs : e.proc[p].sp = p
  BY <1>1 DEF HartInv
<1> QED BY <1>1, <1>3, <1>4, <1>5 DEF HartInv, Fixed

LEMMA ExcpStep ==
    ASSUME HartInv, excp_entry
    PROVE  HartInv' /\ m'.curr = m.curr /\ stage' # "run"
<1> DEFINE e == trap_entry(Trap(m))
           f == Skip(e)
           g == ctx_entry(f)
<1>1. /\ stage = "run" /\ m \in Machine /\ translation \in {"PAGE_TABLE", "SOFT_TLB"}
      /\ m.mode = PMode /\ m.handlers /\ m.pc \in Addr /\ m.proc[m.curr].status = "started"
  BY DEF excp_entry, Running, At, HartInv, RunInv, ProcsInv, BootStage, HandlerStage, Machine
<1>2. m' = g /\ stage' = "kernel" /\ Leave((m.pc + 1) % K) /\ UNCHANGED <<translation, time>>
  BY <1>1 DEF excp_entry, handle_trap, Enter
<1>3. /\ e \in Machine /\ Fixed(m, e) /\ e.mode = M_MODE /\ ~e.mie /\ e.mpp = PMode
      /\ translation = "PAGE_TABLE" => e.mprv /\ e.tp = S_MODE
      /\ e.mepc = m.pc /\ e.sp = m.sp /\ e.satp = m.satp
      /\ e.curr = m.curr /\ e.proc = m.proc /\ e.mem[m.satp][m.sp] = m.regs
      /\ \A p \in Procs \ {m.satp} : e.mem[p] = m.mem[p]
  BY <1>1, EntrySaves
<1> HIDE DEF e
<1>4. /\ f \in Machine /\ Fixed(e, f) /\ f.mode = e.mode /\ f.mie = e.mie /\ f.mpp = e.mpp
      /\ f.mprv = e.mprv /\ f.tp = e.tp /\ f.mepc = (m.pc + 1) % K /\ f.sp = e.sp
      /\ f.satp = e.satp /\ f.curr = e.curr /\ f.proc = e.proc /\ f.mem = e.mem
  <2>1. (m.pc + 1) % K \in Addr
    BY <1>1, Wraps
  <2>2. f = [e EXCEPT !.mepc = (m.pc + 1) % K]
    BY <1>3 DEF Skip
  <2> HIDE DEF f
  <2> QED BY <1>3, <2>1, <2>2 DEF Machine, Fixed
<1> HIDE DEF f
<1>5. /\ g \in Machine /\ Fixed(f, g)
      /\ g.mode = f.mode /\ g.mie = f.mie /\ g.mpp = f.mpp /\ g.mprv = f.mprv
      /\ g.tp = f.tp /\ g.mepc = f.mepc /\ g.sp = f.sp /\ g.satp = f.satp
      /\ g.curr = f.curr /\ g.mem = f.mem
      /\ g.proc[f.curr].sp = f.sp /\ g.proc[f.curr].mepc = f.mepc
      /\ g.proc[f.curr].status = f.proc[f.curr].status
      /\ \A p \in Procs \ {f.curr} : g.proc[p] = f.proc[p]
  BY <1>4, EntryFields
<1> HIDE DEF g
<1>6. Trapped(g, (m.pc + 1) % K, "kernel")
  BY <1>1, <1>3, <1>4, <1>5 DEF Trapped, Fixed
<1> QED BY <1>1, <1>2, <1>5, <1>6, TrapKeeps DEF HandlerStage, Trapped

LEMMA IntrStep ==
    ASSUME HartInv, intr_entry
    PROVE  HartInv' /\ m'.curr = m.curr /\ stage' # "run"
<1> DEFINE e == trap_entry(Trap(m))
           r == timer_reset(e)
           g == ctx_entry(e)
           k == Killed(g)
<1>0. stage = "run"
  BY InterruptsRun DEF intr_entry
<1>1. /\ m \in Machine /\ translation \in {"PAGE_TABLE", "SOFT_TLB"} /\ time \in 0..MaxTime
      /\ m.mode = PMode /\ m.handlers /\ m.proc[m.curr].status = "started" /\ m.curr \in Procs
      /\ m.proc[m.curr].sp = m.sp
  BY <1>0 DEF HartInv, RunInv, ProcsInv, BootStage, HandlerStage, Machine
<1>2. /\ \/ m' = r /\ stage' = "exit"
         \/ m' \in {g, k} /\ stage' = "yield"
      /\ Leave(m.pc) /\ UNCHANGED <<translation, time>>
  BY <1>1 DEF intr_entry, handle_trap, Enter
<1>3. /\ e \in Machine /\ Fixed(m, e) /\ e.mode = M_MODE /\ ~e.mie /\ e.mpp = PMode
      /\ translation = "PAGE_TABLE" => e.mprv /\ e.tp = S_MODE
      /\ e.mepc = m.pc /\ e.sp = m.sp /\ e.satp = m.satp
      /\ e.curr = m.curr /\ e.proc = m.proc /\ e.mem[m.satp][m.sp] = m.regs
      /\ \A p \in Procs \ {m.satp} : e.mem[p] = m.mem[p]
  BY <1>1, EntrySaves
<1> HIDE DEF e
<1>4. CASE m' = r /\ stage' = "exit"
  <2>1. /\ r \in Machine /\ Fixed(e, r)
        /\ r.mode = e.mode /\ r.mie = e.mie /\ r.mpp = e.mpp /\ r.mprv /\ r.tp = e.tp
        /\ r.mepc = e.mepc /\ r.sp = e.sp /\ r.satp = e.satp /\ r.curr = e.curr
        /\ r.proc = e.proc /\ r.mem = e.mem
    BY <1>1, <1>3, TimerReset
  <2> HIDE DEF r
  <2>2. Trapped(r, m.pc, "exit")
    BY <1>1, <1>3, <2>1 DEF Trapped, Fixed
  <2> QED BY <1>0, <1>2, <1>4, <2>2, TrapKeeps DEF HandlerStage, Trapped
<1>5. CASE m' \in {g, k} /\ stage' = "yield"
  <2>1. /\ g \in Machine /\ Fixed(e, g)
        /\ g.mode = e.mode /\ g.mie = e.mie /\ g.mpp = e.mpp /\ g.mprv = e.mprv
        /\ g.tp = e.tp /\ g.mepc = e.mepc /\ g.sp = e.sp /\ g.satp = e.satp
        /\ g.curr = e.curr /\ g.mem = e.mem
        /\ g.proc[e.curr].sp = e.sp /\ g.proc[e.curr].mepc = e.mepc
        /\ g.proc[e.curr].status = e.proc[e.curr].status
        /\ \A p \in Procs \ {e.curr} : g.proc[p] = e.proc[p]
    BY <1>3, EntryFields
  <2> HIDE DEF g
  <2>2. Trapped(g, m.pc, "yield")
    BY <1>1, <1>3, <2>1 DEF Trapped, Fixed
  <2>3. Trapped(k, m.pc, "yield")
    <3> DEFINE P == [g.proc EXCEPT ![g.curr].status = "unused"]
    <3>1. /\ g.proc \in [Procs -> Process] /\ g.curr = m.curr
      BY <1>3, <2>1 DEF Machine
    <3>2. /\ P \in [Procs -> Process] /\ P[m.curr].sp = g.proc[m.curr].sp
          /\ P[m.curr].mepc = g.proc[m.curr].mepc /\ P[m.curr].status = "unused"
          /\ \A p \in Procs \ {m.curr} : P[p] = g.proc[p]
      BY <1>1, <3>1 DEF Process
    <3>3. k = [g EXCEPT !.proc = P]
      BY <2>1 DEF Killed, Machine
    <3> HIDE DEF P, k
    <3>4. /\ k \in Machine /\ Fixed(g, k)
          /\ k.mode = g.mode /\ k.mie = g.mie /\ k.mpp = g.mpp /\ k.mprv = g.mprv
          /\ k.tp = g.tp /\ k.sp = g.sp /\ k.satp = g.satp
          /\ k.curr = g.curr /\ k.mem = g.mem /\ k.proc = P
      BY <2>1, <3>2, <3>3 DEF Machine, Fixed
    <3> QED BY <2>2, <3>2, <3>4 DEF Trapped, Fixed
  <2> HIDE DEF k
  <2>4. Trapped(m', m.pc, "yield")
    BY <1>5, <2>2, <2>3
  <2> QED BY <1>0, <1>2, <1>5, <2>4, TrapKeeps DEF HandlerStage, Trapped
<1> QED BY <1>2, <1>4, <1>5

(* the process that the hart is given to next has its context ready        *)
LEMMA SwitchStep ==
    ASSUME HartInv, stage \in HandlerStage, NEW s \in Machine, Fixed(m, s), s.mode = M_MODE, ~s.mie,
           s.mpp = PMode, translation = "PAGE_TABLE" => s.mprv /\ s.tp = S_MODE,
           s.satp = s.curr, s.mem = m.mem, s.proc = m.proc, m.proc[s.curr].status = "started",
           m.proc[s.curr].mepc = left[s.curr].pc, m.mem[s.curr][s.curr] = left[s.curr].regs,
           s.curr = m.curr \/ stage # "exit",
           m' = ctx_switch(s), stage' = "exit", UNCHANGED <<translation, time, left>>
    PROVE  HartInv' /\ m'.curr = s.curr /\ Compare(m') = Compare(s)
<1> DEFINE e == ctx_switch(s)
<1>1. /\ e \in Machine /\ Fixed(s, e)
      /\ e.mode = s.mode /\ e.mie = s.mie /\ e.mpp = s.mpp /\ e.mprv = s.mprv
      /\ e.tp = s.tp /\ e.cmp = s.cmp /\ e.satp = s.satp /\ e.curr = s.curr
      /\ e.mem = s.mem /\ e.proc = s.proc
      /\ e.mepc = s.proc[s.curr].mepc /\ e.sp = s.proc[s.curr].sp
  BY SwitchFields
<1> HIDE DEF e
<1>2. /\ ProcsInv /\ HandlerInv /\ PMode' = PMode /\ s.curr \in Procs /\ m.curr \in Procs
      /\ m.fatal = "none"
  BY DEF HartInv, BootStage, HandlerStage, PMode, Machine
<1>3. m' = e
  BY DEF e
<1>4. ProcsInv'
  <2>1. ASSUME NEW p \in Procs
        PROVE  /\ left[p].mode = PMode
               /\ m.proc[p].status = "ready" => left[p].pc = ENTRY /\ left[p].regs = ARGS
               /\ m.proc[p].status = "started" /\ p # s.curr => Saved(p)
    BY <1>2 DEF ProcsInv, HandlerInv
  <2>2. /\ m'.handlers /\ m'.satp = m'.curr /\ m'.curr = s.curr /\ m'.proc = m.proc
        /\ m'.mem = m.mem
    BY <1>1, <1>2, <1>3 DEF ProcsInv, Fixed
  <2>3. left = [p \in Procs |-> left[p]]
    BY <1>2 DEF ProcsInv
  <2> QED BY <1>2, <2>1, <2>2, <2>3 DEF ProcsInv, Saved
<1>5. HandlerInv'
  BY <1>1, <1>2, <1>3 DEF HandlerInv
<1>6. m'.sp = m'.curr /\ \A p \in Procs : m'.proc[p].sp = p
  BY <1>1, <1>2, <1>3 DEF HartInv
<1> QED BY <1>1, <1>2, <1>3, <1>4, <1>5, <1>6 DEF HartInv, Fixed, HandlerStage, Compare

LEMMA SyscallStep ==
    ASSUME HartInv, proc_syscall
    PROVE  HartInv' /\ m'.curr = m.curr /\ stage' # "run"
<1>1. /\ stage = "kernel" /\ m' = ctx_switch(m) /\ stage' = "exit"
      /\ UNCHANGED <<translation, time, left>>
  BY DEF proc_syscall, Enter
<1>2. m \in Machine /\ ProcsInv /\ HandlerInv
  BY <1>1 DEF HartInv, BootStage
<1>3. m.proc[m.curr].status = "started" /\ Saved(m.curr)
  BY <1>1, <1>2 DEF HandlerInv
<1> QED BY <1>1, <1>2, <1>3, SwitchStep DEF HandlerInv, ProcsInv, HandlerStage, Saved, Fixed

LEMMA YieldStep ==
    ASSUME HartInv, NEW n \in Procs, proc_yield(n)
    PROVE  /\ HartInv' /\ m'.curr = n /\ Compare(m') = time + QUANTUM
           /\ stage' = "run" => m'.pc = left[n].pc /\ m'.regs = left[n].regs /\ stage # "exit"
<1> DEFINE y == YieldTo(m, n)
<1>1. /\ stage \in {"kernel", "yield"} /\ m.proc[n].status # "unused"
      /\ UNCHANGED <<translation, time, left>>
  BY DEF proc_yield
<1>2. /\ m \in Machine /\ ProcsInv /\ HandlerInv /\ time \in 0..MaxTime /\ m.fatal = "none"
      /\ translation \in {"PAGE_TABLE", "SOFT_TLB"} /\ PMode' = PMode
      /\ \A p \in Procs : m.proc[p].sp = p
  BY <1>1 DEF HartInv, BootStage, PMode
<1>3. /\ y \in Machine /\ Fixed(m, y) /\ Compare(y) = time + QUANTUM
      /\ y.mode = m.mode /\ y.mie = m.mie /\ y.mpp = m.mpp /\ y.mprv /\ y.tp = m.tp
      /\ y.satp = n /\ y.curr = n /\ y.proc = m.proc /\ y.mem = m.mem
  BY <1>2, YieldFields DEF HandlerInv
<1>4. CASE m.proc[n].status = "ready"
  <2> DEFINE e == EnterApp(y)
  <2>1. m' = e /\ stage' = "run"
    BY <1>4 DEF proc_yield, Enter
  <2> HIDE DEF y
  <2>2. /\ e \in Machine /\ Fixed(y, e) /\ e.cmp = y.cmp
        /\ e.mode = PMode /\ ~e.mprv /\ e.pc = ENTRY /\ e.regs = ARGS
        /\ e.sp = y.curr /\ e.satp = y.satp /\ e.curr = y.curr /\ e.mem = y.mem
        /\ e.proc[y.curr].sp = y.proc[y.curr].sp
        /\ e.proc[y.curr].status = "started"
        /\ \A p \in Procs \ {y.curr} : e.proc[p] = y.proc[p]
    BY <1>2, <1>3, EnterFields DEF HandlerInv
  <2> HIDE DEF e
  <2>3. Compare(m') = time + QUANTUM
    BY <1>3, <2>1, <2>2 DEF Compare
  <2>4. /\ m'.handlers /\ m'.satp = n /\ m'.curr = n /\ m'.mem = m.mem /\ m'.sp = n
        /\ m'.proc[n].sp = n /\ m'.proc[n].status = "started" /\ m'.fatal = "none"
        /\ \A p \in Procs \ {n} : m'.proc[p] = m.proc[p]
    BY <1>2, <1>3, <2>1, <2>2 DEF ProcsInv, Fixed
  <2>5. ASSUME NEW p \in Procs
        PROVE  /\ left[p].mode = PMode
               /\ m.proc[p].status = "ready" => left[p].pc = ENTRY /\ left[p].regs = ARGS
               /\ m.proc[p].status = "started" => Saved(p)
    BY <1>1, <1>2 DEF ProcsInv, HandlerInv
  <2>6. left = [p \in Procs |-> left[p]]
    BY <1>2 DEF ProcsInv
  <2>7. ProcsInv'
    BY <1>1, <1>2, <2>4, <2>5, <2>6 DEF ProcsInv, Saved
  <2>8. RunInv'
    BY <1>2, <2>1, <2>2, <2>4 DEF RunInv
  <2>9. HartInv'
    BY <1>1, <1>2, <2>1, <2>2, <2>4, <2>7, <2>8 DEF HartInv
  <2> QED BY <1>1, <1>4, <2>1, <2>2, <2>3, <2>4, <2>5, <2>9
<1>5. CASE m.proc[n].status = "started"
  <2>1. m' = ctx_switch(y) /\ stage' = "exit"
    BY <1>5 DEF proc_yield, Enter
  <2> HIDE DEF y
  <2>2. Saved(n)
    BY <1>1, <1>2, <1>5 DEF ProcsInv, HandlerInv
  <2>3. HartInv' /\ m'.curr = y.curr /\ Compare(m') = Compare(y)
    BY <1>1, <1>2, <1>3, <1>5, <2>1, <2>2, SwitchStep DEF HandlerInv, HandlerStage, Saved
  <2> QED BY <1>3, <2>1, <2>3
<1>6. m.proc[n].status \in {"unused", "ready", "started"}
  BY <1>2 DEF Machine, Process
<1> QED BY <1>1, <1>4, <1>5, <1>6

LEMMA ExitStep ==
    ASSUME HartInv, Exit
    PROVE  /\ HartInv' /\ m'.curr = m.curr /\ stage = "exit"
           /\ m'.pc = left[m.curr].pc /\ m'.regs = left[m.curr].regs
           /\ m'.mode = left[m.curr].mode
<1> DEFINE e == trap_exit(m)
<1>1. /\ stage = "exit" /\ stage' = "run" /\ m' = e /\ UNCHANGED <<translation, time, left>>
  BY DEF Exit, Enter
<1>2. /\ m \in Machine /\ ProcsInv /\ HandlerInv /\ m.fatal = "none"
      /\ translation \in {"PAGE_TABLE", "SOFT_TLB"} /\ PMode' = PMode
      /\ m.sp = m.curr /\ m.curr \in Procs
  BY <1>1 DEF HartInv, BootStage, PMode, Machine
<1>3. /\ e \in Machine /\ Fixed(m, e)
      /\ e.mode = PMode /\ (translation = "PAGE_TABLE" => ~e.mprv)
      /\ e.pc = m.mepc /\ e.regs = m.mem[m.satp][m.sp] /\ e.cmp = m.cmp /\ e.sp = m.sp
      /\ e.satp = m.satp /\ e.curr = m.curr /\ e.proc = m.proc
      /\ \A p \in Procs \ {m.satp} : e.mem[p] = m.mem[p]
  BY <1>2, ExitRestores DEF HandlerInv
<1> HIDE DEF e
<1>4. ProcsInv'
  <2>1. left = [p \in Procs |-> left[p]]
    BY <1>2 DEF ProcsInv
  <2>2. /\ m'.handlers /\ m'.satp = m'.curr /\ m'.curr = m.curr /\ m'.proc = m.proc
        /\ \A p \in Procs \ {m.curr} : m'.mem[p] = m.mem[p]
    BY <1>1, <1>2, <1>3 DEF ProcsInv, Fixed
  <2> QED BY <1>1, <1>2, <2>1, <2>2 DEF ProcsInv, Saved
<1>5. RunInv'
  BY <1>1, <1>2, <1>3 DEF RunInv, HandlerInv
<1>6. HartInv'
  BY <1>1, <1>2, <1>3, <1>4, <1>5 DEF HartInv, Fixed
<1> QED BY <1>1, <1>2, <1>3, <1>6 DEF ProcsInv, HandlerInv

-----------------------------------------------------------------------------
(* the boot, the processes themselves, and time                            *)

LEMMA InitStep ==
    ASSUME Init
    PROVE  HartInv
<1>1. PICK c \in {0, Top - 1} :
          m = [mode |-> M_MODE, mpp |-> M_MODE, mprv |-> FALSE, mie |-> FALSE, mpie |-> FALSE,
               mtie |-> FALSE, mepc |-> ENTRY, tp |-> U_MODE, pc |-> ENTRY, regs |-> ARGS, sp |-> 1,
               satp |-> 0, cmp |-> [h |-> c \div HALF, l |-> c % HALF],
               mem |-> [a \in Procs \union {0} |-> [b \in Procs |-> JUNK]],
               curr |-> 1, handlers |-> FALSE, fatal |-> "none",
               proc |-> [p \in Procs |-> [status |-> "unused", mepc |-> ENTRY, sp |-> p]]]
  BY DEF Init
<1> DEFINE h == [h |-> c \div HALF, l |-> c % HALF]
           M == [a \in Procs \union {0} |-> [b \in Procs |-> JUNK]]
           P == [p \in Procs |-> [status |-> "unused", mepc |-> ENTRY, sp |-> p]]
<1>2. K \in Nat /\ K > 0 /\ 1 \in Procs /\ MaxTime \in Nat /\ c \in Nat
  BY Constants
<1>3. h \in Halves
  BY <1>2, DivMod DEF Halves
<1>4. M \in [Procs \union {0} -> [Procs -> 0..K]]
  BY <1>2 DEF JUNK
<1>5. P \in [Procs -> Process] /\ \A p \in Procs : P[p].sp = p /\ P[p].status = "unused"
  BY <1>2 DEF Process, Addr, ENTRY
<1>6. m = [mode |-> M_MODE, mpp |-> M_MODE, mprv |-> FALSE, mie |-> FALSE, mpie |-> FALSE,
           mtie |-> FALSE, mepc |-> ENTRY, tp |-> U_MODE, pc |-> ENTRY, regs |-> ARGS, sp |-> 1,
           satp |-> 0, cmp |-> h, mem |-> M, curr |-> 1, handlers |-> FALSE, fatal |-> "none",
           proc |-> P]
  BY <1>1
<1> HIDE DEF h, M, P
<1>7. m \in Machine
  BY <1>2, <1>3, <1>4, <1>5, <1>6
  DEF Machine, Modes, M_MODE, U_MODE, Addr, ENTRY, ARGS
<1>8. /\ m.fatal = "none" /\ m.sp = 1 /\ m.curr = 1 /\ m.proc = P /\ ~m.mprv /\ ~m.mtie
      /\ m.mode = M_MODE /\ m.mpp = M_MODE
  BY <1>6
<1>9. BootInv
  BY <1>5, <1>8 DEF BootInv, Init
<1> QED BY <1>2, <1>5, <1>7, <1>8, <1>9 DEF HartInv, Init, BootStage

(* in the boot only these fields change                                    *)
LEMMA BootFacts ==
    ASSUME HartInv, stage \in BootStage
    PROVE  /\ m \in Machine /\ BootInv /\ time \in 0..MaxTime /\ m.fatal = "none" /\ m.sp = m.curr
           /\ translation \in {"PAGE_TABLE", "SOFT_TLB"} /\ \A p \in Procs : m.proc[p].sp = p
BY DEF HartInv, BootStage, HandlerStage

LEMMA TimerInitStep ==
    ASSUME HartInv, timer_init
    PROVE  HartInv' /\ m'.curr = m.curr
<1>1. /\ stage = "earth_enter" /\ stage' = "timer_init" /\ m' = mtimecmp_set(m, Top - 1)
      /\ UNCHANGED <<translation, time, left>>
  BY DEF timer_init, At
<1>2. /\ m \in Machine /\ BootInv /\ time \in 0..MaxTime /\ m.fatal = "none" /\ m.sp = m.curr
      /\ translation \in {"PAGE_TABLE", "SOFT_TLB"} /\ \A p \in Procs : m.proc[p].sp = p
  BY <1>1, BootFacts DEF BootStage
<1> DEFINE h == [h |-> (Top - 1) \div HALF, l |-> (Top - 1) % HALF]
<1>3. m' = [m EXCEPT !.cmp = h]
  BY <1>1, <1>2 DEF mtimecmp_set, Effective, BootInv
<1>4. Top - 1 \in Nat
  BY Constants
<1>5. h \in Halves /\ h.h * HALF + h.l = Top - 1
  BY <1>4, DivMod DEF Halves
<1> HIDE DEF h
<1>6. /\ m' \in Machine /\ m'.cmp = h /\ m'.fatal = m.fatal /\ m'.sp = m.sp /\ m'.proc = m.proc
      /\ m'.curr = m.curr /\ m'.mprv = m.mprv /\ m'.mtie = m.mtie /\ m'.mode = m.mode
      /\ m'.mpp = m.mpp
  BY <1>2, <1>3, <1>5 DEF Machine
<1>7. BootInv'
  BY <1>1, <1>2, <1>5, <1>6 DEF BootInv, Compare
<1> QED BY <1>1, <1>2, <1>6, <1>7 DEF HartInv, BootStage

LEMMA IntrInitStep ==
    ASSUME HartInv, intr_init
    PROVE  HartInv' /\ m'.curr = m.curr
<1>1. /\ stage = "timer_init" /\ stage' = "intr_init"
      /\ m' = [m EXCEPT !.mtie = TRUE, !.mie = TRUE, !.mpie = TRUE]
      /\ UNCHANGED <<translation, time, left>>
  BY DEF intr_init, At
<1>2. /\ m \in Machine /\ BootInv /\ time \in 0..MaxTime /\ m.fatal = "none" /\ m.sp = m.curr
      /\ translation \in {"PAGE_TABLE", "SOFT_TLB"} /\ \A p \in Procs : m.proc[p].sp = p
  BY <1>1, BootFacts DEF BootStage
<1>3. /\ m' \in Machine /\ m'.cmp = m.cmp /\ m'.fatal = m.fatal /\ m'.sp = m.sp
      /\ m'.proc = m.proc /\ m'.curr = m.curr /\ m'.mprv = m.mprv /\ m'.mode = m.mode
      /\ m'.mpp = m.mpp
  BY <1>1, <1>2 DEF Machine
<1>4. BootInv'
  BY <1>1, <1>2, <1>3 DEF BootInv, Compare
<1> QED BY <1>1, <1>2, <1>3, <1>4 DEF HartInv, BootStage

LEMMA EarthMainStep ==
    ASSUME HartInv, earth_main
    PROVE  HartInv' /\ m'.curr = m.curr
<1> DEFINE v == IF translation = "PAGE_TABLE" THEN S_MODE ELSE m.mpp
           s == [m EXCEPT !.mpp = v]
<1>1. /\ stage = "intr_init" /\ stage' = "grass" /\ m' = mret(s)
      /\ UNCHANGED <<translation, time, left>>
  BY DEF earth_main, At
<1>2. /\ m \in Machine /\ BootInv /\ time \in 0..MaxTime /\ m.fatal = "none" /\ m.sp = m.curr
      /\ translation \in {"PAGE_TABLE", "SOFT_TLB"} /\ \A p \in Procs : m.proc[p].sp = p
  BY <1>1, BootFacts DEF BootStage
<1>3. v = PMode /\ v \in Modes
  BY <1>1, <1>2 DEF BootInv, PMode, Modes
<1> HIDE DEF v
<1>4. /\ s \in Machine /\ Fixed(m, s) /\ s.mpp = v /\ s.mprv = m.mprv /\ s.cmp = m.cmp
      /\ s.sp = m.sp /\ s.curr = m.curr /\ s.proc = m.proc
  BY <1>2, <1>3 DEF Machine, Fixed
<1> HIDE DEF s
<1>5. /\ m' \in Machine /\ Fixed(s, m') /\ m'.mode = s.mpp /\ m'.mprv = s.mprv
      /\ m'.cmp = s.cmp /\ m'.sp = s.sp /\ m'.curr = s.curr /\ m'.proc = s.proc
  BY <1>1, <1>4, MretFields
<1>6. BootInv'
  BY <1>1, <1>2, <1>3, <1>4, <1>5 DEF BootInv, Compare, PMode
<1> QED BY <1>1, <1>2, <1>4, <1>5, <1>6 DEF HartInv, BootStage, Fixed


LEMMA RegisterStep ==
    ASSUME HartInv, register
    PROVE  HartInv' /\ m'.curr = m.curr
<1>1. /\ stage = "grass" /\ stage' = "registered" /\ m' = [m EXCEPT !.handlers = TRUE]
      /\ UNCHANGED <<translation, time, left>>
  BY DEF register, At
<1>2. /\ m \in Machine /\ BootInv /\ time \in 0..MaxTime /\ m.fatal = "none" /\ m.sp = m.curr
      /\ translation \in {"PAGE_TABLE", "SOFT_TLB"} /\ \A p \in Procs : m.proc[p].sp = p
  BY <1>1, BootFacts DEF BootStage
<1>3. /\ m' \in Machine /\ m'.cmp = m.cmp /\ m'.fatal = m.fatal /\ m'.sp = m.sp
      /\ m'.proc = m.proc /\ m'.curr = m.curr /\ m'.mprv = m.mprv /\ m'.mode = m.mode
      /\ m'.handlers
  BY <1>1, <1>2 DEF Machine
<1>4. BootInv'
  BY <1>1, <1>2, <1>3 DEF BootInv, Compare, PMode
<1> QED BY <1>1, <1>2, <1>3, <1>4 DEF HartInv, BootStage

LEMMA GrassMainStep ==
    ASSUME HartInv, grass_main
    PROVE  HartInv' /\ m'.curr = m.curr
<1>1. /\ stage = "registered" /\ stage' = "run"
      /\ m' = [m EXCEPT !.satp = 1, !.proc[1].status = "started"]
      /\ left' = [p \in Procs |-> [pc |-> ENTRY, regs |-> ARGS, mode |-> m.mode]]
      /\ UNCHANGED <<translation, time>>
  BY DEF grass_main, At
<1>2. /\ m \in Machine /\ BootInv /\ time \in 0..MaxTime /\ m.fatal = "none" /\ m.sp = m.curr
      /\ translation \in {"PAGE_TABLE", "SOFT_TLB"} /\ \A p \in Procs : m.proc[p].sp = p
      /\ m.curr = 1 /\ m.handlers /\ m.mode = PMode /\ ~m.mprv /\ 1 \in Procs /\ PMode' = PMode
  BY <1>1, BootFacts, Constants DEF BootStage, BootInv, PMode
<1> DEFINE P == [m.proc EXCEPT ![1].status = "started"]
<1>3. m.proc \in [Procs -> Process] /\ m' = [m EXCEPT !.satp = 1, !.proc = P]
  BY <1>1, <1>2 DEF Machine
<1>4. /\ P \in [Procs -> Process] /\ P[1].status = "started"
      /\ \A p \in Procs : P[p].sp = p /\ (p # 1 => P[p].status = "unused")
  BY <1>2, <1>3 DEF Process, BootInv
<1> HIDE DEF P
<1>5. /\ m' \in Machine /\ m'.fatal = m.fatal /\ m'.sp = m.sp /\ m'.proc = P /\ m'.satp = 1
      /\ m'.curr = m.curr /\ m'.mprv = m.mprv /\ m'.mode = m.mode /\ m'.handlers = m.handlers
  BY <1>2, <1>3, <1>4 DEF Machine
<1>6. ProcsInv'
  BY <1>1, <1>2, <1>4, <1>5 DEF ProcsInv
<1>7. RunInv'
  BY <1>2, <1>4, <1>5 DEF RunInv
<1> QED BY <1>1, <1>2, <1>4, <1>5, <1>6, <1>7 DEF HartInv

LEMMA RunFacts ==
    ASSUME HartInv, stage = "run"
    PROVE  /\ m \in Machine /\ ProcsInv /\ RunInv /\ time \in 0..MaxTime /\ m.fatal = "none"
           /\ m.sp = m.curr /\ translation \in {"PAGE_TABLE", "SOFT_TLB"}
           /\ \A p \in Procs : m.proc[p].sp = p
BY DEF HartInv, BootStage, HandlerStage

LEMMA RunStep ==
    ASSUME HartInv, Run
    PROVE  HartInv' /\ m'.curr = m.curr
<1>1. /\ stage = "run" /\ m' = [m EXCEPT !.regs = m.pc, !.pc = (m.pc + 1) % K]
      /\ UNCHANGED <<translation, stage, time, left>>
  BY DEF Run, Running, At
<1>2. /\ m \in Machine /\ ProcsInv /\ RunInv /\ time \in 0..MaxTime /\ m.fatal = "none"
      /\ m.sp = m.curr /\ translation \in {"PAGE_TABLE", "SOFT_TLB"}
      /\ \A p \in Procs : m.proc[p].sp = p
  BY <1>1, RunFacts
<1>3. m.pc \in Addr
  BY <1>2 DEF Machine
<1>4. (m.pc + 1) % K \in Addr /\ m.pc \in 0..K
  BY <1>3, Wraps, Constants DEF Addr
<1> DEFINE n == (m.pc + 1) % K
<1>5. m' = [m EXCEPT !.regs = m.pc, !.pc = n] /\ n \in Addr
  BY <1>1, <1>4
<1> HIDE DEF n
<1>6. /\ m' \in Machine /\ m'.fatal = m.fatal /\ m'.sp = m.sp /\ m'.proc = m.proc
      /\ m'.satp = m.satp /\ m'.curr = m.curr /\ m'.mprv = m.mprv /\ m'.mode = m.mode
      /\ m'.handlers = m.handlers /\ m'.mem = m.mem
  BY <1>2, <1>4, <1>5 DEF Machine
<1>7. ProcsInv'
  BY <1>1, <1>2, <1>6 DEF ProcsInv, PMode, Saved
<1>8. RunInv'
  BY <1>1, <1>2, <1>6 DEF RunInv, PMode
<1> QED BY <1>1, <1>2, <1>6, <1>7, <1>8 DEF HartInv

LEMMA StatusStep ==
    ASSUME HartInv, NEW q \in Procs, SetStatus(q)
    PROVE  HartInv' /\ m'.curr = m.curr /\ stage = "run"
<1> DEFINE st == IF m.proc[q].status = "unused" THEN "ready" ELSE "unused"
           P == [m.proc EXCEPT ![q] = [status |-> st, mepc |-> ENTRY, sp |-> q]]
           M == [m.mem EXCEPT ![q] = [b \in Procs |-> JUNK]]
<1>1. /\ stage = "run" /\ m.curr = 1 /\ q # 1
      /\ m' = [m EXCEPT !.proc = P, !.mem = M]
      /\ left' = [left EXCEPT ![q] = [pc |-> ENTRY, regs |-> ARGS, mode |-> m.mode]]
      /\ UNCHANGED <<translation, stage, time>>
  BY DEF SetStatus, Running, At
<1>2. /\ m \in Machine /\ ProcsInv /\ RunInv /\ time \in 0..MaxTime /\ m.fatal = "none"
      /\ m.sp = m.curr /\ translation \in {"PAGE_TABLE", "SOFT_TLB"} /\ m.mode = PMode
      /\ \A p \in Procs : m.proc[p].sp = p
      /\ left = [p \in Procs |-> left[p]] /\ PMode' = PMode
  BY <1>1, RunFacts DEF RunInv, ProcsInv, PMode
<1>3. m.proc \in [Procs -> Process] /\ m.mem \in [Procs \union {0} -> [Procs -> 0..K]]
  BY <1>2 DEF Machine
<1>4. ENTRY \in Addr /\ JUNK \in 0..K
  BY Constants DEF ENTRY, JUNK, Addr
<1>5. /\ P \in [Procs -> Process] /\ P[q].sp = q /\ P[q].status # "started"
      /\ \A p \in Procs \ {q} : P[p] = m.proc[p]
  BY <1>3, <1>4 DEF Process
<1>6. M \in [Procs \union {0} -> [Procs -> 0..K]] /\ \A p \in Procs \ {q} : M[p] = m.mem[p]
  BY <1>3, <1>4
<1>7. /\ left' = [p \in Procs |-> left'[p]] /\ left'[q].pc = ENTRY /\ left'[q].regs = ARGS
      /\ left'[q].mode = PMode /\ \A p \in Procs \ {q} : left'[p] = left[p]
  BY <1>1, <1>2
<1> HIDE DEF P, M
<1>8. /\ m' \in Machine /\ m'.fatal = m.fatal /\ m'.sp = m.sp /\ m'.proc = P
      /\ m'.satp = m.satp /\ m'.curr = m.curr /\ m'.mprv = m.mprv /\ m'.mode = m.mode
      /\ m'.handlers = m.handlers /\ m'.mem = M
  BY <1>1, <1>2, <1>5, <1>6 DEF Machine
<1>9. ProcsInv'
  <2>1. ASSUME NEW p \in Procs
        PROVE  /\ left'[p].mode = PMode
               /\ P[p].status = "ready" => left'[p].pc = ENTRY /\ left'[p].regs = ARGS
               /\ P[p].status = "started" /\ p # m.curr =>
                     P[p].mepc = left'[p].pc /\ M[p][p] = left'[p].regs
    BY <1>2, <1>5, <1>6, <1>7 DEF ProcsInv, Saved
  <2>2. m.handlers /\ m.satp = m.curr
    BY <1>2 DEF ProcsInv
  <2> QED BY <1>2, <1>7, <1>8, <2>1, <2>2 DEF ProcsInv, Saved
<1>10. RunInv'
  <2>1. P[m.curr] = m.proc[m.curr]
    BY <1>1, <1>5, Constants
  <2> QED BY <1>1, <1>2, <1>8, <2>1 DEF RunInv
<1>11. \A p \in Procs : m'.proc[p].sp = p
  BY <1>2, <1>5, <1>8
<1> QED BY <1>1, <1>2, <1>8, <1>9, <1>10, <1>11 DEF HartInv

LEMMA TickStep ==
    ASSUME HartInv, Tick \/ UNCHANGED hartVars
    PROVE  HartInv' /\ m' = m /\ stage' = stage
<1>1. time' \in 0..MaxTime /\ UNCHANGED <<translation, stage, m, left>>
  BY Constants DEF Tick, HartInv, hartVars
<1> QED BY <1>1 DEF HartInv, BootInv, ProcsInv, RunInv, HandlerInv, Saved, PMode, Compare


-----------------------------------------------------------------------------
(* What a step does: the context that is resumed, its privilege, and the   *)
(* length of the time slice                                                *)
Resumes == Resumed => m'.pc = left[m'.curr].pc /\ m'.regs = left[m'.curr].regs
KeepsMode == stage = "exit" /\ stage' = "run" => m'.mode = left[m'.curr].mode
NewSlice == m'.curr # m.curr => Compare(m') = time + QUANTUM

LEMMA HartStep ==
    ASSUME HartInv, [Next]_hartVars
    PROVE  HartInv' /\ Resumes /\ KeepsMode /\ NewSlice
<1> USE DEF Resumes, KeepsMode, NewSlice, Resumed
<1>1. CASE timer_init
  BY <1>1, TimerInitStep DEF timer_init, At
<1>2. CASE intr_init
  BY <1>2, IntrInitStep DEF intr_init, At
<1>3. CASE earth_main
  BY <1>3, EarthMainStep DEF earth_main, At
<1>4. CASE register
  BY <1>4, RegisterStep DEF register, At
<1>5. CASE grass_main
  BY <1>5, GrassMainStep DEF grass_main, At
<1>6. CASE Run
  BY <1>6, RunStep DEF Run, Running, At
<1>7. CASE excp_entry
  BY <1>7, ExcpStep
<1>8. CASE intr_entry
  BY <1>8, IntrStep
<1>9. CASE proc_syscall
  BY <1>9, SyscallStep
<1>10. ASSUME NEW n \in Procs, proc_yield(n)
       PROVE  HartInv' /\ Resumes /\ KeepsMode /\ NewSlice
  BY <1>10, YieldStep
<1>11. CASE Exit
  BY <1>11, ExitStep
<1>12. ASSUME NEW p \in Procs, SetStatus(p)
       PROVE  HartInv' /\ Resumes /\ KeepsMode /\ NewSlice
  BY <1>12, StatusStep
<1>13. CASE Tick \/ UNCHANGED hartVars
  BY <1>13, TickStep
<1> QED
  BY <1>1, <1>2, <1>3, <1>4, <1>5, <1>6, <1>7, <1>8, <1>9, <1>10, <1>11, <1>12, <1>13
  DEF Next, Boot, Handler

(* A process that is not running has its context where ctx_switch and      *)
(* CTX_RESTORE will look for it (earth.s, kernel.c).                       *)
THEOREM ContextKept == Spec => []HartInv
<1>1. Init => HartInv
  BY InitStep
<1>2. HartInv /\ [Next]_hartVars => HartInv'
  BY HartStep
<1> QED BY <1>1, <1>2, PTL DEF Spec

(* No trap comes before grass has registered its handlers, and no handler  *)
(* faults on the compare register (cpu_intr.c, cpu_timer.c).               *)
THEOREM EveryTrapHandled == Spec => []TrapsHandled
<1>1. HartInv => TrapsHandled
  BY DEF HartInv, TrapsHandled
<1> QED BY <1>1, ContextKept, PTL

(* A handler gives the hart back with the registers and the address that   *)
(* the resumed process had when it lost it (CTX_SAVE, CTX_RESTORE,         *)
(* ctx_entry, ctx_switch).                                                 *)
THEOREM ContextResumed == Spec => ResumesItself
<1>1. HartInv /\ [Next]_hartVars => [Resumes]_hartVars
  BY HartStep
<1>2. [][Resumes]_hartVars => ResumesItself
  BY DEF ResumesItself, Resumes
<1> QED BY <1>1, <1>2, ContextKept, PTL DEF Spec

(* ... and with the privilege it had, although tp is not saved with the    *)
(* process (trap_entry_vm and its exit in earth.s).                        *)
THEOREM PrivilegeKept == Spec => ModeKept
<1>1. HartInv /\ [Next]_hartVars => [KeepsMode]_hartVars
  BY HartStep
<1>2. [][KeepsMode]_hartVars => ModeKept
  BY DEF ModeKept, KeepsMode
<1> QED BY <1>1, <1>2, ContextKept, PTL DEF Spec

(* proc_yield resets the timer for every process that it switches to.      *)
THEOREM SliceIsFull == Spec => FullSlice
<1>1. HartInv /\ [Next]_hartVars => [NewSlice]_hartVars
  BY HartStep
<1>2. [][NewSlice]_hartVars => FullSlice
  BY DEF FullSlice, NewSlice
<1> QED BY <1>1, <1>2, ContextKept, PTL DEF Spec
=============================================================================
