---------------------------- MODULE GrassProofs ----------------------------
(***************************************************************************)
(* KernelInv is inductive: it holds initially and every trap handler and   *)
(* every call of sys_proc preserves it.  The handlers that reschedule all  *)
(* end in proc_yield on a status column st; YieldPreserves treats that end *)
(* once, and each handler has only to show that its st is Sound.           *)
(***************************************************************************)
EXTENDS Grass, TLAPS

USE Zenon

(* what a handler owes to proc_yield: status column st, receiver_pid rp    *)
(* and set of memory owners mp                                             *)
Sound(st, rp, mp) ==
    /\ st \in [Slots -> Status]
    /\ \A i \in Slots :
          /\ st[i] = "RUNNING" => i = proc_curr_idx
          /\ pid[i] = 0 => st[i] = "UNUSED"
          /\ pid[i] \in 1..(GPID_USER_START - 1) => st[i] # "UNUSED"
          /\ st[i] = "LOADING" => pid[i] = proc_nprocs
          /\ st[i] \notin {"UNUSED", "LOADING"} => pid[i] \in mp
    /\ \A i, j \in Slots :
          ~(st[i] = "WAIT_TO_SEND" /\ st[j] = "WAIT_TO_RECV" /\ rp[i] = pid[j])
    /\ \A p \in mp : \E i \in Slots : pid[i] = p /\ st[i] # "UNUSED"

-----------------------------------------------------------------------------
(* The round-robin search looks only at slots of the table.                *)
LEMMA SlotAfterInSlots ==
    ASSUME TypeOK, NEW i \in 1..MAX_NPROCESS
    PROVE  SlotAfter(i) \in Slots
BY GrassAssumption, SMT DEF TypeOK, SlotAfter, Slots

(* proc_set_status changes the slots of one pid.                           *)
LEMMA SetStatusType ==
    ASSUME NEW st \in [Slots -> Status], NEW p, NEW s \in Status
    PROVE  proc_set_status(st, p, s) \in [Slots -> Status]
BY DEF proc_set_status

(* proc_yield moves processes only among the schedulable statuses, and     *)
(* leaves the slot it picked running, in its own address space.            *)
LEMMA YieldEffect ==
    ASSUME TypeOK, PidsUnique, fatal = "none", pid' = pid,
           NEW st \in [Slots -> Status],
           \A i \in Slots : st[i] = "RUNNING" => i = proc_curr_idx,
           \A i \in Slots : pid[i] = 0 => st[i] = "UNUSED",
           proc_yield(st)
    PROVE  /\ status' \in [Slots -> Status]
           /\ proc_curr_idx' \in Slots /\ vm' \in Pids
           /\ fatal' \in {"none", "proc_yield"}
           /\ \A i \in Slots : \/ status'[i] = st[i]
                               \/ status'[i] \in Schedulable /\ st[i] \in Schedulable
           /\ RunningIsCurrent' /\ AddressSpaceIsCurrent'
<1>1. CASE /\ Fatal("proc_yield") /\ status' = st
           /\ UNCHANGED <<proc_curr_idx, vm>>
  BY <1>1 DEF TypeOK, Fatal, RunningIsCurrent, AddressSpaceIsCurrent
<1>2. CASE \E i \in 1..MAX_NPROCESS :
              /\ st[SlotAfter(i)] \in Schedulable
              /\ proc_curr_idx' = SlotAfter(i)
              /\ status' = proc_set_status(Stop(st), pid[SlotAfter(i)], "RUNNING")
              /\ vm' = mmu_switch(vm, pid[SlotAfter(i)])
              /\ UNCHANGED fatal
  <2>1. PICK k \in 1..MAX_NPROCESS :
              /\ st[SlotAfter(k)] \in Schedulable
              /\ proc_curr_idx' = SlotAfter(k)
              /\ status' = proc_set_status(Stop(st), pid[SlotAfter(k)], "RUNNING")
              /\ vm' = mmu_switch(vm, pid[SlotAfter(k)])
              /\ UNCHANGED fatal
    BY <1>2
  <2> DEFINE n == SlotAfter(k)
  <2>2. n \in Slots
    BY SlotAfterInSlots
  <2>3. pid[n] # 0
    BY <2>1, <2>2 DEF Schedulable
  <2>4. \A i \in Slots : pid[i] = pid[n] <=> i = n
    BY <2>2, <2>3 DEF PidsUnique
  <2>5. /\ Stop(st) \in [Slots -> Status]
        /\ \A i \in Slots : Stop(st)[i] # "RUNNING"
        /\ \A i \in Slots : \/ Stop(st)[i] = st[i]
                            \/ Stop(st)[i] \in Schedulable /\ st[i] \in Schedulable
    <3>1. CASE st[proc_curr_idx] = "RUNNING"
      <4>1. proc_curr_idx \in Slots /\ pid[proc_curr_idx] # 0
        BY <3>1 DEF TypeOK
      <4>2. \A i \in Slots : pid[i] = curr_pid <=> i = proc_curr_idx
        BY <4>1 DEF PidsUnique, curr_pid
      <4>3. Stop(st) = [i \in Slots |-> IF i = proc_curr_idx THEN "RUNNABLE" ELSE st[i]]
        BY <3>1, <4>2 DEF Stop, proc_set_status
      <4> QED BY <3>1, <4>1, <4>3 DEF Schedulable, Status
    <3>2. CASE st[proc_curr_idx] # "RUNNING"
      BY <3>2 DEF Stop
    <3> QED BY <3>1, <3>2
  <2>6. status' = [i \in Slots |-> IF i = n THEN "RUNNING" ELSE Stop(st)[i]]
    BY <2>1, <2>4 DEF proc_set_status
  <2>7. status' \in [Slots -> Status]
    BY <2>5, <2>6 DEF Status
  <2>8. proc_curr_idx' = n /\ vm' = pid[n] /\ fatal' = "none"
    BY <2>1 DEF mmu_switch
  <2>9. \A i \in Slots : \/ status'[i] = st[i]
                         \/ status'[i] \in Schedulable /\ st[i] \in Schedulable
    BY <2>1, <2>5, <2>6 DEF Schedulable
  <2>10. \A i \in Slots : status'[i] = "RUNNING" <=> i = n
    BY <2>2, <2>5, <2>6
  <2>11. RunningIsCurrent' /\ AddressSpaceIsCurrent'
    BY <2>8, <2>10 DEF RunningIsCurrent, AddressSpaceIsCurrent, curr_pid
  <2>12. vm' \in Pids
    BY <2>2, <2>8 DEF TypeOK
  <2> QED BY <2>2, <2>7, <2>8, <2>9, <2>11, <2>12
<1> QED BY <1>1, <1>2 DEF proc_yield

(* A handler that leaves a Sound status column to proc_yield preserves the *)
(* invariant, whether proc_yield finds a process or stops the machine.     *)
LEMMA YieldPreserves ==
    ASSUME KernelInv, fatal = "none", NEW st, proc_yield(st),
           pid' = pid, proc_nprocs' = proc_nprocs,
           receiver_pid' \in [Slots -> Pids], sc' \in [Pids -> Syscall],
           mapped' \subseteq Pids, Sound(st, receiver_pid', mapped')
    PROVE  KernelInv'
<1>1. TypeOK /\ PidsUnique
  BY DEF KernelInv
<1>2. /\ st \in [Slots -> Status]
      /\ \A i \in Slots : st[i] = "RUNNING" => i = proc_curr_idx
      /\ \A i \in Slots : pid[i] = 0 => st[i] = "UNUSED"
  BY DEF Sound
<1>3. /\ status' \in [Slots -> Status]
      /\ proc_curr_idx' \in Slots /\ vm' \in Pids
      /\ fatal' \in {"none", "proc_yield"}
      /\ \A i \in Slots : \/ status'[i] = st[i]
                          \/ status'[i] \in Schedulable /\ st[i] \in Schedulable
      /\ RunningIsCurrent' /\ AddressSpaceIsCurrent'
  BY <1>1, <1>2, YieldEffect
<1>4. TypeOK'
  BY <1>1, <1>3 DEF TypeOK, FatalSite
<1>5. PidsUnique'
  BY <1>1 DEF PidsUnique
<1>6. \A i \in Slots :
         /\ status'[i] = "UNUSED" <=> st[i] = "UNUSED"
         /\ status'[i] = "LOADING" <=> st[i] = "LOADING"
         /\ status'[i] = "WAIT_TO_SEND" <=> st[i] = "WAIT_TO_SEND"
         /\ status'[i] = "WAIT_TO_RECV" <=> st[i] = "WAIT_TO_RECV"
  BY <1>3 DEF Schedulable
<1>7. \A i \in Slots :
         /\ pid'[i] <= proc_nprocs'
         /\ pid'[i] = 0 => status'[i] = "UNUSED"
         /\ pid'[i] \in 1..(GPID_USER_START - 1) => status'[i] # "UNUSED"
         /\ status'[i] = "LOADING" => pid'[i] = proc_nprocs'
  BY <1>6 DEF KernelInv, Sound
<1>8. NoMissedRendezvous'
  BY <1>6 DEF NoMissedRendezvous, Sound
<1>9. MemoryOwned'
  BY <1>6, SMT DEF MemoryOwned, Sound
<1> QED BY <1>3, <1>4, <1>5, <1>7, <1>8, <1>9 DEF KernelInv

(* The current process and its status, while the machine runs.             *)
LEMMA Current ==
    ASSUME KernelInv, fatal = "none"
    PROVE  /\ proc_curr_idx \in Slots /\ curr_pid \in Pids /\ curr_pid # 0
           /\ status[proc_curr_idx] = "RUNNING" /\ vm = curr_pid
           /\ \A i \in Slots : pid[i] = curr_pid <=> i = proc_curr_idx
           /\ curr_pid <= proc_nprocs
BY DEF KernelInv, TypeOK, PidsUnique, RunningIsCurrent, AddressSpaceIsCurrent, curr_pid

(* A step that leaves the table alone, with or without a FATAL.            *)
LEMMA TableUnchanged ==
    ASSUME KernelInv, fatal' \in FatalSite \union {"none"}, fatal' = "none" => fatal = "none",
           UNCHANGED <<pid, status, receiver_pid, proc_curr_idx, proc_nprocs, vm, sc, mapped>>
    PROVE  KernelInv'
<1>1. TypeOK'
  BY DEF KernelInv, TypeOK
<1>2. PidsUnique' /\ NoMissedRendezvous' /\ MemoryOwned'
  BY DEF KernelInv, PidsUnique, NoMissedRendezvous, MemoryOwned
<1>3. RunningIsCurrent' /\ AddressSpaceIsCurrent'
  BY DEF KernelInv, RunningIsCurrent, AddressSpaceIsCurrent, curr_pid
<1>4. \A i \in Slots :
          /\ pid'[i] <= proc_nprocs'
          /\ pid'[i] = 0 => status'[i] = "UNUSED"
          /\ pid'[i] \in 1..(GPID_USER_START - 1) => status'[i] # "UNUSED"
          /\ status'[i] = "LOADING" => pid'[i] = proc_nprocs'
  BY DEF KernelInv
<1> QED BY <1>1, <1>2, <1>3, <1>4 DEF KernelInv

(* The status column a handler starts from is Sound.                       *)
LEMMA StatusSound ==
    ASSUME KernelInv, fatal = "none"
    PROVE  Sound(status, receiver_pid, mapped)
BY SMT DEF KernelInv, Sound, TypeOK, RunningIsCurrent, NoMissedRendezvous, MemoryOwned

-----------------------------------------------------------------------------
(* Types of the syscall areas: what sys_send and sys_recv write, and what  *)
(* the kernel writes back.                                                 *)

LEMMA SyscallFields ==
    ASSUME NEW m \in [Pids -> Syscall], NEW p \in Pids
    PROVE  /\ \A t \in SyscallType : [m EXCEPT ![p].type = t] \in [Pids -> Syscall]
           /\ \A r \in {0, -1} : [m EXCEPT ![p].retval = r] \in [Pids -> Syscall]
           /\ \A g \in Msg : [m EXCEPT ![p].msg = g] \in [Pids -> Syscall]
           /\ m[p].msg \in Msg
           /\ \A q \in Pids : [m EXCEPT ![p].msg.sender = q] \in [Pids -> Syscall]
           /\ \A q \in Pids : [m EXCEPT ![p].msg.receiver = q] \in [Pids -> Syscall]
           /\ \A c \in Content : [m EXCEPT ![p].msg.content = c] \in [Pids -> Syscall]
BY SMT DEF Syscall, Msg

LEMMA CopyMsgType ==
    ASSUME NEW m \in [Pids -> Syscall], NEW p \in Pids, NEW q \in Pids
    PROVE  CopyMsg(m, p, q) \in [Pids -> Syscall]
BY SyscallFields, ZenonT(30) DEF CopyMsg, mmu_switch

(* A receive with the machine running: either it blocks, no sender being   *)
(* there, or it releases one sender; both leave a Sound status column.     *)
LEMMA RecvPreserves ==
    ASSUME KernelInv, fatal = "none", NEW m \in [Pids -> Syscall], proc_recv(m),
           UNCHANGED <<pid, proc_nprocs, mapped>>
    PROVE  KernelInv'
<1> USE Current, StatusSound
<1>0. /\ receiver_pid \in [Slots -> Pids] /\ mapped \subseteq Pids
      /\ pid \in [Slots -> Pids]
  BY DEF KernelInv, TypeOK
<1>1. CASE /\ \A i \in Slots : ~Sending(i)
           /\ sc' = m
           /\ proc_yield([status EXCEPT ![proc_curr_idx] = "WAIT_TO_RECV"])
           /\ UNCHANGED receiver_pid
  <2> DEFINE st == [status EXCEPT ![proc_curr_idx] = "WAIT_TO_RECV"]
  <2>1. Sound(st, receiver_pid', mapped')
    BY <1>1, SMT DEF Sound, Sending, curr_pid, Status
  <2> QED BY <1>0, <1>1, <2>1, YieldPreserves
<1>2. ASSUME NEW i \in Slots, Sending(i),
             sc' = CopyMsg(m, pid[i], curr_pid),
             proc_yield(proc_set_status(status, pid[i], "RUNNABLE")),
             UNCHANGED receiver_pid
      PROVE  KernelInv'
  <2> DEFINE st == proc_set_status(status, pid[i], "RUNNABLE")
  <2>1. sc' \in [Pids -> Syscall]
    BY <1>0, <1>2, CopyMsgType
  <2>2. pid[i] # 0 /\ \A j \in Slots : pid[j] = pid[i] <=> j = i
    BY <1>2 DEF KernelInv, PidsUnique, Sending
  <2>3. /\ st \in [Slots -> Status]
        /\ \A j \in Slots : st[j] = IF j = i THEN "RUNNABLE" ELSE status[j]
    BY <2>2 DEF proc_set_status, Sound, Status
  <2> HIDE DEF st
  <2>4. Sound(st, receiver_pid', mapped')
    BY <1>2, <2>2, <2>3, SMT DEF Sound, Sending
  <2> QED BY <1>0, <1>2, <2>1, <2>4, YieldPreserves DEF st
<1> QED BY <1>1, <1>2 DEF proc_recv

(* A send: it fails, blocks on a process that is not receiving, or         *)
(* releases a receiver.                                                    *)
LEMMA SendPreserves ==
    ASSUME KernelInv, fatal = "none", NEW m \in [Pids -> Syscall], proc_send(m),
           UNCHANGED <<pid, proc_nprocs, mapped>>
    PROVE  KernelInv'
<1> USE Current, StatusSound
<1> DEFINE m1 == StampSender(m)
           receiver == m1[vm].msg.receiver
<1>0. /\ receiver_pid \in [Slots -> Pids] /\ mapped \subseteq Pids
      /\ pid \in [Slots -> Pids]
  BY DEF KernelInv, TypeOK
<1>1. m1 \in [Pids -> Syscall]
  BY SyscallFields, ZenonT(30) DEF StampSender
<1>2. receiver \in Pids
  BY <1>1 DEF Syscall, Msg
<1> HIDE DEF m1, receiver
<1>3. CASE /\ sc' = [m1 EXCEPT ![vm].retval = -1]
           /\ UNCHANGED <<status, receiver_pid, proc_curr_idx, vm, fatal>>
  <2>1. sc' \in [Pids -> Syscall]
    BY <1>1, <1>3, SyscallFields, ZenonT(30)
  <2> QED BY <1>3, <2>1, SMT DEF KernelInv, TypeOK, PidsUnique, RunningIsCurrent,
             AddressSpaceIsCurrent, NoMissedRendezvous, MemoryOwned, curr_pid
<1>4. ASSUME NEW i \in Slots, pid[i] = receiver, ~Receiving(i),
             receiver_pid' = [receiver_pid EXCEPT ![proc_curr_idx] = receiver],
             sc' = m1,
             proc_yield([status EXCEPT ![proc_curr_idx] = "WAIT_TO_SEND"])
      PROVE  KernelInv'
  <2> DEFINE st == [status EXCEPT ![proc_curr_idx] = "WAIT_TO_SEND"]
  <2>1. receiver_pid' \in [Slots -> Pids]
    BY <1>0, <1>2, <1>4
  <2>2. \A j \in Slots : pid[j] = receiver => status[j] # "WAIT_TO_RECV"
    BY <1>4 DEF KernelInv, PidsUnique, Receiving
  <2>3. Sound(st, receiver_pid', mapped')
    BY <1>0, <1>4, <2>2, SMT DEF Sound, Status, curr_pid
  <2> QED BY <1>0, <1>1, <1>4, <2>1, <2>3, YieldPreserves, ZenonT(30)
<1>5. ASSUME NEW i \in Slots, pid[i] = receiver, Receiving(i),
             sc' = CopyMsg(m1, curr_pid, receiver),
             proc_yield(proc_set_status(status, receiver, "RUNNABLE")),
             UNCHANGED receiver_pid
      PROVE  KernelInv'
  <2> DEFINE st == proc_set_status(status, receiver, "RUNNABLE")
  <2>1. sc' \in [Pids -> Syscall]
    BY <1>1, <1>2, <1>5, CopyMsgType
  <2>2. pid[i] # 0 /\ \A j \in Slots : pid[j] = receiver <=> j = i
    BY <1>5 DEF KernelInv, PidsUnique, Receiving
  <2>3. /\ st \in [Slots -> Status]
        /\ \A j \in Slots : st[j] = IF j = i THEN "RUNNABLE" ELSE status[j]
    BY <2>2 DEF proc_set_status, Sound, Status
  <2>4. proc_yield(st)
    BY <1>5
  <2> HIDE DEF st
  <2>5. Sound(st, receiver_pid, mapped)
    BY <1>5, <2>2, <2>3, SMT DEF Sound, Receiving
  <2> QED BY <1>0, <1>5, <2>1, <2>4, <2>5, YieldPreserves
<1> QED BY <1>3, <1>4, <1>5, ZenonT(30) DEF proc_send, m1, receiver

LEMMA SyscallPreserves ==
    ASSUME KernelInv, fatal = "none", NEW m \in [Pids -> Syscall], proc_syscall(m),
           UNCHANGED <<pid, proc_nprocs, mapped>>
    PROVE  KernelInv'
<1> DEFINE m1 == [m EXCEPT ![vm].retval = 0, ![vm].type = "SYS_UNUSED"]
<1>1. vm \in Pids
  BY DEF KernelInv, TypeOK
<1>2. m1 \in [Pids -> Syscall]
  BY <1>1, ZenonT(30) DEF Syscall, SyscallType
<1> HIDE DEF m1
<1>3. CASE proc_recv(m1)
  BY <1>2, <1>3, RecvPreserves
<1>4. CASE proc_send(m1)
  BY <1>2, <1>4, SendPreserves
<1>5. CASE /\ sc' = m1 /\ Fatal("proc_syscall")
           /\ UNCHANGED <<status, receiver_pid, proc_curr_idx, vm>>
  BY <1>2, <1>5, SMT DEF KernelInv, TypeOK, PidsUnique, RunningIsCurrent, FatalSite, Fatal,
     AddressSpaceIsCurrent, NoMissedRendezvous, MemoryOwned
<1> QED BY <1>3, <1>4, <1>5 DEF proc_syscall, m1

(* Killing the current process frees its slot and its memory together; the *)
(* shell it wakes is loaded and was not freed, since its pid is older.     *)
LEMMA KillPreserves ==
    ASSUME KernelInv, fatal = "none", curr_pid >= GPID_USER_START, kill_current,
           UNCHANGED <<pid, proc_nprocs>>
    PROVE  KernelInv'
<1> USE Current, StatusSound, GrassAssumption
<1> DEFINE st1 == proc_set_status(status, curr_pid, "UNUSED")
           st  == proc_set_status(st1, GPID_SHELL, "RUNNABLE")
<1>0. /\ receiver_pid \in [Slots -> Pids] /\ mapped \subseteq Pids
      /\ pid \in [Slots -> Pids] /\ sc \in [Pids -> Syscall] /\ proc_nprocs \in Pids
  BY DEF KernelInv, TypeOK
<1>1. /\ st \in [Slots -> Status]
      /\ \A i \in Slots : st[i] = IF pid[i] = GPID_SHELL THEN "RUNNABLE"
                                  ELSE IF i = proc_curr_idx THEN "UNUSED" ELSE status[i]
  BY DEF proc_set_status, Sound, Status
<1>2. \A i \in Slots : pid[i] = GPID_SHELL => i # proc_curr_idx
  BY <1>0, SMT DEF curr_pid, Pids
<1>3. \A i \in Slots : pid[i] = GPID_SHELL =>
          status[i] \notin {"UNUSED", "LOADING"}
  <2>1. GPID_SHELL \in 1..(GPID_USER_START - 1)
    BY SMT DEF GPID_PROCESS
  <2>2. proc_nprocs # GPID_SHELL
    BY <1>0, SMT DEF Pids
  <2>3. \A i \in Slots : /\ pid[i] \in 1..(GPID_USER_START - 1) => status[i] # "UNUSED"
                         /\ status[i] = "LOADING" => pid[i] = proc_nprocs
    BY DEF Sound
  <2> QED BY <2>1, <2>2, <2>3
<1> HIDE DEF st
<1>4. mapped' = mapped \ {curr_pid}
  BY DEF kill_current
<1>5. receiver_pid' = receiver_pid
  BY DEF kill_current
<1>6. \A i \in Slots :
          /\ st[i] = "RUNNING" => i = proc_curr_idx
          /\ pid[i] = 0 => st[i] = "UNUSED"
          /\ st[i] = "LOADING" => pid[i] = proc_nprocs
          /\ st[i] \notin {"UNUSED", "LOADING"} => pid[i] \in mapped'
  BY <1>0, <1>1, <1>2, <1>3, <1>4, SMT DEF Sound, GPID_PROCESS
<1>7. \A i \in Slots : pid[i] \in 1..(GPID_USER_START - 1) => st[i] # "UNUSED"
  BY <1>0, <1>1, SMT DEF Sound, curr_pid, Pids
<1>8. \A i, j \in Slots :
          ~(st[i] = "WAIT_TO_SEND" /\ st[j] = "WAIT_TO_RECV" /\ receiver_pid'[i] = pid[j])
  BY <1>1, <1>5, SMT DEF Sound
<1>9. \A p \in mapped' : \E i \in Slots : pid[i] = p /\ st[i] # "UNUSED"
  BY <1>0, <1>1, <1>4, SMT DEF Sound, curr_pid
<1>10. Sound(st, receiver_pid', mapped')
  BY <1>1, <1>6, <1>7, <1>8, <1>9 DEF Sound
<1>11. sc' \in [Pids -> Syscall] /\ receiver_pid' \in [Slots -> Pids] /\ mapped' \subseteq Pids
  BY <1>0, <1>4, <1>5 DEF kill_current
<1>12. proc_yield(st)
  BY DEF kill_current, st
<1> QED BY <1>10, <1>11, <1>12, YieldPreserves

LEMMA TrapPreserves ==
    ASSUME KernelInv, NEW id, NEW m \in [Pids -> Syscall], excp_entry(id, m)
    PROVE  KernelInv'
<1>1. CASE proc_syscall(m) /\ UNCHANGED mapped
  BY <1>1, SyscallPreserves DEF excp_entry
<1>2. CASE curr_pid >= GPID_USER_START /\ kill_current
  BY <1>2, KillPreserves DEF excp_entry
<1>3. CASE /\ Fatal("excp_entry")
           /\ UNCHANGED <<status, receiver_pid, proc_curr_idx, vm, sc, mapped>>
  BY <1>3, SMT DEF excp_entry, KernelInv, TypeOK, PidsUnique, RunningIsCurrent, FatalSite,
     Fatal, AddressSpaceIsCurrent, NoMissedRendezvous, MemoryOwned
<1> QED BY <1>1, <1>2, <1>3 DEF excp_entry

LEMMA IntrPreserves ==
    ASSUME KernelInv, NEW b \in BOOLEAN, intr_entry(b)
    PROVE  KernelInv'
<1>1. CASE curr_pid >= GPID_USER_START /\ kill_current
  BY <1>1, KillPreserves DEF intr_entry
<1>2. CASE proc_yield(status) /\ UNCHANGED <<sc, receiver_pid, mapped>>
  <2>1. /\ receiver_pid' \in [Slots -> Pids] /\ sc' \in [Pids -> Syscall]
        /\ mapped' \subseteq Pids
    BY <1>2 DEF KernelInv, TypeOK
  <2>2. Sound(status, receiver_pid', mapped')
    BY <1>2, StatusSound DEF intr_entry
  <2> QED BY <1>2, <2>1, <2>2, YieldPreserves DEF intr_entry
<1> QED BY <1>1, <1>2 DEF intr_entry

-----------------------------------------------------------------------------
(* The calls of sys_proc do not reschedule.                                *)

LEMMA AllocPreserves ==
    ASSUME KernelInv, ProcAlloc
    PROVE  KernelInv'
<1> USE GrassAssumption
<1>0. /\ fatal = "none" /\ pid \in [Slots -> Pids] /\ status \in [Slots -> Status]
      /\ proc_nprocs \in Pids /\ Pids = 0..MaxPid
  BY DEF KernelInv, TypeOK, ProcAlloc, AsSysProc, Pids
<1>1. CASE /\ Fatal("proc_alloc")
           /\ UNCHANGED <<pid, status, receiver_pid, proc_curr_idx, proc_nprocs,
                          vm, sc, mapped>>
  BY <1>1, TableUnchanged DEF FatalSite, Fatal
<1>2. ASSUME NEW k \in Slots, status[k] = "UNUSED", proc_nprocs < MaxPid,
             proc_nprocs' = NextPid,
             pid' = [pid EXCEPT ![k] = NextPid],
             status' = [status EXCEPT ![k] = "LOADING"],
             UNCHANGED <<receiver_pid, proc_curr_idx, vm, sc, mapped, fatal>>
      PROVE  KernelInv'
  <2>1. NextPid \in Pids /\ NextPid = proc_nprocs + 1 /\ NextPid # 0
    BY <1>0, <1>2, SMT DEF NextPid
  <2>2. \A i \in Slots : /\ pid'[i] = IF i = k THEN NextPid ELSE pid[i]
                         /\ status'[i] = IF i = k THEN "LOADING" ELSE status[i]
    BY <1>0, <1>2
  <2>3. \A i \in Slots : pid[i] # NextPid /\ pid[i] <= proc_nprocs
    BY <1>0, <2>1, SMT DEF KernelInv
  <2>4. \A i \in Slots : status[i] # "LOADING"
    BY <1>0 DEF ProcAlloc, Loading
  <2>5. k # proc_curr_idx /\ proc_curr_idx \in Slots
    BY <1>0, <1>2, Current
  <2>6. TypeOK'
    BY <1>0, <1>2, <2>1 DEF KernelInv, TypeOK, Status
  <2>7. PidsUnique'
    BY <2>2, <2>3 DEF KernelInv, PidsUnique
  <2>8. \A i \in Slots :
           /\ pid'[i] <= proc_nprocs'
           /\ pid'[i] = 0 => status'[i] = "UNUSED"
           /\ pid'[i] \in 1..(GPID_USER_START - 1) => status'[i] # "UNUSED"
           /\ status'[i] = "LOADING" => pid'[i] = proc_nprocs'
    BY <1>0, <1>2, <2>1, <2>2, <2>3, <2>4, SMT DEF KernelInv
  <2>9. RunningIsCurrent' /\ AddressSpaceIsCurrent'
    BY <1>2, <2>2, <2>5, SMT DEF KernelInv, RunningIsCurrent, AddressSpaceIsCurrent, curr_pid
  <2>10. NoMissedRendezvous'
    BY <1>2, <2>2, SMT DEF KernelInv, NoMissedRendezvous
  <2>11. MemoryOwned'
    BY <1>2, <2>2, SMT DEF KernelInv, MemoryOwned
  <2> QED BY <2>6, <2>7, <2>8, <2>9, <2>10, <2>11 DEF KernelInv
<1> QED BY <1>1, <1>2 DEF ProcAlloc, proc_alloc

LEMMA LoadPreserves ==
    ASSUME KernelInv, NEW p \in Pids, ElfLoad(p)
    PROVE  KernelInv'
<1>0. /\ mapped' = mapped \union {p} /\ UNCHANGED <<pid, status>>
      /\ UNCHANGED <<receiver_pid, proc_curr_idx, proc_nprocs, vm, fatal>>
  BY DEF ElfLoad, elf_load
<1>1. \E i \in Slots : pid[i] = p /\ status[i] = "LOADING"
  BY DEF ElfLoad, Loading
<1>2. TypeOK'
  <2>1. sc' \in [Pids -> Syscall]
    BY GrassAssumption DEF ElfLoad, elf_load, KernelInv, TypeOK
  <2> QED BY <1>0, <2>1 DEF KernelInv, TypeOK
<1>3. MemoryOwned'
  <2>1. MemoryOwned
    BY DEF KernelInv
  <2>2. \A i \in Slots : status'[i] \notin {"UNUSED", "LOADING"} => pid'[i] \in mapped'
    BY <1>0, <2>1 DEF MemoryOwned
  <2>3. ASSUME NEW q \in mapped'
        PROVE  \E i \in Slots : pid[i] = q /\ status[i] # "UNUSED"
    <3>1. CASE q = p
      BY <1>1, <3>1
    <3>2. CASE q \in mapped
      BY <2>1, <3>2 DEF MemoryOwned
    <3> QED BY <1>0, <3>1, <3>2
  <2> QED BY <1>0, <2>2, <2>3 DEF MemoryOwned
<1> QED BY <1>0, <1>2, <1>3 DEF KernelInv, PidsUnique, RunningIsCurrent,
           AddressSpaceIsCurrent, NoMissedRendezvous, curr_pid

LEMMA ReadyPreserves ==
    ASSUME KernelInv, NEW p \in Pids, ProcReady(p)
    PROVE  KernelInv'
<1>0. /\ fatal = "none" /\ status \in [Slots -> Status]
      /\ UNCHANGED <<pid, receiver_pid, proc_curr_idx, proc_nprocs, vm, sc, mapped, fatal>>
  BY DEF KernelInv, TypeOK, ProcReady, AsSysProc, proc_set_ready
<1>1. PICK k \in Slots : pid[k] = p /\ status[k] = "LOADING"
  BY DEF ProcReady, Loading
<1>2. p # 0 /\ \A i \in Slots : pid[i] = p <=> i = k
  BY <1>1 DEF KernelInv, PidsUnique
<1>3. /\ status' \in [Slots -> Status]
      /\ \A i \in Slots : status'[i] = IF i = k THEN "READY" ELSE status[i]
  BY <1>0, <1>2 DEF ProcReady, proc_set_ready, proc_set_status, Status
<1>4. k # proc_curr_idx
  BY <1>0, <1>1, Current
<1>5. TypeOK' /\ PidsUnique' /\ AddressSpaceIsCurrent'
  BY <1>0, <1>3 DEF KernelInv, TypeOK, PidsUnique, AddressSpaceIsCurrent, curr_pid
<1>6. RunningIsCurrent' /\ NoMissedRendezvous'
  BY <1>0, <1>3, <1>4, SMT DEF KernelInv, RunningIsCurrent, NoMissedRendezvous
<1>7. MemoryOwned'
  <2>1. MemoryOwned /\ p \in mapped
    BY DEF KernelInv, ProcReady
  <2> QED BY <1>0, <1>1, <1>3, <2>1, SMT DEF MemoryOwned
<1>8. \A i \in Slots :
         /\ pid'[i] <= proc_nprocs'
         /\ pid'[i] = 0 => status'[i] = "UNUSED"
         /\ pid'[i] \in 1..(GPID_USER_START - 1) => status'[i] # "UNUSED"
         /\ status'[i] = "LOADING" => pid'[i] = proc_nprocs'
  <2>1. \A i \in Slots :
           /\ pid[i] <= proc_nprocs
           /\ pid[i] = 0 => status[i] = "UNUSED"
           /\ pid[i] \in 1..(GPID_USER_START - 1) => status[i] # "UNUSED"
           /\ status[i] = "LOADING" => pid[i] = proc_nprocs
    BY DEF KernelInv
  <2>2. pid[k] # 0
    BY <1>1, <1>2
  <2> QED BY <1>0, <1>3, <2>1, <2>2, SMT
<1> QED BY <1>5, <1>6, <1>7, <1>8 DEF KernelInv

(* Freeing a set of user applications, their slots with their memory: both *)
(* forms of proc_free.                                                     *)
LEMMA FreePreserves ==
    ASSUME KernelInv, fatal = "none", curr_pid = GPID_PROCESS,
           NEW D, \A p \in D : p \in Pids /\ p >= GPID_USER_START,
           mapped' = mapped \ D,
           status' = [i \in Slots |-> IF pid[i] \in D THEN "UNUSED" ELSE status[i]],
           UNCHANGED <<pid, receiver_pid, proc_curr_idx, proc_nprocs, vm, sc, fatal>>
    PROVE  KernelInv'
<1> USE GrassAssumption
<1>1. GPID_PROCESS \notin D /\ proc_curr_idx \in Slots
  BY Current, SMT DEF GPID_PROCESS
<1>2. /\ status' \in [Slots -> Status]
      /\ \A i \in Slots : status'[i] = IF pid[i] \in D THEN "UNUSED" ELSE status[i]
  BY DEF KernelInv, TypeOK, Status
<1>3. TypeOK' /\ PidsUnique' /\ AddressSpaceIsCurrent'
  BY <1>2 DEF KernelInv, TypeOK, PidsUnique, AddressSpaceIsCurrent, curr_pid
<1>4. RunningIsCurrent' /\ NoMissedRendezvous'
  BY <1>1, <1>2 DEF KernelInv, RunningIsCurrent, NoMissedRendezvous, curr_pid
<1>5. MemoryOwned'
  BY <1>2, SMT DEF KernelInv, MemoryOwned
<1>6. \A i \in Slots : pid[i] \in 1..(GPID_USER_START - 1) => pid[i] \notin D
  BY SMT DEF Pids
<1>7. \A i \in Slots :
         /\ pid'[i] <= proc_nprocs'
         /\ pid'[i] = 0 => status'[i] = "UNUSED"
         /\ pid'[i] \in 1..(GPID_USER_START - 1) => status'[i] # "UNUSED"
         /\ status'[i] = "LOADING" => pid'[i] = proc_nprocs'
  BY <1>2, <1>6 DEF KernelInv
<1> QED BY <1>3, <1>4, <1>5, <1>7 DEF KernelInv

-----------------------------------------------------------------------------
LEMMA InitEstablishes ==
    ASSUME Init
    PROVE  KernelInv
<1> USE GrassAssumption DEF Init, GPID_PROCESS
<1>1. 0 \in Slots /\ 0 \in Pids /\ 1 \in Pids
  BY SMT DEF Slots, Pids
<1>2. TypeOK
  BY <1>1 DEF TypeOK, Status
<1>3. PidsUnique /\ RunningIsCurrent /\ AddressSpaceIsCurrent
  BY <1>1 DEF PidsUnique, RunningIsCurrent, AddressSpaceIsCurrent, curr_pid
<1>4. NoMissedRendezvous /\ MemoryOwned
  BY <1>1 DEF NoMissedRendezvous, MemoryOwned
<1> QED BY <1>1, <1>2, <1>3, <1>4, SMT DEF KernelInv

(* What sys_send and sys_recv leave in the syscall area is well typed.     *)
LEMMA CallTypes ==
    ASSUME TypeOK
    PROVE  /\ [sc EXCEPT ![vm].type = "SYS_RECV"] \in [Pids -> Syscall]
           /\ \A r \in Pids, c \in Content :
                 [sc EXCEPT ![vm].type = "SYS_SEND", ![vm].msg.receiver = r,
                            ![vm].msg.content = c] \in [Pids -> Syscall]
<1>1. vm \in Pids /\ sc \in [Pids -> Syscall] /\ {"SYS_RECV", "SYS_SEND"} \subseteq SyscallType
  BY DEF TypeOK, SyscallType
<1>2. [sc EXCEPT ![vm].type = "SYS_RECV"] \in [Pids -> Syscall]
  BY <1>1, SyscallFields, ZenonT(30)
<1>3. ASSUME NEW r \in Pids, NEW c \in Content
      PROVE  [sc EXCEPT ![vm].type = "SYS_SEND", ![vm].msg.receiver = r,
                        ![vm].msg.content = c] \in [Pids -> Syscall]
  <2> DEFINE m1 == [sc EXCEPT ![vm].type = "SYS_SEND"]
             m2 == [m1 EXCEPT ![vm].msg.receiver = r]
             m3 == [m2 EXCEPT ![vm].msg.content = c]
  <2>1. m1 \in [Pids -> Syscall]
    BY <1>1, SyscallFields, ZenonT(30)
  <2>2. m2 \in [Pids -> Syscall]
    <3> HIDE DEF m1
    <3> QED BY <1>1, <2>1, SyscallFields, ZenonT(30)
  <2>3. m3 \in [Pids -> Syscall]
    <3> HIDE DEF m2
    <3> QED BY <1>1, <2>2, SyscallFields, ZenonT(30)
  <2> QED BY <2>3
<1> QED BY <1>2, <1>3, ZenonT(30)

LEMMA NextPreserves ==
    ASSUME KernelInv, [Next]_grassVars
    PROVE  KernelInv'
<1> USE GrassAssumption
<1>1. TypeOK
  BY DEF KernelInv
<1>2. ASSUME NEW r \in Addressees, NEW c \in Content, sys_send(r, c)
      PROVE  KernelInv'
  BY <1>1, <1>2, CallTypes, TrapPreserves, ZenonT(30) DEF sys_send
<1>3. CASE sys_recv
  BY <1>1, <1>3, CallTypes, TrapPreserves, ZenonT(30) DEF sys_recv
<1>4. CASE fault
  BY <1>1, <1>4, TrapPreserves DEF fault, TypeOK
<1>5. ASSUME NEW b \in BOOLEAN, intr_entry(b)
      PROVE  KernelInv'
  BY <1>5, IntrPreserves
<1>6. CASE ProcAlloc
  BY <1>6, AllocPreserves
<1>7. ASSUME NEW p \in Pids, ElfLoad(p) \/ ProcReady(p)
      PROVE  KernelInv'
  BY <1>7, LoadPreserves, ReadyPreserves
<1>8. ASSUME NEW p \in Pids, ProcFree(p)
      PROVE  KernelInv'
  <2>1. status' = [i \in Slots |-> IF pid[i] \in {p} THEN "UNUSED" ELSE status[i]]
    BY <1>8 DEF ProcFree, proc_free, proc_set_status
  <2>2. p >= GPID_USER_START
    BY <1>8, SMT DEF ProcFree
  <2> QED BY <1>8, <2>1, <2>2, FreePreserves, ZenonT(30) DEF ProcFree, AsSysProc, proc_free
<1>9. CASE ProcFreeAll
  <2> DEFINE dead == {i \in Slots : pid[i] >= GPID_USER_START /\ status[i] # "UNUSED"}
             D == {pid[i] : i \in dead}
  <2>1. \A p \in D : p \in Pids /\ p >= GPID_USER_START
    BY <1>1 DEF TypeOK
  <2>2. \A i \in Slots : pid[i] \in D <=> pid[i] >= GPID_USER_START /\ status[i] # "UNUSED"
    <3>1. ASSUME NEW i \in Slots, NEW j \in dead, pid[i] = pid[j]
          PROVE  i = j
      BY <3>1, <1>1 DEF KernelInv, PidsUnique, Pids, TypeOK
    <3> QED BY <3>1
  <2>3. mapped' = mapped \ D
    BY <1>9 DEF ProcFreeAll, proc_free_all
  <2>4. status' = [i \in Slots |-> IF pid[i] \in D THEN "UNUSED" ELSE status[i]]
    BY <1>9, <2>2 DEF ProcFreeAll, proc_free_all
  <2> HIDE DEF D
  <2> QED BY <1>9, <2>1, <2>3, <2>4, FreePreserves DEF ProcFreeAll, AsSysProc, proc_free_all
<1>10. ASSUME NEW s \in ServerFatal, Panic(s)
       PROVE  KernelInv'
  <2>1. s \in FatalSite /\ s # "none"
    BY DEF FatalSite, ServerFatal
  <2> QED BY <1>10, <2>1, TableUnchanged DEF Panic, Fatal
<1>11. CASE UNCHANGED grassVars
  BY <1>1, <1>11, TableUnchanged DEF grassVars, TypeOK
<1> QED BY <1>2, <1>3, <1>4, <1>5, <1>6, <1>7, <1>8, <1>9, <1>10, <1>11 DEF Next, Halted

(* The calls of the programs, from anyone to anyone, and the timer         *)
ProgramCall ==
    \/ \E r \in Pids, c \in Content : sys_send(r, c)
    \/ sys_recv
    \/ fault
    \/ ProcAlloc
    \/ \E p \in Pids : ElfLoad(p) \/ ProcReady(p) \/ ProcFree(p)
    \/ ProcFreeAll
    \/ \E s \in ServerFatal : Panic(s)
    \/ UNCHANGED grassVars

KernelCall == ProgramCall \/ \E b \in BOOLEAN : intr_entry(b)

LEMMA NextCalls ==
    ASSUME [Next]_grassVars
    PROVE  KernelCall
BY GrassAssumption DEF Next, KernelCall, ProgramCall, Halted

(* Under every sequence of system calls, interrupts, faults and calls of   *)
(* sys_proc, with any number of slots and processes, the process table of  *)
(* grass keeps the invariant KernelInv.                                    *)
THEOREM KernelInvariant == Spec => []KernelInv
<1>1. Init => KernelInv
  BY InitEstablishes
<1>2. KernelInv /\ [Next]_grassVars => KernelInv'
  BY NextPreserves
<1> QED BY <1>1, <1>2, PTL DEF Spec

(* The kernel's variables keep their types.                                *)
THEOREM TypeCorrect == Spec => []TypeOK
<1>1. KernelInv => TypeOK
  BY DEF KernelInv
<1> QED BY <1>1, KernelInvariant, PTL

(* proc_send and proc_recv never miss each other.                          *)
THEOREM RendezvousNeverMissed == Spec => []NoMissedRendezvous
<1>1. KernelInv => NoMissedRendezvous
  BY DEF KernelInv
<1> QED BY <1>1, KernelInvariant, PTL

(* A trap handler of kernel.c returns to the one process that is running.  *)
THEOREM ReturnsToRunning == Spec => []RunningIsCurrent
<1>1. KernelInv => RunningIsCurrent
  BY DEF KernelInv
<1> QED BY <1>1, KernelInvariant, PTL

(* It returns in that process's own address space, whatever mmu_switch did *)
(* meanwhile to copy a message.                                            *)
THEOREM ReturnsInOwnSpace == Spec => []AddressSpaceIsCurrent
<1>1. KernelInv => AddressSpaceIsCurrent
  BY DEF KernelInv
<1> QED BY <1>1, KernelInvariant, PTL

(* A pid names one slot of proc_set, also after proc_free has left the pid *)
(* of a dead process in its slot.                                          *)
THEOREM PidsAlwaysUnique == Spec => []PidsUnique
<1>1. KernelInv => PidsUnique
  BY DEF KernelInv
<1> QED BY <1>1, KernelInvariant, PTL

(* proc_free gives up memory and process slot together.                    *)
THEOREM MemoryAlwaysOwned == Spec => []MemoryOwned
<1>1. KernelInv => MemoryOwned
  BY DEF KernelInv
<1> QED BY <1>1, KernelInvariant, PTL

-----------------------------------------------------------------------------
(* What one step of the kernel may never do to a process that waits: the   *)
(* action properties of Grass.  Both follow from KernelInv: the searches   *)
(* by pid find the one slot they mean.                                     *)

(* the step of DeliveryAddressed *)
Addressed ==
    \A i \in Slots :
        /\ i # proc_curr_idx
        /\ status[i] \notin {"UNUSED", "LOADING"}
        /\ sc'[pid[i]] # sc[pid[i]]
        => /\ status[i] = "WAIT_TO_RECV" /\ status'[i] \in Schedulable
           /\ sc'[pid[i]].msg = sc'[curr_pid].msg
           /\ sc'[pid[i]].msg.sender = curr_pid
           /\ sc'[pid[i]].msg.receiver = pid[i]

(* the step of SendReleased *)
Released ==
    \A i \in Slots :
        status[i] = "WAIT_TO_SEND" /\ status'[i] # "WAIT_TO_SEND"
        => \/ status'[i] = "UNUSED"
           \/ receiver_pid[i] = curr_pid /\ sc'[curr_pid].msg = sc[pid[i]].msg
           \/ pid[i] = GPID_SHELL /\ curr_pid >= GPID_USER_START

(* the same when nobody is killed *)
Completed ==
    \A i \in Slots :
        status[i] = "WAIT_TO_SEND" /\ status'[i] # "WAIT_TO_SEND"
        => \/ status'[i] = "UNUSED"
           \/ receiver_pid[i] = curr_pid /\ sc'[curr_pid].msg = sc[pid[i]].msg

LEMMA CompletedReleased ==
    ASSUME Completed
    PROVE  Released
BY DEF Completed, Released

(* A step that writes no syscall area of another process that exists, and  *)
(* ends no wait to send but by freeing the slot, does neither wrong.       *)
LEMMA NothingDelivered ==
    ASSUME \A i \in Slots : i # proc_curr_idx /\ status[i] \notin {"UNUSED", "LOADING"} =>
              sc'[pid[i]] = sc[pid[i]],
           \A i \in Slots : status[i] = "WAIT_TO_SEND" => status'[i] \in {"WAIT_TO_SEND", "UNUSED"}
    PROVE  Addressed /\ Completed
BY DEF Addressed, Completed

(* A receive writes the receiver's own area and releases one sender to it. *)
LEMMA RecvDelivers ==
    ASSUME KernelInv, fatal = "none", pid' = pid,
           NEW m \in [Pids -> Syscall], \A p \in Pids : m[p].msg = sc[p].msg,
           \A p \in Pids \ {vm} : m[p] = sc[p], proc_recv(m)
    PROVE  Addressed /\ Completed
<1> USE Current
<1>0. /\ pid \in [Slots -> Pids] /\ status \in [Slots -> Status] /\ TypeOK /\ PidsUnique
      /\ \A i \in Slots : status[i] = "RUNNING" => i = proc_curr_idx
      /\ \A i \in Slots : pid[i] = 0 => status[i] = "UNUSED"
  BY DEF KernelInv, TypeOK, RunningIsCurrent
<1>1. CASE sc' = m /\ proc_yield([status EXCEPT ![proc_curr_idx] = "WAIT_TO_RECV"])
  <2> DEFINE st == [status EXCEPT ![proc_curr_idx] = "WAIT_TO_RECV"]
  <2>1. /\ st \in [Slots -> Status]
        /\ \A i \in Slots : st[i] = IF i = proc_curr_idx THEN "WAIT_TO_RECV" ELSE status[i]
    BY <1>0 DEF Status
  <2>2. proc_yield(st)
    BY <1>1
  <2> HIDE DEF st
  <2>3. \A i \in Slots : \/ status'[i] = st[i]
                         \/ status'[i] \in Schedulable /\ st[i] \in Schedulable
    BY <1>0, <2>1, <2>2, YieldEffect, SMT
  <2>4. \A i \in Slots : status[i] = "WAIT_TO_SEND" => status'[i] = "WAIT_TO_SEND"
    BY <2>1, <2>3 DEF Schedulable
  <2> QED BY <1>0, <1>1, <2>4, NothingDelivered
<1>2. ASSUME NEW i \in Slots, Sending(i),
             sc' = CopyMsg(m, pid[i], curr_pid),
             proc_yield(proc_set_status(status, pid[i], "RUNNABLE"))
      PROVE  Addressed /\ Completed
  <2> DEFINE st == proc_set_status(status, pid[i], "RUNNABLE")
  <2>1. pid[i] # 0 /\ pid[i] \in Pids /\ \A j \in Slots : pid[j] = pid[i] <=> j = i
    BY <1>0, <1>2 DEF PidsUnique, Sending
  <2>2. /\ st \in [Slots -> Status]
        /\ \A j \in Slots : st[j] = IF j = i THEN "RUNNABLE" ELSE status[j]
    BY <1>0, <2>1 DEF proc_set_status, Status
  <2>3. proc_yield(st)
    BY <1>2
  <2> HIDE DEF st
  <2>4. \A j \in Slots : /\ st[j] = "RUNNING" => j = proc_curr_idx
                         /\ pid[j] = 0 => st[j] = "UNUSED"
    BY <1>0, <2>1, <2>2
  <2>5. \A j \in Slots : \/ status'[j] = st[j]
                         \/ status'[j] \in Schedulable /\ st[j] \in Schedulable
    BY <1>0, <2>2, <2>3, <2>4, YieldEffect
  <2>6. \A j \in Slots \ {i} : status[j] = "WAIT_TO_SEND" => status'[j] = "WAIT_TO_SEND"
    BY <2>2, <2>5 DEF Schedulable
  <2>7. sc'[curr_pid].msg = sc[pid[i]].msg /\ \A p \in Pids \ {vm} : sc'[p] = sc[p]
    BY <1>2, <2>1 DEF CopyMsg, mmu_switch, Syscall
  <2>8. Addressed
    BY <1>0, <2>7 DEF Addressed
  <2>9. Completed
    BY <1>2, <2>6, <2>7 DEF Completed, Sending
  <2> QED BY <2>8, <2>9
<1> QED BY <1>1, <1>2 DEF proc_recv

(* A send writes the area of the process it is addressed to, if it waits.   *)
LEMMA SendDelivers ==
    ASSUME KernelInv, fatal = "none", pid' = pid,
           NEW m \in [Pids -> Syscall], \A p \in Pids \ {vm} : m[p] = sc[p], proc_send(m)
    PROVE  Addressed /\ Completed
<1> USE Current
<1> DEFINE m1 == StampSender(m)
           q == m1[vm].msg.receiver
<1>0. /\ pid \in [Slots -> Pids] /\ status \in [Slots -> Status] /\ TypeOK /\ PidsUnique
      /\ \A i \in Slots : status[i] = "RUNNING" => i = proc_curr_idx
      /\ \A i \in Slots : pid[i] = 0 => status[i] = "UNUSED"
  BY DEF KernelInv, TypeOK, RunningIsCurrent
<1>1. m1 \in [Pids -> Syscall]
  BY SyscallFields, ZenonT(30) DEF StampSender
<1>2. /\ m1[vm].msg.sender = curr_pid
      /\ \A p \in Pids \ {vm} : m1[p] = sc[p]
  BY SMT DEF StampSender, Syscall, Msg
<1>3. q \in Pids
  BY <1>1 DEF Syscall, Msg
<1> HIDE DEF m1
<1>4. CASE sc' = [m1 EXCEPT ![vm].retval = -1] /\ UNCHANGED status
  <2>1. \A p \in Pids \ {vm} : sc'[p] = sc[p]
    BY <1>1, <1>2, <1>4
  <2> QED BY <1>0, <1>4, <2>1, NothingDelivered
<1>5. CASE sc' = m1 /\ proc_yield([status EXCEPT ![proc_curr_idx] = "WAIT_TO_SEND"])
  <2> DEFINE st == [status EXCEPT ![proc_curr_idx] = "WAIT_TO_SEND"]
  <2>1. /\ st \in [Slots -> Status]
        /\ \A i \in Slots : st[i] = IF i = proc_curr_idx THEN "WAIT_TO_SEND" ELSE status[i]
    BY <1>0 DEF Status
  <2>2. proc_yield(st)
    BY <1>5
  <2> HIDE DEF st
  <2>3. \A i \in Slots : \/ status'[i] = st[i]
                         \/ status'[i] \in Schedulable /\ st[i] \in Schedulable
    BY <1>0, <2>1, <2>2, YieldEffect, SMT
  <2>4. \A i \in Slots : status[i] = "WAIT_TO_SEND" => status'[i] = "WAIT_TO_SEND"
    BY <2>1, <2>3 DEF Schedulable
  <2> QED BY <1>0, <1>2, <1>5, <2>4, NothingDelivered
<1>6. ASSUME NEW i \in Slots, pid[i] = q, Receiving(i),
             sc' = CopyMsg(m1, curr_pid, q),
             proc_yield(proc_set_status(status, q, "RUNNABLE"))
      PROVE  Addressed /\ Completed
  <2> DEFINE st == proc_set_status(status, q, "RUNNABLE")
  <2>1. q # 0 /\ \A j \in Slots : pid[j] = q <=> j = i
    BY <1>0, <1>6, SMT DEF PidsUnique, Receiving
  <2>2. /\ st \in [Slots -> Status]
        /\ \A j \in Slots : st[j] = IF j = i THEN "RUNNABLE" ELSE status[j]
    BY <1>0, <2>1 DEF proc_set_status, Status
  <2>3. proc_yield(st)
    BY <1>6
  <2> HIDE DEF st
  <2>4. \A j \in Slots : /\ st[j] = "RUNNING" => j = proc_curr_idx
                         /\ pid[j] = 0 => st[j] = "UNUSED"
    BY <1>0, <1>6, <2>1, <2>2
  <2>5. \A j \in Slots : \/ status'[j] = st[j]
                         \/ status'[j] \in Schedulable /\ st[j] \in Schedulable
    BY <1>0, <2>2, <2>3, <2>4, YieldEffect
  <2>6. \A j \in Slots : status[j] = "WAIT_TO_SEND" => status'[j] = "WAIT_TO_SEND"
    BY <1>6, <2>2, <2>5 DEF Receiving, Schedulable
  <2>7. status'[i] \in Schedulable
    BY <2>2, <2>5 DEF Schedulable
  <2>8. /\ sc'[q].msg = m1[curr_pid].msg /\ sc'[curr_pid].msg = m1[curr_pid].msg
        /\ \A p \in Pids \ {vm, q} : sc'[p] = sc[p]
    BY <1>1, <1>2, <1>3, <1>6, ZenonT(30) DEF CopyMsg, mmu_switch, Syscall
  <2>9. Completed
    BY <2>6, SMTT(20) DEF Completed
  <2>10. Addressed
    <3> SUFFICES ASSUME NEW j \in Slots, j # proc_curr_idx, sc'[pid[j]] # sc[pid[j]]
                 PROVE  /\ status[j] = "WAIT_TO_RECV" /\ status'[j] \in Schedulable
                        /\ sc'[pid[j]].msg = sc'[curr_pid].msg
                        /\ sc'[pid[j]].msg.sender = curr_pid
                        /\ sc'[pid[j]].msg.receiver = pid[j]
      BY DEF Addressed
    <3>1. j = i
      BY <1>0, <2>1, <2>8
    <3> QED BY <1>2, <1>6, <2>7, <2>8, <3>1, SMT DEF Receiving
  <2> QED BY <2>9, <2>10
<1> QED BY <1>4, <1>5, <1>6 DEF proc_send, m1

(* proc_syscall, whichever call the syscall area names.                    *)
LEMMA SyscallDelivers ==
    ASSUME KernelInv, fatal = "none", pid' = pid,
           NEW m \in [Pids -> Syscall], \A p \in Pids \ {vm} : m[p] = sc[p],
           m[vm].type # "SYS_SEND" => m[vm].msg = sc[vm].msg,
           proc_syscall(m)
    PROVE  Addressed /\ Completed
<1> DEFINE m1 == [m EXCEPT ![vm].retval = 0, ![vm].type = "SYS_UNUSED"]
<1>0. vm \in Pids
  BY DEF KernelInv, TypeOK
<1>1. /\ m1 \in [Pids -> Syscall] /\ m1[vm].msg = m[vm].msg
      /\ \A p \in Pids \ {vm} : m1[p] = sc[p]
  <2>1. m1 \in [Pids -> Syscall]
    BY <1>0, ZenonT(30) DEF Syscall, SyscallType
  <2>2. m1[vm].msg = m[vm].msg /\ \A p \in Pids \ {vm} : m1[p] = sc[p]
    BY <1>0 DEF Syscall
  <2> QED BY <2>1, <2>2
<1> USE Current
<1> HIDE DEF m1
<1>2. CASE m[vm].type = "SYS_RECV" /\ proc_recv(m1)
  <2>1. \A p \in Pids : m1[p].msg = sc[p].msg
    BY <1>1, <1>2
  <2> QED BY <1>1, <1>2, <2>1, RecvDelivers
<1>3. CASE proc_send(m1)
  BY <1>1, <1>3, SendDelivers
<1>4. CASE sc' = m1 /\ UNCHANGED status
  <2>1. \A i \in Slots : i # proc_curr_idx => sc'[pid[i]] = sc[pid[i]]
    BY <1>1, <1>4 DEF KernelInv, TypeOK
  <2> QED BY <1>4, <2>1, NothingDelivered
<1> QED BY <1>2, <1>3, <1>4 DEF proc_syscall, m1

(* A kill ends no wait to send but the shell's.                            *)
LEMMA KillDelivers ==
    ASSUME KernelInv, fatal = "none", pid' = pid,
           curr_pid >= GPID_USER_START, kill_current
    PROVE  Addressed /\ Released
<1> USE Current
<1> DEFINE st == proc_set_status(proc_set_status(status, curr_pid, "UNUSED"),
                                 GPID_SHELL, "RUNNABLE")
<1>0. /\ status \in [Slots -> Status] /\ TypeOK /\ PidsUnique
      /\ \A i \in Slots : status[i] = "RUNNING" => i = proc_curr_idx
      /\ \A i \in Slots : pid[i] = 0 => status[i] = "UNUSED"
  BY DEF KernelInv, TypeOK, RunningIsCurrent
<1>1. GPID_SHELL # 0
  BY GrassAssumption, SMT DEF GPID_PROCESS
<1>2. /\ st \in [Slots -> Status]
      /\ \A i \in Slots : st[i] = IF pid[i] = GPID_SHELL THEN "RUNNABLE"
                                  ELSE IF i = proc_curr_idx THEN "UNUSED" ELSE status[i]
  BY <1>0 DEF proc_set_status, Status
<1>3. proc_yield(st) /\ UNCHANGED sc
  BY DEF kill_current
<1> HIDE DEF st
<1>4. \A i \in Slots : /\ st[i] = "RUNNING" => i = proc_curr_idx
                       /\ pid[i] = 0 => st[i] = "UNUSED"
  BY <1>0, <1>1, <1>2
<1>5. \A i \in Slots : \/ status'[i] = st[i]
                       \/ status'[i] \in Schedulable /\ st[i] \in Schedulable
  BY <1>0, <1>2, <1>3, <1>4, YieldEffect
<1>6. \A i \in Slots : status[i] = "WAIT_TO_SEND" =>
          pid[i] = GPID_SHELL \/ status'[i] = "WAIT_TO_SEND"
  BY <1>2, <1>5 DEF Schedulable
<1> QED BY <1>3, <1>6 DEF Addressed, Released

(* excp_entry                                                              *)
LEMMA TrapDelivers ==
    ASSUME KernelInv, NEW id, NEW m \in [Pids -> Syscall],
           \A p \in Pids \ {vm} : m[p] = sc[p],
           m[vm].type # "SYS_SEND" => m[vm].msg = sc[vm].msg,
           excp_entry(id, m)
    PROVE  Addressed /\ Released /\ (IsSyscall(id) => Completed)
<1>0. fatal = "none" /\ pid' = pid
  BY DEF excp_entry
<1>1. CASE proc_syscall(m)
  BY <1>0, <1>1, SyscallDelivers, CompletedReleased
<1>2. CASE curr_pid >= GPID_USER_START /\ kill_current /\ ~IsSyscall(id)
  BY <1>0, <1>2, KillDelivers
<1>3. CASE UNCHANGED <<status, sc>>
  BY <1>3, NothingDelivered, CompletedReleased
<1> QED BY <1>1, <1>2, <1>3 DEF excp_entry

(* intr_entry                                                              *)
LEMMA IntrDelivers ==
    ASSUME KernelInv, NEW b \in BOOLEAN, intr_entry(b)
    PROVE  Addressed /\ Released /\ (~b => Completed)
<1>1. CASE b /\ curr_pid >= GPID_USER_START /\ kill_current
  BY <1>1, KillDelivers DEF intr_entry
<1>2. CASE proc_yield(status) /\ UNCHANGED sc
  <2>1. /\ status \in [Slots -> Status] /\ TypeOK /\ PidsUnique
        /\ \A i \in Slots : status[i] = "RUNNING" => i = proc_curr_idx
        /\ \A i \in Slots : pid[i] = 0 => status[i] = "UNUSED"
    BY DEF KernelInv, TypeOK, RunningIsCurrent, intr_entry
  <2>2. \A i \in Slots : \/ status'[i] = status[i]
                         \/ status'[i] \in Schedulable /\ status[i] \in Schedulable
    BY <1>2, <2>1, YieldEffect DEF intr_entry
  <2>3. \A i \in Slots : status[i] = "WAIT_TO_SEND" => status'[i] = "WAIT_TO_SEND"
    BY <2>2 DEF Schedulable
  <2> QED BY <1>2, <2>3, NothingDelivered, CompletedReleased
<1> QED BY <1>1, <1>2 DEF intr_entry

(* Every step of the kernel.                                               *)
LEMMA CallDelivers ==
    ASSUME KernelInv, KernelCall
    PROVE  Addressed /\ Released /\ (ProgramCall => Completed)
<1>0. \A id : IsSyscall(id)
  BY SMT DEF IsSyscall, EXCP_ID_ECALL_M
<1>1. /\ TypeOK /\ pid \in [Slots -> Pids]
      /\ vm \in Pids /\ sc \in [Pids -> Syscall] /\ status \in [Slots -> Status]
  BY GrassAssumption DEF KernelInv, TypeOK
<1>2. ASSUME NEW r \in Pids, NEW c \in Content, sys_send(r, c)
      PROVE  Addressed /\ Completed
  <2> DEFINE m == [sc EXCEPT ![vm].type = "SYS_SEND", ![vm].msg.receiver = r,
                             ![vm].msg.content = c]
  <2>1. m \in [Pids -> Syscall]
    BY <1>1, CallTypes, Zenon
  <2>2. m[vm].type = "SYS_SEND" /\ \A p \in Pids \ {vm} : m[p] = sc[p]
    BY <1>1 DEF Syscall
  <2>3. excp_entry(EXCP_ID_ECALL_S, m)
    BY <1>2 DEF sys_send
  <2> HIDE DEF m
  <2> QED BY <1>0, <2>1, <2>2, <2>3, TrapDelivers, Zenon
<1>3. ASSUME sys_recv PROVE Addressed /\ Completed
  <2> DEFINE m == [sc EXCEPT ![vm].type = "SYS_RECV"]
  <2>1. m \in [Pids -> Syscall]
    BY <1>1, CallTypes, Zenon
  <2>2. m[vm].msg = sc[vm].msg /\ \A p \in Pids \ {vm} : m[p] = sc[p]
    BY <1>1 DEF Syscall
  <2>3. excp_entry(EXCP_ID_ECALL_S, m)
    BY <1>3 DEF sys_recv
  <2> HIDE DEF m
  <2> QED BY <1>0, <2>1, <2>2, <2>3, TrapDelivers, Zenon
<1>4. ASSUME fault PROVE Addressed /\ Completed
  BY <1>0, <1>1, <1>4, TrapDelivers DEF fault
<1>5. ASSUME NEW b \in BOOLEAN, intr_entry(b) PROVE Addressed /\ Released
  BY <1>5, IntrDelivers
<1>6. ASSUME ProcAlloc PROVE Addressed /\ Completed
  <2>1. \A i \in Slots : status[i] = "WAIT_TO_SEND" => status'[i] = "WAIT_TO_SEND"
    BY <1>1, <1>6 DEF ProcAlloc, proc_alloc
  <2> QED BY <1>6, <2>1, NothingDelivered DEF ProcAlloc, proc_alloc
<1>7. ASSUME NEW p \in Pids, ElfLoad(p)
      PROVE  Addressed /\ Completed
  <2>1. \A i \in Slots : status[i] # "LOADING" => pid[i] # p \/ status[i] = "UNUSED"
    BY <1>7 DEF ElfLoad, Loading, KernelInv, PidsUnique
  <2>2. status' = status /\ \A q \in Pids \ {p} : sc'[q] = sc[q]
    BY <1>1, <1>7, SMT DEF ElfLoad, elf_load
  <2> QED BY <1>1, <2>1, <2>2, NothingDelivered
<1>8. ASSUME NEW p \in Pids, ProcReady(p)
      PROVE  Addressed /\ Completed
  <2>1. \A i \in Slots : pid[i] = p => status[i] # "WAIT_TO_SEND"
    BY <1>8 DEF ProcReady, Loading, KernelInv, PidsUnique
  <2>2. /\ sc' = sc
        /\ \A i \in Slots : status'[i] = IF pid[i] = p THEN "READY" ELSE status[i]
    BY <1>8 DEF ProcReady, proc_set_ready, proc_set_status
  <2> QED BY <2>1, <2>2, NothingDelivered
<1>9. ASSUME NEW p \in Pids, ProcFree(p)
      PROVE  Addressed /\ Completed
  <2>1. sc' = sc /\ \A i \in Slots : status'[i] \in {"UNUSED", status[i]}
    BY <1>9 DEF ProcFree, proc_free, proc_set_status
  <2> QED BY <2>1, NothingDelivered
<1>10. ASSUME ProcFreeAll PROVE Addressed /\ Completed
  <2>1. sc' = sc /\ \A i \in Slots : status'[i] \in {"UNUSED", status[i]}
    BY <1>10 DEF ProcFreeAll, proc_free_all
  <2> QED BY <2>1, NothingDelivered
<1>11. ASSUME UNCHANGED <<status, sc>> PROVE Addressed /\ Completed
  BY <1>11, NothingDelivered
<1>12. ProgramCall => Addressed /\ Completed
  BY <1>2, <1>3, <1>4, <1>6, <1>7, <1>8, <1>9, <1>10, <1>11 DEF ProgramCall, Panic, grassVars
<1> QED BY <1>5, <1>12, CompletedReleased DEF KernelCall

-----------------------------------------------------------------------------
(* proc_send writes another process's syscall area only to deliver it the  *)
(* message it waits for, under any number of processes.                    *)
THEOREM DeliveryAlwaysAddressed == Spec => DeliveryAddressed
<1>1. KernelInv /\ [Next]_grassVars => [Addressed]_grassVars
  BY NextCalls, CallDelivers
<1> QED BY <1>1, KernelInvariant, PTL DEF Spec, DeliveryAddressed, Addressed

(* A process blocked in proc_send is let go only by proc_recv of the       *)
(* process it sends to, by proc_free, or, the shell, by a kill.            *)
THEOREM SendAlwaysReleased == Spec => SendReleased
<1>1. KernelInv /\ [Next]_grassVars => [Released]_grassVars
  BY NextCalls, CallDelivers
<1> QED BY <1>1, KernelInvariant, PTL DEF Spec, SendReleased, Released

(* the process in slot i exists *)
Live(i) == status[i] \notin {"UNUSED", "LOADING"}

(* A, T and B are what the refinement mapping makes of the status column   *)
(* st, the receiver_pid column rp and the syscall areas m: slot by slot    *)
(* for the processes that exist, and none for a pid that names no process. *)
Maps(A, T, B, st, rp, m) ==
    /\ A \in [Pids -> {"none", "idle", "sending", "receiving"}]
    /\ T \in [Pids -> Pids]
    /\ B = [p \in Pids |-> B[p]]
    /\ \A i \in Slots : st[i] \notin {"UNUSED", "LOADING"} =>
          /\ A[pid[i]] = AbstractState(st[i])
          /\ T[pid[i]] = IF st[i] = "WAIT_TO_SEND" THEN rp[i] ELSE pid[i]
          /\ B[pid[i]] = m[pid[i]].msg
    /\ \A p \in Pids : (\A i \in Slots : pid[i] = p => st[i] \in {"UNUSED", "LOADING"}) =>
          A[p] = "none" /\ T[p] = p /\ B[p] = NullMsg

Mapping == Maps(absState, absTarget, absBox, status, receiver_pid, sc)

(* The mapping of Grass is that relation: a live pid has one slot.         *)
LEMMA MappingHolds == KernelInv => Mapping
<1> SUFFICES ASSUME KernelInv PROVE Mapping
  OBVIOUS
<1>0. /\ pid \in [Slots -> Pids] /\ status \in [Slots -> Status]
      /\ receiver_pid \in [Slots -> Pids]
      /\ \A i \in Slots : Live(i) => pid[i] # 0
  BY DEF KernelInv, TypeOK, Live
<1>1. ASSUME NEW i \in Slots, Live(i)
      PROVE  /\ absState[pid[i]] = AbstractState(status[i])
             /\ absTarget[pid[i]] = IF status[i] = "WAIT_TO_SEND" THEN receiver_pid[i] ELSE pid[i]
             /\ absBox[pid[i]] = sc[pid[i]].msg
             /\ AbstractState(status[i]) \in {"idle", "sending", "receiving"}
  <2>1. SlotOf(pid[i]) = {i}
    BY <1>0, <1>1 DEF SlotOf, Live, KernelInv, PidsUnique
  <2>2. (CHOOSE j \in SlotOf(pid[i]) : TRUE) = i
    BY <2>1
  <2>3. absState[pid[i]] = AbstractState(status[i])
    BY <1>0, <2>1, <2>2 DEF absState
  <2>4. /\ AbstractState(status[i]) \in {"idle", "sending", "receiving"}
        /\ AbstractState(status[i]) = "sending" <=> status[i] = "WAIT_TO_SEND"
    BY <1>0, <1>1 DEF AbstractState, Live, Status, Schedulable
  <2>5. absTarget[pid[i]] = IF status[i] = "WAIT_TO_SEND" THEN receiver_pid[i] ELSE pid[i]
    BY <1>0, <2>2, <2>3, <2>4, SMT DEF absTarget
  <2>6. absBox[pid[i]] = sc[pid[i]].msg
    BY <1>0, <2>3, <2>4 DEF absBox
  <2> QED BY <2>3, <2>4, <2>5, <2>6
<1>2. ASSUME NEW p \in Pids, \A i \in Slots : pid[i] = p => ~Live(i)
      PROVE  absState[p] = "none" /\ absTarget[p] = p /\ absBox[p] = NullMsg
  <2>1. SlotOf(p) = {}
    BY <1>2 DEF SlotOf, Live
  <2>2. absState[p] = "none"
    BY <2>1 DEF absState
  <2> QED BY <2>2 DEF absTarget, absBox
<1>3. absState \in [Pids -> {"none", "idle", "sending", "receiving"}]
  <2>1. \A p \in Pids : absState[p] \in {"none", "idle", "sending", "receiving"}
    BY <1>1, <1>2, SMT
  <2> QED BY <2>1 DEF absState
<1>4. absTarget \in [Pids -> Pids]
  <2>1. \A p \in Pids : absTarget[p] \in Pids
    BY <1>0, <1>1, <1>2, SMT
  <2> QED BY <2>1 DEF absTarget
<1>5. absBox = [p \in Pids |-> absBox[p]]
  BY DEF absBox
<1> QED BY <1>1, <1>2, <1>3, <1>4, <1>5 DEF Mapping, Maps, Live

(* The same in the state after a step.                                     *)
LEMMA MappingHoldsAfter == KernelInv' => Mapping'
BY MappingHolds, PTL

(* The mapping does not tell apart the statuses proc_yield moves between.  *)
LEMMA YieldMaps ==
    ASSUME KernelInv, KernelInv', fatal = "none", pid' = pid,
           NEW st \in [Slots -> Status],
           \A i \in Slots : st[i] = "RUNNING" => i = proc_curr_idx,
           \A i \in Slots : pid[i] = 0 => st[i] = "UNUSED",
           proc_yield(st)
    PROVE  Maps(absState', absTarget', absBox', st, receiver_pid', sc')
<1>1. \A i \in Slots : \/ status'[i] = st[i]
                       \/ status'[i] \in Schedulable /\ st[i] \in Schedulable
  BY YieldEffect DEF KernelInv
<1>2. \A i \in Slots : /\ status'[i] \in {"UNUSED", "LOADING"} <=> st[i] \in {"UNUSED", "LOADING"}
                       /\ status'[i] = "WAIT_TO_SEND" <=> st[i] = "WAIT_TO_SEND"
                       /\ AbstractState(status'[i]) = AbstractState(st[i])
  BY <1>1, Zenon DEF Schedulable, AbstractState
<1>3. Maps(absState', absTarget', absBox', status', receiver_pid', sc')
  BY MappingHoldsAfter DEF Mapping, Maps
<1> QED BY <1>2, <1>3, SMT DEF Maps

(* What the mapping makes of the process in slot i, before a step ...      *)
LEMMA MapsSlot ==
    ASSUME Maps(absState, absTarget, absBox, status, receiver_pid, sc), NEW i \in Slots
    PROVE  /\ status[i] \in Schedulable =>
                absState[pid[i]] = "idle" /\ absTarget[pid[i]] = pid[i]
           /\ status[i] = "WAIT_TO_SEND" =>
                absState[pid[i]] = "sending" /\ absTarget[pid[i]] = receiver_pid[i]
           /\ status[i] = "WAIT_TO_RECV" =>
                absState[pid[i]] = "receiving" /\ absTarget[pid[i]] = pid[i]
           /\ status[i] \notin {"UNUSED", "LOADING"} => absBox[pid[i]] = sc[pid[i]].msg
BY DEF Maps, AbstractState, Schedulable

(* ... and after a step that leaves the columns st, rp and m.              *)
LEMMA MapsSlotAfter ==
    ASSUME NEW st, NEW rp, NEW m, Maps(absState', absTarget', absBox', st, rp, m),
           NEW i \in Slots
    PROVE  /\ st[i] \in Schedulable =>
                absState'[pid[i]] = "idle" /\ absTarget'[pid[i]] = pid[i]
           /\ st[i] = "WAIT_TO_SEND" =>
                absState'[pid[i]] = "sending" /\ absTarget'[pid[i]] = rp[i]
           /\ st[i] = "WAIT_TO_RECV" =>
                absState'[pid[i]] = "receiving" /\ absTarget'[pid[i]] = pid[i]
           /\ st[i] \notin {"UNUSED", "LOADING"} => absBox'[pid[i]] = m[pid[i]].msg
BY DEF Maps, AbstractState, Schedulable

(* The abstract variables are functions of the pids.                       *)
AreFunctions ==
    /\ absState = [p \in Pids |-> absState[p]]
    /\ absTarget = [p \in Pids |-> absTarget[p]]
    /\ absBox = [p \in Pids |-> absBox[p]]

LEMMA MapsFunctions ==
    ASSUME Maps(absState, absTarget, absBox, status, receiver_pid, sc),
           NEW st, NEW rp, NEW m, Maps(absState', absTarget', absBox', st, rp, m)
    PROVE  AreFunctions /\ AreFunctions'
BY SMT DEF Maps, AreFunctions

(* A process that can be scheduled then is idle there.                     *)
LEMMA MapsIdle ==
    ASSUME NEW st, NEW rp, NEW m, Maps(absState', absTarget', absBox', st, rp, m),
           NEW i \in Slots, st[i] \in Schedulable
    PROVE  /\ absState'[pid[i]] = "idle" /\ absTarget'[pid[i]] = pid[i]
           /\ absBox'[pid[i]] = m[pid[i]].msg
<1>1. st[i] \notin {"UNUSED", "LOADING"}
  BY DEF Schedulable
<1> QED BY <1>1, MapsSlotAfter, SMT

(* The mapping of a pid depends on its own slot and syscall area alone.    *)
LEMMA MapsSame ==
    ASSUME Maps(absState, absTarget, absBox, status, receiver_pid, sc),
           NEW st, NEW rp, NEW m, Maps(absState', absTarget', absBox', st, rp, m),
           NEW p \in Pids, m[p].msg = sc[p].msg,
           \A i \in Slots : pid[i] = p => st[i] = status[i] /\ rp[i] = receiver_pid[i]
    PROVE  absState'[p] = absState[p] /\ absTarget'[p] = absTarget[p] /\ absBox'[p] = absBox[p]
<1>1. CASE \E i \in Slots : pid[i] = p /\ status[i] \notin {"UNUSED", "LOADING"}
  BY <1>1, SMT DEF Maps
<1>2. CASE \A i \in Slots : pid[i] = p => status[i] \in {"UNUSED", "LOADING"}
  BY <1>2, SMT DEF Maps
<1> QED BY <1>1, <1>2

(* So a step that leaves the other columns alone, and the status of p.     *)
LEMMA MapsSameStatus ==
    ASSUME Maps(absState, absTarget, absBox, status, receiver_pid, sc),
           NEW st, Maps(absState', absTarget', absBox', st, receiver_pid, sc),
           NEW p \in Pids, \A i \in Slots : pid[i] = p => st[i] = status[i]
    PROVE  absState'[p] = absState[p] /\ absTarget'[p] = absTarget[p] /\ absBox'[p] = absBox[p]
BY MapsSame, SMT

(* A step after which the mapping is still that of the old columns is none *)
(* of Rendezvous.                                                          *)
LEMMA MapsUnique ==
    ASSUME Maps(absState, absTarget, absBox, status, receiver_pid, sc),
           Maps(absState', absTarget', absBox', status, receiver_pid, sc)
    PROVE  UNCHANGED <<absState, absTarget, absBox>>
<1>1. ASSUME NEW p \in Pids
      PROVE  absState'[p] = absState[p] /\ absTarget'[p] = absTarget[p] /\ absBox'[p] = absBox[p]
  BY MapsSame
<1> QED BY <1>1, SMT DEF Maps

(* A step that leaves the table and the messages alone is no step there.   *)
LEMMA SameTable ==
    ASSUME KernelInv, KernelInv', UNCHANGED <<pid, status, receiver_pid>>,
           \A p \in Pids : sc'[p].msg = sc[p].msg
    PROVE  UNCHANGED <<absState, absTarget, absBox>>
<1>1. Maps(absState, absTarget, absBox, status, receiver_pid, sc)
  BY MappingHolds DEF Mapping
<1>2. Maps(absState', absTarget', absBox', status, receiver_pid, sc')
  BY MappingHoldsAfter DEF Mapping, Maps
<1>3. \A p \in Pids : /\ absState'[p] = absState[p] /\ absTarget'[p] = absTarget[p]
                      /\ absBox'[p] = absBox[p]
  BY <1>1, <1>2, MapsSame, SMT
<1> QED BY <1>1, <1>2, <1>3, SMT DEF Maps

(* A receive blocks, or takes the message of a process that sends to it.   *)
LEMMA RecvRefines ==
    ASSUME KernelInv, KernelInv', fatal = "none", pid' = pid,
           NEW m \in [Pids -> Syscall], \A p \in Pids : m[p].msg = sc[p].msg,
           proc_recv(m)
    PROVE  IPC!RecvBlocks(curr_pid) \/ \E q \in Pids : IPC!RecvTakes(curr_pid, q)
<1> USE Current
<1>0. /\ receiver_pid \in [Slots -> Pids] /\ pid \in [Slots -> Pids]
      /\ status \in [Slots -> Status] /\ sc \in [Pids -> Syscall]
      /\ \A i \in Slots : status[i] = "RUNNING" => i = proc_curr_idx
      /\ \A i \in Slots : pid[i] = 0 => status[i] = "UNUSED"
  BY DEF KernelInv, TypeOK, RunningIsCurrent
<1>1. Maps(absState, absTarget, absBox, status, receiver_pid, sc)
  BY MappingHolds DEF Mapping
<1>2. absState[curr_pid] = "idle" /\ absTarget[curr_pid] = curr_pid
      /\ absBox[curr_pid] = sc[curr_pid].msg
  BY <1>1, MapsSlot DEF Schedulable, curr_pid
<1>3. CASE /\ \A i \in Slots : ~Sending(i)
           /\ sc' = m
           /\ proc_yield([status EXCEPT ![proc_curr_idx] = "WAIT_TO_RECV"])
           /\ UNCHANGED receiver_pid
  <2> DEFINE st == [status EXCEPT ![proc_curr_idx] = "WAIT_TO_RECV"]
  <2>1. /\ st \in [Slots -> Status]
        /\ \A i \in Slots : st[i] = IF i = proc_curr_idx THEN "WAIT_TO_RECV" ELSE status[i]
    BY <1>0 DEF Status
  <2>2. proc_yield(st)
    BY <1>3
  <2> HIDE DEF st
  <2>3. \A i \in Slots : /\ st[i] = "RUNNING" => i = proc_curr_idx
                         /\ pid[i] = 0 => st[i] = "UNUSED"
    BY <1>0, <2>1 DEF curr_pid
  <2>4. Maps(absState', absTarget', absBox', st, receiver_pid, m)
    BY <1>3, <2>1, <2>2, <2>3, YieldMaps
  <2>5. /\ absState'[curr_pid] = "receiving" /\ absTarget'[curr_pid] = curr_pid
        /\ absBox'[curr_pid] = absBox[curr_pid]
    BY <1>1, <1>2, <2>1, <2>4, MapsSlotAfter, SMT DEF curr_pid
  <2>6. ASSUME NEW p \in Pids, p # curr_pid
        PROVE  absState'[p] = absState[p] /\ absTarget'[p] = absTarget[p] /\ absBox'[p] = absBox[p]
    <3>1. \A i \in Slots : pid[i] = p => st[i] = status[i]
      BY <2>1, <2>6 DEF curr_pid
    <3> QED BY <1>1, <2>4, <3>1, MapsSame, SMT
  <2>7. ASSUME NEW q \in Pids, absState[q] = "sending", absTarget[q] = curr_pid
        PROVE  FALSE
    <3>1. PICK i \in Slots : pid[i] = q /\ status[i] \notin {"UNUSED", "LOADING"}
      BY <1>1, <2>7 DEF Maps
    <3>2. Sending(i)
      BY <1>0, <1>1, <2>7, <3>1, MapsSlot, SMT DEF Sending, Status, Schedulable
    <3> QED BY <1>3, <3>2
  <2>8. /\ absState' = [absState EXCEPT ![curr_pid] = "receiving"]
        /\ absTarget' = absTarget /\ absBox' = absBox
    BY <1>1, <1>2, <2>4, <2>5, <2>6, SMT DEF Maps
  <2> QED BY <1>2, <2>7, <2>8 DEF IPC!RecvBlocks
<1>4. ASSUME NEW i \in Slots, Sending(i),
             sc' = CopyMsg(m, pid[i], curr_pid),
             proc_yield(proc_set_status(status, pid[i], "RUNNABLE")),
             UNCHANGED receiver_pid
      PROVE  IPC!RecvTakes(curr_pid, pid[i])
  <2> DEFINE st == proc_set_status(status, pid[i], "RUNNABLE")
  <2>1. pid[i] # 0 /\ pid[i] \in Pids /\ \A j \in Slots : pid[j] = pid[i] <=> j = i
    BY <1>0, <1>4 DEF KernelInv, PidsUnique, Sending
  <2>2. /\ st \in [Slots -> Status]
        /\ \A j \in Slots : st[j] = IF j = i THEN "RUNNABLE" ELSE status[j]
    BY <1>0, <2>1 DEF proc_set_status, Status
  <2>3. proc_yield(st)
    BY <1>4
  <2> HIDE DEF st
  <2>4. \A j \in Slots : /\ st[j] = "RUNNING" => j = proc_curr_idx
                         /\ pid[j] = 0 => st[j] = "UNUSED"
    BY <1>0, <2>1, <2>2
  <2>5. Maps(absState', absTarget', absBox', st, receiver_pid, sc')
    BY <1>4, <2>2, <2>3, <2>4, YieldMaps
  <2>6. \A p \in Pids : sc'[p].msg = IF p = curr_pid THEN sc[pid[i]].msg ELSE sc[p].msg
    BY <1>4, <2>1 DEF CopyMsg, mmu_switch, Syscall
  <2>7. /\ absState[pid[i]] = "sending" /\ absTarget[pid[i]] = curr_pid
        /\ absBox[pid[i]] = sc[pid[i]].msg
    BY <1>1, <1>4, MapsSlot DEF Sending
  <2>8. /\ absState'[pid[i]] = "idle" /\ absTarget'[pid[i]] = pid[i]
        /\ pid[i] # curr_pid /\ absBox'[pid[i]] = absBox[pid[i]]
    <3>1. st[i] \in Schedulable
      BY <2>2 DEF Schedulable
    <3>2. absState'[pid[i]] = "idle" /\ absTarget'[pid[i]] = pid[i] /\ absBox'[pid[i]] = sc'[pid[i]].msg
      BY <2>5, <3>1, MapsIdle, SMT
    <3>3. pid[i] # curr_pid
      BY <1>2, <2>7
    <3>4. sc'[pid[i]].msg = sc[pid[i]].msg
      BY <2>1, <2>6, <3>3
    <3> QED BY <2>7, <3>2, <3>3, <3>4
  <2>9. /\ absState'[curr_pid] = "idle" /\ absTarget'[curr_pid] = curr_pid
        /\ absBox'[curr_pid] = absBox[pid[i]]
    <3>1. st[proc_curr_idx] \in Schedulable
      BY <2>2 DEF Schedulable
    <3>2. /\ absState'[curr_pid] = "idle" /\ absTarget'[curr_pid] = curr_pid
          /\ absBox'[curr_pid] = sc'[curr_pid].msg
      BY <2>5, <3>1, MapsIdle, SMT DEF curr_pid
    <3>3. sc'[curr_pid].msg = sc[pid[i]].msg
      BY <2>6
    <3> QED BY <2>7, <3>2, <3>3
  <2>10. ASSUME NEW p \in Pids, p # curr_pid, p # pid[i]
         PROVE  absState'[p] = absState[p] /\ absTarget'[p] = absTarget[p] /\ absBox'[p] = absBox[p]
    <3>1. \A j \in Slots : pid[j] = p => st[j] = status[j]
      BY <2>1, <2>2, <2>10
    <3> QED BY <1>1, <2>5, <2>6, <2>10, <3>1, MapsSame, SMT
  <2>11. /\ absState' = [absState EXCEPT ![pid[i]] = "idle"]
         /\ absTarget' = [absTarget EXCEPT ![pid[i]] = pid[i]]
         /\ absBox' = [absBox EXCEPT ![curr_pid] = absBox[pid[i]]]
    BY <1>1, <1>2, <2>1, <2>5, <2>8, <2>9, <2>10, SMT DEF Maps
  <2> QED BY <1>2, <2>7, <2>11 DEF IPC!RecvTakes
<1> QED BY <1>0, <1>3, <1>4 DEF proc_recv

(* The message proc_send passes on is from the current process and the     *)
(* only one that differs from what the mailboxes held.                     *)
LEMMA Stamped ==
    ASSUME NEW m \in [Pids -> Syscall], vm = curr_pid, vm \in Pids
    PROVE  /\ StampSender(m) \in [Pids -> Syscall]
           /\ StampSender(m)[vm].msg =
                IPC!MessageTo(curr_pid, m[vm].msg.receiver, m[vm].msg.content)
           /\ m[vm].msg.receiver \in Pids /\ m[vm].msg.content \in Content
           /\ StampSender(m)[vm].msg.receiver = m[vm].msg.receiver
           /\ \A p \in Pids \ {vm} : StampSender(m)[p] = m[p]
<1>1. StampSender(m) \in [Pids -> Syscall]
  BY SyscallFields, ZenonT(30) DEF StampSender
<1> QED BY <1>1, SMT DEF StampSender, Syscall, Msg, IPC!MessageTo

(* a send of the current process, to q *)
SendStep(q, c) ==
    LET g == IPC!MessageTo(curr_pid, q, c)
    IN  IPC!SendBlocks(curr_pid, q, g) \/ IPC!SendDelivers(curr_pid, q, g)
          \/ IPC!SendFails(curr_pid, q, g)

(* A send fails, blocks, or delivers to a process that receives.           *)
LEMMA SendRefines ==
    ASSUME KernelInv, KernelInv', fatal = "none", pid' = pid,
           NEW m \in [Pids -> Syscall], \A p \in Pids \ {vm} : m[p].msg = sc[p].msg,
           proc_send(m)
    PROVE  SendStep(m[vm].msg.receiver, m[vm].msg.content)
<1> USE Current
<1> DEFINE m1 == StampSender(m)
           q == m[vm].msg.receiver
           c == m[vm].msg.content
           g == IPC!MessageTo(curr_pid, q, c)
<1>0. /\ receiver_pid \in [Slots -> Pids] /\ pid \in [Slots -> Pids]
      /\ status \in [Slots -> Status] /\ sc \in [Pids -> Syscall]
      /\ \A i \in Slots : status[i] = "RUNNING" => i = proc_curr_idx
      /\ \A i \in Slots : pid[i] = 0 => status[i] = "UNUSED"
  BY DEF KernelInv, TypeOK, RunningIsCurrent
<1>1. Maps(absState, absTarget, absBox, status, receiver_pid, sc)
  BY MappingHolds DEF Mapping
<1>2. absState[curr_pid] = "idle" /\ absTarget[curr_pid] = curr_pid
  BY <1>1, MapsSlot DEF Schedulable, curr_pid
<1>3. /\ q \in Pids /\ c \in Content
      /\ m1 \in [Pids -> Syscall] /\ m1[vm].msg = g /\ m1[vm].msg.receiver = q
      /\ \A p \in Pids \ {vm} : m1[p].msg = sc[p].msg
  BY Stamped
<1> HIDE DEF m1, q, c, g
<1>4. CASE /\ \A i \in Slots : pid[i] # q
           /\ sc' = [m1 EXCEPT ![vm].retval = -1]
           /\ UNCHANGED <<status, receiver_pid, proc_curr_idx, vm, fatal>>
  <2>1. Maps(absState', absTarget', absBox', status, receiver_pid, sc')
    BY <1>4, MappingHoldsAfter, SMT DEF Mapping, Maps
  <2>2. \A p \in Pids : sc'[p].msg = IF p = curr_pid THEN g ELSE sc[p].msg
    <3>1. \A p \in Pids : sc'[p].msg = m1[p].msg
      BY <1>3, <1>4, SMT DEF Syscall
    <3> QED BY <1>3, <3>1
  <2>3. /\ absState'[curr_pid] = absState[curr_pid] /\ absTarget'[curr_pid] = absTarget[curr_pid]
        /\ absBox'[curr_pid] = g
    BY <1>2, <2>1, <2>2, MapsSlotAfter, SMTT(30) DEF Schedulable, curr_pid
  <2>4. ASSUME NEW p \in Pids, p # curr_pid
        PROVE  absState'[p] = absState[p] /\ absTarget'[p] = absTarget[p] /\ absBox'[p] = absBox[p]
    BY <1>1, <2>1, <2>2, <2>4, MapsSame, SMT
  <2>5. absState' = absState /\ absTarget' = absTarget /\ absBox' = [absBox EXCEPT ![curr_pid] = g]
    BY <1>1, <2>1, <2>3, <2>4, SMT DEF Maps
  <2>6. absState[q] = "none"
    BY <1>1, <1>3, <1>4, SMT DEF Maps
  <2>7. IPC!SendFails(curr_pid, q, g)
    BY <1>2, <2>5, <2>6 DEF IPC!SendFails
  <2> QED BY <2>7 DEF SendStep, g, q, c
<1>5. ASSUME NEW i \in Slots, pid[i] = q, ~Receiving(i),
             receiver_pid' = [receiver_pid EXCEPT ![proc_curr_idx] = q],
             sc' = m1,
             proc_yield([status EXCEPT ![proc_curr_idx] = "WAIT_TO_SEND"])
      PROVE  SendStep(q, c)
  <2> DEFINE st == [status EXCEPT ![proc_curr_idx] = "WAIT_TO_SEND"]
  <2>1. /\ st \in [Slots -> Status]
        /\ \A j \in Slots : st[j] = IF j = proc_curr_idx THEN "WAIT_TO_SEND" ELSE status[j]
        /\ \A j \in Slots : receiver_pid'[j] = IF j = proc_curr_idx THEN q ELSE receiver_pid[j]
    BY <1>0, <1>5 DEF Status
  <2>2. proc_yield(st)
    BY <1>5
  <2> HIDE DEF st
  <2>3. \A j \in Slots : /\ st[j] = "RUNNING" => j = proc_curr_idx
                         /\ pid[j] = 0 => st[j] = "UNUSED"
    BY <1>0, <2>1 DEF curr_pid
  <2>4. Maps(absState', absTarget', absBox', st, receiver_pid', sc')
    BY <2>1, <2>2, <2>3, YieldMaps
  <2>5. /\ absState'[curr_pid] = "sending" /\ absTarget'[curr_pid] = q
        /\ absBox'[curr_pid] = g
    <3>1. st[proc_curr_idx] = "WAIT_TO_SEND" /\ receiver_pid'[proc_curr_idx] = q
      BY <2>1
    <3>2. sc'[curr_pid].msg = g
      BY <1>3, <1>5
    <3> QED BY <2>4, <3>1, <3>2, MapsSlotAfter, SMT DEF curr_pid
  <2>6. ASSUME NEW p \in Pids, p # curr_pid
        PROVE  absState'[p] = absState[p] /\ absTarget'[p] = absTarget[p] /\ absBox'[p] = absBox[p]
    <3>1. \A j \in Slots : pid[j] = p => st[j] = status[j] /\ receiver_pid'[j] = receiver_pid[j]
      BY <2>1, <2>6 DEF curr_pid
    <3>2. sc'[p].msg = sc[p].msg
      BY <1>3, <1>5, <2>6
    <3> QED BY <1>1, <2>4, <3>1, <3>2, MapsSame, SMT
  <2>7. /\ absState' = [absState EXCEPT ![curr_pid] = "sending"]
        /\ absTarget' = [absTarget EXCEPT ![curr_pid] = q]
        /\ absBox' = [absBox EXCEPT ![curr_pid] = g]
    BY <1>1, <2>4, <2>5, <2>6, SMT DEF Maps
  <2>8. absState[q] # "receiving"
    <3>1. ASSUME absState[q] = "receiving" PROVE FALSE
      <4>1. PICK j \in Slots : pid[j] = q /\ status[j] \notin {"UNUSED", "LOADING"}
        BY <1>1, <1>3, <3>1 DEF Maps
      <4>2. status[j] = "WAIT_TO_RECV"
        BY <1>0, <1>1, <3>1, <4>1, MapsSlot, SMT DEF Status, Schedulable
      <4>3. i = j
        BY <1>0, <1>5, <4>1, SMT DEF KernelInv, PidsUnique
      <4> QED BY <1>5, <4>2, <4>3 DEF Receiving
    <3> QED BY <3>1
  <2>9. IPC!SendBlocks(curr_pid, q, g)
    BY <1>2, <2>7, <2>8, SMTT(30) DEF IPC!SendBlocks
  <2> QED BY <2>9 DEF SendStep, g
<1>6. ASSUME NEW i \in Slots, pid[i] = q, Receiving(i),
             sc' = CopyMsg(m1, curr_pid, q),
             proc_yield(proc_set_status(status, q, "RUNNABLE")),
             UNCHANGED receiver_pid
      PROVE  SendStep(q, c)
  <2> DEFINE st == proc_set_status(status, q, "RUNNABLE")
  <2>1. q # 0 /\ \A j \in Slots : pid[j] = q <=> j = i
    BY <1>0, <1>6 DEF KernelInv, PidsUnique, Receiving
  <2>2. /\ st \in [Slots -> Status]
        /\ \A j \in Slots : st[j] = IF j = i THEN "RUNNABLE" ELSE status[j]
    BY <1>0, <2>1 DEF proc_set_status, Status
  <2>3. proc_yield(st)
    BY <1>6
  <2> HIDE DEF st
  <2>4. \A j \in Slots : /\ st[j] = "RUNNING" => j = proc_curr_idx
                         /\ pid[j] = 0 => st[j] = "UNUSED"
    BY <1>0, <1>6, <2>1, <2>2
  <2>5. Maps(absState', absTarget', absBox', st, receiver_pid, sc')
    BY <1>6, <2>2, <2>3, <2>4, YieldMaps
  <2>6. \A p \in Pids : sc'[p].msg = IF p \in {curr_pid, q} THEN g ELSE sc[p].msg
    <3>1. \A p \in Pids : sc'[p].msg = IF p = q THEN m1[curr_pid].msg ELSE m1[p].msg
      BY <1>3, <1>6, SMT DEF CopyMsg, mmu_switch, Syscall
    <3> QED BY <1>3, <3>1
  <2>7. absState[q] = "receiving" /\ absTarget[q] = q /\ q # curr_pid
    <3>1. status[i] = "WAIT_TO_RECV"
      BY <1>6 DEF Receiving
    <3>2. absState[pid[i]] = "receiving" /\ absTarget[pid[i]] = pid[i]
      BY <1>1, <3>1, MapsSlot
    <3> QED BY <1>2, <1>6, <3>2
  <2>8. absState'[q] = "idle" /\ absTarget'[q] = q /\ absBox'[q] = g
    <3>1. st[i] \in Schedulable
      BY <2>2 DEF Schedulable
    <3>2. absState'[pid[i]] = "idle" /\ absTarget'[pid[i]] = pid[i] /\ absBox'[pid[i]] = sc'[pid[i]].msg
      BY <2>5, <3>1, MapsIdle, SMT
    <3>3. pid[i] = q
      BY <1>6
    <3>4. sc'[q].msg = g
      BY <1>3, <2>6
    <3> QED BY <3>2, <3>3, <3>4
  <2>9. absState'[curr_pid] = "idle" /\ absTarget'[curr_pid] = curr_pid /\ absBox'[curr_pid] = g
    <3>1. st[proc_curr_idx] \in Schedulable
      BY <2>2 DEF Schedulable
    <3>2. /\ absState'[curr_pid] = "idle" /\ absTarget'[curr_pid] = curr_pid
          /\ absBox'[curr_pid] = sc'[curr_pid].msg
      BY <2>5, <3>1, MapsIdle, SMT DEF curr_pid
    <3>3. sc'[curr_pid].msg = g
      BY <2>6
    <3> QED BY <3>2, <3>3
  <2>10. ASSUME NEW p \in Pids, p # curr_pid, p # q
         PROVE  absState'[p] = absState[p] /\ absTarget'[p] = absTarget[p] /\ absBox'[p] = absBox[p]
    <3>1. \A j \in Slots : pid[j] = p => st[j] = status[j]
      BY <2>1, <2>2, <2>10
    <3>2. sc'[p].msg = sc[p].msg
      BY <2>6, <2>10
    <3> QED BY <1>1, <2>5, <3>1, <3>2, MapsSame, SMT
  <2>11. /\ absState' = [absState EXCEPT ![q] = "idle"] /\ absTarget' = absTarget
         /\ absBox' = [absBox EXCEPT ![curr_pid] = g, ![q] = g]
    <3>0. AreFunctions /\ AreFunctions'
      BY <1>1, <2>5, MapsFunctions
    <3>1. absState' = [absState EXCEPT ![q] = "idle"]
      BY <1>2, <2>8, <2>9, <2>10, <3>0, SMT DEF AreFunctions
    <3>2. absTarget' = absTarget
      BY <1>2, <2>7, <2>8, <2>9, <2>10, <3>0, SMT DEF AreFunctions
    <3>3. absBox' = [absBox EXCEPT ![curr_pid] = g, ![q] = g]
      BY <2>8, <2>9, <2>10, <3>0 DEF AreFunctions
    <3> QED BY <3>1, <3>2, <3>3
  <2>12. IPC!SendDelivers(curr_pid, q, g)
    BY <1>2, <2>7, <2>11 DEF IPC!SendDelivers
  <2> QED BY <2>12 DEF SendStep, g
<1>7. \/ /\ \A i \in Slots : pid[i] # q
         /\ sc' = [m1 EXCEPT ![vm].retval = -1]
         /\ UNCHANGED <<status, receiver_pid, proc_curr_idx, vm, fatal>>
      \/ \E i \in Slots :
          /\ pid[i] = q
          /\ \/ /\ ~Receiving(i)
                /\ receiver_pid' = [receiver_pid EXCEPT ![proc_curr_idx] = q]
                /\ sc' = m1
                /\ proc_yield([status EXCEPT ![proc_curr_idx] = "WAIT_TO_SEND"])
             \/ /\ Receiving(i)
                /\ sc' = CopyMsg(m1, curr_pid, q)
                /\ proc_yield(proc_set_status(status, q, "RUNNABLE"))
                /\ UNCHANGED receiver_pid
  BY <1>3, Zenon DEF proc_send, m1
<1> QED BY <1>4, <1>5, <1>6, <1>7, Zenon DEF q, c

(* a step of Rendezvous, or none *)
AbstractStep == IPC!RNext \/ UNCHANGED <<absState, absTarget, absBox>>

(* proc_syscall, with the message areas as the processes left them except  *)
(* for that of a sender.                                                   *)
LEMMA SyscallRefines ==
    ASSUME KernelInv, KernelInv', fatal = "none", pid' = pid,
           NEW m \in [Pids -> Syscall], \A p \in Pids \ {vm} : m[p] = sc[p],
           m[vm].type # "SYS_SEND" => m[vm].msg = sc[vm].msg,
           proc_syscall(m)
    PROVE  AbstractStep
<1> DEFINE m1 == [m EXCEPT ![vm].retval = 0, ![vm].type = "SYS_UNUSED"]
<1>0. vm \in Pids
  BY DEF KernelInv, TypeOK
<1>1. m1 \in [Pids -> Syscall] /\ \A p \in Pids : m1[p].msg = m[p].msg
  <2>1. m1 \in [Pids -> Syscall]
    BY <1>0, ZenonT(30) DEF Syscall, SyscallType
  <2>2. \A p \in Pids : m1[p].msg = m[p].msg
    BY <1>0 DEF Syscall
  <2> QED BY <2>1, <2>2
<1> USE Current
<1> HIDE DEF m1
<1>2. CASE m[vm].type = "SYS_RECV" /\ proc_recv(m1)
  <2>1. \A p \in Pids : m1[p].msg = sc[p].msg
    BY <1>1, <1>2
  <2>2. IPC!RecvBlocks(curr_pid) \/ \E q \in Pids : IPC!RecvTakes(curr_pid, q)
    BY <1>1, <1>2, <2>1, RecvRefines
  <2> QED BY <2>2 DEF AbstractStep, IPC!RNext
<1>3. CASE proc_send(m1)
  <2>1. \E q \in Pids, c \in Content : SendStep(q, c)
    <3>1. m1[vm].msg.receiver \in Pids /\ m1[vm].msg.content \in Content
      BY <1>0, <1>1, Stamped
    <3> QED BY <1>1, <1>3, <3>1, SendRefines, SMT
  <2> QED BY <2>1 DEF AbstractStep, IPC!RNext, SendStep
<1>4. CASE /\ m[vm].type \notin {"SYS_RECV", "SYS_SEND"} /\ sc' = m1
           /\ UNCHANGED <<status, receiver_pid, proc_curr_idx, vm>>
  <2>1. \A p \in Pids : sc'[p].msg = sc[p].msg
    BY <1>1, <1>4
  <2> QED BY <1>4, <2>1, SameTable DEF AbstractStep
<1> QED BY <1>2, <1>3, <1>4 DEF proc_syscall, m1

(* A kill ends the current process and releases the shell.                 *)
KillStep ==
    LET R == {p \in Pids \ {curr_pid} : p = GPID_SHELL /\ absState[p] # "none"}
    IN  /\ absState' = [p \in Pids |-> IF p \in {curr_pid} THEN "none"
                                      ELSE IF p \in R THEN "idle" ELSE absState[p]]
        /\ absTarget' = [p \in Pids |-> IF p \in {curr_pid} \union R THEN p ELSE absTarget[p]]
        /\ absBox' = [p \in Pids |-> IF p \in {curr_pid} THEN NullMsg ELSE absBox[p]]

LEMMA KillRefines ==
    ASSUME KernelInv, KernelInv', fatal = "none", pid' = pid,
           curr_pid >= GPID_USER_START, kill_current
    PROVE  AbstractStep /\ KillStep
<1> USE Current
<1> DEFINE st == proc_set_status(proc_set_status(status, curr_pid, "UNUSED"),
                                 GPID_SHELL, "RUNNABLE")
           R == {p \in Pids \ {curr_pid} : p = GPID_SHELL /\ absState[p] # "none"}
<1>0. /\ pid \in [Slots -> Pids] /\ status \in [Slots -> Status] /\ proc_nprocs \in Pids
      /\ \A i \in Slots : /\ status[i] = "RUNNING" => i = proc_curr_idx
                          /\ pid[i] = 0 => status[i] = "UNUSED"
                          /\ pid[i] \in 1..(GPID_USER_START - 1) => status[i] # "UNUSED"
                          /\ status[i] = "LOADING" => pid[i] = proc_nprocs
  BY DEF KernelInv, TypeOK, RunningIsCurrent
<1>1. Maps(absState, absTarget, absBox, status, receiver_pid, sc)
  BY MappingHolds DEF Mapping
<1>2. curr_pid # GPID_SHELL /\ GPID_SHELL # 0 /\ GPID_SHELL \in Pids
  BY GrassAssumption, SMT DEF Pids, GPID_PROCESS
<1>3. /\ st \in [Slots -> Status]
      /\ \A i \in Slots : st[i] = IF pid[i] = GPID_SHELL THEN "RUNNABLE"
                                  ELSE IF pid[i] = curr_pid THEN "UNUSED" ELSE status[i]
  BY <1>0 DEF proc_set_status, Status
<1>4. proc_yield(st) /\ UNCHANGED <<sc, receiver_pid>>
  BY DEF kill_current
<1> HIDE DEF st
<1>5. \A i \in Slots : /\ st[i] = "RUNNING" => i = proc_curr_idx
                       /\ pid[i] = 0 => st[i] = "UNUSED"
  BY <1>0, <1>2, <1>3
<1>6. Maps(absState', absTarget', absBox', st, receiver_pid, sc)
  BY <1>3, <1>4, <1>5, YieldMaps
<1>7. absState[curr_pid] = "idle"
  BY <1>1, MapsSlot DEF Schedulable, curr_pid
<1>8. absState'[curr_pid] = "none" /\ absTarget'[curr_pid] = curr_pid /\ absBox'[curr_pid] = NullMsg
  BY <1>2, <1>3, <1>6 DEF Maps
<1>9. ASSUME NEW i \in Slots, pid[i] = GPID_SHELL
      PROVE  /\ absState'[GPID_SHELL] = "idle" /\ absTarget'[GPID_SHELL] = GPID_SHELL
             /\ absBox'[GPID_SHELL] = absBox[GPID_SHELL] /\ absState[GPID_SHELL] # "none"
  <2>1. status[i] \notin {"UNUSED", "LOADING"}
    <3>1. GPID_SHELL \in 1..(GPID_USER_START - 1) /\ proc_nprocs # GPID_SHELL
      BY <1>0, GrassAssumption, SMT DEF Pids, GPID_PROCESS
    <3> QED BY <1>0, <1>9, <3>1
  <2>2. absState[pid[i]] # "none" /\ absBox[pid[i]] = sc[pid[i]].msg
    BY <1>0, <1>1, <2>1, MapsSlot, SMT DEF Status, Schedulable
  <2>3. st[i] \in Schedulable
    BY <1>3, <1>9 DEF Schedulable
  <2>4. /\ absState'[pid[i]] = "idle" /\ absTarget'[pid[i]] = pid[i]
        /\ absBox'[pid[i]] = sc[pid[i]].msg
    BY <1>6, <2>3, MapsIdle, SMT
  <2> QED BY <1>9, <2>2, <2>4
<1>10. ASSUME \A i \in Slots : pid[i] # GPID_SHELL
       PROVE  absState[GPID_SHELL] = "none"
  BY <1>1, <1>2, <1>10 DEF Maps
<1>11. ASSUME NEW p \in Pids, p # curr_pid, p # GPID_SHELL \/ \A i \in Slots : pid[i] # GPID_SHELL
       PROVE  absState'[p] = absState[p] /\ absTarget'[p] = absTarget[p] /\ absBox'[p] = absBox[p]
  <2>1. \A i \in Slots : pid[i] = p => st[i] = status[i]
    BY <1>3, <1>11
  <2> QED BY <1>1, <1>6, <2>1, MapsSameStatus
<1>12. /\ absState' = [p \in Pids |-> IF p \in {curr_pid} THEN "none"
                                    ELSE IF p \in R THEN "idle" ELSE absState[p]]
       /\ absTarget' = [p \in Pids |-> IF p \in {curr_pid} \union R THEN p ELSE absTarget[p]]
       /\ absBox' = [p \in Pids |-> IF p \in {curr_pid} THEN NullMsg ELSE absBox[p]]
  BY <1>2, <1>6, <1>8, <1>9, <1>10, <1>11, SMT DEF Maps
<1>13. R \in SUBSET {p \in Pids \ {curr_pid} : AbsReleased(p) /\ absState[p] # "none"}
  BY DEF AbsReleased
<1>14. IPC!End({curr_pid})
  BY <1>12, <1>13, Zenon DEF IPC!End
<1>15. AbstractStep
  BY <1>7, <1>14 DEF AbstractStep, IPC!RNext
<1> QED BY <1>12, <1>15, Zenon DEF KillStep

(* An interrupt that kills nothing only reschedules.                       *)
LEMMA IntrRefines ==
    ASSUME KernelInv, KernelInv', NEW b \in BOOLEAN, intr_entry(b)
    PROVE  /\ AbstractStep
           /\ b /\ curr_pid >= GPID_USER_START => KillStep
           /\ ~(b /\ curr_pid >= GPID_USER_START) => UNCHANGED <<absState, absTarget, absBox>>
<1>1. CASE b /\ curr_pid >= GPID_USER_START /\ kill_current
  BY <1>1, KillRefines DEF intr_entry
<1>2. CASE /\ ~(b /\ curr_pid >= GPID_USER_START)
           /\ proc_yield(status) /\ UNCHANGED <<sc, receiver_pid>>
  <2>1. /\ status \in [Slots -> Status]
        /\ \A i \in Slots : status[i] = "RUNNING" => i = proc_curr_idx
        /\ \A i \in Slots : pid[i] = 0 => status[i] = "UNUSED"
    BY DEF KernelInv, TypeOK, RunningIsCurrent, intr_entry
  <2>2. Maps(absState', absTarget', absBox', status, receiver_pid, sc)
    BY <1>2, <2>1, YieldMaps DEF intr_entry
  <2>3. Maps(absState, absTarget, absBox, status, receiver_pid, sc)
    BY MappingHolds DEF Mapping
  <2>4. UNCHANGED <<absState, absTarget, absBox>>
    BY <2>2, <2>3, MapsUnique
  <2> QED BY <1>2, <2>4 DEF AbstractStep
<1> QED BY <1>1, <1>2 DEF intr_entry

(* A slot given to a new pid held no process, and holds none until it is   *)
(* ready.                                                                  *)
LEMMA AllocRefines ==
    ASSUME KernelInv, KernelInv', ProcAlloc
    PROVE  UNCHANGED <<absState, absTarget, absBox>>
<1>1. CASE UNCHANGED <<pid, status, receiver_pid, sc>>
  BY <1>1, SameTable
<1>2. ASSUME NEW k \in Slots, status[k] = "UNUSED",
             pid' = [pid EXCEPT ![k] = NextPid],
             status' = [status EXCEPT ![k] = "LOADING"],
             UNCHANGED <<receiver_pid, sc>>
      PROVE  UNCHANGED <<absState, absTarget, absBox>>
  <2>1. \A i \in Slots : /\ status'[i] = IF i = k THEN "LOADING" ELSE status[i]
                         /\ i # k => pid'[i] = pid[i]
    BY <1>2 DEF KernelInv, TypeOK
  <2>2. Mapping'
    BY MappingHoldsAfter
  <2>3. Maps(absState', absTarget', absBox', status, receiver_pid, sc)
    BY <1>2, <2>1, <2>2, SMT DEF Mapping, Maps
  <2>4. Maps(absState, absTarget, absBox, status, receiver_pid, sc)
    BY MappingHolds DEF Mapping
  <2> QED BY <2>3, <2>4, MapsUnique
<1> QED BY <1>1, <1>2 DEF ProcAlloc, proc_alloc

(* elf_load writes the syscall area of a process that does not exist yet.  *)
LEMMA LoadRefines ==
    ASSUME KernelInv, KernelInv', NEW p \in Pids, ElfLoad(p)
    PROVE  UNCHANGED <<absState, absTarget, absBox>>
<1>1. UNCHANGED <<pid, status, receiver_pid>> /\ \A q \in Pids \ {p} : sc'[q] = sc[q]
  BY DEF ElfLoad, elf_load, KernelInv, TypeOK
<1>2. \A i \in Slots : pid[i] = p => status[i] = "LOADING"
  BY DEF ElfLoad, Loading, KernelInv, PidsUnique
<1>3. Mapping'
  BY MappingHoldsAfter
<1>4. Maps(absState', absTarget', absBox', status, receiver_pid, sc)
  BY <1>1, <1>2, <1>3, SMT DEF Mapping, Maps, KernelInv, TypeOK
<1>5. Maps(absState, absTarget, absBox, status, receiver_pid, sc)
  BY MappingHolds DEF Mapping
<1> QED BY <1>4, <1>5, MapsUnique

(* proc_set_ready starts the process that was loading.                     *)
LEMMA ReadyRefines ==
    ASSUME KernelInv, KernelInv', NEW p \in Pids, ProcReady(p)
    PROVE  IPC!Start(p)
<1>0. /\ UNCHANGED <<pid, receiver_pid, sc>> /\ sc \in [Pids -> Syscall]
      /\ \A i \in Slots : status'[i] = IF pid[i] = p THEN "READY" ELSE status[i]
  BY DEF ProcReady, proc_set_ready, proc_set_status, KernelInv, TypeOK
<1>1. PICK k \in Slots : pid[k] = p /\ status[k] = "LOADING"
  BY DEF ProcReady, Loading
<1>2. \A i \in Slots : pid[i] = p => i = k
  BY <1>1 DEF KernelInv, PidsUnique
<1>3. Maps(absState, absTarget, absBox, status, receiver_pid, sc)
  BY MappingHolds DEF Mapping
<1>4. Maps(absState', absTarget', absBox', status', receiver_pid, sc)
  BY <1>0, MappingHoldsAfter DEF Mapping, Maps
<1>5. absState[p] = "none" /\ absTarget[p] = p
  BY <1>1, <1>2, <1>3, SMTT(20) DEF Maps
<1>6. absState'[p] = "idle" /\ absTarget'[p] = p /\ absBox'[p] = sc[p].msg
  <2>1. status'[k] \in Schedulable
    BY <1>0, <1>1 DEF Schedulable
  <2>2. /\ absState'[pid[k]] = "idle" /\ absTarget'[pid[k]] = pid[k]
        /\ absBox'[pid[k]] = sc[pid[k]].msg
    BY <1>4, <2>1, MapsIdle, SMT
  <2> QED BY <1>1, <2>2
<1>7. ASSUME NEW q \in Pids, q # p
      PROVE  absState'[q] = absState[q] /\ absTarget'[q] = absTarget[q] /\ absBox'[q] = absBox[q]
  <2>1. \A i \in Slots : pid[i] = q => status'[i] = status[i]
    BY <1>0, <1>7
  <2> QED BY <1>3, <1>4, <2>1, MapsSameStatus
<1>8. /\ absState' = [absState EXCEPT ![p] = "idle"] /\ absTarget' = absTarget
      /\ absBox' = [absBox EXCEPT ![p] = sc[p].msg]
  <2>1. AreFunctions /\ AreFunctions'
    BY <1>3, <1>4, MapsFunctions
  <2> QED BY <1>5, <1>6, <1>7, <2>1, SMT DEF AreFunctions
<1>9. sc[p].msg \in Msg
  BY <1>0 DEF Syscall
<1> QED BY <1>5, <1>8, <1>9, ZenonT(30) DEF IPC!Start

(* Both forms of proc_free end the processes they free.                    *)
LEMMA FreeRefines ==
    ASSUME KernelInv, KernelInv', NEW D,
           \A i \in Slots : status'[i] = IF pid[i] \in D THEN "UNUSED" ELSE status[i],
           UNCHANGED <<pid, receiver_pid, sc>>
    PROVE  /\ AbstractStep
           /\ \A p \in Pids : IF p \in D THEN absState'[p] = "none"
                             ELSE /\ absState'[p] = absState[p] /\ absTarget'[p] = absTarget[p]
                                  /\ absBox'[p] = absBox[p]
<1> DEFINE S == {p \in Pids : p \in D /\ absState[p] # "none"}
<1>1. Maps(absState, absTarget, absBox, status, receiver_pid, sc)
  BY MappingHolds DEF Mapping
<1>2. Maps(absState', absTarget', absBox', status', receiver_pid, sc)
  BY MappingHoldsAfter DEF Mapping, Maps
<1>3. ASSUME NEW p \in Pids, p \in D
      PROVE  absState'[p] = "none" /\ absTarget'[p] = p /\ absBox'[p] = NullMsg
  BY <1>2, <1>3, SMTT(20) DEF Maps
<1>4. ASSUME NEW p \in Pids, p \notin D
      PROVE  absState'[p] = absState[p] /\ absTarget'[p] = absTarget[p] /\ absBox'[p] = absBox[p]
  <2>1. \A i \in Slots : pid[i] = p => status'[i] = status[i]
    BY <1>4
  <2> QED BY <1>1, <1>2, <2>1, MapsSameStatus
<1>5. ASSUME NEW p \in Pids, absState[p] = "none"
      PROVE  absTarget[p] = p /\ absBox[p] = NullMsg
  <2>1. \A i \in Slots : pid[i] = p => status[i] \in {"UNUSED", "LOADING"}
    <3>1. status \in [Slots -> Status]
      BY DEF KernelInv, TypeOK
    <3>2. ASSUME NEW i \in Slots, pid[i] = p
          PROVE  status[i] \notin Schedulable \union {"WAIT_TO_SEND", "WAIT_TO_RECV"}
      BY <1>1, <1>5, <3>2, MapsSlot
    <3> QED BY <3>1, <3>2 DEF Status, Schedulable
  <2> QED BY <1>1, <2>1, SMTT(20) DEF Maps
<1>6. /\ absState' = [p \in Pids |-> IF p \in S THEN "none"
                                   ELSE IF p \in {} THEN "idle" ELSE absState[p]]
      /\ absTarget' = [p \in Pids |-> IF p \in S \union {} THEN p ELSE absTarget[p]]
      /\ absBox' = [p \in Pids |-> IF p \in S THEN NullMsg ELSE absBox[p]]
  BY <1>2, <1>3, <1>4, <1>5, SMTT(30) DEF Maps
<1>7. IPC!End(S)
  <2>1. {} \in SUBSET {p \in Pids \ S : AbsReleased(p) /\ absState[p] # "none"}
    OBVIOUS
  <2> QED BY <1>6, <2>1, Zenon DEF IPC!End
<1>8. S \in SUBSET {p \in Pids : absState[p] # "none"}
  OBVIOUS
<1>9. AbstractStep
  BY <1>7, <1>8, Zenon DEF AbstractStep, IPC!RNext
<1> QED BY <1>3, <1>4, <1>9

-----------------------------------------------------------------------------
(* At boot sys_proc exists and no other process does.                      *)
LEMMA InitRefines ==
    ASSUME Init
    PROVE  IPC!RInit
<1> USE GrassAssumption
<1>1. KernelInv /\ Maps(absState, absTarget, absBox, status, receiver_pid, sc)
  BY InitEstablishes, MappingHolds DEF Mapping
<1>2. 0 \in Slots /\ GPID_PROCESS \in Pids
  BY SMT DEF Slots, Pids, GPID_PROCESS
<1>3. /\ pid[0] = GPID_PROCESS /\ status[0] = "RUNNING"
      /\ \A i \in Slots : pid[i] = GPID_PROCESS => i = 0
      /\ \A i \in Slots \ {0} : status[i] = "UNUSED"
  BY <1>2, SMT DEF Init, GPID_PROCESS
<1>4. /\ absState[GPID_PROCESS] = "idle" /\ absTarget[GPID_PROCESS] = GPID_PROCESS
      /\ absBox[GPID_PROCESS] = sc[GPID_PROCESS].msg
  BY <1>1, <1>2, <1>3, MapsSlot DEF Schedulable
<1>5. ASSUME NEW p \in Pids, p # GPID_PROCESS
      PROVE  absState[p] = "none" /\ absTarget[p] = p /\ absBox[p] = NullMsg
  BY <1>1, <1>3, <1>5 DEF Maps
<1>6. sc[GPID_PROCESS].msg \in Msg
  BY <1>1, <1>2 DEF KernelInv, TypeOK, Syscall
<1>7. /\ absState = [q \in Pids |-> IF q = GPID_PROCESS THEN "idle" ELSE "none"]
      /\ absBox = [q \in Pids |-> IF q = GPID_PROCESS THEN sc[GPID_PROCESS].msg ELSE NullMsg]
      /\ absTarget = [q \in Pids |-> q]
  BY <1>1, <1>4, <1>5, SMT DEF Maps
<1> QED BY <1>2, <1>6, <1>7 DEF IPC!RInit

(* A system call leaves every other message area as it was, and a receive  *)
(* its own too.                                                            *)
LEMMA TrapRefines ==
    ASSUME KernelInv, KernelInv', NEW id, NEW m \in [Pids -> Syscall],
           \A p \in Pids \ {vm} : m[p] = sc[p],
           m[vm].type # "SYS_SEND" => m[vm].msg = sc[vm].msg,
           excp_entry(id, m)
    PROVE  AbstractStep
<1>0. fatal = "none" /\ pid' = pid
  BY DEF excp_entry
<1>1. CASE proc_syscall(m)
  BY <1>0, <1>1, SyscallRefines
<1>2. CASE curr_pid >= GPID_USER_START /\ kill_current
  BY <1>0, <1>2, KillRefines
<1>3. CASE UNCHANGED <<status, receiver_pid, sc>>
  BY <1>0, <1>3, SameTable DEF AbstractStep
<1> QED BY <1>1, <1>2, <1>3 DEF excp_entry

(* Every step of the kernel is a step of Rendezvous or none.               *)
LEMMA NextRefines ==
    ASSUME KernelInv, KernelInv', [Next]_grassVars
    PROVE  AbstractStep
<1>1. /\ TypeOK /\ Addressees \subseteq Pids
      /\ vm \in Pids /\ sc \in [Pids -> Syscall] /\ status \in [Slots -> Status]
  BY GrassAssumption DEF KernelInv, TypeOK
<1>2. ASSUME NEW r \in Addressees, NEW c \in Content, sys_send(r, c)
      PROVE  AbstractStep
  <2> DEFINE m == [sc EXCEPT ![vm].type = "SYS_SEND", ![vm].msg.receiver = r,
                             ![vm].msg.content = c]
  <2>1. m \in [Pids -> Syscall]
    BY <1>1, CallTypes, Zenon
  <2>2. m[vm].type = "SYS_SEND" /\ \A p \in Pids \ {vm} : m[p] = sc[p]
    BY <1>1 DEF Syscall
  <2>3. excp_entry(EXCP_ID_ECALL_S, m)
    BY <1>2 DEF sys_send
  <2> HIDE DEF m
  <2> QED BY <2>1, <2>2, <2>3, TrapRefines, Zenon
<1>3. CASE sys_recv
  <2> DEFINE m == [sc EXCEPT ![vm].type = "SYS_RECV"]
  <2>1. m \in [Pids -> Syscall]
    BY <1>1, CallTypes, Zenon
  <2>2. m[vm].msg = sc[vm].msg /\ \A p \in Pids \ {vm} : m[p] = sc[p]
    BY <1>1 DEF Syscall
  <2>3. excp_entry(EXCP_ID_ECALL_S, m)
    BY <1>3 DEF sys_recv
  <2> HIDE DEF m
  <2> QED BY <2>1, <2>2, <2>3, TrapRefines, Zenon
<1>4. CASE fault
  BY <1>1, <1>4, TrapRefines DEF fault
<1>5. ASSUME NEW b \in BOOLEAN, intr_entry(b)
      PROVE  AbstractStep
  BY <1>5, IntrRefines
<1>6. CASE ProcAlloc
  BY <1>6, AllocRefines DEF AbstractStep
<1>7. ASSUME NEW p \in Pids, ElfLoad(p) \/ ProcReady(p)
      PROVE  AbstractStep
  BY <1>7, LoadRefines, ReadyRefines DEF AbstractStep, IPC!RNext
<1>8. ASSUME NEW p \in Pids, ProcFree(p)
      PROVE  AbstractStep
  <2>1. \A i \in Slots : status'[i] = IF pid[i] \in {p} THEN "UNUSED" ELSE status[i]
    BY <1>8 DEF ProcFree, proc_free, proc_set_status
  <2> QED BY <1>8, <2>1, FreeRefines, Zenon DEF ProcFree, proc_free
<1>9. CASE ProcFreeAll
  <2> DEFINE D == {p \in Pids : p >= GPID_USER_START}
  <2>1. \A i \in Slots : status'[i] = IF pid[i] \in D THEN "UNUSED" ELSE status[i]
    BY <1>1, <1>9 DEF ProcFreeAll, proc_free_all, TypeOK
  <2> QED BY <1>9, <2>1, FreeRefines, Zenon DEF ProcFreeAll, proc_free_all
<1>10. CASE UNCHANGED <<pid, status, receiver_pid, sc>>
  BY <1>10, SameTable DEF AbstractStep
<1> QED BY <1>2, <1>3, <1>4, <1>5, <1>6, <1>7, <1>8, <1>9, <1>10
        DEF Next, Halted, Panic, grassVars

(* sys_send and sys_recv are synchronous message passing between the       *)
(* processes a pid names, with any number of slots, pids, addressees and   *)
(* contents, and whatever an uncleared syscall area holds: kernel.c and    *)
(* process.c implement Rendezvous.                                         *)
THEOREM KernelImplementsRendezvous == Spec => ImplementsRendezvous
<1>1. Init => IPC!RInit
  BY InitRefines
<1>2. KernelInv /\ KernelInv' /\ [Next]_grassVars => [IPC!RNext]_(IPC!rVars)
  BY NextRefines DEF AbstractStep, IPC!rVars
<1> QED BY <1>1, <1>2, KernelInvariant, PTL DEF Spec, ImplementsRendezvous, IPC!RSpec
=============================================================================
