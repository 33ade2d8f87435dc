---------------------------- MODULE SystemProofs ----------------------------
(***************************************************************************)
(* Who waits for whom: a server that owes an answer owes it to a process   *)
(* that waits for it, so that an app's call is answered by the server it   *)
(* called, for any number of slots and pids and whatever the user types.   *)
(***************************************************************************)
EXTENDS SystemCalls

USE Zenon

(* What is said of a process that is as it was still holds, provided those *)
(* it owes an answer wait for it still.                                    *)
LEMMA AppSame ==
    ASSUME NEW x, IpcSame(x), LocalSame(x), Started(x) => Started(x)', AppInv(x)
    PROVE  AppInv(x)'
BY DEF AppInv, IpcSame, LocalSame

LEMMA ServerSame ==
    ASSUME NEW x, IpcSame(x), LocalSame(x), Started(x) => Started(x)', ServerInv(x)
    PROVE  ServerInv(x)'
BY DEF ServerInv, IpcSame, LocalSame

LEMMA OwesSame ==
    ASSUME NEW x, IpcSame(x), LocalSame(x), NEW q
    PROVE  Owes(x, q)' <=> Owes(x, q)
BY DEF Owes, IpcSame, LocalSame

LEMMA AwaitsSame ==
    ASSUME NEW q, IpcSame(q), LocalSame(q), NEW x, Awaits(q, x)
    PROVE  Awaits(q, x)'
BY DEF Awaits, IpcSame, LocalSame

LEMMA ProcSame ==
    ASSUME NEW x \in Pids, ProcInv(x), IpcSame(x), LocalSame(x), StartedKept,
           \A q \in UserPids : x \in Servers /\ Owes(x, q) /\ Awaits(q, x) =>
              absState'[q] = "none" \/ Awaits(q, x)',
           \A q \in UserPids : absState[q] = "none" => absState'[q] = "none" \/ ~Started(q)
    PROVE  ProcInv(x)'
<1>1. absState'[x] = "sending" => absBox'[x].sender = x
  BY DEF ProcInv, IpcSame
<1>2. CASE x \in UserPids /\ AppInv(x)
  <2>1. AppInv(x)'
    BY <1>2, AppSame DEF StartedKept
  <2> QED BY <1>1, <1>2, <2>1 DEF ProcInv
<1>3. CASE x \in Servers /\ ServerInv(x) /\ \A q \in Pids : OwedWait(x, q)
  <2>1. ServerInv(x)'
    BY <1>3, ServerSame DEF StartedKept
  <2>2. ASSUME NEW q \in Pids PROVE OwedWait(x, q)'
    <3>1. SUFFICES ASSUME Owes(x, q)'
                   PROVE  Started(q)' /\ (q \in UserPids => absState'[q] = "none" \/ Awaits(q, x)')
      BY DEF OwedWait
    <3>2. Owes(x, q)
      BY <3>1, OwesSame
    <3>3. Started(q) /\ (q \in UserPids => absState[q] = "none" \/ Awaits(q, x))
      BY <1>3, <3>2 DEF OwedWait
    <3> QED BY <1>3, <3>2, <3>3 DEF StartedKept
  <2> QED BY <1>1, <1>3, <2>1, <2>2 DEF ProcInv
<1>4. CASE x \notin UserPids \union Servers /\ OtherInv(x)
  BY <1>1, <1>4 DEF ProcInv, OtherInv, IpcSame
<1> QED BY <1>2, <1>3, <1>4 DEF ProcInv

-----------------------------------------------------------------------------
(* sys_send of each program: whom it names, and where the program goes on  *)
SendsAs(p, r) ==
    \/ /\ p \in UserPids /\ pc[p] = "main" /\ prog'[p] = prog[p]
       /\ \/ pc'[p] = "recv" /\ r = ServerOf(Head(prog[p]))
          \/ pc'[p] = "spin" /\ r = GPID_PROCESS
    \/ /\ p \in Servers
       /\ \/ pc'[p] = "recv" /\ (Owes(p, r) \/ r = GPID_PROCESS)
          \/ /\ p = GPID_DIR /\ r = GPID_FILE /\ pc'[p] = "recv_blk"
             /\ Owes(p, sys_dir'.sender)
    \/ p = GPID_PROCESS /\ r \in {GPID_FILE, GPID_DIR, GPID_SHELL}
    \/ p = GPID_SHELL /\ r = GPID_PROCESS

(* An app that exists and is owed an answer waits for it.                  *)
LEMMA OwedAwaits ==
    ASSUME AnswersAwaited, NEW x \in Servers, NEW q \in Pids, Owes(x, q)
    PROVE  /\ Started(q)
           /\ q \in UserPids /\ absState[q] # "none" =>
                 /\ Awaits(q, x)
                 /\ absState[q] \in {"idle", "receiving"} /\ pc[q] \in {"recv", "got"}
                 /\ absState[q] = "receiving" => pc[q] = "got"
                 /\ absState[q] = "idle" => pc[q] = "recv"
<1>1. OwedWait(x, q)
  BY Kinds DEF AnswersAwaited, ProcInv
<1> QED BY <1>1 DEF OwedWait, Awaits

LEMMA SendOthers ==
    ASSUME AnswersAwaited, StartedKept, NEW p \in Pids, NEW r \in Pids, Sent(p, r),
           SendsAs(p, r), Started(p), \A x \in Pids \ {p} : LocalSame(x),
           NEW x \in Pids \ {p}
    PROVE  ProcInv(x)'
<1>1. r \in UserPids => p \in Servers /\ Owes(p, r)
  BY Kinds DEF SendsAs, Servers
<1>2. p \in UserPids => absState[p] = "idle" /\ pc[p] = "main"
  BY Kinds DEF SendsAs, Sent, Servers
<1>3. ProcInv(x) /\ LocalSame(x)
  BY DEF AnswersAwaited
<1>4. ASSUME NEW q \in UserPids, x \in Servers, Owes(x, q), Awaits(q, x)
      PROVE  IpcSame(q) /\ Awaits(q, x)'
  <2>1. q \in Pids /\ q # p
    BY <1>2, <1>4, Kinds DEF Awaits
  <2>2. IpcSame(q)
    <3>1. SUFFICES ASSUME q = r, absState[q] = "receiving" PROVE FALSE
      BY <2>1 DEF Sent
    <3>2. Awaits(q, p)
      BY <1>1, <2>1, <3>1, OwedAwaits
    <3> QED BY <1>4, <3>2 DEF Awaits
  <2> QED BY <1>4, <2>1, <2>2, AwaitsSame
<1>5. CASE IpcSame(x)
  <2>1. ASSUME NEW q \in UserPids, absState[q] = "none" PROVE absState'[q] = "none"
    BY <1>2, <2>1, Kinds DEF Sent, IpcSame
  <2> QED BY <1>3, <1>4, <1>5, <2>1, ProcSame
<1>6. CASE /\ x = r /\ absState[x] = "receiving" /\ absState'[x] = "idle"
           /\ absBox'[x].sender = p /\ absState'[p] = "idle"
  <2>1. CASE x \in UserPids
    <3>1. Awaits(x, p) /\ pc[x] = "got"
      BY <1>1, <1>6, <2>1, OwedAwaits
    <3>2. AppInv(x)
      BY <1>3, <2>1, Kinds DEF ProcInv
    <3>3. AppInv(x)'
      BY <1>3, <1>6, <3>1, <3>2 DEF AppInv, Awaits, LocalSame, StartedKept
    <3> QED BY <1>6, <2>1, <3>3 DEF ProcInv
  <2>2. CASE x \in Servers
    <3>1. ServerInv(x) /\ \A q \in Pids : OwedWait(x, q)
      BY <1>3, <2>2, Kinds DEF ProcInv
    <3>2. ServerInv(x)' /\ pc[x] \in {"serve", "reply"}
      BY <1>3, <1>6, <3>1 DEF ServerInv, LocalSame, StartedKept
    <3>3. ASSUME NEW q \in Pids, Owes(x, q)'
          PROVE  Started(q)' /\ (q \in UserPids => absState'[q] = "none" \/ Awaits(q, x)')
      <4>1. CASE q = p
        <5>1. p \in UserPids => Awaits(p, x)'
          BY <1>6, <2>2, Kinds DEF SendsAs, Awaits
        <5> QED BY <4>1, <5>1 DEF StartedKept
      <4>2. CASE q # p
        <5>1. Owes(x, q)
          BY <1>3, <1>6, <3>2, <3>3, <4>2 DEF Owes, LocalSame
        <5>2. Started(q) /\ (q \in UserPids /\ absState[q] # "none" => Awaits(q, x))
          BY <2>2, <5>1, OwedAwaits
        <5>3. q \in UserPids => IpcSame(q)
          BY <1>6, <2>2, <4>2, Kinds DEF Sent
        <5> QED BY <1>4, <2>2, <5>1, <5>2, <5>3 DEF StartedKept, IpcSame
      <4> QED BY <4>1, <4>2
    <3>4. \A q \in Pids : OwedWait(x, q)'
      BY <3>3 DEF OwedWait
    <3> QED BY <1>6, <2>2, <3>2, <3>4 DEF ProcInv
  <2>3. CASE x \notin UserPids \union Servers
    BY <1>6, <2>3 DEF ProcInv, OtherInv
  <2> QED BY <2>1, <2>2, <2>3
<1> QED BY <1>5, <1>6 DEF Sent

LEMMA SendOwn ==
    ASSUME AnswersAwaited, StartedKept, NEW p \in Pids, NEW r \in Pids, Sent(p, r),
           SendsAs(p, r), Started(p), Started(GPID_PROCESS),
           \A x \in Pids \ {p} : LocalSame(x),
           p \in Servers /\ pc'[p] = "recv_blk" => sys_dir'.sender \in Pids
    PROVE  ProcInv(p)'
<1>1. absState'[p] = "sending" => absTarget'[p] = r /\ absBox'[p].sender = p
  BY DEF Sent
<1>2. absState'[p] \in {"idle", "sending"} /\ Started(p)'
  BY DEF Sent, StartedKept
<1>3. CASE p \in UserPids
  <2>1. AppInv(p)'
    BY <1>1, <1>2, <1>3, Kinds DEF AppInv, SendsAs
  <2> QED BY <1>1, <1>3, <2>1 DEF ProcInv
<1>4. CASE p \in Servers
  <2>1. ServerInv(p)'
    BY <1>1, <1>2, <1>4, Kinds DEF ServerInv, SendsAs
  <2>2. ASSUME NEW q \in Pids, Owes(p, q)'
        PROVE  Started(q)' /\ (q \in UserPids => absState'[q] = "none" \/ Awaits(q, p)')
    <3>1. \/ q = GPID_PROCESS
          \/ Owes(p, q) /\ ((q = r /\ absState'[p] = "sending") \/ r = GPID_FILE)
      BY <1>1, <1>2, <1>4, <2>2, Kinds DEF SendsAs, Owes
    <3>2. CASE q = GPID_PROCESS
      BY <3>2, Kinds DEF StartedKept
    <3>3. CASE Owes(p, q) /\ ((q = r /\ absState'[p] = "sending") \/ r = GPID_FILE)
      <4>1. Started(q) /\ (q \in UserPids /\ absState[q] # "none" => Awaits(q, p))
        BY <1>4, <3>3, OwedAwaits
      <4>2. q \in UserPids => IpcSame(q) /\ LocalSame(q)
        BY <1>4, <3>3, Kinds DEF Sent, Servers
      <4> QED BY <4>1, <4>2, AwaitsSame DEF StartedKept, IpcSame
    <3> QED BY <3>1, <3>2, <3>3
  <2>3. \A q \in Pids : OwedWait(p, q)'
    BY <2>2 DEF OwedWait
  <2> QED BY <1>1, <1>4, <2>1, <2>3 DEF ProcInv
<1>5. CASE p \notin UserPids \union Servers
  BY <1>1, <1>5 DEF ProcInv, OtherInv, SendsAs
<1> QED BY <1>3, <1>4, <1>5

-----------------------------------------------------------------------------
(* sys_recv of each program *)
RecvsAs(p) ==
    \/ p \in UserPids /\ pc[p] = "recv" /\ pc'[p] = "got" /\ prog'[p] = prog[p]
    \/ p \in Servers /\ pc[p] = "recv" /\ pc'[p] = "serve"
    \/ p = GPID_DIR /\ pc[p] = "recv_blk" /\ pc'[p] = "reply" /\ sys_dir' = sys_dir
    \/ p \in {GPID_PROCESS, GPID_SHELL}

(* Only a server that answers sends to an app, and an app sends to a       *)
(* server only to ask.                                                     *)
LEMMA WhoSends ==
    ASSUME AnswersAwaited, NEW y \in Pids, absState[y] = "sending", NEW q, absTarget[y] = q
    PROVE  /\ absBox[y].sender = y
           /\ q \in UserPids => y \in Servers /\ Owes(y, q) /\ pc[y] = "recv"
           /\ q \in Servers /\ y \in UserPids => pc[y] = "recv" /\ q = ServerOf(Head(prog[y]))
<1>1. ProcInv(y)
  BY DEF AnswersAwaited
<1>2. CASE y \in UserPids
  <2>1. AppInv(y)
    BY <1>1, <1>2, Kinds DEF ProcInv
  <2>2. \/ pc[y] = "recv" /\ q = ServerOf(Head(prog[y]))
        \/ pc[y] = "spin" /\ q = GPID_PROCESS
    BY <2>1 DEF AppInv
  <2> QED BY <1>1, <2>2, Kinds DEF ProcInv
<1>3. CASE y \in Servers
  <2>1. ServerInv(y)
    BY <1>1, <1>3, Kinds DEF ProcInv
  <2>2. pc[y] = "recv" \/ q = GPID_FILE
    BY <2>1 DEF ServerInv
  <2>3. pc[y] = "recv" => Owes(y, q)
    BY DEF Owes
  <2>4. q = GPID_FILE => q \notin UserPids
    BY Kinds DEF Servers
  <2> QED BY <1>1, <1>3, <2>2, <2>3, <2>4, Kinds DEF ProcInv
<1>4. CASE y \notin UserPids \union Servers
  <2>1. q \notin UserPids
    BY <1>1, <1>4, Kinds DEF ProcInv, OtherInv, Servers
  <2> QED BY <1>1, <1>4, <2>1 DEF ProcInv
<1> QED BY <1>2, <1>3, <1>4

LEMMA RecvOthers ==
    ASSUME AnswersAwaited, StartedKept, NEW p \in Pids, Recvd(p), RecvsAs(p), Started(p),
           \A x \in Pids \ {p} : LocalSame(x), NEW x \in Pids \ {p}
    PROVE  ProcInv(x)'
<1>1. ProcInv(x) /\ LocalSame(x)
  BY DEF AnswersAwaited
<1>2. absState[p] = "idle" /\ absState'[p] \in {"idle", "receiving"}
  BY DEF Recvd, Took
<1>3. ASSUME NEW q \in UserPids, absState[q] = "none" PROVE absState'[q] = "none"
  BY <1>2, <1>3, Kinds DEF Recvd, Took, IpcSame
<1>4. ASSUME NEW q \in UserPids, x \in Servers, Owes(x, q), Owes(x, q)', Awaits(q, x)
      PROVE  Awaits(q, x)'
  <2>1. CASE q = p
    <3>1. pc'[p] = "got" /\ prog'[p] = prog[p]
      BY <2>1, Kinds DEF RecvsAs, Servers
    <3>2. CASE absState'[p] = "receiving"
      BY <1>4, <2>1, <3>1, <3>2 DEF Awaits
    <3>3. ASSUME NEW y \in Pids \ {p}, Took(p, y) PROVE FALSE
      <4>1. y \in Servers /\ Owes(y, p) /\ pc[y] = "recv"
        BY <2>1, <3>3, WhoSends DEF Took
      <4>2. Awaits(p, y)
        BY <1>2, <2>1, <4>1, OwedAwaits
      <4>3. x = y
        BY <1>4, <2>1, <4>2 DEF Awaits
      <4>4. ~Owes(y, p)'
        BY <1>1, <3>3, <4>1, <4>3 DEF Owes, Took, LocalSame
      <4> QED BY <1>4, <2>1, <4>3, <4>4
    <3> QED BY <3>2, <3>3 DEF Recvd
  <2>2. CASE q # p
    <3>1. absState[q] # "sending" /\ q \in Pids
      BY <1>4, Kinds DEF Awaits
    <3>2. IpcSame(q)
      BY <2>2, <3>1 DEF Recvd, Took
    <3> QED BY <1>4, <2>2, <3>1, <3>2, AwaitsSame
  <2> QED BY <2>1, <2>2
<1>5. CASE IpcSame(x)
  BY <1>1, <1>3, <1>4, <1>5, ProcSame, OwesSame
<1>6. CASE Took(p, x)
  <2>1. absState[x] = "sending" /\ absState'[x] = "idle"
    BY <1>6 DEF Took
  <2>2. CASE x \in UserPids
    <3>1. AppInv(x)
      BY <1>1, <2>2, Kinds DEF ProcInv
    <3>2. AppInv(x)'
      BY <1>1, <2>1, <3>1 DEF AppInv, LocalSame, StartedKept
    <3> QED BY <2>1, <2>2, <3>2 DEF ProcInv
  <2>3. CASE x \in Servers
    <3>1. ServerInv(x)
      BY <1>1, <2>3, Kinds DEF ProcInv
    <3>2. ServerInv(x)' /\ pc[x] \in {"recv", "recv_blk"}
      BY <1>1, <2>1, <3>1 DEF ServerInv, LocalSame, StartedKept
    <3>3. ASSUME NEW q \in Pids, Owes(x, q)'
          PROVE  Started(q)' /\ (q \in UserPids => absState'[q] = "none" \/ Awaits(q, x)')
      <4>1. Owes(x, q)
        BY <1>1, <2>1, <3>2, <3>3 DEF Owes, LocalSame
      <4>2. Started(q) /\ (q \in UserPids /\ absState[q] # "none" => Awaits(q, x))
        BY <2>3, <4>1, OwedAwaits
      <4> QED BY <1>3, <1>4, <2>3, <3>3, <4>1, <4>2 DEF StartedKept
    <3>4. \A q \in Pids : OwedWait(x, q)'
      BY <3>3 DEF OwedWait
    <3> QED BY <2>1, <2>3, <3>2, <3>4 DEF ProcInv
  <2>4. CASE x \notin UserPids \union Servers
    BY <2>1, <2>4 DEF ProcInv, OtherInv
  <2> QED BY <2>2, <2>3, <2>4
<1> QED BY <1>5, <1>6 DEF Recvd, Took

LEMMA RecvOwn ==
    ASSUME KernelInv, AnswersAwaited, StartedKept, NEW p \in Pids, Recvd(p), RecvsAs(p), Started(p),
           \A x \in Pids \ {p} : LocalSame(x)
    PROVE  ProcInv(p)'
<1>1. absState'[p] \in {"idle", "receiving"} /\ Started(p)'
  BY DEF Recvd, Took, StartedKept
<1>2. CASE p \in UserPids
  <2>1. pc'[p] = "got" /\ prog'[p] = prog[p]
    BY <1>2, Kinds DEF RecvsAs, Servers
  <2>2. ASSUME NEW y \in Pids \ {p}, Took(p, y)
        PROVE  absBox'[p].sender = ServerOf(Head(prog[p]))
    <3>1. y \in Servers /\ Owes(y, p) /\ absBox[y].sender = y
      BY <1>2, <2>2, WhoSends DEF Took
    <3>2. Awaits(p, y)
      BY <1>2, <3>1, OwedAwaits DEF Recvd
    <3> QED BY <2>2, <3>1, <3>2 DEF Took, Awaits
  <2>3. absState'[p] = "idle" => absBox'[p].sender = ServerOf(Head(prog[p]))
    BY <2>2 DEF Recvd
  <2>4. AppInv(p)'
    BY <1>1, <2>1, <2>3 DEF AppInv
  <2> QED BY <1>1, <1>2, <2>4 DEF ProcInv
<1>3. CASE p \in Servers
  <2>1. ServerInv(p)'
    BY <1>1, <1>3, Kinds DEF ServerInv, RecvsAs
  <2>2. ASSUME NEW q \in Pids, Owes(p, q)'
        PROVE  Started(q)' /\ (q \in UserPids => absState'[q] = "none" \/ Awaits(q, p)')
    <3>1. CASE pc'[p] = "serve" /\ absState'[p] = "idle" /\ absBox'[p].sender = q
      <4>1. PICK y \in Pids \ {p} : Took(p, y)
        BY <3>1 DEF Recvd
      <4>2. absBox[y].sender = y /\ (y \in UserPids => pc[y] = "recv" /\ p = ServerOf(Head(prog[y])))
        BY <1>3, <4>1, WhoSends DEF Took
      <4>3. q = y
        BY <3>1, <4>1, <4>2 DEF Took
      <4>4. Started(y)
        BY <4>1, LiveStarted DEF Took
      <4>5. y \in UserPids => Awaits(y, p)'
        BY <4>1, <4>2 DEF Awaits, Took, LocalSame
      <4> QED BY <4>3, <4>4, <4>5 DEF StartedKept
    <3>2. CASE pc[p] = "recv_blk" /\ Owes(p, q)
      <4>1. Started(q) /\ (q \in UserPids /\ absState[q] # "none" => Awaits(q, p))
        BY <1>3, <3>2, OwedAwaits
      <4>2. q \in UserPids => q # p /\ absState[q] # "sending"
        BY <1>3, <4>1, Kinds DEF Awaits
      <4>3. q \in UserPids => IpcSame(q) /\ LocalSame(q)
        BY <4>2 DEF Recvd, Took
      <4> QED BY <4>1, <4>3, AwaitsSame DEF StartedKept, IpcSame
    <3> QED BY <1>1, <1>3, <2>2, <3>1, <3>2, Kinds DEF Owes, RecvsAs
  <2>3. \A q \in Pids : OwedWait(p, q)'
    BY <2>2 DEF OwedWait
  <2> QED BY <1>1, <1>3, <2>1, <2>3 DEF ProcInv
<1>4. CASE p \notin UserPids \union Servers
  BY <1>1, <1>4 DEF ProcInv, OtherInv
<1> QED BY <1>2, <1>3, <1>4

-----------------------------------------------------------------------------
(* A send and a receive, of whichever program.                             *)
LEMMA ProcessStarted ==
    ASSUME KernelInv, fatal = "none"
    PROVE  Started(GPID_PROCESS)
<1>1. /\ curr_pid \in 1..proc_nprocs /\ ~Loading(curr_pid) /\ proc_nprocs \in Nat
  BY CurrentIdle, SMT DEF Started, KernelInv, TypeOK, Pids
<1>2. Loading(GPID_PROCESS) => proc_nprocs = GPID_PROCESS
  BY DEF Loading, KernelInv
<1> QED BY <1>1, <1>2, SMT DEF Started, GPID_PROCESS

LEMMA SendProcs ==
    ASSUME KernelInv, LocalTypeOK', AnswersAwaited, fatal = "none", NEW r \in Pids, NEW c \in Content,
           sys_send(r, c), NEW p, p = curr_pid, SendsAs(p, r), \A x \in Pids \ {p} : LocalSame(x)
    PROVE  AnswersAwaited'
<1>1. Sent(p, r) /\ StartedKept
  BY SendEffect
<1>2. p \in Pids /\ Started(p) /\ Started(GPID_PROCESS)
  BY CurrentIdle, ProcessStarted
<1>3. sys_dir'.sender \in Pids
  BY DEF LocalTypeOK
<1>4. ProcInv(p)'
  BY <1>1, <1>2, <1>3, SendOwn
<1>5. \A x \in Pids \ {p} : ProcInv(x)'
  BY <1>1, <1>2, SendOthers
<1> QED BY <1>1, <1>4, <1>5 DEF AnswersAwaited

LEMMA RecvProcs ==
    ASSUME KernelInv, AnswersAwaited, fatal = "none", sys_recv, NEW p, p = curr_pid, RecvsAs(p),
           \A x \in Pids \ {p} : LocalSame(x)
    PROVE  AnswersAwaited'
<1>1. Recvd(p) /\ StartedKept
  BY RecvEffect
<1>2. p \in Pids /\ Started(p)
  BY CurrentIdle
<1>3. ProcInv(p)'
  BY <1>1, <1>2, RecvOwn
<1>4. \A x \in Pids \ {p} : ProcInv(x)'
  BY <1>1, <1>2, RecvOthers
<1> QED BY <1>1, <1>3, <1>4 DEF AnswersAwaited

(* Steps that send and receive nothing: of sys_proc, the shell, or a       *)
(* process that stops ...                                                  *)
LEMMA QuietProcs ==
    ASSUME AnswersAwaited, StartedKept, \A x \in Pids : IpcSame(x),
           \A x \in Pids \ {GPID_PROCESS, GPID_SHELL} : LocalSame(x)
    PROVE  AnswersAwaited'
<1> SUFFICES ASSUME NEW x \in Pids PROVE ProcInv(x)'
  BY DEF AnswersAwaited
<1>1. ProcInv(x)
  BY DEF AnswersAwaited
<1>2. \A q \in UserPids : q \in Pids /\ IpcSame(q) /\ LocalSame(q)
  BY Kinds
<1>3. CASE x \in {GPID_PROCESS, GPID_SHELL}
  <2>1. x \notin UserPids \union Servers
    BY <1>3, Kinds
  <2> QED BY <1>1, <2>1 DEF ProcInv, OtherInv, IpcSame
<1>4. CASE x \notin {GPID_PROCESS, GPID_SHELL}
  <2>1. \A q \in UserPids : Awaits(q, x) => Awaits(q, x)'
    BY <1>2, AwaitsSame
  <2>2. \A q \in UserPids : absState[q] = "none" => absState'[q] = "none"
    BY <1>2 DEF IpcSame
  <2> QED BY <1>1, <1>4, <2>1, <2>2, ProcSame
<1> QED BY <1>3, <1>4

(* ... of an app that has its answer, or needs none, ...                   *)
LEMMA AppProcs ==
    ASSUME AnswersAwaited, StartedKept, \A x \in Pids : IpcSame(x), NEW p \in UserPids,
           \A x \in Pids \ {p} : LocalSame(x), Started(p), absState[p] = "idle",
           pc[p] \in {"main", "got"}, pc'[p] \in {"main", "spin"}
    PROVE  AnswersAwaited'
<1> SUFFICES ASSUME NEW x \in Pids PROVE ProcInv(x)'
  BY DEF AnswersAwaited
<1>0. p \in Pids
  BY Kinds
<1>1. ProcInv(x) /\ IpcSame(x)
  BY DEF AnswersAwaited
<1>2. CASE x = p
  <2>1. AppInv(p)'
    BY <1>0, <1>1, <1>2 DEF AppInv, StartedKept, IpcSame
  <2> QED BY <1>1, <1>2, <2>1 DEF ProcInv, IpcSame
<1>3. CASE x # p
  <2>1. ASSUME NEW q \in UserPids, Awaits(q, x) PROVE Awaits(q, x)'
    <3>1. q # p
      BY <2>1 DEF Awaits
    <3> QED BY <2>1, <3>1, Kinds, AwaitsSame
  <2>2. \A q \in UserPids : absState[q] = "none" => absState'[q] = "none"
    BY Kinds DEF IpcSame
  <2> QED BY <1>1, <1>3, <2>1, <2>2, ProcSame
<1> QED BY <1>2, <1>3

(* ... the end of apps, by a kill or by sys_proc, ...                      *)
LEMMA EndProcs ==
    ASSUME AnswersAwaited, StartedKept,
           \A x \in Pids : \/ IpcSame(x)
                           \/ x \in UserPids /\ absState'[x] = "none"
                           \/ x = GPID_SHELL /\ absState'[x] \in {"none", "idle"},
           \A x \in Pids \ {GPID_PROCESS} : \/ LocalSame(x)
                                            \/ /\ x \in UserPids /\ absState'[x] = "none"
                                               /\ pc'[x] = "main"
    PROVE  AnswersAwaited'
<1> SUFFICES ASSUME NEW x \in Pids PROVE ProcInv(x)'
  BY DEF AnswersAwaited
<1>1. ProcInv(x)
  BY DEF AnswersAwaited
<1>2. \A q \in UserPids : /\ q \in Pids \ {GPID_PROCESS}
                          /\ absState'[q] = "none" \/ (IpcSame(q) /\ LocalSame(q))
  BY Kinds
<1>3. CASE x \in {GPID_PROCESS, GPID_SHELL}
  <2>1. x \notin UserPids \union Servers
    BY <1>3, Kinds
  <2> QED BY <1>1, <2>1 DEF ProcInv, OtherInv, IpcSame
<1>4. CASE x \in UserPids /\ absState'[x] = "none"
  <2>1. AppInv(x)
    BY <1>1, <1>4, Kinds DEF ProcInv
  <2>2. pc'[x] = pc[x] \/ pc'[x] = "main"
    BY <1>2, <1>4 DEF LocalSame
  <2>3. AppInv(x)'
    BY <1>4, <2>1, <2>2 DEF AppInv, StartedKept
  <2> QED BY <1>4, <2>3 DEF ProcInv
<1>5. CASE x \notin {GPID_PROCESS, GPID_SHELL} /\ ~(x \in UserPids /\ absState'[x] = "none")
  <2>1. \A q \in UserPids : Awaits(q, x) => absState'[q] = "none" \/ Awaits(q, x)'
    BY <1>2, AwaitsSame
  <2>2. \A q \in UserPids : absState[q] = "none" => absState'[q] = "none"
    BY <1>2 DEF IpcSame
  <2>3. IpcSame(x) /\ LocalSame(x)
    BY <1>5
  <2> QED BY <1>1, <2>1, <2>2, <2>3, ProcSame
<1> QED BY <1>3, <1>4, <1>5

(* ... and the start of a process.                                         *)
LEMMA StartProcs ==
    ASSUME AnswersAwaited, StartedKept, Started(GPID_PROCESS), NEW p \in Pids, ~Started(p),
           absState'[p] = "idle", \A x \in Pids \ {p} : IpcSame(x), pc'[p] = pc[p],
           \A x \in Pids \ {p, GPID_PROCESS} : LocalSame(x)
    PROVE  AnswersAwaited'
<1> SUFFICES ASSUME NEW x \in Pids PROVE ProcInv(x)'
  BY DEF AnswersAwaited
<1>1. ProcInv(x)
  BY DEF AnswersAwaited
<1>2. CASE x = p
  <2>1. CASE p \in UserPids
    <3>1. AppInv(p)'
      BY <1>1, <1>2, <2>1, Kinds DEF ProcInv, AppInv
    <3> QED BY <1>2, <2>1, <3>1 DEF ProcInv
  <2>2. CASE p \in Servers
    <3>1. pc[p] = "init"
      BY <1>1, <1>2, <2>2, Kinds DEF ProcInv, ServerInv
    <3>2. ServerInv(p)' /\ \A q \in Pids : ~Owes(p, q)'
      BY <3>1 DEF ServerInv, Owes
    <3> QED BY <1>2, <2>2, <3>2 DEF ProcInv, OwedWait
  <2>3. CASE p \notin UserPids \union Servers
    BY <1>2, <2>3 DEF ProcInv, OtherInv
  <2> QED BY <2>1, <2>2, <2>3
<1>3. CASE x # p /\ x = GPID_PROCESS
  <2>1. x \notin UserPids \union Servers
    BY <1>3, Kinds
  <2> QED BY <1>1, <1>3, <2>1 DEF ProcInv, OtherInv, IpcSame
<1>4. CASE x # p /\ x # GPID_PROCESS
  <2>1. ASSUME NEW q \in UserPids, x \in Servers, Owes(x, q), Awaits(q, x)
        PROVE  Awaits(q, x)'
    <3>1. q # p /\ q # GPID_PROCESS /\ q \in Pids
      BY <2>1, OwedAwaits, Kinds
    <3> QED BY <2>1, <3>1, AwaitsSame
  <2>2. \A q \in UserPids : absState[q] = "none" => absState'[q] = "none" \/ ~Started(q)
    BY Kinds DEF IpcSame
  <2> QED BY <1>1, <1>4, <2>1, <2>2, ProcSame
<1> QED BY <1>2, <1>3, <1>4

LEMMA GotoSame ==
    ASSUME LocalTypeOK, NEW p \in Pids, NEW l, Goto(p, l), UNCHANGED <<sys_dir, prog>>
    PROVE  pc'[p] = l /\ prog'[p] = prog[p] /\ \A x \in Pids \ {p} : LocalSame(x)
<1>1. pc'[p] = l /\ \A x \in Pids \ {p} : pc'[x] = pc[x]
  BY GotoType
<1> QED BY <1>1 DEF LocalSame

LEMMA SameAbs ==
    ASSUME KernelInv, KernelInv', UNCHANGED <<pid, status, receiver_pid, sc>>
    PROVE  \A x \in Pids : IpcSame(x)
<1>1. UNCHANGED <<absState, absTarget, absBox>>
  BY SameTable
<1> QED BY <1>1 DEF IpcSame

(* sys_proc, sys_file, sys_dir and the shell, when they receive or stop,   *)
(* or do nothing that concerns others                                      *)
LEMMA PlainStep ==
    ASSUME SystemInv, BaseInv', StartedKept, NEW p \in {GPID_PROCESS, GPID_SHELL},
           NEW l, Goto(p, l), UNCHANGED <<sys_dir, prog>>,
           UNCHANGED <<pid, status, receiver_pid, sc>>
    PROVE  AnswersAwaited'
<1>0. KernelInv /\ KernelInv' /\ LocalTypeOK /\ AnswersAwaited /\ p \in Pids
  BY Kinds DEF SystemInv, BaseInv, AnswersAwaited
<1>1. \A x \in Pids : IpcSame(x)
  BY <1>0, SameAbs
<1>2. \A x \in Pids \ {p} : LocalSame(x)
  BY <1>0, GotoSame
<1> QED BY <1>0, <1>1, <1>2, QuietProcs

LEMMA HaltStep ==
    ASSUME SystemInv, BaseInv', StartedKept, UNCHANGED <<pc, sys_dir, prog>>,
           UNCHANGED <<pid, status, receiver_pid, sc>>
    PROVE  AnswersAwaited'
<1>0. KernelInv /\ KernelInv' /\ AnswersAwaited
  BY DEF SystemInv, BaseInv, AnswersAwaited
<1>1. \A x \in Pids : IpcSame(x)
  BY <1>0, SameAbs
<1>2. \A x \in Pids : LocalSame(x)
  BY DEF LocalSame
<1> QED BY <1>0, <1>1, <1>2, QuietProcs

LEMMA RecvStep ==
    ASSUME SystemInv, NEW p \in Pids, NEW k, NEW l, At(p, k), sys_recv, Goto(p, l),
           UNCHANGED <<sys_dir, prog>>,
           \/ p \in {GPID_PROCESS, GPID_SHELL}
           \/ p \in Servers /\ k = "recv" /\ l = "serve"
           \/ p = GPID_DIR /\ k = "recv_blk" /\ l = "reply"
           \/ p \in UserPids /\ k = "recv" /\ l = "got"
    PROVE  AnswersAwaited'
<1>0. KernelInv /\ LocalTypeOK /\ AnswersAwaited
  BY DEF SystemInv, BaseInv, AnswersAwaited
<1>1. fatal = "none" /\ p = curr_pid /\ pc[p] = k
  BY DEF At
<1>2. pc'[p] = l /\ prog'[p] = prog[p] /\ \A x \in Pids \ {p} : LocalSame(x)
  BY <1>0, GotoSame
<1>3. RecvsAs(p)
  BY <1>1, <1>2 DEF RecvsAs
<1>4. AnswersAwaited'
  BY <1>0, <1>1, <1>2, <1>3, RecvProcs
<1> QED BY <1>0, <1>4

LEMMA SendsStep ==
    ASSUME SystemInv, BaseInv', NEW p \in Pids, NEW k, NEW l, At(p, k), Goto(p, l),
           NEW r \in Pids, NEW c \in Content, sys_send(r, c), UNCHANGED <<sys_dir, prog>>,
           \/ p = GPID_PROCESS /\ r \in {GPID_FILE, GPID_DIR, GPID_SHELL}
           \/ p = GPID_SHELL /\ r = GPID_PROCESS
           \/ p \in Servers /\ l = "recv" /\ (Owes(p, r) \/ r = GPID_PROCESS)
           \/ p \in UserPids /\ k = "main" /\ l = "recv" /\ r = ServerOf(Head(prog[p]))
           \/ p \in UserPids /\ k = "main" /\ l = "spin" /\ r = GPID_PROCESS
    PROVE  AnswersAwaited'
<1>0. KernelInv /\ LocalTypeOK /\ LocalTypeOK' /\ AnswersAwaited
  BY DEF SystemInv, BaseInv, AnswersAwaited
<1>1. fatal = "none" /\ p = curr_pid /\ pc[p] = k
  BY DEF At
<1>2. pc'[p] = l /\ prog'[p] = prog[p] /\ \A x \in Pids \ {p} : LocalSame(x)
  BY <1>0, GotoSame
<1>3. SendsAs(p, r)
  BY <1>1, <1>2 DEF SendsAs
<1>4. AnswersAwaited'
  BY <1>0, <1>1, <1>2, <1>3, SendProcs
<1> QED BY <1>0, <1>4

-----------------------------------------------------------------------------
LEMMA ProcSteps ==
    ASSUME SystemInv, BaseInv', StartedKept, SysProc
    PROVE  AnswersAwaited'
<1> USE Words, PackTypes
<1>0. KernelInv /\ KernelInv' /\ LocalTypeOK /\ AnswersAwaited /\ sys_proc.req \in Arg
  BY DEF SystemInv, BaseInv, AnswersAwaited, LocalTypeOK
<1> DEFINE P == GPID_PROCESS
<1>1. ASSUME NEW l, Goto(P, l), UNCHANGED <<sys_dir, prog>>,
             ProcAlloc \/ \E p : ElfLoad(p)
      PROVE  AnswersAwaited'
  <2>1. UNCHANGED <<absState, absTarget, absBox>>
    BY <1>0, <1>1, AllocEffect, LoadEffect
  <2>4. \A x \in Pids \ {P} : LocalSame(x)
    BY <1>0, <1>1, GotoSame
  <2>5. \A x \in Pids : IpcSame(x)
    BY <2>1 DEF IpcSame
  <2> QED BY <1>0, <2>4, <2>5, QuietProcs
<1>2. ASSUME NEW l, Goto(P, l), NEW p, ProcReady(p), UNCHANGED sys_dir, P = curr_pid, fatal = "none",
             \A x \in Pids \ {p} : prog'[x] = prog[x]
      PROVE  AnswersAwaited'
  <2>1. p \in Pids /\ ~Started(p) /\ absState'[p] = "idle" /\ \A x \in Pids \ {p} : IpcSame(x)
    BY <1>0, <1>2, ReadyEffect
  <2>2. Started(P)
    BY <1>0, <1>2, CurrentIdle
  <2>3. \A x \in Pids \ {P} : pc'[x] = pc[x]
    BY <1>0, <1>2, GotoType
  <2>4. pc'[p] = pc[p] /\ \A x \in Pids \ {p, P} : LocalSame(x)
    BY <1>2, <2>1, <2>2, <2>3 DEF LocalSame
  <2>5. AnswersAwaited'
    BY <1>0, <2>1, <2>2, <2>4, StartProcs
  <2> QED BY <1>0, <2>1, <2>5
<1>3. ASSUME NEW l, Goto(P, l), NEW p, ProcFree(p) \/ ProcFreeAll, UNCHANGED <<sys_dir, prog>>
      PROVE  AnswersAwaited'
  <2>1. \A x \in Pids : (absState'[x] = "none" /\ x \in UserPids) \/ IpcSame(x)
    BY <1>0, <1>3, FreeEffect
  <2>2. \A x \in Pids \ {P} : LocalSame(x)
    BY <1>0, <1>3, GotoSame
  <2>3. AnswersAwaited'
    BY <1>0, <2>1, <2>2, EndProcs
  <2> QED BY <1>0, <2>1, <2>3
<1>4. CASE BootAlloc \/ BootLoad
  BY <1>1, <1>4 DEF BootAlloc, BootLoad
<1>5. CASE BootReady
  BY <1>2, <1>5 DEF BootReady, At
<1>6. CASE BootRecv \/ ProcRecv \/ ProcAwait
  BY <1>6, RecvStep DEF BootRecv, ProcRecv, ProcAwait
<1>7. CASE ProcDispatch
  <2>1. CASE Received(P).type = PROC_SPAWN
    <3>1. sys_send(GPID_DIR, Pack(DIR_LOOKUP, "bin/")) /\ Goto(P, "recv_bin")
      BY <1>7, <2>1, SMT DEF ProcDispatch, PROC_SPAWN, PROC_EXIT, PROC_KILLALL
    <3>2. At(P, "dispatch") /\ UNCHANGED <<sys_dir, prog>>
      BY <1>7 DEF ProcDispatch
    <3> QED BY <3>1, <3>2, SendsStep
  <2>2. CASE Received(P).type = PROC_EXIT
    BY <1>3, <1>7, <2>2, SMT DEF ProcDispatch, PROC_EXIT, PROC_SPAWN
  <2>3. CASE Received(P).type = PROC_KILLALL
    BY <1>3, <1>7, <2>3, SMT DEF ProcDispatch, PROC_KILLALL, PROC_EXIT, PROC_SPAWN
  <2>4. CASE Received(P).type \notin {PROC_SPAWN, PROC_EXIT, PROC_KILLALL}
    <3>1. Panic("sys_proc") /\ UNCHANGED <<pc, sys_dir, prog>>
      BY <1>7, <2>4 DEF ProcDispatch
    <3> QED BY <3>1, HaltStep DEF Panic
  <2> QED BY <2>1, <2>2, <2>3, <2>4
<1>8. CASE ProcNotify
  <2>1. CASE sys_send(GPID_SHELL, Pack(PROC_EXIT, "text"))
    BY <1>8, <2>1, SendsStep DEF ProcNotify
  <2>2. CASE UNCHANGED grassVars
    BY <1>8, <2>2, PlainStep DEF ProcNotify, grassVars
  <2> QED BY <1>8, <2>1, <2>2 DEF ProcNotify
<1>9. CASE ProcLookupApp
  <2>1. CASE Sender(P) = GPID_DIR
    BY <1>0, <1>9, <2>1, SendsStep DEF ProcLookupApp
  <2>2. CASE Sender(P) # GPID_DIR
    BY <1>9, <2>2, HaltStep DEF ProcLookupApp, Panic
  <2> QED BY <2>1, <2>2
<1>10. CASE ProcAllocApp
  <2>1. CASE Sender(P) # GPID_DIR
    BY <1>10, <2>1, HaltStep DEF ProcAllocApp, Panic
  <2>2. CASE Sender(P) = GPID_DIR /\ Received(P).type # DIR_OK
    BY <1>10, <2>2, PlainStep DEF ProcAllocApp, grassVars
  <2>3. CASE Sender(P) = GPID_DIR /\ Received(P).type = DIR_OK
    BY <1>1, <1>10, <2>3 DEF ProcAllocApp
  <2> QED BY <2>1, <2>2, <2>3
<1>11. CASE ProcRead
  BY <1>11, SendsStep DEF ProcRead
<1>12. CASE ProcGotBlock
  <2>1. CASE Sender(P) # GPID_FILE
    BY <1>12, <2>1, HaltStep DEF ProcGotBlock, Panic
  <2>2. CASE Sender(P) = GPID_FILE /\ sys_proc.blocks = NBlocks
    BY <1>1, <1>12, <2>2 DEF ProcGotBlock
  <2>3. CASE Sender(P) = GPID_FILE /\ sys_proc.blocks # NBlocks
    BY <1>12, <2>3, PlainStep DEF ProcGotBlock, grassVars
  <2> QED BY <2>1, <2>2, <2>3
<1>13. CASE ProcReadyApp
  <2>1. \A x \in Pids \ {sys_proc.app_pid} : prog'[x] = prog[x]
    BY <1>0, <1>13 DEF ProcReadyApp, LocalTypeOK
  <2> QED BY <1>2, <1>13, <2>1 DEF ProcReadyApp, At
<1>14. CASE ProcReply
  BY <1>14, SendsStep DEF ProcReply
<1> HIDE DEF P
<1> QED BY <1>4, <1>5, <1>6, <1>7, <1>8, <1>9, <1>10, <1>11, <1>12, <1>13, <1>14 DEF SysProc

LEMMA ServerSteps ==
    ASSUME SystemInv, BaseInv', StartedKept,
           \/ \E s \in Servers : ServerInit(s) \/ ServerRecv(s)
           \/ FileServe \/ DirServe \/ DirAwait \/ DirReply
    PROVE  AnswersAwaited'
<1> USE Words, PackTypes
<1>0. /\ KernelInv /\ TypeOK /\ LocalTypeOK /\ LocalTypeOK' /\ AnswersAwaited
      /\ sys_dir.sender \in Pids
  BY DEF SystemInv, BaseInv, AnswersAwaited, LocalTypeOK, KernelInv
<1>1. Servers \subseteq Pids /\ GPID_FILE \in Servers /\ GPID_DIR \in Servers
  BY Kinds DEF Servers
<1>2. ASSUME NEW s \in Servers, At(s, "serve")
      PROVE  Sender(s) \in Pids /\ Owes(s, Sender(s)) /\ absState[s] = "idle"
  <2>1. s \in Pids /\ s = curr_pid /\ fatal = "none" /\ pc[s] = "serve"
    BY <1>1, <1>2 DEF At
  <2>2. absState[s] = "idle" /\ absBox[s] = sc[s].msg
    BY <1>0, <2>1, CurrentIdle DEF absBox
  <2> QED BY <1>0, <2>1, <2>2, MsgTypes DEF Owes, Sender
<1>3. ASSUME NEW s \in Servers, ServerInit(s) PROVE AnswersAwaited'
  BY <1>1, <1>3, SendsStep DEF ServerInit
<1>4. ASSUME NEW s \in Servers, ServerRecv(s) PROVE AnswersAwaited'
  BY <1>1, <1>4, RecvStep DEF ServerRecv
<1>5. CASE FileServe
  <2>1. CASE Received(GPID_FILE).type = FILE_READ
    BY <1>1, <1>2, <1>5, <2>1, SendsStep DEF FileServe
  <2>2. CASE Received(GPID_FILE).type # FILE_READ
    BY <1>5, <2>2, HaltStep DEF FileServe, Panic
  <2> QED BY <2>1, <2>2
<1>6. CASE DirServe
  <2>1. CASE Received(GPID_DIR).type = DIR_LOOKUP
    <3>1. /\ sys_dir'.sender = Sender(GPID_DIR) /\ Goto(GPID_DIR, "recv_blk") /\ prog' = prog
          /\ sys_send(GPID_FILE, Pack(FILE_READ, "file")) /\ At(GPID_DIR, "serve")
      BY <1>6, <2>1, SMT DEF DirServe
    <3>2. /\ Owes(GPID_DIR, sys_dir'.sender) /\ absState[GPID_DIR] = "idle"
          /\ GPID_DIR = curr_pid /\ fatal = "none"
      BY <1>1, <1>2, <3>1 DEF At
    <3>3. pc'[GPID_DIR] = "recv_blk" /\ \A x \in Pids \ {GPID_DIR} : pc'[x] = pc[x]
      BY <1>0, <1>1, <3>1, GotoType
    <3>4. SendsAs(GPID_DIR, GPID_FILE)
      BY <1>1, <3>2, <3>3 DEF SendsAs
    <3>5. \A x \in Pids \ {GPID_DIR} : LocalSame(x)
      BY <3>1, <3>3 DEF LocalSame
    <3>6. AnswersAwaited'
      BY <1>0, <3>1, <3>2, <3>4, <3>5, SendProcs
    <3> QED BY <1>0, <3>6
  <2>2. CASE Received(GPID_DIR).type # DIR_LOOKUP
    BY <1>6, <2>2, HaltStep DEF DirServe, Panic
  <2> QED BY <2>1, <2>2
<1>7. CASE DirAwait
  BY <1>1, <1>7, RecvStep DEF DirAwait
<1>8. CASE DirReply
  <2>1. CASE Sender(GPID_DIR) = GPID_FILE
    <3>1. Owes(GPID_DIR, sys_dir.sender) /\ At(GPID_DIR, "reply")
      BY <1>8 DEF DirReply, At, Owes
    <3> QED BY <1>0, <1>1, <1>8, <2>1, <3>1, SendsStep DEF DirReply
  <2>2. CASE Sender(GPID_DIR) # GPID_FILE
    BY <1>8, <2>2, HaltStep DEF DirReply, Panic
  <2> QED BY <2>1, <2>2
<1> QED BY <1>3, <1>4, <1>5, <1>6, <1>7, <1>8, ZenonT(30)

LEMMA ShellSteps ==
    ASSUME SystemInv, BaseInv', StartedKept, Shell \/ ShellReadLine
    PROVE  AnswersAwaited'
<1> USE Words, PackTypes
<1>0. line \in Arg
  BY DEF SystemInv, BaseInv, LocalTypeOK
<1>1. CASE ShellCommand
  <2>1. CASE UNCHANGED grassVars
    BY <1>1, <2>1, PlainStep DEF ShellCommand, grassVars
  <2>2. CASE sys_send(GPID_PROCESS, Pack(PROC_KILLALL, "text")) /\ Goto(GPID_SHELL, "prompt")
    BY <1>1, <2>2, SendsStep DEF ShellCommand
  <2>3. CASE sys_send(GPID_PROCESS, Pack(PROC_SPAWN, line)) /\ Goto(GPID_SHELL, "recv_reply")
    BY <1>0, <1>1, <2>3, SendsStep DEF ShellCommand
  <2> QED BY <1>1, <2>1, <2>2, <2>3 DEF ShellCommand
<1>2. CASE ShellAwaitReply
  BY <1>2, RecvStep DEF ShellAwaitReply
<1>3. CASE ShellGotReply
  <2>1. CASE sys_recv
    BY <1>3, <2>1, RecvStep DEF ShellGotReply
  <2>2. CASE UNCHANGED grassVars
    BY <1>3, <2>2, PlainStep DEF ShellGotReply, grassVars
  <2> QED BY <1>3, <2>1, <2>2 DEF ShellGotReply
<1>4. CASE ShellPrompt
  BY <1>4, PlainStep DEF ShellPrompt, grassVars
<1>5. CASE ShellReadLine
  <2>1. \/ Goto(GPID_SHELL, "cmd")
        \/ Goto(GPID_SHELL, "prompt")
    BY <1>5 DEF ShellReadLine
  <2> QED BY <1>5, <2>1, PlainStep DEF ShellReadLine, grassVars
<1> QED BY <1>1, <1>2, <1>3, <1>4, <1>5 DEF Shell

(* A program of calls to the servers does not fault.                       *)
LEMMA NoFaultProgram ==
    ASSUME NEW s \in Seq(Calls)
    PROVE  s # <<"fault">>
<1>1. "fault" \notin Calls
  BY DEF Calls, CdSteps
<1>2. ASSUME NEW S, NEW x, <<x>> \in Seq(S) PROVE x \in S
  BY <1>2, SMT
<1> QED BY <1>1, <1>2

LEMMA AppSteps ==
    ASSUME SystemInv, BaseInv', StartedKept, NEW p \in UserPids, App(p)
    PROVE  AnswersAwaited'
<1> USE Words, PackTypes
<1>0. KernelInv /\ KernelInv' /\ LocalTypeOK /\ AnswersAwaited /\ p \in Pids
  BY Kinds DEF SystemInv, BaseInv, AnswersAwaited
<1>1. fatal = "none" /\ p = curr_pid
  BY DEF App, AppCall, AppAwait, AppGot, CdSetIno, CdSetPath, At
<1>2. Started(p) /\ absState[p] = "idle" /\ vm \in Pids
  BY <1>0, <1>1, CurrentIdle
<1>3. ASSUME UNCHANGED <<grassVars, sys_dir>>, pc[p] \in {"main", "got"}, pc'[p] \in {"main", "spin"},
             \A x \in Pids \ {p} : pc'[x] = pc[x] /\ prog'[x] = prog[x]
      PROVE  AnswersAwaited'
  <2>1. \A x \in Pids : IpcSame(x)
    BY <1>0, <1>3, SameAbs DEF grassVars
  <2>2. \A x \in Pids \ {p} : LocalSame(x)
    BY <1>3 DEF LocalSame
  <2>3. AnswersAwaited'
    BY <1>0, <1>2, <1>3, <2>1, <2>2, AppProcs
  <2> QED BY <1>0, <2>1, <2>3
<1>4. CASE AppCall(p)
  <2>1. Callee(Head(prog[p])) = ServerOf(Head(prog[p])) /\ Request(Head(prog[p])) \in Content
    BY DEF Callee, ServerOf, Request
  <2>2. ServerOf(Head(prog[p])) \in Pids
    BY Kinds
  <2>3. CASE prog[p] = <<>>
    BY <1>0, <1>4, <2>3, SendsStep, SMT DEF AppCall
  <2>4. CASE prog[p] = <<"fault">>
    BY <1>0, <2>4, NoFaultProgram DEF SystemInv, NoFaultAhead, ProgramsHarmless
  <2>5. CASE sys_send(Callee(Head(prog[p])), Request(Head(prog[p]))) /\ Goto(p, "recv")
    BY <1>0, <1>4, <2>1, <2>2, <2>5, SendsStep DEF AppCall
  <2> QED BY <1>4, <2>3, <2>4, <2>5 DEF AppCall
<1>5. CASE AppAwait(p)
  BY <1>0, <1>5, RecvStep DEF AppAwait
<1>6. CASE AppGot(p)
  <2>1. pc'[p] \in {"main", "spin"} /\ \A x \in Pids \ {p} : pc'[x] = pc[x]
    BY <1>0, <1>6, GotoType DEF AppGot
  <2>2. \A x \in Pids \ {p} : prog'[x] = prog[x]
    BY <1>0, <1>6 DEF AppGot, LocalTypeOK
  <2> QED BY <1>3, <1>6, <2>1, <2>2 DEF AppGot, At
<1>7. CASE CdSetIno(p) \/ CdSetPath(p)
  <2>1. pc[p] = "main" /\ UNCHANGED <<grassVars, pc, sys_dir>>
    BY <1>7 DEF CdSetIno, CdSetPath, At
  <2>2. \A x \in Pids \ {p} : prog'[x] = prog[x]
    BY <1>0, <1>7 DEF CdSetIno, CdSetPath, LocalTypeOK
  <2> QED BY <1>3, <2>1, <2>2
<1> QED BY <1>4, <1>5, <1>6, <1>7 DEF App

LEMMA TimerSteps ==
    ASSUME SystemInv, BaseInv', StartedKept, Timer
    PROVE  AnswersAwaited'
<1>0. KernelInv /\ LocalTypeOK /\ AnswersAwaited
  BY DEF SystemInv, BaseInv, AnswersAwaited
<1>1. PICK b \in {FALSE, CtrlC} :
         /\ intr_entry(b /\ ~is_reading)
         /\ IF b /\ ~is_reading /\ curr_pid \in UserPids
            THEN /\ pc' = [pc EXCEPT ![curr_pid] = "main"]
                 /\ prog' = [prog EXCEPT ![curr_pid] = <<>>]
                 /\ UNCHANGED sys_dir
            ELSE UNCHANGED <<pc, prog, sys_dir>>
  BY DEF Timer, localVars
<1> DEFINE k == b /\ ~is_reading
<1>2. k \in BOOLEAN
  OBVIOUS
<1>3. intr_entry(k)
  BY <1>1
<1> HIDE DEF k
<1>4. IF k /\ curr_pid \in UserPids THEN Killed(curr_pid)
         ELSE UNCHANGED <<absState, absTarget, absBox>>
  BY <1>0, <1>2, <1>3, TimerEffect
<1>5. AnswersAwaited'
  <2>1. CASE k /\ curr_pid \in UserPids
    <3>1. curr_pid \in Pids /\ curr_pid # GPID_SHELL
      BY <2>1, Kinds
    <3>2. /\ pc' = [pc EXCEPT ![curr_pid] = "main"] /\ prog' = [prog EXCEPT ![curr_pid] = <<>>]
          /\ UNCHANGED sys_dir
      BY <1>1, <2>1 DEF k
    <3>3. \A x \in Pids \ {curr_pid} : LocalSame(x)
      BY <1>0, <3>2 DEF LocalSame, LocalTypeOK
    <3>4. pc'[curr_pid] = "main" /\ absState'[curr_pid] = "none"
      BY <1>0, <1>4, <2>1, <3>1, <3>2 DEF LocalTypeOK, Killed
    <3>5. \A x \in Pids : \/ IpcSame(x)
                          \/ x \in UserPids /\ absState'[x] = "none"
                          \/ x = GPID_SHELL /\ absState'[x] \in {"none", "idle"}
      BY <1>4, <2>1, <3>4 DEF Killed
    <3>6. \A x \in Pids : \/ LocalSame(x)
                          \/ x \in UserPids /\ absState'[x] = "none" /\ pc'[x] = "main"
      BY <2>1, <3>3, <3>4
    <3> QED BY <1>0, <3>5, <3>6, EndProcs
  <2>2. CASE ~(k /\ curr_pid \in UserPids)
    <3>1. UNCHANGED <<absState, absTarget, absBox>>
      BY <1>4, <2>2
    <3>2. UNCHANGED <<pc, prog, sys_dir>>
      BY <1>1, <2>2 DEF k
    <3>3. \A x \in Pids : IpcSame(x) /\ LocalSame(x)
      BY <3>1, <3>2 DEF IpcSame, LocalSame
    <3> QED BY <1>0, <3>3, QuietProcs
  <2> QED BY <2>1, <2>2
<1> QED BY <1>0, <1>4, <1>5

-----------------------------------------------------------------------------
(* A command that faults does not get into a message: what a send does,    *)
LEMMA SendMessages ==
    ASSUME KernelInv, MessagesHarmless, fatal = "none", NEW r \in Pids, NEW c, SendStep(r, c),
           c.arg # "crash1",
           pc'[GPID_PROCESS] = "dispatch" => curr_pid # GPID_PROCESS /\ pc[GPID_PROCESS] = "dispatch"
    PROVE  MessagesHarmless'
<1> DEFINE p == curr_pid
           g == IPC!MessageTo(p, r, c)
<1>1. p \in Pids /\ AreFunctions /\ GPID_PROCESS \in Pids
  BY CurrentIdle, AbsFunctions, Kinds
<1>2. g.content.arg # "crash1"
  BY DEF IPC!MessageTo
<1>3. IPC!SendBlocks(p, r, g) \/ IPC!SendDelivers(p, r, g) \/ IPC!SendFails(p, r, g)
  BY DEF SendStep
<1> HIDE DEF g
<1>4. CASE IPC!SendBlocks(p, r, g)
  BY <1>1, <1>2, <1>4 DEF IPC!SendBlocks, AreFunctions, MessagesHarmless
<1>5. CASE IPC!SendDelivers(p, r, g)
  BY <1>1, <1>2, <1>5 DEF IPC!SendDelivers, AreFunctions, MessagesHarmless
<1>6. CASE IPC!SendFails(p, r, g)
  BY <1>1, <1>2, <1>6 DEF IPC!SendFails, AreFunctions, MessagesHarmless
<1> QED BY <1>3, <1>4, <1>5, <1>6

(* what a receive does,                                                    *)
LEMMA RecvMessages ==
    ASSUME KernelInv, MessagesHarmless, fatal = "none",
           IPC!RecvBlocks(curr_pid) \/ \E q \in Pids : IPC!RecvTakes(curr_pid, q),
           pc'[GPID_PROCESS] = "dispatch" => curr_pid = GPID_PROCESS \/ pc[GPID_PROCESS] = "dispatch"
    PROVE  MessagesHarmless'
<1> DEFINE p == curr_pid
<1>1. p \in Pids /\ AreFunctions /\ GPID_PROCESS \in Pids
  BY CurrentIdle, AbsFunctions, Kinds
<1>2. CASE IPC!RecvBlocks(p)
  BY <1>1, <1>2 DEF IPC!RecvBlocks, AreFunctions, MessagesHarmless
<1>3. ASSUME NEW q \in Pids, IPC!RecvTakes(p, q) PROVE MessagesHarmless'
  <2>1. absState[q] = "sending" /\ absState[p] = "idle" /\ absBox'[p] = absBox[q]
    BY <1>1, <1>3 DEF IPC!RecvTakes, AreFunctions
  <2>2. \A x \in Pids : absState'[x] = (IF x = q THEN "idle" ELSE absState[x])
    BY <1>1, <1>3 DEF IPC!RecvTakes, AreFunctions
  <2>3. \A x \in Pids \ {p} : absBox'[x] = absBox[x]
    BY <1>1, <1>3 DEF IPC!RecvTakes, AreFunctions
  <2>4. \A x \in Pids : absState'[x] = "sending" => absBox'[x].content.arg # "crash1"
    BY <2>1, <2>2, <2>3 DEF MessagesHarmless
  <2>5. ASSUME pc'[GPID_PROCESS] = "dispatch", absState'[GPID_PROCESS] = "idle"
        PROVE  absBox'[GPID_PROCESS].content.arg # "crash1"
    <3>1. CASE p = GPID_PROCESS
      BY <1>3, <2>1, <3>1 DEF MessagesHarmless
    <3>2. CASE p # GPID_PROCESS
      BY <1>1, <2>1, <2>2, <2>3, <2>5, <3>2 DEF MessagesHarmless
    <3> QED BY <3>1, <3>2
  <2> QED BY <2>4, <2>5 DEF MessagesHarmless
<1> QED BY <1>2, <1>3

(* and what else happens to the processes.                                 *)
LEMMA StillMessages ==
    ASSUME MessagesHarmless,
           \A x \in Pids : IpcSame(x) \/ (x # GPID_PROCESS /\ absState'[x] # "sending"),
           pc'[GPID_PROCESS] = "dispatch" => pc[GPID_PROCESS] = "dispatch"
    PROVE  MessagesHarmless'
<1>1. GPID_PROCESS \in Pids
  BY Kinds
<1> QED BY <1>1 DEF MessagesHarmless, IpcSame

(* The programs are those of the apps, as they were.                       *)
LEMMA SamePrograms ==
    ASSUME ProgramsHarmless, prog' = prog,
           \A x \in UserPids : pc'[x] \in {"recv", "got"} => pc[x] \in {"recv", "got"}
                                                            \/ prog[x] # <<>>
    PROVE  ProgramsHarmless'
BY DEF ProgramsHarmless

Harmless == MessagesHarmless' /\ ProgramsHarmless'

LEMMA HarmlessSend ==
    ASSUME SystemInv, NEW p \in Pids, NEW k, NEW l, At(p, k), Goto(p, l), l # "dispatch",
           NEW r \in Pids, NEW c \in Content, c.arg # "crash1", sys_send(r, c), prog' = prog,
           p \in UserPids => l = "spin" \/ prog[p] # <<>>
    PROVE  Harmless
<1>1. KernelInv /\ LocalTypeOK /\ MessagesHarmless /\ ProgramsHarmless /\ fatal = "none" /\ p = curr_pid
  BY DEF SystemInv, BaseInv, NoFaultAhead, At
<1>2. pc'[p] = l /\ \A x \in Pids \ {p} : pc'[x] = pc[x]
  BY <1>1, GotoType
<1>3. SendStep(r, c)
  BY <1>1, SendEffect
<1>4. MessagesHarmless'
  BY <1>1, <1>2, <1>3, SendMessages, Kinds
<1>5. ProgramsHarmless'
  BY <1>1, <1>2, SamePrograms, Kinds
<1> QED BY <1>4, <1>5 DEF Harmless

LEMMA HarmlessRecv ==
    ASSUME SystemInv, NEW p \in Pids, NEW k, NEW l, At(p, k), Goto(p, l), sys_recv, prog' = prog,
           p \in UserPids => k = "recv"
    PROVE  Harmless
<1>1. KernelInv /\ LocalTypeOK /\ MessagesHarmless /\ ProgramsHarmless /\ fatal = "none" /\ p = curr_pid
  BY DEF SystemInv, BaseInv, NoFaultAhead, At
<1>2. pc'[p] = l /\ pc[p] = k /\ \A x \in Pids \ {p} : pc'[x] = pc[x]
  BY <1>1, GotoType DEF At
<1>3. IPC!RecvBlocks(curr_pid) \/ \E q \in Pids : IPC!RecvTakes(curr_pid, q)
  BY <1>1, RecvEffect
<1>4. MessagesHarmless'
  BY <1>1, <1>2, <1>3, RecvMessages, Kinds
<1>5. ProgramsHarmless'
  BY <1>1, <1>2, SamePrograms, Kinds
<1> QED BY <1>4, <1>5 DEF Harmless

LEMMA HarmlessStill ==
    ASSUME SystemInv, NEW p \in {GPID_PROCESS, GPID_SHELL}, NEW l, Goto(p, l), l # "dispatch",
           prog' = prog,
           \A x \in Pids : IpcSame(x) \/ (x # GPID_PROCESS /\ absState'[x] # "sending")
    PROVE  Harmless
<1>1. LocalTypeOK /\ MessagesHarmless /\ ProgramsHarmless /\ p \in Pids
  BY Kinds DEF SystemInv, BaseInv, NoFaultAhead
<1>2. pc'[p] = l /\ \A x \in Pids \ {p} : pc'[x] = pc[x]
  BY <1>1, GotoType
<1>3. MessagesHarmless'
  BY <1>1, <1>2, StillMessages, Kinds
<1>4. ProgramsHarmless'
  BY <1>1, <1>2, SamePrograms, Kinds
<1> QED BY <1>3, <1>4 DEF Harmless

(* a process that stops the system, or does nothing the others see *)
LEMMA HarmlessHalt ==
    ASSUME SystemInv, BaseInv', UNCHANGED <<pc, prog>>, UNCHANGED <<pid, status, receiver_pid, sc>>
    PROVE  Harmless
<1>1. KernelInv /\ KernelInv' /\ MessagesHarmless /\ ProgramsHarmless
  BY DEF SystemInv, BaseInv, NoFaultAhead
<1>2. \A x \in Pids : IpcSame(x)
  BY <1>1, SameAbs
<1>3. MessagesHarmless'
  BY <1>1, <1>2, StillMessages
<1>4. ProgramsHarmless'
  BY <1>1, SamePrograms
<1> QED BY <1>3, <1>4 DEF Harmless

LEMMA HarmlessPlain ==
    ASSUME SystemInv, BaseInv', NEW p \in {GPID_PROCESS, GPID_SHELL}, NEW l, Goto(p, l),
           l # "dispatch", prog' = prog, UNCHANGED <<pid, status, receiver_pid, sc>>
    PROVE  Harmless
<1>1. KernelInv /\ KernelInv'
  BY DEF SystemInv, BaseInv
<1>2. \A x \in Pids : IpcSame(x)
  BY <1>1, SameAbs
<1> QED BY <1>2, HarmlessStill

(* The request sys_proc takes is the one it received.                      *)
LEMMA TakenHarmless ==
    ASSUME SystemInv, At(GPID_PROCESS, "dispatch")
    PROVE  Received(GPID_PROCESS).arg # "crash1"
<1>1. KernelInv /\ MessagesHarmless /\ fatal = "none" /\ GPID_PROCESS = curr_pid
      /\ pc[GPID_PROCESS] = "dispatch"
  BY DEF SystemInv, BaseInv, NoFaultAhead, At
<1>2. absState[GPID_PROCESS] = "idle" /\ absBox[GPID_PROCESS] = sc[GPID_PROCESS].msg
  BY <1>1, CurrentIdle
<1> QED BY <1>1, <1>2 DEF MessagesHarmless, Received

LEMMA EmptyOfCalls == <<>> \in Seq(Calls)
BY SMT

(* The programs of the commands that do not fault                          *)
LEMMA ProgramsOfCalls ==
    ASSUME NEW l, l # "crash1", NEW s \in Programs(l)
    PROVE  s \in Seq(Calls)
<1>1. ASSUME NEW S, NEW a \in S, NEW b \in S, NEW c \in S, NEW d \in S
      PROVE  /\ <<>> \in Seq(S) /\ <<a>> \in Seq(S) /\ <<a, b>> \in Seq(S)
             /\ <<a, b, c>> \in Seq(S) /\ <<a, b, c, d>> \in Seq(S)
  BY <1>1, SMT
<1>2. {"dir", "dir home", "dir ..", "dir yunhao", "file", "set", "path home", "path ..",
       "path yunhao"} \subseteq Calls
  BY DEF Calls, CdSteps
<1>3. CASE l = "cd"
  <2>1. Programs(l) = {<<"dir", "dir home", "set", "path home">>}
    BY <1>3 DEF Programs
  <2>2. <<"dir", "dir home", "set", "path home">> \in Seq(Calls)
    BY <1>1, <1>2
  <2> QED BY <2>1, <2>2
<1>4. CASE l = "cd .."
  <2>1. Programs(l) = {<<"dir ..", "set", "path ..">>}
    BY <1>4 DEF Programs
  <2>2. <<"dir ..", "set", "path ..">> \in Seq(Calls)
    BY <1>1, <1>2
  <2> QED BY <2>1, <2>2
<1>5. CASE l = "cd yunhao"
  <2>1. Programs(l) = {<<"dir yunhao", "set", "path yunhao">>}
    BY <1>5 DEF Programs
  <2>2. <<"dir yunhao", "set", "path yunhao">> \in Seq(Calls)
    BY <1>1, <1>2
  <2> QED BY <2>1, <2>2
<1>6. CASE l = "cat" \/ l = "cat &"
  BY <1>1, <1>2, <1>6 DEF Programs
<1>7. CASE l = "ls"
  BY <1>1, <1>2, <1>7 DEF Programs
<1>8. CASE l \notin {"cd", "cd ..", "cd yunhao", "cat", "cat &", "ls"}
  <2>1. Programs(l) = {<<>>}
    BY <1>8 DEF Programs
  <2> QED BY <2>1, EmptyOfCalls
<1> QED BY <1>3, <1>4, <1>5, <1>6, <1>7, <1>8

LEMMA TailOfCalls ==
    ASSUME NEW s \in Seq(Calls), s # <<>>
    PROVE  Tail(s) \in Seq(Calls)
<1>1. ASSUME NEW S, NEW t \in Seq(S), t # <<>> PROVE Tail(t) \in Seq(S)
  BY <1>1, SMT
<1> QED BY <1>1

(* The words the programs put into their messages                          *)
LEMMA HarmlessWords ==
    /\ "text" # "crash1" /\ "file" # "crash1" /\ "bin/" # "crash1"
    /\ \A t, a : Pack(t, a).arg = a
BY DEF Pack

LEMMA ProcHarmless ==
    ASSUME SystemInv, BaseInv', SysProc
    PROVE  Harmless /\ sys_proc'.req # "crash1"
<1> USE Words, PackTypes, HarmlessWords
<1> DEFINE P == GPID_PROCESS
<1>0. /\ KernelInv /\ KernelInv' /\ LocalTypeOK /\ MessagesHarmless /\ ProgramsHarmless
      /\ AnswersAwaited /\ sys_proc.req \in Arg /\ sys_proc.req # "crash1" /\ P \notin UserPids
      /\ P \in Pids
  BY Kinds DEF SystemInv, BaseInv, NoFaultAhead, LocalTypeOK
<1>1. sys_proc'.req # "crash1"
  <2>1. CASE sys_proc'.req = sys_proc.req
    BY <1>0, <2>1
  <2>2. CASE ProcDispatch
    <3>1. sys_proc'.req = Received(P).arg
      BY <1>0, <2>2 DEF ProcDispatch, LocalTypeOK
    <3> QED BY <2>2, <3>1, TakenHarmless DEF ProcDispatch
  <2>3. sys_proc'.req = sys_proc.req \/ ProcDispatch
    BY <1>0 DEF SysProc, BootAlloc, BootLoad, BootReady, BootRecv, ProcRecv, ProcNotify, ProcAwait,
                ProcLookupApp, ProcAllocApp, ProcRead, ProcGotBlock, ProcReadyApp, ProcReply,
                LocalTypeOK
  <2> QED BY <2>1, <2>2, <2>3
<1> SUFFICES Harmless
  BY <1>1
<1>2. ASSUME NEW l, Goto(P, l), l # "dispatch", prog' = prog,
             ProcAlloc \/ (\E p : ElfLoad(p)) \/ (\E p : ProcFree(p)) \/ ProcFreeAll
      PROVE  Harmless
  <2>1. \A x \in Pids : IpcSame(x) \/ (x # P /\ absState'[x] # "sending")
    BY <1>0, <1>2, AllocEffect, LoadEffect, FreeEffect DEF IpcSame
  <2> QED BY <1>2, <2>1, HarmlessStill
<1>3. ASSUME NEW p, ProcReady(p), At(P, "spawn_ready") \/ At(P, "ready")
      PROVE  /\ p \in Pids /\ p # P /\ (p \in UserPids => pc[p] = "main")
             /\ \A x \in Pids : IpcSame(x) \/ (x # P /\ absState'[x] # "sending")
  <2>1. Started(P)
    BY <1>0, <1>3, CurrentIdle DEF At
  <2>2. p \in Pids /\ ~Started(p) /\ absState'[p] = "idle" /\ \A x \in Pids \ {p} : IpcSame(x)
    BY <1>0, <1>3, ReadyEffect
  <2>3. p \in UserPids => pc[p] = "main"
    BY <1>0, <2>2, Kinds DEF AnswersAwaited, ProcInv, AppInv
  <2> QED BY <2>1, <2>2, <2>3
<1>4. CASE BootAlloc \/ BootLoad
  BY <1>2, <1>4 DEF BootAlloc, BootLoad
<1>5. CASE BootReady
  <2>1. \A x \in Pids : IpcSame(x) \/ (x # P /\ absState'[x] # "sending")
    BY <1>3, <1>5 DEF BootReady
  <2> QED BY <1>5, <2>1, HarmlessStill DEF BootReady
<1>6. CASE BootRecv \/ ProcRecv \/ ProcAwait
  BY <1>0, <1>6, HarmlessRecv DEF BootRecv, ProcRecv, ProcAwait
<1>7. CASE ProcDispatch
  <2>1. CASE Received(P).type = PROC_SPAWN
    <3>1. sys_send(GPID_DIR, Pack(DIR_LOOKUP, "bin/")) /\ Goto(P, "recv_bin")
      BY <1>7, <2>1, SMT DEF ProcDispatch, PROC_SPAWN, PROC_EXIT, PROC_KILLALL
    <3>2. At(P, "dispatch") /\ prog' = prog
      BY <1>7 DEF ProcDispatch
    <3> QED BY <1>0, <3>1, <3>2, HarmlessSend
  <2>2. CASE Received(P).type = PROC_EXIT
    BY <1>2, <1>7, <2>2, SMT DEF ProcDispatch, PROC_EXIT, PROC_SPAWN
  <2>3. CASE Received(P).type = PROC_KILLALL
    BY <1>2, <1>7, <2>3, SMT DEF ProcDispatch, PROC_KILLALL, PROC_EXIT, PROC_SPAWN
  <2>4. CASE Received(P).type \notin {PROC_SPAWN, PROC_EXIT, PROC_KILLALL}
    <3>1. Panic("sys_proc") /\ UNCHANGED <<pc, prog>>
      BY <1>7, <2>4 DEF ProcDispatch
    <3> QED BY <3>1, HarmlessHalt DEF Panic
  <2> QED BY <2>1, <2>2, <2>3, <2>4
<1>8. CASE ProcNotify
  <2>1. CASE sys_send(GPID_SHELL, Pack(PROC_EXIT, "text"))
    BY <1>0, <1>8, <2>1, HarmlessSend DEF ProcNotify
  <2>2. CASE UNCHANGED grassVars
    BY <1>8, <2>2, HarmlessPlain DEF ProcNotify, grassVars
  <2> QED BY <1>8, <2>1, <2>2 DEF ProcNotify
<1>9. CASE ProcLookupApp
  <2>1. CASE Sender(P) = GPID_DIR
    BY <1>0, <1>9, <2>1, HarmlessSend DEF ProcLookupApp
  <2>2. CASE Sender(P) # GPID_DIR
    BY <1>9, <2>2, HarmlessHalt DEF ProcLookupApp, Panic
  <2> QED BY <2>1, <2>2
<1>10. CASE ProcAllocApp
  <2>1. CASE Sender(P) # GPID_DIR
    BY <1>10, <2>1, HarmlessHalt DEF ProcAllocApp, Panic
  <2>2. CASE Sender(P) = GPID_DIR /\ Received(P).type # DIR_OK
    BY <1>10, <2>2, HarmlessPlain DEF ProcAllocApp, grassVars
  <2>3. CASE Sender(P) = GPID_DIR /\ Received(P).type = DIR_OK
    BY <1>2, <1>10, <2>3 DEF ProcAllocApp
  <2> QED BY <2>1, <2>2, <2>3
<1>11. CASE ProcRead
  BY <1>0, <1>11, HarmlessSend DEF ProcRead
<1>12. CASE ProcGotBlock
  <2>1. CASE Sender(P) # GPID_FILE
    BY <1>12, <2>1, HarmlessHalt DEF ProcGotBlock, Panic
  <2>2. CASE Sender(P) = GPID_FILE /\ sys_proc.blocks = NBlocks
    BY <1>2, <1>12, <2>2 DEF ProcGotBlock
  <2>3. CASE Sender(P) = GPID_FILE /\ sys_proc.blocks # NBlocks
    BY <1>12, <2>3, HarmlessPlain DEF ProcGotBlock, grassVars
  <2> QED BY <2>1, <2>2, <2>3
<1>13. CASE ProcReadyApp
  <2> DEFINE q == sys_proc.app_pid
  <2>1. q \in Pids /\ (q \in UserPids => pc[q] = "main")
        /\ \A x \in Pids : IpcSame(x) \/ (x # P /\ absState'[x] # "sending")
    BY <1>3, <1>13 DEF ProcReadyApp
  <2>2. PICK w \in Programs(sys_proc.req) : prog' = [prog EXCEPT ![q] = w]
    BY <1>13 DEF ProcReadyApp
  <2>3. w \in Seq(Calls)
    BY <1>0, ProgramsOfCalls
  <2>4. prog'[q] = w /\ \A x \in Pids \ {q} : prog'[x] = prog[x]
    BY <1>0, <2>1, <2>2 DEF LocalTypeOK
  <2>5. pc'[P] = "reply_ok" /\ \A x \in Pids \ {P} : pc'[x] = pc[x]
    BY <1>0, <1>13, GotoType DEF ProcReadyApp
  <2>6. MessagesHarmless'
    BY <1>0, <2>1, <2>5, StillMessages
  <2>7. \A x \in UserPids : x \in Pids /\ pc'[x] = pc[x]
    BY <1>0, <2>5, Kinds
  <2>8. ProgramsHarmless'
    BY <1>0, <2>1, <2>3, <2>4, <2>7 DEF ProgramsHarmless
  <2> QED BY <2>6, <2>8 DEF Harmless
<1>14. CASE ProcReply
  BY <1>0, <1>14, HarmlessSend DEF ProcReply
<1> HIDE DEF P
<1> QED BY <1>4, <1>5, <1>6, <1>7, <1>8, <1>9, <1>10, <1>11, <1>12, <1>13, <1>14 DEF SysProc

LEMMA ServersHarmless ==
    ASSUME SystemInv, BaseInv',
           \/ \E s \in Servers : ServerInit(s) \/ ServerRecv(s)
           \/ FileServe \/ DirServe \/ DirAwait \/ DirReply
    PROVE  Harmless
<1> USE Words, PackTypes, HarmlessWords
<1>0. TypeOK /\ sys_dir.sender \in Pids
  BY DEF SystemInv, BaseInv, LocalTypeOK, KernelInv
<1>1. /\ GPID_FILE \in Servers /\ GPID_DIR \in Servers
      /\ \A s \in Servers : s \in Pids /\ s \notin UserPids /\ Sender(s) \in Pids
  BY <1>0, Kinds, MsgTypes DEF Servers
<1>2. ASSUME NEW s \in Servers, ServerInit(s) PROVE Harmless
  BY <1>1, <1>2, HarmlessSend DEF ServerInit
<1>3. ASSUME NEW s \in Servers, ServerRecv(s) PROVE Harmless
  BY <1>1, <1>3, HarmlessRecv DEF ServerRecv
<1>4. CASE FileServe
  <2>1. CASE Received(GPID_FILE).type = FILE_READ
    BY <1>1, <1>4, <2>1, HarmlessSend DEF FileServe
  <2>2. CASE Received(GPID_FILE).type # FILE_READ
    BY <1>4, <2>2, HarmlessHalt DEF FileServe, Panic
  <2> QED BY <2>1, <2>2
<1>5. CASE DirServe
  <2>1. CASE Received(GPID_DIR).type = DIR_LOOKUP
    <3>1. /\ Goto(GPID_DIR, "recv_blk") /\ prog' = prog /\ At(GPID_DIR, "serve")
          /\ sys_send(GPID_FILE, Pack(FILE_READ, "file"))
      BY <1>5, <2>1, SMT DEF DirServe
    <3> QED BY <1>1, <3>1, HarmlessSend
  <2>2. CASE Received(GPID_DIR).type # DIR_LOOKUP
    BY <1>5, <2>2, HarmlessHalt DEF DirServe, Panic
  <2> QED BY <2>1, <2>2
<1>6. CASE DirAwait
  BY <1>1, <1>6, HarmlessRecv DEF DirAwait
<1>7. CASE DirReply
  <2>1. CASE Sender(GPID_DIR) = GPID_FILE
    BY <1>0, <1>1, <1>7, <2>1, HarmlessSend DEF DirReply
  <2>2. CASE Sender(GPID_DIR) # GPID_FILE
    BY <1>7, <2>2, HarmlessHalt DEF DirReply, Panic
  <2> QED BY <2>1, <2>2
<1> QED BY <1>2, <1>3, <1>4, <1>5, <1>6, <1>7, ZenonT(30)

LEMMA ShellHarmless ==
    ASSUME "crash1" \notin Lines, SystemInv, BaseInv', Shell \/ ShellReadLine
    PROVE  Harmless /\ line' # "crash1"
<1> USE Words, PackTypes, HarmlessWords
<1>0. line \in Arg /\ line # "crash1" /\ GPID_SHELL \notin UserPids /\ GPID_SHELL \in Pids
  BY Kinds DEF SystemInv, BaseInv, LocalTypeOK, NoFaultAhead
<1>1. line' # "crash1"
  BY <1>0 DEF Shell, ShellCommand, ShellAwaitReply, ShellGotReply, ShellPrompt, ShellReadLine
<1> SUFFICES Harmless
  BY <1>1
<1>2. CASE ShellCommand
  <2>1. CASE UNCHANGED grassVars
    BY <1>2, <2>1, HarmlessPlain DEF ShellCommand, grassVars
  <2>2. CASE sys_send(GPID_PROCESS, Pack(PROC_KILLALL, "text")) /\ Goto(GPID_SHELL, "prompt")
    BY <1>0, <1>2, <2>2, HarmlessSend DEF ShellCommand
  <2>3. CASE sys_send(GPID_PROCESS, Pack(PROC_SPAWN, line)) /\ Goto(GPID_SHELL, "recv_reply")
    BY <1>0, <1>2, <2>3, HarmlessSend DEF ShellCommand
  <2> QED BY <1>2, <2>1, <2>2, <2>3 DEF ShellCommand
<1>3. CASE ShellAwaitReply
  BY <1>0, <1>3, HarmlessRecv DEF ShellAwaitReply
<1>4. CASE ShellGotReply
  <2>1. CASE sys_recv
    BY <1>0, <1>4, <2>1, HarmlessRecv DEF ShellGotReply
  <2>2. CASE UNCHANGED grassVars
    BY <1>4, <2>2, HarmlessPlain DEF ShellGotReply, grassVars
  <2> QED BY <1>4, <2>1, <2>2 DEF ShellGotReply
<1>5. CASE ShellPrompt
  BY <1>5, HarmlessPlain DEF ShellPrompt, grassVars
<1>6. CASE ShellReadLine
  <2>1. Goto(GPID_SHELL, "cmd") \/ Goto(GPID_SHELL, "prompt")
    BY <1>6 DEF ShellReadLine
  <2> QED BY <1>6, <2>1, HarmlessPlain DEF ShellReadLine, grassVars
<1> QED BY <1>2, <1>3, <1>4, <1>5, <1>6 DEF Shell

LEMMA AppsHarmless ==
    ASSUME SystemInv, BaseInv', NEW p \in UserPids, App(p)
    PROVE  Harmless
<1> USE Words, PackTypes, HarmlessWords
<1>0. /\ KernelInv /\ KernelInv' /\ LocalTypeOK /\ MessagesHarmless /\ ProgramsHarmless
      /\ p \in Pids /\ prog[p] \in Seq(Calls) /\ GPID_PROCESS \notin UserPids
  BY Kinds DEF SystemInv, BaseInv, NoFaultAhead, ProgramsHarmless
<1>1. ASSUME UNCHANGED grassVars, pc'[p] \notin {"recv", "got"}, prog'[p] \in Seq(Calls),
             \A x \in Pids \ {p} : pc'[x] = pc[x] /\ prog'[x] = prog[x]
      PROVE  Harmless
  <2>1. \A x \in Pids : IpcSame(x)
    BY <1>0, <1>1, SameAbs DEF grassVars
  <2>2. MessagesHarmless'
    BY <1>0, <1>1, <2>1, StillMessages, Kinds
  <2>3. \A x \in UserPids : x \in Pids
    BY Kinds
  <2>4. ProgramsHarmless'
    BY <1>0, <1>1, <2>3 DEF ProgramsHarmless
  <2> QED BY <2>2, <2>4 DEF Harmless
<1>2. CASE AppCall(p)
  <2>1. Callee(Head(prog[p])) \in Pids /\ Request(Head(prog[p])) \in Content
        /\ Request(Head(prog[p])).arg # "crash1"
    BY DEF Callee, Request
  <2>2. CASE prog[p] = <<>>
    BY <1>0, <1>2, <2>2, HarmlessSend, SMT DEF AppCall
  <2>3. CASE prog[p] # <<>> /\ sys_send(Callee(Head(prog[p])), Request(Head(prog[p]))) /\ Goto(p, "recv")
    BY <1>0, <1>2, <2>1, <2>3, HarmlessSend DEF AppCall
  <2>4. prog[p] # <<"fault">>
    BY <1>0, NoFaultProgram
  <2> QED BY <1>2, <2>2, <2>3, <2>4 DEF AppCall
<1>3. CASE AppAwait(p)
  BY <1>0, <1>3, HarmlessRecv DEF AppAwait
<1>4. CASE AppGot(p)
  <2>1. pc'[p] \in {"main", "spin"} /\ \A x \in Pids \ {p} : pc'[x] = pc[x]
    BY <1>0, <1>4, GotoType DEF AppGot
  <2>2. prog'[p] = Tail(prog[p]) /\ \A x \in Pids \ {p} : prog'[x] = prog[x]
    BY <1>0, <1>4 DEF AppGot, LocalTypeOK
  <2>3. prog[p] # <<>>
    BY <1>0, <1>4 DEF AppGot, At, ProgramsHarmless
  <2>4. Tail(prog[p]) \in Seq(Calls)
    BY <1>0, <2>3, TailOfCalls
  <2> QED BY <1>1, <1>4, <2>1, <2>2, <2>4 DEF AppGot
<1>5. CASE CdSetIno(p) \/ CdSetPath(p)
  <2>1. pc[p] = "main" /\ UNCHANGED <<grassVars, pc>> /\ prog[p] # <<>>
    BY <1>5 DEF CdSetIno, CdSetPath, At
  <2>2. prog'[p] \in {Tail(prog[p]), <<>>} /\ \A x \in Pids \ {p} : prog'[x] = prog[x]
    BY <1>0, <1>5 DEF CdSetIno, CdSetPath, LocalTypeOK
  <2>3. Tail(prog[p]) \in Seq(Calls) /\ <<>> \in Seq(Calls)
    BY <1>0, <2>1, TailOfCalls, EmptyOfCalls
  <2> QED BY <1>1, <2>1, <2>2, <2>3
<1> QED BY <1>2, <1>3, <1>4, <1>5 DEF App

LEMMA TimerHarmless ==
    ASSUME SystemInv, BaseInv', Timer
    PROVE  Harmless
<1>0. /\ KernelInv /\ LocalTypeOK /\ MessagesHarmless /\ ProgramsHarmless
      /\ GPID_PROCESS \notin UserPids /\ GPID_SHELL # GPID_PROCESS
  BY Kinds DEF SystemInv, BaseInv, NoFaultAhead
<1>1. PICK b \in {FALSE, CtrlC} :
         /\ intr_entry(b /\ ~is_reading)
         /\ IF b /\ ~is_reading /\ curr_pid \in UserPids
            THEN /\ pc' = [pc EXCEPT ![curr_pid] = "main"]
                 /\ prog' = [prog EXCEPT ![curr_pid] = <<>>]
            ELSE UNCHANGED <<pc, prog>>
  BY DEF Timer, localVars
<1> DEFINE k == b /\ ~is_reading
<1>2. k \in BOOLEAN /\ intr_entry(k)
  BY <1>1
<1> HIDE DEF k
<1>3. IF k /\ curr_pid \in UserPids THEN Killed(curr_pid)
      ELSE UNCHANGED <<absState, absTarget, absBox>>
  BY <1>0, <1>2, TimerEffect
<1>4. \A x \in Pids : IpcSame(x) \/ (x # GPID_PROCESS /\ absState'[x] # "sending")
  BY <1>0, <1>3 DEF Killed, IpcSame
<1>5. \A x \in Pids : \/ pc'[x] = pc[x] /\ prog'[x] = prog[x]
                      \/ x \in UserPids /\ pc'[x] = "main" /\ prog'[x] = <<>>
  BY <1>0, <1>1 DEF LocalTypeOK, k
<1>6. MessagesHarmless'
  BY <1>0, <1>4, <1>5, StillMessages, Kinds
<1>7. \A x \in UserPids : x \in Pids
  BY Kinds
<1>8. ProgramsHarmless'
  BY <1>0, <1>5, <1>7, EmptyOfCalls DEF ProgramsHarmless
<1> QED BY <1>6, <1>8 DEF Harmless

LEMMA SystemStep ==
    ASSUME "crash1" \notin Lines, SystemInv, [SysNext]_sysVars
    PROVE  SystemInv'
<1>1. BaseInv' /\ StartedKept
  BY BaseStep DEF SystemInv
<1>2. ASSUME UNCHANGED sysVars \/ (Halted /\ UNCHANGED localVars)
      PROVE  AnswersAwaited' /\ Harmless
  <2>1. UNCHANGED <<pc, sys_dir, prog>> /\ UNCHANGED <<pid, status, receiver_pid, sc>>
    BY <1>2 DEF sysVars, localVars, grassVars, Halted
  <2> QED BY <1>1, <2>1, HaltStep, HarmlessHalt
<1>3. AnswersAwaited'
  BY <1>1, <1>2, ProcSteps, ServerSteps, ShellSteps, AppSteps, TimerSteps DEF SysNext
<1>4. Harmless
  BY <1>1, <1>2, ProcHarmless, ServersHarmless, ShellHarmless, AppsHarmless, TimerHarmless DEF SysNext
<1>5. line # "crash1" /\ sys_proc.req # "crash1"
  BY DEF SystemInv, NoFaultAhead
<1>6. line' # "crash1"
  <2>1. line' = line \/ Shell \/ ShellReadLine
    BY DEF SysNext, sysVars, localVars, SysProc, BootAlloc, BootLoad, BootReady, BootRecv, ProcRecv,
           ProcDispatch, ProcNotify, ProcAwait, ProcLookupApp, ProcAllocApp, ProcRead, ProcGotBlock,
           ProcReadyApp, ProcReply, ServerInit, ServerRecv, FileServe, DirServe, DirAwait, DirReply,
           App, AppCall, AppAwait, AppGot, CdSetIno, CdSetPath, Timer
  <2> QED BY <1>1, <1>5, <2>1, ShellHarmless
<1>7. sys_proc'.req # "crash1"
  <2>1. sys_proc' = sys_proc \/ SysProc
    BY DEF SysNext, sysVars, localVars, ServerInit, ServerRecv, FileServe, DirServe, DirAwait,
           DirReply, Shell, ShellCommand, ShellAwaitReply, ShellGotReply, ShellPrompt, ShellReadLine,
           App, AppCall, AppAwait, AppGot, CdSetIno, CdSetPath, Timer
  <2> QED BY <1>1, <1>5, <2>1, ProcHarmless
<1> QED BY <1>1, <1>3, <1>4, <1>6, <1>7 DEF SystemInv, NoFaultAhead, Harmless

LEMMA SystemStart ==
    ASSUME SysInit
    PROVE  SystemInv
<1>1. BaseInv /\ KernelInv /\ Init
  BY BaseInit DEF BaseInv, SysInit
<1>3. \A x \in Pids : absState[x] \in {"none", "idle"}
  <2>1. \A i \in Slots : status[i] \in {"UNUSED", "RUNNING"}
    BY <1>1 DEF Init
  <2> QED BY <1>1, <2>1 DEF absState, SlotOf, AbstractState, Schedulable
<1>4. \A q \in UserPids : pc[q] = "main"
  BY Kinds DEF SysInit, Servers
<1>5. \A s \in Servers : pc[s] = "init"
  BY Kinds DEF SysInit, Servers
<1>6. ASSUME NEW x \in Pids PROVE ProcInv(x)
  <2>1. CASE x \in UserPids
    BY <1>3, <1>4, <2>1 DEF ProcInv, AppInv
  <2>2. CASE x \in Servers
    BY <1>3, <1>5, <2>2 DEF ProcInv, ServerInv, OwedWait, Owes
  <2>3. CASE x \notin UserPids \union Servers
    BY <1>3, <2>3 DEF ProcInv, OtherInv
  <2> QED BY <2>1, <2>2, <2>3
<1>7. NoFaultAhead
  <2>1. \A x \in Pids : prog[x] = <<>>
    BY DEF SysInit
  <2>2. pc[GPID_PROCESS] = "spawn"
    BY Kinds DEF SysInit, Servers
  <2>3. line = "cd" /\ sys_proc.req = "cd"
    <3>1. PICK w \in BOOLEAN : sys_proc = [sender |-> 0, req |-> "cd", shell_waiting |-> w,
                                          app_pid |-> 0, blocks |-> 0]
      BY DEF SysInit
    <3> QED BY <3>1 DEF SysInit
  <2> QED BY <1>3, <1>4, <2>1, <2>2, <2>3, EmptyOfCalls
          DEF NoFaultAhead, MessagesHarmless, ProgramsHarmless
<1> QED BY <1>1, <1>6, <1>7 DEF SystemInv, AnswersAwaited

-----------------------------------------------------------------------------
(* Where each program is agrees with what the kernel has it blocked in,    *)
(* and a server answers only who waits for its answer, for any number of   *)
(* slots, pids and blocks, any commands but crash1, whatever syscall areas *)
(* that elf_load does not clear hold, and Ctrl+C at any time.  An app that *)
(* faults has the call in its area executed (excp_entry), which may be one *)
(* a killed app left there, to anyone: the theorem does not hold with it.  *)
THEOREM SystemInvariant ==
    ASSUME "crash1" \notin Lines
    PROVE  SysSpec => []SystemInv
<1>1. SysInit => SystemInv
  BY SystemStart
<1>2. SystemInv /\ [SysNext]_sysVars => SystemInv'
  BY SystemStep
<1> QED BY <1>1, <1>2, PTL DEF SysSpec

(* While no app faults, what an app waits for is what the server it called *)
(* owes it (servers.c, the main loops of sys_file and sys_dir).            *)
THEOREM AnswersAlwaysAwaited ==
    ASSUME "crash1" \notin Lines
    PROVE  SysSpec => []AnswersAwaited
<1>1. SystemInv => AnswersAwaited
  BY DEF SystemInv
<1> QED BY <1>1, SystemInvariant, PTL

(* While no app faults, dir_lookup and file_read of an app get the reply   *)
(* of the server they asked: the sender check after sys_recv never fails   *)
(* in an app, although sys_recv takes a message from anyone, apps are      *)
(* killed at any time, and their pages are reused uncleared.               *)
THEOREM RepliesFromServer ==
    ASSUME "crash1" \notin Lines
    PROVE  SysSpec => []ReplyFromServer
<1>1. SystemInv => ReplyFromServer
  <2> SUFFICES ASSUME SystemInv, NEW i \in Slots, pid[i] \in UserPids,
                      status[i] \in Schedulable, pc[pid[i]] = "got"
               PROVE  Sender(pid[i]) = ServerOf(Head(prog[pid[i]]))
    BY DEF ReplyFromServer
  <2>1. KernelInv /\ pid[i] \in Pids /\ AppInv(pid[i])
    BY Kinds DEF SystemInv, BaseInv, AnswersAwaited, ProcInv
  <2>2. absState[pid[i]] = "idle" /\ absBox[pid[i]] = sc[pid[i]].msg
    <3>1. Maps(absState, absTarget, absBox, status, receiver_pid, sc)
      BY <2>1, MappingHolds DEF Mapping
    <3> QED BY <2>1, <3>1, MapsSlot DEF Schedulable
  <2> QED BY <2>1, <2>2 DEF AppInv, Sender
<1> QED BY <1>1, SystemInvariant, PTL

(* The programs call the kernel only as Grass lets any program call it, so *)
(* what is proved of the kernel holds in the system.                       *)
THEOREM SystemUsesKernel ==
    ASSUME Addressees = Pids
    PROVE  SysSpec => Spec
<1>1. SysInit => Init
  BY DEF SysInit
<1>2. BaseInv /\ [SysNext]_sysVars => [Next]_grassVars
  <2> SUFFICES ASSUME BaseInv, [SysNext]_sysVars PROVE [Next]_grassVars
    OBVIOUS
  <2>1. KernelCall
    BY SysCalls DEF BaseInv
  <2> QED BY <2>1 DEF KernelCall, ProgramCall, Next
<1> QED BY <1>1, <1>2, BaseInvariant, PTL DEF SysSpec, Spec

(* Without a Ctrl+C sys_send returns only once the process it was sent to  *)
(* has the message, in every program and also when a process faults.       *)
THEOREM SendsComplete ==
    ASSUME CtrlC = FALSE
    PROVE  SysSpec => SendCompletes
<1> DEFINE Step == \A i \in Slots :
              status[i] = "WAIT_TO_SEND" /\ status'[i] \in Schedulable
              => receiver_pid[i] = curr_pid /\ sc'[curr_pid].msg = sc[pid[i]].msg
<1>1. BaseInv /\ [SysNext]_sysVars => Step
  <2> SUFFICES ASSUME BaseInv, [SysNext]_sysVars PROVE Step
    OBVIOUS
  <2>1. KernelInv /\ LocalTypeOK
    BY DEF BaseInv
  <2>2. Completed
    <3>1. CASE Timer
      <4>1. intr_entry(FALSE)
        BY <3>1 DEF Timer
      <4> QED BY <2>1, <4>1, IntrDelivers
    <3>2. CASE ~Timer
      <4>1. KernelCall /\ ProgramCall
        BY <2>1, <3>2, SysCalls
      <4> QED BY <2>1, <4>1, CallDelivers
    <3> QED BY <3>1, <3>2
  <2> QED BY <2>2 DEF Completed, Schedulable
<1>2. SendCompletes <=> [][Step]_sysVars
  BY DEF SendCompletes
<1> HIDE DEF Step
<1> QED BY <1>1, <1>2, BaseInvariant, PTL DEF SysSpec
=============================================================================
