------------------------------ MODULE MmcHost ------------------------------
(***************************************************************************)
(* The SD host controller and mmc_send_cmd, the function that drives it    *)
(* (earth/modules/mmc/mmc_bsp.c): a command is loaded, its data are moved  *)
(* by the CPU or by DMA, and registers are polled until they tell the      *)
(* end, an error, or until the time allowed is over; after a failure the   *)
(* controller is reset.  A poll that finds nothing and loops is a stutter. *)
(*                                                                         *)
(* The microsecond clock has 64 bits and the deadlines 32 (TimeBits here). *)
(* All instants from 2^TimeBits on compare alike with every deadline, so   *)
(* the clock stops there.                                                  *)
(***************************************************************************)
EXTENDS Integers

CONSTANTS
    TimeBits,       \* width of the variable timeout (32 in the code)
    ResetTime,      \* time allowed for a reset (0xffff or 0xfffff in the code)
    DataTime,       \* for a response or data (0xffffff in the code)
    BusyTime,       \* for the end of the busy signal (0x4ffffff in the code)
    Words,          \* words of a data transfer
    FifoDepth       \* words the controller's FIFO holds

(* the kinds of command: without data, without data and with a busy signal *)
(* (R1b), one block read by the CPU, several blocks read by DMA            *)
Commands ==
    {[words |-> 0,     dma |-> FALSE, busy |-> b]     : b \in BOOLEAN} \union
    {[words |-> Words, dma |-> d,     busy |-> FALSE] : d \in BOOLEAN}

WRAP == 2^TimeBits

ASSUME MmcHostAssumption ==
    /\ {TimeBits, ResetTime, DataTime, BusyTime, Words, FifoDepth} \subseteq Nat \ {0}
    /\ WRAP \in Nat /\ BusyTime < WRAP
    /\ ResetTime <= BusyTime /\ DataTime <= BusyTime

VARIABLES
    pc,         \* the loop mmc_send_cmd is in, or "idle"
    cmd,        \* its command
    got,        \* words moved to the caller's buffer
    ret,        \* what it returned last: "ok", "error", "timeout"; or "unsent"
    timeout,    \* the deadline of the loop, truncated
    armed,      \* when the deadline was set, and how long it allows
    now,        \* get_current_time_us()
    hw,         \* the command in the controller: its state, words to come
    rint,       \* flags of the registers rint and idst
    fifo,       \* words in the FIFO
    pending,    \* bits that the driver set and the hardware clears
    hung,       \* a reset of the controller timed out
    fatal_err   \* a change of the card clock failed, between two commands

driver == <<pc, cmd, got, ret, timeout, armed>>
hostVars == <<driver, now, hw, rint, fifo, pending, hung, fatal_err>>

-----------------------------------------------------------------------------
(* Steps of the driver                                                     *)

(* timeout = get_current_time_us() + t *)
Deadline(t) == (now + t) % WRAP
SetTimeout_once(t) ==      \* the deadline of an earlier wait is kept
    /\ timeout' = IF timeout < now THEN Deadline(t) ELSE timeout
    /\ armed' = [at |-> now, allows |-> t]
SetTimeout(t) == timeout' = Deadline(t) /\ armed' = [at |-> now, allows |-> t]

Enter(loop, t) == pc' = loop /\ SetTimeout(t)
Return(r) == pc' = "idle" /\ ret' = r

(* label out after an error: DMA is shut down and the controller reset *)
Fail(r) ==
    /\ ret' = r
    /\ rint' = IF cmd.dma THEN rint \ {"received", "dma_error"} ELSE rint
    /\ Enter("reset", ResetTime) /\ pending' = pending \union {"reset"}

(* label out after success *)
Succeed == Return("ok") /\ rint' = {} /\ UNCHANGED <<timeout, armed>>

Load(c) == hw' = [st |-> "sent", left |-> c.words, busy |-> c.busy]

(* mmc_send_cmd returns at once: with -1 for every command after fatal_err *)
(* and, as no caller sets MMC_CMD_MANUAL, with 0 for STOP_TRANSMISSION,    *)
(* which the controller sends itself after several blocks                  *)
SendNothing ==
    /\ pc = "idle"
    /\ Return(IF fatal_err THEN "error" ELSE "unsent")
    /\ UNCHANGED <<cmd, got, timeout, armed, now, hw, rint, fifo, pending, hung, fatal_err>>

(* a buffer that is not aligned goes to label out before anything is sent, *)
(* and before DMA is thought of                                            *)
Misaligned ==
    /\ ret' = "error"
    /\ Enter("reset", ResetTime) /\ pending' = pending \union {"reset"}

(* mmc_send_cmd up to its first loop *)
SendCmd(c) ==
    /\ pc = "idle" /\ ~fatal_err
    /\ cmd' = c /\ got' = 0
    /\ \/ c.words > 0 /\ Misaligned /\ UNCHANGED hw
       \/ /\ c.dma
          /\ Enter("dma_reset", ResetTime) /\ pending' = pending \union {"dma"}
          /\ UNCHANGED <<ret, hw>>
       \/ /\ ~c.dma
          /\ Enter(IF c.words > 0 THEN "fifo" ELSE "response", DataTime)
          /\ Load(c) /\ UNCHANGED <<ret, pending>>
    /\ UNCHANGED <<now, rint, fifo, hung, fatal_err>>

(* mmc_set_ios, which fails to change the card clock *)
ClockFails ==
    /\ pc = "idle" /\ ~fatal_err /\ fatal_err' = TRUE
    /\ UNCHANGED <<driver, now, hw, rint, fifo, pending, hung>>

(* mmc_trans_data_by_dma resets the DMA, then its internal engine; the     *)
(* command is loaded also when one of the resets fails                     *)
DmaReset ==
    /\ pc \in {"dma_reset", "idma_reset"}
    /\ \/ /\ "dma" \notin pending /\ pc = "dma_reset"
          /\ Enter("idma_reset", ResetTime) /\ pending' = pending \union {"dma"}
          /\ UNCHANGED <<hw, ret, rint>>
       \/ /\ "dma" \notin pending /\ pc = "idma_reset"
          /\ Load(cmd) /\ Enter("response", DataTime) /\ UNCHANGED <<pending, ret, rint>>
       \/ /\ "dma" \in pending /\ now > timeout
          /\ Load(cmd) /\ Fail("timeout")
    /\ UNCHANGED <<cmd, got, now, fifo, hung, fatal_err>>

(* mmc_trans_data_by_cpu: a word from the FIFO, each with time of its own *)
ReadFifo ==
    /\ pc = "fifo"
    /\ \/ /\ fifo > 0
          /\ got' = got + 1 /\ fifo' = fifo - 1
          /\ IF got' < cmd.words
             THEN SetTimeout(DataTime) /\ UNCHANGED <<pc, ret, pending, rint>>
             ELSE IF now >= Deadline(DataTime) THEN Fail("timeout")
             ELSE Enter("response", DataTime) /\ UNCHANGED <<ret, pending, rint>>
       \/ /\ fifo = 0 /\ now >= timeout
          /\ Fail(IF "error" \in rint THEN "error" ELSE "timeout")
          /\ UNCHANGED <<got, fifo>>
    /\ UNCHANGED <<cmd, now, hw, hung, fatal_err>>

(* a loop that polls rint: time and errors come before the flag awaited *)
PollFails ==
    /\ now > timeout \/ "error" \in rint
    /\ Fail(IF "error" \in rint THEN "error" ELSE "timeout")

PollFinds(flag) == ~(now > timeout \/ "error" \in rint) /\ flag \in rint

AwaitResponse ==
    /\ pc = "response"
    /\ \/ PollFails
       \/ /\ PollFinds("done")
          /\ \/ cmd.words > 0 /\ Enter("data", IF cmd.dma THEN DataTime ELSE ResetTime)
                /\ UNCHANGED <<ret, rint>>
             \/ cmd.busy /\ Enter("busy", BusyTime) /\ UNCHANGED <<ret, rint>>
             \/ cmd.words = 0 /\ ~cmd.busy /\ Succeed
          /\ UNCHANGED pending
    /\ UNCHANGED <<cmd, got, now, hw, fifo, hung, fatal_err>>

(* data over, or the auto-stop of several blocks *)
AwaitData ==
    /\ pc = "data"
    /\ \/ PollFails
       \/ /\ PollFinds("over")
          /\ IF cmd.dma THEN Enter("dma", DataTime) /\ UNCHANGED <<ret, rint>> ELSE Succeed
          /\ UNCHANGED pending
    /\ UNCHANGED <<cmd, got, now, hw, fifo, hung, fatal_err>>

(* the DMA's own status register *)
AwaitDma ==
    /\ pc = "dma"
    /\ \/ /\ now > timeout \/ "dma_error" \in rint
          /\ Fail(IF "dma_error" \in rint THEN "error" ELSE "timeout")
       \/ /\ now <= timeout /\ "dma_error" \notin rint /\ "received" \in rint
          /\ Succeed /\ UNCHANGED pending
    /\ UNCHANGED <<cmd, got, now, hw, fifo, hung, fatal_err>>

AwaitBusy ==
    /\ pc = "busy"
    /\ \/ now > timeout /\ Fail("timeout")
       \/ now <= timeout /\ ~hw.busy /\ Succeed /\ UNCHANGED pending
    /\ UNCHANGED <<cmd, got, now, hw, fifo, hung, fatal_err>>

(* the reset after an error; when it does not end, the flags stay *)
AwaitReset_skipped ==
    /\ pc = "reset"
    /\ Return(ret) /\ rint' = {}
    /\ UNCHANGED <<timeout, armed, hung, cmd, got, now, hw, fifo, pending, fatal_err>>
AwaitReset ==
    /\ pc = "reset"
    /\ \/ /\ "reset" \notin pending
          /\ Enter("clock", ResetTime) /\ pending' = pending \union {"clock"}
          /\ UNCHANGED <<ret, hung>>
       \/ /\ "reset" \in pending /\ now > timeout
          /\ Return(ret) /\ hung' = TRUE
          /\ UNCHANGED <<timeout, armed, pending>>
    /\ UNCHANGED <<cmd, got, now, hw, rint, fifo, fatal_err>>

(* mmc_update_clk, whose result is not used, and the end of mmc_send_cmd *)
AwaitClock_forever ==
    /\ pc = "clock" /\ "clock" \notin pending
    /\ Return(ret) /\ rint' = {}
    /\ UNCHANGED <<cmd, got, timeout, armed, now, hw, fifo, pending, hung, fatal_err>>
AwaitClock ==
    /\ pc = "clock"
    /\ "clock" \notin pending \/ now >= timeout
    /\ Return(ret) /\ rint' = {}
    /\ UNCHANGED <<cmd, got, timeout, armed, now, hw, fifo, pending, hung, fatal_err>>

Driver ==
    \/ DmaReset \/ ReadFifo \/ AwaitResponse \/ AwaitData \/ AwaitDma
    \/ AwaitBusy \/ AwaitReset \/ AwaitClock

-----------------------------------------------------------------------------
(* The controller and the card, which may stop answering at any moment     *)

Tick == now < WRAP /\ now' = now + 1 /\ UNCHANGED <<driver, hw, rint, fifo, pending, hung, fatal_err>>

Responds ==
    /\ hw.st = "sent"
    /\ hw' = [hw EXCEPT !.st = IF hw.left > 0 THEN "data" ELSE "end"]
    /\ rint' = rint \union {"done"}
    /\ UNCHANGED <<driver, now, fifo, pending, hung, fatal_err>>

BusyEnds ==
    /\ hw.st = "end" /\ hw.busy /\ hw' = [hw EXCEPT !.busy = FALSE]
    /\ UNCHANGED <<driver, now, rint, fifo, pending, hung, fatal_err>>

SendsWord ==
    /\ hw.st = "data" /\ hw.left > 0
    /\ hw' = [hw EXCEPT !.left = @ - 1]
    /\ IF cmd.dma THEN got' = got + 1 /\ UNCHANGED fifo
       ELSE fifo < FifoDepth /\ fifo' = fifo + 1 /\ UNCHANGED got
    /\ UNCHANGED <<pc, cmd, ret, timeout, armed, now, rint, pending, hung, fatal_err>>

DataOver ==
    /\ hw.st = "data" /\ hw.left = 0
    /\ hw' = [hw EXCEPT !.st = "end"]
    /\ rint' = rint \union (IF cmd.dma THEN {"over", "received"} ELSE {"over"})
    /\ UNCHANGED <<driver, now, fifo, pending, hung, fatal_err>>

(* no response, a wrong CRC, a bus error: also with the flag of the end *)
HwError(flags) ==
    /\ hw.st \in {"sent", "data"}
    /\ hw' = [hw EXCEPT !.st = "off"]
    /\ rint' = rint \union flags
    /\ UNCHANGED <<driver, now, fifo, pending, hung, fatal_err>>

(* the hardware clears a bit; a reset of the controller ends its command *)
Clears(bit) ==
    /\ bit \in pending /\ pending' = pending \ {bit}
    /\ IF bit = "reset"
       THEN hw' = [st |-> "off", left |-> 0, busy |-> FALSE] /\ fifo' = 0
       ELSE UNCHANGED <<hw, fifo>>
    /\ UNCHANGED <<driver, now, rint, hung, fatal_err>>

Hardware ==
    \/ Tick \/ Responds \/ BusyEnds \/ SendsWord \/ DataOver
    \/ \E flags \in {{"error"}, {"error", "done"}} : HwError(flags)
    \/ cmd.dma /\ HwError({"done", "over", "dma_error"})
    \/ \E bit \in {"dma", "reset", "clock"} : Clears(bit)

-----------------------------------------------------------------------------
Init ==
    /\ pc = "idle" /\ cmd \in Commands /\ got = 0 /\ ret = "error"
    /\ timeout = 0 /\ armed = [at |-> 0, allows |-> 0]
    /\ now = 0 /\ hw = [st |-> "off", left |-> 0, busy |-> FALSE]
    /\ rint = {} /\ fifo = 0 /\ pending = {} /\ hung = FALSE /\ fatal_err = FALSE

Next == Driver \/ Hardware \/ SendNothing \/ ClockFails \/ \E c \in Commands : SendCmd(c)

Spec == Init /\ [][Next]_hostVars

(* the loops go on polling, and time goes on *)
FairSpec == Spec /\ WF_hostVars(Driver) /\ WF_hostVars(Tick)

-----------------------------------------------------------------------------
(* When mmc_send_cmd returns 0, the controller did complete this command,  *)
(* the buffer has all its data and the card is no longer busy: a flag or a *)
(* word that an earlier failed command left behind is never taken for the  *)
(* answer.  (Not after a reset that timed out, which leaves them; nor for  *)
(* STOP_TRANSMISSION, for which it returns 0 without sending anything.)    *)
SuccessIsReal ==
    (pc = "idle" /\ ret = "ok" /\ ~hung) =>
        hw.st = "end" /\ got = cmd.words /\ ~hw.busy

(* mmc_send_cmd returns, whatever the hardware does or does not do: each   *)
(* of its loops ends.                                                      *)
CommandReturns == pc # "idle" ~> pc = "idle"

(* mmc_send_cmd gives up a wait as timed out only when the time this wait  *)
(* allows has passed, each loop with a deadline of its own, as long as no  *)
(* deadline is beyond the range of the variable (in the code, for the      *)
(* first 71 minutes of uptime; after that a wait can fail at once).        *)
TimeoutAfterTime ==
    [][(pc # "reset" /\ pc' = "reset" /\ ret' = "timeout" /\ now + BusyTime < WRAP)
          => now - armed.at >= armed.allows]_hostVars
=============================================================================
