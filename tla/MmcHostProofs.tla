--------------------------- MODULE MmcHostProofs ---------------------------
(***************************************************************************)
(* Proofs about mmc_send_cmd for every number of words, depth of the FIFO, *)
(* time allowed and width of a deadline, whatever the controller does.     *)
(***************************************************************************)
EXTENDS MmcHost, TLAPS

Loops == {"idle", "dma_reset", "idma_reset", "fifo", "response", "data", "dma", "busy",
          "reset", "clock"}
Flags == {"done", "over", "received", "error", "dma_error"}

HostTypes ==
    /\ pc \in Loops /\ cmd \in Commands /\ got \in Nat
    /\ ret \in {"ok", "error", "timeout", "unsent"}
    /\ hw \in [st : {"off", "sent", "data", "end"}, left : Nat, busy : BOOLEAN]
    /\ rint \subseteq Flags /\ fifo \in Nat
    /\ pending \subseteq {"dma", "reset", "clock"} /\ hung \in BOOLEAN

(* Nothing is left of an earlier command while none is in the controller.  *)
Quiet ==
    pc \in {"idle", "dma_reset", "idma_reset"} =>
        /\ hw.st \in {"off", "end"} /\ rint = {} /\ fifo = 0 /\ "reset" \notin pending
        /\ pc # "idle" => got = 0 /\ cmd.dma

(* While one is, every word is in the buffer, in the FIFO or to come, and  *)
(* the flags tell how far the command has come, or that it has failed.     *)
InFlight ==
    pc \in {"fifo", "response", "data", "dma", "busy"} =>
        /\ "reset" \notin pending
        /\ got + fifo + hw.left = cmd.words
        /\ cmd.dma => fifo = 0 /\ pc # "fifo"
        /\ hw.st = "end" => hw.left = 0
        /\ hw.st = "data" => cmd.words > 0
        /\ hw.st = "off" => "error" \in rint \/ "dma_error" \in rint
        /\ "done" \in rint => hw.st # "sent"
        /\ "over" \in rint => hw.st = "end" \/ "dma_error" \in rint
        /\ "received" \in rint => hw.st = "end"
        /\ "dma_error" \in rint => cmd.dma
        /\ hw.busy => cmd.busy
        /\ pc \in {"fifo", "data"} => cmd.words > 0
        /\ pc \in {"response", "data"} /\ ~cmd.dma => got = cmd.words
        /\ pc = "busy" => hw.st = "end" /\ cmd.busy
        /\ pc = "dma" => cmd.dma

(* The reset ends what the controller was doing.                           *)
Resetting ==
    /\ pc = "reset" => "reset" \in pending \/ (hw.st = "off" /\ fifo = 0)
    /\ pc = "clock" => "reset" \notin pending /\ hw.st = "off" /\ fifo = 0
    /\ pc \in {"reset", "clock"} => ret # "ok"

HostInv == HostTypes /\ (~hung => Quiet /\ InFlight /\ Resetting /\ SuccessIsReal)

-----------------------------------------------------------------------------
(* What a caller may do between two commands: *)
Calls == SendNothing \/ ClockFails \/ \E c \in Commands : SendCmd(c)

LEMMA CommandTypes ==
    ASSUME NEW c \in Commands
    PROVE  /\ c.words \in Nat /\ c.dma \in BOOLEAN /\ c.busy \in BOOLEAN
           /\ c.busy => c.words = 0
           /\ c.dma => c.words > 0
<1>1. Words \in Nat /\ Words > 0
  BY MmcHostAssumption
<1>2. CASE \E b \in BOOLEAN : c = [words |-> 0, dma |-> FALSE, busy |-> b]
  BY <1>2
<1>3. CASE \E d \in BOOLEAN : c = [words |-> Words, dma |-> d, busy |-> FALSE]
  BY <1>1, <1>3
<1> QED BY <1>2, <1>3 DEF Commands

LEMMA HostInit == Init => HostInv
<1> SUFFICES ASSUME Init PROVE HostInv
  OBVIOUS
<1>1. HostTypes
  BY ZenonT(30) DEF Init, HostTypes, Loops, Flags
<1>2. pc = "idle" /\ ret = "error" /\ hw.st = "off" /\ rint = {} /\ fifo = 0 /\ pending = {}
  BY DEF Init
<1> QED BY <1>1, <1>2 DEF HostInv, Quiet, InFlight, Resetting, SuccessIsReal

LEMMA LoadTypes ==
    ASSUME NEW c \in Commands, Load(c)
    PROVE  /\ hw' \in [st : {"off", "sent", "data", "end"}, left : Nat, busy : BOOLEAN]
           /\ hw'.st = "sent" /\ hw'.left = c.words /\ hw'.busy = c.busy
BY CommandTypes DEF Load

(* What the driver does keeps the types: *)
LEMMA DriverTypes == HostTypes /\ (Driver \/ Calls) => HostTypes'
<1> SUFFICES ASSUME HostTypes, Driver \/ Calls
             PROVE  HostTypes'
  OBVIOUS
<1> USE CommandTypes DEF HostTypes, Loops, Flags, Fail, Succeed, Enter, Return
<1>1. ASSUME NEW c \in Commands, SendCmd(c) PROVE HostTypes'
  <2>0. cmd' = c /\ got' = 0 /\ rint' = rint /\ fifo' = fifo /\ hung' = hung
    BY <1>1 DEF SendCmd
  <2>1. CASE Misaligned /\ hw' = hw
    BY <2>0, <2>1, ZenonT(30) DEF Misaligned
  <2>2. CASE pc' = "dma_reset" /\ pending' = pending \union {"dma"} /\ UNCHANGED <<ret, hw>>
    BY <2>0, <2>2, ZenonT(30)
  <2>3. CASE pc' \in {"fifo", "response"} /\ Load(c) /\ UNCHANGED <<ret, pending>>
    BY <2>0, <2>3, LoadTypes, ZenonT(30)
  <2> QED BY <1>1, <2>1, <2>2, <2>3 DEF SendCmd
<1>2. CASE DmaReset
  <2>1. CASE "dma" \notin pending /\ pc = "dma_reset"
    BY <1>2, <2>1, ZenonT(30) DEF DmaReset
  <2>2. CASE "dma" \notin pending /\ pc = "idma_reset"
    BY <1>2, <2>2, LoadTypes, ZenonT(30) DEF DmaReset
  <2>3. CASE "dma" \in pending
    <3>1. Load(cmd) /\ Fail("timeout") /\ UNCHANGED <<cmd, got, fifo, hung>>
      BY <1>2, <2>3 DEF DmaReset
    <3>2. hw' \in [st : {"off", "sent", "data", "end"}, left : Nat, busy : BOOLEAN]
      BY <3>1, LoadTypes
    <3>3. /\ pc' = "reset" /\ ret' = "timeout" /\ rint' \subseteq Flags
          /\ pending' \subseteq {"dma", "reset", "clock"}
      BY <3>1
    <3>4. cmd' = cmd /\ got' = got /\ fifo' = fifo /\ hung' = hung
      BY <3>1
    <3> HIDE DEF Flags, Fail
    <3> QED BY <3>2, <3>3, <3>4
  <2> QED BY <1>2, <2>1, <2>2, <2>3 DEF DmaReset
<1>3. CASE ReadFifo
  <2>1. CASE fifo = 0
    <3>1. UNCHANGED <<cmd, got, fifo, hw, hung>>
      BY <1>3, <2>1 DEF ReadFifo
    <3>2. Fail(IF "error" \in rint THEN "error" ELSE "timeout")
      BY <1>3, <2>1 DEF ReadFifo
    <3> QED BY <3>1, <3>2
  <2>2. CASE fifo > 0
    <3>1. got' \in Nat /\ fifo' \in Nat /\ cmd' = cmd /\ hw' = hw /\ hung' = hung
      BY <1>3, <2>2 DEF ReadFifo
    <3>2. \/ UNCHANGED <<pc, ret, pending, rint>>
          \/ Fail("timeout")
          \/ pc' = "response" /\ UNCHANGED <<ret, pending, rint>>
      BY <1>3, <2>2 DEF ReadFifo
    <3> QED BY <3>1, <3>2, ZenonT(30)
  <2> QED BY <2>1, <2>2
<1>4. CASE AwaitResponse
  BY <1>4, ZenonT(30) DEF AwaitResponse, PollFails, PollFinds
<1>5. CASE AwaitData
  BY <1>5, ZenonT(30) DEF AwaitData, PollFails, PollFinds
<1>6. CASE AwaitDma
  BY <1>6, ZenonT(30) DEF AwaitDma
<1>7. CASE AwaitBusy
  BY <1>7, ZenonT(30) DEF AwaitBusy
<1>8. CASE AwaitReset
  BY <1>8, ZenonT(30) DEF AwaitReset
<1>9. CASE AwaitClock
  BY <1>9 DEF AwaitClock
<1>10. CASE SendNothing
  BY <1>10 DEF SendNothing
<1>11. CASE ClockFails
  BY <1>11 DEF ClockFails, driver
<1> QED BY <1>1, <1>2, <1>3, <1>4, <1>5, <1>6, <1>7, <1>8, <1>9, <1>10, <1>11 DEF Driver, Calls

(* and so does what the controller does. *)
LEMMA HardwareTypes == HostTypes /\ Hardware => HostTypes'
<1> SUFFICES ASSUME HostTypes, Hardware
             PROVE  HostTypes'
  OBVIOUS
<1> USE CommandTypes DEF HostTypes, Flags, driver
<1>1. CASE Tick
  BY <1>1 DEF Tick
<1>2. CASE Responds
  BY <1>2 DEF Responds
<1>3. CASE BusyEnds
  BY <1>3, ZenonT(30) DEF BusyEnds
<1>4. CASE SendsWord
  BY <1>4 DEF SendsWord
<1>5. CASE DataOver
  BY <1>5 DEF DataOver
<1>6. ASSUME NEW flags \in {{"error"}, {"error", "done"}, {"done", "over", "dma_error"}},
             HwError(flags)
      PROVE  HostTypes'
  BY <1>6 DEF HwError
<1>7. ASSUME NEW bit \in {"dma", "reset", "clock"}, Clears(bit)
      PROVE  HostTypes'
  <2>1. pending' \subseteq {"dma", "reset", "clock"}
    BY <1>7 DEF Clears
  <2>2. CASE bit = "reset"
    <3>1. hw' = [st |-> "off", left |-> 0, busy |-> FALSE] /\ fifo' = 0
      BY <1>7, <2>2 DEF Clears
    <3> QED BY <1>7, <2>1, <3>1 DEF Clears
  <2>3. CASE bit # "reset"
    BY <1>7, <2>1, <2>3 DEF Clears
  <2> QED BY <2>1, <2>2, <2>3
<1> QED BY <1>1, <1>2, <1>3, <1>4, <1>5, <1>6, <1>7 DEF Hardware

-----------------------------------------------------------------------------
(* mmc_send_cmd keeps the invariant: *)
LEMMA DriverPreserves ==
    ASSUME HostInv, ~hung', Driver \/ Calls
    PROVE  Quiet' /\ InFlight' /\ Resetting' /\ SuccessIsReal'
<1>0. HostTypes /\ HostTypes'
  BY DriverTypes DEF HostInv
<1> USE CommandTypes, <1>0 DEF HostTypes, HostInv
<1>1. ASSUME NEW c \in Commands, SendCmd(c)
      PROVE  Quiet' /\ InFlight' /\ Resetting' /\ SuccessIsReal'
  <2>0. ~hung /\ Quiet /\ pc = "idle" /\ cmd' = c /\ got' = 0 /\ rint' = {} /\ fifo' = 0
    BY <1>1 DEF SendCmd, Quiet
  <2>1. CASE Misaligned
    BY <2>1 DEF Misaligned, Enter, Quiet, InFlight, Resetting, SuccessIsReal
  <2>2. CASE c.dma /\ pc' = "dma_reset" /\ hw' = hw /\ pending' = pending \union {"dma"}
    BY <2>0, <2>2 DEF Quiet, InFlight, Resetting, SuccessIsReal
  <2>3. CASE ~c.dma /\ Load(c) /\ pending' = pending
             /\ pc' = (IF c.words > 0 THEN "fifo" ELSE "response")
    BY <2>0, <2>3, LoadTypes DEF Quiet, InFlight, Resetting, SuccessIsReal
  <2> QED BY <1>1, <2>1, <2>2, <2>3 DEF SendCmd, Enter
<1>2. CASE DmaReset
  <2>0. ~hung /\ Quiet /\ cmd' = cmd /\ got' = got /\ fifo' = fifo
    BY <1>2 DEF DmaReset
  <2>1. CASE "dma" \notin pending /\ pc = "dma_reset"
    BY <1>2, <2>0, <2>1 DEF DmaReset, Enter, Quiet, InFlight, Resetting, SuccessIsReal
  <2>2. CASE "dma" \notin pending /\ pc = "idma_reset"
    <3>1. pc' = "response" /\ Load(cmd) /\ pending' = pending /\ rint' = rint
      BY <1>2, <2>2 DEF DmaReset, Enter
    <3> QED BY <2>0, <2>2, <3>1, LoadTypes DEF Quiet, InFlight, Resetting, SuccessIsReal
  <2>3. CASE "dma" \in pending
    <3>1. pc' = "reset" /\ "reset" \in pending' /\ ret' = "timeout"
      BY <1>2, <2>3 DEF DmaReset, Fail, Enter
    <3> QED BY <3>1 DEF Quiet, InFlight, Resetting, SuccessIsReal
  <2> QED BY <1>2, <2>1, <2>2, <2>3 DEF DmaReset
<1>3. CASE ReadFifo
  <2>0. ~hung /\ InFlight /\ pc = "fifo" /\ cmd' = cmd /\ hw' = hw
    BY <1>3 DEF ReadFifo
  <2>1. CASE fifo > 0 /\ got' < cmd.words
    BY <1>3, <2>0, <2>1 DEF ReadFifo, Quiet, InFlight, Resetting, SuccessIsReal
  <2>2. CASE fifo > 0 /\ ~(got' < cmd.words) /\ ~(now >= Deadline(DataTime))
    <3>1. got' = got + 1 /\ fifo' = fifo - 1 /\ pc' = "response" /\ UNCHANGED <<pending, rint>>
      BY <1>3, <2>2 DEF ReadFifo, Enter
    <3>2. got' = cmd.words
      BY <2>0, <2>2, <3>1 DEF InFlight
    <3> QED BY <2>0, <3>1, <3>2 DEF Quiet, InFlight, Resetting, SuccessIsReal
  <2>3. CASE pc' = "reset"
    BY <1>3, <2>3 DEF ReadFifo, Fail, Enter, Quiet, InFlight, Resetting, SuccessIsReal
  <2> QED BY <1>3, <2>1, <2>2, <2>3 DEF ReadFifo, Fail, Enter
<1> DEFINE Failed == pc' = "reset" /\ "reset" \in pending' /\ ret' # "ok"
<1>4. ASSUME Failed
      PROVE  Quiet' /\ InFlight' /\ Resetting' /\ SuccessIsReal'
  BY <1>4 DEF Quiet, InFlight, Resetting, SuccessIsReal
<1> DEFINE Done == /\ pc' = "idle" /\ rint' = {} /\ "reset" \notin pending' /\ fifo' = 0
                   /\ hw'.st = "end" /\ ~hw'.busy /\ got' = cmd'.words
<1>11. ASSUME Done
       PROVE  Quiet' /\ InFlight' /\ Resetting' /\ SuccessIsReal'
  BY <1>11 DEF Quiet, InFlight, Resetting, SuccessIsReal
<1>5. CASE AwaitResponse
  <2>0. ~hung /\ InFlight /\ pc = "response" /\ UNCHANGED <<cmd, got, hw, fifo>>
    BY <1>5 DEF AwaitResponse
  <2>1. CASE PollFails
    BY <1>4, <2>1 DEF PollFails, Fail, Enter
  <2>2. CASE PollFinds("done") /\ cmd.words > 0 /\ pc' = "data" /\ UNCHANGED <<rint, pending>>
    BY <2>0, <2>2 DEF PollFinds, Quiet, InFlight, Resetting, SuccessIsReal
  <2>3. CASE PollFinds("done") /\ cmd.busy /\ pc' = "busy" /\ UNCHANGED <<rint, pending>>
    BY <2>0, <2>3 DEF PollFinds, Quiet, InFlight, Resetting, SuccessIsReal
  <2>4. CASE /\ PollFinds("done") /\ cmd.words = 0 /\ ~cmd.busy
             /\ pc' = "idle" /\ rint' = {} /\ pending' = pending
    <3>1. "done" \in rint /\ "error" \notin rint
      BY <2>4 DEF PollFinds
    <3>2. cmd.dma = FALSE
      BY <2>4
    <3>3. hw.st = "end" /\ ~hw.busy
      <4>1. hw.st # "off"
        BY <2>0, <3>1, <3>2 DEF InFlight
      <4>2. hw.st # "sent"
        BY <2>0, <3>1 DEF InFlight
      <4>3. hw.st # "data"
        BY <2>0, <2>4 DEF InFlight
      <4>4. ~hw.busy
        BY <2>0, <2>4, ZenonT(30) DEF InFlight
      <4> QED BY <4>1, <4>2, <4>3, <4>4
    <3>4. got = cmd.words /\ fifo = 0
      BY <2>0, <2>4, <3>2, <3>3 DEF InFlight
    <3> QED BY <1>11, <2>0, <2>4, <3>3, <3>4 DEF InFlight
  <2> QED BY <1>5, <2>1, <2>2, <2>3, <2>4 DEF AwaitResponse, Enter, Succeed, Return
<1>6. CASE AwaitData
  <2>0. ~hung /\ InFlight /\ pc = "data" /\ UNCHANGED <<cmd, got, hw, fifo>>
    BY <1>6 DEF AwaitData
  <2>1. CASE PollFails
    BY <1>4, <2>1 DEF PollFails, Fail, Enter
  <2>2. CASE PollFinds("over") /\ cmd.dma /\ pc' = "dma" /\ UNCHANGED <<rint, pending>>
    BY <2>0, <2>2 DEF Quiet, InFlight, Resetting, SuccessIsReal
  <2>3. CASE PollFinds("over") /\ ~cmd.dma /\ pc' = "idle" /\ rint' = {} /\ pending' = pending
    <3>1. "over" \in rint
      BY <2>3 DEF PollFinds
    <3>2. hw.st = "end" /\ hw.left = 0 /\ got = cmd.words
      BY <2>0, <2>3, <3>1 DEF InFlight
    <3>3. fifo = 0 /\ ~hw.busy
      <4>1. cmd.words > 0
        BY <2>0 DEF InFlight
      <4>2. ~cmd.busy
        BY <4>1
      <4> QED BY <2>0, <3>2, <4>2 DEF InFlight
    <3> QED BY <1>11, <2>0, <2>3, <3>2, <3>3 DEF InFlight
  <2> QED BY <1>6, <2>1, <2>2, <2>3 DEF AwaitData, Enter, Succeed, Return
<1>7. CASE AwaitDma
  <2>0. ~hung /\ InFlight /\ pc = "dma" /\ UNCHANGED <<cmd, got, hw, fifo>>
    BY <1>7 DEF AwaitDma
  <2>1. CASE pc' = "reset"
    BY <1>4, <1>7, <2>1 DEF AwaitDma, Fail, Enter, Succeed, Return
  <2>2. CASE "received" \in rint /\ pc' = "idle" /\ rint' = {} /\ pending' = pending
    BY <2>0, <2>2 DEF Quiet, InFlight, Resetting, SuccessIsReal
  <2> QED BY <1>7, <2>1, <2>2 DEF AwaitDma, Fail, Enter, Succeed, Return
<1>8. CASE AwaitBusy
  <2>0. ~hung /\ InFlight /\ pc = "busy" /\ UNCHANGED <<cmd, got, hw, fifo>>
    BY <1>8 DEF AwaitBusy
  <2>1. CASE pc' = "reset"
    BY <1>4, <1>8, <2>1 DEF AwaitBusy, Fail, Enter, Succeed, Return
  <2>2. CASE ~hw.busy /\ pc' = "idle" /\ rint' = {} /\ pending' = pending
    <3>1. hw.st = "end" /\ hw.left = 0
      BY <2>0 DEF InFlight
    <3>2. got = cmd.words /\ fifo = 0
      <4>1. cmd.words = 0
        BY <2>0 DEF InFlight
      <4>2. got + fifo = 0
        BY <2>0, <3>1, <4>1 DEF InFlight
      <4> QED BY <4>1, <4>2
    <3> QED BY <1>11, <2>0, <2>2, <3>1, <3>2 DEF InFlight
  <2> QED BY <1>8, <2>1, <2>2 DEF AwaitBusy, Fail, Enter, Succeed, Return
<1>9. CASE AwaitReset
  <2>1. /\ ~hung /\ "reset" \notin pending /\ pc = "reset" /\ pc' = "clock"
        /\ pending' = pending \union {"clock"} /\ UNCHANGED <<ret, hw, fifo>>
    BY <1>9 DEF AwaitReset, Enter
  <2> QED BY <2>1 DEF Quiet, InFlight, Resetting, SuccessIsReal
<1>10. CASE AwaitClock
  BY <1>10 DEF AwaitClock, Return, Quiet, InFlight, Resetting, SuccessIsReal
<1>12. CASE SendNothing
  BY <1>12 DEF SendNothing, Return, Quiet, InFlight, Resetting, SuccessIsReal
<1>13. CASE ClockFails
  BY <1>13 DEF ClockFails, driver, Quiet, InFlight, Resetting, SuccessIsReal
<1> QED BY <1>1, <1>2, <1>3, <1>5, <1>6, <1>7, <1>8, <1>9, <1>10, <1>12, <1>13 DEF Driver, Calls

(* So does the controller, which may change only what is in flight: *)
LEMMA HardwarePreserves ==
    ASSUME HostInv, ~hung', Hardware
    PROVE  Quiet' /\ InFlight' /\ Resetting' /\ SuccessIsReal'
<1>0. HostTypes /\ HostTypes'
  BY HardwareTypes DEF HostInv
<1>1. ~hung /\ Quiet /\ InFlight /\ Resetting /\ SuccessIsReal
  BY DEF HostInv, Hardware, Tick, Responds, BusyEnds, SendsWord, DataOver, HwError, Clears
<1> USE CommandTypes, <1>0, <1>1 DEF HostTypes, driver
<1>2. CASE Tick
  BY <1>2 DEF Tick, Quiet, InFlight, Resetting, SuccessIsReal
<1>3. CASE Responds
  <2>1. /\ hw.st = "sent" /\ hw'.left = hw.left /\ hw'.busy = hw.busy
        /\ hw'.st = (IF hw.left > 0 THEN "data" ELSE "end")
        /\ rint' = rint \union {"done"}
        /\ UNCHANGED <<pc, cmd, got, ret, fifo, pending>>
    BY <1>3 DEF Responds
  <2>2. pc \notin {"idle", "dma_reset", "idma_reset", "clock", "busy"}
    BY <2>1 DEF Quiet, InFlight, Resetting
  <2>3. Quiet' /\ Resetting' /\ SuccessIsReal'
    BY <2>1, <2>2 DEF Quiet, Resetting, SuccessIsReal
  <2>4. InFlight'
    BY <2>1, <2>2 DEF InFlight
  <2> QED BY <2>3, <2>4
<1>4. CASE BusyEnds
  <2>1. /\ hw.st = "end" /\ hw'.left = hw.left /\ hw'.st = hw.st /\ ~hw'.busy
        /\ UNCHANGED <<pc, cmd, got, ret, rint, fifo, pending>>
    BY <1>4 DEF BusyEnds
  <2> QED BY <2>1 DEF Quiet, InFlight, Resetting, SuccessIsReal
<1>5. CASE SendsWord
  <2>1. /\ hw.st = "data" /\ hw.left > 0 /\ hw'.left = hw.left - 1 /\ hw'.st = "data"
        /\ hw'.busy = hw.busy
        /\ UNCHANGED <<pc, cmd, ret, rint, pending>>
        /\ got' + fifo' = got + fifo + 1
        /\ IF cmd.dma THEN fifo' = fifo ELSE got' = got
    BY <1>5 DEF SendsWord
  <2>2. pc \notin {"idle", "dma_reset", "idma_reset", "clock", "busy"}
    BY <2>1 DEF Quiet, InFlight, Resetting
  <2>3. Quiet' /\ Resetting' /\ SuccessIsReal'
    BY <2>1, <2>2 DEF Quiet, Resetting, SuccessIsReal
  <2>4. pc \in {"fifo", "response", "data", "dma", "busy"} => got' + fifo' + hw'.left = cmd'.words
    <3>1. {got, got', fifo, fifo', hw.left, hw'.left} \subseteq Nat
      OBVIOUS
    <3>2. hw'.left = hw.left - 1 /\ got' + fifo' = got + fifo + 1
      BY <2>1, ZenonT(30)
    <3>3. got' + fifo' + hw'.left = got + fifo + hw.left
      <4> HIDE CommandTypes, <1>0, <1>1 DEF HostTypes
      <4> QED BY <3>1, <3>2
    <3> QED BY <2>1, <3>3 DEF InFlight
  <2>5. InFlight'
    <3>1. CASE cmd.dma
      BY <2>1, <2>2, <2>4, <3>1 DEF InFlight
    <3>2. CASE ~cmd.dma
      BY <2>1, <2>2, <2>4, <3>2 DEF InFlight
    <3> QED BY <3>1, <3>2
  <2> QED BY <2>3, <2>5
<1>6. CASE DataOver
  <2>1. /\ hw.st = "data" /\ hw.left = 0 /\ hw'.left = 0 /\ hw'.st = "end"
        /\ hw'.busy = hw.busy
        /\ "dma_error" \in rint' => "dma_error" \in rint
        /\ UNCHANGED <<pc, cmd, got, ret, fifo, pending>>
    BY <1>6 DEF DataOver
  <2>2. pc \notin {"idle", "dma_reset", "idma_reset", "clock", "busy"}
    BY <2>1 DEF Quiet, InFlight, Resetting
  <2>3. Quiet' /\ Resetting' /\ SuccessIsReal'
    BY <2>1, <2>2 DEF Quiet, Resetting, SuccessIsReal
  <2>4. pc \in {"fifo", "response", "data", "dma", "busy"} => hw'.left = 0 /\ cmd.words > 0
    BY <2>1 DEF InFlight
  <2>5. InFlight'
    BY <2>1, <2>2, <2>4 DEF InFlight
  <2> QED BY <2>3, <2>5
<1>7. ASSUME NEW flags \in {{"error"}, {"error", "done"}, {"done", "over", "dma_error"}},
             HwError(flags), "dma_error" \in flags => cmd.dma
      PROVE  Quiet' /\ InFlight' /\ Resetting' /\ SuccessIsReal'
  <2>1. /\ hw.st \in {"sent", "data"} /\ hw'.left = hw.left /\ hw'.st = "off"
        /\ hw'.busy = hw.busy /\ rint' = rint \union flags
        /\ UNCHANGED <<pc, cmd, got, ret, fifo, pending>>
    BY <1>7 DEF HwError
  <2>2. pc \notin {"idle", "dma_reset", "idma_reset", "clock", "busy"}
    BY <2>1 DEF Quiet, InFlight, Resetting
  <2>3. Quiet' /\ Resetting' /\ SuccessIsReal'
    BY <2>1, <2>2 DEF Quiet, Resetting, SuccessIsReal
  <2>4. InFlight'
    BY <1>7, <2>1, <2>2 DEF InFlight
  <2> QED BY <2>3, <2>4
<1>8. ASSUME NEW bit \in {"dma", "reset", "clock"}, Clears(bit)
      PROVE  Quiet' /\ InFlight' /\ Resetting' /\ SuccessIsReal'
  <2>1. CASE bit = "reset"
    <3>1. /\ "reset" \in pending /\ pending' = pending \ {"reset"}
          /\ hw'.st = "off" /\ fifo' = 0 /\ UNCHANGED <<pc, cmd, got, ret, rint>>
      BY <1>8, <2>1 DEF Clears
    <3>2. pc = "reset"
      BY <3>1 DEF Quiet, InFlight, Resetting, Loops
    <3> QED BY <3>1, <3>2 DEF Quiet, InFlight, Resetting, SuccessIsReal
  <2>2. CASE bit # "reset"
    <3>1. /\ "reset" \in pending' <=> "reset" \in pending
          /\ UNCHANGED <<hw, fifo, pc, cmd, got, ret, rint>>
      BY <1>8, <2>2 DEF Clears
    <3>2. Quiet' /\ Resetting'
      BY <3>1 DEF Quiet, Resetting
    <3>3. InFlight'
      BY <3>1 DEF InFlight
    <3>4. SuccessIsReal'
      BY <3>1 DEF SuccessIsReal
    <3> QED BY <3>2, <3>3, <3>4
  <2> QED BY <2>1, <2>2
<1> QED BY <1>2, <1>3, <1>4, <1>5, <1>6, <1>7, <1>8 DEF Hardware

-----------------------------------------------------------------------------
(* HostInv is inductive. *)
THEOREM HostInvariant == Spec => []HostInv
<1>1. Init => HostInv
  BY HostInit
<1>2. HostInv /\ [Next]_hostVars => HostInv'
  <2> SUFFICES ASSUME HostInv, [Next]_hostVars PROVE HostInv'
    OBVIOUS
  <2>1. CASE Driver \/ Calls
    BY <2>1, DriverTypes, DriverPreserves DEF HostInv
  <2>2. CASE Hardware
    BY <2>2, HardwareTypes, HardwarePreserves DEF HostInv
  <2>3. CASE UNCHANGED hostVars
    <3>1. UNCHANGED <<pc, cmd, got, ret, rint, hw, fifo, pending, hung, now, timeout, armed>>
      BY <2>3 DEF hostVars, driver
    <3>2. HostTypes' <=> HostTypes
      BY <3>1 DEF HostTypes
    <3>3. (Quiet' <=> Quiet) /\ (InFlight' <=> InFlight)
      BY <3>1 DEF Quiet, InFlight
    <3>4. (Resetting' <=> Resetting) /\ (SuccessIsReal' <=> SuccessIsReal)
      BY <3>1 DEF Resetting, SuccessIsReal
    <3> QED BY <3>1, <3>2, <3>3, <3>4 DEF HostInv
  <2> QED BY <2>1, <2>2, <2>3 DEF Next, Calls
<1> QED BY <1>1, <1>2, PTL DEF Spec

(* mmc_send_cmd returns 0 only for a command the controller did complete,  *)
(* with all its data in the buffer and the card no longer busy, for every  *)
(* size of a transfer, depth of the FIFO, time allowed and width of the    *)
(* deadlines, and whatever fails on the way.                               *)
THEOREM SuccessAlwaysReal == Spec => []SuccessIsReal
<1>1. HostInv => SuccessIsReal
  BY DEF HostInv, SuccessIsReal
<1> QED BY <1>1, HostInvariant, PTL

-----------------------------------------------------------------------------
(* The deadline of a wait is the one set when the wait began: *)
TimeInv ==
    /\ now \in Nat /\ timeout \in Int
    /\ armed.at \in Nat /\ armed.at <= now
    /\ armed.allows \in Nat /\ armed.allows <= BusyTime
    /\ armed.at + armed.allows < WRAP => timeout = armed.at + armed.allows

LEMMA SmallMod ==
    ASSUME NEW x \in Nat, NEW n \in Nat, x < n
    PROVE  x % n = x
OBVIOUS

LEMMA TimesAllowed ==
    /\ ResetTime \in Nat /\ DataTime \in Nat /\ BusyTime \in Nat /\ WRAP \in Nat
    /\ 0 < ResetTime /\ 0 < DataTime /\ ResetTime <= BusyTime /\ DataTime <= BusyTime
    /\ 0 < BusyTime /\ BusyTime < WRAP
BY MmcHostAssumption

LEMMA SetTimeoutKeeps ==
    ASSUME TimeInv, NEW t \in {ResetTime, DataTime, BusyTime}, SetTimeout(t), now' = now
    PROVE  TimeInv'
<1> USE TimesAllowed
<1>1. t \in Nat /\ t <= BusyTime /\ now \in Nat
  BY DEF TimeInv
<1>2. armed'.at = now /\ armed'.allows = t /\ timeout' = (now + t) % WRAP
  BY DEF SetTimeout, Deadline
<1>3. timeout' \in Int
  BY <1>1, <1>2
<1>4. now + t < WRAP => timeout' = now + t
  BY <1>1, <1>2, SmallMod
<1> QED BY <1>1, <1>2, <1>3, <1>4 DEF TimeInv

LEMMA TimeInvariant == Spec => []TimeInv
<1>1. Init => TimeInv
  BY TimesAllowed DEF Init, TimeInv
<1>2. TimeInv /\ [Next]_hostVars => TimeInv'
  <2> SUFFICES ASSUME TimeInv, [Next]_hostVars PROVE TimeInv'
    OBVIOUS
  <2>1. CASE Driver \/ Calls
    <3>1. now' = now
      BY <2>1 DEF Driver, Calls, SendNothing, ClockFails, SendCmd, DmaReset, ReadFifo, AwaitResponse, AwaitData, AwaitDma,
                  AwaitBusy, AwaitReset, AwaitClock
    <3>2. UNCHANGED <<timeout, armed>> \/ \E t \in {ResetTime, DataTime, BusyTime} : SetTimeout(t)
      BY <2>1 DEF Driver, Calls, SendNothing, ClockFails, driver, SendCmd, Misaligned, DmaReset,
                  ReadFifo, AwaitResponse, AwaitData, AwaitDma, AwaitBusy, AwaitReset, AwaitClock,
                  PollFails, Fail, Enter, Succeed, Return
    <3>3. CASE UNCHANGED <<timeout, armed>>
      BY <3>1, <3>3 DEF TimeInv
    <3> QED BY <3>1, <3>2, <3>3, SetTimeoutKeeps
  <2>2. CASE Tick
    BY <2>2 DEF Tick, driver, TimeInv
  <2>3. CASE Hardware /\ ~Tick
    BY <2>3 DEF Hardware, Responds, BusyEnds, SendsWord, DataOver, HwError, Clears, driver, TimeInv
  <2>4. CASE UNCHANGED hostVars
    BY <2>4 DEF hostVars, driver, TimeInv
  <2> QED BY <2>1, <2>2, <2>3, <2>4 DEF Next, Calls
<1> QED BY <1>1, <1>2, PTL DEF Spec

(* mmc_send_cmd never gives up a wait as timed out before the time allowed *)
(* for this wait, for every width of the deadlines, up to the instant from *)
(* which one no longer fits.                                               *)
THEOREM TimeoutNeverEarly == Spec => TimeoutAfterTime
<1> DEFINE TimedOut == pc # "reset" /\ pc' = "reset" /\ ret' = "timeout" /\ now + BusyTime < WRAP
           Late == now - armed.at >= armed.allows
<1>1. TimeInv /\ [Next]_hostVars => [TimedOut => Late]_hostVars
  <2> SUFFICES ASSUME TimeInv, Next, TimedOut PROVE Late
    OBVIOUS
  <2>1. now >= timeout
    <3>1. ~(now >= Deadline(DataTime))
      <4>1. now + DataTime < WRAP /\ now + DataTime \in Nat
        BY TimesAllowed DEF TimeInv
      <4>2. Deadline(DataTime) = now + DataTime
        BY <4>1, TimesAllowed, SmallMod DEF Deadline
      <4> QED BY <4>1, <4>2, TimesAllowed DEF TimeInv
    <3>2. now > timeout \/ now >= timeout
      BY <3>1 DEF Next, Driver, SendNothing, ClockFails, SendCmd, Misaligned, DmaReset, ReadFifo, AwaitResponse, AwaitData, AwaitDma,
                  AwaitBusy, AwaitReset, AwaitClock, PollFails, PollFinds, Fail, Enter, Succeed,
                  Return, Hardware, Tick, Responds, BusyEnds, SendsWord, DataOver, HwError, Clears,
                  driver
    <3> QED BY <3>2 DEF TimeInv
  <2>2. armed.at + armed.allows < WRAP
    BY TimesAllowed DEF TimeInv
  <2> QED BY <2>1, <2>2 DEF TimeInv
<1> QED BY <1>1, TimeInvariant, PTL DEF Spec, TimeoutAfterTime

============================================================================
