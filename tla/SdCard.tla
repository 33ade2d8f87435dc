------------------------------ MODULE SdCard ------------------------------
(***************************************************************************)
(* The card side of the disk (earth/modules/mmc/mmc.c, the clock and width *)
(* of mmc_bsp.c, earth/dev_disk.c): how the driver identifies a card,      *)
(* negotiates addressing, bus width and clock with it, and reads blocks.   *)
(* mmc_send_cmd, whose inside is MmcHost, is one step here that succeeds   *)
(* or fails; when it fails the card may or may not have obeyed.            *)
(*                                                                         *)
(* Every caller of disk_read asks for one block; mmc_read_info, for MMC    *)
(* cards, reads several.                                                   *)
(***************************************************************************)
EXTENDS Integers

CONSTANTS
    Kinds,        \* kinds of card that may be in the slot
    Tries,        \* polls for the operating condition (1000 and 10000)
    Polls,        \* polls that a card needs at most to get ready
    PERIPH0,      \* _get_pll_periph0, in kHz (600 MHz)
    ExtFMax,      \* values of boot_hs_f_max, in MHz (a byte; 0: none)
    NBLOCKS,      \* blocks of the card
    BlockLen,     \* bytes of a block (512)
    NoBlock       \* the contents of a buffer that no block was read to

SDKinds == {"SD1", "SD110", "SD2", "SDHC"}   \* SDHC: version 2, block addresses
RCA     == 7                             \* the address an SD card picks
Blocks  == 0..(NBLOCKS - 1)

(* clocks in kHz: f_min, f_max, and those of the speed modes *)
f_min == 400
MHz25 == 25000
MHz26 == 26000
MHz50 == 50000
MHz52 == 52000

ASSUME SdCardAssumption ==
    /\ Kinds \subseteq SDKinds \union {"MMC3", "MMC4"}
    /\ {Tries, NBLOCKS, BlockLen, PERIPH0} \subseteq Nat \ {0} /\ Polls \in Nat
    /\ ExtFMax \subseteq 0..255 /\ NoBlock \notin Blocks

VARIABLES
    pc,           \* the next command of mmc_init or mmc_bread
    mmc,          \* struct mmc: what the driver believes
    host,         \* the controller: card clock (0: off), bus width, fatal_err
    card,         \* the card
    tries,        \* the counter of the retry loop
    timeout,      \* the counter of mmc_send_status
    io            \* the last disk_read: block, buffer, result of mmc_bread

sdVars == <<pc, mmc, host, card, tries, timeout, io>>

IS_SD == mmc.version \in SDKinds

-----------------------------------------------------------------------------
(* The card, by how the driver uses it                                     *)

HighCapacity == card.kind \in {"SDHC", "MMC4"}

Identifying == {"idle", "ready", "ident"}

(* whether the card answers command c with argument arg in its state *)
Accepts(c, arg) ==
    \/ c = "GO_IDLE"
    \/ card.kind \in SDKinds /\
         \/ c = "SEND_IF_COND"  /\ card.st = "idle" /\ card.kind \in {"SD2", "SDHC"}
         \/ c = "APP_CMD"       /\ arg = card.rca
         \/ c = "APP_OP_COND"   /\ card.st = "idle" /\ card.app
         \/ c = "SEND_SCR"      /\ card.st = "tran" /\ card.app
         \/ c = "SET_BUS_WIDTH" /\ card.st = "tran" /\ card.app
         \/ c = "SWITCH_FUNC"   /\ card.st = "tran" /\ card.kind # "SD1"
    \/ card.kind \notin SDKinds /\
         \/ c \in {"QUERY", "SEND_OP_COND"} /\ card.st = "idle"
         \/ c \in {"SEND_EXT_CSD", "SWITCH"} /\ card.st = "tran" /\ card.kind = "MMC4"
    \/ c = "ALL_SEND_CID"  /\ card.st = "ready"
    \/ c = "RELATIVE_ADDR" /\ card.st = "ident"
    \/ c \in {"SEND_CSD", "SELECT_CARD"} /\ card.st = "stby" /\ arg = card.rca
    \/ c \in {"SET_BLOCKLEN", "READ_SINGLE_BLOCK", "READ_MULTIPLE_BLOCK"} /\ card.st = "tran"
    \/ c = "SEND_STATUS" /\ card.st \notin Identifying /\ arg = card.rca

(* a card of high capacity gets ready only for a host that says it can     *)
(* address it (arg)                                                        *)
Starts(arg) == IF HighCapacity /\ ~arg THEN card
               ELSE IF card.polls > 0 THEN [card EXCEPT !.polls = @ - 1]
               ELSE [card EXCEPT !.st = "ready"]

(* the states in which command c may leave a card that accepts it *)
Obeys(c, arg) ==
    CASE c = "GO_IDLE"       -> {[card EXCEPT !.st = "idle", !.rca = 0, !.width = 1, !.hs = FALSE]}
      [] c \in {"APP_OP_COND", "SEND_OP_COND"} -> {Starts(arg)}
      [] c = "ALL_SEND_CID"  -> {[card EXCEPT !.st = "ident"]}
      [] c = "RELATIVE_ADDR" -> {[card EXCEPT !.st = "stby",
                                     !.rca = IF card.kind \in SDKinds THEN RCA ELSE arg]}
      [] c = "SELECT_CARD"   -> {[card EXCEPT !.st = "tran"]}
      [] c = "SWITCH_FUNC" /\ arg -> {card, [card EXCEPT !.hs = TRUE]}
      [] c = "SWITCH" /\ arg = "HS_TIMING" -> {card, [card EXCEPT !.hs = TRUE]}
      [] c = "SET_BUS_WIDTH" \/ (c = "SWITCH" /\ arg = "BUS_WIDTH")
                             -> {[card EXCEPT !.width = 4]}
      [] c = "READ_MULTIPLE_BLOCK" -> {[card EXCEPT !.st = "data"], card}
      [] OTHER               -> {card}

Prefixed(c, s) == [s EXCEPT !.app = (c = "APP_CMD")]

-----------------------------------------------------------------------------
(* The controller                                                          *)

(* mmc_send_cmd, which returns 0 (ok) or not *)
Send(c, arg, ok) ==
    LET obeyed  == {Prefixed(c, s) : s \in Obeys(c, arg)}
        ignored == [card EXCEPT !.app = FALSE]
    IN  IF ok THEN ~host.fatal /\ Accepts(c, arg) /\ card' \in obeyed
        ELSE \/ card' = card
             \/ ~host.fatal /\ Accepts(c, arg) /\ card' \in obeyed
             \/ ~host.fatal /\ ~Accepts(c, arg) /\ card' = ignored

Clamp(clk, f_max) == IF clk > f_max THEN f_max ELSE IF clk < f_min THEN f_min ELSE clk

(* mmc_set_mclk: source and dividers of the module clock.  The quotient is *)
(* rounded to the nearest, its lower bits are dropped with the shift.      *)
source(clk) == IF clk <= 4000 THEN 24000 ELSE 2 * PERIPH0

shift(div) == CASE div > 128 -> 0 [] div \in 65..128 -> 3 [] div \in 33..64 -> 2
                [] div \in 17..32 -> 1 [] OTHER -> 0

set_mclk(clk) ==
    LET q   == (2 * source(clk) + clk) \div (2 * clk)
        div == IF q = 0 THEN 1 ELSE q
    IN  [sclk |-> source(clk), n |-> shift(div),
         m |-> (IF div > 128 THEN 1 ELSE div \div 2^shift(div)) - 1]

get_mclk(r) == (r.sclk \div 2^r.n) \div ((r.m % 16) + 1)

(* mmc_config_clock_modex in timing mode 1: the module runs at twice the   *)
(* card clock (no mode with double data rate survives host_caps)           *)
modex(clk) == get_mclk(set_mclk(2 * clk)) \div 2

(* mmc_config_clock: the card clock and mmc->clock it leaves.  The update  *)
(* that stops the card clock may fail, before mmc->clock is rounded, and   *)
(* the one that starts it; the result of modex is not looked at.           *)
config_clock(h, clk) ==
    {[ok |-> TRUE, card |-> modex(clk), clock |-> modex(clk)]} \union
    {[ok |-> FALSE, card |-> c, clock |-> clk] : c \in {h.clock, 0}} \union
    {[ok |-> FALSE, card |-> c, clock |-> modex(clk)] : c \in {0, modex(clk)}}

(* mmc_set_ios: the clock, then the width *)
set_ios(h, clk, w) ==
    {[host  |-> IF o.ok THEN [h EXCEPT !.clock = o.card, !.width = w]
                ELSE [h EXCEPT !.clock = o.card, !.fatal = TRUE],
      clock |-> o.clock] : o \in config_clock(h, clk)}

(* mmc_set_bus_width, with the clock as it was rounded before *)
set_bus_width(h, w) == set_ios(h, mmc.clock, w)
WidthSet(w) == {r.host : r \in set_bus_width(host, w)}

-----------------------------------------------------------------------------
(* mmc_init: one action per command, in the order of the code              *)

Goto(p) == pc' = p
Step(p, c, arg, next, err) ==
    /\ pc = p
    /\ \E ok \in BOOLEAN : Send(c, arg, ok) /\ Goto(IF ok THEN next ELSE err)

(* the steps that only send a command and go on, or give up *)
Only(s) == s /\ UNCHANGED <<mmc, host, tries, io>>

(* mmc_core_init, then one bit and the lowest clock *)
core_init ==
    /\ pc = "core_init"
    /\ \/ Goto("failed") /\ UNCHANGED <<mmc, host>>
       \/ \E r \in set_ios([host EXCEPT !.width = 1], Clamp(1, mmc.f_max), 1) :
             /\ mmc' = [mmc EXCEPT !.width = 1, !.clock = r.clock] /\ host' = r.host
             /\ Goto("go_idle")
    /\ UNCHANGED <<card, tries, io>>

go_idle == Only(Step("go_idle", "GO_IDLE", 0, "if_cond", "failed"))

(* mmc_send_if_cond, whose failure is that of an older card *)
send_if_cond ==
    /\ pc = "if_cond"
    /\ \E ok \in BOOLEAN :
          /\ Send("SEND_IF_COND", 0, ok)
          /\ mmc' = IF ok THEN [mmc EXCEPT !.version = "SD2"] ELSE mmc
    /\ Goto("app_41") /\ tries' = Tries
    /\ UNCHANGED <<host, io>>

(* sd_send_op_cond; when it fails, mmc_send_op_cond *)
app_41 == Only(Step("app_41", "APP_CMD", 0, "op_41", "mmc_idle"))

(* the loop until the card is ready, which goes on at p, gives up at err, *)
(* and leaves record m.  Ready at the last poll is too late.               *)
Polled(p, err, m) ==
    \/ card'.st = "ready" /\ tries > 0 /\ Goto("cid") /\ mmc' = m /\ UNCHANGED tries
    \/ card'.st = "ready" /\ tries = 0 /\ Goto(err) /\ UNCHANGED <<mmc, tries>>
    \/ card'.st # "ready" /\ tries > 0 /\ Goto(p) /\ tries' = tries - 1 /\ UNCHANGED mmc
    \/ card'.st # "ready" /\ tries = 0 /\ Goto(err) /\ UNCHANGED <<mmc, tries>>

sd_send_op_cond ==
    /\ pc = "op_41"
    /\ \/ /\ Send("APP_OP_COND", mmc.version = "SD2", TRUE)
          /\ Polled("app_41", "mmc_idle",
                [mmc EXCEPT !.version = IF @ = "SD2" THEN @ ELSE "SD1",
                            !.high_capacity = HighCapacity, !.rca = 0])
       \/ /\ Send("APP_OP_COND", mmc.version = "SD2", FALSE)
          /\ Goto("mmc_idle") /\ UNCHANGED <<mmc, tries>>
    /\ UNCHANGED <<host, io>>

mmc_idle ==
    /\ Step("mmc_idle", "GO_IDLE", 0, "query", "query")
    /\ tries' = Tries
    /\ UNCHANGED <<mmc, host, io>>

(* the first SEND_OP_COND has no voltages and starts nothing *)
query == Only(Step("query", "QUERY", 0, "op_cond", "failed"))

mmc_send_op_cond ==
    /\ pc = "op_cond"
    /\ \/ /\ Send("SEND_OP_COND", TRUE, TRUE)
          /\ Polled("op_cond", "failed",
                [mmc EXCEPT !.version = "MMC", !.high_capacity = HighCapacity, !.rca = 1])
       \/ /\ Send("SEND_OP_COND", TRUE, FALSE)
          /\ Goto("failed") /\ UNCHANGED <<mmc, tries>>
    /\ UNCHANGED <<host, io>>

(* mmc_startup *)
all_send_cid == Only(Step("cid", "ALL_SEND_CID", 0, "rca", "failed"))

relative_addr ==
    /\ pc = "rca"
    /\ \E ok \in BOOLEAN :
          /\ Send("RELATIVE_ADDR", mmc.rca, ok)
          /\ Goto(IF ok THEN "csd" ELSE "failed")
          /\ mmc' = IF ok /\ IS_SD THEN [mmc EXCEPT !.rca = card'.rca] ELSE mmc
    /\ UNCHANGED <<host, tries, io>>

(* the version of an MMC card is in its CSD; the status is awaited also    *)
(* when the command failed                                                 *)
send_csd ==
    /\ pc = "csd"
    /\ \E ok \in BOOLEAN :
          /\ Send("SEND_CSD", mmc.rca, ok)
          /\ Goto(IF ok THEN "csd_status" ELSE "csd_failed")
          /\ mmc' = IF ok /\ ~IS_SD THEN [mmc EXCEPT !.version = card.kind] ELSE mmc
    /\ timeout' = Tries
    /\ UNCHANGED <<host, tries, io>>

(* mmc_send_status: polls until the card is ready or reports an error; no  *)
(* caller looks at what came of it                                         *)
send_status(p, next) ==
    /\ pc = p
    /\ \/ \E ok \in BOOLEAN : Send("SEND_STATUS", mmc.rca, ok) /\ Goto(next)
          /\ UNCHANGED timeout
       \/ /\ Send("SEND_STATUS", mmc.rca, TRUE) /\ timeout' = timeout - 1
          /\ Goto(IF timeout = 0 THEN next ELSE p)
    /\ UNCHANGED <<mmc, host, tries, io>>

(* mmc_set_clock(25 MHz) with maximum f, and on to the speed modes *)
Set25MHz(f) ==
    /\ \E r \in set_ios(host, Clamp(MHz25, f), mmc.width) :
          mmc' = [mmc EXCEPT !.f_max = f, !.clock = r.clock, !.caps = {}] /\ host' = r.host
    /\ Goto(IF IS_SD THEN "scr_app" ELSE IF mmc.version = "MMC4" THEN "ext_csd" ELSE "phase")

(* select the card; an MMC card is asked for its timing region first *)
select_card ==
    /\ pc = "select"
    /\ \E ok \in BOOLEAN :
          /\ Send("SELECT_CARD", mmc.rca, ok)
          /\ \/ ok /\ IS_SD /\ Set25MHz(mmc.f_max) /\ UNCHANGED tries
             \/ ok /\ ~IS_SD /\ Goto("info") /\ tries' = 3 /\ UNCHANGED <<mmc, host>>
             \/ ~ok /\ Goto("failed") /\ UNCHANGED <<mmc, host, tries>>
    /\ UNCHANGED io

(* mmc_read_info: mmc_read_blocks of several blocks, which returns 0 when  *)
(* it fails; only the contents of the buffer are then looked at            *)
read_info ==
    /\ pc = "info"
    /\ \E ok \in BOOLEAN :
          /\ Send("READ_MULTIPLE_BLOCK", 0, ok)
          /\ ok => card'.st = "tran"             \* stopped by the controller
          /\ Goto(IF ok THEN "stop" ELSE "info_check")
    /\ UNCHANGED <<mmc, host, tries, io>>

(* mmc_send_cmd does not send it, and returns 0 (MmcHost!SendNothing) *)
stop_transmission ==
    /\ pc = "stop"
    /\ Goto(IF host.fatal THEN "info_check" ELSE "info_status")
    /\ timeout' = Tries
    /\ UNCHANGED <<mmc, host, card, tries, io>>

info_check ==
    /\ pc = "info_check"
    /\ \/ Goto("caps") /\ UNCHANGED tries
       \/ tries > 0 /\ Goto("info") /\ tries' = tries - 1
    /\ UNCHANGED <<mmc, host, card, io>>

(* mmc_update_host_caps_r: 25 MHz without timings for f_max, or lower if   *)
(* the region says so; 25 MHz again for a card that was never tuned        *)
LowerFMax(f, ext) == IF ext # 0 /\ f \div 1000 > ext THEN ext * 1000 ELSE f

update_host_caps_r ==
    /\ pc = "caps"
    /\ \E f \in {MHz25, mmc.f_max}, ext \in ExtFMax, tuned \in BOOLEAN :
          Set25MHz(IF tuned THEN LowerFMax(f, ext) ELSE MHz25)
    /\ UNCHANGED <<card, tries, io>>

(* mmc_change_freq: the switch is repeated while the clock update after it *)
(* fails, and what came of it read from the card                           *)
ext_csd == Only(Step("ext_csd", "SEND_EXT_CSD", 0, "freq", "freq"))

change_freq ==
    /\ Step("freq", "SEND_EXT_CSD", 0, "hs_switch", "failed")
    /\ mmc' = [mmc EXCEPT !.caps = {"4BIT", "8BIT"}] /\ tries' = 5
    /\ UNCHANGED <<host, io>>

(* mmc_switch: an error of the command is overwritten by the result of the *)
(* clock update; if that is an error (fails), the status is not awaited    *)
mmc_switch(p, what, status, fails) ==
    /\ pc = p
    /\ \E ok \in BOOLEAN : Send("SWITCH", what, ok)
    /\ \/ Goto(status) /\ timeout' = Tries /\ UNCHANGED tries
       \/ fails /\ UNCHANGED timeout
    /\ UNCHANGED <<mmc, host, io>>

hs_switch ==
    mmc_switch("hs_switch", "HS_TIMING", "hs_status",
        \/ tries > 0 /\ Goto("hs_switch") /\ tries' = tries - 1
        \/ tries = 0 /\ Goto("failed") /\ UNCHANGED tries)

hs_check ==
    /\ pc = "hs_check"
    /\ \E ok \in BOOLEAN, fast \in {{"HS"}, {"HS", "HS_52MHz"}} :
          /\ Send("SEND_EXT_CSD", 0, ok)
          /\ Goto(IF ok THEN "phase" ELSE "failed")
          /\ mmc' = IF ok /\ card.hs THEN [mmc EXCEPT !.caps = @ \union fast] ELSE mmc
    /\ UNCHANGED <<host, tries, io>>

(* sd_change_freq *)
scr_app ==
    /\ Step("scr_app", "APP_CMD", mmc.rca, "scr", "failed")
    /\ tries' = 3
    /\ UNCHANGED <<mmc, host, io>>

ScrVersion == IF card.kind = "SDHC" THEN "SD2" ELSE card.kind

send_scr_forever ==
    /\ pc = "scr"
    /\ \E four \in {{}, {"4BIT"}} :
       \/ /\ Send("SEND_SCR", 0, TRUE)
          /\ mmc' = [mmc EXCEPT !.version = ScrVersion, !.caps = four]
          /\ Goto(IF ScrVersion = "SD1" THEN "phase" ELSE "check") /\ tries' = 4
       \/ /\ Send("SEND_SCR", 0, FALSE) /\ UNCHANGED <<pc, tries, mmc>>
    /\ UNCHANGED <<host, io>>
(* retried without a new APP_CMD *)
send_scr ==
    /\ pc = "scr"
    /\ \E four \in {{}, {"4BIT"}} :
       \/ /\ Send("SEND_SCR", 0, TRUE)
          /\ mmc' = [mmc EXCEPT !.version = ScrVersion, !.caps = four]
          /\ Goto(IF ScrVersion = "SD1" THEN "phase" ELSE "check") /\ tries' = 4
       \/ /\ Send("SEND_SCR", 0, FALSE) /\ tries > 0
          /\ tries' = tries - 1 /\ UNCHANGED <<pc, mmc>>
       \/ /\ Send("SEND_SCR", 0, FALSE) /\ tries = 0
          /\ Goto("failed") /\ UNCHANGED <<tries, mmc>>
    /\ UNCHANGED <<host, io>>

(* high speed, checked until it is not busy, or enough; used if supported *)
switch_check ==
    /\ pc = "check"
    /\ \/ Send("SWITCH_FUNC", FALSE, FALSE) /\ Goto("failed") /\ UNCHANGED tries
       \/ /\ Send("SWITCH_FUNC", FALSE, TRUE)
          /\ \/ tries > 1 /\ tries' = tries - 1 /\ UNCHANGED pc
             \/ (Goto("hs_sd") \/ Goto("phase")) /\ UNCHANGED tries
    /\ UNCHANGED <<mmc, host, io>>

switch_hs_assumed ==
    /\ pc = "hs_sd"
    /\ \/ /\ \E ok \in BOOLEAN : Send("SWITCH_FUNC", TRUE, ok)
          /\ Goto("failed") /\ UNCHANGED mmc
       \/ /\ Send("SWITCH_FUNC", TRUE, TRUE) /\ Goto("phase")
          /\ mmc' = [mmc EXCEPT !.caps = @ \union {"HS"}]
    /\ UNCHANGED <<host, tries, io>>
(* fails with the command or with the clock update after it *)
switch_hs ==
    /\ pc = "hs_sd"
    /\ \/ /\ \E ok \in BOOLEAN : Send("SWITCH_FUNC", TRUE, ok)
          /\ Goto("failed") /\ UNCHANGED mmc
       \/ /\ Send("SWITCH_FUNC", TRUE, TRUE) /\ Goto("phase")
          /\ mmc' = IF card'.hs THEN [mmc EXCEPT !.caps = @ \union {"HS"}] ELSE mmc
    /\ UNCHANGED <<host, tries, io>>

host_caps == {"HS", "HS_52MHz", "HC", "4BIT"}

TranSpeed(caps) ==
    IF IS_SD THEN IF "HS" \in caps THEN MHz50 ELSE MHz25
    ELSE IF {"HS", "HS_52MHz"} \subseteq caps THEN MHz52 ELSE MHz26

(* the end of mmc_startup, from host state h and width w: the final clock, *)
(* whose failure goes unnoticed                                            *)
Finish(h, caps, w) ==
    LET clk == Clamp(TranSpeed(caps), mmc.f_max)
    IN  /\ \E r \in UNION {set_ios(g, clk, w) : g \in h} :
              /\ mmc' = [mmc EXCEPT !.caps = caps, !.width = w, !.clock = r.clock,
                                    !.lba = NBLOCKS, !.has_init = TRUE]
              /\ host' = r.host
        /\ Goto("ready")

(* mmc_update_phase, and the width that both sides can *)
phase ==
    /\ pc = "phase"
    /\ LET caps == mmc.caps \intersect host_caps
       IN  \/ Goto("failed") /\ UNCHANGED <<mmc, host>>
           \/ /\ "4BIT" \in caps /\ Goto(IF IS_SD THEN "width_app" ELSE "width_switch")
              /\ mmc' = [mmc EXCEPT !.caps = caps] /\ UNCHANGED host
           \/ "4BIT" \notin caps /\ Finish({host}, caps, mmc.width)
    /\ UNCHANGED <<card, tries, io>>

width_app == Only(Step("width_app", "APP_CMD", mmc.rca, "width", "failed"))

set_width_unchecked ==
    /\ pc = "width"
    /\ \E ok \in BOOLEAN : Send("SET_BUS_WIDTH", 2, ok)
    /\ Finish(WidthSet(4), mmc.caps, 4)
    /\ UNCHANGED <<tries, io>>
set_width ==
    /\ pc = "width"
    /\ \/ Send("SET_BUS_WIDTH", 2, TRUE) /\ Finish(WidthSet(4), mmc.caps, 4)
       \/ Send("SET_BUS_WIDTH", 2, FALSE) /\ Goto("failed") /\ UNCHANGED <<mmc, host>>
    /\ UNCHANGED <<tries, io>>

width_switch ==
    mmc_switch("width_switch", "BUS_WIDTH", "width_status", Goto("failed") /\ UNCHANGED tries)

switched_width ==
    /\ pc = "width_set"
    /\ Finish(WidthSet(4), mmc.caps, 4)
    /\ UNCHANGED <<card, tries, io>>

(* disk_init goes on without a disk *)
failed == pc = "failed" /\ Goto("ready") /\ UNCHANGED <<mmc, host, card, tries, io>>

-----------------------------------------------------------------------------
(* disk_read, mmc_bread and mmc_read_blocks of one block                   *)

disk_read(b) ==
    /\ pc = "ready"
    /\ io' = [block |-> b, buffer |-> NoBlock, count |-> 0]
    /\ Goto(IF b + 1 > mmc.lba THEN "ready" ELSE "blocklen")
    /\ UNCHANGED <<mmc, host, card, tries>>

set_blocklen == Only(Step("blocklen", "SET_BLOCKLEN", 0, "read", "ready"))

Address_bytes(b) == b * BlockLen
Address(b) == IF mmc.high_capacity THEN b ELSE b * BlockLen

(* the block that the card sends for an address *)
Addressed(a) == IF HighCapacity THEN a ELSE a \div BlockLen

read_blocks ==
    /\ pc = "read"
    /\ \E ok \in BOOLEAN :
          /\ Send("READ_SINGLE_BLOCK", Address(io.block), ok)
          /\ io' = IF ok THEN [io EXCEPT !.buffer = Addressed(Address(io.block)), !.count = 1]
                   ELSE io
    /\ Goto("ready")
    /\ UNCHANGED <<mmc, host, tries>>

-----------------------------------------------------------------------------
Init ==
    /\ pc = "core_init"
    /\ mmc = [version |-> "none", high_capacity |-> FALSE, rca |-> 0, caps |-> {}, width |-> 0,
              clock |-> 0, f_max |-> MHz50, lba |-> 0, has_init |-> FALSE]
    /\ host = [fatal |-> FALSE, clock |-> 0, width |-> 1]
    /\ \E k \in Kinds, n \in 0..Polls :
          card = [kind |-> k, st |-> "idle", rca |-> 0, width |-> 1, hs |-> FALSE,
                  app |-> FALSE, polls |-> n]
    /\ tries = 0 /\ timeout = 0 /\ io = [block |-> 0, buffer |-> NoBlock, count |-> 0]

Steps ==
    \/ core_init \/ go_idle \/ send_if_cond \/ app_41 \/ sd_send_op_cond
    \/ mmc_idle \/ query \/ mmc_send_op_cond
    \/ all_send_cid \/ relative_addr \/ select_card
    \/ read_info \/ info_check \/ update_host_caps_r
    \/ ext_csd \/ change_freq \/ hs_check
    \/ scr_app \/ send_scr \/ switch_check \/ switch_hs
    \/ phase \/ width_app \/ set_width \/ switched_width \/ failed
    \/ set_blocklen \/ read_blocks

(* the steps before mmc_send_status, and its polls *)
Waits ==
    \/ send_csd \/ stop_transmission \/ hs_switch \/ width_switch
    \/ send_status("csd_status", "select") \/ send_status("csd_failed", "failed")
    \/ send_status("info_status", "info_check")
    \/ send_status("hs_status", "hs_check") \/ send_status("width_status", "width_set")

Call == (Steps /\ UNCHANGED timeout) \/ Waits

Next == Call \/ \E b \in Blocks \union {NBLOCKS} : disk_read(b) /\ UNCHANGED timeout

(* mmc_send_cmd always returns (MmcHost!CommandReturns) *)
Spec == Init /\ [][Next]_sdVars /\ WF_sdVars(Call)

-----------------------------------------------------------------------------
(* After mmc_init has accepted an SD card, the driver and the card agree:  *)
(* the card is selected under the address the driver uses, counts blocks   *)
(* or bytes as the driver does, and uses the bus width of the controller.  *)
(* No command that failed on the way left them apart.  (With fatal_err the *)
(* driver sends nothing more.)                                             *)
InitAgrees ==
    (mmc.has_init /\ card.kind \in SDKinds /\ ~host.fatal) =>
        /\ card.st = "tran" /\ card.rca = mmc.rca
        /\ mmc.high_capacity = HighCapacity
        /\ card.width = host.width

(* A card is never clocked faster than it can go: 400 kHz until it has an  *)
(* address, then 25 MHz, and more only once the card itself is in its      *)
(* high-speed mode.  This is the clock that mmc_set_mclk's rounded         *)
(* dividers give, not the one asked for; for the 26 MHz of an MMC card     *)
(* below high speed they give 27.3 MHz, so such cards are left out.        *)
ClockWithinCard ==
    /\ card.st \in Identifying => host.clock <= f_min
    /\ card.kind \in SDKinds => host.clock <= (IF card.hs THEN MHz50 ELSE MHz25)
    /\ card.kind = "MMC4" /\ card.hs => host.clock <= MHz52

(* A read that mmc_bread reports as done has filled the buffer with the    *)
(* block asked for, for cards with block and with byte addresses.          *)
ReadCorrect == io.count = 1 => io.buffer = io.block

(* Identification and every read end: all retry loops are bounded.         *)
CallEnds == pc # "ready" ~> pc = "ready"
=============================================================================
