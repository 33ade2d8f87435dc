--------------------------- MODULE SdCardProofs ---------------------------
(***************************************************************************)
(* What mmc_init leaves behind and what mmc_bread returns, for every kind  *)
(* of card, number of polls and size of the card, and wherever a command   *)
(* fails.  The argument follows pc: each stage of the initialisation knows *)
(* what the commands before it have settled, and a stage that fails never  *)
(* sets has_init.                                                          *)
(***************************************************************************)
EXTENDS SdCard, TLAPS

USE Zenon


Versions == {"none", "MMC", "MMC3", "MMC4"} \union SDKinds
States   == Identifying \union {"stby", "tran", "data"}

(* The stages of mmc_init, and what comes after it                         *)
Before     == {"go_idle", "if_cond"}
Asking     == {"app_41", "op_41", "mmc_idle", "query", "op_cond"}
Addressing == {"cid", "rca"}
Unselected == {"csd", "csd_status", "csd_failed", "select"}
MmcOnly    == {"info", "stop", "info_status", "info_check", "caps", "width_switch"}
Selected   == MmcOnly \union
              {"ext_csd", "freq", "hs_switch", "hs_status", "hs_check", "scr_app", "scr", "check",
               "hs_sd", "phase", "width_app", "width"}
Widening   == {"width_status", "width_set"}
Reading    == {"blocklen", "read"}
Served     == {"ready"} \union Reading
Over       == {"failed"} \union Served

(* the clocks may be anything here *)
HostShape(h) == h = [fatal |-> h.fatal, clock |-> h.clock, width |-> h.width]
MmcShape(m)  ==
    /\ m = [version |-> m.version, high_capacity |-> m.high_capacity, rca |-> m.rca,
            caps |-> m.caps, width |-> m.width, clock |-> m.clock, f_max |-> m.f_max,
            lba |-> m.lba, has_init |-> m.has_init]
    /\ m.version \in Versions /\ m.rca \in Nat /\ m.has_init \in BOOLEAN
Cards ==
    [kind : Kinds, st : States, rca : Nat, width : {1, 4}, hs : BOOLEAN, app : BOOLEAN,
     polls : Nat]
CardType == card \in Cards
SdTypes  ==
    /\ HostShape(host) /\ MmcShape(mmc) /\ CardType
    /\ io = [block |-> io.block, buffer |-> io.buffer, count |-> io.count] /\ io.block \in Nat

(* what is settled once the card was asked, found, addressed and selected  *)
Sd(k)           == k.kind \in SDKinds
OneBit(m, h, k) == m.width = 1 /\ h.width = 1 /\ k.width = 1
Asked(m, k)     == m.version \in {"none", "SD2"} /\ (m.version = "SD2" => Sd(k))
Found(m, k)     == /\ m.version \in SDKinds <=> Sd(k)
                   /\ m.high_capacity = (k.kind \in {"SDHC", "MMC4"})
Known(m, k)     == Found(m, k) /\ m.rca = k.rca
InUse(m, k)     == /\ Known(m, k) /\ k.st \in {"tran", "data"}
                   /\ Sd(k) => k.st = "tran"

(* driver m, controller h and card k when the driver is at p *)
Stage(p, m, h, k) ==
    \/ p = "core_init" /\ m.version = "none" /\ h.width = 1 /\ k.width = 1
    \/ p \in Before /\ OneBit(m, h, k) /\ m.version = "none"
    \/ p \in Asking /\ OneBit(m, h, k) /\ Asked(m, k)
    \/ p \in Addressing /\ OneBit(m, h, k) /\ Found(m, k)
    \/ p \in Unselected /\ OneBit(m, h, k) /\ Known(m, k)
    \/ p \in Selected /\ OneBit(m, h, k) /\ InUse(m, k) /\ (p \in MmcOnly => ~Sd(k))
    \/ p \in Widening /\ InUse(m, k) /\ ~Sd(k)
    \/ p \in Over

(* a card that was accepted *)
Accepted(p, m, h, k) ==
    /\ m.lba = IF m.has_init THEN NBLOCKS ELSE 0
    /\ m.has_init => /\ p \in Served /\ InUse(m, k)
                     /\ Sd(k) /\ ~h.fatal => k.width = h.width
    /\ p \in Reading => m.has_init

SdInv ==
    /\ SdTypes
    /\ Stage(pc, mmc, host, card)
    /\ Accepted(pc, mmc, host, card)
    /\ ReadCorrect

-----------------------------------------------------------------------------
(* What a command does to the card, whether it succeeds or fails           *)

MovesState == {"GO_IDLE", "APP_OP_COND", "SEND_OP_COND", "ALL_SEND_CID", "RELATIVE_ADDR",
               "SELECT_CARD", "READ_MULTIPLE_BLOCK"}

Effect(c, arg, s) ==
    /\ s \in Cards /\ s.kind = card.kind
    /\ c \notin MovesState => s.st = card.st
    /\ c \notin {"GO_IDLE", "RELATIVE_ADDR"} => s.rca = card.rca
    /\ c \notin {"GO_IDLE", "SET_BUS_WIDTH"} /\ ~(c = "SWITCH" /\ arg = "BUS_WIDTH") =>
         s.width = card.width
    /\ c \notin {"GO_IDLE", "SWITCH_FUNC", "SWITCH"} => s.hs = card.hs
    /\ c # "GO_IDLE" => (card.hs => s.hs)
    /\ c = "GO_IDLE" => s.width \in {1, card.width}

LEMMA StartsEffect ==
    ASSUME NEW arg, CardType
    PROVE  /\ Starts(arg) \in Cards
           /\ \E p \in Nat : Starts(arg) \in {[card EXCEPT !.polls = p], [card EXCEPT !.st = "ready"]}
<1>1. [card EXCEPT !.st = "ready"] \in Cards
  BY SMT DEF CardType, Cards, States, Identifying
<1>2. ASSUME NEW p \in Nat
      PROVE  [card EXCEPT !.polls = p] \in Cards
  BY SMT DEF CardType, Cards
<1>3. card.polls \in Nat /\ card = [card EXCEPT !.polls = card.polls]
  BY SMT DEF CardType, Cards
<1>4. card.polls > 0 => card.polls - 1 \in Nat
  BY <1>3, SMT
<1> QED BY <1>1, <1>2, <1>3, <1>4, SMT DEF Starts

LEMMA ObeysEffect ==
    ASSUME NEW c, NEW arg, c = "RELATIVE_ADDR" => arg \in Nat, CardType,
           NEW s \in Obeys(c, arg)
    PROVE  Effect(c, arg, s)
<1>1. card \in Cards
  BY DEF CardType
<1>2. CASE c = "GO_IDLE"
  <2>1. s = [card EXCEPT !.st = "idle", !.rca = 0, !.width = 1, !.hs = FALSE]
    BY <1>2, SMT DEF Obeys
  <2>2. s \in Cards /\ s.kind = card.kind /\ s.width = 1
    <3>1. 0 \in Nat
      BY SMT
    <3> QED BY <1>1, <2>1, <3>1 DEF Cards, States, Identifying
  <2> QED BY <1>2, <2>2, SMT DEF Effect, MovesState
<1>3. CASE c \in {"APP_OP_COND", "SEND_OP_COND"}
  <2>1. s = Starts(arg)
    BY <1>3, SMT DEF Obeys
  <2> QED BY <1>1, <1>3, <2>1, StartsEffect, SMT DEF Effect, Cards, MovesState
<1>4. CASE c = "ALL_SEND_CID"
  BY <1>1, <1>4, SMT DEF Obeys, Effect, Cards, States, Identifying, MovesState
<1>5. CASE c = "RELATIVE_ADDR"
  <2>1. PICK n \in Nat : s = [card EXCEPT !.st = "stby", !.rca = n]
    <3>1. RCA \in Nat
      BY SMT DEF RCA
    <3>2. s = [card EXCEPT !.st = "stby", !.rca = IF card.kind \in SDKinds THEN RCA ELSE arg]
      BY <1>5, SMT DEF Obeys
    <3> QED BY <1>5, <3>1, <3>2
  <2>2. s \in Cards /\ s.kind = card.kind /\ s.width = card.width /\ s.hs = card.hs
    BY <1>1, <2>1 DEF Cards, States, Identifying
  <2> QED BY <1>5, <2>2, SMT DEF Effect, MovesState
<1>6. CASE c \in {"SELECT_CARD", "READ_MULTIPLE_BLOCK"}
  BY <1>1, <1>6, SMT DEF Obeys, Effect, Cards, States, Identifying, MovesState
<1>7. CASE c \in {"SWITCH_FUNC", "SWITCH"}
  <2>1. \/ s \in {card, [card EXCEPT !.hs = TRUE]}
        \/ c = "SWITCH" /\ arg = "BUS_WIDTH" /\ s = [card EXCEPT !.width = 4]
    BY <1>7, SMT DEF Obeys
  <2>2. CASE s = [card EXCEPT !.hs = TRUE]
    <3>1. /\ s \in Cards /\ s.kind = card.kind /\ s.st = card.st /\ s.rca = card.rca
          /\ s.width = card.width /\ s.hs
      BY <1>1, <2>2 DEF Cards
    <3> QED BY <1>7, <3>1 DEF Effect, MovesState
  <2>3. CASE c = "SWITCH" /\ arg = "BUS_WIDTH" /\ s = [card EXCEPT !.width = 4]
    BY <1>1, <2>3, SMT DEF Effect, Cards, MovesState
  <2>4. CASE s = card
    BY <1>1, <1>7, <2>4, SMT DEF Effect
  <2> QED BY <2>1, <2>2, <2>3, <2>4
<1>9. CASE c = "SET_BUS_WIDTH"
  <2>1. s = [card EXCEPT !.width = 4]
    BY <1>9, SMT DEF Obeys
  <2> QED BY <1>1, <1>9, <2>1, SMT DEF Effect, Cards, MovesState
<1>8. CASE c \notin MovesState \union {"SWITCH_FUNC", "SWITCH", "SET_BUS_WIDTH"}
  BY <1>1, <1>8, SMT DEF Obeys, Effect, Cards, MovesState
<1> QED BY <1>2, <1>3, <1>4, <1>5, <1>6, <1>7, <1>8, <1>9, SMT DEF MovesState

LEMMA SendEffect ==
    ASSUME NEW c, NEW arg, NEW ok, c = "RELATIVE_ADDR" => arg \in Nat, CardType,
           Send(c, arg, ok)
    PROVE  Effect(c, arg, card')
<1>1. card \in Cards
  BY DEF CardType
<1>2. ASSUME NEW s \in Cards, NEW b \in BOOLEAN, Effect(c, arg, s)
      PROVE  Effect(c, arg, [s EXCEPT !.app = b])
  BY <1>2, SMT DEF Effect, Cards
<1>3. Effect(c, arg, card)
  BY <1>1, SMT DEF Effect, Cards
<1>4. ASSUME NEW s \in Obeys(c, arg), card' = Prefixed(c, s)
      PROVE  Effect(c, arg, card')
  <2>1. Effect(c, arg, s)
    BY ObeysEffect
  <2>2. s \in Cards
    BY <2>1 DEF Effect
  <2> QED BY <1>2, <1>4, <2>1, <2>2 DEF Prefixed
<1> QED BY <1>1, <1>2, <1>3, <1>4 DEF Send

-----------------------------------------------------------------------------
(* What a command that succeeds tells of the card, and leaves behind       *)

LEMMA SendResult ==
    ASSUME CardType, NEW arg
    PROVE  /\ Send("SEND_IF_COND", arg, TRUE) => Sd(card)
           /\ Send("APP_OP_COND", arg, TRUE) => Sd(card)
           /\ Send("SEND_OP_COND", arg, TRUE) => ~Sd(card)
<1>1. Send("SEND_IF_COND", arg, TRUE) => Sd(card)
  BY SMT DEF Send, Accepts, Sd
<1>2. Send("APP_OP_COND", arg, TRUE) => Sd(card)
  BY SMT DEF Send, Accepts, Sd
<1>3. Send("SEND_OP_COND", arg, TRUE) => ~Sd(card)
  BY SMT DEF Send, Accepts, Sd
<1> QED BY <1>1, <1>2, <1>3

LEMMA AddressTaken ==
    ASSUME CardType, NEW arg \in Nat, Send("RELATIVE_ADDR", arg, TRUE)
    PROVE  ~Sd(card) => card'.rca = arg
<1>1. PICK s \in Obeys("RELATIVE_ADDR", arg) : card' = Prefixed("RELATIVE_ADDR", s)
  BY DEF Send
<1>2. s = [card EXCEPT !.st = "stby", !.rca = IF card.kind \in SDKinds THEN RCA ELSE arg]
  BY <1>1, SMT DEF Obeys
<1> QED BY <1>1, <1>2 DEF CardType, Cards, Prefixed, Sd

LEMMA CardSelected ==
    ASSUME CardType, NEW arg, Send("SELECT_CARD", arg, TRUE)
    PROVE  card'.st = "tran"
<1>1. PICK s \in Obeys("SELECT_CARD", arg) : card' = Prefixed("SELECT_CARD", s)
  BY DEF Send
<1>2. s = [card EXCEPT !.st = "tran"]
  BY <1>1, SMT DEF Obeys
<1> QED BY <1>1, <1>2 DEF CardType, Cards, Prefixed

LEMMA CardWide ==
    ASSUME CardType, NEW arg, Send("SET_BUS_WIDTH", arg, TRUE)
    PROVE  card'.width = 4
<1>1. PICK s \in Obeys("SET_BUS_WIDTH", arg) : card' = Prefixed("SET_BUS_WIDTH", s)
  BY DEF Send
<1>2. s = [card EXCEPT !.width = 4]
  BY <1>1, SMT DEF Obeys
<1> QED BY <1>1, <1>2 DEF CardType, Cards, Prefixed

LEMMA CardTransfers ==
    ASSUME CardType, NEW arg, NEW ok, Send("READ_MULTIPLE_BLOCK", arg, ok),
           card.st \in {"tran", "data"}
    PROVE  card'.st \in {"tran", "data"}
<1> DEFINE c == "READ_MULTIPLE_BLOCK"
<1>1. ASSUME NEW s \in Obeys(c, arg)
      PROVE  s \in {[card EXCEPT !.st = "data"], card}
  BY SMT DEF Obeys
<1>2. \/ card' = card
      \/ card' = [card EXCEPT !.app = FALSE]
      \/ \E s \in Obeys(c, arg) : card' = Prefixed(c, s)
  BY DEF Send
<1>3. CASE card' = [card EXCEPT !.app = FALSE]
  BY <1>3 DEF CardType, Cards
<1>4. ASSUME NEW s \in Obeys(c, arg), card' = Prefixed(c, s)
      PROVE  card'.st \in {"tran", "data"}
  <2>1. CASE s = [card EXCEPT !.st = "data"]
    BY <1>4, <2>1 DEF CardType, Cards, Prefixed
  <2>2. CASE s = card
    BY <1>4, <2>2 DEF CardType, Cards, Prefixed
  <2> QED BY <1>1, <2>1, <2>2
<1> QED BY <1>2, <1>3, <1>4

-----------------------------------------------------------------------------
(* mmc_set_ios and the end of mmc_startup                                  *)

LEMMA SetIos ==
    ASSUME NEW h, HostShape(h), NEW clk, NEW w, NEW r \in set_ios(h, clk, w)
    PROVE  /\ HostShape(r.host) /\ r.host.width \in {h.width, w}
           /\ ~r.host.fatal => r.host.width = w
<1>1. PICK o \in config_clock(h, clk) :
        r = [host  |-> IF o.ok THEN [h EXCEPT !.clock = o.card, !.width = w]
                       ELSE [h EXCEPT !.clock = o.card, !.fatal = TRUE],
             clock |-> o.clock]
  BY DEF set_ios
<1> DEFINE g == r.host
<1>2. g \in {[h EXCEPT !.clock = o.card, !.width = w], [h EXCEPT !.clock = o.card, !.fatal = TRUE]}
  BY <1>1
<1>3. CASE g = [h EXCEPT !.clock = o.card, !.width = w]
  BY <1>3 DEF HostShape
<1>4. CASE g = [h EXCEPT !.clock = o.card, !.fatal = TRUE]
  BY <1>4 DEF HostShape
<1> QED BY <1>2, <1>3, <1>4

-----------------------------------------------------------------------------
(* The stages                                                              *)

LEMMA StageAt ==
    ASSUME NEW p, NEW m, NEW h, NEW k, Stage(p, m, h, k)
    PROVE  /\ p = "core_init" => m.version = "none" /\ h.width = 1 /\ k.width = 1
           /\ p \in Before => OneBit(m, h, k) /\ m.version = "none"
           /\ p \in Asking => OneBit(m, h, k) /\ Asked(m, k)
           /\ p \in Addressing => OneBit(m, h, k) /\ Found(m, k)
           /\ p \in Unselected => OneBit(m, h, k) /\ Known(m, k)
           /\ p \in Selected => OneBit(m, h, k) /\ InUse(m, k) /\ (p \in MmcOnly => ~Sd(k))
           /\ p \in Widening => InUse(m, k) /\ ~Sd(k)
<1>1. p \in Before => OneBit(m, h, k) /\ m.version = "none"
  BY DEF Stage, Before, Asking, Addressing, Unselected, Selected, MmcOnly, Widening, Over, Served,
     Reading
<1>2. p \in Asking => OneBit(m, h, k) /\ Asked(m, k)
  BY DEF Stage, Before, Asking, Addressing, Unselected, Selected, MmcOnly, Widening, Over, Served,
     Reading
<1>3. p \in Addressing => OneBit(m, h, k) /\ Found(m, k)
  BY DEF Stage, Before, Asking, Addressing, Unselected, Selected, MmcOnly, Widening, Over, Served,
     Reading
<1>4. p \in Unselected => OneBit(m, h, k) /\ Known(m, k)
  BY DEF Stage, Before, Asking, Addressing, Unselected, Selected, MmcOnly, Widening, Over, Served,
     Reading
<1>5. p \in Selected => OneBit(m, h, k) /\ InUse(m, k) /\ (p \in MmcOnly => ~Sd(k))
  BY DEF Stage, Before, Asking, Addressing, Unselected, Selected, MmcOnly, Widening, Over, Served,
     Reading
<1>6. p = "core_init" => m.version = "none" /\ h.width = 1 /\ k.width = 1
  BY DEF Stage, Before, Asking, Addressing, Unselected, Selected, MmcOnly, Widening, Over, Served,
     Reading
<1>7. p \in Widening => InUse(m, k) /\ ~Sd(k)
  BY DEF Stage, Before, Asking, Addressing, Unselected, Selected, MmcOnly, Widening, Over, Served,
     Reading
<1> QED BY <1>1, <1>2, <1>3, <1>4, <1>5, <1>6, <1>7

(* no stage before the last accepts the card *)
LEMMA Early ==
    ASSUME SdInv, pc \notin Served, SdTypes', UNCHANGED io, pc' \notin Reading,
           mmc'.has_init = mmc.has_init, mmc'.lba = mmc.lba, Stage(pc', mmc', host', card')
    PROVE  SdInv'
<1>1. ~mmc.has_init
  BY DEF SdInv, Accepted
<1>2. Accepted(pc', mmc', host', card')
  BY <1>1 DEF SdInv, Accepted
<1>3. ReadCorrect'
  BY DEF SdInv, ReadCorrect
<1> QED BY <1>2, <1>3 DEF SdInv

LEMMA GivenUp ==
    ASSUME SdInv, pc \notin Served, UNCHANGED <<mmc, host, io>>, CardType', pc' = "failed"
    PROVE  SdInv'
<1>1. SdTypes'
  BY DEF SdInv, SdTypes, HostShape, MmcShape
<1>2. Stage(pc', mmc', host', card') /\ pc' \notin Reading
  BY DEF Stage, Over, Reading
<1> QED BY <1>1, <1>2, Early

LEMMA EffectKeeps ==
    ASSUME NEW c, NEW arg, Effect(c, arg, card'), NEW m, NEW h
    PROVE  /\ CardType' /\ (Sd(card') <=> Sd(card))
           /\ Asked(m, card) => Asked(m, card')
           /\ Found(m, card) => Found(m, card')
           /\ c \notin {"GO_IDLE", "RELATIVE_ADDR"} => (Known(m, card) => Known(m, card'))
           /\ c \notin MovesState => (InUse(m, card) => InUse(m, card'))
           /\ c \notin {"GO_IDLE", "SET_BUS_WIDTH"} /\ ~(c = "SWITCH" /\ arg = "BUS_WIDTH") =>
                (OneBit(m, h, card) => OneBit(m, h, card'))
           /\ c = "GO_IDLE" => (OneBit(m, h, card) => OneBit(m, h, card'))
<1>1. card'.kind = card.kind /\ CardType'
  BY DEF Effect, CardType
<1>2. (Sd(card') <=> Sd(card)) /\ (Asked(m, card) => Asked(m, card'))
  BY <1>1 DEF Sd, Asked
<1>3. Found(m, card) => Found(m, card')
  BY <1>1, <1>2 DEF Found
<1>4. c \notin {"GO_IDLE", "RELATIVE_ADDR"} => (Known(m, card) => Known(m, card'))
  BY <1>3 DEF Effect, Known
<1>5. c \notin MovesState => (InUse(m, card) => InUse(m, card'))
  BY <1>2, <1>4 DEF Effect, InUse, MovesState
<1>6. c = "GO_IDLE" => (OneBit(m, h, card) => OneBit(m, h, card'))
  BY DEF Effect, OneBit
<1>7. c \notin {"GO_IDLE", "SET_BUS_WIDTH"} /\ ~(c = "SWITCH" /\ arg = "BUS_WIDTH") =>
        (OneBit(m, h, card) => OneBit(m, h, card'))
  BY DEF Effect, OneBit
<1> QED BY <1>1, <1>2, <1>3, <1>4, <1>5, <1>6, <1>7

(* the steps of mmc_init that only send a command *)
LEMMA CommandStep ==
    ASSUME SdInv, pc \notin Served, NEW c, NEW arg, NEW ok, Send(c, arg, ok),
           c # "RELATIVE_ADDR", UNCHANGED <<mmc, host, io>>, pc' \notin Reading,
           Stage(pc', mmc, host, card')
    PROVE  SdInv'
<1>1. Effect(c, arg, card')
  BY SendEffect DEF SdInv, SdTypes
<1>2. SdTypes'
  BY <1>1, EffectKeeps DEF SdInv, SdTypes, HostShape, MmcShape
<1> QED BY <1>2, Early

(* the record of the driver, but for caps, f_max, clock and the version *)
Alike(m) ==
    /\ MmcShape(m) /\ (m.version \in SDKinds <=> mmc.version \in SDKinds)
    /\ m.high_capacity = mmc.high_capacity /\ m.rca = mmc.rca /\ m.width = mmc.width
    /\ m.has_init = mmc.has_init /\ m.lba = mmc.lba

LEMMA SelectedStep ==
    ASSUME SdInv, pc \in Selected,
           NEW c, NEW arg, Effect(c, arg, card'), c \notin MovesState, c # "SET_BUS_WIDTH",
           ~(c = "SWITCH" /\ arg = "BUS_WIDTH"),
           HostShape(host'), host'.width = 1, Alike(mmc'), UNCHANGED io,
           pc' \in Selected \union {"failed"}, pc' \in MmcOnly => ~Sd(card)
    PROVE  SdInv'
<1>1. OneBit(mmc, host, card) /\ InUse(mmc, card)
  BY StageAt DEF SdInv
<1>2. OneBit(mmc, host, card') /\ InUse(mmc, card') /\ CardType' /\ (Sd(card') <=> Sd(card))
  BY <1>1, EffectKeeps DEF MovesState
<1>3. OneBit(mmc', host', card')
  BY <1>2 DEF OneBit, Alike
<1>4. InUse(mmc', card')
  BY <1>2 DEF InUse, Known, Found, Alike
<1>5. SdTypes'
  BY <1>2 DEF SdInv, SdTypes, Alike
<1>6. Stage(pc', mmc', host', card')
  BY <1>2, <1>3, <1>4 DEF Stage, Over
<1>7. pc \notin Served /\ pc' \notin Reading
  BY DEF Selected, MmcOnly, Served, Reading
<1> QED BY <1>5, <1>6, <1>7, Early DEF Alike

(* ... when only a command is sent *)
LEMMA SelectedCommand ==
    ASSUME SdInv, pc \in Selected,
           NEW c, NEW arg, NEW ok, Send(c, arg, ok), c \notin MovesState, c # "SET_BUS_WIDTH",
           ~(c = "SWITCH" /\ arg = "BUS_WIDTH"), Alike(mmc'), UNCHANGED <<host, io>>,
           pc' \in Selected \union {"failed"}, pc' \in MmcOnly => ~Sd(card)
    PROVE  SdInv'
<1>1. Effect(c, arg, card')
  BY SendEffect DEF SdInv, SdTypes, MovesState
<1>2. OneBit(mmc, host, card)
  BY StageAt DEF SdInv
<1>3. HostShape(host') /\ host'.width = 1
  BY <1>2 DEF SdInv, SdTypes, HostShape, OneBit
<1> QED BY <1>1, <1>3, SelectedStep

LEMMA SameAlike == SdInv /\ UNCHANGED mmc => Alike(mmc')
  BY DEF SdInv, SdTypes, Alike, MmcShape

LEMMA CapsAlike ==
    ASSUME SdInv, NEW caps, mmc' = [mmc EXCEPT !.caps = caps]
    PROVE  Alike(mmc')
  BY DEF SdInv, SdTypes, Alike, MmcShape

LEMMA ClockAlike ==
    ASSUME SdInv, NEW f, NEW clk, NEW caps,
           mmc' = [mmc EXCEPT !.f_max = f, !.clock = clk, !.caps = caps]
    PROVE  Alike(mmc')
  BY DEF SdInv, SdTypes, Alike, MmcShape

LEMMA AskStep ==
    ASSUME SdInv, pc \in Asking, NEW c, NEW arg, NEW ok, Send(c, arg, ok),
           c \notin {"RELATIVE_ADDR", "SET_BUS_WIDTH", "SWITCH"}, UNCHANGED <<mmc, host, io>>,
           pc' \in Asking \union {"failed"}
    PROVE  SdInv'
<1>1. OneBit(mmc, host, card) /\ Asked(mmc, card)
  BY StageAt DEF SdInv
<1>2. Effect(c, arg, card')
  BY SendEffect DEF SdInv, SdTypes
<1>3. OneBit(mmc, host, card') /\ Asked(mmc, card')
  BY <1>1, <1>2, EffectKeeps
<1>4. Stage(pc', mmc, host, card')
  BY <1>3 DEF Stage, Over
<1>5. pc \notin Served /\ pc' \notin Reading
  BY DEF Asking, Served, Reading
<1> QED BY <1>4, <1>5, CommandStep

(* the last poll, of a card of the kind that the command asks for *)
LEMMA FoundStep ==
    ASSUME SdInv, pc \in Asking, NEW c \in {"APP_OP_COND", "SEND_OP_COND"}, NEW arg,
           Send(c, arg, TRUE), NEW v \in Versions, v \in SDKinds <=> Sd(card), NEW a \in Nat,
           mmc' = [mmc EXCEPT !.version = v, !.high_capacity = HighCapacity, !.rca = a],
           UNCHANGED <<host, io>>, pc' = "cid"
    PROVE  SdInv'
<1>1. OneBit(mmc, host, card)
  BY StageAt DEF SdInv
<1>2. Effect(c, arg, card')
  BY SendEffect DEF SdInv, SdTypes
<1>3. OneBit(mmc, host, card') /\ CardType' /\ card'.kind = card.kind
  BY <1>1, <1>2, EffectKeeps DEF Effect
<1>4. /\ MmcShape(mmc') /\ mmc'.version = v /\ mmc'.high_capacity = HighCapacity
      /\ mmc'.width = mmc.width /\ mmc'.has_init = mmc.has_init /\ mmc'.lba = mmc.lba
  BY DEF SdInv, SdTypes, MmcShape
<1>5. OneBit(mmc', host', card') /\ Found(mmc', card')
  BY <1>3, <1>4 DEF OneBit, Found, Sd, HighCapacity
<1>6. SdTypes'
  BY <1>3, <1>4 DEF SdInv, SdTypes, HostShape
<1>7. Stage(pc', mmc', host', card')
  BY <1>5 DEF Stage, Addressing
<1>8. pc \notin Served /\ pc' \notin Reading
  BY DEF Asking, Served, Reading
<1> QED BY <1>4, <1>6, <1>7, <1>8, Early

-----------------------------------------------------------------------------
(* mmc_init: the card is asked what it is                                  *)

LEMMA CoreInit == SdInv /\ core_init => SdInv'
<1> SUFFICES ASSUME SdInv, core_init
             PROVE  SdInv'
  OBVIOUS
<1>1. pc = "core_init" /\ pc \notin Served /\ UNCHANGED <<card, io>>
  BY DEF core_init, Served, Reading
<1>2. CASE pc' = "failed" /\ UNCHANGED <<mmc, host>>
  BY <1>1, <1>2, GivenUp DEF SdInv, SdTypes, CardType
<1>3. ASSUME NEW r \in set_ios([host EXCEPT !.width = 1], Clamp(1, mmc.f_max), 1),
             mmc' = [mmc EXCEPT !.width = 1, !.clock = r.clock], host' = r.host,
             pc' = "go_idle"
      PROVE  SdInv'
  <2>1. mmc.version = "none" /\ card.width = 1
    BY <1>1, StageAt DEF SdInv
  <2> DEFINE h == [host EXCEPT !.width = 1]
             clk == Clamp(1, mmc.f_max)
  <2>2. HostShape(h) /\ h.width = 1
    BY SMT DEF SdInv, SdTypes, HostShape
  <2>3. HostShape(host') /\ host'.width = 1
    <3>1. r \in set_ios(h, clk, 1)
      BY <1>3
    <3> HIDE DEF h, clk
    <3>2. HostShape(r.host) /\ r.host.width \in {h.width, 1}
      BY <2>2, <3>1, SetIos
    <3> QED BY <1>3, <2>2, <3>2
  <2>4. /\ MmcShape(mmc') /\ mmc'.version = mmc.version /\ mmc'.width = 1
        /\ mmc'.has_init = mmc.has_init /\ mmc'.lba = mmc.lba
    BY <1>3 DEF SdInv, SdTypes, MmcShape
  <2>5. SdTypes'
    BY <1>1, <2>3, <2>4 DEF SdInv, SdTypes, CardType
  <2>6. Stage(pc', mmc', host', card') /\ pc' \notin Reading
    BY <1>1, <1>3, <2>1, <2>3, <2>4 DEF Stage, OneBit, Before, Reading
  <2> QED BY <1>1, <2>4, <2>5, <2>6, Early
<1> QED BY <1>2, <1>3 DEF core_init, Goto

LEMMA GoIdle == SdInv /\ go_idle => SdInv'
<1> SUFFICES ASSUME SdInv, go_idle
             PROVE  SdInv'
  OBVIOUS
<1>1. PICK ok \in BOOLEAN : Send("GO_IDLE", 0, ok) /\ pc' = IF ok THEN "if_cond" ELSE "failed"
  BY DEF go_idle, Only, Step, Goto
<1>2. pc = "go_idle" /\ pc \notin Served /\ UNCHANGED <<mmc, host, io>> /\ pc' \notin Reading
  BY <1>1 DEF go_idle, Only, Step, Served, Reading
<1>3. OneBit(mmc, host, card) /\ mmc.version = "none"
  BY <1>2, StageAt DEF SdInv, Before
<1>4. Effect("GO_IDLE", 0, card')
  BY <1>1, SendEffect DEF SdInv, SdTypes
<1>5. OneBit(mmc, host, card')
  BY <1>3, <1>4, EffectKeeps
<1>6. Stage(pc', mmc, host, card')
  BY <1>1, <1>3, <1>5 DEF Stage, Before, Over
<1> QED BY <1>1, <1>2, <1>6, CommandStep

LEMMA SendIfCond == SdInv /\ send_if_cond => SdInv'
<1> SUFFICES ASSUME SdInv, send_if_cond
             PROVE  SdInv'
  OBVIOUS
<1>1. PICK ok \in BOOLEAN : /\ Send("SEND_IF_COND", 0, ok)
                            /\ mmc' = IF ok THEN [mmc EXCEPT !.version = "SD2"] ELSE mmc
  BY DEF send_if_cond
<1>2. /\ pc = "if_cond" /\ pc \notin Served /\ UNCHANGED <<host, io>> /\ pc' = "app_41"
      /\ pc' \notin Reading
  BY DEF send_if_cond, Goto, Served, Reading
<1>3. OneBit(mmc, host, card) /\ mmc.version = "none"
  BY <1>2, StageAt DEF SdInv, Before
<1>4. Effect("SEND_IF_COND", 0, card')
  BY <1>1, SendEffect DEF SdInv, SdTypes
<1>5. OneBit(mmc, host, card') /\ CardType' /\ (Sd(card') <=> Sd(card))
  BY <1>3, <1>4, EffectKeeps, SMT
<1>6. ok => Sd(card)
  BY <1>1, SendResult DEF SdInv, SdTypes
<1>7. /\ MmcShape(mmc') /\ mmc'.version = (IF ok THEN "SD2" ELSE mmc.version)
      /\ mmc'.width = mmc.width /\ mmc'.has_init = mmc.has_init /\ mmc'.lba = mmc.lba
  BY <1>1 DEF SdInv, SdTypes, MmcShape, Versions, SDKinds
<1>8. OneBit(mmc', host', card') /\ Asked(mmc', card')
  BY <1>2, <1>3, <1>5, <1>6, <1>7 DEF OneBit, Asked
<1>9. Stage(pc', mmc', host', card')
  BY <1>2, <1>8 DEF Stage, Asking
<1>10. SdTypes'
  BY <1>2, <1>5, <1>7 DEF SdInv, SdTypes, HostShape
<1> QED BY <1>2, <1>7, <1>9, <1>10, Early

LEMMA AskSteps == SdInv /\ (app_41 \/ mmc_idle \/ query) => SdInv'
<1>1. ASSUME SdInv, app_41
      PROVE  SdInv'
  BY <1>1, AskStep DEF app_41, Only, Step, Goto, Asking
<1>2. ASSUME SdInv, mmc_idle
      PROVE  SdInv'
  BY <1>2, AskStep DEF mmc_idle, Step, Goto, Asking
<1>3. ASSUME SdInv, query
      PROVE  SdInv'
  BY <1>3, AskStep DEF query, Only, Step, Goto, Asking
<1> QED BY <1>1, <1>2, <1>3

LEMMA SdSendOpCond == SdInv /\ sd_send_op_cond => SdInv'
<1> SUFFICES ASSUME SdInv, sd_send_op_cond
             PROVE  SdInv'
  OBVIOUS
<1> DEFINE a == mmc.version = "SD2"
           v == IF mmc.version = "SD2" THEN mmc.version ELSE "SD1"
<1>1. pc = "op_41" /\ pc \in Asking /\ UNCHANGED <<host, io>>
  BY DEF sd_send_op_cond, Asking
<1>2. \/ \E ok \in BOOLEAN : /\ Send("APP_OP_COND", a, ok) /\ UNCHANGED mmc
                             /\ pc' \in {"app_41", "mmc_idle"}
      \/ /\ Send("APP_OP_COND", a, TRUE) /\ pc' = "cid"
         /\ mmc' = [mmc EXCEPT !.version = v, !.high_capacity = HighCapacity, !.rca = 0]
  BY DEF sd_send_op_cond, Polled, Goto
<1>3. ASSUME NEW ok \in BOOLEAN, Send("APP_OP_COND", a, ok), UNCHANGED mmc,
             pc' \in {"app_41", "mmc_idle"}
      PROVE  SdInv'
  <2> HIDE DEF a
  <2> QED BY <1>1, <1>3, AskStep DEF Asking
<1>4. ASSUME Send("APP_OP_COND", a, TRUE), pc' = "cid",
             mmc' = [mmc EXCEPT !.version = v, !.high_capacity = HighCapacity, !.rca = 0]
      PROVE  SdInv'
  <2>1. Sd(card)
    BY <1>4, SendResult DEF SdInv, SdTypes
  <2>2. v \in SDKinds /\ v \in Versions /\ 0 \in Nat
    BY SMT DEF SDKinds, Versions
  <2> HIDE DEF a, v
  <2> QED BY <1>1, <1>4, <2>1, <2>2, FoundStep
<1> QED BY <1>2, <1>3, <1>4

LEMMA MmcSendOpCond == SdInv /\ mmc_send_op_cond => SdInv'
<1> SUFFICES ASSUME SdInv, mmc_send_op_cond
             PROVE  SdInv'
  OBVIOUS
<1>1. pc = "op_cond" /\ pc \in Asking /\ UNCHANGED <<host, io>>
  BY DEF mmc_send_op_cond, Asking
<1>2. \/ \E ok \in BOOLEAN : /\ Send("SEND_OP_COND", TRUE, ok) /\ UNCHANGED mmc
                             /\ pc' \in {"op_cond", "failed"}
      \/ /\ Send("SEND_OP_COND", TRUE, TRUE) /\ pc' = "cid"
         /\ mmc' = [mmc EXCEPT !.version = "MMC", !.high_capacity = HighCapacity, !.rca = 1]
  BY DEF mmc_send_op_cond, Polled, Goto
<1>3. ASSUME NEW ok \in BOOLEAN, Send("SEND_OP_COND", TRUE, ok), UNCHANGED mmc,
             pc' \in {"op_cond", "failed"}
      PROVE  SdInv'
  BY <1>1, <1>3, AskStep DEF Asking
<1>4. ASSUME Send("SEND_OP_COND", TRUE, TRUE), pc' = "cid",
             mmc' = [mmc EXCEPT !.version = "MMC", !.high_capacity = HighCapacity, !.rca = 1]
      PROVE  SdInv'
  <2>1. ~Sd(card)
    BY <1>4, SendResult DEF SdInv, SdTypes
  <2>2. "MMC" \notin SDKinds /\ "MMC" \in Versions /\ 1 \in Nat
    BY SMT DEF SDKinds, Versions
  <2> QED BY <1>1, <1>4, <2>1, <2>2, FoundStep
<1> QED BY <1>2, <1>3, <1>4

-----------------------------------------------------------------------------
(* mmc_startup: the card gets its address and is selected                  *)

LEMMA AllSendCid == SdInv /\ all_send_cid => SdInv'
<1> SUFFICES ASSUME SdInv, all_send_cid
             PROVE  SdInv'
  OBVIOUS
<1>1. PICK ok \in BOOLEAN : Send("ALL_SEND_CID", 0, ok) /\ pc' = IF ok THEN "rca" ELSE "failed"
  BY DEF all_send_cid, Only, Step, Goto
<1>2. pc = "cid" /\ pc \notin Served /\ UNCHANGED <<mmc, host, io>> /\ pc' \notin Reading
  BY <1>1 DEF all_send_cid, Only, Step, Served, Reading
<1>3. OneBit(mmc, host, card) /\ Found(mmc, card)
  BY <1>2, StageAt DEF SdInv, Addressing
<1>4. Effect("ALL_SEND_CID", 0, card')
  BY <1>1, SendEffect DEF SdInv, SdTypes
<1>5. OneBit(mmc, host, card') /\ Found(mmc, card')
  BY <1>3, <1>4, EffectKeeps, SMT
<1>6. Stage(pc', mmc, host, card')
  BY <1>1, <1>5 DEF Stage, Addressing, Over
<1> QED BY <1>1, <1>2, <1>6, CommandStep

LEMMA RelativeAddr == SdInv /\ relative_addr => SdInv'
<1> SUFFICES ASSUME SdInv, relative_addr
             PROVE  SdInv'
  OBVIOUS
<1>1. PICK ok \in BOOLEAN :
        /\ Send("RELATIVE_ADDR", mmc.rca, ok) /\ pc' = IF ok THEN "csd" ELSE "failed"
        /\ mmc' = IF ok /\ IS_SD THEN [mmc EXCEPT !.rca = card'.rca] ELSE mmc
  BY DEF relative_addr, Goto
<1>2. pc = "rca" /\ pc \notin Served /\ UNCHANGED <<host, io>> /\ pc' \notin Reading
  BY <1>1 DEF relative_addr, Served, Reading
<1>3. OneBit(mmc, host, card) /\ Found(mmc, card) /\ mmc.rca \in Nat
  BY <1>2, StageAt DEF SdInv, SdTypes, MmcShape, Addressing
<1>4. Effect("RELATIVE_ADDR", mmc.rca, card')
  BY <1>1, <1>3, SendEffect DEF SdInv, SdTypes
<1>5. OneBit(mmc, host, card') /\ Found(mmc, card') /\ CardType'
  BY <1>3, <1>4, EffectKeeps, SMT
<1>6. /\ MmcShape(mmc') /\ mmc'.version = mmc.version /\ mmc'.width = mmc.width
      /\ mmc'.rca = (IF ok /\ IS_SD THEN card'.rca ELSE mmc.rca)
      /\ mmc'.high_capacity = mmc.high_capacity
      /\ mmc'.has_init = mmc.has_init /\ mmc'.lba = mmc.lba
  <2>1. card'.rca \in Nat
    BY <1>5 DEF CardType, Cards
  <2> QED BY <1>1, <2>1 DEF SdInv, SdTypes, MmcShape
<1>7. OneBit(mmc', host', card') /\ Found(mmc', card')
  BY <1>2, <1>5, <1>6 DEF OneBit, Found
<1>8. ok => mmc'.rca = card'.rca
  BY <1>1, <1>3, <1>6, AddressTaken DEF SdInv, SdTypes, IS_SD, Found
<1>9. Stage(pc', mmc', host', card')
  BY <1>1, <1>7, <1>8 DEF Stage, Known, Unselected, Over
<1>10. SdTypes'
  BY <1>2, <1>5, <1>6 DEF SdInv, SdTypes, HostShape
<1> QED BY <1>2, <1>6, <1>9, <1>10, Early

LEMMA SendCsd == SdInv /\ send_csd => SdInv'
<1> SUFFICES ASSUME SdInv, send_csd
             PROVE  SdInv'
  OBVIOUS
<1>1. PICK ok \in BOOLEAN :
        /\ Send("SEND_CSD", mmc.rca, ok) /\ pc' = IF ok THEN "csd_status" ELSE "csd_failed"
        /\ mmc' = IF ok /\ ~IS_SD THEN [mmc EXCEPT !.version = card.kind] ELSE mmc
  BY DEF send_csd, Goto
<1>2. pc = "csd" /\ pc \notin Served /\ UNCHANGED <<host, io>> /\ pc' \notin Reading
  BY <1>1 DEF send_csd, Served, Reading
<1>3. OneBit(mmc, host, card) /\ Known(mmc, card)
  BY <1>2, StageAt DEF SdInv, Unselected
<1>4. Effect("SEND_CSD", mmc.rca, card')
  BY <1>1, SendEffect DEF SdInv, SdTypes
<1>5. OneBit(mmc, host, card') /\ Known(mmc, card') /\ CardType' /\ card'.kind = card.kind
  BY <1>3, <1>4, EffectKeeps, SMT DEF Effect
<1>6. Alike(mmc')
  <2>1. card.kind \in Versions
    BY SdCardAssumption DEF SdInv, SdTypes, CardType, Cards, Versions
  <2>2. ~IS_SD => card.kind \notin SDKinds
    BY <1>3 DEF IS_SD, Known, Found, Sd
  <2> QED BY <1>1, <2>1, <2>2 DEF SdInv, SdTypes, MmcShape, Alike, IS_SD
<1>7. OneBit(mmc', host', card') /\ Known(mmc', card')
  BY <1>2, <1>5, <1>6 DEF OneBit, Known, Found, Alike
<1>8. Stage(pc', mmc', host', card')
  BY <1>1, <1>7 DEF Stage, Unselected, Over
<1>9. SdTypes'
  BY <1>2, <1>5, <1>6 DEF SdInv, SdTypes, HostShape, Alike
<1> QED BY <1>2, <1>6, <1>8, <1>9, Early DEF Alike

LEMMA At25MHz ==
    ASSUME SdInv, OneBit(mmc, host, card), NEW f, Set25MHz(f)
    PROVE  /\ HostShape(host') /\ host'.width = 1 /\ Alike(mmc')
           /\ pc' = IF IS_SD THEN "scr_app" ELSE IF mmc.version = "MMC4" THEN "ext_csd" ELSE "phase"
<1> DEFINE clk == Clamp(MHz25, f)
<1>1. PICK r \in set_ios(host, clk, mmc.width) :
        mmc' = [mmc EXCEPT !.f_max = f, !.clock = r.clock, !.caps = {}] /\ host' = r.host
  BY DEF Set25MHz
<1>2. HostShape(host) /\ host.width = 1 /\ mmc.width = 1
  BY DEF SdInv, SdTypes, OneBit
<1>3. HostShape(r.host) /\ r.host.width \in {host.width, mmc.width}
  <2> HIDE DEF clk
  <2> QED BY <1>1, <1>2, SetIos
<1>4. Alike(mmc')
  BY <1>1, ClockAlike
<1> QED BY <1>1, <1>2, <1>3, <1>4 DEF Set25MHz, Goto

LEMMA SelectCard == SdInv /\ select_card => SdInv'
<1> SUFFICES ASSUME SdInv, select_card
             PROVE  SdInv'
  OBVIOUS
<1>1. PICK ok \in BOOLEAN :
        /\ Send("SELECT_CARD", mmc.rca, ok)
        /\ \/ ok /\ IS_SD /\ Set25MHz(mmc.f_max)
           \/ ok /\ ~IS_SD /\ pc' = "info" /\ UNCHANGED <<mmc, host>>
           \/ ~ok /\ pc' = "failed" /\ UNCHANGED <<mmc, host>>
  BY DEF select_card, Goto
<1>2. pc = "select" /\ pc \notin Served /\ UNCHANGED io
  BY DEF select_card, Served, Reading
<1>3. OneBit(mmc, host, card) /\ Known(mmc, card)
  BY <1>2, StageAt DEF SdInv, Unselected
<1>4. Effect("SELECT_CARD", mmc.rca, card')
  BY <1>1, SendEffect DEF SdInv, SdTypes
<1>5. OneBit(mmc, host, card') /\ Known(mmc, card') /\ CardType' /\ (Sd(card') <=> Sd(card))
  BY <1>3, <1>4, EffectKeeps, SMT
<1>6. CASE ~ok
  BY <1>1, <1>2, <1>5, <1>6, GivenUp
<1>7. CASE ok
  <2>1. card'.st = "tran"
    BY <1>1, <1>7, CardSelected DEF SdInv, SdTypes
  <2>2. InUse(mmc, card')
    BY <1>5, <2>1 DEF InUse
  <2>3. CASE IS_SD
    <3>1. HostShape(host') /\ host'.width = 1 /\ Alike(mmc') /\ pc' = "scr_app"
      BY <1>1, <1>3, <1>7, <2>3, At25MHz
    <3>2. OneBit(mmc', host', card') /\ InUse(mmc', card')
      BY <1>5, <2>2, <3>1 DEF OneBit, InUse, Known, Found, Alike
    <3>3. Stage(pc', mmc', host', card') /\ pc' \notin Reading
      BY <3>1, <3>2 DEF Stage, Selected, MmcOnly, Reading
    <3>4. SdTypes'
      BY <1>2, <1>5, <3>1 DEF SdInv, SdTypes, Alike
    <3> QED BY <1>2, <3>1, <3>3, <3>4, Early DEF Alike
  <2>4. CASE ~IS_SD
    <3>1. pc' = "info" /\ UNCHANGED <<mmc, host>> /\ pc' \notin Reading
      BY <1>1, <1>7, <2>4 DEF Reading
    <3>2. ~Sd(card')
      BY <1>3, <1>5, <2>4 DEF Known, Found, IS_SD
    <3>3. Stage(pc', mmc, host, card')
      BY <1>5, <2>2, <3>1, <3>2 DEF Stage, Selected, MmcOnly
    <3> QED BY <1>1, <1>2, <3>1, <3>3, CommandStep
  <2> QED BY <2>3, <2>4
<1> QED BY <1>6, <1>7

-----------------------------------------------------------------------------
(* ... and its speed and width are negotiated                              *)

(* a step of the driver alone *)
LEMMA NoCommand == SdInv /\ UNCHANGED card => Effect("none", 0, card')
<1>1. card \in Cards <=> CardType
  BY DEF CardType
<1> QED BY <1>1, SMT DEF SdInv, SdTypes, Effect, Cards

LEMMA ReadInfo == SdInv /\ read_info => SdInv'
<1> SUFFICES ASSUME SdInv, NEW ok \in BOOLEAN, Send("READ_MULTIPLE_BLOCK", 0, ok), pc = "info",
                    pc' \in {"stop", "info_check"}, UNCHANGED <<mmc, host, io>>
             PROVE  SdInv'
  BY DEF read_info, Goto
<1>1. pc \in Selected /\ pc \in MmcOnly /\ pc \notin Served /\ pc' \in Selected /\ pc' \notin Reading
  BY DEF Selected, MmcOnly, Served, Reading
<1>2. OneBit(mmc, host, card) /\ InUse(mmc, card) /\ ~Sd(card)
  BY <1>1, StageAt DEF SdInv
<1>3. Effect("READ_MULTIPLE_BLOCK", 0, card')
  BY SendEffect DEF SdInv, SdTypes
<1>4. OneBit(mmc, host, card') /\ Known(mmc, card') /\ ~Sd(card')
  BY <1>2, <1>3, EffectKeeps, SMT DEF InUse
<1>5. InUse(mmc, card')
  BY <1>2, <1>4, CardTransfers DEF InUse, SdInv, SdTypes
<1>6. Stage(pc', mmc, host, card')
  BY <1>1, <1>4, <1>5 DEF Stage
<1> QED BY <1>1, <1>6, CommandStep

(* mmc_send_status at one of its callers *)
Polling(p, next) ==
    /\ pc = p /\ pc' \in {p, next} /\ UNCHANGED <<mmc, host, io>>
    /\ \E ok \in BOOLEAN : Send("SEND_STATUS", mmc.rca, ok)

LEMMA PollingSteps == \A p, next : send_status(p, next) => Polling(p, next)
  BY DEF send_status, Polling, Goto

StatusPolls ==
    \/ send_status("csd_status", "select") \/ send_status("csd_failed", "failed")
    \/ send_status("info_status", "info_check")
    \/ send_status("hs_status", "hs_check") \/ send_status("width_status", "width_set")

LEMMA SendStatus == SdInv /\ StatusPolls => SdInv'
<1> SUFFICES ASSUME SdInv, StatusPolls
             PROVE  SdInv'
  OBVIOUS
<1>0. PICK ok \in BOOLEAN : Send("SEND_STATUS", mmc.rca, ok)
  BY PollingSteps DEF StatusPolls, Polling
<1>1. Effect("SEND_STATUS", mmc.rca, card') /\ "SEND_STATUS" \notin MovesState
  BY <1>0, SendEffect DEF SdInv, SdTypes, MovesState
<1>2. CASE send_status("csd_status", "select") \/ send_status("csd_failed", "failed")
  <2>1. /\ pc \in {"csd_status", "csd_failed"} /\ UNCHANGED <<mmc, host, io>>
        /\ pc' \in {"csd_status", "csd_failed", "select", "failed"}
    BY <1>2, PollingSteps DEF Polling
  <2>2. /\ pc \in Unselected /\ pc \notin Served /\ pc' \notin Reading
        /\ pc' \in Unselected \/ pc' \in Over
    BY <2>1 DEF Unselected, Served, Reading, Over
  <2>3. OneBit(mmc, host, card) /\ Known(mmc, card)
    BY <2>2, StageAt DEF SdInv
  <2>4. OneBit(mmc, host, card') /\ Known(mmc, card')
    BY <1>1, <2>3, EffectKeeps, SMT
  <2>5. Stage(pc', mmc, host, card')
    BY <2>2, <2>4 DEF Stage
  <2> QED BY <1>0, <2>1, <2>2, <2>5, CommandStep
<1>3. CASE send_status("info_status", "info_check") \/ send_status("hs_status", "hs_check")
  <2>1. /\ pc \in {"info_status", "hs_status"} /\ UNCHANGED <<mmc, host, io>>
        /\ pc' \in {"info_status", "info_check", "hs_status", "hs_check"}
        /\ pc' \in {"info_status", "info_check"} => pc = "info_status"
    <3>1. CASE send_status("info_status", "info_check")
      BY <3>1, PollingSteps DEF Polling
    <3>2. CASE send_status("hs_status", "hs_check")
      <4>1. Polling("hs_status", "hs_check")
        BY <3>2, PollingSteps
      <4> QED BY <4>1 DEF Polling
    <3> QED BY <1>3, <3>1, <3>2
  <2>2. /\ pc \in Selected /\ pc' \in Selected
        /\ pc' \in MmcOnly => pc \in MmcOnly
    BY <2>1 DEF Selected, MmcOnly
  <2>3. pc' \in MmcOnly => ~Sd(card)
    BY <2>2, StageAt DEF SdInv
  <2> QED BY <1>0, <1>1, <2>1, <2>2, <2>3, SameAlike, SelectedCommand
<1>4. CASE send_status("width_status", "width_set")
  <2>1. pc = "width_status" /\ UNCHANGED <<mmc, host, io>> /\ pc' \in {"width_status", "width_set"}
    BY <1>4, PollingSteps DEF Polling
  <2>2. pc \in Widening /\ pc \notin Served /\ pc' \notin Reading /\ pc' \in Widening
    BY <2>1 DEF Widening, Served, Reading
  <2>3. InUse(mmc, card) /\ ~Sd(card)
    BY <2>2, StageAt DEF SdInv
  <2>4. InUse(mmc, card') /\ ~Sd(card')
    BY <1>1, <2>3, EffectKeeps, SMT
  <2>5. Stage(pc', mmc, host, card')
    BY <2>2, <2>4 DEF Stage
  <2> QED BY <1>0, <2>1, <2>2, <2>5, CommandStep
<1> QED BY <1>2, <1>3, <1>4 DEF StatusPolls

(* mmc_read_info goes on without a command *)
LEMMA InfoCheck == SdInv /\ (info_check \/ stop_transmission) => SdInv'
<1> SUFFICES ASSUME SdInv, info_check \/ stop_transmission
             PROVE  SdInv'
  OBVIOUS
<1>1. /\ pc \in {"info_check", "stop"} /\ UNCHANGED <<mmc, host, card, io>>
      /\ pc' \in {"caps", "info", "info_check", "info_status"}
  BY DEF info_check, stop_transmission, Goto
<1>2. pc \in Selected /\ pc \in MmcOnly /\ pc' \in Selected
  BY <1>1 DEF Selected, MmcOnly
<1>3. ~Sd(card) /\ OneBit(mmc, host, card)
  BY <1>2, StageAt DEF SdInv
<1>4. Effect("none", 0, card') /\ Alike(mmc')
  BY <1>1, NoCommand, SameAlike
<1>5. HostShape(host') /\ host'.width = 1
  BY <1>1, <1>3 DEF SdInv, SdTypes, HostShape, OneBit
<1> QED BY <1>1, <1>2, <1>3, <1>4, <1>5, SelectedStep DEF MovesState

LEMMA UpdateHostCaps == SdInv /\ update_host_caps_r => SdInv'
<1> SUFFICES ASSUME SdInv, update_host_caps_r
             PROVE  SdInv'
  OBVIOUS
<1>1. \E f : Set25MHz(f)
  BY DEF update_host_caps_r
<1>2. pc = "caps" /\ UNCHANGED <<card, io>>
  BY DEF update_host_caps_r
<1>3. pc \in Selected /\ pc \in MmcOnly
  BY <1>2 DEF Selected, MmcOnly
<1>4. OneBit(mmc, host, card) /\ ~Sd(card)
  BY <1>3, StageAt DEF SdInv
<1>5. /\ HostShape(host') /\ host'.width = 1 /\ Alike(mmc')
      /\ pc' \in {"scr_app", "ext_csd", "phase"}
  BY <1>1, <1>4, At25MHz
<1>6. Effect("none", 0, card') /\ pc' \in Selected
  BY <1>2, <1>5, NoCommand DEF Selected
<1> QED BY <1>2, <1>3, <1>4, <1>5, <1>6, SelectedStep DEF MovesState

LEMMA SelectedSame ==
    ASSUME SdInv, pc \in Selected,
           NEW c, NEW arg, NEW ok, Send(c, arg, ok), c \notin MovesState, c # "SET_BUS_WIDTH",
           ~(c = "SWITCH" /\ arg = "BUS_WIDTH"), UNCHANGED <<mmc, host, io>>,
           pc' \in (Selected \ MmcOnly) \union {"failed"}
    PROVE  SdInv'
  BY SameAlike, SelectedCommand DEF MmcOnly

LEMMA MmcSpeedSteps ==
    SdInv /\ (ext_csd \/ change_freq \/ hs_switch \/ hs_check) => SdInv'
<1>1. ASSUME SdInv, ext_csd
      PROVE  SdInv'
  <2>1. /\ pc = "ext_csd" /\ pc' = "freq" /\ UNCHANGED <<mmc, host, io>>
        /\ \E ok \in BOOLEAN : Send("SEND_EXT_CSD", 0, ok)
    BY <1>1 DEF ext_csd, Only, Step, Goto
  <2>2. pc \in Selected /\ pc' \in Selected \ MmcOnly /\ "SEND_EXT_CSD" \notin MovesState
    BY <2>1 DEF Selected, MmcOnly, MovesState
  <2> QED BY <1>1, <2>1, <2>2, SelectedSame
<1>2. ASSUME SdInv, change_freq
      PROVE  SdInv'
  <2>1. /\ pc = "freq" /\ pc' \in {"hs_switch", "failed"} /\ UNCHANGED <<host, io>>
        /\ mmc' = [mmc EXCEPT !.caps = {"4BIT", "8BIT"}]
        /\ \E ok \in BOOLEAN : Send("SEND_EXT_CSD", 0, ok)
    BY <1>2 DEF change_freq, Step, Goto
  <2>2. /\ pc \in Selected /\ pc' \in Selected \union {"failed"} /\ pc' \notin MmcOnly
        /\ "SEND_EXT_CSD" \notin MovesState
    BY <2>1 DEF Selected, MmcOnly, MovesState
  <2>3. Alike(mmc')
    BY <1>2, <2>1, CapsAlike
  <2> QED BY <1>2, <2>1, <2>2, <2>3, SelectedCommand
<1>3. ASSUME SdInv, hs_switch
      PROVE  SdInv'
  <2>1. /\ pc = "hs_switch" /\ pc' \in {"hs_status", "hs_switch", "failed"}
        /\ UNCHANGED <<mmc, host, io>> /\ \E ok \in BOOLEAN : Send("SWITCH", "HS_TIMING", ok)
    BY <1>3 DEF hs_switch, mmc_switch, Goto
  <2>2. /\ pc \in Selected /\ pc' \in (Selected \ MmcOnly) \union {"failed"}
        /\ "SWITCH" \notin MovesState
    BY <2>1 DEF Selected, MmcOnly, MovesState
  <2> QED BY <1>3, <2>1, <2>2, SelectedSame
<1>4. ASSUME SdInv, hs_check
      PROVE  SdInv'
  <2>1. PICK ok \in BOOLEAN, fast \in {{"HS"}, {"HS", "HS_52MHz"}} :
          /\ Send("SEND_EXT_CSD", 0, ok)
          /\ pc' = IF ok THEN "phase" ELSE "failed"
          /\ mmc' = IF ok /\ card.hs THEN [mmc EXCEPT !.caps = @ \union fast] ELSE mmc
    BY <1>4 DEF hs_check, Goto
  <2>2. /\ pc \in Selected /\ pc' \in Selected \union {"failed"} /\ pc' \notin MmcOnly
        /\ "SEND_EXT_CSD" \notin MovesState /\ UNCHANGED <<host, io>>
    BY <1>4, <2>1 DEF hs_check, Selected, MmcOnly, MovesState
  <2>3. Alike(mmc')
    BY <1>4, <2>1, CapsAlike, SameAlike
  <2> QED BY <1>4, <2>1, <2>2, <2>3, SelectedCommand
<1> QED BY <1>1, <1>2, <1>3, <1>4

LEMMA SdSpeedSteps ==
    SdInv /\ (scr_app \/ send_scr \/ switch_check \/ switch_hs \/ width_app) => SdInv'
<1>1. ASSUME SdInv, scr_app \/ width_app
      PROVE  SdInv'
  <2>1. /\ pc \in {"scr_app", "width_app"} /\ pc' \in {"scr", "width", "failed"}
        /\ UNCHANGED <<mmc, host, io>> /\ \E ok \in BOOLEAN : Send("APP_CMD", mmc.rca, ok)
    BY <1>1 DEF scr_app, width_app, Only, Step, Goto
  <2>2. /\ pc \in Selected /\ pc' \in (Selected \ MmcOnly) \union {"failed"}
        /\ "APP_CMD" \notin MovesState
    BY <2>1 DEF Selected, MmcOnly, MovesState
  <2> QED BY <1>1, <2>1, <2>2, SelectedSame
<1>2. ASSUME SdInv, send_scr
      PROVE  SdInv'
  <2>1. PICK ok \in BOOLEAN, four \in {{}, {"4BIT"}} :
          /\ Send("SEND_SCR", 0, ok)
          /\ \/ ok /\ mmc' = [mmc EXCEPT !.version = ScrVersion, !.caps = four]
             \/ UNCHANGED mmc
    BY <1>2 DEF send_scr
  <2>2. pc = "scr" /\ pc' \in {"scr", "phase", "check", "failed"} /\ UNCHANGED <<host, io>>
    BY <1>2 DEF send_scr, Goto
  <2>3. /\ pc \in Selected /\ pc' \in Selected \union {"failed"} /\ pc' \notin MmcOnly
        /\ "SEND_SCR" \notin MovesState
    BY <2>2 DEF Selected, MmcOnly, MovesState
  <2>4. CASE ok /\ mmc' = [mmc EXCEPT !.version = ScrVersion, !.caps = four]
    <3>1. card.kind \in SDKinds
      BY <2>1, <2>4, SMT DEF Send, Accepts
    <3>2. InUse(mmc, card)
      BY <1>2, <2>3, StageAt DEF SdInv
    <3>3. mmc.version \in SDKinds
      BY <3>1, <3>2 DEF InUse, Known, Found, Sd
    <3>4. ScrVersion \in SDKinds /\ ScrVersion \in Versions
      BY <3>1 DEF ScrVersion, SDKinds, Versions
    <3>5. Alike(mmc')
      BY <1>2, <2>4, <3>3, <3>4 DEF SdInv, SdTypes, Alike, MmcShape
    <3> QED BY <1>2, <2>1, <2>2, <2>3, <3>5, SelectedCommand
  <2>5. CASE UNCHANGED mmc
    BY <1>2, <2>1, <2>2, <2>3, <2>5, SameAlike, SelectedCommand
  <2> QED BY <2>1, <2>4, <2>5
<1>3. ASSUME SdInv, switch_check
      PROVE  SdInv'
  <2>1. /\ pc = "check" /\ pc' \in {"check", "hs_sd", "phase", "failed"}
        /\ UNCHANGED <<mmc, host, io>> /\ \E ok \in BOOLEAN : Send("SWITCH_FUNC", FALSE, ok)
    BY <1>3 DEF switch_check, Goto
  <2>2. /\ pc \in Selected /\ pc' \in (Selected \ MmcOnly) \union {"failed"}
        /\ "SWITCH_FUNC" \notin MovesState
    BY <2>1 DEF Selected, MmcOnly, MovesState
  <2> QED BY <1>3, <2>1, <2>2, SelectedSame
<1>4. ASSUME SdInv, switch_hs
      PROVE  SdInv'
  <2>1. PICK ok \in BOOLEAN :
          /\ Send("SWITCH_FUNC", TRUE, ok)
          /\ mmc' \in {mmc, [mmc EXCEPT !.caps = @ \union {"HS"}]}
    BY <1>4 DEF switch_hs
  <2>2. pc = "hs_sd" /\ pc' \in {"phase", "failed"} /\ UNCHANGED <<host, io>>
    BY <1>4 DEF switch_hs, Goto
  <2>3. /\ pc \in Selected /\ pc' \in Selected \union {"failed"} /\ pc' \notin MmcOnly
        /\ "SWITCH_FUNC" \notin MovesState
    BY <2>2 DEF Selected, MmcOnly, MovesState
  <2>4. Alike(mmc')
    BY <1>4, <2>1, CapsAlike, SameAlike
  <2> QED BY <1>4, <2>1, <2>2, <2>3, <2>4, SelectedCommand
<1> QED BY <1>1, <1>2, <1>3, <1>4

Ended(r, caps, w) ==
    /\ mmc' = [mmc EXCEPT !.caps = caps, !.width = w, !.clock = r.clock, !.lba = NBLOCKS,
                          !.has_init = TRUE]
    /\ host' = r.host

LEMMA FinishParts ==
    ASSUME NEW hs, NEW caps, NEW w, Finish(hs, caps, w)
    PROVE  \E g \in hs : \E r \in set_ios(g, Clamp(TranSpeed(caps), mmc.f_max), w) :
             Ended(r, caps, w)
  BY DEF Finish, Ended

(* mmc_startup ends: the width of the controller is that of the card *)
LEMMA Finished ==
    ASSUME SdInv, pc \in Selected \union Widening, NEW c, NEW arg, Effect(c, arg, card'),
           c \notin MovesState, NEW hs, \A g \in hs : HostShape(g), NEW caps, NEW w,
           Finish(hs, caps, w), Sd(card) => card'.width = w, UNCHANGED io
    PROVE  SdInv'
<1> DEFINE clk == Clamp(TranSpeed(caps), mmc.f_max)
<1>0. PICK g \in hs : \E r \in set_ios(g, clk, w) : Ended(r, caps, w)
  BY FinishParts
<1>1. PICK r \in set_ios(g, clk, w) : Ended(r, caps, w)
  BY <1>0
<1>2. pc' = "ready"
  BY DEF Finish, Goto
<1>3. HostShape(r.host) /\ (~r.host.fatal => r.host.width = w)
  <2>1. HostShape(g)
    OBVIOUS
  <2> HIDE DEF clk
  <2> QED BY <2>1, SetIos, SMT
<1>4. /\ MmcShape(mmc') /\ mmc'.version = mmc.version /\ mmc'.rca = mmc.rca
      /\ mmc'.high_capacity = mmc.high_capacity
      /\ mmc'.lba = NBLOCKS /\ mmc'.has_init
  BY <1>1 DEF SdInv, SdTypes, MmcShape, Ended
<1>5. InUse(mmc, card)
  BY StageAt DEF SdInv
<1>6. InUse(mmc, card') /\ CardType' /\ (Sd(card') <=> Sd(card))
  BY <1>5, EffectKeeps
<1>7. InUse(mmc', card')
  BY <1>4, <1>6 DEF InUse, Known, Found
<1>8. Sd(card') /\ ~host'.fatal => card'.width = host'.width
  BY <1>1, <1>3, <1>6 DEF Ended
<1>9. pc' \in Served /\ pc' \in Over /\ pc' \notin Reading
  BY <1>2 DEF Served, Over, Reading
<1>10. Accepted(pc', mmc', host', card')
  BY <1>4, <1>7, <1>8, <1>9 DEF Accepted
<1>11. SdTypes'
  BY <1>1, <1>3, <1>4, <1>6 DEF SdInv, SdTypes, Ended
<1>12. ReadCorrect'
  BY DEF SdInv, ReadCorrect
<1> QED BY <1>9, <1>10, <1>11, <1>12 DEF SdInv, Stage

LEMMA Phase == SdInv /\ phase => SdInv'
<1> SUFFICES ASSUME SdInv, phase
             PROVE  SdInv'
  OBVIOUS
<1> DEFINE caps == mmc.caps \intersect host_caps
<1>1. pc = "phase" /\ UNCHANGED <<card, io>>
  BY DEF phase
<1>2. pc \in Selected /\ pc \notin Served
  BY <1>1 DEF Selected, Served, Reading
<1>3. OneBit(mmc, host, card) /\ InUse(mmc, card)
  BY <1>2, StageAt DEF SdInv
<1>4. Effect("none", 0, card') /\ "none" \notin MovesState
  BY <1>1, NoCommand DEF MovesState
<1>5. CASE pc' = "failed" /\ UNCHANGED <<mmc, host>>
  BY <1>1, <1>2, <1>5, GivenUp DEF SdInv, SdTypes, CardType
<1>6. CASE /\ pc' = IF IS_SD THEN "width_app" ELSE "width_switch"
           /\ mmc' = [mmc EXCEPT !.caps = caps] /\ UNCHANGED host
  <2>1. Alike(mmc')
    BY <1>6, CapsAlike
  <2>2. HostShape(host') /\ host'.width = 1
    BY <1>3, <1>6 DEF SdInv, SdTypes, HostShape, OneBit
  <2>3. pc' \in Selected /\ (pc' \in MmcOnly => ~Sd(card))
    BY <1>3, <1>6 DEF Selected, MmcOnly, InUse, Known, Found, IS_SD
  <2> QED BY <1>1, <1>2, <1>4, <2>1, <2>2, <2>3, SelectedStep
<1>7. CASE Finish({host}, caps, mmc.width)
  <2>1. card'.width = mmc.width /\ HostShape(host)
    BY <1>1, <1>3 DEF OneBit, SdInv, SdTypes
  <2> HIDE DEF caps
  <2> QED BY <1>1, <1>2, <1>4, <1>7, <2>1, Finished
<1> QED BY <1>5, <1>6, <1>7 DEF phase, Goto

LEMMA WidthHosts == SdInv => \A g \in WidthSet(4) : HostShape(g)
<1> SUFFICES ASSUME SdInv, NEW r \in set_ios(host, mmc.clock, 4)
             PROVE  HostShape(r.host)
  BY DEF WidthSet, set_bus_width
<1>1. HostShape(host)
  BY DEF SdInv, SdTypes
<1> QED BY <1>1, SetIos, SMT

LEMMA SetWidth == SdInv /\ set_width => SdInv'
<1> SUFFICES ASSUME SdInv, set_width
             PROVE  SdInv'
  OBVIOUS
<1>1. pc = "width" /\ UNCHANGED io
  BY DEF set_width
<1>2. pc \in Selected /\ pc \notin Served
  BY <1>1 DEF Selected, Served, Reading
<1>3. ASSUME NEW ok \in BOOLEAN, Send("SET_BUS_WIDTH", 2, ok)
      PROVE  Effect("SET_BUS_WIDTH", 2, card')
  BY <1>3, SendEffect DEF SdInv, SdTypes
<1>4. CASE Send("SET_BUS_WIDTH", 2, TRUE) /\ Finish(WidthSet(4), mmc.caps, 4)
  <2>1. card'.width = 4 /\ Effect("SET_BUS_WIDTH", 2, card')
    BY <1>3, <1>4, CardWide DEF SdInv, SdTypes
  <2>2. "SET_BUS_WIDTH" \notin MovesState
    BY DEF MovesState
  <2> QED BY <1>1, <1>2, <1>4, <2>1, <2>2, WidthHosts, Finished
<1>5. CASE Send("SET_BUS_WIDTH", 2, FALSE) /\ pc' = "failed" /\ UNCHANGED <<mmc, host>>
  <2>1. CardType'
    BY <1>3, <1>5, EffectKeeps
  <2> QED BY <1>1, <1>2, <1>5, <2>1, GivenUp
<1> QED BY <1>4, <1>5 DEF set_width, Goto

LEMMA WidthSwitch == SdInv /\ width_switch => SdInv'
<1> SUFFICES ASSUME SdInv, width_switch
             PROVE  SdInv'
  OBVIOUS
<1>1. PICK ok \in BOOLEAN : Send("SWITCH", "BUS_WIDTH", ok)
  BY DEF width_switch, mmc_switch
<1>2. /\ pc = "width_switch" /\ UNCHANGED <<mmc, host, io>>
      /\ pc' \in {"width_status", "failed"}
  BY DEF width_switch, mmc_switch, Goto
<1>3. /\ pc \in Selected /\ pc \in MmcOnly /\ pc \notin Served /\ pc' \notin Reading
      /\ pc' \in Widening \/ pc' \in Over
  BY <1>2 DEF Selected, MmcOnly, Served, Reading, Widening, Over
<1>4. Effect("SWITCH", "BUS_WIDTH", card') /\ "SWITCH" \notin MovesState
  BY <1>1, SendEffect DEF SdInv, SdTypes, MovesState
<1>5. InUse(mmc, card) /\ ~Sd(card)
  BY <1>3, StageAt DEF SdInv
<1>6. InUse(mmc, card') /\ ~Sd(card')
  BY <1>4, <1>5, EffectKeeps
<1>7. Stage(pc', mmc, host, card')
  BY <1>3, <1>6 DEF Stage
<1> QED BY <1>1, <1>2, <1>3, <1>7, CommandStep

LEMMA SwitchedWidth == SdInv /\ switched_width => SdInv'
<1> SUFFICES ASSUME SdInv, switched_width
             PROVE  SdInv'
  OBVIOUS
<1>1. pc \in Widening /\ UNCHANGED <<card, io>> /\ Finish(WidthSet(4), mmc.caps, 4)
  BY DEF switched_width, Widening
<1>2. ~Sd(card)
  BY <1>1, StageAt DEF SdInv
<1>3. Effect("none", 0, card') /\ "none" \notin MovesState
  BY <1>1, NoCommand DEF MovesState
<1> QED BY <1>1, <1>2, <1>3, WidthHosts, Finished

-----------------------------------------------------------------------------
(* disk_read                                                               *)

LEMMA Failed == SdInv /\ failed => SdInv'
<1> SUFFICES ASSUME SdInv, failed
             PROVE  SdInv'
  OBVIOUS
<1>1. pc = "failed" /\ pc' = "ready" /\ UNCHANGED <<mmc, host, card, io>>
  BY DEF failed, Goto
<1>2. pc \notin Served /\ pc' \notin Reading /\ pc' \in Over
  BY <1>1 DEF Served, Reading, Over
<1>3. SdTypes'
  BY <1>1 DEF SdInv, SdTypes, HostShape, MmcShape, CardType
<1> QED BY <1>1, <1>2, <1>3, Early DEF Stage

(* what the steps of a read keep *)
LEMMA ServedStep ==
    ASSUME SdInv, NEW c, NEW arg, Effect(c, arg, card'), c \notin MovesState,
           c # "SET_BUS_WIDTH", ~(c = "SWITCH" /\ arg = "BUS_WIDTH"),
           UNCHANGED <<mmc, host>>, pc' \in Served, pc' \in Reading => mmc.has_init,
           mmc.has_init => pc \in Served
    PROVE  /\ HostShape(host') /\ MmcShape(mmc') /\ CardType'
           /\ Stage(pc', mmc', host', card') /\ Accepted(pc', mmc', host', card')
<1>1. HostShape(host') /\ MmcShape(mmc')
  BY DEF SdInv, SdTypes, HostShape, MmcShape
<1>2. CardType' /\ (Sd(card') <=> Sd(card)) /\ (InUse(mmc, card) => InUse(mmc, card'))
  BY EffectKeeps
<1>3. card'.width = card.width
  BY DEF Effect, MovesState
<1>4. Stage(pc', mmc', host', card')
  BY DEF Stage, Over
<1>5. Accepted(pc', mmc', host', card')
  BY <1>2, <1>3 DEF SdInv, Accepted
<1> QED BY <1>1, <1>2, <1>4, <1>5

LEMMA DiskRead == ASSUME NEW b \in Nat
                  PROVE  SdInv /\ disk_read(b) => SdInv'
<1> SUFFICES ASSUME SdInv, disk_read(b)
             PROVE  SdInv'
  OBVIOUS
<1>1. /\ pc = "ready" /\ pc' = (IF b + 1 > mmc.lba THEN "ready" ELSE "blocklen")
      /\ io' = [block |-> b, buffer |-> NoBlock, count |-> 0] /\ UNCHANGED <<mmc, host, card>>
  BY DEF disk_read, Goto
<1>2. pc \in Served /\ pc' \in Served /\ (pc' \in Reading => ~(b + 1 > mmc.lba))
  BY <1>1 DEF Served, Reading
<1>3. pc' \in Reading => mmc.has_init
  <2>1. ~mmc.has_init => mmc.lba = 0
    BY DEF SdInv, Accepted
  <2>2. b + 1 > 0
    BY SMT
  <2> QED BY <1>2, <2>1, <2>2
<1>4. Effect("none", 0, card') /\ "none" \notin MovesState
  BY <1>1, NoCommand DEF MovesState
<1>5. /\ HostShape(host') /\ MmcShape(mmc') /\ CardType'
      /\ Stage(pc', mmc', host', card') /\ Accepted(pc', mmc', host', card')
  BY <1>1, <1>2, <1>3, <1>4, ServedStep
<1>6. /\ io' = [block |-> io'.block, buffer |-> io'.buffer, count |-> io'.count]
      /\ io'.block \in Nat /\ io'.count = 0
  BY <1>1
<1>7. ReadCorrect'
  BY <1>6, SMT DEF ReadCorrect
<1> QED BY <1>5, <1>6, <1>7 DEF SdInv, SdTypes

LEMMA SetBlocklen == SdInv /\ set_blocklen => SdInv'
<1> SUFFICES ASSUME SdInv, set_blocklen
             PROVE  SdInv'
  OBVIOUS
<1>1. PICK ok \in BOOLEAN : Send("SET_BLOCKLEN", 0, ok)
  BY DEF set_blocklen, Only, Step
<1>2. pc = "blocklen" /\ pc' \in {"read", "ready"} /\ UNCHANGED <<mmc, host, io>>
  BY DEF set_blocklen, Only, Step, Goto
<1>3. pc \in Served /\ pc' \in Served /\ mmc.has_init
  BY <1>2 DEF Served, Reading, SdInv, Accepted
<1>4. Effect("SET_BLOCKLEN", 0, card') /\ "SET_BLOCKLEN" \notin MovesState
  BY <1>1, SendEffect DEF SdInv, SdTypes, MovesState
<1>5. /\ HostShape(host') /\ MmcShape(mmc') /\ CardType'
      /\ Stage(pc', mmc', host', card') /\ Accepted(pc', mmc', host', card')
  BY <1>2, <1>3, <1>4, ServedStep
<1> QED BY <1>2, <1>5 DEF SdInv, SdTypes, ReadCorrect

(* the driver and the card count alike, in blocks or in bytes *)
LEMMA SameBlock ==
    ASSUME NEW b \in Nat, mmc.high_capacity = HighCapacity
    PROVE  Addressed(Address(b)) = b
<1>1. BlockLen \in Nat \ {0}
  BY SdCardAssumption
<1>2. (b * BlockLen) \div BlockLen = b
  BY <1>1, SMT
<1> QED BY <1>2 DEF Addressed, Address

LEMMA ReadBlocks == SdInv /\ read_blocks => SdInv'
<1> SUFFICES ASSUME SdInv, read_blocks
             PROVE  SdInv'
  OBVIOUS
<1>1. PICK ok \in BOOLEAN :
        /\ Send("READ_SINGLE_BLOCK", Address(io.block), ok)
        /\ io' = IF ok THEN [io EXCEPT !.buffer = Addressed(Address(io.block)), !.count = 1]
                 ELSE io
  BY DEF read_blocks
<1>2. pc = "read" /\ pc' = "ready" /\ UNCHANGED <<mmc, host>>
  BY DEF read_blocks, Goto
<1>3. pc \in Served /\ pc' \in Served /\ mmc.has_init
  BY <1>2 DEF Served, Reading, SdInv, Accepted
<1>4. Effect("READ_SINGLE_BLOCK", Address(io.block), card')
  BY <1>1, SendEffect DEF SdInv, SdTypes
<1>5. /\ HostShape(host') /\ MmcShape(mmc') /\ CardType'
      /\ Stage(pc', mmc', host', card') /\ Accepted(pc', mmc', host', card')
  BY <1>2, <1>3, <1>4, ServedStep DEF MovesState
<1>6. mmc.high_capacity = HighCapacity
  BY <1>3 DEF SdInv, Accepted, InUse, Known, Found, HighCapacity
<1>7. Addressed(Address(io.block)) = io.block
  BY <1>6, SameBlock DEF SdInv, SdTypes
<1>8. /\ io' = [block |-> io'.block, buffer |-> io'.buffer, count |-> io'.count]
      /\ io'.block = io.block /\ io'.block \in Nat
      /\ io'.buffer = (IF ok THEN io.block ELSE io.buffer)
      /\ ~ok => io'.count = io.count
  BY <1>1, <1>7 DEF SdInv, SdTypes
<1>9. ReadCorrect'
  BY <1>8 DEF SdInv, ReadCorrect
<1> QED BY <1>5, <1>8, <1>9 DEF SdInv, SdTypes

-----------------------------------------------------------------------------
LEMMA SdInvInit == Init => SdInv
<1> SUFFICES ASSUME Init
             PROVE  SdInv
  OBVIOUS
<1>1. 0 \in Nat /\ 0 # 1 /\ 0..Polls \subseteq Nat
  BY SdCardAssumption, SMT
<1>2. CardType /\ card.width = 1
  <2>1. PICK k \in Kinds, n \in 0..Polls :
          card = [kind |-> k, st |-> "idle", rca |-> 0, width |-> 1, hs |-> FALSE,
                  app |-> FALSE, polls |-> n]
    BY DEF Init
  <2>2. n \in Nat
    BY <1>1
  <2> QED BY <1>1, <2>1, <2>2 DEF CardType, Cards, States, Identifying
<1>3. MmcShape(mmc) /\ mmc.version = "none" /\ ~mmc.has_init /\ mmc.lba = 0
  BY <1>1 DEF Init, MmcShape, Versions
<1>4. HostShape(host) /\ host.width = 1
  BY DEF Init, HostShape
<1>5. /\ io = [block |-> io.block, buffer |-> io.buffer, count |-> io.count]
      /\ io.block \in Nat /\ io.count = 0
  BY <1>1 DEF Init
<1>6. pc = "core_init" /\ pc \notin Reading
  BY DEF Init, Reading
<1>7. Stage(pc, mmc, host, card) /\ Accepted(pc, mmc, host, card)
  BY <1>2, <1>3, <1>4, <1>6 DEF Stage, Accepted
<1>8. ReadCorrect
  BY <1>1, <1>5 DEF ReadCorrect
<1> QED BY <1>2, <1>3, <1>4, <1>5, <1>7, <1>8 DEF SdInv, SdTypes

LEMMA SdInvStep == SdInv /\ [Next]_sdVars => SdInv'
<1> SUFFICES ASSUME SdInv, [Next]_sdVars
             PROVE  SdInv'
  OBVIOUS
<1>1. CASE UNCHANGED sdVars
  BY <1>1 DEF sdVars, SdInv, SdTypes, HostShape, MmcShape, CardType, ReadCorrect
<1>2. ASSUME NEW b \in Blocks \union {NBLOCKS}, disk_read(b)
      PROVE  SdInv'
  <2>1. b \in Nat
    BY SdCardAssumption, SMT DEF Blocks
  <2> QED BY <1>2, <2>1, DiskRead
<1>3. CASE Call
  <2>1. CASE \/ core_init \/ go_idle \/ send_if_cond \/ app_41 \/ sd_send_op_cond
             \/ mmc_idle \/ query \/ mmc_send_op_cond
    BY <2>1, CoreInit, GoIdle, SendIfCond, AskSteps, SdSendOpCond, MmcSendOpCond
  <2>2. CASE \/ all_send_cid \/ relative_addr \/ send_csd \/ select_card
             \/ read_info \/ stop_transmission \/ StatusPolls \/ info_check
             \/ update_host_caps_r
    BY <2>2, AllSendCid, RelativeAddr, SendCsd, SelectCard, ReadInfo, SendStatus,
       InfoCheck, UpdateHostCaps
  <2>3. CASE \/ ext_csd \/ change_freq \/ hs_switch \/ hs_check
             \/ scr_app \/ send_scr \/ switch_check \/ switch_hs
             \/ phase \/ width_app \/ set_width \/ width_switch \/ switched_width
    BY <2>3, MmcSpeedSteps, SdSpeedSteps, Phase, SetWidth, WidthSwitch, SwitchedWidth
  <2>4. CASE failed \/ set_blocklen \/ read_blocks
    BY <2>4, Failed, SetBlocklen, ReadBlocks
  <2> QED BY <1>3, <2>1, <2>2, <2>3, <2>4 DEF Call, Steps, Waits, StatusPolls
<1> QED BY <1>1, <1>2, <1>3 DEF Next

(* For every kind of card, number of polls and blocks, and wherever a      *)
(* command of mmc_init or mmc_bread fails: what the driver believes of the *)
(* card at each stage is so.                                               *)
THEOREM SdInvariant == Spec => []SdInv
<1>1. Init => SdInv
  BY SdInvInit
<1>2. SdInv /\ [Next]_sdVars => SdInv'
  BY SdInvStep
<1> QED BY <1>1, <1>2, PTL DEF Spec

(* When mmc_init has accepted an SD card, the driver and the card agree on *)
(* the address, on counting blocks or bytes and on the width of the bus.   *)
THEOREM CardAgrees == Spec => []InitAgrees
<1>1. SdInv => InitAgrees
  BY DEF SdInv, Accepted, InUse, Known, Found, Sd, InitAgrees, HighCapacity
<1> QED BY <1>1, SdInvariant, PTL

(* A read that mmc_bread reports as done has filled the buffer with the    *)
(* block asked for.                                                        *)
THEOREM ReadsCorrect == Spec => []ReadCorrect
<1>1. SdInv => ReadCorrect
  BY DEF SdInv
<1> QED BY <1>1, SdInvariant, PTL

-----------------------------------------------------------------------------
(* The clocks, with the 600 MHz of _get_pll_periph0.  From the PLL the     *)
(* dividers reach down to 4.7 MHz; mmc_set_mclk leaves the clock undivided *)
(* when it is asked for the 3 or 4 MHz that the timing region may name.    *)

Periph600MHz == PERIPH0 = 600000 /\ ExtFMax \intersect {3, 4} = {}

(* the stages up to the address, and those after the first mmc_set_clock *)
Slow       == {"core_init"} \union Before \union Asking \union Addressing \union Unselected
InTransfer == Selected \union Widening
Clocked    == InTransfer \ {"info", "stop", "info_status", "info_check", "caps"}

(* the clocks that the card has in them and at the end, and those that the *)
(* dividers can come near to                                               *)
Low   == {0, f_min}
Mid   == {c \in Nat : c <= MHz25}
High  == {c \in Nat : c <= MHz50}
Rates == {c \in Nat : f_min <= c /\ c <= MHz52 /\ (c <= 2000 \/ 5000 <= c)}

ClockInv ==
    /\ mmc.f_max \in Rates
    /\ pc \in Slow => host.clock \in Low /\ mmc.caps = {}
    /\ pc \in Clocked => mmc.clock \in Rates \intersect Mid
    /\ card.st \in Identifying => host.clock \in Low
    /\ host.clock \in High /\ (~mmc.has_init => host.clock \in Mid)
    /\ Sd(card) => /\ "HS" \in mmc.caps => card.hs
                   /\ ~card.hs => host.clock \in Mid

LEMMA Nested ==
    /\ Low \subseteq Mid /\ Mid \subseteq High /\ 0 \in Low
    /\ MHz25 \in Rates /\ MHz50 \in Rates
  BY SMT DEF Low, Mid, High, Rates, f_min, MHz25, MHz50, MHz52

(* dividing: the quotient is at least k, or at most k *)
LEMMA Quotient ==
    ASSUME NEW x \in Nat, NEW c \in Nat, c > 0, NEW k \in Nat
    PROVE  /\ k * c <= x => x \div c >= k
           /\ x < (k + 1) * c => x \div c <= k
           /\ x \div c \in Nat
<1> DEFINE q == x \div c
<1>1. q \in Nat /\ q * c <= x /\ x < (q + 1) * c
  BY SMT
<1> HIDE DEF q
<1>2. ASSUME NEW a \in Nat, NEW b \in Nat, a <= b
      PROVE  a * c <= b * c
  BY <1>2, SMT
<1>3. ASSUME k * c <= x, q < k
      PROVE  FALSE
  <2>1. (q + 1) * c <= k * c
    BY <1>1, <1>2, <1>3, SMT
  <2>2. (q + 1) * c \in Int /\ k * c \in Int
    BY <1>1, SMT
  <2> QED BY <1>1, <1>3, <2>1, <2>2, SMT
<1>4. ASSUME x < (k + 1) * c, q > k
      PROVE  FALSE
  <2>1. (k + 1) * c <= q * c
    BY <1>1, <1>2, <1>4, SMT
  <2>2. (k + 1) * c \in Int /\ q * c \in Int
    BY <1>1, SMT
  <2> QED BY <1>1, <1>4, <2>1, <2>2, SMT
<1>5. (k * c <= x => q >= k) /\ (x < (k + 1) * c => q <= k) /\ q \in Nat
  BY <1>1, <1>3, <1>4, SMT
<1> QED BY <1>5 DEF q

(* the divider field keeps the four bits that mmc_set_mclk writes *)
LEMMA LowBits ==
    ASSUME NEW p \in Nat, 1 <= p, p <= 16
    PROVE  ((p - 1) % 16) + 1 = p
  BY SMT

(* the module clock by the quotient that mmc_set_mclk splits into dividers *)
LEMMA Dividers ==
    ASSUME NEW c \in Nat, NEW s \in Nat, s = source(c),
           NEW q \in Nat, q >= 1, q <= 128, q = (2 * s + c) \div (2 * c)
    PROVE  get_mclk(set_mclk(c)) =
             IF q <= 16 THEN s \div q
             ELSE IF q <= 32 THEN (s \div 2) \div (q \div 2)
             ELSE IF q <= 64 THEN (s \div 4) \div (q \div 4)
             ELSE (s \div 8) \div (q \div 8)
<1>1. q <= 16 \/ (q > 16 /\ q <= 32) \/ (q > 32 /\ q <= 64) \/ q > 64
  BY SMT
<1>2. /\ q <= 16 => shift(q) = 0
      /\ q > 16 /\ q <= 32 => shift(q) = 1
      /\ q > 32 /\ q <= 64 => shift(q) = 2
      /\ q > 64 => shift(q) = 3
  BY SMT DEF shift
<1>3. PICK d : d = 2^shift(q)
  OBVIOUS
<1>4. /\ q <= 16 => d = 1
      /\ q > 16 /\ q <= 32 => d = 2
      /\ q > 32 /\ q <= 64 => d = 4
      /\ q > 64 => d = 8
  <2>1. 2^0 = 1 /\ 2^1 = 2 /\ 2^2 = 4 /\ 2^3 = 8
    BY SMT
  <2> QED BY <1>2, <1>3, <2>1
<1>5. PICK p \in Nat : p = q \div d /\ 1 <= p /\ p <= 16
  <2>1. 1 <= q \div d /\ q \div d <= 16 /\ q \div d \in Nat
    BY <1>1, <1>4, SMT
  <2> QED BY <2>1
<1>6. PICK m : m = p - 1 /\ (m % 16) + 1 = p
  <2>1. ((p - 1) % 16) + 1 = p
    BY <1>5, LowBits
  <2> QED BY <2>1
<1>7. PICK r : r = [sclk |-> s, n |-> shift(q), m |-> m]
  OBVIOUS
<1>8. set_mclk(c) = r
  <2>1. q # 0 /\ ~(q > 128)
    BY SMT
  <2> QED BY <1>3, <1>5, <1>6, <1>7, <2>1 DEF set_mclk
<1>9. get_mclk(r) = (s \div d) \div p
  <2>1. r.sclk = s /\ r.n = shift(q) /\ r.m = m
    BY <1>7
  <2> QED BY <1>3, <1>6, <2>1, SMT DEF get_mclk
<1>10. get_mclk(set_mclk(c)) = (s \div d) \div (q \div d)
  BY <1>5, <1>8, <1>9
<1>11. q \div 1 = q /\ s \div 1 = s
  BY SMT
<1> QED BY <1>1, <1>4, <1>10, <1>11, SMT

(* a quotient lies between those of the ends *)
LEMMA Between ==
    ASSUME NEW x \in Nat, NEW lo \in Nat, NEW hi \in Nat, NEW c \in Nat, c > 0,
           lo * c <= x, x < (hi + 1) * c
    PROVE  x \div c \in Nat /\ lo <= x \div c /\ x \div c <= hi
<1>1. x \div c >= lo /\ x \div c <= hi /\ x \div c \in Nat
  BY Quotient, SMT
<1> QED BY <1>1, SMT

(* the clocks from the 24 MHz oscillator, and from the PLL *)
LEMMA Rounded24MHz ==
    ASSUME NEW f \in Nat, 400 <= f, f <= 2000
    PROVE  modex(f) \in Nat /\ 400 <= modex(f) /\ modex(f) <= 2000
<1>1. PICK c \in Nat : c = 2 * f
  BY SMT
<1>2. 800 <= c /\ c <= 4000 /\ c > 0
  BY <1>1, SMT
<1>3. PICK q : q = (2 * 24000 + c) \div (2 * c)
  BY SMT
<1>4. q \in Nat /\ 6 <= q /\ q <= 30
  <2>1. PICK x \in Nat, y \in Nat : x = 2 * 24000 + c /\ y = 2 * c
    BY SMT
  <2>2. y > 0 /\ 6 * y <= x /\ x < (30 + 1) * y
    BY <1>2, <2>1, SMT
  <2> QED BY <1>3, <2>1, <2>2, Between, SMT
<1>5. PICK k : k = get_mclk(set_mclk(c))
  BY SMT
<1>6. k = IF q <= 16 THEN 24000 \div q ELSE 12000 \div (q \div 2)
  <2>1. 24000 = source(c)
    BY <1>2, SMT DEF source
  <2>2. 24000 \in Nat /\ q >= 1 /\ q <= 128 /\ q <= 32 /\ 24000 \div 2 = 12000
    BY <1>4, SMT
  <2>3. k = IF q <= 16 THEN 24000 \div q
            ELSE IF q <= 32 THEN (24000 \div 2) \div (q \div 2)
            ELSE IF q <= 64 THEN (24000 \div 4) \div (q \div 4)
            ELSE (24000 \div 8) \div (q \div 8)
    BY <1>3, <1>4, <1>5, <2>1, <2>2, Dividers, SMT
  <2> QED BY <2>2, <2>3, SMT
<1>7. k \in Nat /\ 800 <= k /\ k <= 4000
  <2>1. CASE q <= 16
    <3>1. 24000 \div q \in Nat /\ 1500 <= 24000 \div q /\ 24000 \div q <= 4000
      BY <1>4, <2>1, Between, SMT
    <3>2. k = 24000 \div q
      BY <1>6, <2>1, SMT
    <3> QED BY <3>1, <3>2, SMT
  <2>2. CASE ~(q <= 16)
    <3>1. PICK p \in Nat : p = q \div 2 /\ 8 <= p /\ p <= 15
      BY <1>4, <2>2, SMT
    <3>2. 12000 \div p \in Nat /\ 800 <= 12000 \div p /\ 12000 \div p <= 1500
      BY <3>1, Between, SMT
    <3>3. k = 12000 \div p
      BY <1>6, <2>2, <3>1, SMT
    <3> QED BY <3>2, <3>3, SMT
  <2> QED BY <2>1, <2>2, SMT
<1>8. modex(f) = k \div 2
  BY <1>1, <1>5, SMT DEF modex
<1> QED BY <1>7, <1>8, SMT

LEMMA Rounded600MHz ==
    ASSUME PERIPH0 = 600000, NEW f \in Nat, 5000 <= f, f <= 52000
    PROVE  /\ modex(f) \in Nat /\ 5000 <= modex(f) /\ modex(f) <= 50000
           /\ f <= 25000 => modex(f) <= 25000
<1>1. PICK c \in Nat : c = 2 * f
  BY SMT
<1>2. 10000 <= c /\ c <= 104000 /\ (f <= 25000 => c <= 50000)
  BY <1>1, SMT
<1>3. PICK q : q = (2 * 1200000 + c) \div (2 * c)
  BY SMT
<1>4. q \in Nat /\ 12 <= q /\ q <= 120 /\ (f <= 25000 => 24 <= q)
  <2>1. PICK x \in Nat, y \in Nat : x = 2 * 1200000 + c /\ y = 2 * c
    BY SMT
  <2>2. /\ y > 0 /\ 12 * y <= x /\ x < (120 + 1) * y
        /\ f <= 25000 => 24 * y <= x
    BY <1>2, <2>1, SMT
  <2>3. q = x \div y
    BY <1>3, <2>1, SMT
  <2>4. q \in Nat /\ 12 <= q /\ q <= 120
    BY <2>2, <2>3, Between, SMT
  <2>5. f <= 25000 => 24 <= q
    BY <2>2, <2>3, Between, SMT
  <2> QED BY <2>4, <2>5, SMT
<1>5. PICK k : k = get_mclk(set_mclk(c))
  BY SMT
<1>6. k = IF q <= 16 THEN 1200000 \div q
          ELSE IF q <= 32 THEN 600000 \div (q \div 2)
          ELSE IF q <= 64 THEN 300000 \div (q \div 4)
          ELSE 150000 \div (q \div 8)
  <2>1. 1200000 = source(c)
    BY <1>2, SMT DEF source
  <2>2. /\ 1200000 \in Nat /\ q >= 1 /\ q <= 128 /\ 1200000 \div 2 = 600000
        /\ 1200000 \div 4 = 300000 /\ 1200000 \div 8 = 150000
    BY <1>4, SMT
  <2>3. k = IF q <= 16 THEN 1200000 \div q
            ELSE IF q <= 32 THEN (1200000 \div 2) \div (q \div 2)
            ELSE IF q <= 64 THEN (1200000 \div 4) \div (q \div 4)
            ELSE (1200000 \div 8) \div (q \div 8)
    BY <1>3, <1>4, <1>5, <2>1, <2>2, Dividers, SMT
  <2> QED BY <2>2, <2>3, SMT
<1>7. k \in Nat /\ 10000 <= k /\ k <= 100000 /\ (f <= 25000 => k <= 50000)
  <2>1. CASE q <= 16
    <3>1. 1200000 \div q \in Nat /\ 75000 <= 1200000 \div q /\ 1200000 \div q <= 100000
      BY <1>4, <2>1, Between, SMT
    <3>2. k = 1200000 \div q
      BY <1>6, <2>1, SMT
    <3> QED BY <1>4, <2>1, <3>1, <3>2, SMT
  <2>2. CASE ~(q <= 16) /\ q <= 32
    <3>1. PICK p \in Nat : p = q \div 2 /\ 8 <= p /\ p <= 16 /\ (f <= 25000 => 12 <= p)
      BY <1>4, <2>2, SMT
    <3>2. 600000 \div p \in Nat /\ 37500 <= 600000 \div p /\ 600000 \div p <= 75000
      BY <3>1, Between, SMT
    <3>3. f <= 25000 => 600000 \div p <= 50000
      BY <3>1, Between, SMT
    <3>4. k = 600000 \div p
      BY <1>6, <2>2, <3>1, SMT
    <3> QED BY <3>2, <3>3, <3>4, SMT
  <2>3. CASE ~(q <= 16) /\ ~(q <= 32) /\ q <= 64
    <3>1. PICK p \in Nat : p = q \div 4 /\ 8 <= p /\ p <= 16
      BY <1>4, <2>3, SMT
    <3>2. 300000 \div p \in Nat /\ 18750 <= 300000 \div p /\ 300000 \div p <= 37500
      BY <3>1, Between, SMT
    <3>3. k = 300000 \div p
      BY <1>6, <2>3, <3>1, SMT
    <3> QED BY <3>2, <3>3, SMT
  <2>4. CASE ~(q <= 16) /\ ~(q <= 32) /\ ~(q <= 64)
    <3>1. PICK p \in Nat : p = q \div 8 /\ 8 <= p /\ p <= 15
      BY <1>4, <2>4, SMT
    <3>2. 150000 \div p \in Nat /\ 10000 <= 150000 \div p /\ 150000 \div p <= 18750
      BY <3>1, Between, SMT
    <3>3. k = 150000 \div p
      BY <1>6, <2>4, <3>1, SMT
    <3> QED BY <3>2, <3>3, SMT
  <2> QED BY <2>1, <2>2, <2>3, <2>4, SMT
<1>8. modex(f) = k \div 2
  BY <1>1, <1>5, SMT DEF modex
<1> QED BY <1>7, <1>8, SMT

LEMMA Rounded ==
    ASSUME Periph600MHz
    PROVE  /\ modex(f_min) = f_min
           /\ \A f \in Rates : /\ modex(f) \in Rates \intersect High
                               /\ f \in Mid => modex(f) \in Mid
<1>1. modex(f_min) = f_min
  BY SMT DEF modex, get_mclk, set_mclk, source, shift, f_min
<1>2. ASSUME NEW f \in Rates
      PROVE  /\ modex(f) \in Rates \intersect High
             /\ f \in Mid => modex(f) \in Mid
  <2>1. f \in Nat /\ 400 <= f /\ f <= 52000 /\ (f <= 2000 \/ 5000 <= f)
    BY <1>2, SMT DEF Rates, f_min, MHz52
  <2>2. PICK g : g = modex(f)
    OBVIOUS
  <2>3. CASE f <= 2000
    <3>1. g \in Nat /\ 400 <= g /\ g <= 2000
      BY <2>1, <2>2, <2>3, Rounded24MHz, SMT
    <3>2. g \in Rates /\ g \in High /\ g \in Mid
      BY <3>1, SMT DEF Rates, Mid, High, f_min, MHz25, MHz50, MHz52
    <3> QED BY <2>2, <3>2
  <2>4. CASE 5000 <= f
    <3>1. g \in Nat /\ 5000 <= g /\ g <= 50000 /\ (f <= 25000 => g <= 25000)
      BY <2>1, <2>2, <2>4, Rounded600MHz, SMT DEF Periph600MHz
    <3>2. g \in Rates /\ g \in High /\ (f \in Mid => g \in Mid)
      BY <3>1, SMT DEF Rates, Mid, High, f_min, MHz25, MHz50, MHz52
    <3> QED BY <2>2, <3>2
  <2> QED BY <2>1, <2>3, <2>4, SMT
<1> QED BY <1>1, <1>2

LEMMA SetIosClock ==
    ASSUME NEW h, HostShape(h), NEW clk, NEW w, NEW r \in set_ios(h, clk, w)
    PROVE  r.host.clock \in {modex(clk), h.clock, 0} /\ r.clock \in {modex(clk), clk}
<1>1. PICK o \in config_clock(h, clk) :
        r = [host  |-> IF o.ok THEN [h EXCEPT !.clock = o.card, !.width = w]
                       ELSE [h EXCEPT !.clock = o.card, !.fatal = TRUE],
             clock |-> o.clock]
  BY DEF set_ios
<1>2. o.card \in {modex(clk), h.clock, 0} /\ o.clock \in {modex(clk), clk}
  BY SMT DEF config_clock
<1>3. r.host \in {[h EXCEPT !.clock = o.card, !.width = w], [h EXCEPT !.clock = o.card, !.fatal = TRUE]}
  BY <1>1
<1>4. r.host.clock = o.card /\ r.clock = o.clock
  BY <1>1, <1>3 DEF HostShape
<1> QED BY <1>2, <1>4

LEMMA Clamped ==
    ASSUME NEW f \in Rates
    PROVE  /\ Clamp(1, f) = f_min
           /\ Clamp(MHz25, f) \in Rates \intersect Mid
           /\ \A t \in {MHz25, MHz26, MHz50, MHz52} : Clamp(t, f) \in Rates
<1>1. Clamp(1, f) = f_min
  BY SMT DEF Clamp, Rates, f_min
<1>2. Clamp(MHz25, f) \in Rates \intersect Mid
  BY SMT DEF Clamp, Rates, Mid, f_min, MHz25, MHz52
<1>3. Clamp(MHz26, f) \in Rates
  BY SMT DEF Clamp, Rates, f_min, MHz26, MHz52
<1>4. Clamp(MHz50, f) \in Rates
  BY SMT DEF Clamp, Rates, f_min, MHz50, MHz52
<1>5. Clamp(MHz52, f) \in Rates
  BY SMT DEF Clamp, Rates, f_min, MHz52
<1> QED BY <1>1, <1>2, <1>3, <1>4, <1>5

(* the maximum that mmc_update_host_caps_r leaves *)
LEMMA Lowered ==
    ASSUME Periph600MHz, NEW f \in Rates, NEW ext \in ExtFMax
    PROVE  LowerFMax(f, ext) \in Rates
<1>1. ext \in Nat /\ ext # 3 /\ ext # 4
  BY SdCardAssumption, SMT DEF Periph600MHz
<1>2. CASE ext # 0 /\ f \div 1000 > ext
  <2>1. f \in Nat /\ f <= 52000
    BY SMT DEF Rates, MHz52
  <2>2. ext <= 52
    BY <1>1, <1>2, <2>1, SMT
  <2>3. ext * 1000 \in Rates
    BY <1>1, <1>2, <2>2, SMT DEF Rates, f_min, MHz52
  <2> QED BY <1>2, <2>3, SMT DEF LowerFMax
<1>3. CASE ~(ext # 0 /\ f \div 1000 > ext)
  BY <1>3, SMT DEF LowerFMax
<1> QED BY <1>2, <1>3, SMT

LEMMA SlowStep ==
    ASSUME SdInv, ClockInv, pc \in Slow, host'.clock = host.clock, card'.kind = card.kind,
           mmc'.caps = mmc.caps, mmc'.f_max = mmc.f_max, pc' \in Slow \union {"failed", "info"}
    PROVE  ClockInv'
<1>1. host'.clock \in Low /\ mmc'.caps = {} /\ mmc'.f_max \in Rates
  BY DEF ClockInv
<1>2. pc' \notin Clocked
  BY DEF Slow, Clocked, InTransfer, Selected, Widening, MmcOnly, Before, Asking, Addressing,
         Unselected
<1>3. host'.clock \in Mid /\ host'.clock \in High
  BY <1>1, Nested
<1> QED BY <1>1, <1>2, <1>3 DEF ClockInv

LEMMA NotInUse == SdInv => /\ pc \in InTransfer \/ mmc.has_init => card.st \notin Identifying
                           /\ pc \in InTransfer => ~mmc.has_init
<1> SUFFICES ASSUME SdInv
             PROVE  /\ pc \in InTransfer \/ mmc.has_init => card.st \notin Identifying
                    /\ pc \in InTransfer => ~mmc.has_init
  OBVIOUS
<1>1. pc \in InTransfer \/ mmc.has_init => InUse(mmc, card)
  BY StageAt DEF SdInv, Accepted, InTransfer
<1>2. pc \in InTransfer => ~mmc.has_init
  BY DEF SdInv, Accepted, InTransfer, Selected, Widening, MmcOnly, Served, Reading
<1> QED BY <1>1, <1>2 DEF InUse, Identifying

LEMMA ClockedStep ==
    ASSUME SdInv, ClockInv, pc \in InTransfer, NEW c, NEW arg, Effect(c, arg, card'),
           c # "GO_IDLE", card'.st \notin Identifying,
           host'.clock = host.clock, mmc'.f_max = mmc.f_max, mmc'.clock = mmc.clock,
           Sd(card) /\ "HS" \in mmc'.caps => card'.hs,
           pc' \in InTransfer \union {"failed"}, pc' \in Clocked => pc \in Clocked
    PROVE  ClockInv'
<1>1. ~mmc.has_init
  BY NotInUse
<1>2. host'.clock \in Mid /\ host'.clock \in High
  BY <1>1 DEF ClockInv
<1>3. Sd(card') <=> Sd(card)
  BY EffectKeeps
<1>4. pc' \notin Slow
  BY DEF Slow, InTransfer, Selected, Widening, MmcOnly, Before, Asking, Addressing, Unselected
<1> QED BY <1>2, <1>3, <1>4 DEF ClockInv

(* the end of mmc_startup: more than 25 MHz only for what the card can *)
LEMMA FinishClock ==
    ASSUME Periph600MHz, SdInv, ClockInv, pc \in InTransfer,
           NEW hs, \A g \in hs : HostShape(g) /\ g.clock \in Mid,
           NEW caps, NEW w, Finish(hs, caps, w), Sd(card) /\ "HS" \in caps => card.hs,
           card'.kind = card.kind, Sd(card) => card'.hs = card.hs, card'.st = card.st
    PROVE  ClockInv'
<1> DEFINE clk == Clamp(TranSpeed(caps), mmc.f_max)
<1>1. PICK g \in hs : \E r \in set_ios(g, clk, w) : Ended(r, caps, w)
  BY FinishParts
<1>2. PICK r \in set_ios(g, clk, w) : Ended(r, caps, w)
  BY <1>1
<1>3. pc' = "ready"
  BY DEF Finish, Goto
<1>4. r.host.clock \in {modex(clk), g.clock, 0} /\ g.clock \in Mid
  <2>1. HostShape(g) /\ g.clock \in Mid
    OBVIOUS
  <2> HIDE DEF clk
  <2> QED BY <2>1, SetIosClock, SMT
<1>5. mmc.f_max \in Rates
  BY DEF ClockInv
<1>6. /\ modex(clk) \in High
      /\ Sd(card) /\ "HS" \notin caps => modex(clk) \in Mid
  <2>1. IS_SD <=> Sd(card)
    BY StageAt DEF SdInv, IS_SD, InUse, Known, Found, InTransfer
  <2>2. clk \in Rates
    BY <1>5, Clamped DEF TranSpeed
  <2>3. Sd(card) /\ "HS" \notin caps => clk \in Mid
    BY <1>5, <2>1, Clamped DEF TranSpeed
  <2> QED BY <2>2, <2>3, Rounded
<1>7. mmc'.f_max = mmc.f_max /\ mmc'.caps = caps /\ mmc'.has_init
  BY <1>2 DEF SdInv, SdTypes, MmcShape, Ended
<1>8. /\ host'.clock \in High
      /\ Sd(card) /\ "HS" \notin caps => host'.clock \in Mid
  BY <1>2, <1>4, <1>6, Nested DEF Ended
<1>9. card'.st \notin Identifying
  BY NotInUse
<1>10. pc' \notin Slow /\ pc' \notin Clocked
  BY <1>3 DEF Slow, Clocked, InTransfer, Selected, Widening, MmcOnly, Before, Asking, Addressing,
              Unselected
<1> QED BY <1>5, <1>7, <1>8, <1>9, <1>10 DEF ClockInv, Sd

LEMMA Clock25MHz ==
    ASSUME Periph600MHz, SdInv, ClockInv, ~mmc.has_init,
           NEW f \in Rates, Set25MHz(f),
           card'.kind = card.kind, card'.st \notin Identifying
    PROVE  ClockInv'
<1> DEFINE clk == Clamp(MHz25, f)
<1>1. PICK r \in set_ios(host, clk, mmc.width) :
        mmc' = [mmc EXCEPT !.f_max = f, !.clock = r.clock, !.caps = {}] /\ host' = r.host
  BY DEF Set25MHz
<1>2. r.host.clock \in {modex(clk), host.clock, 0} /\ r.clock \in {modex(clk), clk}
  <2>1. HostShape(host)
    BY DEF SdInv, SdTypes
  <2> HIDE DEF clk
  <2> QED BY <2>1, SetIosClock, SMT
<1>3. clk \in Rates \intersect Mid /\ modex(clk) \in Rates \intersect Mid
  BY Clamped, Rounded
<1>4. /\ mmc'.f_max = f /\ mmc'.caps = {} /\ mmc'.clock = r.clock
      /\ mmc'.has_init = mmc.has_init
  BY <1>1 DEF SdInv, SdTypes, MmcShape
<1>5. host'.clock \in Mid /\ host'.clock \in High
  BY <1>1, <1>2, <1>3, Nested DEF ClockInv
<1>6. mmc'.clock \in Rates \intersect Mid
  BY <1>2, <1>3, <1>4
<1>7. pc' \in {"scr_app", "ext_csd", "phase"}
  BY DEF Set25MHz, Goto
<1>8. pc' \notin Slow
  BY <1>7 DEF Slow, Before, Asking, Addressing, Unselected
<1> QED BY <1>4, <1>5, <1>6, <1>8 DEF ClockInv

LEMMA ClockSlowSteps ==
    ASSUME Periph600MHz, SdInv, ClockInv,
           \/ core_init \/ go_idle \/ send_if_cond \/ app_41 \/ sd_send_op_cond
           \/ mmc_idle \/ query \/ mmc_send_op_cond
           \/ all_send_cid \/ relative_addr \/ send_csd
           \/ send_status("csd_status", "select") \/ send_status("csd_failed", "failed")
    PROVE  ClockInv'
<1>1. CASE core_init
  <2>1. pc = "core_init" /\ UNCHANGED card
    BY <1>1 DEF core_init
  <2>2. CASE pc' = "failed" /\ UNCHANGED <<mmc, host>>
    BY <2>1, <2>2, SlowStep DEF Slow
  <2>3. ASSUME NEW r \in set_ios([host EXCEPT !.width = 1], Clamp(1, mmc.f_max), 1),
               mmc' = [mmc EXCEPT !.width = 1, !.clock = r.clock], host' = r.host,
               pc' = "go_idle"
        PROVE  ClockInv'
    <3> DEFINE h == [host EXCEPT !.width = 1]
    <3>1. HostShape(h) /\ h.clock = host.clock
      BY SMT DEF SdInv, SdTypes, HostShape
    <3>2. r \in set_ios(h, f_min, 1)
      BY <2>3, Clamped DEF ClockInv
    <3>3. r.host.clock \in {modex(f_min), h.clock, 0}
      <4> HIDE DEF h
      <4> QED BY <3>1, <3>2, SetIosClock, SMT
    <3>4. host'.clock \in Low
      BY <2>1, <2>3, <3>1, <3>3, Rounded DEF ClockInv, Low, Slow
    <3>5. mmc'.caps = mmc.caps /\ mmc'.f_max = mmc.f_max
      BY <2>3 DEF SdInv, SdTypes, MmcShape
    <3>6. pc' \notin Clocked /\ pc \in Slow
      BY <2>1, <2>3 DEF Clocked, InTransfer, Selected, Widening, MmcOnly, Slow
    <3>7. host'.clock \in Mid /\ host'.clock \in High
      BY <3>4, Nested
    <3> QED BY <2>1, <3>4, <3>5, <3>6, <3>7 DEF ClockInv
  <2> QED BY <1>1, <2>2, <2>3 DEF core_init, Goto
<1>2. CASE ~core_init
  <2>1. pc \in Slow /\ pc' \in Slow \union {"failed"} /\ UNCHANGED host
    <3>1. CASE \/ go_idle \/ send_if_cond \/ app_41 \/ mmc_idle \/ query \/ all_send_cid
      BY <3>1 DEF go_idle, send_if_cond, app_41, mmc_idle, query, all_send_cid, Only, Step, Goto,
         Slow, Before, Asking, Addressing
    <3>2. CASE sd_send_op_cond \/ mmc_send_op_cond
      BY <3>2 DEF sd_send_op_cond, mmc_send_op_cond, Polled, Goto, Slow, Asking, Addressing
    <3>3. CASE relative_addr \/ send_csd
      BY <3>3 DEF relative_addr, send_csd, Goto, Slow, Addressing, Unselected
    <3>4. CASE send_status("csd_status", "select") \/ send_status("csd_failed", "failed")
      BY <3>4, PollingSteps DEF Polling, Slow, Unselected
    <3> QED BY <1>2, <3>1, <3>2, <3>3, <3>4
  <2>2. \E c, arg, ok : (c = "RELATIVE_ADDR" => arg = mmc.rca) /\ Send(c, arg, ok)
    <3>1. CASE \/ go_idle \/ send_if_cond \/ app_41 \/ mmc_idle \/ query \/ all_send_cid
      BY <3>1 DEF go_idle, send_if_cond, app_41, mmc_idle, query, all_send_cid, Only, Step
    <3>2. CASE sd_send_op_cond \/ mmc_send_op_cond
      BY <3>2 DEF sd_send_op_cond, mmc_send_op_cond
    <3>3. CASE relative_addr \/ send_csd
      BY <3>3 DEF relative_addr, send_csd
    <3>4. CASE send_status("csd_status", "select") \/ send_status("csd_failed", "failed")
      BY <3>4, PollingSteps DEF Polling
    <3> QED BY <1>2, <3>1, <3>2, <3>3, <3>4
  <2>3. card'.kind = card.kind
    BY <2>2, SendEffect DEF SdInv, SdTypes, MmcShape, Effect
  <2>4. mmc'.caps = mmc.caps /\ mmc'.f_max = mmc.f_max
    <3>1. CASE \/ go_idle \/ app_41 \/ mmc_idle \/ query \/ all_send_cid
      BY <3>1 DEF go_idle, app_41, mmc_idle, query, all_send_cid, Only
    <3>2. CASE send_if_cond
      BY <3>2 DEF send_if_cond, SdInv, SdTypes, MmcShape
    <3>3. CASE sd_send_op_cond
      BY <3>3 DEF sd_send_op_cond, Polled, SdInv, SdTypes, MmcShape
    <3>4. CASE mmc_send_op_cond
      BY <3>4 DEF mmc_send_op_cond, Polled, SdInv, SdTypes, MmcShape
    <3>5. CASE relative_addr \/ send_csd
      BY <3>5 DEF relative_addr, send_csd, SdInv, SdTypes, MmcShape
    <3>6. CASE send_status("csd_status", "select") \/ send_status("csd_failed", "failed")
      BY <3>6, PollingSteps DEF Polling
    <3> QED BY <1>2, <3>1, <3>2, <3>3, <3>4, <3>5, <3>6
  <2> QED BY <2>1, <2>3, <2>4, SlowStep
<1> QED BY <1>1, <1>2

LEMMA ClockSelectSteps ==
    ASSUME Periph600MHz, SdInv, ClockInv, SdInv',
           select_card \/ update_host_caps_r \/ info_check \/ read_info \/ stop_transmission
             \/ send_status("info_status", "info_check")
    PROVE  ClockInv'
<1>1. CASE select_card
  <2>1. PICK ok \in BOOLEAN :
          /\ Send("SELECT_CARD", mmc.rca, ok)
          /\ \/ ok /\ IS_SD /\ Set25MHz(mmc.f_max)
             \/ ok /\ ~IS_SD /\ pc' = "info" /\ UNCHANGED <<mmc, host>>
             \/ ~ok /\ pc' = "failed" /\ UNCHANGED <<mmc, host>>
    BY <1>1 DEF select_card, Goto
  <2>2. pc \in Slow /\ ~mmc.has_init
    BY <1>1 DEF select_card, Slow, Unselected, SdInv, Accepted, Served, Reading
  <2>3. card'.kind = card.kind
    BY <2>1, SendEffect DEF SdInv, SdTypes, Effect
  <2>4. CASE Set25MHz(mmc.f_max)
    <3>1. pc' \in Selected
      BY <2>4 DEF Set25MHz, Goto, Selected
    <3>2. InUse(mmc', card')
      BY <3>1, StageAt DEF SdInv
    <3>3. card'.st \notin Identifying
      BY <3>2 DEF InUse, Identifying
    <3>4. mmc.f_max \in Rates
      BY DEF ClockInv
    <3> QED BY <2>2, <2>3, <2>4, <3>3, <3>4, Clock25MHz
  <2>5. CASE pc' \in {"info", "failed"} /\ UNCHANGED <<mmc, host>>
    BY <2>2, <2>3, <2>5, SlowStep
  <2> QED BY <2>1, <2>4, <2>5
<1>2. CASE update_host_caps_r
  <2>1. PICK f \in {MHz25, mmc.f_max}, ext \in ExtFMax, tuned \in BOOLEAN :
          Set25MHz(IF tuned THEN LowerFMax(f, ext) ELSE MHz25)
    BY <1>2 DEF update_host_caps_r
  <2>2. pc \in InTransfer /\ UNCHANGED card
    BY <1>2 DEF update_host_caps_r, InTransfer, Selected, MmcOnly
  <2>3. f \in Rates
    BY <2>1, Nested DEF ClockInv
  <2>4. PICK g \in Rates : Set25MHz(g)
    BY <2>1, <2>3, Lowered, Nested
  <2>5. card'.st \notin Identifying /\ ~mmc.has_init
    BY <2>2, NotInUse
  <2> QED BY <2>2, <2>4, <2>5, Clock25MHz
<1>3. CASE \/ info_check \/ read_info \/ stop_transmission
           \/ send_status("info_status", "info_check")
  <2>1. /\ pc \in Selected /\ pc' \in Selected /\ pc' \notin Clocked
        /\ UNCHANGED <<mmc, host>>
    BY <1>3, PollingSteps DEF info_check, read_info, stop_transmission, Polling, Goto,
       Selected, MmcOnly, Clocked
  <2>2. \E c, arg : c \notin {"GO_IDLE", "SWITCH_FUNC", "SWITCH"} /\ Effect(c, arg, card')
    <3>1. CASE info_check \/ stop_transmission
      <4>1. Effect("none", 0, card')
        BY <3>1, NoCommand DEF info_check, stop_transmission
      <4> QED BY <4>1
    <3>2. CASE read_info
      <4>1. Effect("READ_MULTIPLE_BLOCK", 0, card')
        BY <3>2, SendEffect DEF read_info, SdInv, SdTypes
      <4> QED BY <4>1
    <3>3. CASE send_status("info_status", "info_check")
      <4>1. Effect("SEND_STATUS", mmc.rca, card')
        BY <3>3, PollingSteps, SendEffect DEF Polling, SdInv, SdTypes
      <4> QED BY <4>1
    <3> QED BY <1>3, <3>1, <3>2, <3>3
  <2>3. PICK c, arg : c \notin {"GO_IDLE", "SWITCH_FUNC", "SWITCH"} /\ Effect(c, arg, card')
    BY <2>2
  <2>4. card'.st \notin Identifying
    <3>1. InUse(mmc', card')
      BY <2>1, StageAt DEF SdInv
    <3> QED BY <3>1 DEF InUse, Identifying
  <2>5. Sd(card) /\ "HS" \in mmc'.caps => card'.hs
    BY <2>1, <2>3 DEF ClockInv, Effect
  <2>6. pc \in InTransfer /\ pc' \in InTransfer
    BY <2>1 DEF InTransfer
  <2> QED BY <2>1, <2>3, <2>4, <2>5, <2>6, ClockedStep
<1> QED BY <1>1, <1>2, <1>3

(* the commands by which the speed is negotiated, and what they may do *)
LEMMA ClockSpeedSteps ==
    ASSUME Periph600MHz, SdInv, ClockInv,
           \/ ext_csd \/ change_freq \/ hs_switch \/ hs_check
           \/ scr_app \/ send_scr \/ switch_check \/ switch_hs \/ width_app
           \/ width_switch \/ send_status("hs_status", "hs_check")
           \/ send_status("width_status", "width_set")
    PROVE  ClockInv'
<1> DEFINE StatusWaits == \/ send_status("hs_status", "hs_check")
                          \/ send_status("width_status", "width_set")
<1>1. /\ pc \in InTransfer /\ pc \in Clocked /\ pc' \in InTransfer \union {"failed"}
      /\ UNCHANGED host
  <2>1. CASE ext_csd \/ change_freq \/ hs_switch \/ hs_check \/ width_switch
    BY <2>1 DEF ext_csd, change_freq, hs_switch, width_switch, mmc_switch, hs_check, Only, Step,
       Goto, Selected, Widening, MmcOnly, InTransfer, Clocked
  <2>2. CASE scr_app \/ send_scr \/ switch_check \/ switch_hs \/ width_app
    BY <2>2 DEF scr_app, send_scr, switch_check, switch_hs, width_app, Only, Step, Goto,
       Selected, MmcOnly, InTransfer, Clocked
  <2>3. CASE StatusWaits
    <3>1. CASE send_status("hs_status", "hs_check")
      <4>1. pc = "hs_status" /\ pc' \in {"hs_status", "hs_check"} /\ UNCHANGED host
        BY <3>1, PollingSteps DEF Polling
      <4> QED BY <4>1 DEF Selected, InTransfer, Clocked
    <3>2. CASE send_status("width_status", "width_set")
      <4>1. pc = "width_status" /\ pc' \in {"width_status", "width_set"} /\ UNCHANGED host
        BY <3>2, PollingSteps DEF Polling
      <4> QED BY <4>1 DEF Widening, InTransfer, Clocked
    <3> QED BY <2>3, <3>1, <3>2
  <2> QED BY <2>1, <2>2, <2>3
<1>2. \E c, arg, ok : c \notin MovesState /\ Send(c, arg, ok)
  <2>1. CASE ext_csd \/ change_freq \/ hs_check
    BY <2>1 DEF ext_csd, change_freq, hs_check, Only, Step, MovesState
  <2>2. CASE hs_switch \/ width_switch
    BY <2>2 DEF hs_switch, width_switch, mmc_switch, MovesState
  <2>3. CASE scr_app \/ width_app
    BY <2>3 DEF scr_app, width_app, Only, Step, MovesState
  <2>4. CASE send_scr
    BY <2>4 DEF send_scr, MovesState
  <2>5. CASE switch_check \/ switch_hs
    BY <2>5 DEF switch_check, switch_hs, MovesState
  <2>6. CASE StatusWaits
    BY <2>6, PollingSteps DEF Polling, MovesState
  <2> QED BY <2>1, <2>2, <2>3, <2>4, <2>5, <2>6
<1>3. PICK c, arg : c \notin MovesState /\ Effect(c, arg, card')
  BY <1>2, SendEffect DEF SdInv, SdTypes, MovesState
<1>4. card'.st \notin Identifying /\ c # "GO_IDLE" /\ (card.hs => card'.hs)
  BY <1>1, <1>3, NotInUse DEF Effect, MovesState
<1>5. mmc'.f_max = mmc.f_max /\ mmc'.clock = mmc.clock
  <2>1. CASE ext_csd \/ scr_app \/ switch_check \/ width_app
    BY <2>1 DEF ext_csd, scr_app, switch_check, width_app, Only
  <2>2. CASE change_freq \/ hs_check
    BY <2>2 DEF change_freq, hs_check, SdInv, SdTypes, MmcShape
  <2>3. CASE send_scr \/ switch_hs
    BY <2>3 DEF send_scr, switch_hs, SdInv, SdTypes, MmcShape
  <2>4. CASE hs_switch \/ width_switch \/ StatusWaits
    BY <2>4, PollingSteps DEF hs_switch, width_switch, mmc_switch, Polling
  <2> QED BY <2>1, <2>2, <2>3, <2>4
<1>6. Sd(card) /\ "HS" \in mmc'.caps => card'.hs
  <2>1. CASE \/ ext_csd \/ scr_app \/ switch_check \/ width_app
             \/ hs_switch \/ width_switch \/ StatusWaits
    <3>1. UNCHANGED mmc
      BY <2>1, PollingSteps DEF ext_csd, hs_switch, width_switch, mmc_switch, scr_app,
         switch_check, width_app, Only, Polling
    <3> QED BY <1>4, <3>1 DEF ClockInv
  <2>2. CASE change_freq
    <3>1. mmc'.caps = {"4BIT", "8BIT"}
      BY <2>2 DEF change_freq, SdInv, SdTypes, MmcShape
    <3> QED BY <3>1
  <2>3. CASE hs_check
    <3>1. ~card.hs => UNCHANGED mmc
      BY <2>3 DEF hs_check
    <3>2. Sd(card) /\ "HS" \in mmc.caps => card.hs
      BY DEF ClockInv
    <3> QED BY <1>4, <3>1, <3>2
  <2>4. CASE send_scr
    <3>1. UNCHANGED mmc \/ mmc'.caps \in {{}, {"4BIT"}}
      BY <2>4 DEF send_scr, SdInv, SdTypes, MmcShape
    <3>2. Sd(card) /\ "HS" \in mmc.caps => card.hs
      BY DEF ClockInv
    <3>3. "HS" \notin {} /\ "HS" \notin {"4BIT"}
      OBVIOUS
    <3> QED BY <1>4, <3>1, <3>2, <3>3
  <2>5. CASE switch_hs
    <3>1. ~card'.hs => UNCHANGED mmc
      BY <2>5 DEF switch_hs
    <3> QED BY <1>4, <3>1 DEF ClockInv
  <2> QED BY <2>1, <2>2, <2>3, <2>4, <2>5
<1> QED BY <1>1, <1>3, <1>4, <1>5, <1>6, ClockedStep

LEMMA WidthClocks ==
    ASSUME Periph600MHz, SdInv, ClockInv, pc \in Clocked
    PROVE  \A g \in WidthSet(4) : HostShape(g) /\ g.clock \in Mid
<1> SUFFICES ASSUME NEW r \in set_ios(host, mmc.clock, 4)
             PROVE  HostShape(r.host) /\ r.host.clock \in Mid
  BY DEF WidthSet, set_bus_width
<1>1. HostShape(host)
  BY DEF SdInv, SdTypes
<1>2. HostShape(r.host)
  BY <1>1, SetIos, SMT
<1>3. r.host.clock \in {modex(mmc.clock), host.clock, 0}
  BY <1>1, SetIosClock, SMT
<1>4. modex(mmc.clock) \in Mid
  BY Rounded DEF ClockInv
<1>5. host.clock \in Mid
  BY NotInUse DEF ClockInv, Clocked
<1> QED BY <1>2, <1>3, <1>4, <1>5, Nested

LEMMA ClockWidthSteps ==
    ASSUME Periph600MHz, SdInv, ClockInv, phase \/ set_width \/ switched_width
    PROVE  ClockInv'
<1>1. pc \in InTransfer /\ pc \in Clocked
  BY DEF phase, set_width, switched_width, InTransfer, Selected, Widening, MmcOnly, Clocked
<1>2. card.st \notin Identifying /\ ~mmc.has_init /\ host.clock \in Mid
  BY <1>1, NotInUse DEF ClockInv
<1>3. Sd(card) /\ "HS" \in mmc.caps => card.hs
  BY DEF ClockInv
<1>4. CASE phase
  <2> DEFINE caps == mmc.caps \intersect host_caps
  <2>1. UNCHANGED card /\ Effect("none", 0, card') /\ card'.st \notin Identifying
    BY <1>2, <1>4, NoCommand DEF phase
  <2>2. Sd(card) /\ "HS" \in caps => card.hs
    BY <1>3
  <2>3. CASE pc' = "failed" /\ UNCHANGED <<mmc, host>>
    <3>1. Sd(card) /\ "HS" \in mmc'.caps => card'.hs
      BY <1>3, <2>1, <2>3
    <3> QED BY <1>1, <1>2, <2>1, <2>3, <3>1, ClockedStep
  <2>4. CASE /\ pc' = IF IS_SD THEN "width_app" ELSE "width_switch"
             /\ mmc' = [mmc EXCEPT !.caps = caps] /\ UNCHANGED host
    <3>1. mmc'.caps = caps /\ mmc'.f_max = mmc.f_max /\ mmc'.clock = mmc.clock
      BY <2>4 DEF SdInv, SdTypes, MmcShape
    <3>2. pc' \in InTransfer
      BY <2>4 DEF InTransfer, Selected, MmcOnly
    <3>3. Sd(card) /\ "HS" \in mmc'.caps => card'.hs
      BY <2>1, <2>2, <3>1
    <3> HIDE DEF caps
    <3> QED BY <1>1, <1>2, <2>1, <2>4, <3>1, <3>2, <3>3, ClockedStep
  <2>5. CASE Finish({host}, caps, mmc.width)
    <3>1. HostShape(host)
      BY DEF SdInv, SdTypes
    <3> HIDE DEF caps
    <3> QED BY <1>1, <1>2, <2>1, <2>2, <2>5, <3>1, FinishClock
  <2> QED BY <1>4, <2>3, <2>4, <2>5 DEF phase, Goto
<1>5. CASE set_width
  <2>1. PICK ok \in BOOLEAN : Send("SET_BUS_WIDTH", 2, ok)
    BY <1>5 DEF set_width
  <2>2. Effect("SET_BUS_WIDTH", 2, card')
    BY <2>1, SendEffect DEF SdInv, SdTypes
  <2>3. card'.kind = card.kind /\ card'.st = card.st /\ card'.hs = card.hs
    BY <2>2 DEF Effect, MovesState
  <2>4. CASE pc' = "failed" /\ UNCHANGED <<mmc, host>>
    BY <1>1, <1>2, <1>3, <2>2, <2>3, <2>4, ClockedStep
  <2>5. CASE Finish(WidthSet(4), mmc.caps, 4)
    BY <1>1, <1>2, <1>3, <2>3, <2>5, WidthClocks, FinishClock
  <2> QED BY <1>5, <2>4, <2>5 DEF set_width, Goto
<1>6. CASE switched_width
  <2>1. Finish(WidthSet(4), mmc.caps, 4) /\ UNCHANGED card
    BY <1>6 DEF switched_width
  <2> QED BY <1>1, <1>2, <1>3, <2>1, WidthClocks, FinishClock
<1> QED BY <1>4, <1>5, <1>6

LEMMA ClockServedSteps ==
    ASSUME SdInv, ClockInv, SdInv',
           failed \/ set_blocklen \/ read_blocks \/ \E b \in Nat : disk_read(b)
    PROVE  ClockInv'
<1>1. UNCHANGED <<mmc, host>> /\ pc' \notin Slow /\ pc' \notin Clocked
  <2>1. UNCHANGED <<mmc, host>> /\ pc' \in Served
    BY DEF failed, set_blocklen, read_blocks, disk_read, Only, Step, Goto, Served, Reading
  <2> QED BY <2>1 DEF Served, Reading, Slow, Clocked, InTransfer, Selected, Widening, MmcOnly,
                      Before, Asking, Addressing, Unselected
<1>2. UNCHANGED card \/ mmc.has_init
  BY DEF failed, set_blocklen, read_blocks, disk_read, Only, Step, SdInv, Accepted, Reading
<1>3. card'.kind = card.kind /\ card'.hs = card.hs
  <2>1. CASE set_blocklen \/ read_blocks
    <3>1. \E c \in {"SET_BLOCKLEN", "READ_SINGLE_BLOCK"} : \E arg, ok : Send(c, arg, ok)
      BY <2>1 DEF set_blocklen, read_blocks, Only, Step
    <3> QED BY <3>1, SendEffect DEF SdInv, SdTypes, Effect
  <2>2. CASE ~(set_blocklen \/ read_blocks)
    BY <2>2 DEF failed, disk_read
  <2> QED BY <2>1, <2>2
<1>4. card'.st \in Identifying => host'.clock \in Low
  <2>1. mmc'.has_init => InUse(mmc', card')
    BY DEF SdInv, Accepted
  <2> QED BY <1>1, <1>2, <2>1 DEF InUse, Identifying, ClockInv
<1> QED BY <1>1, <1>3, <1>4 DEF ClockInv, Sd

LEMMA ClockInvInit == Init => ClockInv
<1> SUFFICES ASSUME Init
             PROVE  ClockInv
  OBVIOUS
<1>1. mmc.f_max = MHz50 /\ mmc.caps = {} /\ host.clock = 0
  BY DEF Init
<1>2. pc \notin Clocked
  BY DEF Init, Clocked, InTransfer, Selected, Widening, MmcOnly
<1> QED BY <1>1, <1>2, Nested DEF ClockInv

LEMMA Bounds ==
    /\ \A c \in Low : c <= f_min
    /\ \A c \in Mid : c <= MHz25
    /\ \A c \in High : c <= MHz50 /\ c <= MHz52
  BY SMT DEF Low, Mid, High, f_min, MHz25, MHz50, MHz52

LEMMA ClockBounds == ClockInv => ClockWithinCard
<1> SUFFICES ASSUME ClockInv
             PROVE  ClockWithinCard
  OBVIOUS
<1>1. card.st \in Identifying => host.clock <= f_min
  BY Bounds DEF ClockInv
<1>2. card.kind \in SDKinds => host.clock <= (IF card.hs THEN MHz50 ELSE MHz25)
  BY Bounds DEF ClockInv, Sd
<1>3. host.clock <= MHz52
  BY Bounds DEF ClockInv
<1> QED BY <1>1, <1>2, <1>3 DEF ClockWithinCard

(* With the 600 MHz of the PLL that _get_pll_periph0 reads, and a timing   *)
(* region that does not ask for 3 or 4 MHz, no card is clocked faster than *)
(* it can go, by the dividers that mmc_set_mclk rounds to and wherever a   *)
(* command or a clock update fails.  (mmc_set_mclk finds no divider for 3  *)
(* and 4 MHz, and leaves the PLL's clock undivided.)                       *)
THEOREM ClockAlwaysWithinCard ==
    PERIPH0 = 600000 /\ ExtFMax \intersect {3, 4} = {} => (Spec => []ClockWithinCard)
<1> SUFFICES ASSUME Periph600MHz
             PROVE  Spec => []ClockWithinCard
  BY SMT DEF Periph600MHz
<1>1. Init => ClockInv
  BY ClockInvInit
<1>2. SdInv /\ SdInv' /\ ClockInv /\ [Next]_sdVars => ClockInv'
  <2> SUFFICES ASSUME SdInv, SdInv', ClockInv, [Next]_sdVars
               PROVE  ClockInv'
    OBVIOUS
  <2>1. CASE UNCHANGED sdVars
    BY <2>1 DEF sdVars, ClockInv, Sd
  <2>2. ASSUME NEW b \in Blocks \union {NBLOCKS}, disk_read(b)
        PROVE  ClockInv'
    <3>1. b \in Nat
      BY SdCardAssumption, SMT DEF Blocks
    <3> QED BY <2>2, <3>1, ClockServedSteps
  <2>3. CASE Call
    BY <2>3, ClockSlowSteps, ClockSelectSteps, ClockSpeedSteps, ClockWidthSteps, ClockServedSteps
       DEF Call, Steps, Waits
  <2> QED BY <2>1, <2>2, <2>3 DEF Next
<1>3. ClockInv => ClockWithinCard
  BY ClockBounds
<1> QED BY <1>1, <1>2, <1>3, SdInvariant, PTL DEF Spec
=============================================================================
