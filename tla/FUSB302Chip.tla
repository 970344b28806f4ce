---------------------------- MODULE FUSB302Chip ----------------------------
(***************************************************************************)
(* The FUSB302 driver below the view of module FUSB302: every call is a    *)
(* sequence of register accesses over I2C, and the chip, the partner and   *)
(* the cable act between any two of them.  The ESP32 may be reset in the   *)
(* middle of a call, too, while the chip keeps its registers.              *)
(*                                                                         *)
(* Only this driver writes the registers, so a read-modify-write changes   *)
(* some fields and keeps the rest.  A call is therefore the sequence of    *)
(* its accesses (todo); an access that writes is a record of the fields it *)
(* sets.  An assignment to the driver's own memory belongs to the access   *)
(* before it, for nobody else reads that memory meanwhile.                 *)
(***************************************************************************)
EXTENDS Integers, Sequences, FiniteSets

TYPEC_CC_VOLT_OPEN == 0
TYPEC_CC_VOLT_RA == 1
TYPEC_CC_VOLT_RD == 2

CONSTANTS
    Partners,             \* what may be plugged in, see module FUSB302
    Headers,              \* role pairs given to fusb302_tcpm_set_msg_header
    CONFIG_USB_PD_PULLUP, \* the Rp value pd_init selects (USB)
    FifoDepth,            \* packets the Rx FIFO holds
    ReadsFail             \* TRUE: a read over I2C may fail

ASSUME HeadersAssumption == Headers \subseteq {0, 1} \X {0, 1}
ASSUME PullupAssumption == CONFIG_USB_PD_PULLUP \in {"USB", "1A5", "3A0"}
ASSUME FifoAssumption == FifoDepth \in Nat
ASSUME ReadsFailAssumption == ReadsFail \in BOOLEAN

VARIABLES
    chip,     \* registers of the chip and struct fusb302_chip_state
    rx_fifo,  \* packets received, oldest first
    tx,       \* what is being sent
    ints,     \* latched interrupts
    todo,     \* accesses the current driver call still makes
    seen,     \* interrupts the alert handler has read
    got,      \* CC voltages fusb302_tcpm_get_cc has determined
    steady,   \* TRUE: the last call is get_cc, and the cable was not touched since
    cable     \* what is at the other end

vars == <<chip, rx_fifo, tx, ints, todo, seen, got, steady, cable>>

Pins == {1, 2}
Pin(polarity) == polarity + 1
Line == Pin(cable.flip)

(***************************************************************************)
(* SWITCHES0: pu, pd, meas.  SWITCHES1: txcc, gcrc, header.  CONTROL0:     *)
(* int_mask, host_cur.  CONTROL1: bist2.  MASK: bc_lvl.  CONTROL3:         *)
(* retries.  POWER: on.  This is what a reset of the chip gives.           *)
(***************************************************************************)
ResetRegisters ==
    [ pu |-> {}, pd |-> Pins, meas |-> {}, txcc |-> {}, gcrc |-> FALSE,
      header |-> <<0, 0>>, int_mask |-> TRUE, host_cur |-> "USB",
      bist2 |-> FALSE, bc_lvl |-> TRUE, retries |-> 0, on |-> FALSE ]

\* The driver's memory, as a reset of the ESP32 leaves it.
ZeroedMemory ==
    [ cc_polarity |-> 0, pulling_up |-> 0, rx_enable |-> 0, mdac_vnc |-> 0, mdac_rd |-> 0 ]

Assign(fields, c) == [f \in DOMAIN c |-> IF f \in DOMAIN fields THEN fields[f] ELSE c[f]]

----------------------------------------------------------------------------
\* Driver calls.

Access(what, arg) == [do |-> what, arg |-> arg]
Write(fields) == Access("write", fields)
WriteBack(fields) == Access("write_back", fields)
FlushTx == Access("flush_tx", 0)
\* CONTROL1 is written as a whole.
FlushRx == Access("flush_rx", 0)
PdReset(cause) == Access("pd_reset", cause)

TCPC_REG_MEASURE_MDAC_MV(mv) == mv \div 42

\* Mutant: the two thresholds swapped.
fusb302_tcpm_select_rp_value_swapped(rp) ==
    << Write([ host_cur |-> rp, mdac_vnc |-> TCPC_REG_MEASURE_MDAC_MV(200),
               mdac_rd |-> TCPC_REG_MEASURE_MDAC_MV(1600) ]) >>

fusb302_tcpm_select_rp_value(rp) ==
    LET vnc == IF rp = "3A0" THEN 2600 ELSE 1600
        rd == CASE rp = "3A0" -> 800 [] rp = "1A5" -> 400 [] OTHER -> 200
    IN << Write([ host_cur |-> rp,
                  mdac_vnc |-> TCPC_REG_MEASURE_MDAC_MV(vnc),
                  mdac_rd |-> TCPC_REG_MEASURE_MDAC_MV(rd) ]) >>

\* Mutant: the pull-ups stay on when Rd is shown.
fusb302_tcpm_set_cc_both(pull) ==
    IF pull = "RP" THEN << Write([ pu |-> Pins, pd |-> {}, pulling_up |-> 1 ]) >>
                   ELSE << Write([ pd |-> Pins, pulling_up |-> 0 ]) >>

fusb302_tcpm_set_cc(pull) ==
    << Write([ pu |-> IF pull = "RP" THEN Pins ELSE {},
               pd |-> IF pull = "RP" THEN {} ELSE Pins,
               pulling_up |-> IF pull = "RP" THEN 1 ELSE 0 ]) >>

fusb302_tcpm_set_polarity(polarity) ==
    << Write([ meas |-> {Pin(polarity)} ]),
       Write([ txcc |-> {Pin(polarity)}, cc_polarity |-> polarity ]) >>

fusb302_tcpm_set_msg_header(power_role, data_role) ==
    << Write([ header |-> <<power_role, data_role>> ]) >>

\* Mutant: acknowledging starts before the flush.
fusb302_tcpm_set_rx_enable_early(c, enable) ==
    IF enable = 1
    THEN << Write([ meas |-> {Pin(c.cc_polarity)} ]), Write([ bc_lvl |-> FALSE ]),
            Write([ gcrc |-> TRUE ]), FlushRx >>
    ELSE << Write([ meas |-> {} ]), Write([ bc_lvl |-> TRUE ]), Write([ gcrc |-> FALSE ]) >>

\* rx_enable is assigned first, with the call.
fusb302_tcpm_set_rx_enable(c, enable) ==
    IF enable = 1
    THEN << Write([ meas |-> {Pin(c.cc_polarity)} ]), Write([ bc_lvl |-> FALSE ]),
            FlushRx, Write([ gcrc |-> TRUE ]) >>
    ELSE << Write([ meas |-> {} ]), Write([ bc_lvl |-> TRUE ]), Write([ gcrc |-> FALSE ]) >>

\* The masks written here leave every interrupt of this module enabled, and
\* VCONN is off in this build.
fusb302_tcpm_init ==
    << Access("sw_reset",
              [ cc_polarity |-> -1,
                mdac_vnc |-> TCPC_REG_MEASURE_MDAC_MV(1600),
                mdac_rd |-> TCPC_REG_MEASURE_MDAC_MV(200) ]),
       Write([ retries |-> 3 ]), Write([ bc_lvl |-> TRUE ]), Write([ int_mask |-> FALSE ]) >>
    \o fusb302_tcpm_set_polarity(0)
    \o << Write([ gcrc |-> FALSE ]), Write([ on |-> TRUE ]) >>

\* setup() and pd_init().
Setup ==
    fusb302_tcpm_init \o fusb302_tcpm_init
        \o << Write([ rx_enable |-> 0, meas |-> {} ]), Write([ bc_lvl |-> TRUE ]),
              Write([ gcrc |-> FALSE ]) >>
        \o fusb302_tcpm_select_rp_value(CONFIG_USB_PD_PULLUP) \o fusb302_tcpm_set_cc("RD")

\* The comparator is first set to the threshold of an open pin.
fusb302_measure_cc_pin_source(c, pin) ==
    << Write([ meas |-> {pin}, pu |-> c.pu \cup {pin} ]), Access("comp_vnc", pin),
       WriteBack([ meas |-> c.meas, pu |-> c.pu ]) >>

\* Mutant: the receiver is left on the pin measured last.
fusb302_detect_cc_pin_sink_unrestored(c) ==
    << Write([ meas |-> {1} ]), Access("bc_lvl", 1),
       Write([ meas |-> {2} ]), Access("bc_lvl", 2) >>

fusb302_detect_cc_pin_sink(c) ==
    << Write([ meas |-> {1} ]), Access("bc_lvl", 1),
       Write([ meas |-> {2} ]), Access("bc_lvl", 2), Write([ meas |-> c.meas ]) >>

fusb302_tcpm_get_cc(c) ==
    IF c.pulling_up = 1
    THEN fusb302_measure_cc_pin_source(c, 1) \o fusb302_measure_cc_pin_source(c, 2)
    ELSE fusb302_detect_cc_pin_sink(c)

fusb302_tcpm_transmit(type) ==
    CASE type = "BIST" ->
            << FlushTx, Write([ bist2 |-> TRUE ]), Access("send", "none"),
               Write([ bist2 |-> FALSE ]) >>
      [] OTHER -> << FlushTx, Access("send", type) >>

fusb302_tcpm_get_message == << Access("take", 0) >>

fusb302_tcpc_alert ==
    << Access("read", {"HARDSENT", "HARDRESET"}),
       Access("read", {"GCRCSENT"}), Access("handle", 0) >>

----------------------------------------------------------------------------
\* What the chip sees (not part of the driver): the voltage on a CC pin with our
\* Rp, in mV, and the level of BC_LVL with our Rd.

Rd_mV(c) == CASE c.host_cur = "USB" -> 408 [] c.host_cur = "1A5" -> 918 [] OTHER -> 1683
Ra_mV(c) == CASE c.host_cur = "USB" -> 80 [] c.host_cur = "1A5" -> 180 [] OTHER -> 330
CC_mV(c, pin) ==
    CASE pin \notin c.pu -> 0
      [] pin \in c.pu /\ (cable.kind = "ts" \/ (cable.kind \in {"snk", "drp"} /\ pin = Line)) ->
            Rd_mV(c)
      [] pin \in c.pu /\ cable.kind = "audio" -> Ra_mV(c)
      [] OTHER -> 3300

\* STATUS0 COMP: the measured pin is above the threshold of MDAC.
COMP(c, mdac) == \E pin \in c.meas : CC_mV(c, pin) > 42 * mdac

BC_LVL(c) ==
    CASE cable.kind \in {"src", "drp"} /\ c.meas = {Line} -> 1
      [] cable.kind = "dts" -> IF c.meas = {Line} THEN 3 ELSE 2
      [] OTHER -> 0

\* Mutant: the level added to a constant one too high.
fusb302_convert_bc_lvl_offset(c, bc_lvl) ==
    CASE c.pulling_up = 1 -> IF bc_lvl = 0 THEN 1 ELSE IF bc_lvl < 3 THEN 2 ELSE 0
      [] OTHER -> IF bc_lvl = 0 THEN 0 ELSE bc_lvl + 5

fusb302_convert_bc_lvl(c, bc_lvl) ==
    CASE c.pulling_up = 1 -> IF bc_lvl = 0 THEN 1 ELSE IF bc_lvl < 3 THEN 2 ELSE 0
      [] OTHER -> CASE bc_lvl = 1 -> 5 [] bc_lvl = 2 -> 6 [] bc_lvl = 3 -> 7 [] OTHER -> 0

----------------------------------------------------------------------------
\* One access.

Do(what) == todo # << >> /\ Head(todo).do = what
Continue == todo' = Tail(todo)

(***************************************************************************)
(* tcpc_read does not look at the result of the transfer: Wire.read gives  *)
(* -1 when nothing came, and the call returns 0.  The bits of a register   *)
(* that are not written on purpose are then written as ones, a status      *)
(* reads as all ones, and so do the interrupts, which stay latched.        *)
(***************************************************************************)
Lost == {FALSE, ReadsFail}

Ones ==
    { [pu |-> Pins, pd |-> Pins, meas |-> Pins],
      [txcc |-> Pins, gcrc |-> TRUE, header |-> <<1, 1>>],
      [int_mask |-> TRUE, host_cur |-> "3A0"] }

tcpc_read(fields) ==
    {chip} \cup {Assign(ones, chip) : ones \in
        {reg \in Ones : ReadsFail /\ DOMAIN fields \cap DOMAIN reg # {}}}

DoWrite ==
    /\ Do("write")
    /\ \E before \in tcpc_read(Head(todo).arg) : chip' = Assign(Head(todo).arg, before)
    /\ Continue
    /\ UNCHANGED <<rx_fifo, tx, ints, seen, got, steady, cable>>

\* The switches saved before a measurement, which are taken to have been read right.
DoWriteBack ==
    /\ Do("write_back")
    /\ chip' = Assign(Head(todo).arg, chip)
    /\ Continue
    /\ UNCHANGED <<rx_fifo, tx, ints, seen, got, steady, cable>>

\* SW_RESET restores every register; whether it empties the FIFO does not matter.
DoSwReset ==
    /\ Do("sw_reset")
    /\ chip' = Assign(Head(todo).arg, Assign(ResetRegisters, chip))
    /\ rx_fifo' \in {rx_fifo, << >>}
    /\ tx' = "none"
    /\ ints' = {}
    /\ Continue
    /\ UNCHANGED <<seen, got, steady, cable>>

DoPdReset ==
    /\ Do("pd_reset")
    /\ rx_fifo' = << >>
    /\ tx' = "none"
    /\ seen' = seen \ {Head(todo).arg}
    /\ Continue
    /\ UNCHANGED <<chip, ints, got, steady, cable>>

DoFlushRx ==
    /\ Do("flush_rx")
    /\ rx_fifo' = << >>
    /\ chip' = [chip EXCEPT !.bist2 = FALSE]
    /\ Continue
    /\ UNCHANGED <<tx, ints, seen, got, steady, cable>>

DoFlushTx ==
    /\ Do("flush_tx")
    /\ tx' = "none"
    /\ chip' \in tcpc_read([int_mask |-> FALSE])
    /\ Continue
    /\ UNCHANGED <<rx_fifo, ints, seen, got, steady, cable>>

DoSend ==
    /\ Do("send")
    /\ tx' = Head(todo).arg
    /\ Continue
    /\ UNCHANGED <<chip, rx_fifo, ints, seen, got, steady, cable>>

\* Open, or else compare with the lower threshold.
DoComp ==
    /\ Do("comp_vnc")
    /\ \E lost \in Lost :
          IF COMP(chip, chip.mdac_vnc) \/ lost
          THEN got' = [got EXCEPT ![Head(todo).arg] = TYPEC_CC_VOLT_OPEN] /\ Continue
          ELSE /\ todo' = << Access("comp_rd", Head(todo).arg) >> \o Tail(todo)
               /\ UNCHANGED got
    /\ UNCHANGED <<chip, rx_fifo, tx, ints, seen, steady, cable>>

DoCompRd ==
    /\ Do("comp_rd")
    /\ \E lost \in Lost : got' = [got EXCEPT ![Head(todo).arg] =
                  IF COMP(chip, chip.mdac_rd) \/ lost THEN TYPEC_CC_VOLT_RD ELSE TYPEC_CC_VOLT_RA]
    /\ Continue
    /\ UNCHANGED <<chip, rx_fifo, tx, ints, seen, steady, cable>>

DoBcLvl ==
    /\ Do("bc_lvl")
    /\ \E lost \in Lost : got' = [got EXCEPT ![Head(todo).arg] =
                  fusb302_convert_bc_lvl(chip, IF lost THEN 3 ELSE BC_LVL(chip))]
    /\ Continue
    /\ UNCHANGED <<chip, rx_fifo, tx, ints, seen, steady, cable>>

\* Reading an interrupt register clears it.
DoRead ==
    /\ Do("read")
    /\ \E lost \in Lost :
          /\ seen' = seen \cup (IF lost THEN Head(todo).arg ELSE ints \cap Head(todo).arg)
          /\ ints' = IF lost THEN ints ELSE ints \ Head(todo).arg
    /\ Continue
    /\ UNCHANGED <<chip, rx_fifo, tx, got, steady, cable>>

(***************************************************************************)
(* The causes, in this order.  pd_execute_hard_reset shows Rd again when   *)
(* it interrupts a swap; pd_transmit_complete makes no access.             *)
(***************************************************************************)
DoHandle ==
    /\ Do("handle")
    /\ \E rd \in {<< >>, fusb302_tcpm_set_cc("RD")} :
          /\ rd # << >> => "HARDRESET" \in seen
          /\ todo' = (IF "HARDSENT" \in seen THEN << PdReset("HARDSENT") >> ELSE << >>)
                      \o (IF "HARDRESET" \in seen THEN << PdReset("HARDRESET") >> \o rd ELSE << >>)
                      \o (IF "GCRCSENT" \in seen /\ chip.rx_enable = 0 THEN << FlushRx >> ELSE << >>)
    /\ seen' = seen \cap {"HARDSENT", "HARDRESET"}
    /\ UNCHANGED <<chip, rx_fifo, tx, ints, got, steady, cable>>

\* GoodCRC packets are skipped, one burst for each packet.
DoTake ==
    /\ Do("take")
    /\ \E empty \in {rx_fifo = << >>, rx_fifo = << >> \/ ReadsFail} :
          /\ rx_fifo' = IF empty THEN rx_fifo ELSE Tail(rx_fifo)
          /\ IF ~empty /\ Len(rx_fifo) > 1 /\ Head(rx_fifo) = "good_crc"
             THEN UNCHANGED todo ELSE Continue
    /\ UNCHANGED <<chip, tx, ints, seen, got, steady, cable>>

Bus ==
    \/ DoWrite \/ DoWriteBack \/ DoSwReset \/ DoPdReset \/ DoFlushRx \/ DoFlushTx \/ DoSend
    \/ DoComp \/ DoCompRd \/ DoBcLvl \/ DoRead \/ DoHandle \/ DoTake

----------------------------------------------------------------------------
\* The protocol layer calls the driver, one call after the other.

Call(program, c) ==
    /\ todo = << >>
    /\ todo' = program
    /\ chip' = c
    /\ got' = <<TYPEC_CC_VOLT_OPEN, TYPEC_CC_VOLT_OPEN>>
    /\ UNCHANGED <<rx_fifo, tx, ints, seen, cable>>

GetCc == Call(fusb302_tcpm_get_cc(chip), chip) /\ steady' = TRUE

\* Attaching, which happens with the receiver off (DeafWhenDisconnected).
SetPolarity ==
    /\ chip.rx_enable = 0
    /\ \E polarity \in {0, 1} : Call(fusb302_tcpm_set_polarity(polarity), chip)

SetRxEnable ==
    \E enable \in {0, 1} :
        /\ enable = 1 => chip.rx_enable = 0
        /\ Call(fusb302_tcpm_set_rx_enable(chip, enable), [chip EXCEPT !.rx_enable = enable])

\* The sketch calls the alert handler when it finds the INT pin low; COLLISION,
\* TX_SUCCESS and RETRYFAIL pull it low too, and touch no register or FIFO.
Others ==
    \/ \E pull \in {"RP", "RD"} : Call(fusb302_tcpm_set_cc(pull), chip)
    \/ \E roles \in Headers : Call(fusb302_tcpm_set_msg_header(roles[1], roles[2]), chip)
    \/ \E type \in {"SOP", "HARD_RESET", "BIST"} : Call(fusb302_tcpm_transmit(type), chip)
    \/ Call(fusb302_tcpm_get_message, chip)
    \/ ~chip.int_mask /\ Call(fusb302_tcpc_alert, chip)

Protocol ==
    \/ GetCc
    \/ (SetPolarity \/ SetRxEnable \/ Others) /\ steady' = FALSE

\* The ESP32 is reset, by a brown-out or its watchdog; the chip is not.
Reboot ==
    /\ chip' = Assign(ZeroedMemory, chip)
    /\ todo' = Setup
    /\ seen' = {}
    /\ got' = <<TYPEC_CC_VOLT_OPEN, TYPEC_CC_VOLT_OPEN>>
    /\ steady' = FALSE
    /\ UNCHANGED <<rx_fifo, tx, ints, cable>>

----------------------------------------------------------------------------
\* The chip, the partner and the cable.

OnLine == chip.on /\ chip.meas = {Line} /\ cable.kind \in {"src", "snk", "drp"}

\* Without AUTO_GCRC a packet is stored all the same, and the partner repeats it.
PacketArrives ==
    /\ OnLine
    /\ Len(rx_fifo) < FifoDepth
    /\ rx_fifo' = Append(rx_fifo, IF chip.gcrc THEN "acked" ELSE "unacked")
    /\ ints' = IF chip.gcrc THEN ints \cup {"GCRCSENT"} ELSE ints
    /\ UNCHANGED <<chip, tx, todo, seen, got, steady, cable>>

HardResetArrives ==
    /\ OnLine
    /\ ints' = ints \cup {"HARDRESET"}
    /\ UNCHANGED <<chip, rx_fifo, tx, todo, seen, got, steady, cable>>

TxEnds(interrupts, fifo) ==
    /\ tx' = "none"
    /\ ints' = interrupts
    /\ rx_fifo' = fifo
    /\ UNCHANGED <<chip, todo, seen, got, steady, cable>>

\* The partner's GoodCRC is a packet of its own.
TxDone ==
    \/ /\ tx = "SOP" /\ OnLine /\ chip.txcc = {Line} /\ Len(rx_fifo) < FifoDepth
       /\ TxEnds(ints, Append(rx_fifo, "good_crc"))
    \/ tx = "SOP" /\ TxEnds(ints, rx_fifo)
    \/ tx = "HARD_RESET" /\ TxEnds(ints \cup {"HARDSENT"}, rx_fifo)

Plug ==
    /\ cable' \in Partners
    /\ steady' = FALSE
    /\ UNCHANGED <<chip, rx_fifo, tx, ints, todo, seen, got>>

Init ==
    /\ chip = [f \in DOMAIN ResetRegisters \cup DOMAIN ZeroedMemory |->
                  IF f \in DOMAIN ResetRegisters THEN ResetRegisters[f] ELSE ZeroedMemory[f]]
    /\ rx_fifo = << >> /\ tx = "none" /\ ints = {}
    /\ todo = Setup
    /\ seen = {} /\ got = <<0, 0>> /\ steady = FALSE
    /\ cable \in Partners

Next ==
    \/ Bus \/ Protocol \/ Reboot
    \/ PacketArrives \/ HardResetArrives \/ TxDone \/ Plug

Spec == Init /\ [][Next]_vars

----------------------------------------------------------------------------
(***************************************************************************)
(* Properties.                                                             *)
(***************************************************************************)

Idle == todo = << >>

ChipTypeOK ==
    /\ rx_fifo \in Seq({"acked", "unacked", "good_crc"}) /\ Len(rx_fifo) <= FifoDepth
    /\ tx \in {"none", "SOP", "HARD_RESET"}
    /\ ints \cup seen \subseteq {"HARDSENT", "HARDRESET", "GCRCSENT"}
    /\ got \in (0 .. 7) \X (0 .. 7)
    /\ steady \in BOOLEAN /\ cable \in Partners
    /\ Idle => seen = {}

\* Between two calls the registers say what the driver remembers, whatever was
\* called before and wherever a reboot cut a call short: a port that is enabled
\* acknowledges, on the pin it has chosen, for receiving and for sending, and is
\* not disturbed by CC level changes; one that is not enabled does not acknowledge.
RegistersMatchDriver ==
    Idle =>
        /\ chip.on /\ ~chip.int_mask /\ ~chip.bist2
        /\ chip.gcrc <=> chip.rx_enable = 1
        /\ chip.bc_lvl <=> chip.rx_enable = 0
        /\ chip.rx_enable = 1 =>
              chip.meas = {Pin(chip.cc_polarity)} /\ chip.txcc = {Pin(chip.cc_polarity)}

\* struct tcpm_drv: every call returns EC_SUCCESS or an error, and since none ever
\* returns an error, what was asked for is done: the receiver is on or off as was
\* said last, and the chip reports its interrupts.
SuccessMeansDone ==
    Idle => ~chip.int_mask /\ (chip.gcrc <=> chip.rx_enable = 1)

\* Between two calls exactly one kind of resistor is on, on both pins, and it is the
\* one the driver will measure with, wherever a measurement, which turns pull-ups on,
\* was cut short by a reboot.
PullsMatchDriver ==
    Idle => IF chip.pulling_up = 1 THEN chip.pu = Pins /\ chip.pd = {}
                                   ELSE chip.pu = {} /\ chip.pd = Pins

Stack == INSTANCE FUSB302
    WITH MsgIds <- 1, PD_CAPS_COUNT <- 1, PD_SNK_CAP_RETRIES <- 1,
         PDO_MAX_OBJECTS <- 1, SeenOnWire <- {}

ASSUME PartnersAssumption == Partners \subseteq Stack!Cables

\* The measurements by switches, comparator and BC_LVL give what module FUSB302
\* takes tcpm_get_cc to return, unless the cable changed meanwhile.
CcReadingRight ==
    Idle /\ steady =>
        got = Stack!tcpm_get_cc([pull |-> IF chip.pulling_up = 1 THEN "RP" ELSE "RD"], cable)

\* What of module Transceiver the registers, the FIFO and the interrupts stand for.
Pull == IF chip.pu # {} THEN "RP" ELSE IF chip.pd # {} THEN "RD" ELSE "OPEN"
ChosenLine == IF chip.txcc = {} THEN 0 ELSE CHOOSE pin \in Pins : chip.txcc = {pin}
Waiting == Cardinality({i \in DOMAIN rx_fifo : rx_fifo[i] = "acked"})
Signaled == {"HARDSENT", "HARDRESET"} \cap (ints \cup seen) # {}

Link == INSTANCE Transceiver
    WITH pull <- Pull, line <- ChosenLine, listening <- chip.gcrc, header <- chip.header,
         waiting <- Waiting, signaled <- Signaled

\* The driver implements the transceiver the protocol relies on.
ImplementsTransceiver == Link!Spec
=============================================================================
