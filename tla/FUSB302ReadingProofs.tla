------------------------- MODULE FUSB302ReadingProofs ------------------------
(***************************************************************************)
(* What fusb302_tcpm_get_cc reports, register access by register access.   *)
(* A reading takes up to nine accesses, and what the comparator says       *)
(* depends on what the accesses before it selected: the pin, the pull-up   *)
(* and the threshold.                                                      *)
(***************************************************************************)
EXTENDS FUSB302ChipProofs

----------------------------------------------------------------------------
\* How far the measurement has come; the pins measured so far have their voltage.

Select(pin) == Write([ meas |-> {pin} ])
Level(pin) == Access("bc_lvl", pin)
Deselect(m) == Write([ meas |-> m ])

PullUp(pin) == Write([ meas |-> {pin}, pu |-> Pins ])
Compare(pin) == Access("comp_vnc", pin)
CompareLow(pin) == Access("comp_rd", pin)
Restore(m) == WriteBack([ meas |-> m, pu |-> Pins ])

Voltages(pull) == Stack!tcpm_get_cc([pull |-> pull], cable)
HasRead(pins, pull) == \A pin \in pins : got[pin] = Voltages(pull)[pin]

Measured(pin) == chip["meas"] = {pin}
BelowOpen == ~COMP(chip, chip["mdac_vnc"])

SinkReading ==
    /\ chip["pulling_up"] = 0
    /\ \E m :
        \/ todo = << Select(1), Level(1), Select(2), Level(2), Deselect(m) >>
        \/ todo = << Level(1), Select(2), Level(2), Deselect(m) >> /\ Measured(1)
        \/ todo = << Select(2), Level(2), Deselect(m) >> /\ HasRead({1}, "RD")
        \/ todo = << Level(2), Deselect(m) >> /\ Measured(2) /\ HasRead({1}, "RD")
        \/ todo \in {<< Deselect(m) >>, << >>} /\ HasRead(Pins, "RD")

Calibrated ==
    /\ chip["host_cur"] = CONFIG_USB_PD_PULLUP
    /\ chip["mdac_vnc"] = VncOf(CONFIG_USB_PD_PULLUP)
    /\ chip["mdac_rd"] = RdOf(CONFIG_USB_PD_PULLUP)

SourceReading ==
    /\ chip["pulling_up"] = 1 /\ chip["pu"] = Pins /\ Calibrated
    /\ \E m :
        \/ todo = << PullUp(1), Compare(1), Restore(m), PullUp(2), Compare(2), Restore(m) >>
        \/ todo = << Compare(1), Restore(m), PullUp(2), Compare(2), Restore(m) >> /\ Measured(1)
        \/ /\ todo = << CompareLow(1), Restore(m), PullUp(2), Compare(2), Restore(m) >>
           /\ Measured(1) /\ BelowOpen
        \/ todo = << Restore(m), PullUp(2), Compare(2), Restore(m) >> /\ HasRead({1}, "RP")
        \/ todo = << PullUp(2), Compare(2), Restore(m) >> /\ HasRead({1}, "RP")
        \/ todo = << Compare(2), Restore(m) >> /\ Measured(2) /\ HasRead({1}, "RP")
        \/ /\ todo = << CompareLow(2), Restore(m) >>
           /\ Measured(2) /\ BelowOpen /\ HasRead({1}, "RP")
        \/ todo \in {<< Restore(m) >>, << >>} /\ HasRead(Pins, "RP")

ReadingInv == steady => SinkReading \/ SourceReading

LEMMA SixAccesses ==
    ASSUME NEW a, NEW b, NEW c, NEW d, NEW e, NEW f
    PROVE  <<a, b, c>> \o <<d, e, f>> = <<a, b, c, d, e, f>>
  <1> DEFINE S == {a, b, c, d, e, f}
             s == <<a, b, c>> \o <<d, e, f>>
             t == <<a, b, c, d, e, f>>
  <1>1. <<a, b, c>> \in Seq(S) /\ <<d, e, f>> \in Seq(S) /\ t \in Seq(S) OBVIOUS
  <1>2. /\ s \in Seq(S) /\ Len(s) = 3 + 3
        /\ \A i \in 1 .. 3 + 3 : s[i] = IF i <= 3 THEN <<a, b, c>>[i] ELSE <<d, e, f>>[i - 3]
    <2>1. Len(<<a, b, c>>) = 3 /\ Len(<<d, e, f>>) = 3 OBVIOUS
    <2> HIDE DEF S
    <2> QED BY <1>1, <2>1, ConcatProperties
  <1>3. Len(s) = 6 /\ Len(t) = 6 BY <1>2
  <1>4. \A i \in 1 .. 6 : s[i] = t[i] BY <1>2
  <1> HIDE DEF S, s, t
  <1>5. s = t BY <1>1, <1>2, <1>3, <1>4, SeqEqual
  <1> QED BY <1>5 DEF s, t

LEMMA FiveAccesses ==
    ASSUME NEW a, NEW b, NEW c, NEW d, NEW e
    PROVE  <<a>> \o <<b, c, d, e>> = <<a, b, c, d, e>>
  <1> DEFINE S == {a, b, c, d, e}
             s == <<a>> \o <<b, c, d, e>>
             t == <<a, b, c, d, e>>
  <1>1. <<a>> \in Seq(S) /\ <<b, c, d, e>> \in Seq(S) /\ t \in Seq(S) OBVIOUS
  <1>2. /\ s \in Seq(S) /\ Len(s) = 1 + 4
        /\ \A i \in 1 .. 1 + 4 : s[i] = IF i <= 1 THEN <<a>>[i] ELSE <<b, c, d, e>>[i - 1]
    <2>1. Len(<<a>>) = 1 /\ Len(<<b, c, d, e>>) = 4 OBVIOUS
    <2> HIDE DEF S
    <2> QED BY <1>1, <2>1, ConcatProperties
  <1>3. Len(s) = 5 /\ Len(t) = 5 BY <1>2
  <1>4. \A i \in 1 .. 5 : s[i] = t[i] BY <1>2
  <1> HIDE DEF S, s, t
  <1>5. s = t BY <1>1, <1>2, <1>3, <1>4, SeqEqual
  <1> QED BY <1>5 DEF s, t

LEMMA TwoAccesses ==
    ASSUME NEW a, NEW b
    PROVE  <<a>> \o <<b>> = <<a, b>>
  <1> DEFINE S == {a, b}
             s == <<a>> \o <<b>>
             t == <<a, b>>
  <1>1. <<a>> \in Seq(S) /\ <<b>> \in Seq(S) /\ t \in Seq(S) OBVIOUS
  <1>2. /\ s \in Seq(S) /\ Len(s) = 1 + 1
        /\ \A i \in 1 .. 1 + 1 : s[i] = IF i <= 1 THEN <<a>>[i] ELSE <<b>>[i - 1]
    <2>1. Len(<<a>>) = 1 /\ Len(<<b>>) = 1 OBVIOUS
    <2> HIDE DEF S
    <2> QED BY <1>1, <2>1, ConcatProperties
  <1>3. Len(s) = 2 /\ Len(t) = 2 BY <1>2
  <1>4. \A i \in 1 .. 2 : s[i] = t[i] BY <1>2
  <1> HIDE DEF S, s, t
  <1>5. s = t BY <1>1, <1>2, <1>3, <1>4, SeqEqual
  <1> QED BY <1>5 DEF s, t

\* The level of BC_LVL on the selected pin, converted, is its voltage.
LEMMA LevelIsVoltage ==
    ASSUME cable \in Stack!Cables, chip["pulling_up"] = 0, NEW pin \in Pins, Measured(pin)
    PROVE  fusb302_convert_bc_lvl(chip, BC_LVL(chip)) = Voltages("RD")[pin]
  <1>1. cable.flip \in {0, 1} /\ cable.kind \in Stack!PartnerKinds BY DEF Stack!Cables
  <1>2. pin \in {1, 2} BY DEF Pins
  <1>3. chip.meas = {pin} /\ Line = cable.flip + 1 BY DEF Measured, Line, Pin
  <1>4. {pin} = {Line} <=> pin = Line OBVIOUS
  <1>5. fusb302_convert_bc_lvl(chip, BC_LVL(chip)) =
           CASE BC_LVL(chip) = 1 -> 5 [] BC_LVL(chip) = 2 -> 6 [] BC_LVL(chip) = 3 -> 7 [] OTHER -> 0
    BY DEF fusb302_convert_bc_lvl
  <1>6. BC_LVL(chip) = CASE cable.kind \in {"src", "drp"} /\ pin = Line -> 1
                         [] cable.kind = "dts" -> IF pin = Line THEN 3 ELSE 2
                         [] OTHER -> 0
    BY <1>3, <1>4 DEF BC_LVL
  <1>7. Voltages("RD") = Stack!fusb302_detect_cc_pin_sink(cable) BY DEF Voltages, Stack!tcpm_get_cc
  <1>8. CASE cable.kind \in {"src", "drp"}
    <2>1. Voltages("RD")[pin] = IF pin = Line THEN 5 ELSE 0
      BY <1>1, <1>2, <1>3, <1>7, <1>8
         DEF Stack!fusb302_detect_cc_pin_sink, Stack!OnePin, Stack!TYPEC_CC_VOLT_OPEN,
             Stack!TYPEC_CC_VOLT_SNK_DEF
    <2>2. cable.kind # "dts" BY <1>8
    <2>3. pin = Line => BC_LVL(chip) = 1 BY <1>6, <1>8, <2>2
    <2>4. pin # Line => BC_LVL(chip) = 0 BY <1>6, <1>8, <2>2
    <2> QED BY <1>5, <2>1, <2>3, <2>4
  <1>9. CASE cable.kind = "dts"
    <2>1. Voltages("RD")[pin] = IF pin = Line THEN 7 ELSE 6
      BY <1>1, <1>2, <1>3, <1>7, <1>9
         DEF Stack!fusb302_detect_cc_pin_sink, Stack!TYPEC_CC_VOLT_SNK_3_0,
             Stack!TYPEC_CC_VOLT_SNK_1_5
    <2>2. BC_LVL(chip) = IF pin = Line THEN 3 ELSE 2 BY <1>6, <1>9
    <2> QED BY <1>5, <2>1, <2>2
  <1>10. CASE cable.kind \notin {"src", "drp", "dts"}
    <2>1. Voltages("RD")[pin] = 0
      BY <1>1, <1>2, <1>7, <1>10
         DEF Stack!fusb302_detect_cc_pin_sink, Stack!TYPEC_CC_VOLT_OPEN
    <2>2. BC_LVL(chip) = 0 BY <1>6, <1>10
    <2> QED BY <1>5, <2>1, <2>2
  <1> QED BY <1>8, <1>9, <1>10

\* The two comparisons tell an open pin, a pin with Rd and a pin with Ra apart.
LEMMA ComparisonIsVoltage ==
    ASSUME cable \in Stack!Cables, chip["pu"] = Pins, Calibrated, NEW pin \in Pins, Measured(pin)
    PROVE  /\ COMP(chip, chip["mdac_vnc"]) <=> Voltages("RP")[pin] = TYPEC_CC_VOLT_OPEN
           /\ BelowOpen => Voltages("RP")[pin] =
                 IF COMP(chip, chip["mdac_rd"]) THEN TYPEC_CC_VOLT_RD ELSE TYPEC_CC_VOLT_RA
  <1>1. cable.flip \in {0, 1} /\ cable.kind \in Stack!PartnerKinds BY DEF Stack!Cables
  <1>2. pin \in {1, 2} BY DEF Pins
  <1>3. chip.meas = {pin} /\ Line = cable.flip + 1 BY DEF Measured, Line, Pin
  <1> DEFINE mV == CC_mV(chip, pin)
  <1>4. \A mdac : COMP(chip, mdac) <=> mV > 42 * mdac BY <1>3 DEF COMP
  <1>5. mV = CASE cable.kind = "ts" \/ (cable.kind \in {"snk", "drp"} /\ pin = Line) -> Rd_mV(chip)
               [] cable.kind = "audio" -> Ra_mV(chip)
               [] OTHER -> 3300
    BY DEF CC_mV
  <1> HIDE DEF mV
  <1>6. /\ 3300 > 42 * chip["mdac_vnc"]
        /\ ~(Rd_mV(chip) > 42 * chip["mdac_vnc"]) /\ Rd_mV(chip) > 42 * chip["mdac_rd"]
        /\ ~(Ra_mV(chip) > 42 * chip["mdac_vnc"]) /\ ~(Ra_mV(chip) > 42 * chip["mdac_rd"])
    <2>1. 2600 \div 42 = 61 /\ 1600 \div 42 = 38 /\ 800 \div 42 = 19 /\ 400 \div 42 = 9
          /\ 200 \div 42 = 4
      OBVIOUS
    <2>2. chip.host_cur = CONFIG_USB_PD_PULLUP BY DEF Calibrated
    <2>3. CASE CONFIG_USB_PD_PULLUP = "USB"
      <3>1. chip["mdac_vnc"] = 38 /\ chip["mdac_rd"] = 4
        BY <2>1, <2>3 DEF Calibrated, VncOf, RdOf, TCPC_REG_MEASURE_MDAC_MV
      <3>2. Rd_mV(chip) = 408 /\ Ra_mV(chip) = 80 BY <2>2, <2>3 DEF Rd_mV, Ra_mV
      <3> QED BY <3>1, <3>2
    <2>4. CASE CONFIG_USB_PD_PULLUP = "1A5"
      <3>1. chip["mdac_vnc"] = 38 /\ chip["mdac_rd"] = 9
        BY <2>1, <2>4 DEF Calibrated, VncOf, RdOf, TCPC_REG_MEASURE_MDAC_MV
      <3>2. Rd_mV(chip) = 918 /\ Ra_mV(chip) = 180 BY <2>2, <2>4 DEF Rd_mV, Ra_mV
      <3> QED BY <3>1, <3>2
    <2>5. CASE CONFIG_USB_PD_PULLUP = "3A0"
      <3>1. chip["mdac_vnc"] = 61 /\ chip["mdac_rd"] = 19
        BY <2>1, <2>5 DEF Calibrated, VncOf, RdOf, TCPC_REG_MEASURE_MDAC_MV
      <3>2. Rd_mV(chip) = 1683 /\ Ra_mV(chip) = 330 BY <2>2, <2>5 DEF Rd_mV, Ra_mV
      <3> QED BY <3>1, <3>2
    <2> QED BY <2>3, <2>4, <2>5, PullupAssumption
  <1>7. Voltages("RP") = Stack!fusb302_detect_cc_pin_source_manual(cable)
    BY DEF Voltages, Stack!tcpm_get_cc
  <1>8. CASE cable.kind = "ts" \/ (cable.kind \in {"snk", "drp"} /\ pin = Line)
    <2>1. Voltages("RP")[pin] = 2
      BY <1>1, <1>2, <1>3, <1>7, <1>8
         DEF Stack!fusb302_detect_cc_pin_source_manual, Stack!OnePin, Stack!TYPEC_CC_VOLT_RD
    <2>2. mV = Rd_mV(chip) BY <1>5, <1>8
    <2> QED BY <1>4, <1>6, <2>1, <2>2 DEF TYPEC_CC_VOLT_OPEN, TYPEC_CC_VOLT_RD
  <1>9. CASE cable.kind = "audio"
    <2>1. Voltages("RP")[pin] = 1
      BY <1>2, <1>7, <1>9 DEF Stack!fusb302_detect_cc_pin_source_manual, Stack!TYPEC_CC_VOLT_RA
    <2>2. mV = Ra_mV(chip) BY <1>5, <1>9
    <2> QED BY <1>4, <1>6, <2>1, <2>2 DEF TYPEC_CC_VOLT_OPEN, TYPEC_CC_VOLT_RA
  <1>10. CASE cable.kind \notin {"ts", "audio"} /\ ~(cable.kind \in {"snk", "drp"} /\ pin = Line)
    <2>1. Voltages("RP")[pin] = 0
      <3>1. CASE cable.kind \in {"snk", "drp"}
        BY <1>1, <1>2, <1>3, <1>7, <1>10, <3>1
           DEF Stack!fusb302_detect_cc_pin_source_manual, Stack!OnePin, Stack!TYPEC_CC_VOLT_OPEN
      <3>2. CASE cable.kind \notin {"snk", "drp"}
        BY <1>2, <1>7, <1>10, <3>2
           DEF Stack!fusb302_detect_cc_pin_source_manual, Stack!TYPEC_CC_VOLT_OPEN
      <3> QED BY <3>1, <3>2
    <2>2. mV = 3300 BY <1>5, <1>10
    <2> QED BY <1>4, <1>6, <2>1, <2>2 DEF TYPEC_CC_VOLT_OPEN, BelowOpen
  <1> QED BY <1>8, <1>9, <1>10

\* The accesses a measurement makes.
LEMMA WriteReads ==
    ASSUME ReadsFail = FALSE, Bus, todo # << >>, Head(todo).do \in {"write", "write_back"}
    PROVE  /\ todo' = Tail(todo) /\ chip' = Assign(Head(todo).arg, chip)
           /\ got' = got /\ steady' = steady /\ cable' = cable
  <1>1. \A fields : tcpc_read(fields) = {chip} BY DEF tcpc_read
  <1>2. DoWrite \/ DoWriteBack
    BY DEF Bus, DoWrite, DoWriteBack, DoSwReset, DoPdReset, DoFlushRx, DoFlushTx, DoSend,
           DoComp, DoCompRd, DoBcLvl, DoRead, DoHandle, DoTake, Do
  <1> QED BY <1>1, <1>2 DEF DoWrite, DoWriteBack, Continue

LEMMA LevelReads ==
    ASSUME ReadsFail = FALSE, Bus, todo # << >>, Head(todo).do = "bc_lvl"
    PROVE  /\ todo' = Tail(todo) /\ chip' = chip /\ steady' = steady /\ cable' = cable
           /\ got' = [got EXCEPT ![Head(todo).arg] = fusb302_convert_bc_lvl(chip, BC_LVL(chip))]
  <1>1. DoBcLvl
    BY DEF Bus, DoWrite, DoWriteBack, DoSwReset, DoPdReset, DoFlushRx, DoFlushTx, DoSend,
           DoComp, DoCompRd, DoBcLvl, DoRead, DoHandle, DoTake, Do
  <1>2. Lost = {FALSE} BY DEF Lost
  <1> QED BY <1>1, <1>2 DEF DoBcLvl, Continue

LEMMA CompareReads ==
    ASSUME ReadsFail = FALSE, Bus, todo # << >>, Head(todo).do = "comp_vnc"
    PROVE  /\ chip' = chip /\ steady' = steady /\ cable' = cable
           /\ \/ /\ ~BelowOpen
                 /\ todo' = Tail(todo)
                 /\ got' = [got EXCEPT ![Head(todo).arg] = TYPEC_CC_VOLT_OPEN]
              \/ /\ BelowOpen
                 /\ todo' = << CompareLow(Head(todo).arg) >> \o Tail(todo)
                 /\ got' = got
  <1>1. DoComp
    BY DEF Bus, DoWrite, DoWriteBack, DoSwReset, DoPdReset, DoFlushRx, DoFlushTx, DoSend,
           DoComp, DoCompRd, DoBcLvl, DoRead, DoHandle, DoTake, Do
  <1>2. Lost = {FALSE} BY DEF Lost
  <1>3. COMP(chip, chip.mdac_vnc) = TRUE \/ COMP(chip, chip.mdac_vnc) = FALSE BY DEF COMP
  <1>4. CASE COMP(chip, chip.mdac_vnc) BY <1>1, <1>2, <1>4 DEF DoComp, Continue, BelowOpen
  <1>5. CASE ~COMP(chip, chip.mdac_vnc)
    BY <1>1, <1>2, <1>5 DEF DoComp, Continue, BelowOpen, CompareLow
  <1> QED BY <1>4, <1>5

LEMMA CompareLowReads ==
    ASSUME ReadsFail = FALSE, Bus, todo # << >>, Head(todo).do = "comp_rd"
    PROVE  /\ todo' = Tail(todo) /\ chip' = chip /\ steady' = steady /\ cable' = cable
           /\ got' = [got EXCEPT ![Head(todo).arg] =
                  IF COMP(chip, chip["mdac_rd"]) THEN TYPEC_CC_VOLT_RD ELSE TYPEC_CC_VOLT_RA]
  <1>1. DoCompRd
    BY DEF Bus, DoWrite, DoWriteBack, DoSwReset, DoPdReset, DoFlushRx, DoFlushTx, DoSend,
           DoComp, DoCompRd, DoBcLvl, DoRead, DoHandle, DoTake, Do
  <1>2. Lost = {FALSE} BY DEF Lost
  <1> QED BY <1>1, <1>2 DEF DoCompRd, Continue

\* A voltage determined joins those determined before.
LEMMA ReadOne ==
    ASSUME NEW pin \in Pins, NEW pins, NEW pull, NEW v, got \in (0 .. 7) \X (0 .. 7),
           got' = [got EXCEPT ![pin] = v], v = Voltages(pull)[pin], HasRead(pins, pull),
           pins \subseteq Pins, cable' = cable
    PROVE  HasRead(pins \cup {pin}, pull)'
  <1>1. Voltages(pull)' = Voltages(pull) BY DEF Voltages, Stack!tcpm_get_cc,
        Stack!fusb302_detect_cc_pin_source_manual, Stack!fusb302_detect_cc_pin_sink, Stack!OnePin
  <1>2. DOMAIN got = Pins BY DEF Pins
  <1>3. \A q \in Pins : got'[q] = IF q = pin THEN v ELSE got[q] BY <1>2
  <1> QED BY <1>1, <1>3 DEF HasRead

LEMMA ReadFirst ==
    ASSUME NEW pin \in Pins, NEW pull, got \in (0 .. 7) \X (0 .. 7),
           got' = [got EXCEPT ![pin] = Voltages(pull)[pin]], cable' = cable
    PROVE  HasRead({pin}, pull)'
  <1>1. Voltages(pull)' = Voltages(pull) BY DEF Voltages, Stack!tcpm_get_cc,
        Stack!fusb302_detect_cc_pin_source_manual, Stack!fusb302_detect_cc_pin_sink, Stack!OnePin
  <1>2. got'[pin] = Voltages(pull)[pin] BY DEF Pins
  <1> QED BY <1>1, <1>2 DEF HasRead

LEMMA ReadSame ==
    ASSUME NEW pins, NEW pull, HasRead(pins, pull), got' = got, cable' = cable
    PROVE  HasRead(pins, pull)'
  <1>1. Voltages(pull)' = Voltages(pull) BY DEF Voltages, Stack!tcpm_get_cc,
        Stack!fusb302_detect_cc_pin_source_manual, Stack!fusb302_detect_cc_pin_sink, Stack!OnePin
  <1> QED BY <1>1 DEF HasRead

LEMMA SinkRead ==
    ASSUME ReadsFail = FALSE, DOMAIN chip = ChipFields, cable \in Stack!Cables,
           got \in (0 .. 7) \X (0 .. 7), SinkReading, Bus
    PROVE  SinkReading'
  <1>1. chip["pulling_up"] = 0 /\ "meas" \in ChipFields /\ "pulling_up" \in ChipFields
    BY DEF SinkReading, ChipFields, ResetRegisters, ZeroedMemory
  <1>2. todo # << >>
    BY DEF Bus, DoWrite, DoWriteBack, DoSwReset, DoPdReset, DoFlushRx, DoFlushTx, DoSend,
           DoComp, DoCompRd, DoBcLvl, DoRead, DoHandle, DoTake, Do
  <1>3. ASSUME NEW m, Head(todo) = Deselect(m)
        PROVE  /\ todo' = Tail(todo) /\ chip'["pulling_up"] = 0 /\ chip'["meas"] = m
               /\ got' = got /\ cable' = cable
    <2>1. Head(todo).do = "write" /\ Head(todo).arg = [meas |-> m]
      BY <1>3 DEF Deselect, Write, Access
    <2>2. /\ todo' = Tail(todo) /\ chip' = Assign([meas |-> m], chip)
          /\ got' = got /\ cable' = cable
      BY <1>2, <2>1, WriteReads
    <2> QED BY <1>1, <2>2 DEF Assign
  <1>4. ASSUME NEW pin \in Pins, Head(todo) = Select(pin)
        PROVE  /\ todo' = Tail(todo) /\ chip'["pulling_up"] = 0 /\ Measured(pin)'
               /\ got' = got /\ cable' = cable
    <2>1. Select(pin) = Deselect({pin}) BY DEF Select, Deselect
    <2> QED BY <1>3, <1>4, <2>1 DEF Measured
  <1>5. ASSUME NEW pin \in Pins, Head(todo) = Level(pin), Measured(pin)
        PROVE  /\ todo' = Tail(todo) /\ chip'["pulling_up"] = 0 /\ cable' = cable
               /\ got' = [got EXCEPT ![pin] = Voltages("RD")[pin]]
    <2>1. Head(todo).do = "bc_lvl" /\ Head(todo).arg = pin BY <1>5 DEF Level, Access
    <2>2. /\ todo' = Tail(todo) /\ chip' = chip /\ cable' = cable
          /\ got' = [got EXCEPT ![pin] = fusb302_convert_bc_lvl(chip, BC_LVL(chip))]
      BY <1>2, <2>1, LevelReads
    <2> QED BY <1>1, <1>5, <2>2, LevelIsVoltage
  <1>6. 1 \in Pins /\ 2 \in Pins /\ {1} \subseteq Pins /\ {1} \cup {2} = Pins BY DEF Pins
  <1>7. PICK m :
        \/ todo = << Select(1), Level(1), Select(2), Level(2), Deselect(m) >>
        \/ todo = << Level(1), Select(2), Level(2), Deselect(m) >> /\ Measured(1)
        \/ todo = << Select(2), Level(2), Deselect(m) >> /\ HasRead({1}, "RD")
        \/ todo = << Level(2), Deselect(m) >> /\ Measured(2) /\ HasRead({1}, "RD")
        \/ todo \in {<< Deselect(m) >>, << >>} /\ HasRead(Pins, "RD")
    BY DEF SinkReading
  <1>8. CASE todo = << Select(1), Level(1), Select(2), Level(2), Deselect(m) >>
    <2>1. Head(todo) = Select(1) /\ Tail(todo) = << Level(1), Select(2), Level(2), Deselect(m) >>
      BY <1>8
    <2> QED BY <1>4, <1>6, <2>1 DEF SinkReading
  <1>9. CASE todo = << Level(1), Select(2), Level(2), Deselect(m) >> /\ Measured(1)
    <2>1. Head(todo) = Level(1) /\ Tail(todo) = << Select(2), Level(2), Deselect(m) >>
      BY <1>9
    <2>2. HasRead({1}, "RD")' BY <1>5, <1>6, <1>9, <2>1, ReadFirst
    <2> QED BY <1>5, <1>6, <1>9, <2>1, <2>2 DEF SinkReading
  <1>10. CASE todo = << Select(2), Level(2), Deselect(m) >> /\ HasRead({1}, "RD")
    <2>1. Head(todo) = Select(2) /\ Tail(todo) = << Level(2), Deselect(m) >> BY <1>10
    <2>2. cable' = cable /\ got' = got /\ Measured(2)' BY <1>4, <1>6, <2>1
    <2>3. HasRead({1}, "RD")' BY <1>10, <2>2, ReadSame
    <2> QED BY <1>4, <1>6, <2>1, <2>3 DEF SinkReading
  <1>11. CASE todo = << Level(2), Deselect(m) >> /\ Measured(2) /\ HasRead({1}, "RD")
    <2>1. Head(todo) = Level(2) /\ Tail(todo) = << Deselect(m) >> BY <1>11
    <2>2. HasRead({1} \cup {2}, "RD")' BY <1>5, <1>6, <1>11, <2>1, ReadOne
    <2> QED BY <1>5, <1>6, <1>11, <2>1, <2>2 DEF SinkReading
  <1>12. CASE todo \in {<< Deselect(m) >>, << >>} /\ HasRead(Pins, "RD")
    <2>1. todo = << Deselect(m) >> BY <1>2, <1>12
    <2>2. Head(todo) = Deselect(m) /\ Tail(todo) = << >> BY <2>1
    <2>3. HasRead(Pins, "RD")' BY <1>3, <1>12, <2>2, ReadSame
    <2> QED BY <1>3, <2>2, <2>3 DEF SinkReading
  <1> QED BY <1>7, <1>8, <1>9, <1>10, <1>11, <1>12

LEMMA SourceRead ==
    ASSUME ReadsFail = FALSE, DOMAIN chip = ChipFields, cable \in Stack!Cables,
           got \in (0 .. 7) \X (0 .. 7), SourceReading, Bus
    PROVE  SourceReading'
  <1> DEFINE Kept == chip["pulling_up"] = 1 /\ chip["pu"] = Pins /\ Calibrated
  <1>1. Kept BY DEF SourceReading
  <1>2. todo # << >>
    BY DEF Bus, DoWrite, DoWriteBack, DoSwReset, DoPdReset, DoFlushRx, DoFlushTx, DoSend,
           DoComp, DoCompRd, DoBcLvl, DoRead, DoHandle, DoTake, Do
  <1>a. {"pulling_up", "pu", "meas", "host_cur", "mdac_vnc", "mdac_rd"} \subseteq ChipFields
    BY DEF ChipFields, ResetRegisters, ZeroedMemory
  <1>3. ASSUME NEW m, Head(todo).do \in {"write", "write_back"},
               Head(todo).arg = [meas |-> m, pu |-> Pins]
        PROVE  todo' = Tail(todo) /\ Kept' /\ chip'["meas"] = m /\ got' = got /\ cable' = cable
    <2>1. /\ todo' = Tail(todo) /\ chip' = Assign([meas |-> m, pu |-> Pins], chip)
          /\ got' = got /\ cable' = cable
      BY <1>2, <1>3, WriteReads
    <2>2. \A f \in ChipFields : chip'[f] = IF f = "meas" THEN m ELSE IF f = "pu" THEN Pins ELSE chip[f]
      BY <2>1 DEF Assign
    <2>3. chip'["pulling_up"] = 1 /\ chip'["pu"] = Pins /\ chip'["meas"] = m
      BY <1>1, <1>a, <2>2
    <2>4. \A f \in {"host_cur", "mdac_vnc", "mdac_rd"} : chip'[f] = chip[f] BY <1>a, <2>2
    <2>5. Calibrated' BY <1>1, <2>4 DEF Calibrated
    <2> QED BY <2>1, <2>3, <2>5
  <1>4. ASSUME NEW pin \in Pins, Head(todo) = PullUp(pin)
        PROVE  todo' = Tail(todo) /\ Kept' /\ Measured(pin)' /\ got' = got /\ cable' = cable
    <2>1. Head(todo).do = "write" /\ Head(todo).arg = [meas |-> {pin}, pu |-> Pins]
      BY <1>4 DEF PullUp, Write, Access
    <2> QED BY <1>3, <2>1 DEF Measured
  <1>5. ASSUME NEW m, Head(todo) = Restore(m)
        PROVE  todo' = Tail(todo) /\ Kept' /\ got' = got /\ cable' = cable
    <2>1. Head(todo).do = "write_back" /\ Head(todo).arg = [meas |-> m, pu |-> Pins]
      BY <1>5 DEF Restore, WriteBack, Access
    <2> QED BY <1>3, <2>1
  <1>6. ASSUME NEW pin \in Pins, Head(todo) = Compare(pin), Measured(pin)
        PROVE  /\ Kept' /\ cable' = cable
               /\ \/ todo' = Tail(todo) /\ got' = [got EXCEPT ![pin] = Voltages("RP")[pin]]
                  \/ /\ todo' = << CompareLow(pin) >> \o Tail(todo)
                     /\ Measured(pin)' /\ BelowOpen' /\ got' = got
    <2>1. Head(todo).do = "comp_vnc" /\ Head(todo).arg = pin BY <1>6 DEF Compare, Access
    <2>2. /\ chip' = chip /\ cable' = cable
          /\ \/ ~BelowOpen /\ todo' = Tail(todo) /\ got' = [got EXCEPT ![pin] = TYPEC_CC_VOLT_OPEN]
             \/ BelowOpen /\ todo' = << CompareLow(pin) >> \o Tail(todo) /\ got' = got
      BY <1>2, <2>1, CompareReads
    <2>3. Kept' /\ Measured(pin)' /\ (BelowOpen => BelowOpen')
      BY <1>1, <1>6, <2>2 DEF Calibrated, Measured, BelowOpen, COMP, CC_mV, Line
    <2>4. ~BelowOpen => Voltages("RP")[pin] = TYPEC_CC_VOLT_OPEN
      BY <1>1, <1>6, ComparisonIsVoltage DEF BelowOpen
    <2> QED BY <2>2, <2>3, <2>4
  <1>7. ASSUME NEW pin \in Pins, Head(todo) = CompareLow(pin), Measured(pin), BelowOpen
        PROVE  /\ todo' = Tail(todo) /\ Kept' /\ cable' = cable
               /\ got' = [got EXCEPT ![pin] = Voltages("RP")[pin]]
    <2>1. Head(todo).do = "comp_rd" /\ Head(todo).arg = pin BY <1>7 DEF CompareLow, Access
    <2>2. /\ todo' = Tail(todo) /\ chip' = chip /\ cable' = cable
          /\ got' = [got EXCEPT ![pin] =
                 IF COMP(chip, chip["mdac_rd"]) THEN TYPEC_CC_VOLT_RD ELSE TYPEC_CC_VOLT_RA]
      BY <1>2, <2>1, CompareLowReads
    <2>3. Kept' BY <1>1, <2>2 DEF Calibrated
    <2> QED BY <1>1, <1>7, <2>2, <2>3, ComparisonIsVoltage
  <1> HIDE DEF Kept
  <1>8. 1 \in Pins /\ 2 \in Pins /\ {1} \subseteq Pins /\ {1} \cup {2} = Pins BY DEF Pins
  <1>9. ASSUME Kept', NEW m,
            \/ todo' = << Compare(1), Restore(m), PullUp(2), Compare(2), Restore(m) >> /\ Measured(1)'
            \/ /\ todo' = << CompareLow(1), Restore(m), PullUp(2), Compare(2), Restore(m) >>
               /\ Measured(1)' /\ BelowOpen'
            \/ todo' = << Restore(m), PullUp(2), Compare(2), Restore(m) >> /\ HasRead({1}, "RP")'
            \/ todo' = << PullUp(2), Compare(2), Restore(m) >> /\ HasRead({1}, "RP")'
            \/ todo' = << Compare(2), Restore(m) >> /\ Measured(2)' /\ HasRead({1}, "RP")'
            \/ /\ todo' = << CompareLow(2), Restore(m) >>
               /\ Measured(2)' /\ BelowOpen' /\ HasRead({1}, "RP")'
            \/ todo' \in {<< Restore(m) >>, << >>} /\ HasRead(Pins, "RP")'
        PROVE  SourceReading'
    BY <1>9 DEF SourceReading, Kept
  <1>10. PICK m :
        \/ todo = << PullUp(1), Compare(1), Restore(m), PullUp(2), Compare(2), Restore(m) >>
        \/ todo = << Compare(1), Restore(m), PullUp(2), Compare(2), Restore(m) >> /\ Measured(1)
        \/ /\ todo = << CompareLow(1), Restore(m), PullUp(2), Compare(2), Restore(m) >>
           /\ Measured(1) /\ BelowOpen
        \/ todo = << Restore(m), PullUp(2), Compare(2), Restore(m) >> /\ HasRead({1}, "RP")
        \/ todo = << PullUp(2), Compare(2), Restore(m) >> /\ HasRead({1}, "RP")
        \/ todo = << Compare(2), Restore(m) >> /\ Measured(2) /\ HasRead({1}, "RP")
        \/ /\ todo = << CompareLow(2), Restore(m) >>
           /\ Measured(2) /\ BelowOpen /\ HasRead({1}, "RP")
        \/ todo \in {<< Restore(m) >>, << >>} /\ HasRead(Pins, "RP")
    BY DEF SourceReading
  <1>12. CASE todo = << PullUp(1), Compare(1), Restore(m), PullUp(2), Compare(2), Restore(m) >>
    <2>1. /\ Head(todo) = PullUp(1)
          /\ Tail(todo) = << Compare(1), Restore(m), PullUp(2), Compare(2), Restore(m) >>
      BY <1>12
    <2> QED BY <1>4, <1>8, <1>9, <2>1
  <1>13. CASE todo = << Compare(1), Restore(m), PullUp(2), Compare(2), Restore(m) >> /\ Measured(1)
    <2>1. /\ Head(todo) = Compare(1)
          /\ Tail(todo) = << Restore(m), PullUp(2), Compare(2), Restore(m) >>
      BY <1>13
    <2>2. << CompareLow(1) >> \o Tail(todo) =
             << CompareLow(1), Restore(m), PullUp(2), Compare(2), Restore(m) >>
      BY <2>1, FiveAccesses
    <2>3. Kept' /\ cable' = cable BY <1>6, <1>8, <1>13, <2>1
    <2>4. CASE todo' = Tail(todo) /\ got' = [got EXCEPT ![1] = Voltages("RP")[1]]
      <3>1. HasRead({1}, "RP")' BY <1>8, <2>3, <2>4, ReadFirst
      <3> QED BY <1>9, <2>1, <2>3, <2>4, <3>1
    <2>5. CASE /\ todo' = << CompareLow(1) >> \o Tail(todo)
               /\ Measured(1)' /\ BelowOpen' /\ got' = got
      BY <1>9, <2>2, <2>3, <2>5
    <2> QED BY <1>6, <1>8, <1>13, <2>1, <2>4, <2>5
  <1>14. CASE /\ todo = << CompareLow(1), Restore(m), PullUp(2), Compare(2), Restore(m) >>
              /\ Measured(1) /\ BelowOpen
    <2>1. /\ Head(todo) = CompareLow(1)
          /\ Tail(todo) = << Restore(m), PullUp(2), Compare(2), Restore(m) >>
      BY <1>14
    <2>2. /\ todo' = Tail(todo) /\ Kept' /\ cable' = cable
          /\ got' = [got EXCEPT ![1] = Voltages("RP")[1]]
      BY <1>7, <1>8, <1>14, <2>1
    <2>3. HasRead({1}, "RP")' BY <1>8, <2>2, ReadFirst
    <2> QED BY <1>9, <2>1, <2>2, <2>3
  <1>15. CASE todo = << Restore(m), PullUp(2), Compare(2), Restore(m) >> /\ HasRead({1}, "RP")
    <2>1. Head(todo) = Restore(m) /\ Tail(todo) = << PullUp(2), Compare(2), Restore(m) >>
      BY <1>15
    <2>2. todo' = Tail(todo) /\ Kept' /\ got' = got /\ cable' = cable BY <1>5, <2>1
    <2>3. HasRead({1}, "RP")' BY <1>15, <2>2, ReadSame
    <2> QED BY <1>9, <2>1, <2>2, <2>3
  <1>16. CASE todo = << PullUp(2), Compare(2), Restore(m) >> /\ HasRead({1}, "RP")
    <2>1. Head(todo) = PullUp(2) /\ Tail(todo) = << Compare(2), Restore(m) >> BY <1>16
    <2>2. todo' = Tail(todo) /\ Kept' /\ Measured(2)' /\ got' = got /\ cable' = cable
      BY <1>4, <1>8, <2>1
    <2>3. HasRead({1}, "RP")' BY <1>16, <2>2, ReadSame
    <2> QED BY <1>9, <2>1, <2>2, <2>3
  <1>17. CASE todo = << Compare(2), Restore(m) >> /\ Measured(2) /\ HasRead({1}, "RP")
    <2>1. Head(todo) = Compare(2) /\ Tail(todo) = << Restore(m) >> BY <1>17
    <2>2. << CompareLow(2) >> \o Tail(todo) = << CompareLow(2), Restore(m) >>
      BY <2>1, TwoAccesses
    <2>3. Kept' /\ cable' = cable BY <1>6, <1>8, <1>17, <2>1
    <2>4. CASE todo' = Tail(todo) /\ got' = [got EXCEPT ![2] = Voltages("RP")[2]]
      <3>1. HasRead({1} \cup {2}, "RP")' BY <1>8, <1>17, <2>3, <2>4, ReadOne
      <3> QED BY <1>8, <1>9, <2>1, <2>3, <2>4, <3>1
    <2>5. CASE /\ todo' = << CompareLow(2) >> \o Tail(todo)
               /\ Measured(2)' /\ BelowOpen' /\ got' = got
      <3>1. HasRead({1}, "RP")' BY <1>17, <2>3, <2>5, ReadSame
      <3> QED BY <1>9, <2>2, <2>3, <2>5, <3>1
    <2> QED BY <1>6, <1>8, <1>17, <2>1, <2>4, <2>5
  <1>18. CASE /\ todo = << CompareLow(2), Restore(m) >>
              /\ Measured(2) /\ BelowOpen /\ HasRead({1}, "RP")
    <2>1. Head(todo) = CompareLow(2) /\ Tail(todo) = << Restore(m) >> BY <1>18
    <2>2. /\ todo' = Tail(todo) /\ Kept' /\ cable' = cable
          /\ got' = [got EXCEPT ![2] = Voltages("RP")[2]]
      BY <1>7, <1>8, <1>18, <2>1
    <2>3. HasRead({1} \cup {2}, "RP")' BY <1>8, <1>18, <2>2, ReadOne
    <2> QED BY <1>8, <1>9, <2>1, <2>2, <2>3
  <1>19. CASE todo \in {<< Restore(m) >>, << >>} /\ HasRead(Pins, "RP")
    <2>1. todo = << Restore(m) >> BY <1>2, <1>19
    <2>2. Head(todo) = Restore(m) /\ Tail(todo) = << >> BY <2>1
    <2>3. todo' = Tail(todo) /\ Kept' /\ got' = got /\ cable' = cable BY <1>5, <2>2
    <2>4. HasRead(Pins, "RP")' BY <1>19, <2>3, ReadSame
    <2> QED BY <1>9, <2>2, <2>3, <2>4
  <1> QED BY <1>10, <1>12, <1>13, <1>14, <1>15, <1>16, <1>17, <1>18, <1>19

LEMMA ReadingStarts ==
    ASSUME ChipInv, GetCc
    PROVE  (SinkReading \/ SourceReading)'
  <1>1. todo = << >> /\ todo' = fusb302_tcpm_get_cc(chip) /\ chip' = chip BY DEF GetCc, Call
  <1>2. ASSUME NEW f, NEW v, Will(f, v) PROVE chip[f] = v
    BY <1>1, <1>2, EmptySettles DEF Will
  <1>3. CASE chip["pulling_up"] = 1
    <2>1. Will("pu", Pins)
      <3>1. Will("pulling_up", 0) => chip["pulling_up"] = 0 BY <1>2
      <3> QED BY <1>3, <3>1 DEF ChipInv, RegisterInv, PullsSettle
    <2>2. chip["pu"] = Pins BY <1>2, <2>1
    <2>3. Calibrated BY <1>2 DEF ChipInv, RegisterInv, RpSettles, Calibrated
    <2>4. Calibrated' BY <1>1, <2>3 DEF Calibrated
    <2>5. \A pin \in Pins : fusb302_measure_cc_pin_source(chip, pin) =
                               << PullUp(pin), Compare(pin), Restore(chip.meas) >>
      <3> TAKE pin \in Pins
      <3>1. chip.pu \cup {pin} = Pins /\ chip.pu = Pins BY <2>2
      <3> QED BY <3>1 DEF fusb302_measure_cc_pin_source, PullUp, Compare, Restore
    <2>6. fusb302_tcpm_get_cc(chip) =
            << PullUp(1), Compare(1), Restore(chip.meas) >>
                \o << PullUp(2), Compare(2), Restore(chip.meas) >>
      BY <1>3, <2>5 DEF fusb302_tcpm_get_cc, Pins
    <2>7. todo' = << PullUp(1), Compare(1), Restore(chip.meas),
                     PullUp(2), Compare(2), Restore(chip.meas) >>
      BY <1>1, <2>6, SixAccesses
    <2> QED BY <1>1, <1>3, <2>2, <2>4, <2>7 DEF SourceReading
  <1>4. CASE chip["pulling_up"] # 1
    <2>1. Will("pulling_up", 0)
      <3>1. Will("pulling_up", 1) => chip["pulling_up"] = 1 BY <1>2
      <3> QED BY <1>4, <3>1 DEF ChipInv, RegisterInv, PullsSettle
    <2>2. chip["pulling_up"] = 0 BY <1>2, <2>1
    <2>3. todo' = << Select(1), Level(1), Select(2), Level(2), Deselect(chip.meas) >>
      BY <1>1, <2>2
         DEF fusb302_tcpm_get_cc, fusb302_detect_cc_pin_sink, Select, Level, Deselect
    <2> QED BY <1>1, <2>2, <2>3 DEF SinkReading
  <1> QED BY <1>3, <1>4

LEMMA ReadingContinues ==
    ASSUME SinkReading \/ SourceReading, UNCHANGED <<chip, todo, got, cable>>
    PROVE  (SinkReading \/ SourceReading)'
  <1>1. \A pins, pull : HasRead(pins, pull)' <=> HasRead(pins, pull)
    BY DEF HasRead, Voltages, Stack!tcpm_get_cc,
           Stack!fusb302_detect_cc_pin_source_manual, Stack!fusb302_detect_cc_pin_sink, Stack!OnePin
  <1>2. BelowOpen' <=> BelowOpen BY DEF BelowOpen, COMP, CC_mV, Line
  <1>3. \A pin : Measured(pin)' <=> Measured(pin) BY DEF Measured
  <1>4. Calibrated' <=> Calibrated BY DEF Calibrated
  <1>5. CASE SinkReading BY <1>1, <1>3, <1>5 DEF SinkReading
  <1>6. CASE SourceReading BY <1>1, <1>2, <1>3, <1>4, <1>6 DEF SourceReading
  <1> QED BY <1>5, <1>6

\* A reading of the CC pins that the cable did not disturb gives what the layer above
\* takes tcpm_get_cc to return, for every Rp value, partner and orientation
\* (FUSB302.cpp, fusb302_tcpm_get_cc).
THEOREM ReadingRight ==
    ASSUME ReadsFail = FALSE
    PROVE  Spec => []CcReadingRight
  <1>1. Init => ReadingInv BY DEF Init, ReadingInv
  <1>2. ChipInv /\ ReadingInv /\ [Next]_vars => ReadingInv'
    <2> SUFFICES ASSUME ChipInv, ReadingInv, [Next]_vars, steady'
                 PROVE  (SinkReading \/ SourceReading)'
      BY DEF ReadingInv
    <2>1. /\ DOMAIN chip = ChipFields /\ cable \in Stack!Cables
          /\ got \in (0 .. 7) \X (0 .. 7) /\ steady \in BOOLEAN
      BY PartnersAssumption DEF ChipInv, RegisterInv, TypeInv
    <2>2. CASE Bus
      <3>1. steady' = steady
        BY <2>2 DEF Bus, DoWrite, DoWriteBack, DoSwReset, DoPdReset, DoFlushRx, DoFlushTx, DoSend,
               DoComp, DoCompRd, DoBcLvl, DoRead, DoHandle, DoTake
      <3> QED BY <2>1, <2>2, <3>1, SinkRead, SourceRead DEF ReadingInv
    <2>3. CASE Protocol BY <2>3, ReadingStarts DEF Protocol
    <2>4. CASE Reboot \/ Plug BY <2>4 DEF Reboot, Plug
    <2>5. CASE PacketArrives \/ HardResetArrives \/ TxDone \/ UNCHANGED vars
      <3>1. UNCHANGED <<chip, todo, got, cable>> /\ steady' = steady
        BY <2>5 DEF PacketArrives, HardResetArrives, TxDone, TxEnds, vars
      <3> QED BY <3>1, ReadingContinues DEF ReadingInv
    <2> QED BY <2>2, <2>3, <2>4, <2>5 DEF Next
  <1>3. ChipInv /\ ReadingInv => CcReadingRight
    <2> SUFFICES ASSUME ChipInv, ReadingInv, todo = << >>, steady
                 PROVE  got = Stack!tcpm_get_cc(
                          [pull |-> IF chip.pulling_up = 1 THEN "RP" ELSE "RD"], cable)
      BY DEF CcReadingRight, Idle
    <2>1. got \in (0 .. 7) \X (0 .. 7) /\ cable \in Stack!Cables
      BY PartnersAssumption DEF ChipInv, TypeInv
    <2>2. ASSUME NEW pull, HasRead(Pins, pull) PROVE got = Voltages(pull)
      <3>1. got[1] = Voltages(pull)[1] /\ got[2] = Voltages(pull)[2]
        BY <2>2 DEF HasRead, Pins
      <3>2. Voltages(pull) = << Voltages(pull)[1], Voltages(pull)[2] >>
        BY DEF Voltages, Stack!tcpm_get_cc, Stack!fusb302_detect_cc_pin_source_manual,
               Stack!fusb302_detect_cc_pin_sink, Stack!OnePin, Stack!TYPEC_CC_VOLT_OPEN
      <3>3. got = << got[1], got[2] >> BY <2>1
      <3> QED BY <3>1, <3>2, <3>3
    <2>3. CASE SinkReading
      <3>1. chip.pulling_up = 0 /\ HasRead(Pins, "RD") BY <2>3 DEF SinkReading
      <3> QED BY <2>2, <3>1 DEF Voltages
    <2>4. CASE SourceReading
      <3>1. chip.pulling_up = 1 /\ HasRead(Pins, "RP") BY <2>4 DEF SourceReading
      <3> QED BY <2>2, <3>1 DEF Voltages
    <2> QED BY <2>3, <2>4 DEF ReadingInv
  <1> QED BY <1>1, <1>2, <1>3, ChipInvariant, PTL DEF Spec
=============================================================================
