------------------------------ MODULE FUSB302 ------------------------------
(***************************************************************************)
(* The FUSB302 driver as the protocol layer sees it: pull resistors, CC    *)
(* readings, receiver enable, transmit, and the hard-reset side effects.   *)
(* Register access over I2C is taken to succeed.                           *)
(***************************************************************************)
EXTENDS PDTypes

TYPEC_CC_VOLT_OPEN == 0
TYPEC_CC_VOLT_RA == 1
TYPEC_CC_VOLT_RD == 2
TYPEC_CC_VOLT_SNK_DEF == 5
TYPEC_CC_VOLT_SNK_1_5 == 6
TYPEC_CC_VOLT_SNK_3_0 == 7

(***************************************************************************)
(* What may be at the other end of the cable: nothing, a source (Rp on one *)
(* CC pin), a sink (Rd on one pin), a debug source (unequal Rp on both), a *)
(* debug sink (Rd on both), an audio accessory (Ra on both), or a dual     *)
(* role port, which shows the counterpart of our own resistor and follows  *)
(* us through a power swap.                                                *)
(***************************************************************************)
PartnerKinds == {"none", "src", "snk", "dts", "ts", "audio", "drp"}
PowerKinds == {"src", "dts", "drp"}
LoadKinds == {"snk", "ts", "drp"}
Cables == [kind : PartnerKinds, flip : {0, 1}]

OnePin(cable, v) == IF cable.flip = 0 THEN <<v, TYPEC_CC_VOLT_OPEN>>
                                      ELSE <<TYPEC_CC_VOLT_OPEN, v>>

\* fusb302_detect_cc_pin_source_manual: our Rp against the partner's pins.
fusb302_detect_cc_pin_source_manual(cable) ==
    CASE cable.kind \in {"snk", "drp"} -> OnePin(cable, TYPEC_CC_VOLT_RD)
      [] cable.kind = "ts" -> <<TYPEC_CC_VOLT_RD, TYPEC_CC_VOLT_RD>>
      [] cable.kind = "audio" -> <<TYPEC_CC_VOLT_RA, TYPEC_CC_VOLT_RA>>
      [] OTHER -> <<TYPEC_CC_VOLT_OPEN, TYPEC_CC_VOLT_OPEN>>

\* fusb302_detect_cc_pin_sink: our Rd against the partner's pins.
fusb302_detect_cc_pin_sink(cable) ==
    CASE cable.kind \in {"src", "drp"} -> OnePin(cable, TYPEC_CC_VOLT_SNK_DEF)
      [] cable.kind = "dts" /\ cable.flip = 0 ->
            <<TYPEC_CC_VOLT_SNK_3_0, TYPEC_CC_VOLT_SNK_1_5>>
      [] cable.kind = "dts" /\ cable.flip = 1 ->
            <<TYPEC_CC_VOLT_SNK_1_5, TYPEC_CC_VOLT_SNK_3_0>>
      [] OTHER -> <<TYPEC_CC_VOLT_OPEN, TYPEC_CC_VOLT_OPEN>>

tcpm_get_cc(p, cable) ==
    IF p.pull = "RP" THEN fusb302_detect_cc_pin_source_manual(cable)
                     ELSE fusb302_detect_cc_pin_sink(cable)

tcpm_set_cc(p, pull) == [p EXCEPT !.pull = pull]

tcpm_set_msg_header(p, power_role, data_role) ==
    [p EXCEPT !.hdr_power = power_role, !.hdr_data = data_role]

\* Enabling the receiver flushes the Rx FIFO, disabling it does not.
tcpm_set_rx_enable(p, enable) ==
    [p EXCEPT !.rx_enable = enable,
              !.rx_fifo = IF enable = 1 THEN << >> ELSE @]

fusb302_pd_reset(p) == [p EXCEPT !.rx_fifo = << >>, !.tx = "none"]

\* Whatever is still in the Tx FIFO is flushed; BIST carrier mode raises no
\* completion interrupt.
tcpm_transmit(p, what) ==
    [p EXCEPT !.tx = CASE what = "BIST" -> "none"
                       [] what # "BIST" /\ what \in SeenOnWire \cup {"HARD_RESET"} -> what
                       [] OTHER -> "SOP"]
=============================================================================
