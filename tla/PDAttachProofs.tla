--------------------------- MODULE PDAttachProofs ---------------------------
(***************************************************************************)
(* Theorems about attaching: what the receiver is turned on for, and which *)
(* CC pin it is switched to.  A partner that may be pulled out is out of   *)
(* their reach, for then the port learns of it a pass later; they are      *)
(* about a cable that stays as it was when the board started.              *)
(*                                                                         *)
(* Only AttachSink and AttachSource turn the receiver on, each for a       *)
(* reading of the CC pins that shows a partner on the pin they choose.     *)
(* Everything else either leaves the receiver and the pin as they are or   *)
(* turns the receiver off: such a step is quiet, one after another is too. *)
(***************************************************************************)
EXTENDS PDPortProofs

HasReceiver(p) == {"rx_enable", "polarity"} \subseteq DOMAIN p

Quiet(p, q) ==
    /\ HasReceiver(q)
    /\ q.rx_enable = 0 \/ (q.rx_enable = p.rx_enable /\ q.polarity = p.polarity)

\* The receiver of p is on only for a partner at c, on the partner's pin.
Tuned(p, c) ==
    /\ HasReceiver(p)
    /\ p.rx_enable = 1 =>
          /\ c.kind \notin {"none", "audio"}
          /\ c.kind \in {"src", "snk", "drp"} => p.polarity = c.flip

----------------------------------------------------------------------------
\* Quiet steps.

LEMMA QuietThen ==
    ASSUME NEW p, NEW q, NEW r, Quiet(p, q), Quiet(q, r)
    PROVE  Quiet(p, r)
  BY Zenon DEF Quiet

LEMMA QuietHas ==
    ASSUME NEW p, NEW q, Quiet(p, q)
    PROVE  HasReceiver(q)
  BY DEF Quiet

LEMMA QuietTuned ==
    ASSUME NEW p, NEW q, Quiet(p, q), NEW c, Tuned(p, c)
    PROVE  Tuned(q, c)
  BY DEF Quiet, Tuned

LEMMA DriverQuiet ==
    ASSUME NEW p, HasReceiver(p)
    PROVE  /\ Quiet(p, p)
           /\ \A what : Quiet(p, tcpm_transmit(p, what))
           /\ \A pull : Quiet(p, tcpm_set_cc(p, pull))
           /\ \A pr, dr : Quiet(p, tcpm_set_msg_header(p, pr, dr))
           /\ Quiet(p, tcpm_set_rx_enable(p, 0))
           /\ Quiet(p, fusb302_pd_reset(p))
  BY DEF HasReceiver, Quiet, tcpm_transmit, tcpm_set_cc, tcpm_set_msg_header,
         tcpm_set_rx_enable, fusb302_pd_reset

\* Fields that are neither the receiver nor the pin.
LEMMA FieldsQuiet ==
    ASSUME NEW p, HasReceiver(p), NEW v
    PROVE  /\ Quiet(p, [p EXCEPT !.msg_id = v]) /\ Quiet(p, [p EXCEPT !.power_role = v])
           /\ Quiet(p, [p EXCEPT !.data_role = v]) /\ Quiet(p, [p EXCEPT !.tx_status = v])
           /\ Quiet(p, [p EXCEPT !.ints = v]) /\ Quiet(p, [p EXCEPT !.rx_fifo = v])
           /\ Quiet(p, [p EXCEPT !.vdm_state = v]) /\ Quiet(p, [p EXCEPT !.vdm_timeout = v])
           /\ Quiet(p, [p EXCEPT !.new_power_request = v]) /\ Quiet(p, [p EXCEPT !.flags = v])
           /\ Quiet(p, [p EXCEPT !.prev_request_mv = v])
           /\ Quiet(p, [p EXCEPT !.supply_voltage = v])
           /\ Quiet(p, [p EXCEPT !.hard_reset_count = v])
           /\ Quiet(p, [p EXCEPT !.hard_reset_sent = v])
           /\ Quiet(p, [p EXCEPT !.caps_count = v]) /\ Quiet(p, [p EXCEPT !.snk_cap_count = v])
           /\ Quiet(p, [p EXCEPT !.cc_state = v]) /\ Quiet(p, [p EXCEPT !.cc_debounce = v])
           /\ Quiet(p, [p EXCEPT !.vbus_off = v]) /\ Quiet(p, [p EXCEPT !.drp_state = v])
           /\ Quiet(p, [p EXCEPT !.next_role_swap = v])
           /\ Quiet(p, [p EXCEPT !.src_recover = v]) /\ Quiet(p, [p EXCEPT !.cap_index = v])
           /\ Quiet(p, [p EXCEPT !.cap_max = v]) /\ Quiet(p, [p EXCEPT !.last_state = v])
           /\ Quiet(p, [p EXCEPT !.task_state = v]) /\ Quiet(p, [p EXCEPT !.timeout = v])
           /\ Quiet(p, [p EXCEPT !.timeout_state = v])
           /\ Quiet(p, [p EXCEPT !.src_cap_cnt = v]) /\ Quiet(p, [p EXCEPT !.src_caps = v])
  BY DEF HasReceiver, Quiet

LEMMA StateQuiet ==
    ASSUME NEW p, HasReceiver(p), NEW s
    PROVE  Quiet(p, set_state(p, s)) /\ Quiet(p, set_state_timeout(p, s))
  BY DEF HasReceiver, Quiet, set_state, set_state_timeout, tcpm_set_rx_enable

LEMMA SendsQuiet ==
    ASSUME NEW p, HasReceiver(p)
    PROVE  /\ \A what : Quiet(p, pd_transmit(p, what)) /\ Quiet(p, send_control(p, what))
           /\ Quiet(p, send_source_cap(p)) /\ Quiet(p, send_sink_cap(p))
           /\ Quiet(p, send_request(p))
  BY DriverQuiet DEF pd_transmit, send_control, send_source_cap, send_sink_cap, send_request

\* A quiet step, then a change of state or a transmission.
LEMMA QuietEnters ==
    ASSUME NEW p, NEW q, Quiet(p, q)
    PROVE  /\ \A s : Quiet(p, set_state(q, s)) /\ Quiet(p, set_state_timeout(q, s))
           /\ \A what : Quiet(p, send_control(q, what))
  BY QuietThen, QuietHas, StateQuiet, SendsQuiet

LEMMA FlagsQuiet ==
    ASSUME NEW p, HasReceiver(p)
    PROVE  /\ \A fs : Quiet(p, SetFlags(p, fs))
           /\ \A f : Quiet(p, ClearFlag(p, f))
           /\ Quiet(p, DropContract(p))
  BY FieldsQuiet DEF SetFlags, ClearFlag, DropContract

LEMMA RolesQuiet ==
    ASSUME NEW p, HasReceiver(p)
    PROVE  /\ Quiet(p, pd_update_roles(p)) /\ \A role : Quiet(p, pd_set_data_role(p, role))
           /\ Quiet(p, pd_dr_swap(p))
  <1>1. \A q : HasReceiver(q) => Quiet(q, pd_update_roles(q))
    BY DriverQuiet DEF pd_update_roles
  <1>2. \A r : Quiet(p, pd_set_data_role(p, r))
    BY <1>1, FieldsQuiet, QuietHas, QuietThen DEF pd_set_data_role
  <1>3. Quiet(p, pd_dr_swap(p))
    <2> DEFINE q == pd_set_data_role(p, IF p.data_role = "UFP" THEN "DFP" ELSE "UFP")
    <2>1. Quiet(p, q) /\ HasReceiver(q) BY <1>2, QuietHas
    <2> HIDE DEF q
    <2>2. Quiet(q, [q EXCEPT !.flags = @ \cup {"CHECK_IDENTITY"}]) BY <2>1, FieldsQuiet
    <2> QED BY <2>1, <2>2, QuietThen DEF pd_dr_swap, q
  <1> QED BY <1>1, <1>2, <1>3

----------------------------------------------------------------------------
\* Messages.

LEMMA HardResetQuiet ==
    ASSUME NEW p, HasReceiver(p)
    PROVE  Quiet(p, pd_execute_hard_reset(p))
  <1> DEFINE m == [p EXCEPT !.msg_id = 0]
             q == [m EXCEPT !.last_state = "HARD_RESET_EXECUTE"]
             r == IF p.task_state \in {"SNK_SWAP_STANDBY", "SNK_SWAP_COMPLETE"}
                  THEN tcpm_set_cc(q, "RD") ELSE q
             t == [r EXCEPT !.src_recover = "armed"]
  <1>0. q = [p EXCEPT !.msg_id = 0, !.last_state = "HARD_RESET_EXECUTE"] OBVIOUS
  <1>1. Quiet(p, m) BY FieldsQuiet
  <1> HIDE DEF m
  <1>2. Quiet(p, q) BY <1>1, FieldsQuiet, QuietHas, QuietThen
  <1> HIDE DEF q
  <1>3. Quiet(p, r) BY <1>2, DriverQuiet, QuietHas, QuietThen
  <1> HIDE DEF r
  <1>4. Quiet(p, t) BY <1>3, FieldsQuiet, QuietHas, QuietThen
  <1> HIDE DEF t
  <1>5. \A s : Quiet(p, set_state(r, s)) /\ Quiet(p, set_state(t, s))
    BY <1>3, <1>4, QuietEnters
  <1> QED BY <1>0, <1>5, Zenon DEF pd_execute_hard_reset, r, t

LEMMA SoftResetQuiet ==
    ASSUME NEW p, HasReceiver(p)
    PROVE  Quiet(p, execute_soft_reset(p))
  BY FieldsQuiet, QuietEnters DEF execute_soft_reset

LEMMA RequestQuiet ==
    ASSUME NEW p, HasReceiver(p), NEW always
    PROVE  Quiet(p, pd_send_request_msg(p, always))
  <1> DEFINE q == [p EXCEPT !.new_power_request = 0]
             u == [q EXCEPT !.supply_voltage = pd_build_request(p)]
             v == [u EXCEPT !.prev_request_mv = pd_build_request(p)]
             r == send_request(v)
  <1>1. Quiet(p, q) BY FieldsQuiet
  <1>2. v = [q EXCEPT !.supply_voltage = pd_build_request(p),
                      !.prev_request_mv = pd_build_request(p)]
    OBVIOUS
  <1>3. pd_send_request_msg(p, always) =
          CASE SameRequest(p, always) -> q
            [] ~SameRequest(p, always) /\ TransmitOk(p) -> set_state(r, "SNK_REQUESTED")
            [] OTHER -> r
    BY <1>2, Zenon DEF pd_send_request_msg
  <1> HIDE DEF q
  <1>4. Quiet(p, u) BY <1>1, FieldsQuiet, QuietHas, QuietThen
  <1> HIDE DEF u
  <1>5. Quiet(p, v) BY <1>4, FieldsQuiet, QuietHas, QuietThen
  <1> HIDE DEF v
  <1>6. Quiet(p, r) BY <1>5, SendsQuiet, QuietHas, QuietThen
  <1> HIDE DEF r
  <1>7. Quiet(p, set_state(r, "SNK_REQUESTED")) BY <1>6, QuietEnters
  <1> QED BY <1>1, <1>3, <1>6, <1>7, Zenon

LEMMA VdmQuiet ==
    ASSUME NEW p, HasReceiver(p)
    PROVE  /\ \A cmdt : Quiet(p, handle_vdm_request(p, cmdt))
           /\ Quiet(p, queue_vdm(p)) /\ Quiet(p, pd_send_vdm(p))
           /\ Quiet(p, pd_vdm_send_state_machine(p))
  <1>1. ASSUME NEW q, HasReceiver(q), NEW v, NEW w
        PROVE  Quiet(q, [q EXCEPT !.vdm_timeout = w, !.vdm_state = v])
               /\ Quiet(q, [q EXCEPT !.vdm_state = v, !.vdm_timeout = w])
    BY <1>1 DEF HasReceiver, Quiet
  <1>2. \A cmdt : Quiet(p, handle_vdm_request(p, cmdt))
    BY <1>1, FieldsQuiet, DriverQuiet DEF handle_vdm_request
  <1>3. Quiet(p, queue_vdm(p)) /\ Quiet(p, pd_send_vdm(p))
    BY FieldsQuiet DEF queue_vdm, pd_send_vdm
  <1>4. Quiet(p, pd_vdm_send_state_machine(p))
    <2> DEFINE q == pd_transmit(p, "VENDOR_DEF")
    <2>1. Quiet(p, q) /\ HasReceiver(q) BY SendsQuiet, QuietHas
    <2> HIDE DEF q
    <2>2. /\ Quiet(p, [q EXCEPT !.vdm_state = "BUSY", !.vdm_timeout = "armed"])
          /\ Quiet(p, [q EXCEPT !.vdm_state = "ERR_SEND"])
      BY <1>1, <2>1, FieldsQuiet, QuietThen
    <2>3. Quiet(p, [p EXCEPT !.vdm_state = "ERR_BUSY"])
          /\ Quiet(p, [p EXCEPT !.vdm_state = "ERR_TMOUT"])
      BY FieldsQuiet
    <2> QED BY <1>3, <2>2, <2>3, DriverQuiet, Zenon DEF pd_vdm_send_state_machine, q
  <1> QED BY <1>2, <1>3, <1>4

LEMMA OfferQuiet ==
    ASSUME NEW p, HasReceiver(p)
    PROVE  /\ \A pdo0 : Quiet(p, pd_update_pdo_flags(p, pdo0))
           /\ \A mv : Quiet(p, pd_process_source_cap(p, mv))
           /\ \A mv : Quiet(p, pd_process_source_cap_callback(p, mv))
  BY DEF HasReceiver, Quiet, pd_update_pdo_flags, pd_process_source_cap,
         pd_process_source_cap_callback

LEMMA SourceCapQuiet ==
    ASSUME NEW p, HasReceiver(p), NEW m
    PROVE  Quiet(p, handle_source_cap(p, m))
  <1> DEFINE p1 == [p EXCEPT !.flags = p.flags \cup {"PREVIOUS_PD_CONN"}]
             q == pd_update_pdo_flags(p1, m.pdo0)
             c == pd_process_source_cap(q, m.mv)
             r == pd_send_request_msg(c, TRUE)
             t == pd_process_source_cap_callback(r, m.mv)
  <1>1. p1 = [p EXCEPT !.flags = @ \cup {"PREVIOUS_PD_CONN"}] OBVIOUS
  <1>2. Quiet(p, p1) BY FieldsQuiet
  <1> HIDE DEF p1
  <1>3. Quiet(p, q) BY <1>2, OfferQuiet, QuietHas, QuietThen
  <1> HIDE DEF q
  <1>4. Quiet(p, c) BY <1>3, OfferQuiet, QuietHas, QuietThen
  <1> HIDE DEF c
  <1>5. Quiet(p, r) BY <1>4, RequestQuiet, QuietHas, QuietThen
  <1> HIDE DEF r
  <1>6. Quiet(p, t) BY <1>5, OfferQuiet, QuietHas, QuietThen
  <1> HIDE DEF t
  <1> QED BY <1>1, <1>6, DriverQuiet, Zenon DEF handle_source_cap, p1, q, c, r, t

LEMMA DataQuiet ==
    ASSUME NEW p, HasReceiver(p), NEW m, m.type \in DataTypes
    PROVE  Quiet(p, handle_data_request(p, m))
  <1>1. Quiet(p, handle_data_rdo(p, m))
    <2> DEFINE q == send_control(p, "ACCEPT")
               r == [q EXCEPT !.flags = @ \cup {"EXPLICIT_CONTRACT"}]
    <2>1. Quiet(p, q) BY SendsQuiet
    <2> HIDE DEF q
    <2>2. Quiet(p, r) BY <2>1, FieldsQuiet, QuietHas, QuietThen
    <2> HIDE DEF r
    <2>3. Quiet(p, set_state(r, "SRC_ACCEPTED")) BY <2>2, QuietEnters
    <2>4. Quiet(p, set_state(send_control(p, "REJECT"), "SRC_READY"))
      BY SendsQuiet, QuietEnters
    <2> QED BY <2>1, <2>3, <2>4, Zenon DEF handle_data_rdo, q, r
  <1>2. Quiet(p, handle_bist(p, m))
    BY SendsQuiet, QuietEnters, DriverQuiet DEF handle_bist
  <1>3. Quiet(p, handle_sink_cap(p, m))
    <2> DEFINE p1 == [p EXCEPT !.flags = @ \cup {"SNK_CAP_RECVD"}]
               q == pd_update_pdo_flags(p1, m.pdo0)
    <2>1. Quiet(p, p1) BY FieldsQuiet
    <2> HIDE DEF p1
    <2>2. Quiet(p, q) BY <2>1, OfferQuiet, QuietHas, QuietThen
    <2> HIDE DEF q
    <2> QED BY <2>2, QuietEnters DEF handle_sink_cap, q, p1
  <1>4. \A cmdt : Quiet(p, handle_vdm_request(p, cmdt)) BY VdmQuiet
  <1> QED BY <1>1, <1>2, <1>3, <1>4, SourceCapQuiet DEF handle_data_request, DataTypes

LEMMA CtrlQuiet ==
    ASSUME NEW p, HasReceiver(p), NEW type
    PROVE  Quiet(p, handle_ctrl_request(p, type))
  <1>0. /\ \A s : Quiet(p, set_state(p, s)) /\ \A what : Quiet(p, send_control(p, what))
        /\ Quiet(p, p) /\ Quiet(p, send_sink_cap(p))
    BY StateQuiet, SendsQuiet, DriverQuiet
  <1>1. Quiet(p, handle_get_source_cap(p))
    BY SendsQuiet, QuietEnters DEF handle_get_source_cap
  <1>2. Quiet(p, handle_ps_rdy(p))
    <2> DEFINE m == [p EXCEPT !.msg_id = 0]
               q == [m EXCEPT !.power_role = "SINK"]
               r == pd_update_roles(q)
    <2>1. q = [p EXCEPT !.msg_id = 0, !.power_role = "SINK"] OBVIOUS
    <2>2. Quiet(p, m) BY FieldsQuiet
    <2> HIDE DEF m
    <2>3. Quiet(p, q) BY <2>2, FieldsQuiet, QuietHas, QuietThen
    <2> HIDE DEF q
    <2>4. Quiet(p, r) BY <2>3, RolesQuiet, QuietHas, QuietThen
    <2> HIDE DEF r
    <2>5. Quiet(p, set_state(r, "SNK_DISCOVERY")) BY <2>4, QuietEnters
    <2> QED BY <1>0, <2>1, <2>5, Zenon DEF handle_ps_rdy, r
  <1>3. Quiet(p, handle_reject_wait(p, type))
    <2> DEFINE m == [p EXCEPT !.new_power_request = 1]
               q == [m EXCEPT !.prev_request_mv = 0]
    <2>1. q = [p EXCEPT !.new_power_request = 1, !.prev_request_mv = 0] OBVIOUS
    <2>2. Quiet(p, m) BY FieldsQuiet
    <2> HIDE DEF m
    <2>3. Quiet(p, q) BY <2>2, FieldsQuiet, QuietHas, QuietThen
    <2> HIDE DEF q
    <2>4. Quiet(p, request_again_later(p)) BY <2>1, <2>3, QuietEnters DEF request_again_later
    <2> QED BY <1>0, <2>4, Zenon DEF handle_reject_wait
  <1>4. Quiet(p, handle_accept(p))
    <2>1. \A s : Quiet(p, set_state(pd_dr_swap(p), s)) BY RolesQuiet, QuietEnters
    <2>2. \A s : Quiet(p, set_state(DropContract(p), s)) BY FlagsQuiet, QuietEnters
    <2>3. \A s : Quiet(p, set_state([p EXCEPT !.flags = @ \cup {"EXPLICIT_CONTRACT"}], s))
      BY FieldsQuiet, QuietEnters
    <2> QED BY <1>0, <2>1, <2>2, <2>3, SoftResetQuiet, Zenon DEF handle_accept
  <1>5. Quiet(p, send_control(execute_soft_reset(p), "ACCEPT"))
    BY SoftResetQuiet, QuietEnters
  <1>6. Quiet(p, handle_pr_swap(p)) /\ Quiet(p, handle_dr_swap(p))
    BY <1>0 DEF handle_pr_swap, handle_dr_swap, pd_check_power_swap, pd_check_data_swap
  <1> QED BY <1>0, <1>1, <1>2, <1>3, <1>4, <1>5, <1>6, Zenon DEF handle_ctrl_request

LEMMA MessageQuiet ==
    ASSUME NEW p, HasReceiver(p), NEW m
    PROVE  Quiet(p, handle_request(p, m))
  BY DriverQuiet, DataQuiet, CtrlQuiet DEF handle_request

----------------------------------------------------------------------------
\* Attaching.

\* What the CC pins may show, and whom they show it for.
LEMMA PinsShow ==
    ASSUME NEW p, NEW c \in Cables, NEW ccs, ccs = tcpm_get_cc(p, c)
    PROVE  /\ cc_is_rp(ccs[1]) \/ cc_is_rp(ccs[2]) =>
                 /\ c.kind \in {"src", "dts", "drp"}
                 /\ c.kind \in {"src", "drp"} => get_snk_polarity(ccs) = c.flip
           /\ SomeRd(ccs) =>
                 /\ c.kind \in {"snk", "ts", "drp"}
                 /\ c.kind \in {"snk", "drp"} =>
                      (IF ccs[1] # TYPEC_CC_VOLT_RD THEN 1 ELSE 0) = c.flip
  <1>0. c.kind \in PartnerKinds /\ c.flip \in {0, 1} BY DEF Cables
  <1>1. CASE p.pull = "RP"
    <2>1. ccs = fusb302_detect_cc_pin_source_manual(c) BY <1>1 DEF tcpm_get_cc
    <2> QED BY <1>0, <2>1 DEF fusb302_detect_cc_pin_source_manual, OnePin, PartnerKinds,
              cc_is_rp, SomeRd, get_snk_polarity, TYPEC_CC_VOLT_OPEN, TYPEC_CC_VOLT_RA,
              TYPEC_CC_VOLT_RD, TYPEC_CC_VOLT_SNK_DEF, TYPEC_CC_VOLT_SNK_1_5,
              TYPEC_CC_VOLT_SNK_3_0
  <1>2. CASE p.pull # "RP"
    <2>1. ccs = fusb302_detect_cc_pin_sink(c) BY <1>2 DEF tcpm_get_cc
    <2> QED BY <1>0, <2>1 DEF fusb302_detect_cc_pin_sink, OnePin, PartnerKinds,
              cc_is_rp, SomeRd, get_snk_polarity, TYPEC_CC_VOLT_OPEN, TYPEC_CC_VOLT_RA,
              TYPEC_CC_VOLT_RD, TYPEC_CC_VOLT_SNK_DEF, TYPEC_CC_VOLT_SNK_1_5,
              TYPEC_CC_VOLT_SNK_3_0
  <1> QED BY <1>1, <1>2

\* The roles are told to the chip on any pin.
LEMMA RolesKeepPin ==
    ASSUME NEW p, HasReceiver(p), NEW role
    PROVE  /\ HasReceiver(pd_set_data_role(p, role))
           /\ pd_set_data_role(p, role).polarity = p.polarity
  BY DEF HasReceiver, pd_set_data_role, pd_update_roles, tcpm_set_msg_header

LEMMA SinkAttached ==
    ASSUME NEW p, HasReceiver(p), NEW ccs, NEW acc, NEW c,
           c.kind \notin {"none", "audio"},
           c.kind \in {"src", "snk", "drp"} => get_snk_polarity(ccs) = c.flip
    PROVE  Tuned(AttachSink(p, ccs, acc), c)
  <1> DEFINE p1 == [p EXCEPT !.polarity = get_snk_polarity(ccs), !.msg_id = 0]
             q == pd_set_data_role(p1, "UFP")
             r == tcpm_set_rx_enable(q, 1)
             s == SetFlags(r, {"CHECK_PR_ROLE", "CHECK_DR_ROLE", "CHECK_IDENTITY"} \cup
                              (IF acc = "DEBUG_ACC" THEN {"TS_DTS_PARTNER"} ELSE {}))
             t == send_control(s, "GET_SOURCE_CAP")
  <1>1. HasReceiver(p1) /\ p1.polarity = get_snk_polarity(ccs) BY DEF HasReceiver
  <1> HIDE DEF p1
  <1>2. HasReceiver(q) /\ q.polarity = get_snk_polarity(ccs) BY <1>1, RolesKeepPin
  <1> HIDE DEF q
  <1>3. HasReceiver(r) /\ r.polarity = get_snk_polarity(ccs)
    BY <1>2 DEF HasReceiver, tcpm_set_rx_enable
  <1>4. Tuned(r, c) BY <1>3 DEF Tuned
  <1> HIDE DEF r
  <1>5. Quiet(r, s) BY <1>3, FlagsQuiet
  <1> HIDE DEF s
  <1>6. Quiet(r, t) BY <1>5, SendsQuiet, QuietHas, QuietThen
  <1> HIDE DEF t
  <1>7. Quiet(r, set_state(t, "SNK_DISCOVERY")) BY <1>6, QuietEnters
  <1> QED BY <1>4, <1>7, QuietTuned DEF AttachSink, p1, q, r, s, t

LEMMA SourceAttached ==
    ASSUME NEW p, HasReceiver(p), NEW ccs, NEW acc, NEW c,
           c.kind \notin {"none", "audio"},
           c.kind \in {"src", "snk", "drp"} =>
               (IF ccs[1] # TYPEC_CC_VOLT_RD THEN 1 ELSE 0) = c.flip
    PROVE  Tuned(AttachSource(p, ccs, acc), c)
  <1> DEFINE v == IF ccs[1] # TYPEC_CC_VOLT_RD THEN 1 ELSE 0
             p1 == [p EXCEPT !.polarity = v]
             q == pd_set_data_role(p1, "DFP")
             r == tcpm_set_rx_enable(q, 1)
             s == SetFlags(r, {"CHECK_PR_ROLE", "CHECK_DR_ROLE"} \cup
                              (IF acc = "DEBUG_ACC" THEN {"TS_DTS_PARTNER"} ELSE {}))
             t == [s EXCEPT !.hard_reset_count = 0]
  <1>1. HasReceiver(p1) /\ p1.polarity = v BY DEF HasReceiver
  <1> HIDE DEF p1
  <1>2. HasReceiver(q) /\ q.polarity = v BY <1>1, RolesKeepPin
  <1> HIDE DEF q
  <1>3. HasReceiver(r) /\ r.polarity = v BY <1>2 DEF HasReceiver, tcpm_set_rx_enable
  <1>4. Tuned(r, c) BY <1>3 DEF Tuned
  <1> HIDE DEF r
  <1>5. Quiet(r, s) BY <1>3, FlagsQuiet
  <1> HIDE DEF s
  <1>6. Quiet(r, t) BY <1>5, FieldsQuiet, QuietHas, QuietThen
  <1> HIDE DEF t
  <1>7. Quiet(r, set_state(t, "SRC_STARTUP")) BY <1>6, QuietEnters
  <1> QED BY <1>4, <1>7, QuietTuned DEF AttachSource, p1, q, r, s, t, v

\* A step is quiet or turns the receiver on for the partner at c.
Tunes(p, q, c) == Quiet(p, q) \/ Tuned(q, c)

LEMMA AttachTunes ==
    ASSUME NEW p, HasReceiver(p), NEW c \in Cables, NEW ccs, ccs = tcpm_get_cc(p, c)
    PROVE  /\ Tunes(p, SnkDisconnected(p, ccs), c) /\ Tunes(p, SrcDisconnected(p, ccs), c)
           /\ Tunes(p, SnkDisconnectedDebounce(p, ccs), c)
           /\ Tunes(p, SrcDisconnectedDebounce(p, ccs), c)
  <1>0. Quiet(p, p) /\ \A s : Quiet(p, set_state(p, s)) BY DriverQuiet, StateQuiet
  <1>1. ASSUME NEW s, NEW role, NEW pull
        PROVE  Quiet(p, [tcpm_set_cc(set_state([p EXCEPT !.power_role = role], s), pull)
                           EXCEPT !.next_role_swap = "armed"])
    <2> DEFINE q == set_state([p EXCEPT !.power_role = role], s)
               r == tcpm_set_cc(q, pull)
    <2>1. Quiet(p, q) BY FieldsQuiet, QuietEnters
    <2> HIDE DEF q
    <2>2. Quiet(p, r) BY <2>1, DriverQuiet, QuietHas, QuietThen
    <2> HIDE DEF r
    <2>3. Quiet(p, [r EXCEPT !.next_role_swap = "armed"])
      BY <2>2, FieldsQuiet, QuietHas, QuietThen
    <2> QED BY <2>3 DEF q, r
  <1>2. Quiet(p, SnkDisconnected(p, ccs))
    <2> DEFINE q == [p EXCEPT !.cc_state = "NONE", !.hard_reset_count = 0,
                              !.cc_debounce = "armed"]
    <2>1. Quiet(p, q) BY DEF HasReceiver, Quiet
    <2> HIDE DEF q
    <2>2. Quiet(p, set_state(q, "SNK_DISCONNECTED_DEBOUNCE")) BY <2>1, QuietEnters
    <2> QED BY <1>0, <1>1, <2>2, Zenon DEF SnkDisconnected, q
  <1>3. Quiet(p, SrcDisconnected(p, ccs))
    <2>1. Quiet(p, set_state([p EXCEPT !.cc_state = "NONE"], "SRC_DISCONNECTED_DEBOUNCE"))
      BY FieldsQuiet, QuietEnters
    <2> QED BY <1>0, <1>1, <2>1, Zenon DEF SrcDisconnected
  <1>4. \A s : Quiet(p, [p EXCEPT !.cc_debounce = "armed", !.cc_state = s])
    BY DEF HasReceiver, Quiet
  <1>5. ASSUME cc_is_rp(ccs[1]) \/ cc_is_rp(ccs[2]), NEW acc
        PROVE  Tuned(AttachSink(p, ccs, acc), c)
    <2>1. /\ c.kind \in {"src", "dts", "drp"}
          /\ c.kind \in {"src", "drp"} => get_snk_polarity(ccs) = c.flip
      BY <1>5, PinsShow
    <2> QED BY <2>1, SinkAttached
  <1>6. ASSUME SomeRd(ccs), NEW acc PROVE Tuned(AttachSource(p, ccs, acc), c)
    <2>1. /\ c.kind \in {"snk", "ts", "drp"}
          /\ c.kind \in {"snk", "drp"} =>
                (IF ccs[1] # TYPEC_CC_VOLT_RD THEN 1 ELSE 0) = c.flip
      BY <1>6, PinsShow
    <2> QED BY <2>1, SourceAttached
  <1>7. Tunes(p, SnkDisconnectedDebounce(p, ccs), c)
    BY <1>0, <1>4, <1>5, Zenon DEF SnkDisconnectedDebounce, Tunes
  <1>8. Tunes(p, SrcDisconnectedDebounce(p, ccs), c)
    BY <1>0, <1>4, <1>6, Zenon DEF SrcDisconnectedDebounce, Tunes
  <1> QED BY <1>2, <1>3, <1>7, <1>8 DEF Tunes

----------------------------------------------------------------------------
\* The other states.

LEMMA WaitQuiet ==
    ASSUME NEW p, HasReceiver(p), NEW q, Quiet(p, q), NEW s
    PROVE  Quiet(p, OnEntry(p, set_state_timeout(q, s))) /\ Quiet(p, WaitFor(p, s))
  BY DriverQuiet, StateQuiet, QuietEnters DEF OnEntry, WaitFor

LEMMA AskQuiet ==
    ASSUME NEW p, HasReceiver(p), NEW msg, NEW ready
    PROVE  Quiet(p, AskPartner(p, msg, ready))
  BY DriverQuiet, SendsQuiet, QuietEnters DEF AskPartner, OnEntry

LEMMA ReadyPolicyQuiet ==
    ASSUME NEW p, HasReceiver(p)
    PROVE  Quiet(p, SrcReadyPolicy(p)) /\ Quiet(p, SnkReadyPolicy(p))
  <1>1. Quiet(p, ClearFlag(p, "CHECK_PR_ROLE")) /\ Quiet(p, ClearFlag(p, "CHECK_DR_ROLE"))
        /\ Quiet(p, p)
    BY FlagsQuiet, DriverQuiet
  <1>2. Quiet(p, ClearFlag(pd_send_vdm(p), "CHECK_IDENTITY"))
    BY VdmQuiet, FlagsQuiet, QuietHas, QuietThen
  <1>3. Quiet(p, send_control(p, "PING")) /\ Quiet(p, set_state(send_control(p, "PING"), "SOFT_RESET"))
    BY SendsQuiet, QuietEnters
  <1> QED BY <1>1, <1>2, <1>3, Zenon DEF SrcReadyPolicy, SnkReadyPolicy

LEMMA SinkQuiet ==
    ASSUME NEW p, HasReceiver(p)
    PROVE  /\ Quiet(p, SnkDiscovery(p)) /\ Quiet(p, SnkRequested(p))
           /\ Quiet(p, SnkTransition(p)) /\ Quiet(p, SnkReady(p))
  <1>0. Quiet(p, p) /\ \A s : Quiet(p, set_state_timeout(p, s)) BY DriverQuiet, StateQuiet
  <1>1. Quiet(p, SnkDiscovery(p)) BY <1>0, Zenon DEF SnkDiscovery
  <1>2. Quiet(p, SnkRequested(p)) BY FieldsQuiet, WaitQuiet DEF SnkRequested
  <1>3. Quiet(p, SnkTransition(p)) BY <1>0, WaitQuiet DEF SnkTransition
  <1>4. Quiet(p, SnkReady(p))
    <2>1. /\ Quiet(p, pd_send_request_msg(p, FALSE))
          /\ Quiet(p, set_state(pd_send_request_msg(p, FALSE), "SOFT_RESET"))
      BY RequestQuiet, QuietEnters
    <2> QED BY <1>0, <2>1, ReadyPolicyQuiet, Zenon DEF SnkReady
  <1> QED BY <1>1, <1>2, <1>3, <1>4

LEMMA SourceQuiet ==
    ASSUME NEW p, HasReceiver(p)
    PROVE  /\ Quiet(p, SrcStartup(p)) /\ Quiet(p, SrcDiscovery(p))
           /\ Quiet(p, SrcNegociate(p)) /\ Quiet(p, SrcAccepted(p))
           /\ Quiet(p, SrcPowered(p)) /\ Quiet(p, SrcTransition(p))
           /\ Quiet(p, SrcReady(p)) /\ Quiet(p, SrcGetSinkCap(p))
  <1>0. Quiet(p, p) BY DriverQuiet
  <1>1. Quiet(p, SrcStartup(p))
    <2> DEFINE f == SetFlags(p, {"CHECK_IDENTITY"})
               q == [f EXCEPT !.caps_count = 0, !.msg_id = 0, !.snk_cap_count = 0]
    <2>1. Quiet(p, f) /\ HasReceiver(f) BY FlagsQuiet, QuietHas
    <2> HIDE DEF f
    <2>2. Quiet(f, q) BY <2>1 DEF HasReceiver, Quiet
    <2> HIDE DEF q
    <2>3. Quiet(p, q) BY <2>1, <2>2, QuietThen
    <2>4. Quiet(p, OnEntry(p, set_state_timeout(q, "SRC_DISCOVERY"))) BY <2>3, WaitQuiet
    <2> QED BY <2>4 DEF SrcStartup, q, f
  <1>2. Quiet(p, SrcDiscovery(p))
    <2> DEFINE q == IF Entering(p) /\ "PREVIOUS_PD_CONN" \in p.flags
                    THEN set_state_timeout(p, NoResponse(p, "SRC_DISCONNECTED")) ELSE p
               r == send_source_cap(q)
               s == set_state(r, "SRC_NEGOCIATE")
               t == [s EXCEPT !.hard_reset_count = 0, !.caps_count = 0]
               u == SetFlags(t, {"PREVIOUS_PD_CONN"})
    <2>1. Quiet(p, q) BY <1>0, StateQuiet
    <2> HIDE DEF q
    <2>2. Quiet(p, r) BY <2>1, SendsQuiet, QuietHas, QuietThen
    <2> HIDE DEF r
    <2>3. Quiet(p, s) BY <2>2, QuietEnters
    <2> HIDE DEF s
    <2>4. Quiet(s, t)
      <3> HasReceiver(s) BY <2>3, QuietHas
      <3> QED BY DEF HasReceiver, Quiet
    <2> HIDE DEF t
    <2>5. Quiet(p, u) BY <2>3, <2>4, FlagsQuiet, QuietHas, QuietThen
    <2> HIDE DEF u
    <2>6. Quiet(p, [r EXCEPT !.caps_count = @ + 1]) BY <2>2, FieldsQuiet, QuietHas, QuietThen
    <2> QED BY <2>1, <2>5, <2>6, Zenon DEF SrcDiscovery, q, r, s, t, u
  <1>3. Quiet(p, SrcNegociate(p)) /\ Quiet(p, SrcAccepted(p)) /\ Quiet(p, SrcPowered(p))
        /\ Quiet(p, SrcGetSinkCap(p))
    BY <1>0, WaitQuiet DEF SrcNegociate, SrcAccepted, SrcPowered, SrcGetSinkCap
  <1>4. Quiet(p, SrcTransition(p)) BY SendsQuiet, QuietEnters DEF SrcTransition
  <1>5. Quiet(p, SrcReady(p))
    <2> DEFINE q == [p EXCEPT !.snk_cap_count = IF @ > PD_SNK_CAP_RETRIES THEN @ ELSE @ + 1]
    <2>1. Quiet(p, q) BY FieldsQuiet
    <2> HIDE DEF q
    <2>2. Quiet(p, send_control(q, "GET_SINK_CAP")) BY <2>1, QuietEnters
    <2>3. Quiet(p, set_state(send_control(q, "GET_SINK_CAP"), "SRC_GET_SINK_CAP"))
      BY <2>2, QuietEnters
    <2>4. Quiet(p, SrcReadyPolicy(p)) /\ Quiet(p, SrcReadyPolicy(q))
      BY <2>1, ReadyPolicyQuiet, QuietHas, QuietThen
    <2> QED BY <1>0, <2>3, <2>4, Zenon DEF SrcReady, q
  <1> QED BY <1>1, <1>2, <1>3, <1>4, <1>5

LEMMA SwapQuiet ==
    ASSUME NEW p, HasReceiver(p)
    PROVE  /\ Quiet(p, DrSwap(p)) /\ Quiet(p, SnkSwapInit(p)) /\ Quiet(p, SrcSwapInit(p))
           /\ Quiet(p, SnkSwapSnkDisable(p)) /\ Quiet(p, SnkSwapSrcDisable(p))
           /\ Quiet(p, SnkSwapStandby(p)) /\ Quiet(p, SnkSwapComplete(p))
           /\ Quiet(p, SrcSwapSnkDisable(p)) /\ Quiet(p, SrcSwapSrcDisable(p))
           /\ Quiet(p, SrcSwapStandby(p))
  <1> DEFINE q == send_control(p, "PS_RDY")
             d == tcpm_set_cc(q, "RD")
  <1>0. Quiet(p, p) /\ Quiet(p, tcpm_set_cc(p, "RP")) BY DriverQuiet
  <1>1. Quiet(p, DrSwap(p)) /\ Quiet(p, SnkSwapInit(p)) /\ Quiet(p, SrcSwapInit(p))
    BY AskQuiet DEF DrSwap, SnkSwapInit, SrcSwapInit
  <1>2. /\ Quiet(p, SnkSwapSrcDisable(p)) /\ Quiet(p, SrcSwapSnkDisable(p))
        /\ Quiet(p, SrcSwapSrcDisable(p)) /\ Quiet(p, SnkSwapStandby(p))
    BY <1>0, WaitQuiet
       DEF SnkSwapSrcDisable, SrcSwapSnkDisable, SrcSwapSrcDisable, SnkSwapStandby
  <1>3. Quiet(p, SnkSwapSnkDisable(p)) BY StateQuiet DEF SnkSwapSnkDisable
  <1>4. Quiet(p, q) BY SendsQuiet
  <1>5. Quiet(p, SnkSwapComplete(p))
    <2> DEFINE r == [q EXCEPT !.snk_cap_count = PD_SNK_CAP_RETRIES + 1, !.caps_count = 0,
                              !.msg_id = 0, !.power_role = "SOURCE"]
    <2> HIDE DEF q
    <2>1. Quiet(q, r)
      <3> HasReceiver(q) BY <1>4, QuietHas
      <3> QED BY DEF HasReceiver, Quiet
    <2>2. Quiet(p, d) BY <1>4, DriverQuiet, QuietHas, QuietThen
    <2> HIDE DEF r, d
    <2>3. Quiet(p, r) BY <1>4, <2>1, QuietThen
    <2>4. Quiet(p, pd_update_roles(r)) BY <2>3, RolesQuiet, QuietHas, QuietThen
    <2>5. Quiet(p, set_state(pd_update_roles(r), "SRC_DISCOVERY"))
          /\ Quiet(p, set_state(d, "SNK_DISCONNECTED"))
      BY <2>2, <2>4, QuietEnters
    <2> QED BY <2>5 DEF SnkSwapComplete, q, r, d
  <1>6. Quiet(p, SrcSwapStandby(p))
    <2> DEFINE s == [d EXCEPT !.power_role = "SINK"]
    <2> HIDE DEF q
    <2>1. Quiet(p, d) BY <1>4, DriverQuiet, QuietHas, QuietThen
    <2> HIDE DEF d
    <2>2. Quiet(p, s) BY <2>1, FieldsQuiet, QuietHas, QuietThen
    <2> HIDE DEF s
    <2>3. Quiet(p, set_state_timeout(s, "SNK_DISCONNECTED"))
          /\ Quiet(p, set_state(q, "SRC_DISCONNECTED"))
      BY <1>4, <2>2, QuietEnters
    <2> QED BY <1>0, <2>3, Zenon DEF SrcSwapStandby, OnEntry, q, d, s
  <1> QED BY <1>1, <1>2, <1>3, <1>5, <1>6

LEMMA ResetQuiet ==
    ASSUME NEW p, HasReceiver(p)
    PROVE  /\ Quiet(p, SoftReset(p)) /\ Quiet(p, HardResetSend(p))
           /\ Quiet(p, HardResetExecute(p)) /\ Quiet(p, SnkHardResetRecover(p))
           /\ Quiet(p, SrcHardResetRecover(p))
  <1>0. Quiet(p, p) /\ \A s : Quiet(p, set_state(p, s)) BY DriverQuiet, StateQuiet
  <1>1. Quiet(p, SoftReset(p))
    <2> DEFINE q == send_control([p EXCEPT !.msg_id = 0], "SOFT_RESET")
    <2>1. Quiet(p, q) BY FieldsQuiet, QuietEnters
    <2> HIDE DEF q
    <2>2. Quiet(p, set_state_timeout(q, "HARD_RESET_SEND"))
          /\ Quiet(p, set_state(q, "HARD_RESET_SEND"))
      BY <2>1, QuietEnters
    <2> QED BY <1>0, <2>2, Zenon DEF SoftReset, OnEntry, q
  <1>2. Quiet(p, HardResetSend(p))
    <2> DEFINE q == [p EXCEPT
                       !.hard_reset_count = IF @ < PD_HARD_RESET_COUNT THEN @ + 1 ELSE @,
                       !.hard_reset_sent = IF Entering(p) THEN 0 ELSE @]
               r == pd_transmit(q, "HARD_RESET")
               s == [r EXCEPT !.hard_reset_sent = 1]
    <2>1. Quiet(p, q) BY Zenon DEF HasReceiver, Quiet
    <2> HIDE DEF q
    <2>2. Quiet(p, r) BY <2>1, SendsQuiet, QuietHas, QuietThen
    <2> HIDE DEF r
    <2>3. Quiet(p, s) BY <2>2, FieldsQuiet, QuietHas, QuietThen
    <2> HIDE DEF s
    <2>4. Quiet(p, set_state_timeout(s, "HARD_RESET_EXECUTE"))
          /\ Quiet(p, set_state(s, "HARD_RESET_EXECUTE"))
      BY <2>3, QuietEnters
    <2> QED BY <2>1, <2>2, <2>4, Zenon DEF HardResetSend, q, r, s
  <1>3. Quiet(p, HardResetExecute(p))
    <2>1. Quiet(p, tcpm_set_cc(p, "RD")) BY DriverQuiet
    <2> QED BY <1>0, <2>1, HardResetQuiet, QuietHas, QuietThen DEF HardResetExecute
  <1>4. Quiet(p, SnkHardResetRecover(p))
    <2> DEFINE f == SetFlags(p, {"CHECK_IDENTITY"})
               e == [f EXCEPT !.vbus_off = 0]
               q == OnEntry(p, set_state_timeout(e, NoResponse(p, "SNK_DISCOVERY")))
    <2>1. Quiet(p, f) BY FlagsQuiet
    <2> HIDE DEF f
    <2>2. Quiet(p, e) BY <2>1, FieldsQuiet, QuietHas, QuietThen
    <2> HIDE DEF e
    <2>3. Quiet(p, q) BY <2>2, WaitQuiet
    <2> HIDE DEF q
    <2>4. Quiet(p, set_state(q, "SNK_DISCOVERY")) BY <2>3, QuietEnters
    <2> QED BY <2>3, <2>4, Zenon
            DEF SnkHardResetRecover, pd_is_vbus_present, pd_snk_is_vbus_provided, q, e, f
  <1>5. Quiet(p, SrcHardResetRecover(p)) BY <1>0 DEF SrcHardResetRecover
  <1> QED BY <1>1, <1>2, <1>3, <1>4, <1>5

----------------------------------------------------------------------------
\* The steps of the loop and of the world.

LEMMA AlertQuiet ==
    ASSUME NEW p, HasReceiver(p)
    PROVE  Quiet(p, tcpc_alert(p))
  <1> DEFINE p0 == [p EXCEPT !.ints = {}]
             p1 == IF "COLLISION" \in p.ints THEN pd_transmit_complete(p0, "FAILED") ELSE p0
             p2 == IF "TX_SUCCESS" \in p.ints THEN pd_transmit_complete(p1, "SUCCESS") ELSE p1
             p3 == IF "RETRYFAIL" \in p.ints THEN pd_transmit_complete(p2, "FAILED") ELSE p2
             p4 == IF "HARDSENT" \in p.ints
                   THEN pd_transmit_complete(fusb302_pd_reset(p3), "SUCCESS") ELSE p3
             p5 == IF "HARDRESET" \in p.ints
                   THEN pd_execute_hard_reset(fusb302_pd_reset(p4)) ELSE p4
  <1>0. ASSUME NEW q, Quiet(p, q)
        PROVE  /\ \A st : Quiet(p, pd_transmit_complete(q, st))
               /\ Quiet(p, fusb302_pd_reset(q))
    <2>1. HasReceiver(q) BY <1>0, QuietHas
    <2>2. Quiet(p, inc_id(q)) BY <1>0, <2>1, FieldsQuiet, QuietThen DEF inc_id
    <2>3. ASSUME NEW st PROVE Quiet(p, pd_transmit_complete(q, st))
      <3> DEFINE r == IF st = "SUCCESS" THEN inc_id(q) ELSE q
      <3>1. Quiet(p, r) BY <1>0, <2>2
      <3> HIDE DEF r
      <3>2. Quiet(p, [r EXCEPT !.tx_status = st]) BY <3>1, FieldsQuiet, QuietHas, QuietThen
      <3> QED BY <3>2 DEF pd_transmit_complete, r
    <2> QED BY <1>0, <2>1, <2>3, DriverQuiet, QuietThen
  <1>1. Quiet(p, p0) BY FieldsQuiet
  <1> HIDE DEF p0
  <1>2. Quiet(p, p1) BY <1>0, <1>1
  <1> HIDE DEF p1
  <1>3. Quiet(p, p2) BY <1>0, <1>2
  <1> HIDE DEF p2
  <1>4. Quiet(p, p3) BY <1>0, <1>3
  <1> HIDE DEF p3
  <1>5. Quiet(p, p4) BY <1>0, <1>4
  <1> HIDE DEF p4
  <1>6. Quiet(p, p5) BY <1>0, <1>5, HardResetQuiet, QuietHas, QuietThen
  <1> HIDE DEF p5
  <1>7. Quiet(p, [p5 EXCEPT !.rx_fifo = << >>]) BY <1>6, FieldsQuiet, QuietHas, QuietThen
  <1> QED BY <1>6, <1>7 DEF tcpc_alert, p0, p1, p2, p3, p4, p5

LEMMA BeginRunQuiet ==
    ASSUME NEW p, HasReceiver(p), NEW reset \in BOOLEAN
    PROVE  Quiet(p, BeginRun(ServicePin(p), reset))
  <1> DEFINE q == ServicePin(p)
             r == IF reset THEN [q EXCEPT !.task_state = "SOFT_RESET"] ELSE q
  <1>1. Quiet(p, q) BY AlertQuiet, DriverQuiet DEF ServicePin
  <1> HIDE DEF q
  <1>2. Quiet(p, r) BY <1>1, FieldsQuiet, QuietHas, QuietThen
  <1> HIDE DEF r
  <1>3. Quiet(p, pd_vdm_send_state_machine(r)) BY <1>2, VdmQuiet, QuietHas, QuietThen
  <1> QED BY <1>3 DEF BeginRun, q, r

LEMMA EndRunQuiet ==
    ASSUME NEW p, HasReceiver(p), NEW ccs
    PROVE  Quiet(p, Forget(CheckDisconnect(p, ccs)))
  <1> DEFINE q == CheckDisconnect(p, ccs)
  <1>1. Quiet(p, q) BY StateQuiet, DriverQuiet, Zenon DEF CheckDisconnect
  <1>2. HasReceiver(q) BY <1>1, QuietHas
  <1> HIDE DEF q
  <1>3. Quiet(q, Forget(q)) BY <1>2, Zenon DEF HasReceiver, Quiet, Forget
  <1>4. Quiet(p, Forget(q)) BY <1>1, <1>3, QuietThen
  <1> QED BY <1>4 DEF q

LEMMA FinishTunes ==
    ASSUME NEW p, NEW q, NEW c, Tunes(p, q, c), HasReceiver(q), NEW ran
    PROVE  Tunes(p, FinishState(q, ran), c)
  <1> DEFINE r == [q EXCEPT !.last_state = ran]
  <1>1. Quiet(q, r) BY FieldsQuiet
  <1> HIDE DEF r
  <1>2. Quiet(q, set_state(r, r.timeout_state)) BY <1>1, QuietEnters
  <1>3. Quiet(q, FinishState(q, ran)) BY <1>1, <1>2 DEF FinishState, r
  <1> QED BY <1>3, QuietThen, QuietTuned DEF Tunes

\* Every step of the loop tunes to the partner at the cable of that step.
LEMMA LoopTunes ==
    ASSUME PortInv, HasReceiver(port), Loop \/ PollPressed
    PROVE  Tunes(port, port', cable)
  <1>1. CASE Poll BY <1>1, BeginRunQuiet DEF Poll, Tunes
  <1>2. CASE PollPressed
    <2>1. Quiet(port, NextCapIndex(port)) BY FieldsQuiet DEF NextCapIndex
    <2>2. Quiet(port, port')
      BY <1>2, <2>1, BeginRunQuiet, QuietHas, QuietThen DEF PollPressed
    <2> QED BY <2>2 DEF Tunes
  <1>3. CASE ProcessMessage
    <2>1. Quiet(port, TakeMessage(port))
      <3> DEFINE q == [port EXCEPT !.rx_fifo = Tail(@)]
      <3>1. Quiet(port, q) BY FieldsQuiet
      <3> HIDE DEF q
      <3>2. Quiet(port, handle_request(q, Head(port.rx_fifo)))
        BY <3>1, MessageQuiet, QuietHas, QuietThen
      <3> QED BY <3>2, DriverQuiet DEF TakeMessage, q
    <2> QED BY <1>3, <2>1 DEF ProcessMessage, Tunes
  <1>4. CASE RunState
    <2>1. ASSUME NEW s, NEW q, Handle(s, q), Tunes(port, q, cable)
          PROVE  Tunes(port, port', cable)
      <3>1. HasReceiver(q) BY <2>1 DEF Tunes, Quiet, Tuned
      <3> QED BY <2>1, <3>1, FinishTunes DEF Handle
    <2>2. ASSUME NEW s, NEW q, Handle(s, q), Quiet(port, q) PROVE Tunes(port, port', cable)
      BY <2>1, <2>2 DEF Tunes
    <2>3. CASE RunAttach
      <3>1. cable \in Cables BY DEF PortInv
      <3> QED BY <2>1, <2>3, <3>1, AttachTunes DEF RunAttach, cc
    <2>4. CASE RunSink BY <2>2, <2>4, SinkQuiet DEF RunSink
    <2>5. CASE RunSource BY <2>2, <2>5, SourceQuiet DEF RunSource
    <2>6. CASE RunSwap BY <2>2, <2>6, SwapQuiet DEF RunSwap
    <2>7. CASE RunReset BY <2>2, <2>7, ResetQuiet DEF RunReset
    <2> QED BY <1>4, <2>3, <2>4, <2>5, <2>6, <2>7 DEF RunState
  <1>5. CASE EndRun BY <1>5, EndRunQuiet DEF EndRun, Tunes
  <1> QED BY <1>1, <1>2, <1>3, <1>4, <1>5 DEF Loop

LEMMA ApplicationQuiet ==
    ASSUME HasReceiver(port), Application
    PROVE  Quiet(port, port')
  <1>1. ASSUME NEW api, NEW q, Call(api, q), Quiet(port, q) PROVE Quiet(port, port')
    BY <1>1 DEF Call
  <1>2. Quiet(port, port) /\ \A s : Quiet(port, set_state(port, s)) BY DriverQuiet, StateQuiet
  <1>3. /\ Quiet(port, pd_soft_reset(port)) /\ Quiet(port, pd_request_data_swap(port))
        /\ Quiet(port, pd_request_power_swap(port))
    BY <1>2, Zenon DEF pd_soft_reset, pd_request_data_swap, pd_request_power_swap
  <1>4. /\ Quiet(port, pd_set_new_power_request(port)) /\ Quiet(port, pd_ping_enable(port, TRUE))
        /\ \A s : Quiet(port, pd_set_dual_role(port, s))
    BY FieldsQuiet DEF pd_set_new_power_request, pd_ping_enable, pd_set_dual_role
  <1>5. Quiet(port, pd_send_vdm(port)) BY VdmQuiet
  <1> QED BY <1>1, <1>3, <1>4, <1>5 DEF Application

LEMMA WorldQuiet ==
    ASSUME HasReceiver(port), PartnerSends \/ PartnerHardReset \/ TxDone \/ Plug \/ Time
    PROVE  Quiet(port, port')
  <1>1. CASE PartnerSends BY <1>1 DEF PartnerSends, HasReceiver, Quiet
  <1>2. CASE PartnerHardReset BY <1>2, FieldsQuiet DEF PartnerHardReset
  <1>3. CASE TxDone
    <2>1. ASSUME NEW int, TxEnds(int) PROVE Quiet(port, port')
      BY <2>1 DEF TxEnds, HasReceiver, Quiet
    <2> QED BY <1>3, <2>1 DEF TxDone
  <1>4. CASE Plug BY <1>4, DriverQuiet DEF Plug
  <1>5. CASE Time
    <2>1. ASSUME NEW f \in {"timeout", "vdm_timeout", "cc_debounce", "src_recover",
                            "next_role_swap"},
                 NEW at, Passes(f, at)
          PROVE  Quiet(port, port')
      BY <2>1 DEF Passes, HasReceiver, Quiet
    <2> QED BY <1>5, <2>1
            DEF Time, PortTimer, StateTimer, VdmTimer, DebounceTimer, RecoverTimer, ToggleTimer
  <1> QED BY <1>1, <1>2, <1>3, <1>4, <1>5

LEMMA NextTunes ==
    ASSUME PortInv, HasReceiver(port), [Next]_vars
    PROVE  Tunes(port, port', cable)
  <1>1. UNCHANGED vars => Tunes(port, port', cable) BY DriverQuiet DEF vars, Tunes
  <1>2. Loop \/ PollPressed => Tunes(port, port', cable) BY LoopTunes
  <1>3. Application => Tunes(port, port', cable) BY ApplicationQuiet DEF Tunes
  <1>4. PartnerSends \/ PartnerHardReset \/ TxDone \/ Plug \/ Time =>
            Tunes(port, port', cable)
    BY WorldQuiet DEF Tunes
  <1> QED BY <1>1, <1>2, <1>3, <1>4 DEF Next

LEMMA PortHasReceiver ==
    ASSUME PortInv
    PROVE  HasReceiver(port) /\ port.rx_enable \in {0, 1}
  BY DEF PortInv, Sound, Ports, HasReceiver, Bits

----------------------------------------------------------------------------
\* SNK_DISCONNECTED_DEBOUNCE, SRC_DISCONNECTED_DEBOUNCE, set_state: whenever the
\* receiver is turned on it is for the partner that is there, on its pin, and it is not
\* switched while it is on; whatever is plugged in, pulled and turned, and when.
THEOREM ListensToPartnerOnly == Spec => ListensToPartner
  <1> DEFINE Listens ==
               port'.rx_enable = 1 =>
                 \/ port.rx_enable = 1 /\ port'.polarity = port.polarity
                 \/ /\ cable.kind \notin {"none", "audio"}
                    /\ cable.kind \in {"src", "snk", "drp"} => port'.polarity = cable.flip
  <1>1. PortInv /\ [Next]_vars => [Listens]_vars
    BY PortHasReceiver, NextTunes DEF Tunes, Quiet, Tuned
  <1> HIDE DEF Listens
  <1>2. Spec => [][Listens]_vars BY <1>1, PortInvariant, PTL DEF Spec
  <1> QED BY <1>2 DEF ListensToPartner, Listens

\* A cable that nobody touches: what the receiver was turned on for is still there.
LEMMA StaysTuned ==
    ASSUME ~Replug, PortInv, Tuned(port, cable), [Next]_vars
    PROVE  Tuned(port', cable')
  <1>1. cable' = cable
    <2>1. CASE UNCHANGED vars BY <2>1 DEF vars
    <2>2. CASE Loop \/ PollPressed
      BY <2>2 DEF Loop, Poll, ProcessMessage, RunState, RunAttach, RunSink, RunSource, RunSwap,
                  RunReset, Handle, EndRun, PollPressed
    <2>3. CASE Application BY <2>3 DEF Application, Call
    <2>4. CASE PartnerSends \/ PartnerHardReset \/ TxDone \/ Plug \/ Time
      BY <2>4 DEF PartnerSends, PartnerHardReset, TxDone, TxEnds, Plug, Time, PortTimer,
                  StateTimer, VdmTimer, DebounceTimer, RecoverTimer, ToggleTimer, Passes
    <2> QED BY <2>1, <2>2, <2>3, <2>4 DEF Next
  <1>2. Tunes(port, port', cable) BY PortHasReceiver, NextTunes
  <1> QED BY <1>1, <1>2, QuietTuned DEF Tunes

LEMMA AlwaysTuned ==
    ASSUME ~Replug
    PROVE  Spec => []Tuned(port, cable)
  <1>1. Init => Tuned(port, cable) BY DEF Init, pd_init, Tuned, HasReceiver
  <1>2. PortInv /\ Tuned(port, cable) /\ [Next]_vars => Tuned(port, cable)'
    BY StaysTuned
  <1> QED BY <1>1, <1>2, PortInvariant, PTL DEF Spec

\* AttachSink, AttachSource: the chip listens on the pin that carries the partner's
\* resistor, in either orientation of the plug.
THEOREM OrientationRight == ASSUME ~Replug PROVE Spec => []OrientationOK
  <1>1. Tuned(port, cable) => OrientationOK BY DEF Tuned, OrientationOK
  <1> QED BY <1>1, AlwaysTuned, PTL

\* SRC_DISCONNECTED_DEBOUNCE: an audio accessory or an open cable is never connected to.
THEOREM PartnersOnly == ASSUME ~Replug PROVE Spec => []OnlyPartnersConnect
  <1>1. PortInv /\ Tuned(port, cable) => OnlyPartnersConnect
    BY PortHasReceiver DEF Tuned, OnlyPartnersConnect
  <1> QED BY <1>1, AlwaysTuned, PortInvariant, PTL
=============================================================================
