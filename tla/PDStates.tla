------------------------------ MODULE PDStates -----------------------------
(***************************************************************************)
(* The switch of pd_run_state_machine: one operator per state, from the    *)
(* port before the handler to the port after it.  cc is the pair of CC     *)
(* readings the handler takes.  pd_set_power_supply_ready always succeeds  *)
(* on this board, and Try.SRC is never enabled, so their branches are      *)
(* absent; the Type-C current level (typec_curr) is written but never used *)
(* and is left out.                                                        *)
(***************************************************************************)
EXTENDS PDProtocol

\* A handler does its entry work when another state ran last.
Entering(p) == p.last_state # p.task_state
OnEntry(p, q) == IF Entering(p) THEN q ELSE p

\* Most states arm their timer on entry and then wait.
WaitFor(p, state) == OnEntry(p, set_state_timeout(p, state))

SetFlags(p, fs) == [p EXCEPT !.flags = @ \cup fs]
ClearFlag(p, f) == [p EXCEPT !.flags = @ \ {f}]

cc_is_rp(cc) ==
    cc \in {TYPEC_CC_VOLT_SNK_DEF, TYPEC_CC_VOLT_SNK_1_5, TYPEC_CC_VOLT_SNK_3_0}

\* Mutant: the wrong pin.
get_snk_polarity_swapped(cc) == IF cc[2] > cc[1] THEN 0 ELSE 1

get_snk_polarity(cc) == IF cc[2] > cc[1] THEN 1 ELSE 0

\* A message that asks the partner for a swap: without GoodCRC, soft reset.
AskPartner(p, msg, ready) ==
    OnEntry(p, LET q == send_control(p, msg)
               IN IF TransmitOk(p) THEN set_state_timeout(q, ready)
                                   ELSE set_state(q, "SOFT_RESET"))

----------------------------------------------------------------------------
\* Attach as a source.

\* Mutant: Ra taken for Rd.
SomeRd_or_Ra(cc) == {cc[1], cc[2]} \cap {TYPEC_CC_VOLT_RA, TYPEC_CC_VOLT_RD} # {}

SomeRd(cc) == TYPEC_CC_VOLT_RD \in {cc[1], cc[2]}
BothRd(cc) == cc[1] = TYPEC_CC_VOLT_RD /\ cc[2] = TYPEC_CC_VOLT_RD
BothRa(cc) == cc[1] = TYPEC_CC_VOLT_RA /\ cc[2] = TYPEC_CC_VOLT_RA

SrcDisconnected(p, cc) ==
    IF SomeRd(cc) \/ BothRa(cc)
    THEN set_state([p EXCEPT !.cc_state = "NONE"], "SRC_DISCONNECTED_DEBOUNCE")
    ELSE IF p.drp_state \notin {"FORCE_SOURCE", "FREEZE"} /\ p.next_role_swap = "due"
    THEN [tcpm_set_cc(set_state([p EXCEPT !.power_role = "SINK"], "SNK_DISCONNECTED"), "RD")
            EXCEPT !.next_role_swap = "armed"]
    ELSE p

\* Mutant: the receiver stays off.
AttachSource_deaf(p, cc, acc) ==
    set_state(pd_set_data_role(p, "DFP"), "SRC_STARTUP")

\* Mutant: the pin with Rd taken for the open one.
AttachSource_other_pin(p, cc, acc) ==
    LET q == [p EXCEPT !.polarity = IF cc[1] = TYPEC_CC_VOLT_RD THEN 1 ELSE 0]
    IN set_state(tcpm_set_rx_enable(pd_set_data_role(q, "DFP"), 1), "SRC_STARTUP")

\* tcpm_set_polarity, the initial data role, VBUS and the receiver on.
AttachSource(p, cc, acc) ==
    LET q == pd_set_data_role(
                 [p EXCEPT !.polarity = IF cc[1] # TYPEC_CC_VOLT_RD THEN 1 ELSE 0], "DFP")
        r == tcpm_set_rx_enable(q, 1)
        s == SetFlags(r, {"CHECK_PR_ROLE", "CHECK_DR_ROLE"} \cup
                         (IF acc = "DEBUG_ACC" THEN {"TS_DTS_PARTNER"} ELSE {}))
    IN set_state([s EXCEPT !.hard_reset_count = 0], "SRC_STARTUP")

SrcDisconnectedDebounce(p, cc) ==
    LET new_cc_state == IF BothRd(cc) THEN "DEBUG_ACC"
                        ELSE IF SomeRd(cc) THEN "UFP_ATTACHED" ELSE "AUDIO_ACC"
    IN CASE ~SomeRd(cc) /\ ~BothRa(cc) -> set_state(p, "SRC_DISCONNECTED")
         [] (SomeRd(cc) \/ BothRa(cc)) /\ new_cc_state # p.cc_state ->
               [p EXCEPT !.cc_debounce = "armed", !.cc_state = new_cc_state]
         [] SomeRd(cc) /\ new_cc_state = p.cc_state /\ p.cc_debounce = "due" ->
               AttachSource(p, cc, new_cc_state)
         [] OTHER -> p

----------------------------------------------------------------------------
\* Source.

SrcHardResetRecover(p) ==
    IF p.src_recover = "due" THEN set_state(p, "SRC_STARTUP") ELSE p

SrcStartup(p) ==
    OnEntry(p, set_state_timeout(
        [SetFlags(p, {"CHECK_IDENTITY"}) EXCEPT !.caps_count = 0, !.msg_id = 0,
                                                !.snk_cap_count = 0],
        "SRC_DISCOVERY"))

NoResponse(p, giveUp) ==
    IF p.hard_reset_count < PD_HARD_RESET_COUNT THEN "HARD_RESET_SEND" ELSE giveUp

SrcDiscovery(p) ==
    LET q == IF Entering(p) /\ "PREVIOUS_PD_CONN" \in p.flags
             THEN set_state_timeout(p, NoResponse(p, "SRC_DISCONNECTED")) ELSE p
        r == send_source_cap(q)
    IN CASE p.caps_count < PD_CAPS_COUNT /\ TransmitOk(p) ->
               SetFlags([set_state(r, "SRC_NEGOCIATE")
                           EXCEPT !.hard_reset_count = 0, !.caps_count = 0],
                        {"PREVIOUS_PD_CONN"})
         [] p.caps_count < PD_CAPS_COUNT /\ ~TransmitOk(p) ->
               [r EXCEPT !.caps_count = @ + 1]
         [] OTHER -> q

SrcNegociate(p) == WaitFor(p, "HARD_RESET_SEND")
SrcAccepted(p) == WaitFor(p, "SRC_POWERED")
SrcPowered(p) == WaitFor(p, "SRC_TRANSITION")

SrcTransition(p) ==
    set_state(send_control(p, "PS_RDY"),
              IF TransmitOk(p) THEN "SRC_READY" ELSE "SRC_DISCONNECTED")

\* One piece of housekeeping per pass, in this order.  incoming_packet is always
\* 0 here because nothing assigns evt.  ++snk_cap_count saturates: beyond
\* PD_SNK_CAP_RETRIES every value behaves alike.
SrcReadyPolicy(p) ==
    CASE "CHECK_PR_ROLE" \in p.flags -> ClearFlag(p, "CHECK_PR_ROLE")
      [] "CHECK_PR_ROLE" \notin p.flags /\ "CHECK_DR_ROLE" \in p.flags ->
            ClearFlag(p, "CHECK_DR_ROLE")
      [] {"CHECK_PR_ROLE", "CHECK_DR_ROLE"} \cap p.flags = {}
            /\ p.data_role = "DFP" /\ "CHECK_IDENTITY" \in p.flags ->
            ClearFlag(pd_send_vdm(p), "CHECK_IDENTITY")
      [] OTHER ->
            IF "PING_ENABLED" \notin p.flags THEN p
            ELSE IF TransmitOk(p) THEN send_control(p, "PING")
            ELSE set_state(send_control(p, "PING"), "SOFT_RESET")

SrcReady(p) ==
    LET q == [p EXCEPT !.snk_cap_count =
                  IF @ > PD_SNK_CAP_RETRIES THEN @ ELSE @ + 1]
    IN CASE p.vdm_state = "BUSY" -> p
         [] p.vdm_state # "BUSY" /\ "SNK_CAP_RECVD" \notin p.flags ->
               IF q.snk_cap_count <= PD_SNK_CAP_RETRIES
               THEN set_state(send_control(q, "GET_SINK_CAP"), "SRC_GET_SINK_CAP")
               ELSE SrcReadyPolicy(q)
         [] OTHER -> SrcReadyPolicy(p)

SrcGetSinkCap(p) == WaitFor(p, "SRC_READY")
DrSwap(p) == AskPartner(p, "DR_SWAP", ReadyReturnState(p))
SrcSwapInit(p) == AskPartner(p, "PR_SWAP", "SRC_READY")
SrcSwapSnkDisable(p) == WaitFor(p, "SRC_SWAP_SRC_DISABLE")
SrcSwapSrcDisable(p) == WaitFor(p, "SRC_SWAP_STANDBY")

\* PS_RDY tells the partner our power is off; then Rd, and we are the sink.
SrcSwapStandby(p) ==
    OnEntry(p, LET q == send_control(p, "PS_RDY")
               IN IF TransmitOk(p)
                  THEN set_state_timeout(
                           [tcpm_set_cc(q, "RD") EXCEPT !.power_role = "SINK"],
                           "SNK_DISCONNECTED")
                  ELSE set_state(q, "SRC_DISCONNECTED"))

----------------------------------------------------------------------------
\* Attach as a sink.

SnkDisconnected(p, cc) ==
    IF cc[1] # TYPEC_CC_VOLT_OPEN \/ cc[2] # TYPEC_CC_VOLT_OPEN
    THEN set_state([p EXCEPT !.cc_state = "NONE", !.hard_reset_count = 0,
                             !.cc_debounce = "armed"],
                   "SNK_DISCONNECTED_DEBOUNCE")
    ELSE IF p.drp_state = "TOGGLE_ON" /\ p.next_role_swap = "due"
    THEN [tcpm_set_cc(set_state([p EXCEPT !.power_role = "SOURCE"], "SRC_DISCONNECTED"), "RP")
            EXCEPT !.next_role_swap = "armed"]
    ELSE p

AttachSink(p, cc, acc) ==
    LET q == pd_set_data_role(
                 [p EXCEPT !.polarity = get_snk_polarity(cc), !.msg_id = 0], "UFP")
        r == tcpm_set_rx_enable(q, 1)
        s == SetFlags(r, {"CHECK_PR_ROLE", "CHECK_DR_ROLE", "CHECK_IDENTITY"} \cup
                         (IF acc = "DEBUG_ACC" THEN {"TS_DTS_PARTNER"} ELSE {}))
    IN set_state(send_control(s, "GET_SOURCE_CAP"), "SNK_DISCOVERY")

SnkDisconnectedDebounce(p, cc) ==
    LET someRp == cc_is_rp(cc[1]) \/ cc_is_rp(cc[2])
        new_cc_state == IF cc_is_rp(cc[1]) /\ cc_is_rp(cc[2]) THEN "DEBUG_ACC"
                                                              ELSE "DFP_ATTACHED"
    IN CASE ~someRp -> set_state(p, "SNK_DISCONNECTED")
         [] someRp /\ new_cc_state # p.cc_state ->
               [p EXCEPT !.cc_debounce = "armed", !.cc_state = new_cc_state]
         [] someRp /\ new_cc_state = p.cc_state
               /\ p.cc_debounce = "due" /\ pd_is_vbus_present(p) ->
               AttachSink(p, cc, new_cc_state)
         [] OTHER -> p

----------------------------------------------------------------------------
\* Sink.

SnkHardResetRecover(p) ==
    LET q == OnEntry(p, set_state_timeout(
                 [SetFlags(p, {"CHECK_IDENTITY"}) EXCEPT !.vbus_off = 0],
                 NoResponse(p, "SNK_DISCOVERY")))
        r == IF ~pd_is_vbus_present(q) /\ q.vbus_off = 0
             THEN set_state_timeout([q EXCEPT !.vbus_off = 1], "SNK_DISCONNECTED") ELSE q
    IN IF pd_is_vbus_present(r) /\ r.vbus_off = 1
       THEN set_state(r, "SNK_DISCOVERY") ELSE r

\* Mutant: hard resets without a limit.
SnkDiscovery_unlimited(p) == OnEntry(p, set_state_timeout(p, "HARD_RESET_SEND"))

\* SinkWaitCapTimer, or NoResponseTimer once the hard resets are used up.
SnkDiscovery(p) ==
    CASE Entering(p) /\ p.hard_reset_count < PD_HARD_RESET_COUNT ->
            set_state_timeout(p, "HARD_RESET_SEND")
      [] Entering(p) /\ p.hard_reset_count = PD_HARD_RESET_COUNT
            /\ "PREVIOUS_PD_CONN" \in p.flags -> set_state_timeout(p, "SNK_DISCONNECTED")
      [] OTHER -> p

SnkRequested(p) ==
    OnEntry(p, set_state_timeout([p EXCEPT !.hard_reset_count = 0], "HARD_RESET_SEND"))

SnkTransition(p) == WaitFor(p, "HARD_RESET_SEND")

SnkReadyPolicy(p) ==
    CASE "CHECK_PR_ROLE" \in p.flags -> ClearFlag(p, "CHECK_PR_ROLE")
      [] "CHECK_PR_ROLE" \notin p.flags /\ "CHECK_DR_ROLE" \in p.flags ->
            ClearFlag(p, "CHECK_DR_ROLE")
      [] {"CHECK_PR_ROLE", "CHECK_DR_ROLE"} \cap p.flags = {}
            /\ p.data_role = "DFP" /\ "CHECK_IDENTITY" \in p.flags ->
            ClearFlag(pd_send_vdm(p), "CHECK_IDENTITY")
      [] OTHER -> p

SnkReady(p) ==
    CASE p.vdm_state = "BUSY" -> p
      [] p.vdm_state # "BUSY" /\ p.new_power_request = 1 ->
            IF RequestMsgOk(p, FALSE) THEN pd_send_request_msg(p, FALSE)
            ELSE set_state(pd_send_request_msg(p, FALSE), "SOFT_RESET")
      [] OTHER -> SnkReadyPolicy(p)

SnkSwapInit(p) == AskPartner(p, "PR_SWAP", "SNK_READY")
SnkSwapSnkDisable(p) == set_state(p, "SNK_SWAP_SRC_DISABLE")
SnkSwapSrcDisable(p) == WaitFor(p, "HARD_RESET_SEND")
SnkSwapStandby(p) ==
    OnEntry(p, set_state_timeout(tcpm_set_cc(p, "RP"), "SNK_SWAP_COMPLETE"))

\* Mutant: the roles stay.
SnkSwapComplete_still_sink(p) == set_state(send_control(p, "PS_RDY"), "SRC_DISCOVERY")

\* Mutant: Rp stays when the partner is gone.
SnkSwapComplete_keeps_Rp(p) == set_state(send_control(p, "PS_RDY"), "SNK_DISCONNECTED")

\* Mutant: the role changes before PS_RDY is known to be out.
SnkSwapComplete_role_first(p) ==
    LET q == [send_control(p, "PS_RDY") EXCEPT !.power_role = "SOURCE"]
    IN IF TransmitOk(p)
       THEN set_state(pd_update_roles([q EXCEPT !.msg_id = 0]), "SRC_DISCOVERY")
       ELSE set_state(tcpm_set_cc(q, "RD"), "SNK_DISCONNECTED")

\* PS_RDY tells the partner our power is on, and we are the source.
SnkSwapComplete(p) ==
    LET q == send_control(p, "PS_RDY")
        r == [q EXCEPT !.snk_cap_count = PD_SNK_CAP_RETRIES + 1, !.caps_count = 0,
                       !.msg_id = 0, !.power_role = "SOURCE"]
    IN IF TransmitOk(p) THEN set_state(pd_update_roles(r), "SRC_DISCOVERY")
                        ELSE set_state(tcpm_set_cc(q, "RD"), "SNK_DISCONNECTED")

----------------------------------------------------------------------------
\* Resets.

\* Mutant: without GoodCRC it only waits.
SoftReset_waits(p) ==
    OnEntry(p, LET q == send_control([p EXCEPT !.msg_id = 0], "SOFT_RESET")
               IN IF TransmitOk(p) THEN set_state_timeout(q, "HARD_RESET_SEND") ELSE q)

SoftReset(p) ==
    OnEntry(p, LET q == send_control([p EXCEPT !.msg_id = 0], "SOFT_RESET")
               IN IF TransmitOk(p) THEN set_state_timeout(q, "HARD_RESET_SEND")
                                   ELSE set_state(q, "HARD_RESET_SEND"))

\* hard_reset_count saturates: it is only compared with PD_HARD_RESET_COUNT.
HardResetSend(p) ==
    LET q == [p EXCEPT
                !.hard_reset_count = IF @ < PD_HARD_RESET_COUNT THEN @ + 1 ELSE @,
                !.hard_reset_sent = IF Entering(p) THEN 0 ELSE @]
        r == pd_transmit(q, "HARD_RESET")
    IN CASE q.hard_reset_sent = 1 -> q
         [] q.hard_reset_sent = 0 /\ ~TransmitOk(p) -> r
         [] OTHER ->
               IF IsSink(p)
               THEN set_state([r EXCEPT !.hard_reset_sent = 1], "HARD_RESET_EXECUTE")
               ELSE set_state_timeout([r EXCEPT !.hard_reset_sent = 1],
                                      "HARD_RESET_EXECUTE")

HardResetExecute(p) ==
    pd_execute_hard_reset(
        IF p.last_state = "SNK_SWAP_STANDBY" THEN tcpm_set_cc(p, "RD") ELSE p)

----------------------------------------------------------------------------
\* After the switch.

\* Mutant: a state a handler moves to counts as entered already.
FinishState_entered(p, ran) ==
    LET q == [p EXCEPT !.last_state = p.task_state]
    IN IF q.timeout = "due" THEN set_state(q, q.timeout_state) ELSE q

\* Mutant: the timer is not looked at.
FinishState_untimed(p, ran) == [p EXCEPT !.last_state = ran]

\* last_state becomes the state whose handler ran; then the state timer.
FinishState(p, ran) ==
    LET q == [p EXCEPT !.last_state = ran]
    IN IF q.timeout = "due" THEN set_state(q, q.timeout_state) ELSE q

CheckDisconnect(p, cc) ==
    LET line == IF p.polarity = 1 THEN cc[2] ELSE cc[1]
    IN CASE ~pd_is_connected(p) \/ pd_is_power_swapping(p) -> p
         [] pd_is_connected(p) /\ ~pd_is_power_swapping(p) /\ ~IsSink(p)
               /\ line = TYPEC_CC_VOLT_OPEN -> set_state(p, "SRC_DISCONNECTED")
         [] pd_is_connected(p) /\ ~pd_is_power_swapping(p) /\ IsSink(p)
               /\ ~pd_is_vbus_present(p)
               /\ p.task_state \notin {"SNK_HARD_RESET_RECOVER", "HARD_RESET_EXECUTE"} ->
               set_state(p, "SNK_DISCONNECTED")
         [] OTHER -> p
=============================================================================
