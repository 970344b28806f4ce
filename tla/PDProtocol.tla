----------------------------- MODULE PDProtocol ----------------------------
(***************************************************************************)
(* The functions of usb_pd_protocol.cpp below pd_run_state_machine: state  *)
(* changes, transmission, resets, the handlers of received messages, the   *)
(* VDM state machine, and the public requests.                             *)
(***************************************************************************)
EXTENDS PDPolicy

IsSink(p) == p.power_role = "SINK"

\* DUAL_ROLE_IF_ELSE and READY_RETURN_STATE
ByRole(p, snk, src) == IF IsSink(p) THEN snk ELSE src
ReadyReturnState(p) == ByRole(p, "SNK_READY", "SRC_READY")

pd_is_connected(p) ==
    /\ p.task_state # "DISABLED"
    /\ p.task_state \notin
         ByRole(p, {"SNK_DISCONNECTED", "SNK_DISCONNECTED_DEBOUNCE"},
                   {"SRC_DISCONNECTED", "SRC_DISCONNECTED_DEBOUNCE"})

pd_is_vbus_present(p) == pd_snk_is_vbus_provided(p)

pd_is_power_swapping(p) == p.task_state \in PowerSwapping

set_state_timeout(p, state) ==
    [p EXCEPT !.timeout = "armed", !.timeout_state = state]

\* Mutant: the receiver stays on.
set_state_listening(p, next) ==
    [p EXCEPT !.timeout = "off", !.timeout_state = "DISABLED", !.task_state = next]

\* Mutant: the timer of the state that is left goes on.
set_state_timer_runs(p, next) ==
    LET q == [p EXCEPT !.task_state = next]
    IN IF next \in Disconnected /\ p.task_state \notin Disconnected
       THEN tcpm_set_rx_enable(q, 0) ELSE q

(***************************************************************************)
(* set_state always stops the state timer.  Entering a disconnected state  *)
(* turns the receiver off, except when toggling between the two.           *)
(***************************************************************************)
set_state(p, next) ==
    LET q == [p EXCEPT !.timeout = "off", !.timeout_state = "DISABLED",
                       !.task_state = next]
    IN IF next \in Disconnected /\ p.task_state \notin Disconnected
       THEN tcpm_set_rx_enable(q, 0) ELSE q

inc_id(p) == [p EXCEPT !.msg_id = (@ + 1) % MsgIds]

pd_transmit_complete(p, status) ==
    LET q == IF status = "SUCCESS" THEN inc_id(p) ELSE p
    IN [q EXCEPT !.tx_status = status]

(***************************************************************************)
(* pd_transmit starts a transmission and returns at once.  Its result is   *)
(* read from tx_status, which only the next alert updates: it tells how    *)
(* the PREVIOUS transmission ended.                                        *)
(***************************************************************************)
pd_transmit(p, what) == tcpm_transmit(p, what)
TransmitOk(p) == p.tx_status = "SUCCESS"

send_control(p, type) == pd_transmit(p, type)
send_source_cap(p) == pd_transmit(p, IF pd_src_pdo_cnt = 0 THEN "REJECT" ELSE "SOURCE_CAP")
send_sink_cap(p) == pd_transmit(p, "SINK_CAP")
send_request(p) == pd_transmit(p, "REQUEST")

\* Mutant: the chip is not told.
pd_update_roles_not(p) == p

pd_update_roles(p) == tcpm_set_msg_header(p, p.power_role, p.data_role)

pd_set_data_role(p, role) == pd_update_roles([p EXCEPT !.data_role = role])

\* Mutant: the chip is not told.
pd_dr_swap_silently(p) ==
    [p EXCEPT !.data_role = IF @ = "UFP" THEN "DFP" ELSE "UFP",
              !.flags = @ \cup {"CHECK_IDENTITY"}]

pd_dr_swap(p) ==
    LET q == pd_set_data_role(p, IF p.data_role = "UFP" THEN "DFP" ELSE "UFP")
    IN [q EXCEPT !.flags = @ \cup {"CHECK_IDENTITY"}]

pd_execute_hard_reset(p) ==
    LET q == [p EXCEPT !.msg_id = 0, !.last_state = "HARD_RESET_EXECUTE"]
        r == IF p.task_state \in {"SNK_SWAP_STANDBY", "SNK_SWAP_COMPLETE"}
             THEN tcpm_set_cc(q, "RD") ELSE q
    IN IF IsSink(p)
       THEN set_state(r, "SNK_HARD_RESET_RECOVER")
       ELSE set_state([r EXCEPT !.src_recover = "armed"], "SRC_HARD_RESET_RECOVER")

\* Mutant: the state is written beside set_state, as by the button.
execute_soft_reset_timer_runs(p) ==
    [p EXCEPT !.msg_id = 0, !.task_state = ByRole(p, "SNK_DISCOVERY", "SRC_DISCOVERY")]

execute_soft_reset(p) ==
    set_state([p EXCEPT !.msg_id = 0], ByRole(p, "SNK_DISCOVERY", "SRC_DISCOVERY"))

(***************************************************************************)
(* pd_send_request_msg and its result: nothing is sent when the voltage is *)
(* the one requested before, unless the caller insists.                    *)
(***************************************************************************)
SameRequest(p, always) == ~always /\ p.prev_request_mv = pd_build_request(p)
RequestMsgOk(p, always) == SameRequest(p, always) \/ TransmitOk(p)
pd_send_request_msg(p, always) ==
    LET q == [p EXCEPT !.new_power_request = 0]
        r == send_request([q EXCEPT !.supply_voltage = pd_build_request(p),
                                    !.prev_request_mv = pd_build_request(p)])
    IN CASE SameRequest(p, always) -> q
         [] ~SameRequest(p, always) /\ TransmitOk(p) -> set_state(r, "SNK_REQUESTED")
         [] OTHER -> r

queue_vdm(p) == [p EXCEPT !.vdm_state = "READY"]
pd_send_vdm(p) == queue_vdm(p)

\* Mutant: "busy, ask again later" stops the deadline.
handle_vdm_request_no_retry(p, cmdt) ==
    IF p.vdm_state # "BUSY" THEN p
    ELSE [p EXCEPT !.vdm_timeout = "off",
                   !.vdm_state = IF cmdt = "RSP_BUSY" THEN "WAIT_RSP_BUSY" ELSE "DONE"]

\* pd_svdm and pd_custom_vdm answer nothing on this board.
handle_vdm_request(p, cmdt) ==
    IF p.vdm_state # "BUSY" THEN p
    ELSE IF cmdt = "RSP_BUSY"
         THEN [p EXCEPT !.vdm_timeout = "armed", !.vdm_state = "WAIT_RSP_BUSY"]
         ELSE [p EXCEPT !.vdm_state = "DONE"]

----------------------------------------------------------------------------
\* Data messages.

handle_source_cap(p, m) ==
    IF p.task_state \notin {"SNK_DISCOVERY", "SNK_TRANSITION", "SNK_READY"} THEN p
    ELSE LET q == pd_update_pdo_flags(
                      [p EXCEPT !.flags = @ \cup {"PREVIOUS_PD_CONN"}], m.pdo0)
             r == pd_send_request_msg(pd_process_source_cap(q, m.mv), TRUE)
         IN pd_process_source_cap_callback(r, m.mv)

\* An unacceptable Request is rejected and the port moves to SRC_READY; the
\* code does so whatever its power role is.
handle_data_rdo(p, m) ==
    IF ~IsSink(p) /\ m.cnt = 1 /\ pd_check_requested_voltage(m.rdo)
    THEN LET q == send_control(p, "ACCEPT")
         IN IF TransmitOk(p)
            THEN set_state([q EXCEPT !.flags = @ \cup {"EXPLICIT_CONTRACT"}],
                           "SRC_ACCEPTED")
            ELSE q
    ELSE set_state(send_control(p, "REJECT"), "SRC_READY")

handle_bist(p, m) ==
    IF p.task_state = ReadyReturnState(p) /\ m.mode2 = 1
    THEN set_state(pd_transmit(p, "BIST"),
                   ByRole(p, "SNK_DISCONNECTED", "SRC_DISCONNECTED"))
    ELSE p

handle_sink_cap(p, m) ==
    LET q == pd_update_pdo_flags([p EXCEPT !.flags = @ \cup {"SNK_CAP_RECVD"}], m.pdo0)
    IN IF p.task_state = "SRC_GET_SINK_CAP" THEN set_state(q, "SRC_READY") ELSE q

handle_data_request(p, m) ==
    CASE m.type = "SOURCE_CAP" -> handle_source_cap(p, m)
      [] m.type = "REQUEST" -> handle_data_rdo(p, m)
      [] m.type = "BIST" -> handle_bist(p, m)
      [] m.type = "SINK_CAP" -> handle_sink_cap(p, m)
      [] m.type = "VENDOR_DEF" -> handle_vdm_request(p, m.cmdt)

----------------------------------------------------------------------------
\* Control messages.

handle_get_source_cap(p) ==
    LET q == send_source_cap(p)
    IN IF TransmitOk(p) /\ p.task_state = "SRC_DISCOVERY"
       THEN set_state(q, "SRC_NEGOCIATE") ELSE q

handle_ps_rdy(p) ==
    CASE p.task_state = "SNK_SWAP_SRC_DISABLE" -> set_state(p, "SNK_SWAP_STANDBY")
      [] p.task_state = "SRC_SWAP_STANDBY" ->
            set_state(pd_update_roles([p EXCEPT !.msg_id = 0, !.power_role = "SINK"]),
                      "SNK_DISCOVERY")
      [] p.task_state = "SNK_DISCOVERY" -> set_state(p, "HARD_RESET_SEND")
      [] p.task_state = "SNK_SWAP_STANDBY" -> p
      [] OTHER -> IF IsSink(p) THEN set_state(p, "SNK_READY") ELSE p

\* Wait with a contract in place: request again from SNK_READY, later.
request_again_later(p) ==
    set_state_timeout([p EXCEPT !.new_power_request = 1, !.prev_request_mv = 0],
                      "SNK_READY")

handle_reject_wait(p, type) ==
    CASE p.task_state = "DR_SWAP" -> set_state(p, ReadyReturnState(p))
      [] p.task_state = "SRC_SWAP_INIT" -> set_state(p, "SRC_READY")
      [] p.task_state = "SNK_SWAP_INIT" -> set_state(p, "SNK_READY")
      [] p.task_state = "SNK_REQUESTED" ->
            IF "EXPLICIT_CONTRACT" \notin p.flags THEN set_state(p, "SNK_DISCOVERY")
            ELSE IF type = "WAIT" THEN request_again_later(p)
            ELSE set_state(p, "SNK_READY")
      [] OTHER -> p

\* Mutant: the contract survives the swap.
DropContract_not(p) == p

DropContract(p) == [p EXCEPT !.flags = @ \ {"EXPLICIT_CONTRACT"}]

\* Mutant: the contract is not recorded.
handle_accept_unrecorded(p) ==
    IF p.task_state = "SNK_REQUESTED" THEN set_state(p, "SNK_TRANSITION") ELSE p

handle_accept(p) ==
    CASE p.task_state = "SOFT_RESET" -> execute_soft_reset(p)
      [] p.task_state = "DR_SWAP" -> set_state(pd_dr_swap(p), ReadyReturnState(p))
      [] p.task_state = "SRC_SWAP_INIT" ->
            set_state(DropContract(p), "SRC_SWAP_SNK_DISABLE")
      [] p.task_state = "SNK_SWAP_INIT" ->
            set_state(DropContract(p), "SNK_SWAP_SNK_DISABLE")
      [] p.task_state = "SNK_REQUESTED" ->
            set_state([p EXCEPT !.flags = @ \cup {"EXPLICIT_CONTRACT"}],
                      "SNK_TRANSITION")
      [] OTHER -> p

handle_pr_swap(p) ==
    IF pd_check_power_swap(p)
    THEN set_state([send_control(p, "ACCEPT") EXCEPT !.flags = @ \ {"CHECK_PR_ROLE"}],
                   ByRole(p, "SNK_SWAP_SNK_DISABLE", "SRC_SWAP_SNK_DISABLE"))
    ELSE send_control(p, "REJECT")

handle_dr_swap(p) ==
    IF pd_check_data_swap(p)
    THEN LET q == send_control([p EXCEPT !.flags = @ \ {"CHECK_DR_ROLE"}], "ACCEPT")
         IN IF TransmitOk(p) THEN pd_dr_swap(q) ELSE q
    ELSE send_control(p, "REJECT")

handle_ctrl_request(p, type) ==
    CASE type = "GET_SOURCE_CAP" -> handle_get_source_cap(p)
      [] type = "GET_SINK_CAP" -> send_sink_cap(p)
      [] type = "PS_RDY" -> handle_ps_rdy(p)
      [] type \in {"REJECT", "WAIT"} -> handle_reject_wait(p, type)
      [] type = "ACCEPT" -> handle_accept(p)
      [] type = "SOFT_RESET" -> send_control(execute_soft_reset(p), "ACCEPT")
      [] type = "PR_SWAP" -> handle_pr_swap(p)
      [] type = "DR_SWAP" -> handle_dr_swap(p)
      [] type = "VCONN_SWAP" -> send_control(p, "REJECT")
      [] OTHER -> p

handle_request(p, m) ==
    IF ~pd_is_connected(p) THEN p
    ELSE IF m.type \in DataTypes THEN handle_data_request(p, m)
    ELSE handle_ctrl_request(p, m.type)

----------------------------------------------------------------------------
\* VDM sender, public requests, and the alert handler.

pdo_busy(p) == p.task_state \notin {"SRC_READY", "SNK_READY"}

\* Mutant: no deadline for the answer.
pd_vdm_send_without_deadline(p) ==
    IF p.vdm_state = "READY" /\ pd_is_connected(p) /\ ~pdo_busy(p) /\ TransmitOk(p)
    THEN [pd_transmit(p, "VENDOR_DEF") EXCEPT !.vdm_state = "BUSY"] ELSE p

pd_vdm_send_state_machine(p) ==
    CASE p.vdm_state = "READY" /\ ~pd_is_connected(p) ->
            [p EXCEPT !.vdm_state = "ERR_BUSY"]
      [] p.vdm_state = "READY" /\ pd_is_connected(p) /\ ~pdo_busy(p) ->
            LET q == pd_transmit(p, "VENDOR_DEF")
            IN IF TransmitOk(p)
               THEN [q EXCEPT !.vdm_state = "BUSY", !.vdm_timeout = "armed"]
               ELSE [q EXCEPT !.vdm_state = "ERR_SEND"]
      [] p.vdm_state = "WAIT_RSP_BUSY" /\ p.vdm_timeout = "due" -> queue_vdm(p)
      [] p.vdm_state = "BUSY" /\ p.vdm_timeout = "due" ->
            [p EXCEPT !.vdm_state = "ERR_TMOUT"]
      [] OTHER -> p

pd_soft_reset(p) == IF pd_is_connected(p) THEN set_state(p, "SOFT_RESET") ELSE p

pd_request_power_swap(p) ==
    CASE p.task_state = "SRC_READY" -> set_state(p, "SRC_SWAP_INIT")
      [] p.task_state = "SNK_READY" -> set_state(p, "SNK_SWAP_INIT")
      [] OTHER -> p

pd_request_data_swap(p) ==
    IF p.task_state = ReadyReturnState(p) THEN set_state(p, "DR_SWAP") ELSE p

\* The event that would make the task act on the new value is commented out.
pd_set_dual_role(p, state) == [p EXCEPT !.drp_state = state]

pd_ping_enable(p, enable) ==
    [p EXCEPT !.flags = IF enable THEN @ \cup {"PING_ENABLED"} ELSE @ \ {"PING_ENABLED"}]

pd_set_new_power_request(p) == [p EXCEPT !.new_power_request = 1]

(***************************************************************************)
(* fusb302_tcpc_alert: reading the interrupt registers clears them; the    *)
(* causes are then handled in this order.                                  *)
(***************************************************************************)
tcpc_alert(p) ==
    LET p0 == [p EXCEPT !.ints = {}]
        p1 == IF "COLLISION" \in p.ints THEN pd_transmit_complete(p0, "FAILED") ELSE p0
        p2 == IF "TX_SUCCESS" \in p.ints THEN pd_transmit_complete(p1, "SUCCESS") ELSE p1
        p3 == IF "RETRYFAIL" \in p.ints THEN pd_transmit_complete(p2, "FAILED") ELSE p2
        p4 == IF "HARDSENT" \in p.ints
              THEN pd_transmit_complete(fusb302_pd_reset(p3), "SUCCESS") ELSE p3
        p5 == IF "HARDRESET" \in p.ints
              THEN pd_execute_hard_reset(fusb302_pd_reset(p4)) ELSE p4
    IN IF "GCRCSENT" \in p.ints /\ p5.rx_enable = 0
       THEN [p5 EXCEPT !.rx_fifo = << >>] ELSE p5
=============================================================================
