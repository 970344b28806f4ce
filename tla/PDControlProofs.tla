--------------------------- MODULE PDControlProofs ---------------------------
(***************************************************************************)
(* Theorems about the control of one port, its state, its state timer and  *)
(* its contract, for every cable, message set and limit, and with the push *)
(* button pressed at any time.                                             *)
(*                                                                         *)
(* An operator of the firmware either keeps the control of the port, or    *)
(* arms the timer of the state it is in, or enters a state with the timer  *)
(* stopped.  One lemma per operator says which; what an entered state      *)
(* needs is a contract, or the end of one (Fits), and that the state timer *)
(* will be armed, which a state entered twice in a row does not do         *)
(* (Reentry).                                                              *)
(***************************************************************************)
EXTENDS PDPortProofs

Contracted(p) == "EXPLICIT_CONTRACT" \in p.flags
Powering == {"SRC_ACCEPTED", "SRC_POWERED", "SRC_TRANSITION", "SNK_TRANSITION"}

Fits(p) ==
    /\ p.task_state \in PowerSwapping => ~Contracted(p)
    /\ p.task_state \in Powering => Contracted(p)

HasControl(p) ==
    {"task_state", "last_state", "timeout", "timeout_state", "flags"} \subseteq DOMAIN p

SameContract(p, q) == HasControl(q) /\ (Contracted(q) <=> Contracted(p))
SameState(p, q) == SameContract(p, q) /\ q.task_state = p.task_state

Kept(p, q) ==
    /\ SameState(p, q)
    /\ q.last_state = p.last_state
    /\ q.timeout = p.timeout /\ q.timeout_state = p.timeout_state

Entered(p, q, s) ==
    /\ SameContract(p, q)
    /\ q.task_state = s /\ q.last_state = p.last_state
    /\ q.timeout = "off"

Armed(p, q, s) ==
    /\ SameState(p, q)
    /\ q.last_state = p.last_state
    /\ q.timeout = "armed" /\ q.timeout_state = s

\* The states of TimedStates that a message leads to, and from where.
TimedMoves ==
    {<<"SNK_REQUESTED", "SNK_TRANSITION">>, <<"SRC_DISCOVERY", "SRC_NEGOCIATE">>,
     <<"SRC_SWAP_INIT", "SRC_SWAP_SNK_DISABLE">>,
     <<"SNK_SWAP_SRC_DISABLE", "SNK_SWAP_STANDBY">>}

\* What a message does.
Taken(p, q) ==
    \/ Kept(p, q)
    \/ p.task_state = "SNK_REQUESTED" /\ Armed(p, q, "SNK_READY")
    \/ /\ HasControl(q) /\ Fits(q)
       /\ q.timeout = "off" /\ q.last_state = p.last_state
       /\ q.task_state \in TimedStates => <<p.task_state, q.task_state>> \in TimedMoves

\* Where a handler may leave a timed state for, besides by its timer.
Aside == Disconnected \cup {"SNK_DISCOVERY"}

\* What the handler of a state does.
Ran(p, q) ==
    \/ Kept(p, q) /\ (Entering(p) => p.task_state \notin TimedStates \cup {"SOFT_RESET"})
    \/ \E s \in TimerTargets(p.task_state) : Armed(p, q, s)
    \/ /\ HasControl(q) /\ Fits(q)
       /\ q.timeout = "off"
       /\ p.task_state \in TimedStates => q.task_state \in Aside

\* Nothing special is asked of these when they are entered.
Free ==
    Disconnected \cup Debouncing \cup
    {"SNK_DISCOVERY", "SNK_REQUESTED", "SNK_READY", "SNK_SWAP_INIT", "SRC_DISCOVERY",
     "SRC_READY", "DR_SWAP", "SRC_SWAP_INIT", "SOFT_RESET", "HARD_RESET_SEND",
     "HARD_RESET_EXECUTE"}

----------------------------------------------------------------------------
\* The relations.

LEMMA KeptTwice ==
    ASSUME NEW p, NEW q, NEW r, Kept(p, q), Kept(q, r)
    PROVE  Kept(p, r)
  BY DEF Kept, SameState, SameContract

LEMMA KeptThen ==
    ASSUME NEW p, NEW q, NEW r, NEW s, Kept(p, q)
    PROVE  /\ Entered(q, r, s) => Entered(p, r, s)
           /\ Armed(q, r, s) => Armed(p, r, s)
  BY DEF Kept, SameState, SameContract, Entered, Armed

LEMMA KeptControl ==
    ASSUME NEW p, NEW q, Kept(p, q)
    PROVE  HasControl(q) /\ q.task_state = p.task_state /\ q.last_state = p.last_state
  BY DEF Kept, SameState, SameContract

LEMMA FreeFits ==
    ASSUME NEW p, NEW q, NEW s \in Free, Entered(p, q, s)
    PROVE  HasControl(q) /\ Fits(q) /\ q.task_state \notin TimedStates /\ q.timeout = "off"
  <1>1. s \notin PowerSwapping /\ s \notin Powering /\ s \notin TimedStates
    BY DEF Free, Disconnected, Debouncing, PowerSwapping, Powering, TimedStates
  <1> QED BY <1>1, Zenon DEF Entered, SameContract, Fits

LEMMA FreeTaken ==
    ASSUME NEW p, NEW q, NEW s \in Free, Entered(p, q, s)
    PROVE  Taken(p, q)
  BY FreeFits DEF Taken, Entered

----------------------------------------------------------------------------
\* State changes and the driver.

LEMMA SetState ==
    ASSUME NEW p, HasControl(p), NEW s
    PROVE  Entered(p, set_state(p, s), s)
  BY DEF HasControl, Entered, SameContract, Contracted, set_state, tcpm_set_rx_enable

LEMMA SetTimeout ==
    ASSUME NEW p, HasControl(p), NEW s
    PROVE  Armed(p, set_state_timeout(p, s), s)
  BY DEF HasControl, Armed, SameState, SameContract, Contracted, set_state_timeout

LEMMA DriverKeeps ==
    ASSUME NEW p, HasControl(p)
    PROVE  /\ Kept(p, p)
           /\ \A what : Kept(p, tcpm_transmit(p, what))
           /\ \A pull : Kept(p, tcpm_set_cc(p, pull))
           /\ \A pr, dr : Kept(p, tcpm_set_msg_header(p, pr, dr))
           /\ \A e : Kept(p, tcpm_set_rx_enable(p, e))
           /\ Kept(p, fusb302_pd_reset(p))
  BY DEF HasControl, Kept, SameState, SameContract, Contracted, tcpm_transmit, tcpm_set_cc,
         tcpm_set_msg_header, tcpm_set_rx_enable, fusb302_pd_reset

LEMMA SendsKeep ==
    ASSUME NEW p, HasControl(p)
    PROVE  /\ \A what : Kept(p, pd_transmit(p, what)) /\ Kept(p, send_control(p, what))
           /\ Kept(p, send_source_cap(p)) /\ Kept(p, send_sink_cap(p))
           /\ Kept(p, send_request(p))
  BY DriverKeeps DEF pd_transmit, send_control, send_source_cap, send_sink_cap, send_request

\* Fields other than those of the control, and other flags.
LEMMA FieldsKeep ==
    ASSUME NEW p, HasControl(p), NEW v
    PROVE  /\ Kept(p, [p EXCEPT !.msg_id = v]) /\ Kept(p, [p EXCEPT !.power_role = v])
           /\ Kept(p, [p EXCEPT !.data_role = v]) /\ Kept(p, [p EXCEPT !.tx_status = v])
           /\ Kept(p, [p EXCEPT !.ints = v]) /\ Kept(p, [p EXCEPT !.rx_fifo = v])
           /\ Kept(p, [p EXCEPT !.vdm_state = v]) /\ Kept(p, [p EXCEPT !.vdm_timeout = v])
           /\ Kept(p, [p EXCEPT !.new_power_request = v])
           /\ Kept(p, [p EXCEPT !.hard_reset_count = v])
           /\ Kept(p, [p EXCEPT !.hard_reset_sent = v])
           /\ Kept(p, [p EXCEPT !.caps_count = v]) /\ Kept(p, [p EXCEPT !.snk_cap_count = v])
           /\ Kept(p, [p EXCEPT !.cc_state = v]) /\ Kept(p, [p EXCEPT !.vbus_off = v])
           /\ Kept(p, [p EXCEPT !.next_role_swap = v]) /\ Kept(p, [p EXCEPT !.drp_state = v])
           /\ Kept(p, [p EXCEPT !.src_recover = v]) /\ Kept(p, [p EXCEPT !.polarity = v])
           /\ Kept(p, [p EXCEPT !.cap_index = v]) /\ Kept(p, [p EXCEPT !.cap_max = v])
           /\ Kept(p, [p EXCEPT !.cc_debounce = v])
  BY DEF HasControl, Kept, SameState, SameContract, Contracted

LEMMA FlagsKeep ==
    ASSUME NEW p, HasControl(p), NEW fs, "EXPLICIT_CONTRACT" \notin fs
    PROVE  /\ Kept(p, [p EXCEPT !.flags = @ \cup fs])
           /\ Kept(p, [p EXCEPT !.flags = @ \ fs])
           /\ Kept(p, SetFlags(p, fs))
  BY DEF HasControl, Kept, SameState, SameContract, Contracted, SetFlags

LEMMA ClearKeeps ==
    ASSUME NEW p, HasControl(p), NEW f, f # "EXPLICIT_CONTRACT"
    PROVE  Kept(p, ClearFlag(p, f))
  BY DEF HasControl, Kept, SameState, SameContract, Contracted, ClearFlag

LEMMA RolesKeep ==
    ASSUME NEW p, HasControl(p), NEW role
    PROVE  /\ Kept(p, pd_update_roles(p)) /\ Kept(p, pd_set_data_role(p, role))
           /\ Kept(p, pd_dr_swap(p))
  <1>1. \A q : HasControl(q) => Kept(q, pd_update_roles(q))
    BY DriverKeeps DEF pd_update_roles
  <1>2. \A r : Kept(p, pd_set_data_role(p, r))
    BY <1>1, FieldsKeep, KeptControl, KeptTwice DEF pd_set_data_role
  <1>3. Kept(p, pd_dr_swap(p))
    <2> DEFINE q == pd_set_data_role(p, IF p.data_role = "UFP" THEN "DFP" ELSE "UFP")
    <2>1. Kept(p, q) /\ HasControl(q) BY <1>2, KeptControl
    <2> HIDE DEF q
    <2>2. Kept(q, [q EXCEPT !.flags = @ \cup {"CHECK_IDENTITY"}]) BY <2>1, FlagsKeep
    <2> QED BY <2>1, <2>2, KeptTwice DEF pd_dr_swap, q
  <1> QED BY <1>1, <1>2, <1>3

----------------------------------------------------------------------------
\* Messages.

LEMMA PdoFlagsKeep ==
    ASSUME NEW p, HasControl(p), NEW pdo0 \in Pdo0s
    PROVE  Kept(p, pd_update_pdo_flags(p, pdo0))
  <1>1. "EXPLICIT_CONTRACT" \notin pdo0.flags /\ "EXPLICIT_CONTRACT" \notin PartnerFlags
    BY DEF Pdo0s, PartnerFlags
  <1>2. Kept(p, [p EXCEPT !.flags = (@ \ PartnerFlags) \cup pdo0.flags])
    BY <1>1, Zenon DEF HasControl, Kept, SameState, SameContract, Contracted
  <1> QED BY <1>2, DriverKeeps DEF pd_update_pdo_flags

LEMMA CapsKeep ==
    ASSUME NEW p, HasControl(p), NEW mv
    PROVE  Kept(p, pd_process_source_cap(p, mv)) /\ Kept(p, pd_process_source_cap_callback(p, mv))
  BY Zenon DEF HasControl, Kept, SameState, SameContract, Contracted,
               pd_process_source_cap, pd_process_source_cap_callback

\* A Request is sent from SNK_READY too, hence for every state of the port.
LEMMA RequestMsg ==
    ASSUME NEW p, HasControl(p), NEW always
    PROVE  \/ Kept(p, pd_send_request_msg(p, always))
           \/ Entered(p, pd_send_request_msg(p, always), "SNK_REQUESTED")
  <1> DEFINE q == [p EXCEPT !.new_power_request = 0]
             v == [q EXCEPT !.supply_voltage = pd_build_request(p),
                            !.prev_request_mv = pd_build_request(p)]
             r == send_request(v)
  <1>1. Kept(p, q) BY FieldsKeep
  <1>2. Kept(q, v)
    <2> HasControl(q) BY <1>1, KeptControl
    <2> HIDE DEF q
    <2> QED BY Zenon DEF HasControl, Kept, SameState, SameContract, Contracted
  <1>3. pd_send_request_msg(p, always) =
          CASE SameRequest(p, always) -> q
            [] ~SameRequest(p, always) /\ TransmitOk(p) -> set_state(r, "SNK_REQUESTED")
            [] OTHER -> r
    BY Zenon DEF pd_send_request_msg
  <1> HIDE DEF q, v
  <1>4. Kept(p, r) BY <1>1, <1>2, KeptTwice, KeptControl, SendsKeep
  <1> HIDE DEF r
  <1>5. Entered(p, set_state(r, "SNK_REQUESTED"), "SNK_REQUESTED")
    BY <1>4, KeptControl, KeptThen, SetState
  <1> QED BY <1>1, <1>3, <1>4, <1>5, Zenon

LEMMA VdmKeeps ==
    ASSUME NEW p, HasControl(p)
    PROVE  /\ \A cmdt : Kept(p, handle_vdm_request(p, cmdt))
           /\ Kept(p, queue_vdm(p)) /\ Kept(p, pd_send_vdm(p))
           /\ Kept(p, pd_vdm_send_state_machine(p))
  <1>1. ASSUME NEW q, HasControl(q), NEW v, NEW w
        PROVE  Kept(q, [q EXCEPT !.vdm_timeout = w, !.vdm_state = v])
               /\ Kept(q, [q EXCEPT !.vdm_state = v, !.vdm_timeout = w])
    BY <1>1, Zenon DEF HasControl, Kept, SameState, SameContract, Contracted
  <1>2. \A cmdt : Kept(p, handle_vdm_request(p, cmdt))
    BY <1>1, FieldsKeep, DriverKeeps DEF handle_vdm_request
  <1>3. Kept(p, queue_vdm(p)) /\ Kept(p, pd_send_vdm(p))
    BY FieldsKeep DEF queue_vdm, pd_send_vdm
  <1>4. Kept(p, pd_vdm_send_state_machine(p))
    <2> DEFINE q == pd_transmit(p, "VENDOR_DEF")
    <2>1. Kept(p, q) /\ HasControl(q) BY SendsKeep, KeptControl
    <2> HIDE DEF q
    <2>2. /\ Kept(p, [q EXCEPT !.vdm_state = "BUSY", !.vdm_timeout = "armed"])
          /\ Kept(p, [q EXCEPT !.vdm_state = "ERR_SEND"])
      BY <1>1, <2>1, FieldsKeep, KeptTwice
    <2>3. Kept(p, [p EXCEPT !.vdm_state = "ERR_BUSY"]) /\ Kept(p, [p EXCEPT !.vdm_state = "ERR_TMOUT"])
      BY FieldsKeep
    <2> QED BY <1>3, <2>2, <2>3, DriverKeeps, Zenon DEF pd_vdm_send_state_machine, q
  <1> QED BY <1>2, <1>3, <1>4

LEMMA SoftResetEnters ==
    ASSUME NEW p, HasControl(p)
    PROVE  \E s \in Free : Entered(p, execute_soft_reset(p), s)
  <1>1. Kept(p, [p EXCEPT !.msg_id = 0]) BY FieldsKeep
  <1>2. ByRole(p, "SNK_DISCOVERY", "SRC_DISCOVERY") \in Free BY DEF ByRole, Free
  <1> QED BY <1>1, <1>2, KeptControl, KeptThen, SetState DEF execute_soft_reset

LEMMA SourceCapTaken ==
    ASSUME NEW p, HasControl(p), NEW m \in Messages, m.type = "SOURCE_CAP"
    PROVE  Taken(p, handle_source_cap(p, m))
  <1> DEFINE p1 == [p EXCEPT !.flags = p.flags \cup {"PREVIOUS_PD_CONN"}]
             q == pd_update_pdo_flags(p1, m.pdo0)
             c == pd_process_source_cap(q, m.mv)
             r == pd_send_request_msg(c, TRUE)
             t == pd_process_source_cap_callback(r, m.mv)
  <1>1. m.pdo0 \in Pdo0s BY MessageFields
  <1>2. Kept(p, p1) BY FlagsKeep
  <1>3. p1 = [p EXCEPT !.flags = @ \cup {"PREVIOUS_PD_CONN"}] OBVIOUS
  <1> HIDE DEF p1
  <1>4. Kept(p, q) BY <1>1, <1>2, KeptControl, KeptTwice, PdoFlagsKeep
  <1> HIDE DEF q
  <1>5. Kept(p, c) BY <1>4, KeptControl, KeptTwice, CapsKeep
  <1> HIDE DEF c
  <1>6. Kept(p, r) \/ Entered(p, r, "SNK_REQUESTED")
    BY <1>5, KeptControl, KeptTwice, KeptThen, RequestMsg
  <1> HIDE DEF r
  <1>7. HasControl(r) BY <1>6 DEF Kept, SameState, Entered, SameContract
  <1>8. Kept(r, t) BY <1>7, CapsKeep
  <1> HIDE DEF t
  <1>9. Kept(p, t) \/ Entered(p, t, "SNK_REQUESTED")
    BY <1>6, <1>8, KeptTwice, Zenon DEF Entered, Kept, SameState, SameContract
  <1>10. "SNK_REQUESTED" \in Free BY DEF Free
  <1>11. Taken(p, t) BY <1>9, <1>10, FreeTaken DEF Taken
  <1>12. Taken(p, p) BY DriverKeeps DEF Taken
  <1> QED BY <1>3, <1>11, <1>12 DEF handle_source_cap, p1, q, c, r, t

\* set_state after assignments that keep the control.
LEMMA KeptEnters ==
    ASSUME NEW p, NEW q, Kept(p, q), NEW s
    PROVE  Entered(p, set_state(q, s), s)
  BY KeptControl, KeptThen, SetState

LEMMA KeptFree ==
    ASSUME NEW p, NEW q, Kept(p, q), NEW s \in Free
    PROVE  Taken(p, set_state(q, s))
  BY KeptEnters, FreeTaken

LEMMA KeptTaken ==
    ASSUME NEW p, NEW q, Kept(p, q)
    PROVE  Taken(p, q)
  BY DEF Taken

\* A state that a contract, or its end, is for.
LEMMA Contract_begins ==
    ASSUME NEW p, HasControl(p), NEW s \in {"SRC_ACCEPTED", "SNK_TRANSITION"},
           s = "SNK_TRANSITION" => p.task_state = "SNK_REQUESTED"
    PROVE  Taken(p, set_state([p EXCEPT !.flags = @ \cup {"EXPLICIT_CONTRACT"}], s))
  <1> DEFINE q == [p EXCEPT !.flags = p.flags \cup {"EXPLICIT_CONTRACT"}]
  <1>1. HasControl(q) /\ Contracted(q) /\ q.last_state = p.last_state
    BY Zenon DEF HasControl, Contracted
  <1>2. q = [p EXCEPT !.flags = @ \cup {"EXPLICIT_CONTRACT"}] OBVIOUS
  <1> HIDE DEF q
  <1>3. Entered(q, set_state(q, s), s) BY <1>1, SetState
  <1>4. s \notin PowerSwapping
        /\ (s \in TimedStates => <<p.task_state, s>> \in TimedMoves)
    BY DEF PowerSwapping, TimedStates, TimedMoves
  <1> QED BY <1>1, <1>2, <1>3, <1>4, Zenon DEF Taken, Entered, SameContract, Fits

LEMMA Contract_ends ==
    ASSUME NEW p, HasControl(p),
           NEW s \in {"SRC_SWAP_SNK_DISABLE", "SNK_SWAP_SNK_DISABLE"},
           s = "SRC_SWAP_SNK_DISABLE" => p.task_state = "SRC_SWAP_INIT"
    PROVE  Taken(p, set_state(DropContract(p), s))
  <1> DEFINE q == DropContract(p)
  <1>1. HasControl(q) /\ ~Contracted(q) /\ q.last_state = p.last_state
    BY Zenon DEF HasControl, Contracted, DropContract
  <1> HIDE DEF q
  <1>2. Entered(q, set_state(q, s), s) BY <1>1, SetState
  <1>3. s \notin Powering
        /\ (s \in TimedStates => <<p.task_state, s>> \in TimedMoves)
    BY DEF Powering, TimedStates, TimedMoves
  <1> QED BY <1>1, <1>2, <1>3, Zenon DEF Taken, Entered, SameContract, Fits, q

LEMMA RdoTaken ==
    ASSUME NEW p, HasControl(p), NEW m
    PROVE  Taken(p, handle_data_rdo(p, m))
  <1> DEFINE q == send_control(p, "ACCEPT")
             r == set_state([q EXCEPT !.flags = @ \cup {"EXPLICIT_CONTRACT"}], "SRC_ACCEPTED")
  <1>1. Kept(p, q) BY SendsKeep
  <1> HIDE DEF q
  <1>2. Taken(q, r) BY <1>1, KeptControl, Contract_begins
  <1>3. Taken(p, r)
    <2> HIDE DEF r
    <2>1. q.task_state = p.task_state /\ q.last_state = p.last_state BY <1>1, KeptControl
    <2> QED BY <1>1, <1>2, <2>1, KeptTwice, KeptThen, Zenon DEF Taken
  <1>4. Taken(p, set_state(send_control(p, "REJECT"), "SRC_READY"))
    BY SendsKeep, KeptFree DEF Free
  <1> QED BY <1>1, <1>3, <1>4, KeptTaken DEF handle_data_rdo, q, r

LEMMA BistTaken ==
    ASSUME NEW p, HasControl(p), NEW m
    PROVE  Taken(p, handle_bist(p, m))
  <1>1. ByRole(p, "SNK_DISCONNECTED", "SRC_DISCONNECTED") \in Free
    BY DEF ByRole, Free, Disconnected
  <1> QED BY <1>1, SendsKeep, DriverKeeps, KeptFree, KeptTaken DEF handle_bist

LEMMA SinkCapTaken ==
    ASSUME NEW p, HasControl(p), NEW m \in Messages, m.type = "SINK_CAP"
    PROVE  Taken(p, handle_sink_cap(p, m))
  <1> DEFINE p1 == [p EXCEPT !.flags = @ \cup {"SNK_CAP_RECVD"}]
             q == pd_update_pdo_flags(p1, m.pdo0)
  <1>1. Kept(p, p1) BY FlagsKeep
  <1> HIDE DEF p1
  <1>2. Kept(p, q) BY <1>1, KeptControl, KeptTwice, MessageFields, PdoFlagsKeep
  <1> HIDE DEF q
  <1>3. Taken(p, set_state(q, "SRC_READY")) BY <1>2, KeptFree DEF Free
  <1> QED BY <1>2, <1>3, KeptTaken DEF handle_sink_cap, q, p1

LEMMA DataTaken ==
    ASSUME NEW p, HasControl(p), NEW m \in Messages, m.type \in DataTypes
    PROVE  Taken(p, handle_data_request(p, m))
  <1>1. \A cmdt : Taken(p, handle_vdm_request(p, cmdt)) BY VdmKeeps, KeptTaken
  <1> QED BY <1>1, SourceCapTaken, RdoTaken, BistTaken, SinkCapTaken
          DEF handle_data_request, DataTypes

LEMMA GetSourceCapTaken ==
    ASSUME NEW p, HasControl(p)
    PROVE  Taken(p, handle_get_source_cap(p))
  <1> DEFINE q == send_source_cap(p)
  <1>1. Kept(p, q) BY SendsKeep
  <1> HIDE DEF q
  <1>2. ASSUME p.task_state = "SRC_DISCOVERY" PROVE Taken(p, set_state(q, "SRC_NEGOCIATE"))
    <2>1. Entered(p, set_state(q, "SRC_NEGOCIATE"), "SRC_NEGOCIATE") BY <1>1, KeptEnters
    <2>2. "SRC_NEGOCIATE" \notin PowerSwapping /\ "SRC_NEGOCIATE" \notin Powering
          /\ <<"SRC_DISCOVERY", "SRC_NEGOCIATE">> \in TimedMoves
      BY DEF PowerSwapping, Powering, TimedMoves
    <2> QED BY <1>2, <2>1, <2>2, Zenon DEF Taken, Entered, SameContract, Fits
  <1> QED BY <1>1, <1>2, KeptTaken DEF handle_get_source_cap, q

\* PS_RDY moves a swap on, which has no contract.
LEMMA PsRdyTaken ==
    ASSUME NEW p, HasControl(p), Fits(p)
    PROVE  Taken(p, handle_ps_rdy(p))
  <1>1. ASSUME p.task_state = "SNK_SWAP_SRC_DISABLE"
        PROVE  Taken(p, set_state(p, "SNK_SWAP_STANDBY"))
    <2>1. Entered(p, set_state(p, "SNK_SWAP_STANDBY"), "SNK_SWAP_STANDBY") BY SetState
    <2>2. "SNK_SWAP_STANDBY" \notin Powering /\ "SNK_SWAP_SRC_DISABLE" \in PowerSwapping
          /\ <<"SNK_SWAP_SRC_DISABLE", "SNK_SWAP_STANDBY">> \in TimedMoves
      BY DEF PowerSwapping, Powering, TimedMoves
    <2> QED BY <1>1, <2>1, <2>2, Zenon DEF Taken, Entered, SameContract, Fits
  <1>2. Kept(p, pd_update_roles([p EXCEPT !.msg_id = 0, !.power_role = "SINK"]))
    <2>1. Kept(p, [p EXCEPT !.msg_id = 0, !.power_role = "SINK"])
      BY Zenon DEF HasControl, Kept, SameState, SameContract, Contracted
    <2> QED BY <2>1, KeptControl, KeptTwice, RolesKeep
  <1>3. Taken(p, set_state(pd_update_roles([p EXCEPT !.msg_id = 0, !.power_role = "SINK"]),
                           "SNK_DISCOVERY"))
    BY <1>2, KeptFree DEF Free
  <1>4. Taken(p, set_state(p, "HARD_RESET_SEND")) /\ Taken(p, set_state(p, "SNK_READY"))
    BY DriverKeeps, KeptFree DEF Free
  <1> QED BY <1>1, <1>3, <1>4, DriverKeeps, KeptTaken DEF handle_ps_rdy

LEMMA RejectWaitTaken ==
    ASSUME NEW p, HasControl(p), NEW type
    PROVE  Taken(p, handle_reject_wait(p, type))
  <1>1. \A s \in Free : Taken(p, set_state(p, s)) BY DriverKeeps, KeptFree
  <1>2. ReadyReturnState(p) \in Free /\ "SRC_READY" \in Free /\ "SNK_READY" \in Free
        /\ "SNK_DISCOVERY" \in Free
    BY DEF ReadyReturnState, ByRole, Free
  <1>3. Armed(p, request_again_later(p), "SNK_READY")
    <2>1. Kept(p, [p EXCEPT !.new_power_request = 1, !.prev_request_mv = 0])
      BY Zenon DEF HasControl, Kept, SameState, SameContract, Contracted
    <2> QED BY <2>1, KeptControl, KeptThen, SetTimeout DEF request_again_later
  <1>4. ASSUME p.task_state = "SNK_REQUESTED" PROVE Taken(p, request_again_later(p))
    BY <1>3, <1>4 DEF Taken
  <1>5. Taken(p, p) BY DriverKeeps, KeptTaken
  <1> QED BY <1>1, <1>2, <1>4, <1>5 DEF handle_reject_wait

LEMMA AcceptTaken ==
    ASSUME NEW p, HasControl(p)
    PROVE  Taken(p, handle_accept(p))
  <1>1. Taken(p, execute_soft_reset(p)) BY SoftResetEnters, FreeTaken
  <1>2. Taken(p, set_state(pd_dr_swap(p), ReadyReturnState(p)))
    BY RolesKeep, KeptFree DEF ReadyReturnState, ByRole, Free
  <1>3. p.task_state = "SRC_SWAP_INIT" =>
            Taken(p, set_state(DropContract(p), "SRC_SWAP_SNK_DISABLE"))
    BY Contract_ends
  <1>4. Taken(p, set_state(DropContract(p), "SNK_SWAP_SNK_DISABLE")) BY Contract_ends
  <1>5. p.task_state = "SNK_REQUESTED" =>
            Taken(p, set_state([p EXCEPT !.flags = @ \cup {"EXPLICIT_CONTRACT"}],
                               "SNK_TRANSITION"))
    BY Contract_begins
  <1>6. Taken(p, p) BY DriverKeeps, KeptTaken
  <1> QED BY <1>1, <1>2, <1>3, <1>4, <1>5, <1>6 DEF handle_accept

LEMMA CtrlTaken ==
    ASSUME NEW p, HasControl(p), Fits(p), NEW type
    PROVE  Taken(p, handle_ctrl_request(p, type))
  <1>1. \A what : Taken(p, send_control(p, what)) BY SendsKeep, KeptTaken
  <1>2. Taken(p, send_sink_cap(p)) /\ Taken(p, p) BY SendsKeep, DriverKeeps, KeptTaken
  <1>3. Taken(p, handle_pr_swap(p)) /\ Taken(p, handle_dr_swap(p))
    BY <1>1 DEF handle_pr_swap, handle_dr_swap, pd_check_power_swap, pd_check_data_swap
  <1>4. Taken(p, send_control(execute_soft_reset(p), "ACCEPT"))
    <2> DEFINE q == execute_soft_reset(p)
               r == send_control(q, "ACCEPT")
    <2>1. PICK s \in Free : Entered(p, q, s) BY SoftResetEnters
    <2> HIDE DEF q
    <2>2. HasControl(q) BY <2>1 DEF Entered, SameContract
    <2>3. Kept(q, r) BY <2>2, SendsKeep
    <2> HIDE DEF r
    <2>4. Entered(p, r, s) BY <2>1, <2>3, Zenon DEF Entered, Kept, SameState, SameContract
    <2>5. Taken(p, r) BY <2>4, FreeTaken
    <2> QED BY <2>5 DEF q, r
  <1> QED BY <1>1, <1>2, <1>3, <1>4, GetSourceCapTaken, PsRdyTaken, RejectWaitTaken,
             AcceptTaken DEF handle_ctrl_request

LEMMA MessageTaken ==
    ASSUME NEW p, HasControl(p), Fits(p), NEW m \in Messages
    PROVE  Taken(p, handle_request(p, m))
  <1>1. Taken(p, p) BY DriverKeeps, KeptTaken
  <1> QED BY <1>1, DataTaken, CtrlTaken DEF handle_request

----------------------------------------------------------------------------
\* The handlers of the states.  Idle: a state without a timer, that nothing need be
\* done in on entry.

Idle(p) == p.task_state \notin TimedStates \cup {"SOFT_RESET"}

\* A state that asks for no contract and for no end of one.
Plain(s) == s \notin PowerSwapping /\ s \notin Powering

LEMMA KeptRan ==
    ASSUME NEW p, NEW q, Kept(p, q), Idle(p) \/ ~Entering(p)
    PROVE  Ran(p, q)
  BY DEF Ran, Idle

LEMMA ArmedRan ==
    ASSUME NEW p, NEW q, Kept(p, q), NEW s \in TimerTargets(p.task_state)
    PROVE  Ran(p, set_state_timeout(q, s))
  BY KeptControl, KeptThen, SetTimeout DEF Ran

LEMMA EnteredRan ==
    ASSUME NEW p, NEW q, NEW s, Plain(s), Entered(p, q, s),
           p.task_state \in TimedStates => s \in Aside
    PROVE  Ran(p, q)
  BY Zenon DEF Ran, Entered, SameContract, Fits, Plain

LEMMA LeftRan ==
    ASSUME NEW p, NEW q, Kept(p, q), NEW s, Plain(s),
           p.task_state \in TimedStates => s \in Aside
    PROVE  Ran(p, set_state(q, s))
  BY KeptEnters, EnteredRan

LEMMA WaitRan ==
    ASSUME NEW p, HasControl(p), NEW q, Kept(p, q), NEW s \in TimerTargets(p.task_state)
    PROVE  Ran(p, OnEntry(p, set_state_timeout(q, s))) /\ Ran(p, WaitFor(p, s))
  BY ArmedRan, KeptRan, DriverKeeps DEF OnEntry, WaitFor

LEMMA AskRan ==
    ASSUME NEW p, HasControl(p), NEW msg, NEW ready \in TimerTargets(p.task_state),
           p.task_state \notin TimedStates
    PROVE  Ran(p, AskPartner(p, msg, ready))
  <1> DEFINE q == send_control(p, msg)
  <1>1. Kept(p, q) BY SendsKeep
  <1> HIDE DEF q
  <1>2. Ran(p, set_state_timeout(q, ready)) BY <1>1, ArmedRan
  <1>3. Ran(p, set_state(q, "SOFT_RESET")) BY <1>1, LeftRan DEF Plain, PowerSwapping, Powering
  <1>4. ~Entering(p) => Ran(p, p) BY DriverKeeps, KeptRan
  <1> QED BY <1>2, <1>3, <1>4 DEF AskPartner, OnEntry, q

\* Attaching and toggling, in states without a timer.
LEMMA AttachRan ==
    ASSUME NEW p, HasControl(p), p.task_state \in Disconnected \cup Debouncing, NEW ccs
    PROVE  /\ Ran(p, SnkDisconnected(p, ccs)) /\ Ran(p, SrcDisconnected(p, ccs))
           /\ Ran(p, SnkDisconnectedDebounce(p, ccs)) /\ Ran(p, SrcDisconnectedDebounce(p, ccs))
  <1>0. Idle(p) /\ p.task_state \notin TimedStates /\ Ran(p, p)
    <2>1. Idle(p) /\ p.task_state \notin TimedStates
      BY DEF Idle, TimedStates, Disconnected, Debouncing
    <2> QED BY <2>1, DriverKeeps, KeptRan
  <1>1. ASSUME NEW q, Kept(p, q), NEW s, Plain(s) PROVE Ran(p, set_state(q, s))
    BY <1>0, <1>1, LeftRan
  <1>2. ASSUME NEW s \in Disconnected, NEW role, NEW pull
        PROVE  Ran(p, [tcpm_set_cc(set_state([p EXCEPT !.power_role = role], s), pull)
                         EXCEPT !.next_role_swap = "armed"])
    <2> DEFINE q == set_state([p EXCEPT !.power_role = role], s)
               r == tcpm_set_cc(q, pull)
               t == [r EXCEPT !.next_role_swap = "armed"]
    <2>1. Entered(p, q, s) BY FieldsKeep, KeptEnters
    <2> HIDE DEF q
    <2>2. Kept(q, r) /\ HasControl(r)
      BY <2>1, DriverKeeps, KeptControl DEF Entered, SameContract
    <2> HIDE DEF r
    <2>3. Kept(r, t) BY <2>2, FieldsKeep
    <2> HIDE DEF t
    <2>4. Entered(p, t, s)
      BY <2>1, <2>2, <2>3, KeptTwice, Zenon DEF Entered, Kept, SameState, SameContract
    <2>5. Plain(s) BY DEF Plain, Disconnected, PowerSwapping, Powering
    <2>6. Ran(p, t) BY <1>0, <2>4, <2>5, EnteredRan
    <2> QED BY <2>6 DEF q, r, t
  <1>3. ASSUME NEW c PROVE Ran(p, [p EXCEPT !.cc_debounce = "armed", !.cc_state = c])
    <2>1. Kept(p, [p EXCEPT !.cc_debounce = "armed", !.cc_state = c])
      BY Zenon DEF HasControl, Kept, SameState, SameContract, Contracted
    <2> QED BY <1>0, <2>1, KeptRan
  <1>4. Ran(p, SnkDisconnected(p, ccs))
    <2>1. Kept(p, [p EXCEPT !.cc_state = "NONE", !.hard_reset_count = 0, !.cc_debounce = "armed"])
      BY Zenon DEF HasControl, Kept, SameState, SameContract, Contracted
    <2>2. Ran(p, set_state([p EXCEPT !.cc_state = "NONE", !.hard_reset_count = 0,
                                     !.cc_debounce = "armed"], "SNK_DISCONNECTED_DEBOUNCE"))
      BY <1>1, <2>1 DEF Plain, PowerSwapping, Powering
    <2>3. "SRC_DISCONNECTED" \in Disconnected BY DEF Disconnected
    <2> QED BY <1>0, <1>2, <2>2, <2>3, Zenon DEF SnkDisconnected
  <1>5. Ran(p, SrcDisconnected(p, ccs))
    <2>1. Ran(p, set_state([p EXCEPT !.cc_state = "NONE"], "SRC_DISCONNECTED_DEBOUNCE"))
      BY <1>1, FieldsKeep DEF Plain, PowerSwapping, Powering
    <2>2. "SNK_DISCONNECTED" \in Disconnected BY DEF Disconnected
    <2> QED BY <1>0, <1>2, <2>1, <2>2, Zenon DEF SrcDisconnected
  <1>6. Ran(p, set_state(p, "SNK_DISCONNECTED")) /\ Ran(p, set_state(p, "SRC_DISCONNECTED"))
    BY <1>1, DriverKeeps DEF Plain, PowerSwapping, Powering
  <1>7. \A acc : Ran(p, AttachSink(p, ccs, acc))
    <2> TAKE acc
    <2> DEFINE p1 == [p EXCEPT !.polarity = get_snk_polarity(ccs), !.msg_id = 0]
               fs == {"CHECK_PR_ROLE", "CHECK_DR_ROLE", "CHECK_IDENTITY"} \cup
                     (IF acc = "DEBUG_ACC" THEN {"TS_DTS_PARTNER"} ELSE {})
               q == pd_set_data_role(p1, "UFP")
               r == tcpm_set_rx_enable(q, 1)
               s == SetFlags(r, fs)
               t == send_control(s, "GET_SOURCE_CAP")
    <2>1. Kept(p, p1) BY Zenon DEF HasControl, Kept, SameState, SameContract, Contracted
    <2> HIDE DEF p1
    <2>2. Kept(p, q) BY <2>1, KeptControl, KeptTwice, RolesKeep
    <2> HIDE DEF q
    <2>3. Kept(p, r) BY <2>2, KeptControl, KeptTwice, DriverKeeps
    <2> HIDE DEF r
    <2>4. "EXPLICIT_CONTRACT" \notin fs OBVIOUS
    <2> HIDE DEF fs
    <2>5. Kept(p, s) BY <2>3, <2>4, KeptControl, KeptTwice, FlagsKeep
    <2> HIDE DEF s
    <2>6. Kept(p, t) BY <2>5, KeptControl, KeptTwice, SendsKeep
    <2> HIDE DEF t
    <2>7. Ran(p, set_state(t, "SNK_DISCOVERY")) BY <1>1, <2>6 DEF Plain, PowerSwapping, Powering
    <2> QED BY <2>7 DEF AttachSink, p1, fs, q, r, s, t
  <1>8. \A acc : Ran(p, AttachSource(p, ccs, acc))
    <2> TAKE acc
    <2> DEFINE p1 == [p EXCEPT !.polarity = IF ccs[1] # TYPEC_CC_VOLT_RD THEN 1 ELSE 0]
               fs == {"CHECK_PR_ROLE", "CHECK_DR_ROLE"} \cup
                     (IF acc = "DEBUG_ACC" THEN {"TS_DTS_PARTNER"} ELSE {})
               q == pd_set_data_role(p1, "DFP")
               r == tcpm_set_rx_enable(q, 1)
               s == SetFlags(r, fs)
               t == [s EXCEPT !.hard_reset_count = 0]
    <2>1. Kept(p, p1) BY FieldsKeep
    <2> HIDE DEF p1
    <2>2. Kept(p, q) BY <2>1, KeptControl, KeptTwice, RolesKeep
    <2> HIDE DEF q
    <2>3. Kept(p, r) BY <2>2, KeptControl, KeptTwice, DriverKeeps
    <2> HIDE DEF r
    <2>4. "EXPLICIT_CONTRACT" \notin fs OBVIOUS
    <2> HIDE DEF fs
    <2>5. Kept(p, s) BY <2>3, <2>4, KeptControl, KeptTwice, FlagsKeep
    <2> HIDE DEF s
    <2>6. Kept(p, t) BY <2>5, KeptControl, KeptTwice, FieldsKeep
    <2> HIDE DEF t
    <2>7. Ran(p, set_state(t, "SRC_STARTUP")) BY <1>1, <2>6 DEF Plain, PowerSwapping, Powering
    <2> QED BY <2>7 DEF AttachSource, p1, fs, q, r, s, t
  <1>9. Ran(p, SnkDisconnectedDebounce(p, ccs))
    BY <1>0, <1>3, <1>6, <1>7, Zenon DEF SnkDisconnectedDebounce
  <1>10. Ran(p, SrcDisconnectedDebounce(p, ccs))
    BY <1>0, <1>3, <1>6, <1>8, Zenon DEF SrcDisconnectedDebounce
  <1> QED BY <1>4, <1>5, <1>9, <1>10

LEMMA SinkRan ==
    ASSUME NEW p, HasControl(p)
    PROVE  /\ p.task_state = "SNK_DISCOVERY" => Ran(p, SnkDiscovery(p))
           /\ p.task_state = "SNK_REQUESTED" => Ran(p, SnkRequested(p))
           /\ p.task_state = "SNK_TRANSITION" => Ran(p, SnkTransition(p))
           /\ p.task_state = "SNK_READY" => Ran(p, SnkReady(p))
  <1>1. ASSUME p.task_state = "SNK_DISCOVERY" PROVE Ran(p, SnkDiscovery(p))
    <2>1. "HARD_RESET_SEND" \in TimerTargets(p.task_state)
          /\ "SNK_DISCONNECTED" \in TimerTargets(p.task_state)
      BY <1>1 DEF TimerTargets
    <2>2. Idle(p) BY <1>1 DEF Idle, TimedStates
    <2>3. /\ Ran(p, p) /\ Ran(p, set_state_timeout(p, "HARD_RESET_SEND"))
          /\ Ran(p, set_state_timeout(p, "SNK_DISCONNECTED"))
      BY <2>1, <2>2, DriverKeeps, KeptRan, ArmedRan
    <2> QED BY <2>3, Zenon DEF SnkDiscovery
  <1>2. ASSUME p.task_state = "SNK_REQUESTED" PROVE Ran(p, SnkRequested(p))
    BY <1>2, FieldsKeep, WaitRan DEF SnkRequested, TimerTargets
  <1>3. ASSUME p.task_state = "SNK_TRANSITION" PROVE Ran(p, SnkTransition(p))
    BY <1>3, DriverKeeps, WaitRan DEF SnkTransition, TimerTargets
  <1>4. ASSUME p.task_state = "SNK_READY" PROVE Ran(p, SnkReady(p))
    <2>1. Idle(p) /\ p.task_state \notin TimedStates BY <1>4 DEF Idle, TimedStates
    <2>2. ASSUME NEW q, Kept(p, q) PROVE Ran(p, q) BY <2>1, <2>2, KeptRan
    <2>3. Ran(p, SnkReadyPolicy(p))
      <3>1. Kept(p, ClearFlag(p, "CHECK_PR_ROLE")) /\ Kept(p, ClearFlag(p, "CHECK_DR_ROLE"))
            /\ Kept(p, ClearFlag(pd_send_vdm(p), "CHECK_IDENTITY")) /\ Kept(p, p)
        BY VdmKeeps, KeptControl, ClearKeeps, KeptTwice, DriverKeeps
      <3> QED BY <2>2, <3>1, Zenon DEF SnkReadyPolicy
    <2>4. \A a \in BOOLEAN : Ran(p, pd_send_request_msg(p, a))
      BY <2>1, <2>2, RequestMsg, EnteredRan DEF Plain, PowerSwapping, Powering
    <2>5. ASSUME ~RequestMsgOk(p, FALSE)
          PROVE  Ran(p, set_state(pd_send_request_msg(p, FALSE), "SOFT_RESET"))
      <3>1. HasControl(pd_send_request_msg(p, FALSE))
            /\ (Kept(p, pd_send_request_msg(p, FALSE))
                \/ Entered(p, pd_send_request_msg(p, FALSE), "SNK_REQUESTED"))
        BY RequestMsg DEF Kept, SameState, Entered, SameContract
      <3> DEFINE q == pd_send_request_msg(p, FALSE)
                 r == set_state(q, "SOFT_RESET")
      <3>2. Entered(q, r, "SOFT_RESET") BY <3>1, SetState
      <3> HIDE DEF r, q
      <3>3. Entered(p, r, "SOFT_RESET")
        BY <3>1, <3>2, Zenon DEF q, Entered, Kept, SameState, SameContract
      <3> QED BY <2>1, <3>3, EnteredRan DEF q, r, Plain, PowerSwapping, Powering
    <2>6. Ran(p, p) BY <2>2, DriverKeeps
    <2> QED BY <2>3, <2>4, <2>5, <2>6, Zenon DEF SnkReady
  <1> QED BY <1>1, <1>2, <1>3, <1>4

LEMMA SourceRan ==
    ASSUME NEW p, HasControl(p)
    PROVE  /\ p.task_state = "SRC_STARTUP" => Ran(p, SrcStartup(p))
           /\ p.task_state = "SRC_DISCOVERY" => Ran(p, SrcDiscovery(p))
           /\ p.task_state = "SRC_NEGOCIATE" => Ran(p, SrcNegociate(p))
           /\ p.task_state = "SRC_ACCEPTED" => Ran(p, SrcAccepted(p))
           /\ p.task_state = "SRC_POWERED" => Ran(p, SrcPowered(p))
           /\ p.task_state = "SRC_TRANSITION" => Ran(p, SrcTransition(p))
           /\ p.task_state = "SRC_READY" => Ran(p, SrcReady(p))
           /\ p.task_state = "SRC_GET_SINK_CAP" => Ran(p, SrcGetSinkCap(p))
  <1>1. ASSUME p.task_state = "SRC_STARTUP" PROVE Ran(p, SrcStartup(p))
    <2> DEFINE f == SetFlags(p, {"CHECK_IDENTITY"})
               q == [f EXCEPT !.caps_count = 0, !.msg_id = 0, !.snk_cap_count = 0]
    <2>1. Kept(p, f) /\ HasControl(f) BY FlagsKeep, KeptControl
    <2> HIDE DEF f
    <2>2. Kept(f, q) BY <2>1, Zenon DEF HasControl, Kept, SameState, SameContract, Contracted
    <2>3. Kept(p, q) BY <2>1, <2>2, KeptTwice
    <2> HIDE DEF q
    <2>4. "SRC_DISCOVERY" \in TimerTargets(p.task_state) BY <1>1 DEF TimerTargets
    <2>5. Ran(p, OnEntry(p, set_state_timeout(q, "SRC_DISCOVERY"))) BY <2>3, <2>4, WaitRan
    <2> QED BY <2>5 DEF SrcStartup, q, f
  <1>2. ASSUME p.task_state = "SRC_DISCOVERY" PROVE Ran(p, SrcDiscovery(p))
    <2> DEFINE q == IF Entering(p) /\ "PREVIOUS_PD_CONN" \in p.flags
                    THEN set_state_timeout(p, NoResponse(p, "SRC_DISCONNECTED")) ELSE p
               r == send_source_cap(q)
               s == set_state(r, "SRC_NEGOCIATE")
               t == [s EXCEPT !.hard_reset_count = 0, !.caps_count = 0]
               u == SetFlags(t, {"PREVIOUS_PD_CONN"})
    <2>0. Idle(p) /\ p.task_state \notin TimedStates BY <1>2 DEF Idle, TimedStates
    <2>1. NoResponse(p, "SRC_DISCONNECTED") \in TimerTargets(p.task_state)
      BY <1>2 DEF NoResponse, TimerTargets
    <2>2. Kept(p, q) \/ \E to \in TimerTargets(p.task_state) : Armed(p, q, to)
      BY <2>1, DriverKeeps, SetTimeout
    <2> HIDE DEF q
    <2>3. HasControl(q) BY <2>2 DEF Kept, Armed, SameState, SameContract
    <2>4. Kept(q, r) /\ HasControl(r) BY <2>3, SendsKeep, KeptControl
    <2> HIDE DEF r
    <2>5. Entered(r, s, "SRC_NEGOCIATE") BY <2>4, SetState
    <2> HIDE DEF s
    <2>6. Kept(s, t) /\ HasControl(t)
      <3> HasControl(s) BY <2>5 DEF Entered, SameContract
      <3> QED BY Zenon DEF HasControl, Kept, SameState, SameContract, Contracted
    <2> HIDE DEF t
    <2>7. Kept(t, u) BY <2>6, FlagsKeep
    <2> HIDE DEF u
    <2>8. HasControl(u) /\ u.task_state = "SRC_NEGOCIATE" /\ u.timeout = "off"
      BY <2>5, <2>6, <2>7, Zenon DEF Entered, Kept, SameState, SameContract
    <2>9. Ran(p, u)
      BY <2>0, <2>8, Zenon DEF Ran, Fits, PowerSwapping, Powering
    <2>10. ASSUME NEW v, Kept(q, v) PROVE Ran(p, v)
      <3>1. Kept(p, v) \/ \E to \in TimerTargets(p.task_state) : Armed(p, v, to)
        <4>1. Kept(p, q) => Kept(p, v) BY <2>10, KeptTwice
        <4>2. \A to : Armed(p, q, to) => Armed(p, v, to)
          BY <2>10, Zenon DEF Armed, Kept, SameState, SameContract
        <4> QED BY <2>2, <4>1, <4>2
      <3> QED BY <2>0, <3>1, KeptRan DEF Ran
    <2>11. Ran(p, q) BY <2>3, <2>10, DriverKeeps
    <2>12. Ran(p, [r EXCEPT !.caps_count = @ + 1])
      <3>1. Kept(r, [r EXCEPT !.caps_count = @ + 1]) BY <2>4, FieldsKeep
      <3> QED BY <2>4, <2>10, <3>1, KeptTwice
    <2> QED BY <2>9, <2>11, <2>12, Zenon DEF SrcDiscovery, q, r, s, t, u
  <1>3. ASSUME p.task_state = "SRC_NEGOCIATE" PROVE Ran(p, SrcNegociate(p))
    BY <1>3, DriverKeeps, WaitRan DEF SrcNegociate, TimerTargets
  <1>4. ASSUME p.task_state = "SRC_ACCEPTED" PROVE Ran(p, SrcAccepted(p))
    BY <1>4, DriverKeeps, WaitRan DEF SrcAccepted, TimerTargets
  <1>5. ASSUME p.task_state = "SRC_POWERED" PROVE Ran(p, SrcPowered(p))
    BY <1>5, DriverKeeps, WaitRan DEF SrcPowered, TimerTargets
  <1>6. ASSUME p.task_state = "SRC_TRANSITION" PROVE Ran(p, SrcTransition(p))
    <2>1. p.task_state \notin TimedStates BY <1>6 DEF TimedStates
    <2>2. Plain("SRC_READY") /\ Plain("SRC_DISCONNECTED") BY DEF Plain, PowerSwapping, Powering
    <2> QED BY <2>1, <2>2, SendsKeep, LeftRan DEF SrcTransition
  <1>7. ASSUME p.task_state = "SRC_READY" PROVE Ran(p, SrcReady(p))
    <2>0. Idle(p) /\ p.task_state \notin TimedStates BY <1>7 DEF Idle, TimedStates
    <2>1. Plain("SOFT_RESET") /\ Plain("SRC_GET_SINK_CAP") BY DEF Plain, PowerSwapping, Powering
    <2>2. ASSUME NEW q, Kept(p, q) PROVE Ran(p, SrcReadyPolicy(q))
      <3>1. HasControl(q) BY <2>2, KeptControl
      <3>2. ASSUME NEW v, Kept(q, v) PROVE Ran(p, v) /\ Ran(p, set_state(v, "SOFT_RESET"))
        BY <2>0, <2>1, <2>2, <3>2, KeptTwice, KeptRan, LeftRan
      <3>3. Kept(q, ClearFlag(q, "CHECK_PR_ROLE")) /\ Kept(q, ClearFlag(q, "CHECK_DR_ROLE"))
            /\ Kept(q, ClearFlag(pd_send_vdm(q), "CHECK_IDENTITY")) /\ Kept(q, q)
            /\ Kept(q, send_control(q, "PING"))
        BY <3>1, VdmKeeps, KeptControl, ClearKeeps, KeptTwice, DriverKeeps, SendsKeep
      <3> QED BY <3>2, <3>3, Zenon DEF SrcReadyPolicy
    <2> DEFINE q == [p EXCEPT !.snk_cap_count = IF @ > PD_SNK_CAP_RETRIES THEN @ ELSE @ + 1]
    <2>3. Kept(p, q) BY FieldsKeep
    <2> HIDE DEF q
    <2>4. Ran(p, set_state(send_control(q, "GET_SINK_CAP"), "SRC_GET_SINK_CAP"))
      BY <2>0, <2>1, <2>3, SendsKeep, KeptControl, KeptTwice, LeftRan
    <2>5. Ran(p, p) /\ Ran(p, SrcReadyPolicy(p)) /\ Ran(p, SrcReadyPolicy(q))
      BY <2>0, <2>2, <2>3, DriverKeeps, KeptRan
    <2> QED BY <2>4, <2>5, Zenon DEF SrcReady, q
  <1>8. ASSUME p.task_state = "SRC_GET_SINK_CAP" PROVE Ran(p, SrcGetSinkCap(p))
    BY <1>8, DriverKeeps, WaitRan DEF SrcGetSinkCap, TimerTargets
  <1> QED BY <1>1, <1>2, <1>3, <1>4, <1>5, <1>6, <1>7, <1>8

LEMMA SwapRan ==
    ASSUME NEW p, HasControl(p), Fits(p)
    PROVE  /\ p.task_state = "DR_SWAP" => Ran(p, DrSwap(p))
           /\ p.task_state = "SNK_SWAP_INIT" => Ran(p, SnkSwapInit(p))
           /\ p.task_state = "SNK_SWAP_SNK_DISABLE" => Ran(p, SnkSwapSnkDisable(p))
           /\ p.task_state = "SNK_SWAP_SRC_DISABLE" => Ran(p, SnkSwapSrcDisable(p))
           /\ p.task_state = "SNK_SWAP_STANDBY" => Ran(p, SnkSwapStandby(p))
           /\ p.task_state = "SNK_SWAP_COMPLETE" => Ran(p, SnkSwapComplete(p))
           /\ p.task_state = "SRC_SWAP_INIT" => Ran(p, SrcSwapInit(p))
           /\ p.task_state = "SRC_SWAP_SNK_DISABLE" => Ran(p, SrcSwapSnkDisable(p))
           /\ p.task_state = "SRC_SWAP_SRC_DISABLE" => Ran(p, SrcSwapSrcDisable(p))
           /\ p.task_state = "SRC_SWAP_STANDBY" => Ran(p, SrcSwapStandby(p))
  <1>1. ASSUME p.task_state = "DR_SWAP" PROVE Ran(p, DrSwap(p))
    BY <1>1, AskRan DEF DrSwap, TimerTargets, TimedStates, ReadyReturnState, ByRole
  <1>2. ASSUME p.task_state = "SNK_SWAP_INIT" PROVE Ran(p, SnkSwapInit(p))
    BY <1>2, AskRan DEF SnkSwapInit, TimerTargets, TimedStates
  <1>3. ASSUME p.task_state = "SRC_SWAP_INIT" PROVE Ran(p, SrcSwapInit(p))
    BY <1>3, AskRan DEF SrcSwapInit, TimerTargets, TimedStates
  <1>4. ASSUME p.task_state = "SNK_SWAP_SNK_DISABLE" PROVE Ran(p, SnkSwapSnkDisable(p))
    <2>1. Entered(p, set_state(p, "SNK_SWAP_SRC_DISABLE"), "SNK_SWAP_SRC_DISABLE") BY SetState
    <2>2. "SNK_SWAP_SRC_DISABLE" \notin Powering /\ p.task_state \notin TimedStates
          /\ p.task_state \in PowerSwapping
      BY <1>4 DEF Powering, PowerSwapping, TimedStates
    <2> QED BY <2>1, <2>2, Zenon DEF Ran, Entered, SameContract, Fits, SnkSwapSnkDisable
  <1>5. ASSUME p.task_state = "SNK_SWAP_SRC_DISABLE" PROVE Ran(p, SnkSwapSrcDisable(p))
    BY <1>5, DriverKeeps, WaitRan DEF SnkSwapSrcDisable, TimerTargets
  <1>6. ASSUME p.task_state = "SNK_SWAP_STANDBY" PROVE Ran(p, SnkSwapStandby(p))
    BY <1>6, DriverKeeps, WaitRan DEF SnkSwapStandby, TimerTargets
  <1>7. ASSUME p.task_state = "SRC_SWAP_SNK_DISABLE" PROVE Ran(p, SrcSwapSnkDisable(p))
    BY <1>7, DriverKeeps, WaitRan DEF SrcSwapSnkDisable, TimerTargets
  <1>8. ASSUME p.task_state = "SRC_SWAP_SRC_DISABLE" PROVE Ran(p, SrcSwapSrcDisable(p))
    BY <1>8, DriverKeeps, WaitRan DEF SrcSwapSrcDisable, TimerTargets
  <1>9. ASSUME p.task_state = "SNK_SWAP_COMPLETE" PROVE Ran(p, SnkSwapComplete(p))
    <2> DEFINE q == send_control(p, "PS_RDY")
               r == [q EXCEPT !.snk_cap_count = PD_SNK_CAP_RETRIES + 1, !.caps_count = 0,
                              !.msg_id = 0, !.power_role = "SOURCE"]
    <2>1. Kept(p, q) /\ HasControl(q) BY SendsKeep, KeptControl
    <2> HIDE DEF q
    <2>2. Kept(q, r) BY <2>1, Zenon DEF HasControl, Kept, SameState, SameContract, Contracted
    <2>3. Kept(p, r) BY <2>1, <2>2, KeptTwice
    <2> HIDE DEF r
    <2>4. Kept(p, pd_update_roles(r)) BY <2>3, KeptControl, RolesKeep, KeptTwice
    <2>5. Kept(p, tcpm_set_cc(q, "RD")) BY <2>1, DriverKeeps, KeptTwice
    <2>6. p.task_state \notin TimedStates /\ Plain("SRC_DISCOVERY") /\ Plain("SNK_DISCONNECTED")
      BY <1>9 DEF TimedStates, Plain, PowerSwapping, Powering
    <2> QED BY <2>4, <2>5, <2>6, LeftRan DEF SnkSwapComplete, q, r
  <1>10. ASSUME p.task_state = "SRC_SWAP_STANDBY" PROVE Ran(p, SrcSwapStandby(p))
    <2> DEFINE q == send_control(p, "PS_RDY")
               r == tcpm_set_cc(q, "RD")
               s == [r EXCEPT !.power_role = "SINK"]
    <2>1. Kept(p, q) /\ HasControl(q) BY SendsKeep, KeptControl
    <2> HIDE DEF q
    <2>2. Kept(p, r) /\ HasControl(r) BY <2>1, DriverKeeps, KeptControl, KeptTwice
    <2> HIDE DEF r
    <2>3. Kept(p, s) BY <2>2, FieldsKeep, KeptTwice
    <2> HIDE DEF s
    <2>4. "SNK_DISCONNECTED" \in TimerTargets(p.task_state) BY <1>10 DEF TimerTargets
    <2>5. Ran(p, set_state_timeout(s, "SNK_DISCONNECTED")) BY <2>3, <2>4, ArmedRan
    <2>6. Plain("SRC_DISCONNECTED") /\ "SRC_DISCONNECTED" \in Aside
      BY DEF Plain, Aside, Disconnected, PowerSwapping, Powering
    <2>7. Ran(p, set_state(q, "SRC_DISCONNECTED")) BY <2>1, <2>6, LeftRan
    <2>8. ~Entering(p) => Ran(p, p) BY DriverKeeps, KeptRan
    <2> QED BY <2>5, <2>7, <2>8, Zenon DEF SrcSwapStandby, OnEntry, q, r, s
  <1> QED BY <1>1, <1>2, <1>3, <1>4, <1>5, <1>6, <1>7, <1>8, <1>9, <1>10

\* pd_execute_hard_reset, from a handler or from the alert handler.
HardReset(p, q) ==
    /\ SameContract(p, q)
    /\ q.task_state \in {"SNK_HARD_RESET_RECOVER", "SRC_HARD_RESET_RECOVER"}
    /\ q.last_state = "HARD_RESET_EXECUTE" /\ q.timeout = "off"

LEMMA HardResetEnters ==
    ASSUME NEW p, HasControl(p)
    PROVE  HardReset(p, pd_execute_hard_reset(p))
  <1> DEFINE q == [p EXCEPT !.msg_id = 0, !.last_state = "HARD_RESET_EXECUTE"]
             r == IF p.task_state \in {"SNK_SWAP_STANDBY", "SNK_SWAP_COMPLETE"}
                  THEN tcpm_set_cc(q, "RD") ELSE q
             t == [r EXCEPT !.src_recover = "armed"]
  <1>1. HasControl(q) /\ q.last_state = "HARD_RESET_EXECUTE" /\ (Contracted(q) <=> Contracted(p))
    BY Zenon DEF HasControl, Contracted
  <1> HIDE DEF q
  <1>2. Kept(q, r) /\ HasControl(r) BY <1>1, DriverKeeps, KeptControl
  <1> HIDE DEF r
  <1>3. Kept(q, t) BY <1>2, FieldsKeep, KeptTwice
  <1> HIDE DEF t
  <1>4. /\ Entered(q, set_state(r, "SNK_HARD_RESET_RECOVER"), "SNK_HARD_RESET_RECOVER")
        /\ Entered(q, set_state(t, "SRC_HARD_RESET_RECOVER"), "SRC_HARD_RESET_RECOVER")
    BY <1>2, <1>3, KeptEnters
  <1>5. ASSUME NEW u, NEW s \in {"SNK_HARD_RESET_RECOVER", "SRC_HARD_RESET_RECOVER"},
               Entered(q, u, s)
        PROVE  HardReset(p, u)
    BY <1>1, <1>5, Zenon DEF HardReset, Entered, SameContract
  <1>6. HardReset(p, set_state(r, "SNK_HARD_RESET_RECOVER"))
        /\ HardReset(p, set_state(t, "SRC_HARD_RESET_RECOVER"))
    BY <1>4, <1>5
  <1> QED BY <1>6, Zenon DEF pd_execute_hard_reset, q, r, t

LEMMA ResetRan ==
    ASSUME NEW p, HasControl(p)
    PROVE  /\ p.task_state = "SOFT_RESET" => Ran(p, SoftReset(p))
           /\ p.task_state = "HARD_RESET_SEND" => Ran(p, HardResetSend(p))
           /\ p.task_state = "HARD_RESET_EXECUTE" => Ran(p, HardResetExecute(p))
           /\ p.task_state = "SNK_HARD_RESET_RECOVER" => Ran(p, SnkHardResetRecover(p))
           /\ p.task_state = "SRC_HARD_RESET_RECOVER" => Ran(p, SrcHardResetRecover(p))
  <1>1. ASSUME p.task_state = "SOFT_RESET" PROVE Ran(p, SoftReset(p))
    <2> DEFINE z == [p EXCEPT !.msg_id = 0]
               q == send_control(z, "SOFT_RESET")
    <2>1. Kept(p, z) BY FieldsKeep
    <2> HIDE DEF z
    <2>2. Kept(p, q) BY <2>1, KeptControl, SendsKeep, KeptTwice
    <2> HIDE DEF q
    <2>3. "HARD_RESET_SEND" \in TimerTargets(p.task_state) /\ Plain("HARD_RESET_SEND")
          /\ p.task_state \notin TimedStates
      BY <1>1 DEF TimerTargets, Plain, PowerSwapping, Powering, TimedStates
    <2>4. Ran(p, set_state_timeout(q, "HARD_RESET_SEND")) /\ Ran(p, set_state(q, "HARD_RESET_SEND"))
      BY <2>2, <2>3, ArmedRan, LeftRan
    <2>5. ~Entering(p) => Ran(p, p) BY DriverKeeps, KeptRan
    <2> QED BY <2>4, <2>5, Zenon DEF SoftReset, OnEntry, q, z
  <1>2. ASSUME p.task_state = "HARD_RESET_SEND" PROVE Ran(p, HardResetSend(p))
    <2> DEFINE q == [p EXCEPT
                       !.hard_reset_count = IF @ < PD_HARD_RESET_COUNT THEN @ + 1 ELSE @,
                       !.hard_reset_sent = IF Entering(p) THEN 0 ELSE @]
               r == pd_transmit(q, "HARD_RESET")
               s == [r EXCEPT !.hard_reset_sent = 1]
    <2>1. Kept(p, q) BY Zenon DEF HasControl, Kept, SameState, SameContract, Contracted
    <2> HIDE DEF q
    <2>2. Kept(p, r) BY <2>1, KeptControl, SendsKeep, KeptTwice
    <2> HIDE DEF r
    <2>3. Kept(p, s) BY <2>2, KeptControl, FieldsKeep, KeptTwice
    <2> HIDE DEF s
    <2>4. "HARD_RESET_EXECUTE" \in TimerTargets(p.task_state) /\ Plain("HARD_RESET_EXECUTE")
          /\ p.task_state \notin TimedStates /\ Idle(p)
      BY <1>2 DEF TimerTargets, Plain, PowerSwapping, Powering, TimedStates, Idle
    <2>5. Ran(p, set_state_timeout(s, "HARD_RESET_EXECUTE"))
          /\ Ran(p, set_state(s, "HARD_RESET_EXECUTE"))
      BY <2>3, <2>4, ArmedRan, LeftRan
    <2>6. Ran(p, q) /\ Ran(p, r) BY <2>1, <2>2, <2>4, KeptRan
    <2> QED BY <2>5, <2>6, Zenon DEF HardResetSend, q, r, s
  <1>3. ASSUME p.task_state = "HARD_RESET_EXECUTE" PROVE Ran(p, HardResetExecute(p))
    <2> DEFINE q == IF p.last_state = "SNK_SWAP_STANDBY" THEN tcpm_set_cc(p, "RD") ELSE p
               r == pd_execute_hard_reset(q)
    <2>1. Kept(p, q) /\ HasControl(q) BY DriverKeeps, KeptControl
    <2> HIDE DEF q
    <2>2. HardReset(q, r) BY <2>1, HardResetEnters
    <2> HIDE DEF r
    <2>3. p.task_state \notin TimedStates BY <1>3 DEF TimedStates
    <2>4. r.task_state \notin PowerSwapping /\ r.task_state \notin Powering
      BY <2>2 DEF HardReset, PowerSwapping, Powering
    <2>5. Ran(p, r) BY <2>2, <2>3, <2>4, Zenon DEF Ran, HardReset, SameContract, Fits
    <2> QED BY <2>5 DEF HardResetExecute, q, r
  <1>4. ASSUME p.task_state = "SNK_HARD_RESET_RECOVER" PROVE Ran(p, SnkHardResetRecover(p))
    <2> DEFINE f == SetFlags(p, {"CHECK_IDENTITY"})
               e == [f EXCEPT !.vbus_off = 0]
               a == set_state_timeout(e, NoResponse(p, "SNK_DISCOVERY"))
               q == OnEntry(p, a)
               r == set_state(q, "SNK_DISCOVERY")
    <2>1. Kept(p, f) /\ HasControl(f) BY FlagsKeep, KeptControl
    <2> HIDE DEF f
    <2>2. Kept(p, e) /\ HasControl(e) BY <2>1, FieldsKeep, KeptTwice, KeptControl
    <2> HIDE DEF e
    <2>3. NoResponse(p, "SNK_DISCOVERY") \in TimerTargets(p.task_state)
      BY <1>4 DEF NoResponse, TimerTargets
    <2>4. Ran(p, q) BY <2>2, <2>3, WaitRan
    <2>5. HasControl(q) /\ (Contracted(q) <=> Contracted(p))
      <3>1. Armed(p, a, NoResponse(p, "SNK_DISCOVERY"))
        BY <2>2, SetTimeout, KeptThen
      <3> HIDE DEF a
      <3> QED BY <3>1, Zenon DEF OnEntry, Armed, SameState, SameContract
    <2> HIDE DEF q
    <2>6. Entered(q, r, "SNK_DISCOVERY") BY <2>5, SetState
    <2> HIDE DEF r
    <2>7. Plain("SNK_DISCOVERY") /\ "SNK_DISCOVERY" \in Aside
      BY DEF Plain, PowerSwapping, Powering, Aside
    <2>8. Ran(p, r) BY <2>6, <2>7, Zenon DEF Ran, Entered, SameContract, Fits, Plain
    <2> QED BY <2>4, <2>8, Zenon
            DEF SnkHardResetRecover, pd_is_vbus_present, pd_snk_is_vbus_provided, r, q, a, e, f
  <1>5. ASSUME p.task_state = "SRC_HARD_RESET_RECOVER" PROVE Ran(p, SrcHardResetRecover(p))
    <2>1. Idle(p) /\ p.task_state \notin TimedStates /\ Plain("SRC_STARTUP")
      BY <1>5 DEF Idle, TimedStates, Plain, PowerSwapping, Powering
    <2> QED BY <2>1, DriverKeeps, KeptRan, LeftRan DEF SrcHardResetRecover
  <1> QED BY <1>1, <1>2, <1>3, <1>4, <1>5

----------------------------------------------------------------------------
(***************************************************************************)
(* The inductive invariant, by the place in the loop.  Between the handler *)
(* and the next message a running timer belongs to the state whose handler *)
(* ran last, which is the present one; afterwards the button may have put  *)
(* SOFT_RESET in the way.  A message never leads back to the state whose   *)
(* handler ran last if that state has a timer (Backwards): the handler     *)
(* would not take it for a new state, and not arm the timer.               *)
(***************************************************************************)
On(p) == p.timeout # "off"
Own(p) == p.timeout_state \in TimerTargets(p.task_state)
OnTime(p) == p.last_state = p.task_state /\ p.task_state \in TimedStates => On(p)

Backwards ==
    {<<"SNK_TRANSITION", "SNK_REQUESTED">>, <<"SRC_NEGOCIATE", "SRC_DISCOVERY">>,
     <<"SRC_SWAP_SNK_DISABLE", "SRC_SWAP_INIT">>, <<"SRC_SWAP_SNK_DISABLE", "SRC_READY">>,
     <<"SNK_SWAP_STANDBY", "SNK_SWAP_SRC_DISABLE">>}
NotBack(p) == <<p.last_state, p.task_state>> \notin Backwards

Controlled(p) == HasControl(p) /\ Fits(p) /\ OnTime(p)
Steady(p) == Controlled(p) /\ NotBack(p) /\ (On(p) => Own(p) /\ p.last_state = p.task_state)
Ready(p) ==
    Controlled(p) /\ (On(p) => Own(p) \/ (p.task_state = "SOFT_RESET" /\ Entering(p)))

ControlInv ==
    /\ pc \in {"poll", "tail"} => Steady(port)
    /\ pc = "msg" => Ready(port) /\ NotBack(port)
    /\ pc = "state" => Ready(port)

LEMMA TimerTargetFacts ==
    ASSUME NEW s, NEW t \in TimerTargets(s)
    PROVE  /\ t # s
           /\ t \in PowerSwapping => s \in PowerSwapping
           /\ t \in Powering => s \in Powering
           /\ <<s, t>> \notin Backwards
  BY DEF TimerTargets, PowerSwapping, Powering, Backwards

\* A timer that runs after the handler belongs to its state.
LEMMA RanTimer ==
    ASSUME NEW p, Ready(p), NEW q, Ran(p, q), On(q)
    PROVE  q.task_state = p.task_state /\ q.timeout_state \in TimerTargets(p.task_state)
  <1> DEFINE s == p.task_state
  <1>1. ASSUME Kept(p, q), Entering(p) => s \notin TimedStates \cup {"SOFT_RESET"}
        PROVE  q.task_state = s /\ q.timeout_state \in TimerTargets(s)
    BY <1>1, Zenon DEF Kept, SameState, On, Own, Ready
  <1>2. ASSUME NEW t \in TimerTargets(s), Armed(p, q, t)
        PROVE  q.task_state = s /\ q.timeout_state \in TimerTargets(s)
    BY <1>2, Zenon DEF Armed, SameState
  <1> QED BY <1>1, <1>2, Zenon DEF Ran, On

\* The handler, last_state, and the timer if it is due.
LEMMA RanSteady ==
    ASSUME NEW p, Ready(p), NEW q, Ran(p, q)
    PROVE  Steady(FinishState(q, p.task_state))
  <1> DEFINE s == p.task_state
             r == [q EXCEPT !.last_state = s]
             f == set_state(r, r.timeout_state)
  <1>1. HasControl(q) BY DEF Ran, Kept, Armed, SameState, SameContract
  <1>2. /\ HasControl(r) /\ r.last_state = s /\ r.task_state = q.task_state
        /\ r.timeout = q.timeout /\ r.timeout_state = q.timeout_state
        /\ Contracted(r) <=> Contracted(q)
    BY <1>1, Zenon DEF HasControl, Contracted
  <1> HIDE DEF r
  <1>3. Entered(r, f, r.timeout_state) BY <1>2, SetState
  <1> HIDE DEF f
  <1>4. FinishState(q, s) = IF r.timeout = "due" THEN f ELSE r BY DEF FinishState, r, f
  <1>5. Fits(q)
    BY Zenon DEF Ran, Kept, Armed, SameState, SameContract, Fits, Ready, Controlled
  <1>6. On(q) => q.task_state = s /\ q.timeout_state \in TimerTargets(s) BY RanTimer
  <1>7. s \in TimedStates => q.task_state \in {s} \cup Aside
    BY Zenon DEF Ran, Kept, Armed, SameState
  <1>8. s \in TimedStates /\ q.task_state = s => On(q)
    <2>1. s \notin Aside \/ s \notin TimedStates
      BY DEF Aside, Disconnected, TimedStates
    <2>2. Kept(p, q) /\ ~Entering(p) /\ s \in TimedStates => On(q)
      BY Zenon DEF Kept, On, OnTime, Ready, Controlled, Entering
    <2> QED BY <2>1, <2>2, Zenon DEF Ran, Armed, On
  <1>9. <<s, s>> \notin Backwards /\ \A x \in Aside : s \in TimedStates => <<s, x>> \notin Backwards
    BY DEF Backwards, Aside, Disconnected, TimedStates
  <1>10. s \notin TimedStates => \A x : <<s, x>> \notin Backwards
    BY DEF Backwards, TimedStates
  <1>11. ASSUME r.timeout # "due" PROVE Steady(r)
    <2>1. Fits(r) BY <1>2, <1>5, Zenon DEF Fits
    <2>2. OnTime(r) BY <1>2, <1>8, Zenon DEF OnTime, On
    <2>3. NotBack(r) BY <1>2, <1>7, <1>9, <1>10, Zenon DEF NotBack
    <2>4. On(r) => Own(r) /\ r.last_state = r.task_state BY <1>2, <1>6, Zenon DEF On, Own
    <2> QED BY <1>2, <2>1, <2>2, <2>3, <2>4 DEF Steady, Controlled
  <1>12. ASSUME r.timeout = "due" PROVE Steady(f)
    <2>1. /\ f.task_state \in TimerTargets(s) /\ f.last_state = s /\ f.timeout = "off"
          /\ HasControl(f) /\ (Contracted(f) <=> Contracted(q)) /\ q.task_state = s
      <3>1. On(q) BY <1>2, <1>12 DEF On
      <3> QED BY <1>2, <1>3, <1>6, <3>1, Zenon DEF Entered, SameContract
    <2>2. f.task_state # s /\ <<s, f.task_state>> \notin Backwards
          /\ (f.task_state \in PowerSwapping => s \in PowerSwapping)
          /\ (f.task_state \in Powering => s \in Powering)
      BY <2>1, TimerTargetFacts
    <2>3. Fits(f) BY <1>5, <2>1, <2>2, Zenon DEF Fits
    <2> QED BY <2>1, <2>2, <2>3, Zenon DEF Steady, Controlled, OnTime, NotBack, On
  <1> QED BY <1>4, <1>11, <1>12, Zenon

LEMMA TakenReady ==
    ASSUME NEW p, Ready(p), NotBack(p), NEW q, Taken(p, q)
    PROVE  Ready(q)
  <1>1. CASE Kept(p, q)
    BY <1>1, Zenon DEF Kept, SameState, SameContract, Ready, Controlled, Fits, OnTime, On, Own,
                       Entering
  <1>2. CASE p.task_state = "SNK_REQUESTED" /\ Armed(p, q, "SNK_READY")
    <2>1. "SNK_READY" \in TimerTargets("SNK_REQUESTED") BY DEF TimerTargets
    <2> QED BY <1>2, <2>1, Zenon DEF Armed, SameState, SameContract, Ready, Controlled, Fits,
                                     OnTime, On, Own
  <1>3. CASE /\ HasControl(q) /\ Fits(q)
             /\ q.timeout = "off" /\ q.last_state = p.last_state
             /\ q.task_state \in TimedStates => <<p.task_state, q.task_state>> \in TimedMoves
    <2>1. ~(q.last_state = q.task_state /\ q.task_state \in TimedStates)
      <3>1. \A a, b : <<a, b>> \in TimedMoves => <<b, a>> \in Backwards
        BY DEF TimedMoves, Backwards
      <3> QED BY <1>3, <3>1, Zenon DEF NotBack
    <2> QED BY <1>3, <2>1, Zenon DEF Ready, Controlled, OnTime, On
  <1> QED BY <1>1, <1>2, <1>3 DEF Taken

LEMMA KeptInv ==
    ASSUME NEW p, NEW q, Kept(p, q)
    PROVE  /\ Steady(p) => Steady(q)
           /\ Ready(p) => Ready(q)
           /\ NotBack(p) => NotBack(q)
  BY Zenon DEF Kept, SameState, SameContract, Steady, Ready, NotBack, Controlled, Fits, OnTime,
               On, Own, Entering

LEMMA EnteredSteady ==
    ASSUME NEW p, Steady(p), NEW s, NEW q, Entered(p, q, s),
           \/ s \in Disconnected \cup {"SOFT_RESET", "DR_SWAP", "SNK_SWAP_INIT"}
           \/ s = "SRC_SWAP_INIT" /\ p.task_state = "SRC_READY"
    PROVE  Steady(q)
  <1>1. s \in Free BY DEF Free
  <1>2. HasControl(q) /\ Fits(q) /\ q.task_state \notin TimedStates /\ q.timeout = "off"
    BY <1>1, FreeFits
  <1>3. NotBack(q)
    <2>1. q.task_state = s /\ q.last_state = p.last_state BY DEF Entered
    <2>2. CASE s \in Disconnected \cup {"SOFT_RESET", "DR_SWAP", "SNK_SWAP_INIT"}
      <3>1. \A x : <<x, s>> \notin Backwards BY <2>2 DEF Disconnected, Backwards
      <3> QED BY <2>1, <3>1 DEF NotBack
    <2>3. CASE s = "SRC_SWAP_INIT" /\ p.task_state = "SRC_READY"
      <3>1. \A x : <<x, "SRC_SWAP_INIT">> \in Backwards => <<x, "SRC_READY">> \in Backwards
        BY DEF Backwards
      <3> QED BY <2>1, <2>3, <3>1, Zenon DEF NotBack, Steady
    <2> QED BY <2>2, <2>3
  <1> QED BY <1>2, <1>3, Zenon DEF Steady, Controlled, OnTime, On

LEMMA AlertSteady ==
    ASSUME NEW p, Steady(p)
    PROVE  Steady(tcpc_alert(p))
  <1> DEFINE p0 == [p EXCEPT !.ints = {}]
             p1 == IF "COLLISION" \in p.ints THEN pd_transmit_complete(p0, "FAILED") ELSE p0
             p2 == IF "TX_SUCCESS" \in p.ints THEN pd_transmit_complete(p1, "SUCCESS") ELSE p1
             p3 == IF "RETRYFAIL" \in p.ints THEN pd_transmit_complete(p2, "FAILED") ELSE p2
             p4 == IF "HARDSENT" \in p.ints
                   THEN pd_transmit_complete(fusb302_pd_reset(p3), "SUCCESS") ELSE p3
             r5 == pd_execute_hard_reset(fusb302_pd_reset(p4))
             p5 == IF "HARDRESET" \in p.ints THEN r5 ELSE p4
  <1>0. HasControl(p) BY DEF Steady, Controlled
  <1>c. ASSUME NEW q, HasControl(q), NEW st PROVE Kept(q, pd_transmit_complete(q, st))
    <2> DEFINE r == IF st = "SUCCESS" THEN inc_id(q) ELSE q
    <2>1. Kept(q, r) /\ HasControl(r) BY <1>c, FieldsKeep, DriverKeeps, KeptControl DEF inc_id
    <2> HIDE DEF r
    <2>2. Kept(q, [r EXCEPT !.tx_status = st]) BY <2>1, FieldsKeep, KeptTwice
    <2> QED BY <2>2 DEF pd_transmit_complete, r
  <1>1. Kept(p, p0) BY <1>0, FieldsKeep
  <1> HIDE DEF p0
  <1>2. Kept(p, p1) BY <1>1, <1>c, KeptControl, KeptTwice
  <1> HIDE DEF p1
  <1>3. Kept(p, p2) BY <1>2, <1>c, KeptControl, KeptTwice
  <1> HIDE DEF p2
  <1>4. Kept(p, p3) BY <1>3, <1>c, KeptControl, KeptTwice
  <1> HIDE DEF p3
  <1>5. Kept(p, p4) /\ HasControl(p4)
    <2>1. Kept(p, fusb302_pd_reset(p3)) BY <1>4, KeptControl, DriverKeeps, KeptTwice
    <2>2. Kept(p, pd_transmit_complete(fusb302_pd_reset(p3), "SUCCESS"))
      BY <2>1, <1>c, KeptControl, KeptTwice
    <2> QED BY <1>4, <2>2, KeptControl
  <1> HIDE DEF p4
  <1>6. Steady(r5)
    <2>1. HasControl(fusb302_pd_reset(p4)) BY <1>5, DriverKeeps, KeptControl
    <2>2. HardReset(fusb302_pd_reset(p4), r5) BY <2>1, HardResetEnters
    <2> HIDE DEF r5
    <2>3. /\ HasControl(r5) /\ r5.timeout = "off" /\ r5.last_state = "HARD_RESET_EXECUTE"
          /\ r5.task_state \in {"SNK_HARD_RESET_RECOVER", "SRC_HARD_RESET_RECOVER"}
      BY <2>2 DEF HardReset, SameContract
    <2>4. Fits(r5) /\ r5.last_state # r5.task_state
      BY <2>3 DEF Fits, PowerSwapping, Powering
    <2>5. NotBack(r5)
      <3>1. \A x : <<"HARD_RESET_EXECUTE", x>> \notin Backwards BY DEF Backwards
      <3> QED BY <2>3, <3>1 DEF NotBack
    <2> QED BY <2>3, <2>4, <2>5, Zenon DEF Steady, Controlled, OnTime, On
  <1> HIDE DEF r5
  <1>7. Steady(p5) BY <1>5, <1>6, KeptInv
  <1> HIDE DEF p5
  <1>8. Steady([p5 EXCEPT !.rx_fifo = << >>])
    <2>1. HasControl(p5) BY <1>7 DEF Steady, Controlled
    <2> QED BY <1>7, <2>1, FieldsKeep, KeptInv
  <1> QED BY <1>7, <1>8 DEF tcpc_alert, p0, p1, p2, p3, p4, r5, p5

\* The button's SOFT_RESET beside set_state, and the VDM sender.
LEMMA BeginRunReady ==
    ASSUME NEW p, Steady(p), NEW reset \in BOOLEAN
    PROVE  Ready(BeginRun(ServicePin(p), reset)) /\ NotBack(BeginRun(ServicePin(p), reset))
  <1> DEFINE q == ServicePin(p)
             r == IF reset THEN [q EXCEPT !.task_state = "SOFT_RESET"] ELSE q
             t == pd_vdm_send_state_machine(r)
  <1>1. Steady(q) /\ HasControl(q) BY AlertSteady DEF ServicePin, Steady, Controlled
  <1> HIDE DEF q
  <1>2. Ready(q) /\ NotBack(q) BY <1>1, Zenon DEF Ready, Steady
  <1>3. ASSUME NEW x, x = [q EXCEPT !.task_state = "SOFT_RESET"]
        PROVE  Ready(x) /\ NotBack(x)
    <2>1. /\ x.task_state = "SOFT_RESET" /\ x.last_state = q.last_state /\ HasControl(x)
          /\ x.timeout = q.timeout /\ x.timeout_state = q.timeout_state
      BY <1>1, <1>3, Zenon DEF HasControl
    <2>2. Fits(x) /\ OnTime(x)
      BY <2>1 DEF Fits, OnTime, PowerSwapping, Powering, TimedStates
    <2>3. On(x) => Own(x) \/ Entering(x)
      BY <1>1, <2>1, Zenon DEF Steady, On, Own, Entering
    <2>4. NotBack(x)
      <3>1. \A y : <<y, "SOFT_RESET">> \notin Backwards BY DEF Backwards
      <3> QED BY <2>1, <3>1 DEF NotBack
    <2> QED BY <2>1, <2>2, <2>3, <2>4, Zenon DEF Ready, Controlled
  <1>4. Ready(r) /\ NotBack(r) BY <1>2, <1>3
  <1> HIDE DEF r
  <1>5. Kept(r, t) BY <1>4, VdmKeeps DEF Ready, Controlled
  <1> HIDE DEF t
  <1>6. Ready(t) /\ NotBack(t) BY <1>4, <1>5, KeptInv
  <1> QED BY <1>6 DEF BeginRun, q, r, t

LEMMA ApplicationSteady ==
    ASSUME NEW p, Steady(p)
    PROVE  /\ Steady(pd_soft_reset(p)) /\ Steady(pd_request_power_swap(p))
           /\ Steady(pd_request_data_swap(p)) /\ Steady(pd_set_new_power_request(p))
           /\ Steady(pd_ping_enable(p, TRUE)) /\ Steady(pd_send_vdm(p))
           /\ \A state : Steady(pd_set_dual_role(p, state))
  <1>1. HasControl(p) BY DEF Steady, Controlled
  <1>2. \A s : Entered(p, set_state(p, s), s) BY <1>1, SetState
  <1>3. Steady(pd_soft_reset(p)) /\ Steady(pd_request_data_swap(p))
    BY <1>2, EnteredSteady DEF pd_soft_reset, pd_request_data_swap
  <1>4. Steady(pd_request_power_swap(p)) BY <1>2, EnteredSteady DEF pd_request_power_swap
  <1>5. Steady(pd_ping_enable(p, TRUE))
    BY <1>1, FlagsKeep, KeptInv DEF pd_ping_enable
  <1>6. Steady(pd_set_new_power_request(p)) /\ \A state : Steady(pd_set_dual_role(p, state))
    BY <1>1, FieldsKeep, KeptInv DEF pd_set_new_power_request, pd_set_dual_role
  <1>7. Steady(pd_send_vdm(p)) BY <1>1, VdmKeeps, KeptInv
  <1> QED BY <1>3, <1>4, <1>5, <1>6, <1>7

LEMMA EndRunSteady ==
    ASSUME NEW p, Steady(p), NEW ccs
    PROVE  Steady(Forget(CheckDisconnect(p, ccs)))
  <1> DEFINE q == CheckDisconnect(p, ccs)
  <1>1. HasControl(p) BY DEF Steady, Controlled
  <1>2. Steady(set_state(p, "SRC_DISCONNECTED")) /\ Steady(set_state(p, "SNK_DISCONNECTED"))
    BY <1>1, SetState, EnteredSteady DEF Disconnected
  <1>3. Steady(q) /\ HasControl(q)
    <2>1. Steady(q) BY <1>2, Zenon DEF CheckDisconnect
    <2> QED BY <2>1 DEF Steady, Controlled
  <1> HIDE DEF q
  <1>4. Kept(q, Forget(q))
    BY <1>3, Zenon DEF HasControl, Kept, SameState, SameContract, Contracted, Forget
  <1>5. Steady(Forget(q)) BY <1>3, <1>4, KeptInv
  <1> QED BY <1>5 DEF q

LEMMA ControlInit == Init => ControlInv
  <1>1. HasControl(pd_init) BY DEF HasControl, pd_init
  <1>2. /\ pd_init.task_state = "SNK_DISCONNECTED" /\ pd_init.last_state = "DISABLED"
        /\ pd_init.timeout = "off"
    BY DEF pd_init
  <1>3. Fits(pd_init) /\ OnTime(pd_init) /\ NotBack(pd_init)
    BY <1>2 DEF Fits, OnTime, NotBack, PowerSwapping, Powering, Backwards
  <1>4. Steady(pd_init) BY <1>1, <1>2, <1>3 DEF Steady, Controlled, On
  <1> QED BY <1>4 DEF Init, ControlInv

LEMMA ControlLoop ==
    ASSUME ControlInv, PortInv, Loop \/ PollPressed
    PROVE  ControlInv'
  <1>1. CASE Poll
    <2>1. Ready(port') /\ NotBack(port') BY <1>1, BeginRunReady DEF Poll, ControlInv
    <2> QED BY <1>1, <2>1 DEF Poll, ControlInv
  <1>2. CASE PollPressed
    <2>1. Steady(port) BY <1>2 DEF PollPressed, ControlInv
    <2>2. Kept(port, NextCapIndex(port))
      BY <2>1, FieldsKeep DEF NextCapIndex, Steady, Controlled
    <2>3. Steady(NextCapIndex(port)) BY <2>1, <2>2, KeptInv
    <2>4. Ready(port') /\ NotBack(port') BY <1>2, <2>3, BeginRunReady DEF PollPressed
    <2> QED BY <1>2, <2>4 DEF PollPressed, ControlInv
  <1>3. CASE ProcessMessage
    <2>1. Ready(port) /\ NotBack(port) BY <1>3 DEF ProcessMessage, ControlInv
    <2>2. Ready(TakeMessage(port))
      <3> DEFINE p == [port EXCEPT !.rx_fifo = Tail(port.rx_fifo)]
                 m == Head(port.rx_fifo)
      <3>1. CASE port.rx_fifo = << >> BY <2>1, <3>1 DEF TakeMessage
      <3>2. CASE port.rx_fifo # << >>
        <4>1. m \in Messages
          <5>1. port.rx_fifo \in Fifos BY DEF PortInv, Sound, Ports
          <5> QED BY <3>2, <5>1 DEF Fifos
        <4>2. Kept(port, p) BY <2>1, FieldsKeep DEF Ready, Controlled
        <4>3. p = [port EXCEPT !.rx_fifo = Tail(@)] OBVIOUS
        <4> HIDE DEF p, m
        <4>4. Ready(p) /\ NotBack(p) BY <2>1, <4>2, KeptInv
        <4>5. Taken(p, handle_request(p, m))
          BY <4>1, <4>4, MessageTaken DEF Ready, Controlled
        <4>6. Ready(handle_request(p, m)) BY <4>4, <4>5, TakenReady
        <4> QED BY <3>2, <4>3, <4>6 DEF TakeMessage, m
      <3> QED BY <3>1, <3>2
    <2> QED BY <1>3, <2>2 DEF ProcessMessage, ControlInv
  <1>4. CASE RunState
    <2>1. pc = "state" /\ Ready(port) /\ HasControl(port) /\ Fits(port)
      BY <1>4 DEF RunState, RunAttach, RunSink, RunSource, RunSwap, RunReset, Handle,
                  ControlInv, Ready, Controlled
    <2>2. ASSUME NEW s, NEW q, Handle(s, q), Ran(port, q) PROVE ControlInv'
      <3>1. Steady(FinishState(q, port.task_state)) BY <2>1, <2>2, RanSteady
      <3> QED BY <2>2, <3>1 DEF Handle, ControlInv
    <2>3. ASSUME NEW s, NEW q, Handle(s, q) PROVE port.task_state = s
      BY <2>3 DEF Handle
    <2>4. CASE RunAttach
      BY <2>1, <2>2, <2>3, <2>4, AttachRan DEF RunAttach, Disconnected, Debouncing
    <2>5. CASE RunSink BY <2>1, <2>2, <2>3, <2>5, SinkRan DEF RunSink
    <2>6. CASE RunSource BY <2>1, <2>2, <2>3, <2>6, SourceRan DEF RunSource
    <2>7. CASE RunSwap BY <2>1, <2>2, <2>3, <2>7, SwapRan DEF RunSwap
    <2>8. CASE RunReset BY <2>1, <2>2, <2>3, <2>8, ResetRan DEF RunReset
    <2> QED BY <1>4, <2>4, <2>5, <2>6, <2>7, <2>8 DEF RunState
  <1>5. CASE EndRun
    <2>1. Steady(port') BY <1>5, EndRunSteady DEF EndRun, ControlInv
    <2> QED BY <1>5, <2>1 DEF EndRun, ControlInv
  <1> QED BY <1>1, <1>2, <1>3, <1>4, <1>5 DEF Loop

LEMMA ControlApplication ==
    ASSUME ControlInv, Application
    PROVE  ControlInv'
  <1>1. ASSUME NEW api, NEW q, Call(api, q), Steady(port) => Steady(q) PROVE ControlInv'
    BY <1>1 DEF Call, ControlInv
  <1> QED BY <1>1, ApplicationSteady DEF Application

LEMMA ControlWorld ==
    ASSUME ControlInv, PortInv, PartnerSends \/ PartnerHardReset \/ TxDone \/ Plug \/ Time
    PROVE  ControlInv'
  <1>0. HasControl(port)
    BY DEF PortInv, ControlInv, Steady, Ready, Controlled
  <1>1. ASSUME Kept(port, port'), UNCHANGED pc PROVE ControlInv'
    BY <1>1, KeptInv DEF ControlInv
  <1>2. CASE PartnerSends
    <2>1. \A f, is : Kept(port, [port EXCEPT !.rx_fifo = f, !.ints = is])
      BY <1>0, Zenon DEF HasControl, Kept, SameState, SameContract, Contracted
    <2>2. \E f, is : port' = [port EXCEPT !.rx_fifo = f, !.ints = is]
      <3>1. PICK m \in PartnerMsgs :
              port' = [port EXCEPT !.rx_fifo = Append(@, m),
                                   !.ints = IF port.rx_fifo = << >> THEN @
                                            ELSE @ \cup {"GCRCSENT"}]
        BY <1>2 DEF PartnerSends
      <3> DEFINE f == Append(port.rx_fifo, m)
                 is == IF port.rx_fifo = << >> THEN port.ints ELSE port.ints \cup {"GCRCSENT"}
      <3>2. port' = [port EXCEPT !.rx_fifo = f, !.ints = is] BY <3>1
      <3> HIDE DEF f, is
      <3> QED BY <3>2
    <2>3. Kept(port, port')
      <3>1. PICK f, is : port' = [port EXCEPT !.rx_fifo = f, !.ints = is] BY <2>2
      <3>2. Kept(port, [port EXCEPT !.rx_fifo = f, !.ints = is]) BY <2>1
      <3> QED BY <3>1, <3>2
    <2> QED BY <1>1, <1>2, <2>3 DEF PartnerSends
  <1>3. CASE PartnerHardReset BY <1>0, <1>1, <1>3, FieldsKeep DEF PartnerHardReset
  <1>4. CASE TxDone
    <2>1. \A is : Kept(port, [port EXCEPT !.tx = "none", !.ints = is])
      BY <1>0, Zenon DEF HasControl, Kept, SameState, SameContract, Contracted
    <2>2. ASSUME NEW int, TxEnds(int) PROVE ControlInv'
      BY <1>1, <2>1, <2>2, Zenon DEF TxEnds
    <2> QED BY <1>4, <2>2 DEF TxDone
  <1>5. CASE Plug BY <1>0, <1>1, <1>5, DriverKeeps DEF Plug
  <1>6. CASE Time
    <2>1. CASE StateTimer
      <3>1. pc = "state" /\ Ready(port) /\ pc' = pc /\ port.timeout = "armed"
            /\ port' = [port EXCEPT !.timeout = "due"]
        BY <2>1 DEF StateTimer, Passes, ControlInv
      <3>2. /\ HasControl(port') /\ (Contracted(port') <=> Contracted(port))
            /\ port'.task_state = port.task_state /\ port'.last_state = port.last_state
            /\ port'.timeout = "due" /\ port'.timeout_state = port.timeout_state
        BY <1>0, <3>1, Zenon DEF HasControl, Contracted
      <3>3. Ready(port')
        BY <3>1, <3>2, Zenon DEF Ready, Controlled, Fits, OnTime, On, Own, Entering
      <3> QED BY <3>1, <3>3 DEF ControlInv
    <2>2. CASE VdmTimer \/ DebounceTimer \/ RecoverTimer \/ ToggleTimer
      <3>1. ASSUME NEW f \in {"vdm_timeout", "cc_debounce", "src_recover", "next_role_swap"},
                   NEW at, Passes(f, at)
            PROVE  ControlInv'
        <4>1. Kept(port, [port EXCEPT ![f] = "due"])
          BY <1>0, Zenon DEF HasControl, Kept, SameState, SameContract, Contracted
        <4> QED BY <1>1, <3>1, <4>1 DEF Passes
      <3> QED BY <2>2, <3>1 DEF VdmTimer, DebounceTimer, RecoverTimer, ToggleTimer
    <2> QED BY <1>6, <2>1, <2>2 DEF Time, PortTimer
  <1> QED BY <1>2, <1>3, <1>4, <1>5, <1>6

\* Control is as expected in every reachable state.
THEOREM ControlInvariant == Spec => []ControlInv
  <1>1. Init => ControlInv BY ControlInit
  <1>2. ControlInv /\ PortInv /\ [Next]_vars => ControlInv'
    <2>1. ControlInv /\ UNCHANGED vars => ControlInv' BY DEF vars, ControlInv
    <2> QED BY <2>1, ControlLoop, ControlApplication, ControlWorld DEF Next
  <1> QED BY <1>1, <1>2, PortInvariant, PTL DEF Spec

\* set_state, set_state_timeout, pd_run_state_machine: no timer fires in a state it was
\* not armed in, whatever messages come and whenever the button is pressed.
THEOREM TimersBelong == Spec => []TimerOfState
  <1>1. PortInv /\ ControlInv => TimerOfState
    BY Zenon DEF PortInv, ControlInv, Steady, Ready, On, Own, Entering, TimerOfState
  <1> QED BY <1>1, PortInvariant, ControlInvariant, PTL

\* pd_run_state_machine: a state that waits with a deadline has one once its handler
\* has run, so that no lost message can hold the port in it.
THEOREM WaitsAreTimed == Spec => []TimedWaits
  <1>1. ControlInv => TimedWaits
    BY Zenon DEF ControlInv, Steady, Controlled, OnTime, On, Settled, TimedWaits
  <1> QED BY <1>1, ControlInvariant, PTL

\* handle_accept: there is no contract from the acceptance of a power swap to its end.
THEOREM SwapHasNoContract == Spec => []NoContractDuringSwap
  <1>1. PortInv /\ ControlInv => NoContractDuringSwap
    BY Zenon DEF PortInv, ControlInv, Steady, Ready, Controlled, Fits, Contracted,
                 NoContractDuringSwap
  <1> QED BY <1>1, PortInvariant, ControlInvariant, PTL
=============================================================================
