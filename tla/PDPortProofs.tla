---------------------------- MODULE PDPortProofs ----------------------------
(***************************************************************************)
(* Theorems about one port, for every cable, message set, retry limit and  *)
(* queue depth.  A port is sound when it is well typed, its receiver is    *)
(* off while it is disconnected, its state timer never leads to a debounce *)
(* state, and a pending VDM has a deadline.  One lemma per operator says   *)
(* that it takes sound ports to sound ports; the theorems put them         *)
(* together, one step per action.                                          *)
(***************************************************************************)
EXTENDS PDPortProps, TLAPS

ReceiverOff(p) == p.task_state \in Disconnected \cup Debouncing => p.rx_enable = 0
TimerLeadsOn(p) == p.timeout_state \notin Debouncing
VdmTimed(p) == p.vdm_state \in {"BUSY", "WAIT_RSP_BUSY"} => p.vdm_timeout # "off"

Sound(p) == p \in Ports /\ ReceiverOff(p) /\ TimerLeadsOn(p) /\ VdmTimed(p)

\* The states a handler may enter from anywhere.
Enterable == States \ Debouncing

USE DEF Disconnected, Debouncing

----------------------------------------------------------------------------
\* The values that the firmware assigns are of the types of the fields.
LEMMA TypeFacts ==
    /\ 0 \in MessageIds /\ 0 \in HardResetCounts /\ 0 \in CapsCounts
    /\ 0 \in SnkCapCounts /\ PD_SNK_CAP_RETRIES + 1 \in SnkCapCounts /\ 0 \in PdoCounts
    /\ 0 \in PdoIndexes
    /\ {} \in FlagSets /\ {} \in IntSets /\ << >> \in Fifos
    /\ "off" \in Deadlines /\ "armed" \in Deadlines /\ "due" \in Deadlines
    /\ "none" \in Transmissions /\ "DISABLED" \in States /\ "SOFT_RESET" \in States
    /\ "HARD_RESET_EXECUTE" \in States
    /\ "NONE" \in CcStates /\ "DEBUG_ACC" \in CcStates /\ "UFP_ATTACHED" \in CcStates
    /\ "AUDIO_ACC" \in CcStates /\ "DFP_ATTACHED" \in CcStates
    /\ "ERR_BUSY" \in VdmStates /\ "ERR_SEND" \in VdmStates /\ "ERR_TMOUT" \in VdmStates
    /\ "DONE" \in VdmStates /\ "READY" \in VdmStates /\ "BUSY" \in VdmStates
    /\ "WAIT_RSP_BUSY" \in VdmStates
    /\ 0 \in Bits /\ 1 \in Bits /\ 0 \in Millivolts
    /\ "SINK" \in PowerRoles /\ "SOURCE" \in PowerRoles /\ "UFP" \in DataRoles
    /\ "DFP" \in DataRoles /\ "RP" \in Pulls /\ "RD" \in Pulls
    /\ "SUCCESS" \in TxStatuses /\ "FAILED" \in TxStatuses
  <1>1. /\ 0 \in MessageIds /\ 0 \in HardResetCounts /\ 0 \in CapsCounts
        /\ 0 \in SnkCapCounts /\ PD_SNK_CAP_RETRIES + 1 \in SnkCapCounts /\ 0 \in PdoCounts
        /\ 0 \in PdoIndexes
    BY MsgIdsAssumption, CapsCountAssumption, SnkCapRetriesAssumption, PdoMaxAssumption
       DEF MessageIds, CapsCounts, HardResetCounts, PD_HARD_RESET_COUNT, SnkCapCounts,
           PdoCounts, PdoIndexes
  <1>2. /\ {} \in FlagSets /\ {} \in IntSets /\ << >> \in Fifos
    BY DEF FlagSets, IntSets, Fifos
  <1>3. /\ "off" \in Deadlines /\ "armed" \in Deadlines /\ "due" \in Deadlines
        /\ "none" \in Transmissions /\ "DISABLED" \in States /\ "SOFT_RESET" \in States
        /\ "HARD_RESET_EXECUTE" \in States
    BY DEF Deadlines, Transmissions, States
  <1>4. /\ "NONE" \in CcStates /\ "DEBUG_ACC" \in CcStates /\ "UFP_ATTACHED" \in CcStates
        /\ "AUDIO_ACC" \in CcStates /\ "DFP_ATTACHED" \in CcStates
    BY DEF CcStates
  <1>5. /\ "ERR_BUSY" \in VdmStates /\ "ERR_SEND" \in VdmStates /\ "ERR_TMOUT" \in VdmStates
        /\ "DONE" \in VdmStates /\ "READY" \in VdmStates /\ "BUSY" \in VdmStates
        /\ "WAIT_RSP_BUSY" \in VdmStates
    BY DEF VdmStates
  <1>6. /\ 0 \in Bits /\ 1 \in Bits /\ 0 \in Millivolts
    BY DEF Bits, Millivolts
  <1>7. /\ "SINK" \in PowerRoles /\ "SOURCE" \in PowerRoles /\ "UFP" \in DataRoles
        /\ "DFP" \in DataRoles /\ "RP" \in Pulls /\ "RD" \in Pulls
        /\ "SUCCESS" \in TxStatuses /\ "FAILED" \in TxStatuses
    BY DEF PowerRoles, DataRoles, Pulls, TxStatuses
  <1> QED BY <1>1, <1>2, <1>3, <1>4, <1>5, <1>6, <1>7

----------------------------------------------------------------------------
\* The driver.

LEMMA SetCcSound ==
    ASSUME NEW p, Sound(p), NEW pull \in Pulls
    PROVE  Sound(tcpm_set_cc(p, pull))
  BY TypeFacts DEF tcpm_set_cc, Sound, Ports, ReceiverOff, TimerLeadsOn, VdmTimed

LEMMA SetHeaderSound ==
    ASSUME NEW p, Sound(p), NEW pr \in PowerRoles, NEW dr \in DataRoles
    PROVE  Sound(tcpm_set_msg_header(p, pr, dr))
  BY TypeFacts, ZenonT(60) DEF tcpm_set_msg_header, Sound, Ports, ReceiverOff, TimerLeadsOn, VdmTimed

LEMMA NewTransmission ==
    ASSUME NEW p, Sound(p), NEW what \in Transmissions
    PROVE  Sound([p EXCEPT !.tx = what])
  BY TypeFacts DEF Sound, Ports, ReceiverOff, TimerLeadsOn, VdmTimed

LEMMA TransmitFrame ==
    ASSUME NEW p, NEW what
    PROVE  \E x \in Transmissions : tcpm_transmit(p, what) = [p EXCEPT !.tx = x]
  <1> DEFINE x == CASE what = "BIST" -> "none"
                    [] what \in SeenOnWire \cup {"HARD_RESET"} -> what
                    [] OTHER -> "SOP"
  <1>1. x \in Transmissions BY DEF Transmissions
  <1>2. tcpm_transmit(p, what) = [p EXCEPT !.tx = x] BY DEF tcpm_transmit
  <1> HIDE DEF x
  <1> QED BY <1>1, <1>2

LEMMA TransmitSound ==
    ASSUME NEW p, Sound(p), NEW what
    PROVE  Sound(tcpm_transmit(p, what))
  BY TransmitFrame, NewTransmission

LEMMA PdResetSound ==
    ASSUME NEW p, Sound(p)
    PROVE  Sound(fusb302_pd_reset(p))
  <1>1. << >> \in Fifos /\ "none" \in Transmissions
    BY DEF Transmissions, Fifos
  <1> QED BY <1>1, TypeFacts, ZenonT(60) DEF fusb302_pd_reset, Sound, Ports, ReceiverOff, TimerLeadsOn, VdmTimed

LEMMA RxEnableType ==
    ASSUME NEW p \in Ports, NEW enable \in Bits
    PROVE  tcpm_set_rx_enable(p, enable) \in Ports
  <1>1. << >> \in Fifos BY TypeFacts
  <1> QED BY <1>1, ZenonT(60) DEF tcpm_set_rx_enable, Ports

----------------------------------------------------------------------------
\* State changes.

LEMMA EnterableStates ==
    /\ Disconnected \cup PowerSwapping \subseteq Enterable
    /\ {"SNK_HARD_RESET_RECOVER", "SNK_DISCOVERY", "SNK_REQUESTED", "SNK_TRANSITION",
         "SNK_READY", "SNK_SWAP_INIT", "SRC_HARD_RESET_RECOVER", "SRC_STARTUP",
         "SRC_DISCOVERY", "SRC_NEGOCIATE", "SRC_ACCEPTED", "SRC_POWERED",
         "SRC_TRANSITION", "SRC_READY", "SRC_GET_SINK_CAP", "DR_SWAP", "SRC_SWAP_INIT",
         "SOFT_RESET", "HARD_RESET_SEND", "HARD_RESET_EXECUTE"} \subseteq Enterable
  BY DEF Enterable, States, PowerSwapping

LEMMA SetStateSound ==
    ASSUME NEW p, Sound(p), NEW next \in Enterable
    PROVE  Sound(set_state(p, next))
  <1> DEFINE q == [p EXCEPT !.timeout = "off", !.timeout_state = "DISABLED",
                            !.task_state = next]
  <1>1. next \in States /\ "DISABLED" \in States /\ "off" \in Deadlines
    BY DEF Enterable, States, Deadlines
  <1>0. q \in Ports BY <1>1, ZenonT(60) DEF Sound, Ports
  <1>2. set_state(p, next) \in Ports BY <1>0, RxEnableType, TypeFacts DEF set_state
  <1>3. ReceiverOff(set_state(p, next))
    BY DEF set_state, tcpm_set_rx_enable, Enterable, Sound, Ports, ReceiverOff
  <1>4. TimerLeadsOn(set_state(p, next)) /\ VdmTimed(set_state(p, next))
    BY DEF set_state, tcpm_set_rx_enable, Enterable, Sound, Ports, TimerLeadsOn, VdmTimed
  <1> QED BY <1>2, <1>3, <1>4 DEF Sound

LEMMA SetTimeoutSound ==
    ASSUME NEW p, Sound(p), NEW state \in Enterable
    PROVE  Sound(set_state_timeout(p, state))
  BY TypeFacts, ZenonT(60) DEF set_state_timeout, Enterable, Deadlines, Sound, Ports, ReceiverOff, TimerLeadsOn, VdmTimed

LEMMA IncIdSound ==
    ASSUME NEW p, Sound(p)
    PROVE  Sound(inc_id(p))
  <1>1. (p.msg_id + 1) % MsgIds \in MessageIds
    BY MsgIdsAssumption DEF Sound, Ports, MessageIds
  <1> QED BY <1>1, TypeFacts DEF inc_id, Sound, Ports, ReceiverOff, TimerLeadsOn, VdmTimed

LEMMA TransmitCompleteSound ==
    ASSUME NEW p, Sound(p), NEW status \in TxStatuses
    PROVE  Sound(pd_transmit_complete(p, status))
  <1> DEFINE q == IF status = "SUCCESS" THEN inc_id(p) ELSE p
  <1>1. Sound(q) BY IncIdSound
  <1> HIDE DEF q
  <1>2. Sound([q EXCEPT !.tx_status = status])
    BY <1>1, TypeFacts DEF Sound, Ports, ReceiverOff, TimerLeadsOn, VdmTimed
  <1> QED BY <1>2 DEF pd_transmit_complete, q

\* Every field is assigned at once by some operator; these are the assignments that
\* handlers make between calls.
LEMMA SetFlagsSound ==
    ASSUME NEW p, Sound(p), NEW fs \in FlagSets
    PROVE  Sound([p EXCEPT !.flags = fs])
  BY TypeFacts DEF Sound, Ports, ReceiverOff, TimerLeadsOn, VdmTimed

LEMMA SetRoleSound ==
    ASSUME NEW p, Sound(p), NEW role \in PowerRoles
    PROVE  Sound([p EXCEPT !.power_role = role])
  BY TypeFacts DEF Sound, Ports, ReceiverOff, TimerLeadsOn, VdmTimed

LEMMA ClearIdSound ==
    ASSUME NEW p, Sound(p)
    PROVE  Sound([p EXCEPT !.msg_id = 0])
  <1>1. 0 \in MessageIds BY TypeFacts
  <1> QED BY <1>1, TypeFacts DEF Sound, Ports, ReceiverOff, TimerLeadsOn, VdmTimed

LEMMA ClearIdRoleSound ==
    ASSUME NEW p, Sound(p)
    PROVE  Sound([p EXCEPT !.msg_id = 0, !.power_role = "SINK"])
  <1>1. 0 \in MessageIds BY TypeFacts
  <1> QED BY <1>1, TypeFacts, ZenonT(60) DEF Sound, Ports, ReceiverOff, TimerLeadsOn, VdmTimed

LEMMA SendsSound ==
    ASSUME NEW p, Sound(p)
    PROVE  /\ \A what : Sound(pd_transmit(p, what)) /\ Sound(send_control(p, what))
           /\ Sound(send_source_cap(p))
           /\ Sound(send_sink_cap(p))
           /\ Sound(send_request(p))
  BY TransmitSound DEF pd_transmit, send_control, send_source_cap, send_sink_cap, send_request

LEMMA RolesSound ==
    ASSUME NEW p, Sound(p), NEW role \in DataRoles
    PROVE  Sound(pd_update_roles(p)) /\ Sound(pd_set_data_role(p, role))
  <1>1. \A q : Sound(q) => Sound(pd_update_roles(q))
    <2> SUFFICES ASSUME NEW q, Sound(q) PROVE Sound(pd_update_roles(q)) OBVIOUS
    <2>1. q.power_role \in PowerRoles /\ q.data_role \in DataRoles
      BY DEF Sound, Ports
    <2> QED BY <2>1, SetHeaderSound DEF pd_update_roles
  <1>2. Sound([p EXCEPT !.data_role = role])
    BY TypeFacts DEF Sound, Ports, ReceiverOff, TimerLeadsOn, VdmTimed
  <1> QED BY <1>1, <1>2 DEF pd_set_data_role

LEMMA DataSwapSound ==
    ASSUME NEW p, Sound(p)
    PROVE  Sound(pd_dr_swap(p))
  <1> DEFINE q == pd_set_data_role(p, IF p.data_role = "UFP" THEN "DFP" ELSE "UFP")
  <1>1. Sound(q) BY RolesSound, TypeFacts
  <1> HIDE DEF q
  <1>2. q.flags \cup {"CHECK_IDENTITY"} \in FlagSets BY <1>1 DEF Sound, Ports, FlagSets, Flags
  <1> QED BY <1>1, <1>2, SetFlagsSound DEF pd_dr_swap, q

LEMMA ExecuteHardResetSound ==
    ASSUME NEW p, Sound(p)
    PROVE  Sound(pd_execute_hard_reset(p))
  <1> DEFINE q == [p EXCEPT !.msg_id = 0, !.last_state = "HARD_RESET_EXECUTE"]
             r == IF p.task_state \in {"SNK_SWAP_STANDBY", "SNK_SWAP_COMPLETE"}
                  THEN tcpm_set_cc(q, "RD") ELSE q
  <1>0. 0 \in MessageIds /\ "HARD_RESET_EXECUTE" \in States
    BY TypeFacts
  <1>1. Sound(q) BY <1>0, TypeFacts, ZenonT(60) DEF Sound, Ports, ReceiverOff, TimerLeadsOn, VdmTimed
  <1> HIDE DEF q
  <1>2. Sound(r) BY <1>1, SetCcSound, TypeFacts
  <1> HIDE DEF r
  <1>3. Sound([r EXCEPT !.src_recover = "armed"])
    <2>1. "armed" \in Deadlines BY DEF Deadlines
    <2>2. [r EXCEPT !.src_recover = "armed"] \in Ports BY <1>2, <2>1 DEF Sound, Ports
    <2> QED BY <1>2, <2>2, TypeFacts DEF Sound, Ports, ReceiverOff, TimerLeadsOn, VdmTimed
  <1> QED BY <1>2, <1>3, EnterableStates, SetStateSound DEF pd_execute_hard_reset, q, r

LEMMA ExecuteSoftResetSound ==
    ASSUME NEW p, Sound(p)
    PROVE  Sound(execute_soft_reset(p))
  BY ClearIdSound, EnterableStates, SetStateSound DEF execute_soft_reset, ByRole

----------------------------------------------------------------------------
\* The policy.

LEMMA UpdatePdoFlagsSound ==
    ASSUME NEW p, Sound(p), NEW pdo0 \in Pdo0s
    PROVE  Sound(pd_update_pdo_flags(p, pdo0))
  <1>1. (p.flags \ PartnerFlags) \cup pdo0.flags \in FlagSets
    BY DEF Sound, Ports, Pdo0s, FlagSets, Flags
  <1> QED BY <1>1, SetFlagsSound DEF pd_update_pdo_flags

LEMMA ProcessSourceCapSound ==
    ASSUME NEW p, Sound(p), NEW mv \in Voltages
    PROVE  /\ Sound(pd_process_source_cap(p, mv))
           /\ Sound(pd_process_source_cap_callback(p, mv))
  <1> DEFINE caps == [i \in DOMAIN p.src_caps |->
                          IF i < Len(mv) THEN mv[i + 1] ELSE p.src_caps[i]]
  <1>1. Len(mv) \in 1 .. PDO_MAX_OBJECTS /\ mv \in Seq(Nat) BY DEF Voltages
  <1>2. Len(mv) \in PdoCounts /\ Len(mv) - 1 \in PdoIndexes
    BY <1>1, PdoMaxAssumption DEF PdoCounts, PdoIndexes
  <1>3. p.src_caps \in PdoArrays BY DEF Sound, Ports
  <1>4. caps \in PdoArrays
    <2>1. \A i \in PdoIndexes : i < Len(mv) => mv[i + 1] \in Nat
      BY <1>1, PdoMaxAssumption DEF PdoIndexes
    <2> QED BY <1>3, <2>1 DEF PdoArrays, Millivolts
  <1>5. pd_process_source_cap(p, mv) =
            [p EXCEPT !.src_cap_cnt = Len(mv), !.src_caps = caps]
    BY DEF pd_process_source_cap, Sound, Ports
  <1> HIDE DEF caps
  <1>6. Sound([p EXCEPT !.src_cap_cnt = Len(mv), !.src_caps = caps])
    BY <1>2, <1>4, TypeFacts, ZenonT(60) DEF Sound, Ports, ReceiverOff, TimerLeadsOn, VdmTimed
  <1>7. Sound(pd_process_source_cap_callback(p, mv))
    BY <1>2, TypeFacts DEF pd_process_source_cap_callback, Sound, Ports, ReceiverOff, TimerLeadsOn, VdmTimed
  <1> QED BY <1>5, <1>6, <1>7

LEMMA BuildRequestType ==
    ASSUME NEW p, Sound(p)
    PROVE  pd_build_request(p) \in Millivolts
  BY DEF pd_build_request, Sound, Ports, PdoArrays

\* The button never moves the index beyond the array, whatever offers came.
LEMMA NextCapIndexSound ==
    ASSUME NEW p, Sound(p)
    PROVE  Sound(NextCapIndex(p))
  <1> DEFINE n == IF p.cap_index < p.cap_max THEN p.cap_index + 1 ELSE 0
  <1>1. n \in PdoIndexes
    BY PdoMaxAssumption DEF Sound, Ports, PdoIndexes
  <1>2. NextCapIndex(p) = [p EXCEPT !.cap_index = n] BY DEF NextCapIndex, Sound, Ports
  <1> HIDE DEF n
  <1>3. Sound([p EXCEPT !.cap_index = n])
    BY <1>1, TypeFacts DEF Sound, Ports, ReceiverOff, TimerLeadsOn, VdmTimed
  <1> QED BY <1>2, <1>3

----------------------------------------------------------------------------
\* The handlers of received messages.

LEMMA SendRequestMsgSound ==
    ASSUME NEW p, Sound(p), NEW always
    PROVE  Sound(pd_send_request_msg(p, always))
  <1> DEFINE q == [p EXCEPT !.new_power_request = 0]
             r == [q EXCEPT !.supply_voltage = pd_build_request(p),
                            !.prev_request_mv = pd_build_request(p)]
  <1>1. Sound(q) BY TypeFacts DEF Sound, Ports, ReceiverOff, TimerLeadsOn, VdmTimed
  <1> HIDE DEF q
  <1>2. Sound(r)
    BY <1>1, BuildRequestType, TypeFacts, ZenonT(60) DEF Sound, Ports, ReceiverOff, TimerLeadsOn, VdmTimed
  <1> HIDE DEF r
  <1>3. Sound(send_request(r)) BY <1>2, SendsSound
  <1>4. Sound(set_state(send_request(r), "SNK_REQUESTED"))
    BY <1>3, EnterableStates, SetStateSound
  <1> QED BY <1>1, <1>3, <1>4 DEF pd_send_request_msg, q, r

LEMMA QueueVdmSound ==
    ASSUME NEW p, Sound(p)
    PROVE  Sound(queue_vdm(p)) /\ Sound(pd_send_vdm(p))
  <1>1. "READY" \in VdmStates BY DEF VdmStates
  <1> QED BY <1>1, TypeFacts DEF pd_send_vdm, queue_vdm, Sound, Ports, ReceiverOff, TimerLeadsOn, VdmTimed

LEMMA HandleVdmSound ==
    ASSUME NEW p, Sound(p), NEW cmdt
    PROVE  Sound(handle_vdm_request(p, cmdt))
  <1>1. {"WAIT_RSP_BUSY", "DONE"} \subseteq VdmStates /\ "armed" \in Deadlines
    BY DEF VdmStates, Deadlines
  <1>2. Sound([p EXCEPT !.vdm_timeout = "armed", !.vdm_state = "WAIT_RSP_BUSY"])
    BY <1>1, TypeFacts, ZenonT(60) DEF Sound, Ports, ReceiverOff, TimerLeadsOn, VdmTimed
  <1>3. Sound([p EXCEPT !.vdm_state = "DONE"])
    BY <1>1, TypeFacts DEF Sound, Ports, ReceiverOff, TimerLeadsOn, VdmTimed
  <1> QED BY <1>2, <1>3 DEF handle_vdm_request

LEMMA MessageFields ==
    ASSUME NEW m \in Messages
    PROVE  /\ m.type = "SOURCE_CAP" => m.mv \in Voltages /\ m.pdo0 \in Pdo0s
           /\ m.type = "SINK_CAP" => m.pdo0 \in Pdo0s
           /\ m.type \in DataTypes \/ m.type \in CtrlTypes
  BY DEF Messages, CtrlTypes, DataTypes

LEMMA HandleSourceCapSound ==
    ASSUME NEW p, Sound(p), NEW m \in Messages, m.type = "SOURCE_CAP"
    PROVE  Sound(handle_source_cap(p, m))
  <1> DEFINE p1 == [p EXCEPT !.flags = p.flags \cup {"PREVIOUS_PD_CONN"}]
             q == pd_update_pdo_flags(p1, m.pdo0)
             r == pd_send_request_msg(pd_process_source_cap(q, m.mv), TRUE)
  <1>1. m.mv \in Voltages /\ m.pdo0 \in Pdo0s BY MessageFields
  <1>2. p.flags \cup {"PREVIOUS_PD_CONN"} \in FlagSets BY DEF Sound, Ports, FlagSets, Flags
  <1>3. Sound(p1) BY <1>2, SetFlagsSound
  <1>4. p1 = [p EXCEPT !.flags = @ \cup {"PREVIOUS_PD_CONN"}] OBVIOUS
  <1> HIDE DEF p1
  <1>5. Sound(q) BY <1>1, <1>3, UpdatePdoFlagsSound
  <1> HIDE DEF q
  <1>6. Sound(r) BY <1>1, <1>5, ProcessSourceCapSound, SendRequestMsgSound
  <1> HIDE DEF r
  <1>7. Sound(pd_process_source_cap_callback(r, m.mv))
    BY <1>1, <1>6, ProcessSourceCapSound
  <1> QED BY <1>4, <1>7 DEF handle_source_cap, q, r

LEMMA HandleRdoSound ==
    ASSUME NEW p, Sound(p), NEW m
    PROVE  Sound(handle_data_rdo(p, m))
  <1> DEFINE q == send_control(p, "ACCEPT")
  <1>1. Sound(q) BY SendsSound
  <1> HIDE DEF q
  <1>2. q.flags \cup {"EXPLICIT_CONTRACT"} \in FlagSets BY <1>1 DEF Sound, Ports, FlagSets, Flags
  <1>3. Sound(set_state([q EXCEPT !.flags = @ \cup {"EXPLICIT_CONTRACT"}], "SRC_ACCEPTED"))
    BY <1>1, <1>2, SetFlagsSound, EnterableStates, SetStateSound
  <1>4. Sound(set_state(send_control(p, "REJECT"), "SRC_READY"))
    BY SendsSound, EnterableStates, SetStateSound
  <1> QED BY <1>1, <1>3, <1>4 DEF handle_data_rdo, q

LEMMA HandleBistSound ==
    ASSUME NEW p, Sound(p), NEW m
    PROVE  Sound(handle_bist(p, m))
  BY SendsSound, EnterableStates, SetStateSound DEF handle_bist, ByRole

LEMMA HandleSinkCapSound ==
    ASSUME NEW p, Sound(p), NEW m \in Messages, m.type = "SINK_CAP"
    PROVE  Sound(handle_sink_cap(p, m))
  <1> DEFINE p1 == [p EXCEPT !.flags = @ \cup {"SNK_CAP_RECVD"}]
             q == pd_update_pdo_flags(p1, m.pdo0)
  <1>1. p.flags \cup {"SNK_CAP_RECVD"} \in FlagSets BY DEF Sound, Ports, FlagSets, Flags
  <1>2. Sound(p1) BY <1>1, SetFlagsSound
  <1> HIDE DEF p1
  <1>3. Sound(q) BY <1>2, MessageFields, UpdatePdoFlagsSound
  <1> HIDE DEF q
  <1> QED BY <1>3, EnterableStates, SetStateSound DEF handle_sink_cap, q, p1

LEMMA HandleDataSound ==
    ASSUME NEW p, Sound(p), NEW m \in Messages, m.type \in DataTypes
    PROVE  Sound(handle_data_request(p, m))
  BY HandleSourceCapSound, HandleRdoSound, HandleBistSound, HandleSinkCapSound,
     HandleVdmSound DEF handle_data_request, DataTypes

LEMMA HandleGetSourceCapSound ==
    ASSUME NEW p, Sound(p)
    PROVE  Sound(handle_get_source_cap(p))
  BY SendsSound, EnterableStates, SetStateSound DEF handle_get_source_cap

LEMMA HandlePsRdySound ==
    ASSUME NEW p, Sound(p)
    PROVE  Sound(handle_ps_rdy(p))
  <1>1. Sound(pd_update_roles([p EXCEPT !.msg_id = 0, !.power_role = "SINK"]))
    BY ClearIdRoleSound, RolesSound, TypeFacts
  <1>2. "SNK_SWAP_STANDBY" \in Enterable BY EnterableStates DEF PowerSwapping
  <1> QED BY <1>1, <1>2, EnterableStates, SetStateSound DEF handle_ps_rdy

LEMMA HandleRejectWaitSound ==
    ASSUME NEW p, Sound(p), NEW type
    PROVE  Sound(handle_reject_wait(p, type))
  <1>1. Sound([p EXCEPT !.new_power_request = 1, !.prev_request_mv = 0])
    BY TypeFacts, ZenonT(60) DEF Sound, Ports, ReceiverOff, TimerLeadsOn, VdmTimed
  <1>2. Sound(request_again_later(p))
    BY <1>1, EnterableStates, SetTimeoutSound DEF request_again_later
  <1> QED BY <1>2, EnterableStates, SetStateSound
          DEF handle_reject_wait, ReadyReturnState, ByRole

LEMMA HandleAcceptSound ==
    ASSUME NEW p, Sound(p)
    PROVE  Sound(handle_accept(p))
  <1>1. /\ p.flags \ {"EXPLICIT_CONTRACT"} \in FlagSets
        /\ p.flags \cup {"EXPLICIT_CONTRACT"} \in FlagSets
    BY DEF Sound, Ports, FlagSets, Flags
  <1>2. Sound(DropContract(p)) BY <1>1, SetFlagsSound DEF DropContract
  <1>3. Sound([p EXCEPT !.flags = @ \cup {"EXPLICIT_CONTRACT"}])
    BY <1>1, SetFlagsSound
  <1>4. {"SRC_SWAP_SNK_DISABLE", "SNK_SWAP_SNK_DISABLE"} \subseteq Enterable
    BY EnterableStates DEF PowerSwapping
  <1> QED BY <1>2, <1>3, <1>4, DataSwapSound, ExecuteSoftResetSound, EnterableStates,
             SetStateSound DEF handle_accept, ReadyReturnState, ByRole

\* This board refuses every swap, so the branches that accept one are dead.
LEMMA HandleSwapSound ==
    ASSUME NEW p, Sound(p)
    PROVE  Sound(handle_pr_swap(p)) /\ Sound(handle_dr_swap(p))
  BY SendsSound DEF handle_pr_swap, handle_dr_swap, pd_check_power_swap, pd_check_data_swap

LEMMA HandleCtrlSound ==
    ASSUME NEW p, Sound(p), NEW type
    PROVE  Sound(handle_ctrl_request(p, type))
  BY HandleGetSourceCapSound, HandlePsRdySound, HandleRejectWaitSound, HandleAcceptSound,
     HandleSwapSound, ExecuteSoftResetSound, SendsSound DEF handle_ctrl_request

LEMMA HandleRequestSound ==
    ASSUME NEW p, Sound(p), NEW m \in Messages
    PROVE  Sound(handle_request(p, m))
  BY HandleDataSound, HandleCtrlSound DEF handle_request

----------------------------------------------------------------------------
\* The VDM sender, the public functions, the alert handler.

LEMMA VdmSenderSound ==
    ASSUME NEW p, Sound(p)
    PROVE  Sound(pd_vdm_send_state_machine(p))
  <1> DEFINE q == pd_transmit(p, "VENDOR_DEF")
  <1>1. {"ERR_BUSY", "ERR_SEND", "ERR_TMOUT", "BUSY"} \subseteq VdmStates /\ "armed" \in Deadlines
    BY DEF VdmStates, Deadlines
  <1>2. Sound(q) BY SendsSound
  <1> HIDE DEF q
  <1>3. Sound([q EXCEPT !.vdm_state = "BUSY", !.vdm_timeout = "armed"])
    BY <1>1, <1>2, TypeFacts, ZenonT(60) DEF Sound, Ports, ReceiverOff, TimerLeadsOn, VdmTimed
  <1>4. Sound([q EXCEPT !.vdm_state = "ERR_SEND"])
    BY <1>1, <1>2, TypeFacts DEF Sound, Ports, ReceiverOff, TimerLeadsOn, VdmTimed
  <1>5. Sound([p EXCEPT !.vdm_state = "ERR_BUSY"])
    BY <1>1, TypeFacts DEF Sound, Ports, ReceiverOff, TimerLeadsOn, VdmTimed
  <1>6. Sound([p EXCEPT !.vdm_state = "ERR_TMOUT"])
    BY <1>1, TypeFacts DEF Sound, Ports, ReceiverOff, TimerLeadsOn, VdmTimed
  <1> QED BY <1>3, <1>4, <1>5, <1>6, QueueVdmSound DEF pd_vdm_send_state_machine, q

LEMMA ApplicationSound ==
    ASSUME NEW p, Sound(p)
    PROVE  /\ Sound(pd_soft_reset(p))
           /\ Sound(pd_request_power_swap(p))
           /\ Sound(pd_request_data_swap(p))
           /\ Sound(pd_set_new_power_request(p))
           /\ Sound(pd_ping_enable(p, TRUE))
           /\ \A state \in DualRoleStates : Sound(pd_set_dual_role(p, state))
  <1>1. Sound(pd_soft_reset(p)) /\ Sound(pd_request_power_swap(p)) /\ Sound(pd_request_data_swap(p))
    BY EnterableStates, SetStateSound
       DEF pd_soft_reset, pd_request_power_swap, pd_request_data_swap
  <1>2. Sound(pd_set_new_power_request(p))
    BY TypeFacts DEF pd_set_new_power_request, Sound, Ports, ReceiverOff, TimerLeadsOn, VdmTimed
  <1>3. p.flags \cup {"PING_ENABLED"} \in FlagSets BY DEF Sound, Ports, FlagSets, Flags
  <1>4. Sound(pd_ping_enable(p, TRUE)) BY <1>3, SetFlagsSound DEF pd_ping_enable
  <1>5. ASSUME NEW state \in DualRoleStates PROVE Sound(pd_set_dual_role(p, state))
    BY TypeFacts DEF pd_set_dual_role, Sound, Ports, ReceiverOff, TimerLeadsOn, VdmTimed
  <1> QED BY <1>1, <1>2, <1>4, <1>5

\* One alert may carry several causes; each is handled on a sound port.
LEMMA AlertSound ==
    ASSUME NEW p, Sound(p)
    PROVE  Sound(tcpc_alert(p))
  <1> DEFINE p0 == [p EXCEPT !.ints = {}]
             p1 == IF "COLLISION" \in p.ints THEN pd_transmit_complete(p0, "FAILED") ELSE p0
             p2 == IF "TX_SUCCESS" \in p.ints THEN pd_transmit_complete(p1, "SUCCESS") ELSE p1
             p3 == IF "RETRYFAIL" \in p.ints THEN pd_transmit_complete(p2, "FAILED") ELSE p2
             p4 == IF "HARDSENT" \in p.ints
                   THEN pd_transmit_complete(fusb302_pd_reset(p3), "SUCCESS") ELSE p3
             p5 == IF "HARDRESET" \in p.ints
                   THEN pd_execute_hard_reset(fusb302_pd_reset(p4)) ELSE p4
  <1>0. Sound(p0) BY TypeFacts, ZenonT(60) DEF Sound, Ports, ReceiverOff, TimerLeadsOn, VdmTimed
  <1> HIDE DEF p0
  <1>1. Sound(p1) BY <1>0, TransmitCompleteSound, TypeFacts
  <1> HIDE DEF p1
  <1>2. Sound(p2) BY <1>1, TransmitCompleteSound, TypeFacts
  <1> HIDE DEF p2
  <1>3. Sound(p3) BY <1>2, TransmitCompleteSound, TypeFacts
  <1> HIDE DEF p3
  <1>4. Sound(p4) BY <1>3, PdResetSound, TransmitCompleteSound, TypeFacts
  <1> HIDE DEF p4
  <1>5. Sound(p5) BY <1>4, PdResetSound, ExecuteHardResetSound
  <1> HIDE DEF p5
  <1>6. << >> \in Fifos BY TypeFacts
  <1>7. Sound([p5 EXCEPT !.rx_fifo = << >>])
    BY <1>5, <1>6, TypeFacts DEF Sound, Ports, ReceiverOff, TimerLeadsOn, VdmTimed
  <1> QED BY <1>5, <1>7 DEF tcpc_alert, p0, p1, p2, p3, p4, p5

----------------------------------------------------------------------------
\* The handlers of the states.

LEMMA OnEntrySound ==
    ASSUME NEW p, Sound(p), NEW q, Sound(q)
    PROVE  Sound(OnEntry(p, q))
  BY DEF OnEntry

LEMMA WaitForSound ==
    ASSUME NEW p, Sound(p), NEW state \in Enterable
    PROVE  Sound(WaitFor(p, state))
  BY OnEntrySound, SetTimeoutSound DEF WaitFor

LEMMA FlagsSound ==
    ASSUME NEW p, Sound(p)
    PROVE  /\ \A fs \in FlagSets : Sound(SetFlags(p, fs))
           /\ \A f : Sound(ClearFlag(p, f))
  <1>1. ASSUME NEW fs \in FlagSets PROVE Sound(SetFlags(p, fs))
    <2>1. p.flags \cup fs \in FlagSets BY DEF Sound, Ports, FlagSets
    <2> QED BY <2>1, SetFlagsSound DEF SetFlags
  <1>2. ASSUME NEW f PROVE Sound(ClearFlag(p, f))
    <2>1. p.flags \ {f} \in FlagSets BY DEF Sound, Ports, FlagSets
    <2> QED BY <2>1, SetFlagsSound DEF ClearFlag
  <1> QED BY <1>1, <1>2

LEMMA AskPartnerSound ==
    ASSUME NEW p, Sound(p), NEW msg, NEW ready \in Enterable
    PROVE  Sound(AskPartner(p, msg, ready))
  <1> DEFINE q == send_control(p, msg)
  <1>1. Sound(q) BY SendsSound
  <1> HIDE DEF q
  <1>2. Sound(set_state_timeout(q, ready)) BY <1>1, SetTimeoutSound
  <1>3. Sound(set_state(q, "SOFT_RESET")) BY <1>1, EnterableStates, SetStateSound
  <1> QED BY <1>2, <1>3 DEF AskPartner, OnEntry, q

\* Attaching is the one place where the receiver goes on, and it leaves the
\* debounce state at once.
LEMMA EnableAndLeave ==
    ASSUME NEW p, Sound(p), NEW q \in Ports, NEW next \in Enterable \ Disconnected,
           q.timeout_state = p.timeout_state,
           q.vdm_state = p.vdm_state, q.vdm_timeout = p.vdm_timeout
    PROVE  Sound(set_state(q, next))
  <1> DEFINE r == [q EXCEPT !.timeout = "off", !.timeout_state = "DISABLED",
                            !.task_state = next]
  <1>1. next \in States /\ "DISABLED" \in States /\ "off" \in Deadlines
    BY DEF Enterable, States, Deadlines
  <1>2. r \in Ports BY <1>1, ZenonT(60) DEF Ports
  <1>3. set_state(q, next) = r BY DEF set_state
  <1>4. ReceiverOff(r) /\ TimerLeadsOn(r) /\ VdmTimed(r)
    BY TypeFacts DEF Enterable, Sound, Ports, ReceiverOff, TimerLeadsOn, VdmTimed
  <1> QED BY <1>2, <1>3, <1>4 DEF Sound

LEMMA AttachSourceSound ==
    ASSUME NEW p, Sound(p), NEW ccs, NEW acc
    PROVE  Sound(AttachSource(p, ccs, acc))
  <1> DEFINE p1 == [p EXCEPT !.polarity = IF ccs[1] # TYPEC_CC_VOLT_RD THEN 1 ELSE 0]
             fs == {"CHECK_PR_ROLE", "CHECK_DR_ROLE"} \cup
                   (IF acc = "DEBUG_ACC" THEN {"TS_DTS_PARTNER"} ELSE {})
             q == pd_set_data_role(p1, "DFP")
             r == tcpm_set_rx_enable(q, 1)
             s == SetFlags(r, fs)
             t == [s EXCEPT !.hard_reset_count = 0]
  <1>0. \A pol \in Bits : Sound([p EXCEPT !.polarity = pol])
    BY TypeFacts DEF Sound, Ports, ReceiverOff, TimerLeadsOn, VdmTimed
  <1>1. Sound(p1) BY <1>0, TypeFacts
  <1> HIDE DEF p1
  <1>2. Sound(q) BY <1>1, RolesSound, TypeFacts
  <1> HIDE DEF q
  <1>3. r \in Ports BY <1>2, RxEnableType, TypeFacts DEF Sound
  <1>4. fs \in FlagSets BY DEF FlagSets, Flags
  <1> HIDE DEF fs
  <1>5. r.timeout_state = q.timeout_state /\ r.vdm_state = q.vdm_state /\ r.vdm_timeout = q.vdm_timeout
    BY <1>2 DEF tcpm_set_rx_enable, Sound, Ports
  <1> HIDE DEF r
  <1>6. r.flags \cup fs \in FlagSets BY <1>3, <1>4 DEF Ports, FlagSets
  <1>7. s \in Ports BY <1>3, <1>6, ZenonT(60) DEF SetFlags, Ports
  <1>8. s.timeout_state = r.timeout_state /\ s.vdm_state = r.vdm_state /\ s.vdm_timeout = r.vdm_timeout
    BY <1>3 DEF SetFlags, Ports
  <1> HIDE DEF s
  <1>9. 0 \in HardResetCounts BY TypeFacts
  <1>10. t \in Ports BY <1>7, <1>9 DEF Ports
  <1>11. t.timeout_state = s.timeout_state /\ t.vdm_state = s.vdm_state /\ t.vdm_timeout = s.vdm_timeout
    BY <1>7 DEF Ports
  <1> HIDE DEF t
  <1>12. "SRC_STARTUP" \in Enterable \ Disconnected BY EnterableStates
  <1>13. Sound(set_state(t, "SRC_STARTUP"))
    BY <1>2, <1>5, <1>8, <1>10, <1>11, <1>12, EnableAndLeave
  <1> QED BY <1>13 DEF AttachSource, p1, fs, q, r, s, t

LEMMA AttachSinkSound ==
    ASSUME NEW p, Sound(p), NEW ccs, NEW acc
    PROVE  Sound(AttachSink(p, ccs, acc))
  <1> DEFINE p1 == [p EXCEPT !.polarity = get_snk_polarity(ccs), !.msg_id = 0]
             fs == {"CHECK_PR_ROLE", "CHECK_DR_ROLE", "CHECK_IDENTITY"} \cup
                   (IF acc = "DEBUG_ACC" THEN {"TS_DTS_PARTNER"} ELSE {})
             q == pd_set_data_role(p1, "UFP")
             r == tcpm_set_rx_enable(q, 1)
             s == SetFlags(r, fs)
             t == send_control(s, "GET_SOURCE_CAP")
  <1>0. get_snk_polarity(ccs) \in Bits /\ 0 \in MessageIds
    BY TypeFacts DEF get_snk_polarity
  <1>1. Sound(p1) BY <1>0, TypeFacts, ZenonT(60) DEF Sound, Ports, ReceiverOff, TimerLeadsOn, VdmTimed
  <1> HIDE DEF p1
  <1>2. Sound(q) BY <1>1, RolesSound, TypeFacts
  <1> HIDE DEF q
  <1>3. r \in Ports BY <1>2, RxEnableType, TypeFacts DEF Sound
  <1>4. fs \in FlagSets BY DEF FlagSets, Flags
  <1> HIDE DEF fs
  <1>5. r.timeout_state = q.timeout_state /\ r.vdm_state = q.vdm_state /\ r.vdm_timeout = q.vdm_timeout
    BY <1>2 DEF tcpm_set_rx_enable, Sound, Ports
  <1> HIDE DEF r
  <1>6. r.flags \cup fs \in FlagSets BY <1>3, <1>4 DEF Ports, FlagSets
  <1>7. s \in Ports BY <1>3, <1>6, ZenonT(60) DEF SetFlags, Ports
  <1>8. s.timeout_state = r.timeout_state /\ s.vdm_state = r.vdm_state /\ s.vdm_timeout = r.vdm_timeout
    BY <1>3 DEF SetFlags, Ports
  <1> HIDE DEF s
  <1>9. PICK x \in Transmissions : t = [s EXCEPT !.tx = x]
    BY TransmitFrame DEF send_control, pd_transmit
  <1> HIDE DEF t
  <1>10. t \in Ports
    <2>1. [s EXCEPT !.tx = x] \in Ports BY <1>7 DEF Ports
    <2> QED BY <2>1, <1>9
  <1>11. t.timeout_state = s.timeout_state /\ t.vdm_state = s.vdm_state /\ t.vdm_timeout = s.vdm_timeout
    BY <1>7, <1>9 DEF Ports
  <1>12. "SNK_DISCOVERY" \in Enterable \ Disconnected BY EnterableStates
  <1>13. Sound(set_state(t, "SNK_DISCOVERY"))
    BY <1>2, <1>5, <1>8, <1>10, <1>11, <1>12, EnableAndLeave
  <1> QED BY <1>13 DEF AttachSink, p1, fs, q, r, s, t

\* A debounce state is entered from a disconnected state only, with the receiver off.
LEMMA EnterDebounceSound ==
    ASSUME NEW p, Sound(p), p.task_state \in Disconnected, NEW next \in Debouncing
    PROVE  Sound(set_state(p, next))
  <1> DEFINE r == [p EXCEPT !.timeout = "off", !.timeout_state = "DISABLED",
                            !.task_state = next]
  <1>1. next \in States /\ "DISABLED" \in States /\ "off" \in Deadlines
    BY DEF States, Deadlines
  <1>2. Sound(r) BY <1>1, TypeFacts, ZenonT(60) DEF Sound, Ports, ReceiverOff, TimerLeadsOn, VdmTimed
  <1> QED BY <1>2 DEF set_state

LEMMA AttachHandlersSound ==
    ASSUME NEW p, Sound(p), NEW ccs
    PROVE  /\ p.task_state = "SNK_DISCONNECTED" => Sound(SnkDisconnected(p, ccs))
           /\ p.task_state = "SRC_DISCONNECTED" => Sound(SrcDisconnected(p, ccs))
           /\ Sound(SnkDisconnectedDebounce(p, ccs))
           /\ Sound(SrcDisconnectedDebounce(p, ccs))
  <1>0. /\ {"NONE", "DEBUG_ACC", "UFP_ATTACHED", "AUDIO_ACC", "DFP_ATTACHED"} \subseteq CcStates
        /\ "armed" \in Deadlines
        /\ 0 \in HardResetCounts
    BY TypeFacts
  <1>1. ASSUME NEW q, Sound(q) PROVE Sound([q EXCEPT !.next_role_swap = "armed"])
    BY <1>0, <1>1, TypeFacts DEF Sound, Ports, ReceiverOff, TimerLeadsOn, VdmTimed
  <1>2. ASSUME NEW st \in Disconnected, NEW role \in PowerRoles, NEW pull \in Pulls
        PROVE  Sound([tcpm_set_cc(set_state([p EXCEPT !.power_role = role], st), pull)
                        EXCEPT !.next_role_swap = "armed"])
    <2>1. Sound([p EXCEPT !.power_role = role]) BY SetRoleSound
    <2>2. Sound(set_state([p EXCEPT !.power_role = role], st))
      BY <2>1, EnterableStates, SetStateSound
    <2> QED BY <2>2, SetCcSound, <1>1
  <1>3. ASSUME p.task_state = "SNK_DISCONNECTED" PROVE Sound(SnkDisconnected(p, ccs))
    <2> DEFINE q == [p EXCEPT !.cc_state = "NONE", !.hard_reset_count = 0,
                              !.cc_debounce = "armed"]
    <2>1. Sound(q) /\ q.task_state = "SNK_DISCONNECTED"
      BY <1>0, <1>3, TypeFacts, ZenonT(60) DEF Sound, Ports, ReceiverOff, TimerLeadsOn, VdmTimed
    <2> HIDE DEF q
    <2>2. Sound(set_state(q, "SNK_DISCONNECTED_DEBOUNCE")) BY <2>1, EnterDebounceSound
    <2> QED BY <2>2, <1>2, TypeFacts DEF SnkDisconnected, q
  <1>4. ASSUME p.task_state = "SRC_DISCONNECTED" PROVE Sound(SrcDisconnected(p, ccs))
    <2> DEFINE q == [p EXCEPT !.cc_state = "NONE"]
    <2>1. Sound(q) /\ q.task_state = "SRC_DISCONNECTED"
      BY <1>0, <1>4, TypeFacts DEF Sound, Ports, ReceiverOff, TimerLeadsOn, VdmTimed
    <2> HIDE DEF q
    <2>2. Sound(set_state(q, "SRC_DISCONNECTED_DEBOUNCE")) BY <2>1, EnterDebounceSound
    <2> QED BY <2>2, <1>2, TypeFacts DEF SrcDisconnected, q
  <1>5. ASSUME NEW c \in CcStates PROVE Sound([p EXCEPT !.cc_debounce = "armed", !.cc_state = c])
    BY <1>0, TypeFacts, ZenonT(60) DEF Sound, Ports, ReceiverOff, TimerLeadsOn, VdmTimed
  <1>6. Sound(set_state(p, "SNK_DISCONNECTED")) /\ Sound(set_state(p, "SRC_DISCONNECTED"))
    BY EnterableStates, SetStateSound
  <1>7. Sound(SnkDisconnectedDebounce(p, ccs))
    <2> DEFINE c == IF cc_is_rp(ccs[1]) /\ cc_is_rp(ccs[2]) THEN "DEBUG_ACC" ELSE "DFP_ATTACHED"
    <2>1. c \in CcStates BY <1>0
    <2> HIDE DEF c
    <2> QED BY <2>1, <1>5, <1>6, AttachSinkSound DEF SnkDisconnectedDebounce, c
  <1>8. Sound(SrcDisconnectedDebounce(p, ccs))
    <2> DEFINE c == IF BothRd(ccs) THEN "DEBUG_ACC"
                    ELSE IF SomeRd(ccs) THEN "UFP_ATTACHED" ELSE "AUDIO_ACC"
    <2>1. c \in CcStates BY <1>0
    <2> HIDE DEF c
    <2> QED BY <2>1, <1>5, <1>6, AttachSourceSound DEF SrcDisconnectedDebounce, c
  <1> QED BY <1>3, <1>4, <1>7, <1>8

LEMMA NoResponseEnterable ==
    ASSUME NEW p, NEW giveUp \in Enterable
    PROVE  NoResponse(p, giveUp) \in Enterable
  BY EnterableStates DEF NoResponse

LEMMA SinkHandlersSound ==
    ASSUME NEW p, Sound(p)
    PROVE  /\ Sound(SnkDiscovery(p))
           /\ Sound(SnkRequested(p))
           /\ Sound(SnkTransition(p))
           /\ Sound(SnkReady(p))
  <1>1. Sound(SnkDiscovery(p)) BY EnterableStates, SetTimeoutSound DEF SnkDiscovery
  <1>2. Sound(SnkRequested(p))
    <2>1. 0 \in HardResetCounts BY TypeFacts
    <2>2. Sound([p EXCEPT !.hard_reset_count = 0])
      BY <2>1, TypeFacts DEF Sound, Ports, ReceiverOff, TimerLeadsOn, VdmTimed
    <2> QED BY <2>2, EnterableStates, SetTimeoutSound, OnEntrySound DEF SnkRequested
  <1>3. Sound(SnkTransition(p)) BY EnterableStates, WaitForSound DEF SnkTransition
  <1>4. Sound(SnkReadyPolicy(p)) BY FlagsSound, QueueVdmSound DEF SnkReadyPolicy
  <1>5. Sound(SnkReady(p))
    BY <1>4, SendRequestMsgSound, EnterableStates, SetStateSound DEF SnkReady
  <1> QED BY <1>1, <1>2, <1>3, <1>5

LEMMA SourceHandlersSound ==
    ASSUME NEW p, Sound(p)
    PROVE  /\ Sound(SrcStartup(p))
           /\ Sound(SrcDiscovery(p))
           /\ Sound(SrcNegociate(p)) /\ Sound(SrcAccepted(p)) /\ Sound(SrcPowered(p))
           /\ Sound(SrcTransition(p))
           /\ Sound(SrcReady(p))
           /\ Sound(SrcGetSinkCap(p))
  <1>0. /\ 0 \in CapsCounts /\ 0 \in MessageIds
        /\ 0 \in SnkCapCounts /\ 0 \in HardResetCounts
        /\ {"CHECK_IDENTITY"} \in FlagSets /\ {"PREVIOUS_PD_CONN"} \in FlagSets
    BY TypeFacts DEF FlagSets, Flags
  <1>1. Sound(SrcStartup(p))
    <2> DEFINE q == SetFlags(p, {"CHECK_IDENTITY"})
    <2>1. Sound(q) BY <1>0, FlagsSound
    <2> HIDE DEF q
    <2>2. Sound([q EXCEPT !.caps_count = 0, !.msg_id = 0, !.snk_cap_count = 0])
      BY <1>0, <2>1, TypeFacts, ZenonT(60) DEF Sound, Ports, ReceiverOff, TimerLeadsOn, VdmTimed
    <2> QED BY <2>2, EnterableStates, SetTimeoutSound, OnEntrySound DEF SrcStartup, q
  <1>2. Sound(SrcDiscovery(p))
    <2> DEFINE q == IF Entering(p) /\ "PREVIOUS_PD_CONN" \in p.flags
                    THEN set_state_timeout(p, NoResponse(p, "SRC_DISCONNECTED")) ELSE p
               r == send_source_cap(q)
               s == set_state(r, "SRC_NEGOCIATE")
               t == [s EXCEPT !.hard_reset_count = 0, !.caps_count = 0]
    <2>1. Sound(q) BY EnterableStates, NoResponseEnterable, SetTimeoutSound
    <2>2. q.caps_count = p.caps_count BY DEF set_state_timeout, Sound, Ports
    <2> HIDE DEF q
    <2>3. Sound(r) BY <2>1, SendsSound
    <2>4. r.caps_count = q.caps_count
      <3>1. \E x : r = [q EXCEPT !.tx = x] BY TransmitFrame DEF send_source_cap, pd_transmit
      <3> QED BY <2>1, <3>1 DEF Sound, Ports
    <2> HIDE DEF r
    <2>5. Sound(s) BY <2>3, EnterableStates, SetStateSound
    <2> HIDE DEF s
    <2>6. Sound(t) BY <1>0, <2>5, TypeFacts, ZenonT(60) DEF Sound, Ports, ReceiverOff, TimerLeadsOn, VdmTimed
    <2> HIDE DEF t
    <2>7. Sound(SetFlags(t, {"PREVIOUS_PD_CONN"})) BY <1>0, <2>6, FlagsSound
    <2>8. ASSUME p.caps_count < PD_CAPS_COUNT PROVE Sound([r EXCEPT !.caps_count = @ + 1])
      <3>0. p.caps_count \in CapsCounts BY DEF Sound, Ports
      <3>1. r.caps_count + 1 \in CapsCounts
        BY <3>0, <2>2, <2>4, <2>8, CapsCountAssumption DEF CapsCounts
      <3> QED BY <3>1, <2>3, TypeFacts DEF Sound, Ports, ReceiverOff, TimerLeadsOn, VdmTimed
    <2> QED BY <2>1, <2>7, <2>8 DEF SrcDiscovery, q, r, s, t
  <1>3. Sound(SrcNegociate(p)) /\ Sound(SrcAccepted(p)) /\ Sound(SrcPowered(p))
    BY EnterableStates, WaitForSound DEF SrcNegociate, SrcAccepted, SrcPowered
  <1>4. Sound(SrcTransition(p))
    BY SendsSound, EnterableStates, SetStateSound DEF SrcTransition
  <1>5. ASSUME NEW q, Sound(q) PROVE Sound(SrcReadyPolicy(q))
    BY <1>5, FlagsSound, QueueVdmSound, SendsSound, EnterableStates, SetStateSound
       DEF SrcReadyPolicy
  <1>6. Sound(SrcReady(p))
    <2> DEFINE n == IF p.snk_cap_count > PD_SNK_CAP_RETRIES THEN p.snk_cap_count
                    ELSE p.snk_cap_count + 1
               q == [p EXCEPT !.snk_cap_count = n]
    <2>1. n \in SnkCapCounts
      BY SnkCapRetriesAssumption DEF Sound, Ports, SnkCapCounts
    <2>2. q = [p EXCEPT !.snk_cap_count = IF @ > PD_SNK_CAP_RETRIES THEN @ ELSE @ + 1]
      OBVIOUS
    <2> HIDE DEF n
    <2>3. Sound(q) BY <2>1, TypeFacts DEF Sound, Ports, ReceiverOff, TimerLeadsOn, VdmTimed
    <2> HIDE DEF q
    <2>4. Sound(set_state(send_control(q, "GET_SINK_CAP"), "SRC_GET_SINK_CAP"))
      BY <2>3, SendsSound, EnterableStates, SetStateSound
    <2> QED BY <2>2, <2>3, <2>4, <1>5 DEF SrcReady
  <1>7. Sound(SrcGetSinkCap(p)) BY EnterableStates, WaitForSound DEF SrcGetSinkCap
  <1> QED BY <1>1, <1>2, <1>3, <1>4, <1>6, <1>7

LEMMA SwapHandlersSound ==
    ASSUME NEW p, Sound(p)
    PROVE  /\ Sound(DrSwap(p))
           /\ Sound(SnkSwapInit(p)) /\ Sound(SnkSwapSnkDisable(p)) /\ Sound(SnkSwapSrcDisable(p))
           /\ Sound(SnkSwapStandby(p)) /\ Sound(SnkSwapComplete(p))
           /\ Sound(SrcSwapInit(p)) /\ Sound(SrcSwapSnkDisable(p)) /\ Sound(SrcSwapSrcDisable(p))
           /\ Sound(SrcSwapStandby(p))
  <1>0. PowerSwapping \subseteq Enterable BY EnterableStates
  <1>1. Sound(DrSwap(p)) /\ Sound(SnkSwapInit(p)) /\ Sound(SrcSwapInit(p))
    BY EnterableStates, AskPartnerSound DEF DrSwap, SnkSwapInit, SrcSwapInit, ReadyReturnState, ByRole
  <1>2. Sound(SnkSwapSnkDisable(p)) BY <1>0, SetStateSound DEF SnkSwapSnkDisable, PowerSwapping
  <1>3. Sound(SnkSwapSrcDisable(p)) BY EnterableStates, WaitForSound DEF SnkSwapSrcDisable
  <1>4. Sound(SrcSwapSnkDisable(p)) /\ Sound(SrcSwapSrcDisable(p))
    BY <1>0, WaitForSound DEF SrcSwapSnkDisable, SrcSwapSrcDisable, PowerSwapping
  <1>5. Sound(SnkSwapStandby(p))
    BY <1>0, TypeFacts, SetCcSound, SetTimeoutSound, OnEntrySound DEF SnkSwapStandby, PowerSwapping
  <1>6. Sound(SnkSwapComplete(p))
    <2> DEFINE q == send_control(p, "PS_RDY")
               r == [q EXCEPT !.snk_cap_count = PD_SNK_CAP_RETRIES + 1, !.caps_count = 0,
                              !.msg_id = 0, !.power_role = "SOURCE"]
    <2>1. Sound(q) BY SendsSound
    <2> HIDE DEF q
    <2>3. Sound(r)
      <3> DEFINE r1 == [q EXCEPT !.snk_cap_count = PD_SNK_CAP_RETRIES + 1, !.caps_count = 0]
      <3>1. Sound(r1)
        BY <2>1, TypeFacts, ZenonT(60) DEF Sound, Ports, ReceiverOff, TimerLeadsOn, VdmTimed
      <3>2. r = [r1 EXCEPT !.msg_id = 0, !.power_role = "SOURCE"] OBVIOUS
      <3> HIDE DEF r1, r
      <3>3. Sound([r1 EXCEPT !.msg_id = 0, !.power_role = "SOURCE"])
        BY <3>1, TypeFacts, ZenonT(60) DEF Sound, Ports, ReceiverOff, TimerLeadsOn, VdmTimed
      <3> QED BY <3>2, <3>3
    <2> HIDE DEF r
    <2>4. Sound(set_state(pd_update_roles(r), "SRC_DISCOVERY"))
      BY <2>3, RolesSound, TypeFacts, EnterableStates, SetStateSound
    <2>5. Sound(set_state(tcpm_set_cc(q, "RD"), "SNK_DISCONNECTED"))
      BY <2>1, SetCcSound, TypeFacts, EnterableStates, SetStateSound
    <2> QED BY <2>4, <2>5 DEF SnkSwapComplete, q, r
  <1>7. Sound(SrcSwapStandby(p))
    <2> DEFINE q == send_control(p, "PS_RDY")
               r == tcpm_set_cc(q, "RD")
    <2>1. Sound(q) BY SendsSound
    <2> HIDE DEF q
    <2>2. Sound(r) BY <2>1, SetCcSound, TypeFacts
    <2> HIDE DEF r
    <2>3. Sound(set_state_timeout([r EXCEPT !.power_role = "SINK"], "SNK_DISCONNECTED"))
      BY <2>2, SetRoleSound, TypeFacts, EnterableStates, SetTimeoutSound
    <2>4. Sound(set_state(q, "SRC_DISCONNECTED")) BY <2>1, EnterableStates, SetStateSound
    <2> QED BY <2>3, <2>4 DEF SrcSwapStandby, OnEntry, q, r
  <1> QED BY <1>1, <1>2, <1>3, <1>4, <1>5, <1>6, <1>7

LEMMA ResetHandlersSound ==
    ASSUME NEW p, Sound(p)
    PROVE  /\ Sound(SoftReset(p)) /\ Sound(HardResetSend(p)) /\ Sound(HardResetExecute(p))
           /\ Sound(SnkHardResetRecover(p)) /\ Sound(SrcHardResetRecover(p))
  <1>1. Sound(SoftReset(p))
    <2> DEFINE q == send_control([p EXCEPT !.msg_id = 0], "SOFT_RESET")
    <2>1. Sound(q) BY ClearIdSound, SendsSound
    <2> HIDE DEF q
    <2>2. Sound(set_state_timeout(q, "HARD_RESET_SEND")) BY <2>1, EnterableStates, SetTimeoutSound
    <2>3. Sound(set_state(q, "HARD_RESET_SEND")) BY <2>1, EnterableStates, SetStateSound
    <2> QED BY <2>2, <2>3 DEF SoftReset, OnEntry, q
  <1>2. Sound(HardResetSend(p))
    <2> DEFINE n == IF p.hard_reset_count < PD_HARD_RESET_COUNT
                    THEN p.hard_reset_count + 1 ELSE p.hard_reset_count
               h == IF Entering(p) THEN 0 ELSE p.hard_reset_sent
               q == [p EXCEPT !.hard_reset_count = n, !.hard_reset_sent = h]
               r == pd_transmit(q, "HARD_RESET")
               s == [r EXCEPT !.hard_reset_sent = 1]
    <2>0. p.hard_reset_count \in HardResetCounts /\ p.hard_reset_sent \in Bits
      BY DEF Sound, Ports
    <2>1. n \in HardResetCounts /\ h \in Bits
      BY <2>0 DEF HardResetCounts, Bits, PD_HARD_RESET_COUNT
    <2>2. q = [p EXCEPT !.hard_reset_count = IF @ < PD_HARD_RESET_COUNT THEN @ + 1 ELSE @,
                        !.hard_reset_sent = IF Entering(p) THEN 0 ELSE @]
      OBVIOUS
    <2> HIDE DEF n, h
    <2>3. Sound(q) BY <2>1, TypeFacts, ZenonT(60) DEF Sound, Ports, ReceiverOff, TimerLeadsOn, VdmTimed
    <2> HIDE DEF q
    <2>4. Sound(r) BY <2>3, SendsSound
    <2> HIDE DEF r
    <2>5. Sound(s)
      <3>1. [r EXCEPT !.hard_reset_sent = 1] \in Ports BY <2>4, TypeFacts DEF Sound, Ports
      <3> QED BY <2>4, <3>1, TypeFacts DEF Sound, Ports, ReceiverOff, TimerLeadsOn, VdmTimed
    <2> HIDE DEF s
    <2>6. /\ Sound(set_state(s, "HARD_RESET_EXECUTE"))
          /\ Sound(set_state_timeout(s, "HARD_RESET_EXECUTE"))
      BY <2>5, EnterableStates, SetStateSound, SetTimeoutSound
    <2> QED BY <2>2, <2>3, <2>4, <2>6 DEF HardResetSend, r, s
  <1>3. Sound(HardResetExecute(p))
    BY SetCcSound, TypeFacts, ExecuteHardResetSound DEF HardResetExecute
  <1>4. Sound(SnkHardResetRecover(p))
    <2> DEFINE f == SetFlags(p, {"CHECK_IDENTITY"})
               e == [f EXCEPT !.vbus_off = 0]
               q == OnEntry(p, set_state_timeout(e, NoResponse(p, "SNK_DISCOVERY")))
    <2>1. {"CHECK_IDENTITY"} \in FlagSets BY DEF FlagSets, Flags
    <2>2. Sound(f) BY <2>1, FlagsSound
    <2> HIDE DEF f
    <2>3. Sound(e) BY <2>2, TypeFacts DEF Sound, Ports, ReceiverOff, TimerLeadsOn, VdmTimed
    <2> HIDE DEF e
    <2>4. Sound(q) BY <2>3, EnterableStates, NoResponseEnterable, SetTimeoutSound, OnEntrySound
    <2> HIDE DEF q
    <2>5. Sound(set_state(q, "SNK_DISCOVERY")) BY <2>4, EnterableStates, SetStateSound
    <2> QED BY <2>4, <2>5 DEF SnkHardResetRecover, pd_is_vbus_present, pd_snk_is_vbus_provided, q, e, f
  <1>5. Sound(SrcHardResetRecover(p))
    BY EnterableStates, SetStateSound DEF SrcHardResetRecover
  <1> QED BY <1>1, <1>2, <1>3, <1>4, <1>5

----------------------------------------------------------------------------
\* The steps of the loop and of the world around it.

LEMMA FinishStateSound ==
    ASSUME NEW p, Sound(p), NEW ran \in States
    PROVE  Sound(FinishState(p, ran))
  <1> DEFINE q == [p EXCEPT !.last_state = ran]
  <1>1. Sound(q) BY TypeFacts DEF Sound, Ports, ReceiverOff, TimerLeadsOn, VdmTimed
  <1> HIDE DEF q
  <1>2. q.timeout_state \in Enterable BY <1>1 DEF Sound, Ports, TimerLeadsOn, Enterable
  <1>3. Sound(set_state(q, q.timeout_state)) BY <1>1, <1>2, SetStateSound
  <1> QED BY <1>1, <1>3 DEF FinishState, q

LEMMA TakeMessageSound ==
    ASSUME NEW p, Sound(p)
    PROVE  Sound(TakeMessage(p))
  <1>1. p.rx_fifo \in Fifos BY DEF Sound, Ports
  <1>2. ASSUME p.rx_fifo # << >>
        PROVE  Sound(handle_request([p EXCEPT !.rx_fifo = Tail(@)], Head(p.rx_fifo)))
    <2>1. Tail(p.rx_fifo) \in Fifos /\ Head(p.rx_fifo) \in Messages
      BY <1>1, <1>2 DEF Fifos
    <2>2. Sound([p EXCEPT !.rx_fifo = Tail(p.rx_fifo)])
      BY <2>1, TypeFacts, ZenonT(60) DEF Sound, Ports, ReceiverOff, TimerLeadsOn, VdmTimed
    <2> QED BY <2>1, <2>2, HandleRequestSound
  <1> QED BY <1>2 DEF TakeMessage

LEMMA BeginRunSound ==
    ASSUME NEW p, Sound(p), NEW reset \in BOOLEAN
    PROVE  Sound(BeginRun(ServicePin(p), reset))
  <1> DEFINE q == ServicePin(p)
  <1>1. Sound(q) BY AlertSound DEF ServicePin
  <1> HIDE DEF q
  <1>2. "SOFT_RESET" \in States BY DEF States
  <1>3. Sound([q EXCEPT !.task_state = "SOFT_RESET"])
    BY <1>1, <1>2, TypeFacts DEF Sound, Ports, ReceiverOff, TimerLeadsOn, VdmTimed
  <1> QED BY <1>1, <1>3, VdmSenderSound DEF BeginRun, q

LEMMA CheckDisconnectSound ==
    ASSUME NEW p, Sound(p), NEW ccs
    PROVE  Sound(CheckDisconnect(p, ccs))
  BY EnterableStates, SetStateSound DEF CheckDisconnect

LEMMA ForgetSound ==
    ASSUME NEW p, Sound(p)
    PROVE  Sound(Forget(p))
  <1> DEFINE a == IF p.task_state = "SRC_HARD_RESET_RECOVER" THEN p.src_recover ELSE "due"
             b == IF p.last_state = "HARD_RESET_SEND" THEN p.hard_reset_sent ELSE 0
             c == IF p.vdm_state \in {"BUSY", "WAIT_RSP_BUSY"} THEN p.vdm_timeout ELSE "off"
             d == IF p.vdm_state \in {"READY", "BUSY", "WAIT_RSP_BUSY"}
                  THEN p.vdm_state ELSE "DONE"
             e == IF p.task_state \in Debouncing THEN p.cc_state ELSE "NONE"
             f == IF p.task_state \in Debouncing THEN p.cc_debounce ELSE "due"
             n == IF "SNK_CAP_RECVD" \in p.flags THEN 0 ELSE p.snk_cap_count
             q == [p EXCEPT !.src_recover = a, !.hard_reset_sent = b]
             r == [q EXCEPT !.vdm_timeout = c, !.vdm_state = d]
             s == [r EXCEPT !.cc_state = e, !.cc_debounce = f, !.snk_cap_count = n]
  <1>1. a \in Deadlines /\ b \in Bits /\ c \in Deadlines /\ f \in Deadlines
    BY DEF Deadlines, Sound, Ports, Bits
  <1>2. d \in VdmStates /\ e \in CcStates /\ n \in SnkCapCounts
    BY TypeFacts DEF Sound, Ports
  <1>3. d \in {"BUSY", "WAIT_RSP_BUSY"} => c # "off" BY DEF Sound, VdmTimed
  <1>4. Forget(p) = s
    BY DEF Forget, Sound, Ports
  <1> HIDE DEF a, b, c, d, e, f, n
  <1>5. Sound(q)
    BY <1>1, TypeFacts, ZenonT(60) DEF Sound, Ports, ReceiverOff, TimerLeadsOn, VdmTimed
  <1> HIDE DEF q
  <1>6. Sound(r)
    BY <1>1, <1>2, <1>3, <1>5, TypeFacts, ZenonT(60)
       DEF Sound, Ports, ReceiverOff, TimerLeadsOn, VdmTimed
  <1> HIDE DEF r
  <1>7. Sound(s)
    BY <1>1, <1>2, <1>6, TypeFacts, ZenonT(60)
       DEF Sound, Ports, ReceiverOff, TimerLeadsOn, VdmTimed
  <1> QED BY <1>4, <1>7

----------------------------------------------------------------------------
(***************************************************************************)
(* The inductive invariant.  DeafWhenDisconnected is not inductive: the    *)
(* state timer could fire into a debounce state with the receiver on, so   *)
(* the timer's target is part of it.                                       *)
(***************************************************************************)
PortInv ==
    /\ Sound(port)
    /\ pc \in {"poll", "msg", "state", "tail"}
    /\ cable \in Cables
    /\ presses \in 0 .. MaxPresses

LEMMA InitInv == Init => PortInv
  <1> SUFFICES ASSUME Init PROVE PortInv OBVIOUS
  <1>1. /\ 0 \in MessageIds /\ 0 \in CapsCounts
        /\ 0 \in SnkCapCounts /\ 0 \in HardResetCounts
        /\ 0 \in PdoCounts /\ 0 \in PdoIndexes
        /\ [i \in PdoIndexes |-> 0] \in PdoArrays
    BY TypeFacts DEF PdoArrays, Millivolts
  <1>2. /\ {"SNK_DISCONNECTED", "DISABLED"} \subseteq States
        /\ {"off", "due", "armed"} \subseteq Deadlines
        /\ "NONE" \in CcStates /\ "DONE" \in VdmStates /\ "FREEZE" \in DualRoleStates
        /\ "none" \in Transmissions /\ << >> \in Fifos
    BY TypeFacts DEF States, Deadlines, DualRoleStates
  <1>3. pd_init \in Ports BY <1>1, <1>2, TypeFacts DEF pd_init, Ports
  <1>4. ReceiverOff(pd_init) /\ TimerLeadsOn(pd_init) /\ VdmTimed(pd_init)
    BY DEF pd_init, ReceiverOff, TimerLeadsOn, VdmTimed
  <1>5. cable \in Cables
    BY PartnersAssumption DEF Init, Unplugged, Cables, PartnerKinds
  <1>6. presses \in 0 .. MaxPresses /\ pc \in {"poll", "msg", "state", "tail"}
    BY BoundsAssumption DEF Init
  <1> QED BY <1>3, <1>4, <1>5, <1>6 DEF Init, PortInv, Sound

LEMMA LoopInv ==
    ASSUME PortInv, Loop \/ PollPressed
    PROVE  PortInv'
  <1> USE DEF PortInv
  <1>1. CASE Poll BY <1>1, BeginRunSound DEF Poll
  <1>2. CASE PollPressed
    <2>1. presses + 1 \in 0 .. MaxPresses BY <1>2, BoundsAssumption DEF PollPressed
    <2>2. Sound(NextCapIndex(port)) BY NextCapIndexSound
    <2> QED BY <1>2, <2>1, <2>2, BeginRunSound DEF PollPressed
  <1>3. CASE ProcessMessage BY <1>3, TakeMessageSound DEF ProcessMessage
  <1>4. CASE RunState
    <2>1. ASSUME NEW st, NEW q, Handle(st, q), Sound(q) PROVE PortInv'
      <3>1. st \in States BY <2>1 DEF Handle, Sound, Ports
      <3>2. Sound(FinishState(q, st)) BY <2>1, <3>1, FinishStateSound
      <3> QED BY <2>1, <3>2 DEF Handle
    <2>2. CASE RunAttach
      BY <2>1, <2>2, AttachHandlersSound DEF RunAttach, Handle
    <2>3. CASE RunSink BY <2>1, <2>3, SinkHandlersSound DEF RunSink
    <2>4. CASE RunSource BY <2>1, <2>4, SourceHandlersSound DEF RunSource
    <2>5. CASE RunSwap BY <2>1, <2>5, SwapHandlersSound DEF RunSwap
    <2>6. CASE RunReset BY <2>1, <2>6, ResetHandlersSound DEF RunReset
    <2> QED BY <1>4, <2>2, <2>3, <2>4, <2>5, <2>6 DEF RunState
  <1>5. CASE EndRun BY <1>5, CheckDisconnectSound, ForgetSound DEF EndRun
  <1> QED BY <1>1, <1>2, <1>3, <1>4, <1>5 DEF Loop

LEMMA ApplicationInv ==
    ASSUME PortInv, Application
    PROVE  PortInv'
  <1>1. ASSUME NEW api, NEW q, Call(api, q), Sound(q) PROVE PortInv'
    BY <1>1 DEF Call, PortInv
  <1>2. Sound(port) BY DEF PortInv
  <1> QED BY <1>1, <1>2, ApplicationSound, QueueVdmSound DEF Application

LEMMA WorldInv ==
    ASSUME PortInv, PartnerSends \/ PartnerHardReset \/ TxDone \/ Plug \/ Time
    PROVE  PortInv'
  <1> USE DEF PortInv
  <1>0. port \in Ports BY DEF Sound
  <1>1. ASSUME NEW is \in IntSets PROVE Sound([port EXCEPT !.ints = is])
    BY TypeFacts DEF Sound, Ports, ReceiverOff, TimerLeadsOn, VdmTimed
  <1>2. CASE PartnerSends
    <2>1. PICK m \in PartnerMsgs :
            port' = [port EXCEPT !.rx_fifo = Append(@, m),
                                 !.ints = IF port.rx_fifo = << >> THEN @
                                          ELSE @ \cup {"GCRCSENT"}]
      BY <1>2 DEF PartnerSends
    <2> DEFINE is == IF port.rx_fifo = << >> THEN port.ints ELSE port.ints \cup {"GCRCSENT"}
               fifo == Append(port.rx_fifo, m)
    <2>2. is \in IntSets BY <1>0 DEF Ports, IntSets, Interrupts
    <2>3. port.rx_fifo \in Fifos BY <1>0 DEF Ports
    <2>4. fifo \in Fifos BY <2>3, PartnerMsgsAssumption DEF Fifos
    <2>5. port' = [port EXCEPT !.rx_fifo = fifo, !.ints = is] BY <2>1
    <2> HIDE DEF is, fifo
    <2>6. Sound([port EXCEPT !.rx_fifo = fifo, !.ints = is])
      BY <2>2, <2>4, TypeFacts, ZenonT(60) DEF Sound, Ports, ReceiverOff, TimerLeadsOn, VdmTimed
    <2> QED BY <1>2, <2>5, <2>6 DEF PartnerSends
  <1>3. CASE PartnerHardReset
    <2>1. port.ints \cup {"HARDRESET"} \in IntSets BY <1>0 DEF Ports, IntSets, Interrupts
    <2> QED BY <1>1, <1>3, <2>1 DEF PartnerHardReset
  <1>4. CASE TxDone
    <2>1. ASSUME NEW int \in Interrupts, TxEnds(int) PROVE PortInv'
      <3>1. port.ints \cup {int} \in IntSets BY <1>0 DEF Ports, IntSets
      <3>2. "none" \in Transmissions BY DEF Transmissions
      <3>3. Sound([port EXCEPT !.tx = "none"]) BY <3>2, NewTransmission
      <3>4. Sound([port EXCEPT !.tx = "none", !.ints = port.ints \cup {int}])
        BY <3>1, <3>2, TypeFacts, ZenonT(60) DEF Sound, Ports, ReceiverOff, TimerLeadsOn, VdmTimed
      <3> QED BY <2>1, <3>4 DEF TxEnds
    <2>2. {"HARDSENT", "TX_SUCCESS", "RETRYFAIL", "COLLISION"} \subseteq Interrupts
      BY DEF Interrupts
    <2> QED BY <1>4, <2>1, <2>2 DEF TxDone
  <1>5. CASE Plug
    <2>1. cable' \in Cables
      BY <1>5, PartnersAssumption DEF Plug, Unplugged, Cables, PartnerKinds
    <2> QED BY <1>5, <2>1 DEF Plug
  <1>6. CASE Time
    <2>1. "due" \in Deadlines BY DEF Deadlines
    <2>2. Sound([port EXCEPT !.timeout = "due"])
      BY <2>1, TypeFacts DEF Sound, Ports, ReceiverOff, TimerLeadsOn, VdmTimed
    <2>3. Sound([port EXCEPT !.vdm_timeout = "due"])
      BY <2>1, TypeFacts DEF Sound, Ports, ReceiverOff, TimerLeadsOn, VdmTimed
    <2>4. Sound([port EXCEPT !.cc_debounce = "due"])
      BY <2>1, TypeFacts DEF Sound, Ports, ReceiverOff, TimerLeadsOn, VdmTimed
    <2>5. Sound([port EXCEPT !.src_recover = "due"])
      BY <2>1, TypeFacts DEF Sound, Ports, ReceiverOff, TimerLeadsOn, VdmTimed
    <2>6. Sound([port EXCEPT !.next_role_swap = "due"])
      BY <2>1, TypeFacts DEF Sound, Ports, ReceiverOff, TimerLeadsOn, VdmTimed
    <2> QED BY <1>6, <2>2, <2>3, <2>4, <2>5, <2>6
            DEF Time, PortTimer, StateTimer, VdmTimer, DebounceTimer, RecoverTimer, ToggleTimer, Passes
  <1> QED BY <1>2, <1>3, <1>4, <1>5, <1>6

LEMMA StutterInv ==
    ASSUME PortInv, UNCHANGED vars
    PROVE  PortInv'
  BY DEF vars, PortInv

\* Every reachable state satisfies the inductive invariant: whatever the partner,
\* the application, the button, the cable and the clock do.
THEOREM PortInvariant == Spec => []PortInv
  <1>1. PortInv /\ [Next]_vars => PortInv'
    BY LoopInv, ApplicationInv, WorldInv, StutterInv DEF Next
  <1> QED BY InitInv, <1>1, PTL DEF Spec

\* Every variable keeps its type; in particular the retry counters of the protocol
\* stay within their limits and the sketch's index stays inside pd_src_caps, for
\* every limit, every array size and every sequence of offers and button presses.
THEOREM TypeCorrect == Spec => []TypeOK
  <1>1. PortInv => TypeOK BY DEF PortInv, Sound, TypeOK
  <1> QED BY PortInvariant, <1>1, PTL

\* set_state, pd_run_state_machine: a disconnected port never listens, however it
\* came to be disconnected.
THEOREM DeafDisconnected == Spec => []DeafWhenDisconnected
  <1>1. PortInv => DeafWhenDisconnected
    BY DEF PortInv, Sound, ReceiverOff, DeafWhenDisconnected
  <1> QED BY PortInvariant, <1>1, PTL

\* pd_vdm_send_state_machine, handle_vdm_request: a VDM that waits for an answer has
\* a deadline, so the READY states never stay idle behind it without end.
THEOREM VdmHasDeadline == Spec => []VdmWaits
  <1>1. PortInv => VdmWaits BY DEF PortInv, Sound, VdmTimed, VdmWaits
  <1> QED BY PortInvariant, <1>1, PTL
=============================================================================
