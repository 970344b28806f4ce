------------------------------ MODULE PDTypes ------------------------------
(***************************************************************************)
(* The vocabulary of the USB Power Delivery stack: the enumerations and    *)
(* the flag bits of usb_pd.h and usb_pd_tcpm.h, the messages that travel   *)
(* on the CC wire, and the record that holds the memory of one port.       *)
(*                                                                         *)
(* One port is ONE record: struct pd_protocol, the file-scope statics of   *)
(* usb_pd_protocol.cpp, the sink policy's arrays, and the registers of the *)
(* FUSB302 that the code reads back.  The functions of the firmware are    *)
(* operators from such a record to such a record.  C's int truth values    *)
(* stay 0 and 1.                                                           *)
(*                                                                         *)
(* A deadline (a time stamp compared with get_time()) is abstracted to     *)
(* what the comparison tells: "off" (zero, no deadline), "armed" (in the   *)
(* future) or "due" (in the past).                                         *)
(***************************************************************************)
EXTENDS Naturals, Sequences

CONSTANTS
    MsgIds,            \* size of the message ID space, PD_MESSAGE_ID_COUNT + 1 (8)
    PD_CAPS_COUNT,     \* Source_Capabilities attempts (50)
    PD_SNK_CAP_RETRIES, \* Get_Sink_Cap attempts (3)
    PDO_MAX_OBJECTS,   \* capacity of pd_src_caps (7)
    SeenOnWire         \* types a model tells apart while they are being sent

ASSUME MsgIdsAssumption == MsgIds \in Nat \ {0}
ASSUME CapsCountAssumption == PD_CAPS_COUNT \in Nat
ASSUME SnkCapRetriesAssumption == PD_SNK_CAP_RETRIES \in Nat
ASSUME PdoMaxAssumption == PDO_MAX_OBJECTS \in Nat \ {0}

PD_HARD_RESET_COUNT == 2

(***************************************************************************)
(* enum pd_states without the members this build compiles out.             *)
(***************************************************************************)
Disconnected == {"SNK_DISCONNECTED", "SRC_DISCONNECTED"}
Debouncing == {"SNK_DISCONNECTED_DEBOUNCE", "SRC_DISCONNECTED_DEBOUNCE"}
PowerSwapping ==
    {"SNK_SWAP_SNK_DISABLE", "SNK_SWAP_SRC_DISABLE", "SNK_SWAP_STANDBY",
     "SNK_SWAP_COMPLETE", "SRC_SWAP_SNK_DISABLE", "SRC_SWAP_SRC_DISABLE",
     "SRC_SWAP_STANDBY"}
States ==
    Disconnected \cup Debouncing \cup PowerSwapping \cup
    {"DISABLED", "SUSPENDED", "SNK_HARD_RESET_RECOVER", "SNK_DISCOVERY",
     "SNK_REQUESTED", "SNK_TRANSITION", "SNK_READY", "SNK_SWAP_INIT",
     "SRC_HARD_RESET_RECOVER", "SRC_STARTUP", "SRC_DISCOVERY",
     "SRC_NEGOCIATE", "SRC_ACCEPTED", "SRC_POWERED", "SRC_TRANSITION",
     "SRC_READY", "SRC_GET_SINK_CAP", "DR_SWAP", "SRC_SWAP_INIT",
     "SOFT_RESET", "HARD_RESET_SEND", "HARD_RESET_EXECUTE"}

(***************************************************************************)
(* The PD_FLAGS_* bits some code of this build sets.                       *)
(***************************************************************************)
PartnerFlags ==
    {"PARTNER_DR_POWER", "PARTNER_EXTPOWER", "PARTNER_USB_COMM", "PARTNER_DR_DATA"}
Flags ==
    PartnerFlags \cup
    {"PING_ENABLED", "CHECK_IDENTITY", "SNK_CAP_RECVD", "EXPLICIT_CONTRACT",
     "PREVIOUS_PD_CONN", "CHECK_PR_ROLE", "CHECK_DR_ROLE", "TS_DTS_PARTNER"}
PD_FLAGS_RESET_ON_DISCONNECT_MASK == Flags \ {"PING_ENABLED"}

CcStates == {"NONE", "AUDIO_ACC", "DEBUG_ACC", "UFP_ATTACHED", "DFP_ATTACHED"}
DualRoleStates ==
    {"TOGGLE_ON", "TOGGLE_OFF", "FREEZE", "FORCE_SINK", "FORCE_SOURCE"}
VdmStates ==
    {"ERR_BUSY", "ERR_SEND", "ERR_TMOUT", "DONE", "READY", "BUSY", "WAIT_RSP_BUSY"}

(***************************************************************************)
(* Messages.  A control message is its type.  A data message carries what  *)
(* the handlers look at: the voltages of the offered PDOs and the flags of *)
(* the first one, the request data object, the BIST mode, the VDM command  *)
(* type.                                                                   *)
(***************************************************************************)
CtrlTypes ==
    {"PING", "GOTO_MIN", "GET_SOURCE_CAP", "GET_SINK_CAP", "PS_RDY", "REJECT",
     "WAIT", "ACCEPT", "SOFT_RESET", "PR_SWAP", "DR_SWAP", "VCONN_SWAP"}
DataTypes == {"SOURCE_CAP", "REQUEST", "BIST", "SINK_CAP", "VENDOR_DEF"}

Pdo0s == [fixed : {0, 1}, flags : SUBSET PartnerFlags]
Rdos == [pos : Nat, op_ma : Nat, max_ma : Nat, mismatch : {0, 1}]
Voltages == {v \in Seq(Nat) : Len(v) \in 1 .. PDO_MAX_OBJECTS}

Messages ==
    [type : CtrlTypes]
    \cup [type : {"SOURCE_CAP"}, mv : Voltages, pdo0 : Pdo0s]
    \cup [type : {"REQUEST"}, cnt : Nat, rdo : Rdos]
    \cup [type : {"BIST"}, mode2 : {0, 1}]
    \cup [type : {"SINK_CAP"}, pdo0 : Pdo0s]
    \cup [type : {"VENDOR_DEF"}, cmdt : {"ACK", "RSP_BUSY"}]

ASSUME SeenOnWireAssumption == SeenOnWire \subseteq CtrlTypes \cup DataTypes

\* What the transmitter of the FUSB302 may be sending; "SOP" stands for every
\* packet whose type the model does not tell apart.
Transmissions == {"none", "HARD_RESET", "SOP"} \cup SeenOnWire

Interrupts ==
    {"COLLISION", "TX_SUCCESS", "RETRYFAIL", "HARDSENT", "HARDRESET", "GCRCSENT"}

Deadlines == {"off", "armed", "due"}

----------------------------------------------------------------------------
\* The memory of one port; every field has a type with a name.
PowerRoles == {"SINK", "SOURCE"}
DataRoles == {"UFP", "DFP"}
Bits == {0, 1}
Pulls == {"RP", "RD"}
TxStatuses == {"SUCCESS", "FAILED"}
Millivolts == Nat
FlagSets == SUBSET Flags
IntSets == SUBSET Interrupts
Fifos == Seq(Messages)
MessageIds == 0 .. MsgIds - 1
HardResetCounts == 0 .. PD_HARD_RESET_COUNT
CapsCounts == 0 .. PD_CAPS_COUNT
SnkCapCounts == 0 .. PD_SNK_CAP_RETRIES + 1
PdoCounts == 0 .. PDO_MAX_OBJECTS
PdoIndexes == 0 .. PDO_MAX_OBJECTS - 1
PdoArrays == [PdoIndexes -> Millivolts]

Ports ==
    [ \* struct pd_protocol
      power_role : PowerRoles,
      data_role : DataRoles,
      msg_id : MessageIds,
      polarity : Bits,
      task_state : States,
      last_state : States,
      timeout : Deadlines,
      timeout_state : States,
      flags : FlagSets,
      src_recover : Deadlines,
      cc_debounce : Deadlines,
      cc_state : CcStates,
      tx_status : TxStatuses,
      new_power_request : Bits,
      prev_request_mv : Millivolts,
      supply_voltage : Millivolts,
      vdm_state : VdmStates,
      vdm_timeout : Deadlines,
      \* statics of usb_pd_protocol.cpp
      hard_reset_count : HardResetCounts,
      hard_reset_sent : Bits,
      caps_count : CapsCounts,
      snk_cap_count : SnkCapCounts,
      next_role_swap : Deadlines,
      vbus_off : Bits,
      drp_state : DualRoleStates,
      \* pd_src_caps and pd_src_cap_cnt, and the sketch's two indices
      src_caps : PdoArrays,
      src_cap_cnt : PdoCounts,
      cap_index : PdoIndexes,
      cap_max : PdoIndexes,
      \* FUSB302: driver state and registers
      pull : Pulls,
      rx_enable : Bits,
      hdr_power : PowerRoles,
      hdr_data : DataRoles,
      rx_fifo : Fifos,
      tx : Transmissions,
      ints : IntSets ]
=============================================================================
