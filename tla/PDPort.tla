------------------------------- MODULE PDPort ------------------------------
(***************************************************************************)
(* One USB-C port: the sketch's loop() running the protocol stack, and the *)
(* world around it, a partner that may be plugged, unplugged, send any     *)
(* message at any time, answer with GoodCRC or not, signal Hard Reset; an  *)
(* application that calls the public functions; the push button; time.     *)
(*                                                                         *)
(* loop() is single threaded.  One pass is four steps, and the world may   *)
(* act between any two of them:                                            *)
(*    "poll"   read the button, service the FUSB302 interrupt pin, and run *)
(*             the VDM sender;                                             *)
(*    "msg"    take at most one message from the Rx FIFO and handle it;    *)
(*    "state"  run the handler of the current state and the state timer;   *)
(*    "tail"   look for a disconnect.                                      *)
(***************************************************************************)
EXTENDS PDStates

CONSTANTS
    Partners,        \* cables that may be plugged in: a subset of Cables
    PartnerMsgs,     \* messages the partner may send
    RoleConformant,  \* TRUE: a partner sends only what its power role may send
    PartnerAcks,     \* TRUE: a partner may answer with GoodCRC
    Collisions,      \* TRUE: a transmission may collide
    PartnerResets,   \* TRUE: a partner may signal Hard Reset
    Apis,            \* public functions the application may call
    MaxPresses,      \* how often the push button may be pressed
    Replug,          \* TRUE: the cable may be pulled and plugged at any time
    RxDepth          \* messages the Rx FIFO holds

ASSUME PartnersAssumption == Partners \subseteq Cables
ASSUME PartnerMsgsAssumption == PartnerMsgs \subseteq Messages
ASSUME SwitchesAssumption == {RoleConformant, PartnerAcks, Collisions, PartnerResets, Replug} \subseteq BOOLEAN
ASSUME BoundsAssumption == MaxPresses \in Nat /\ RxDepth \in Nat

VARIABLES
    port,     \* the memory of the port and its FUSB302
    pc,       \* where loop() is
    cable,    \* what is at the other end
    presses   \* button presses so far

vars == <<port, pc, cable, presses>>

Unplugged == [kind |-> "none", flip |-> 0]

(***************************************************************************)
(* setup(): tcpm_init and pd_init.  The statics start at zero, which for   *)
(* tx_status means TCPC_TX_COMPLETE_SUCCESS.  Any cable may be plugged in  *)
(* already, and its partner may send anything: so starts a board that was  *)
(* reset in the middle of a contract, too.                                 *)
(***************************************************************************)
pd_init ==
    [ power_role |-> "SINK", data_role |-> "UFP", msg_id |-> 0, polarity |-> 0,
      task_state |-> "SNK_DISCONNECTED", last_state |-> "DISABLED",
      timeout |-> "off", timeout_state |-> "DISABLED", flags |-> {},
      src_recover |-> "due", cc_debounce |-> "due", cc_state |-> "NONE",
      tx_status |-> "SUCCESS", new_power_request |-> 0, prev_request_mv |-> 0,
      supply_voltage |-> 0, vdm_state |-> "DONE", vdm_timeout |-> "off",
      hard_reset_count |-> 0, hard_reset_sent |-> 0, caps_count |-> 0,
      snk_cap_count |-> 0, next_role_swap |-> "armed", vbus_off |-> 0,
      drp_state |-> "FREEZE",
      src_caps |-> [i \in PdoIndexes |-> 0], src_cap_cnt |-> 0,
      cap_index |-> 0, cap_max |-> 0,
      pull |-> "RD", rx_enable |-> 0, hdr_power |-> "SINK", hdr_data |-> "UFP",
      rx_fifo |-> << >>, tx |-> "none", ints |-> {} ]

Init ==
    /\ port = pd_init
    /\ pc = "poll"
    /\ cable \in Partners \cup {Unplugged}
    /\ presses = 0

----------------------------------------------------------------------------
\* The loop.

\* pd_run_state_machine(0, reset) up to its event wait; reset overwrites the
\* state without stopping the state timer.
BeginRun(p, reset) ==
    pd_vdm_send_state_machine(IF reset THEN [p EXCEPT !.task_state = "SOFT_RESET"] ELSE p)

\* The interrupt pin is low while an interrupt is latched.
ServicePin(p) == IF p.ints # {} THEN tcpc_alert(p) ELSE p

Poll ==
    /\ pc = "poll"
    /\ port' = BeginRun(ServicePin(port), FALSE)
    /\ pc' = "msg"
    /\ UNCHANGED <<cable, presses>>

PollPressed ==
    /\ pc = "poll"
    /\ presses < MaxPresses
    /\ port' = BeginRun(ServicePin(NextCapIndex(port)), TRUE)
    /\ pc' = "msg"
    /\ presses' = presses + 1
    /\ UNCHANGED cable

\* tcpm_get_message fails on an empty FIFO.
TakeMessage(p) ==
    IF p.rx_fifo = << >> THEN p
    ELSE handle_request([p EXCEPT !.rx_fifo = Tail(@)], Head(p.rx_fifo))

ProcessMessage ==
    /\ pc = "msg"
    /\ port' = TakeMessage(port)
    /\ pc' = "state"
    /\ UNCHANGED <<cable, presses>>

\* One pass through the switch, for the states named by the actions below.
Handle(state, q) ==
    /\ pc = "state"
    /\ port.task_state = state
    /\ port' = FinishState(q, state)
    /\ pc' = "tail"
    /\ UNCHANGED <<cable, presses>>

cc == tcpm_get_cc(port, cable)

RunAttach ==
    \/ Handle("SNK_DISCONNECTED", SnkDisconnected(port, cc))
    \/ Handle("SNK_DISCONNECTED_DEBOUNCE", SnkDisconnectedDebounce(port, cc))
    \/ Handle("SRC_DISCONNECTED", SrcDisconnected(port, cc))
    \/ Handle("SRC_DISCONNECTED_DEBOUNCE", SrcDisconnectedDebounce(port, cc))

RunSink ==
    \/ Handle("SNK_DISCOVERY", SnkDiscovery(port))
    \/ Handle("SNK_REQUESTED", SnkRequested(port))
    \/ Handle("SNK_TRANSITION", SnkTransition(port))
    \/ Handle("SNK_READY", SnkReady(port))

RunSource ==
    \/ Handle("SRC_STARTUP", SrcStartup(port))
    \/ Handle("SRC_DISCOVERY", SrcDiscovery(port))
    \/ Handle("SRC_NEGOCIATE", SrcNegociate(port))
    \/ Handle("SRC_ACCEPTED", SrcAccepted(port))
    \/ Handle("SRC_POWERED", SrcPowered(port))
    \/ Handle("SRC_TRANSITION", SrcTransition(port))
    \/ Handle("SRC_READY", SrcReady(port))
    \/ Handle("SRC_GET_SINK_CAP", SrcGetSinkCap(port))

RunSwap ==
    \/ Handle("DR_SWAP", DrSwap(port))
    \/ Handle("SNK_SWAP_INIT", SnkSwapInit(port))
    \/ Handle("SNK_SWAP_SNK_DISABLE", SnkSwapSnkDisable(port))
    \/ Handle("SNK_SWAP_SRC_DISABLE", SnkSwapSrcDisable(port))
    \/ Handle("SNK_SWAP_STANDBY", SnkSwapStandby(port))
    \/ Handle("SNK_SWAP_COMPLETE", SnkSwapComplete(port))
    \/ Handle("SRC_SWAP_INIT", SrcSwapInit(port))
    \/ Handle("SRC_SWAP_SNK_DISABLE", SrcSwapSnkDisable(port))
    \/ Handle("SRC_SWAP_SRC_DISABLE", SrcSwapSrcDisable(port))
    \/ Handle("SRC_SWAP_STANDBY", SrcSwapStandby(port))

RunReset ==
    \/ Handle("SOFT_RESET", SoftReset(port))
    \/ Handle("HARD_RESET_SEND", HardResetSend(port))
    \/ Handle("HARD_RESET_EXECUTE", HardResetExecute(port))
    \/ Handle("SNK_HARD_RESET_RECOVER", SnkHardResetRecover(port))
    \/ Handle("SRC_HARD_RESET_RECOVER", SrcHardResetRecover(port))

RunState == RunAttach \/ RunSink \/ RunSource \/ RunSwap \/ RunReset

(***************************************************************************)
(* What a pass leaves in a variable that every later reader first writes   *)
(* makes no difference; it is set to one value, so that TLC does not tell  *)
(* such states apart.  The entry work of HARD_RESET_SEND writes            *)
(* hard_reset_sent, pd_execute_hard_reset writes src_recover, leaving a    *)
(* disconnected state writes cc_state and with it cc_debounce; vdm_timeout *)
(* is read while an answer is awaited only, snk_cap_count until a          *)
(* Sink_Capabilities came, and nobody asks how a VDM ended.                *)
(***************************************************************************)
Forget(p) ==
    [p EXCEPT !.src_recover = IF p.task_state = "SRC_HARD_RESET_RECOVER" THEN @ ELSE "due",
              !.hard_reset_sent = IF p.last_state = "HARD_RESET_SEND" THEN @ ELSE 0,
              !.vdm_timeout = IF p.vdm_state \in {"BUSY", "WAIT_RSP_BUSY"} THEN @ ELSE "off",
              !.vdm_state = IF @ \in {"READY", "BUSY", "WAIT_RSP_BUSY"} THEN @ ELSE "DONE",
              !.cc_state = IF p.task_state \in Debouncing THEN @ ELSE "NONE",
              !.cc_debounce = IF p.task_state \in Debouncing THEN @ ELSE "due",
              !.snk_cap_count = IF "SNK_CAP_RECVD" \in p.flags THEN 0 ELSE @]

EndRun ==
    /\ pc = "tail"
    /\ port' = Forget(CheckDisconnect(port, cc))
    /\ pc' = "poll"
    /\ UNCHANGED <<cable, presses>>

Loop == Poll \/ ProcessMessage \/ RunState \/ EndRun

----------------------------------------------------------------------------
\* The public functions, called by the application between two passes.

Call(api, q) ==
    /\ api \in Apis
    /\ pc = "poll"
    /\ port' = q
    /\ UNCHANGED <<pc, cable, presses>>

Application ==
    \/ Call("pd_soft_reset", pd_soft_reset(port))
    \/ Call("pd_request_power_swap", pd_request_power_swap(port))
    \/ Call("pd_request_data_swap", pd_request_data_swap(port))
    \/ Call("pd_set_new_power_request", pd_set_new_power_request(port))
    \/ Call("pd_ping_enable", pd_ping_enable(port, TRUE))
    \/ Call("pd_send_vdm", pd_send_vdm(port))
    \/ \E state \in DualRoleStates : Call(state, pd_set_dual_role(port, state))

----------------------------------------------------------------------------
\* The partner and the FUSB302.

\* The CC line of the port and that of the partner meet, and the receiver and
\* transmitter of the FUSB302 are switched to it.
Linked ==
    /\ cable.kind \in PowerKinds \cup LoadKinds
    /\ cable.flip = port.polarity
    /\ port.rx_enable = 1

\* A conforming partner offers power only as a source, to a port that shows Rd,
\* and asks for power only as a sink, from a port that is its source.
MayCome(m) ==
    RoleConformant =>
        /\ m.type \in {"SOURCE_CAP", "GOTO_MIN"} =>
              cable.kind \in PowerKinds /\ port.pull = "RD"
        /\ m.type = "PS_RDY" => port.pull = "RD"
        /\ m.type \in {"REQUEST", "SINK_CAP"} =>
              cable.kind \in LoadKinds /\ port.power_role = "SOURCE"

\* A good packet: the chip stores it and answers with GoodCRC by itself.  The
\* interrupt matters only to a packet that is not taken in this pass, for the
\* alert handler may flush it.
PartnerSends ==
    /\ Linked
    /\ pc = "msg"
    /\ Len(port.rx_fifo) < RxDepth
    /\ \E m \in PartnerMsgs :
          /\ MayCome(m)
          /\ port' = [port EXCEPT !.rx_fifo = Append(@, m),
                               !.ints = IF port.rx_fifo = << >> THEN @
                                       ELSE @ \cup {"GCRCSENT"}]
    /\ UNCHANGED <<pc, cable, presses>>

PartnerHardReset ==
    /\ PartnerResets
    /\ Linked
    /\ pc \in {"poll", "state"}
    /\ port' = [port EXCEPT !.ints = @ \cup {"HARDRESET"}]
    /\ UNCHANGED <<pc, cable, presses>>

(***************************************************************************)
(* A transmission ends: acknowledged, given up after the retries, or       *)
(* collided.  Only an end just before a step that reads the interrupts or  *)
(* may overwrite the transmission need be considered: any other can wait.  *)
(***************************************************************************)
TxMatters ==
    \/ pc = "poll"
    \/ pc = "msg" /\ port.rx_fifo # << >>
    \/ pc = "state" /\ \/ Entering(port)
                       \/ port.task_state \in
                            {"SRC_DISCOVERY", "SRC_READY", "SNK_READY",
                             "HARD_RESET_SEND", "SNK_DISCONNECTED_DEBOUNCE"}

TxEnds(int) ==
    /\ TxMatters
    /\ port' = [port EXCEPT !.tx = "none", !.ints = @ \cup {int}]
    /\ UNCHANGED <<pc, cable, presses>>

TxDone ==
    \/ port.tx = "HARD_RESET" /\ TxEnds("HARDSENT")
    \/ port.tx \notin {"none", "HARD_RESET"} /\ Linked /\ PartnerAcks /\ TxEnds("TX_SUCCESS")
    \/ port.tx \notin {"none", "HARD_RESET"} /\ TxEnds("RETRYFAIL")
    \/ port.tx \notin {"none", "HARD_RESET"} /\ Collisions /\ TxEnds("COLLISION")

\* The plug is pulled, another partner is plugged in, a partner changes role.
Plug ==
    /\ Replug
    /\ pc \in {"state", "tail"}
    /\ cable' \in Partners \cup {Unplugged}
    /\ cable' # cable
    /\ UNCHANGED <<port, pc, presses>>

(***************************************************************************)
(* Time passes beyond a deadline.  Only a deadline the next step reads     *)
(* need be considered: passing one nobody reads yet can wait until it is.  *)
(***************************************************************************)
Passes(f, reader) ==
    /\ port[f] = "armed"
    /\ pc = reader
    /\ port' = [port EXCEPT ![f] = "due"]
    /\ UNCHANGED <<pc, cable, presses>>

StateTimer == Passes("timeout", "state")
VdmTimer == port.vdm_state \in {"BUSY", "WAIT_RSP_BUSY"} /\ Passes("vdm_timeout", "poll")
DebounceTimer == port.task_state \in Debouncing /\ Passes("cc_debounce", "state")
RecoverTimer == port.task_state = "SRC_HARD_RESET_RECOVER" /\ Passes("src_recover", "state")
ToggleTimer ==
    /\ port.task_state \in Disconnected
    /\ cc[1] = TYPEC_CC_VOLT_OPEN /\ cc[2] = TYPEC_CC_VOLT_OPEN
    /\ Passes("next_role_swap", "state")

PortTimer == StateTimer \/ DebounceTimer \/ RecoverTimer \/ ToggleTimer
Time == PortTimer \/ VdmTimer

Next ==
    \/ Loop \/ PollPressed \/ Application
    \/ PartnerSends \/ PartnerHardReset \/ TxDone \/ Plug \/ Time

Spec == Init /\ [][Next]_vars

(***************************************************************************)
(* loop() is called over and over, the clock advances, and the FUSB302     *)
(* ends every transmission: after its retries it gives up.  A timer or an  *)
(* end of transmission is enabled only just before the step it matters to, *)
(* again and again, hence strong fairness.  At most one of the timers      *)
(* other than the VDM deadline runs at a time, so they share one condition.*)
(* Nothing is promised of the partner, the application or the button.      *)
(***************************************************************************)
Fairness ==
    /\ WF_vars(Loop)
    /\ SF_vars(PortTimer)
    /\ SF_vars(VdmTimer)
    /\ SF_vars(TxDone)

FairSpec == Spec /\ Fairness
=============================================================================
