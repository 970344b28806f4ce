---------------------------- MODULE PDPortProps ----------------------------
(***************************************************************************)
(* What is expected of one port.                                           *)
(***************************************************************************)
EXTENDS PDPort

\* Every variable keeps its type: the counters stay within the limits the code
\* compares them with, and the index of the requested PDO stays inside the array.
TypeOK ==
    /\ port \in Ports
    /\ pc \in {"poll", "msg", "state", "tail"}
    /\ cable \in Cables
    /\ presses \in 0 .. MaxPresses

----------------------------------------------------------------------------
\* Attach and detach.

\* However a port comes to be disconnected (a timer, a failed PS_RDY, a BIST
\* request, the CC pins), its receiver is off until it attaches again: set_state
\* turns it off only when it enters a disconnected state from another one.
DeafWhenDisconnected ==
    port.task_state \in Disconnected \cup Debouncing => port.rx_enable = 0

\* A port that takes itself to be connected can hear its partner.  This relates
\* pd_is_connected, which tests the state against the role, to the receiver,
\* which only attaching turns on.
ListeningWhenConnected == pd_is_connected(port) => port.rx_enable = 1

\* The CC pin chosen at attach is the one the partner's resistor is on.
OrientationOK ==
    cable.kind \in {"src", "snk", "drp"} /\ port.rx_enable = 1 => port.polarity = cable.flip

\* Only a source or a sink (or a debug one) ever gets the receiver turned on: not
\* an audio accessory, not an open cable.
OnlyPartnersConnect ==
    cable.kind \in {"none", "audio"} => port.rx_enable = 0

\* The receiver is turned on only for a partner that is there in that very step, on the
\* partner's pin, and is not switched to another pin while it is on: the plug may be
\* pulled, turned or changed at any point of debouncing, toggling or a swap.
ListensToPartner ==
    [][port'.rx_enable = 1 =>
          \/ port.rx_enable = 1 /\ port'.polarity = port.polarity
          \/ /\ cable.kind \notin {"none", "audio"}
             /\ cable.kind \in {"src", "snk", "drp"} => port'.polarity = cable.flip]_vars

----------------------------------------------------------------------------
\* Timers.

\* Where the timer of a state leads, by the handlers of pd_run_state_machine and
\* handle_reject_wait.
TimerTargets(state) ==
    CASE state \in {"SNK_TRANSITION", "SRC_NEGOCIATE", "SNK_SWAP_SRC_DISABLE", "SOFT_RESET"} ->
            {"HARD_RESET_SEND"}
      [] state = "SNK_DISCOVERY" -> {"HARD_RESET_SEND", "SNK_DISCONNECTED"}
      [] state = "SRC_DISCOVERY" -> {"HARD_RESET_SEND", "SRC_DISCONNECTED"}
      [] state = "SNK_REQUESTED" -> {"HARD_RESET_SEND", "SNK_READY"}
      [] state = "SNK_HARD_RESET_RECOVER" ->
            {"HARD_RESET_SEND", "SNK_DISCOVERY", "SNK_DISCONNECTED"}
      [] state = "SRC_STARTUP" -> {"SRC_DISCOVERY"}
      [] state = "SRC_ACCEPTED" -> {"SRC_POWERED"}
      [] state = "SRC_POWERED" -> {"SRC_TRANSITION"}
      [] state \in {"SRC_GET_SINK_CAP", "SRC_SWAP_INIT"} -> {"SRC_READY"}
      [] state = "DR_SWAP" -> {"SNK_READY", "SRC_READY"}
      [] state = "SNK_SWAP_INIT" -> {"SNK_READY"}
      [] state = "SRC_SWAP_SNK_DISABLE" -> {"SRC_SWAP_SRC_DISABLE"}
      [] state = "SRC_SWAP_SRC_DISABLE" -> {"SRC_SWAP_STANDBY"}
      [] state = "SRC_SWAP_STANDBY" -> {"SNK_DISCONNECTED"}
      [] state = "SNK_SWAP_STANDBY" -> {"SNK_SWAP_COMPLETE"}
      [] state = "HARD_RESET_SEND" -> {"HARD_RESET_EXECUTE"}
      [] OTHER -> {}

\* A running state timer is the current state's own: a timer armed in one state
\* never fires in another, whichever message, swap, reset or time-out intervened.
\* The push button overwrites the state beside set_state, so that the timer of the
\* state it interrupts goes on; but the handler of SOFT_RESET runs before any timer is
\* looked at, and replaces or stops it.
TimerOfState ==
    port.timeout # "off" =>
        \/ port.timeout_state \in TimerTargets(port.task_state)
        \/ /\ pc \in {"msg", "state"} /\ port.task_state = "SOFT_RESET"
           /\ port.last_state # "SOFT_RESET"

\* The handler of the current state has run and the state is kept.
Settled == pc = "poll" /\ port.last_state = port.task_state

TimedStates ==
    {"SNK_TRANSITION", "SNK_HARD_RESET_RECOVER", "SRC_STARTUP", "SRC_NEGOCIATE",
     "SRC_POWERED", "SRC_GET_SINK_CAP", "SNK_SWAP_SRC_DISABLE", "SNK_SWAP_STANDBY",
     "SRC_SWAP_SNK_DISABLE", "SRC_SWAP_SRC_DISABLE", "SRC_SWAP_STANDBY"}

\* In these states the port waits for its partner or for a power supply, and a
\* timer limits the wait.  Handlers arm it on entry only, set_state always stops
\* it: a path that enters a state without "entering" it would wait for ever.
TimedWaits == Settled /\ port.task_state \in TimedStates => port.timeout # "off"

\* While the answer to a VDM is awaited, SRC_READY and SNK_READY do nothing: the
\* wait has a deadline.
VdmWaits == port.vdm_state \in {"BUSY", "WAIT_RSP_BUSY"} => port.vdm_timeout # "off"

----------------------------------------------------------------------------
\* Roles, contracts and swaps.

SnkStates ==
    {"SNK_DISCONNECTED", "SNK_DISCONNECTED_DEBOUNCE", "SNK_HARD_RESET_RECOVER",
     "SNK_DISCOVERY", "SNK_REQUESTED", "SNK_TRANSITION", "SNK_READY",
     "SNK_SWAP_INIT", "SNK_SWAP_SNK_DISABLE", "SNK_SWAP_SRC_DISABLE",
     "SNK_SWAP_STANDBY", "SNK_SWAP_COMPLETE"}
SrcStates ==
    {"SRC_DISCONNECTED", "SRC_DISCONNECTED_DEBOUNCE", "SRC_HARD_RESET_RECOVER",
     "SRC_STARTUP", "SRC_DISCOVERY", "SRC_NEGOCIATE", "SRC_ACCEPTED", "SRC_POWERED",
     "SRC_TRANSITION", "SRC_READY", "SRC_GET_SINK_CAP", "SRC_SWAP_INIT",
     "SRC_SWAP_SNK_DISABLE", "SRC_SWAP_SRC_DISABLE"}

\* The power role agrees with the state.  SRC_SWAP_STANDBY is in neither set: in
\* it the role changes.
RoleMatchesState ==
    /\ port.task_state \in SnkStates => port.power_role = "SINK"
    /\ port.task_state \in SrcStates => port.power_role = "SOURCE"

\* The resistor on the CC pins is that of the power role, except between the two
\* halves of a swap from sink to source: Rp first, then the role.
PullMatchesRole ==
    port.task_state \notin {"SNK_SWAP_STANDBY", "SNK_SWAP_COMPLETE"} =>
        port.pull = IF port.power_role = "SINK" THEN "RD" ELSE "RP"

\* The roles in the header of what is sent (and in the GoodCRC the chip sends by
\* itself) are the port's, except while the role changes in SRC_SWAP_STANDBY.
HeaderMatchesRoles ==
    pd_is_connected(port) /\ port.task_state # "SRC_SWAP_STANDBY" =>
        port.hdr_power = port.power_role /\ port.hdr_data = port.data_role

\* The contract ends when a power swap is accepted and none begins during it.
NoContractDuringSwap ==
    port.task_state \in PowerSwapping => "EXPLICIT_CONTRACT" \notin port.flags

\* pd_build_request: the PDO a sink has requested is one of the last
\* Source_Capabilities message.
RequestsOfferedPdo == port.task_state = "SNK_REQUESTED" => port.cap_index < port.src_cap_cnt

\* SRC_DISCOVERY and handle_data_request: a partner that neither acknowledges a
\* packet nor sends one is never taken to be PD capable.
PdCapableOnlyIfAcked ==
    ~PartnerAcks /\ PartnerMsgs = {} => "PREVIOUS_PD_CONN" \notin port.flags

\* PD_FLAGS_RESET_ON_DISCONNECT_MASK: a disconnected port remembers nothing of the
\* partner it had.
ForgetsPartner ==
    port.task_state \in Disconnected => port.flags \cap PD_FLAGS_RESET_ON_DISCONNECT_MASK = {}

(***************************************************************************)
(* The port implements PDContract.  A state of the state machine belongs   *)
(* to one stage; a data swap and a request for a power swap happen under   *)
(* the contract.                                                           *)
(***************************************************************************)
Stage(state) ==
    CASE state \in Disconnected \cup Debouncing \cup {"DISABLED", "SUSPENDED"} -> "detached"
      [] state \in {"SNK_DISCOVERY", "SRC_STARTUP", "SRC_DISCOVERY"} -> "default"
      [] state \in {"SNK_REQUESTED", "SRC_NEGOCIATE"} -> "offer"
      [] state \in {"SNK_TRANSITION", "SRC_ACCEPTED"} -> "agreed"
      [] state \in {"SRC_POWERED", "SRC_TRANSITION"} -> "moving"
      [] state \in PowerSwapping -> "swapping"
      [] state \in {"SOFT_RESET", "HARD_RESET_SEND", "HARD_RESET_EXECUTE",
                    "SNK_HARD_RESET_RECOVER", "SRC_HARD_RESET_RECOVER"} -> "recovery"
      [] OTHER -> "settled"

Contract == INSTANCE PDContract
    WITH stage <- Stage(port.task_state),
         role <- port.power_role,
         contract <- "EXPLICIT_CONTRACT" \in port.flags

\* Whatever the partner sends, acknowledges or leaves out and whenever timers fire: a
\* source moves power straight from an agreement that nothing called off, a sink is
\* settled only by an offer, an agreement or a recovery, a swap starts only from a
\* settled port and ends the contract as it starts, and the role changes nowhere else.
ImplementsContract == Contract!Spec

----------------------------------------------------------------------------
\* Liveness.

\* A negotiation step that a timer limits ends, whatever the partner sends or
\* does not send.
NegotiationStates ==
    {"SNK_TRANSITION", "SNK_HARD_RESET_RECOVER", "SRC_STARTUP", "SRC_NEGOCIATE",
     "SRC_POWERED", "SRC_GET_SINK_CAP"}
WaitsEnd == \A s \in NegotiationStates : port.task_state = s ~> port.task_state # s

\* An answered, refused or lost VDM does not block the READY states for ever.
VdmEnds == port.vdm_state = "BUSY" ~> port.vdm_state # "BUSY"

\* A source without PD (it sends nothing) is sent a limited number of Hard Resets:
\* in the end the sink stays in SNK_DISCOVERY, on the charger's 5 V.
PlainChargerLeftAlone ==
    cable.kind = "src" /\ [](cable.kind = "src" /\ port.rx_fifo = << >>)
        => <>[](port.task_state = "SNK_DISCOVERY")

\* CheckDisconnect: a sink whose cable is pulled for good notices, unless it stops
\* being a sink.
SinkDetachSeen ==
    <>[](cable = Unplugged /\ port.power_role = "SINK")
        => []<>(port.task_state \in Disconnected)

\* pd_set_dual_role(PD_DRP_FORCE_SOURCE): in the end the port is a source.
ForcedToSource == port.drp_state = "FORCE_SOURCE" ~> port.power_role = "SOURCE"
=============================================================================
