---------------------------- MODULE PDRoleProofs ----------------------------
(***************************************************************************)
(* Theorems about the power role of a port: that the state, the resistor,  *)
(* the header and the receiver go with it, and that the port implements    *)
(* PDContract; for every cable, message set and limit.  A message taken    *)
(* late or out of turn breaks them, as the hazards say, so they are about  *)
(* partners that speak in turn (Orderly).                                  *)
(*                                                                         *)
(* Every step of the loop is one act on the port: it stays as it is, goes  *)
(* to another state, waits for its timer, begins or ends a contract,       *)
(* attaches, changes its role or a part of what belongs to it, or resets.  *)
(* One lemma per operator says which act it is, one lemma per invariant    *)
(* that every act preserves it.                                            *)
(***************************************************************************)
EXTENDS PDControlProofs

----------------------------------------------------------------------------
\* What the theorems ask of the partner and the application.

\* A message is handled before the next one comes, and the role of its sender fits.
InTurn == RoleConformant /\ RxDepth <= 1

NoRequests == \A m \in PartnerMsgs : m.type # "REQUEST"
NoSwaps == "pd_request_power_swap" \notin Apis
Orderly == InTurn \/ (NoRequests /\ NoSwaps)

\* No Soft Reset can come between the two halves of a power swap.
SoftResetsCome ==
    \/ "pd_soft_reset" \in Apis
    \/ \E m \in PartnerMsgs : m.type = "SOFT_RESET"
SwapsUndisturbed == NoSwaps \/ (MaxPresses = 0 /\ ~SoftResetsCome)

\* A port is told to reset only while it is connected.
ResetsConnected == MaxPresses = 0 /\ ~PartnerResets

----------------------------------------------------------------------------
\* The acts.

HasPower(p) ==
    {"task_state", "last_state", "timeout", "timeout_state", "flags", "power_role",
     "data_role", "pull", "hdr_power", "hdr_data", "rx_enable", "rx_fifo", "ints"}
        \subseteq DOMAIN p

Detached == Disconnected \cup Debouncing
Unbound == {"SRC_SWAP_STANDBY", "DR_SWAP", "SOFT_RESET", "HARD_RESET_SEND", "HARD_RESET_EXECUTE"}
SwapStates == PowerSwapping \cup {"SNK_SWAP_INIT", "SRC_SWAP_INIT"}
BetweenPulls == {"SNK_SWAP_STANDBY", "SNK_SWAP_COMPLETE"}

\* A state for a port of that role.
Suits(s, role) == s \in Unbound \cup (IF role = "SINK" THEN SnkStates ELSE SrcStates)

\* What every act leaves alone.
Frame(p, q) ==
    /\ HasPower(q)
    /\ q.rx_fifo \in {p.rx_fifo, << >>}
    /\ q.ints \in {p.ints, {}}

SameLast(p, q) == q.last_state = p.last_state
SameAgreement(p, q) == Contracted(q) <=> Contracted(p)
SameTimer(p, q) == q.timeout = p.timeout /\ q.timeout_state = p.timeout_state
SameData(p, q) ==
    q.data_role = p.data_role /\ q.hdr_power = p.hdr_power /\ q.hdr_data = p.hdr_data
SameRoles(p, q) == q.power_role = p.power_role /\ q.pull = p.pull /\ SameData(p, q)
HeaderTold(q) == q.hdr_power = q.power_role /\ q.hdr_data = q.data_role

\* set_state: the timer stops, and the receiver is off in a disconnected state.
Enters(p, q, s) ==
    /\ q.task_state = s
    /\ q.timeout = "off"
    /\ q.rx_enable = IF s \in Disconnected /\ p.task_state \notin Disconnected
                     THEN 0 ELSE p.rx_enable

Remains(p, q) == q.task_state = p.task_state /\ q.rx_enable = p.rx_enable

Stays(p, q) ==
    /\ Frame(p, q) /\ SameAgreement(p, q) /\ SameRoles(p, q)
    /\ Remains(p, q) /\ SameTimer(p, q)
Still(p, q) == Stays(p, q) /\ SameLast(p, q)

Awaits(p, q, s) ==
    /\ Frame(p, q) /\ SameAgreement(p, q) /\ SameRoles(p, q)
    /\ Remains(p, q) /\ q.timeout = "armed" /\ q.timeout_state = s

Goes(p, q, s) ==
    /\ Frame(p, q) /\ SameAgreement(p, q) /\ SameRoles(p, q)
    /\ Enters(p, q, s)

\* Between which stages of PDContract a port may go with its role and contract kept.
StageStep(a, b, role) ==
    \/ a = b
    \/ b \in {"default", "recovery", "detached"}
    \/ b = "offer" /\ (a = "default" \/ (role = "SINK" /\ a \in {"agreed", "settled"}))
    \/ b = "moving" /\ role = "SOURCE" /\ a = "agreed"
    \/ b = "settled" /\ (\/ a \in {"offer", "agreed", "recovery"}
                         \/ (role = "SOURCE" /\ a # "detached"))

\* A state a port may go to, other than by a Soft Reset.
Leads(p, s) ==
    /\ Suits(s, p.power_role)
    /\ StageStep(Stage(p.task_state), Stage(s), p.power_role)
    /\ p.task_state \in Detached => s \in Detached
    /\ p.task_state \in BetweenPulls => s \in BetweenPulls
    /\ s = "SNK_SWAP_COMPLETE" => p.pull = "RP"
    /\ p.task_state = "SRC_SWAP_STANDBY" => s \in Disconnected \/ ~IsSink(p)
    /\ s = "SRC_SWAP_STANDBY" => ~IsSink(p)
    /\ s \in SwapStates => p.task_state \in SwapStates
    /\ s # "SNK_SWAP_SNK_DISABLE"

\* A state a timer may be set for.
Targets(p, s) ==
    /\ Suits(s, p.power_role)
    /\ s # "SNK_SWAP_COMPLETE"
    /\ s \in SwapStates => p.task_state \in SwapStates

AsksForSwap(p, q) ==
    \/ p.task_state = "SNK_READY" /\ Goes(p, q, "SNK_SWAP_INIT")
    \/ p.task_state = "SRC_READY" /\ Goes(p, q, "SRC_SWAP_INIT")

\* pd_soft_reset, or a Soft Reset received.
SoftResets(p, q) ==
    /\ p.task_state \notin Detached
    /\ \/ Goes(p, q, "SOFT_RESET")
       \/ Goes(p, q, ByRole(p, "SNK_DISCOVERY", "SRC_DISCOVERY"))

\* Reset by the partner, or from HARD_RESET_EXECUTE.
Recovers(p, q) ==
    /\ Frame(p, q) /\ q.last_state = "HARD_RESET_EXECUTE" /\ SameAgreement(p, q)
    /\ q.power_role = p.power_role /\ SameData(p, q)
    /\ Enters(p, q, ByRole(p, "SNK_HARD_RESET_RECOVER", "SRC_HARD_RESET_RECOVER"))
    /\ \/ q.pull = p.pull /\ p.task_state \notin BetweenPulls
       \/ q.pull = "RD" /\ (p.task_state \in BetweenPulls \/ p.last_state = "SNK_SWAP_STANDBY")
    /\ p.task_state = "HARD_RESET_EXECUTE" \/ "HARDRESET" \in p.ints

\* The button writes task_state and nothing else.
Pressed(p, q) ==
    /\ Frame(p, q) /\ SameLast(p, q) /\ SameAgreement(p, q) /\ SameRoles(p, q)
    /\ q.task_state = "SOFT_RESET" /\ q.rx_enable = p.rx_enable /\ SameTimer(p, q)

Agrees(p, q) ==
    /\ Frame(p, q) /\ Contracted(q) /\ SameRoles(p, q)
    /\ \/ ~IsSink(p) /\ p.task_state \notin Detached /\ Enters(p, q, "SRC_ACCEPTED")
       \/ p.task_state = "SNK_REQUESTED" /\ Enters(p, q, "SNK_TRANSITION")

BeginsSwap(p, q) ==
    /\ Frame(p, q) /\ ~Contracted(q) /\ SameRoles(p, q)
    /\ \/ p.task_state = "SRC_SWAP_INIT" /\ Enters(p, q, "SRC_SWAP_SNK_DISABLE")
       \/ p.task_state = "SNK_SWAP_INIT" /\ Enters(p, q, "SNK_SWAP_SNK_DISABLE")

SwapsData(p, q) ==
    /\ Frame(p, q) /\ SameAgreement(p, q)
    /\ q.power_role = p.power_role /\ q.pull = p.pull /\ HeaderTold(q)
    /\ p.task_state = "DR_SWAP" /\ Enters(p, q, ReadyReturnState(p))

\* drp_state TOGGLE_ON: the other role, the other resistor.
Toggles(p, q) ==
    /\ Frame(p, q) /\ SameAgreement(p, q) /\ SameData(p, q)
    /\ \/ /\ p.task_state = "SNK_DISCONNECTED" /\ Enters(p, q, "SRC_DISCONNECTED")
          /\ q.power_role = "SOURCE" /\ q.pull = "RP"
       \/ /\ p.task_state = "SRC_DISCONNECTED" /\ Enters(p, q, "SNK_DISCONNECTED")
          /\ q.power_role = "SINK" /\ q.pull = "RD"

Attaches(p, q) ==
    /\ Frame(p, q) /\ SameAgreement(p, q)
    /\ q.power_role = p.power_role /\ q.pull = p.pull /\ HeaderTold(q)
    /\ q.timeout = "off" /\ q.rx_enable = 1
    /\ \/ p.task_state = "SNK_DISCONNECTED_DEBOUNCE" /\ q.task_state = "SNK_DISCOVERY"
       \/ p.task_state = "SRC_DISCONNECTED_DEBOUNCE" /\ q.task_state = "SRC_STARTUP"

\* The handler of SNK_SWAP_STANDBY.
ShowsRp(p, q) ==
    /\ Frame(p, q) /\ SameAgreement(p, q)
    /\ q.power_role = p.power_role /\ q.pull = "RP" /\ SameData(p, q)
    /\ p.task_state = "SNK_SWAP_STANDBY" /\ Remains(p, q)
    /\ q.timeout = "armed" /\ q.timeout_state = "SNK_SWAP_COMPLETE"

\* The handler of SNK_SWAP_COMPLETE.
BecomesSource(p, q) ==
    /\ Frame(p, q) /\ SameAgreement(p, q)
    /\ p.task_state = "SNK_SWAP_COMPLETE"
    /\ \/ /\ q.power_role = "SOURCE" /\ q.pull = p.pull /\ HeaderTold(q)
          /\ Enters(p, q, "SRC_DISCOVERY")
       \/ /\ q.power_role = p.power_role /\ q.pull = "RD" /\ SameData(p, q)
          /\ Enters(p, q, "SNK_DISCONNECTED")

\* The handler of SRC_SWAP_STANDBY.
ShowsRd(p, q) ==
    /\ Frame(p, q) /\ SameAgreement(p, q)
    /\ q.power_role = "SINK" /\ q.pull = "RD" /\ SameData(p, q)
    /\ p.task_state = "SRC_SWAP_STANDBY" /\ Remains(p, q)
    /\ q.timeout = "armed" /\ q.timeout_state = "SNK_DISCONNECTED"

\* The partner's PS_RDY in SRC_SWAP_STANDBY.
BecomesSink(p, q) ==
    /\ Frame(p, q) /\ SameAgreement(p, q)
    /\ q.power_role = "SINK" /\ q.pull = "RD" /\ HeaderTold(q)
    /\ p.task_state = "SRC_SWAP_STANDBY" /\ Enters(p, q, "SNK_DISCOVERY")

Moves(p, q) ==
    \/ Stays(p, q)
    \/ \E s : Awaits(p, q, s) /\ Targets(p, s)
    \/ \E s : Goes(p, q, s) /\ Leads(p, s)

\* What a message does, and what the handler of a state does, besides a reset.
Hears(p, q) ==
    \/ Moves(p, q)
    \/ Agrees(p, q) \/ BeginsSwap(p, q) \/ SwapsData(p, q) \/ BecomesSink(p, q)
Does(p, q) ==
    \/ Moves(p, q)
    \/ Toggles(p, q) \/ Attaches(p, q)
    \/ ShowsRp(p, q) \/ ShowsRd(p, q) \/ BecomesSource(p, q)

\* Every step of the loop and of the application is one of these, or two when the
\* button is pressed.
Acts(p, q) ==
    \/ /\ SameLast(p, q)
       /\ \/ Hears(p, q)
          \/ AsksForSwap(p, q) /\ ~NoSwaps
          \/ SoftResets(p, q) /\ SoftResetsCome
          \/ Pressed(p, q) /\ MaxPresses # 0
    \/ q.last_state = p.task_state /\ Does(p, q)
    \/ Recovers(p, q)

----------------------------------------------------------------------------
\* The invariants.

Lawful(p) ==
    /\ HasPower(p)
    /\ p.power_role \in {"SINK", "SOURCE"}
    /\ Suits(p.task_state, p.power_role)
    /\ On(p) => Suits(p.timeout_state, p.power_role)
    /\ p.task_state = "SNK_SWAP_COMPLETE" => p.pull = "RP"
    /\ On(p) /\ p.timeout_state = "SNK_SWAP_COMPLETE" => p.pull = "RP"

\* The state whose handler ran last, and the role.
LastFits(p) ==
    /\ p.last_state = "SNK_SWAP_STANDBY" => IsSink(p)
    /\ p.task_state = "SRC_SWAP_STANDBY" /\ IsSink(p) => p.last_state = "SRC_SWAP_STANDBY"

NotSwapping(p) ==
    p.task_state \notin SwapStates /\ (On(p) => p.timeout_state \notin SwapStates)

\* What waits in the Rx FIFO was sent in this pass, by a partner whose role has not
\* changed since.
Heard ==
    /\ pc # "msg" => port.rx_fifo = << >>
    /\ Len(port.rx_fifo) <= 1
    /\ \A i \in DOMAIN port.rx_fifo : MayCome(port.rx_fifo[i])

RoleInv ==
    /\ Lawful(port) /\ LastFits(port)
    /\ pc # "state" => port.task_state # "SNK_SWAP_SNK_DISABLE"
    /\ \A i \in DOMAIN port.rx_fifo : port.rx_fifo[i] \in PartnerMsgs
    /\ InTurn => Heard
    /\ NoSwaps => NotSwapping(port)
    /\ ~PartnerResets => "HARDRESET" \notin port.ints

PullFits(p) ==
    p.task_state \notin BetweenPulls => p.pull = IF IsSink(p) THEN "RD" ELSE "RP"

\* The header may differ while disconnected, and while SRC_SWAP_STANDBY changes the role.
HeaderFits(p) ==
    \/ p.task_state \in Detached
    \/ p.task_state = "SRC_SWAP_STANDBY" /\ IsSink(p)
    \/ HeaderTold(p)

ReceiverFits(p) == p.task_state \notin Detached => p.rx_enable = 1

----------------------------------------------------------------------------
\* The acts compose with what stays.

LEMMA StaysHas ==
    ASSUME NEW p, NEW q, Stays(p, q)
    PROVE  /\ HasPower(q) /\ q.task_state = p.task_state /\ q.power_role = p.power_role
           /\ q.pull = p.pull /\ (IsSink(q) <=> IsSink(p))
  BY DEF Stays, Frame, Remains, SameRoles, IsSink

LEMMA PowerControl ==
    ASSUME NEW p, HasPower(p)
    PROVE  HasControl(p)
  BY DEF HasPower, HasControl

LEMMA FrameTwice ==
    ASSUME NEW p, NEW q, NEW r, Frame(p, q), Frame(q, r)
    PROVE  Frame(p, r)
  BY DEF Frame

LEMMA StaysTwice ==
    ASSUME NEW p, NEW q, NEW r, Stays(p, q), Stays(q, r)
    PROVE  Stays(p, r)
  <1>1. Frame(p, r) BY FrameTwice DEF Stays
  <1> QED BY <1>1 DEF Stays, SameAgreement, SameRoles, SameData, Remains, SameTimer

LEMMA StillTwice ==
    ASSUME NEW p, NEW q, NEW r, Still(p, q), Still(q, r)
    PROVE  Still(p, r)
  BY StaysTwice DEF Still, SameLast

LEMMA StaysThen ==
    ASSUME NEW p, NEW q, NEW r, NEW s, Stays(p, q)
    PROVE  /\ Awaits(q, r, s) => Awaits(p, r, s)
           /\ Goes(q, r, s) => Goes(p, r, s)
  <1>1. Frame(q, r) => Frame(p, r) BY FrameTwice DEF Stays
  <1> QED BY <1>1 DEF Stays, Awaits, Goes, SameAgreement, SameRoles, SameData, Remains, Enters

LEMMA ThenStays ==
    ASSUME NEW p, NEW q, NEW r, NEW s, Stays(q, r)
    PROVE  /\ Awaits(p, q, s) => Awaits(p, r, s)
           /\ Goes(p, q, s) => Goes(p, r, s)
  <1>1. Frame(p, q) => Frame(p, r) BY FrameTwice DEF Stays
  <1> QED BY <1>1 DEF Stays, Awaits, Goes, SameAgreement, SameRoles, SameData, Remains, Enters,
                      SameTimer

LEMMA AwaitsThen ==
    ASSUME NEW p, NEW q, NEW r, NEW s, NEW t, Awaits(p, q, s)
    PROVE  /\ Awaits(q, r, t) => Awaits(p, r, t)
           /\ Goes(q, r, t) => Goes(p, r, t)
  <1>1. Frame(q, r) => Frame(p, r) BY FrameTwice DEF Awaits
  <1> QED BY <1>1 DEF Awaits, Goes, SameAgreement, SameRoles, SameData, Remains, Enters

----------------------------------------------------------------------------
\* State changes and the driver.

LEMMA StaysSame ==
    ASSUME NEW p, HasPower(p)
    PROVE  Still(p, p)
  BY DEF Still, Stays, Frame, SameLast, SameAgreement, SameRoles, SameData, Remains, SameTimer

LEMMA GoesByState ==
    ASSUME NEW p, HasPower(p), NEW s
    PROVE  Goes(p, set_state(p, s), s)
  <1>1. Frame(p, set_state(p, s))
    BY DEF HasPower, Frame, set_state, tcpm_set_rx_enable
  <1>2. SameAgreement(p, set_state(p, s)) /\ SameRoles(p, set_state(p, s))
    BY DEF HasPower, SameAgreement, Contracted, SameRoles, SameData, set_state, tcpm_set_rx_enable
  <1>3. Enters(p, set_state(p, s), s)
    BY DEF HasPower, Enters, set_state, tcpm_set_rx_enable
  <1> QED BY <1>1, <1>2, <1>3 DEF Goes

LEMMA AwaitsByTimeout ==
    ASSUME NEW p, HasPower(p), NEW s
    PROVE  Awaits(p, set_state_timeout(p, s), s)
  BY DEF HasPower, Awaits, Frame, SameAgreement, Contracted, SameRoles, SameData, Remains,
         set_state_timeout

LEMMA FieldsStill ==
    ASSUME NEW p, HasPower(p), NEW v
    PROVE  /\ Still(p, [p EXCEPT !.msg_id = v]) /\ Still(p, [p EXCEPT !.tx_status = v])
           /\ Still(p, [p EXCEPT !.vdm_state = v]) /\ Still(p, [p EXCEPT !.vdm_timeout = v])
           /\ Still(p, [p EXCEPT !.new_power_request = v])
           /\ Still(p, [p EXCEPT !.prev_request_mv = v])
           /\ Still(p, [p EXCEPT !.supply_voltage = v])
           /\ Still(p, [p EXCEPT !.hard_reset_count = v])
           /\ Still(p, [p EXCEPT !.hard_reset_sent = v])
           /\ Still(p, [p EXCEPT !.caps_count = v]) /\ Still(p, [p EXCEPT !.snk_cap_count = v])
           /\ Still(p, [p EXCEPT !.cc_state = v]) /\ Still(p, [p EXCEPT !.vbus_off = v])
           /\ Still(p, [p EXCEPT !.next_role_swap = v]) /\ Still(p, [p EXCEPT !.drp_state = v])
           /\ Still(p, [p EXCEPT !.src_recover = v]) /\ Still(p, [p EXCEPT !.polarity = v])
           /\ Still(p, [p EXCEPT !.cap_index = v]) /\ Still(p, [p EXCEPT !.cap_max = v])
           /\ Still(p, [p EXCEPT !.cc_debounce = v]) /\ Still(p, [p EXCEPT !.tx = v])
           /\ Still(p, [p EXCEPT !.ints = {}]) /\ Still(p, [p EXCEPT !.rx_fifo = << >>])
  BY DEF HasPower, Still, Stays, Frame, SameLast, SameAgreement, Contracted, SameRoles, SameData,
         Remains, SameTimer

LEMMA FlagsStill ==
    ASSUME NEW p, HasPower(p), NEW fs, "EXPLICIT_CONTRACT" \notin fs
    PROVE  /\ Still(p, [p EXCEPT !.flags = @ \cup fs])
           /\ Still(p, [p EXCEPT !.flags = @ \ fs])
           /\ Still(p, SetFlags(p, fs))
  BY DEF HasPower, Still, Stays, Frame, SameLast, SameAgreement, Contracted, SameRoles, SameData,
         Remains, SameTimer, SetFlags

LEMMA ClearStill ==
    ASSUME NEW p, HasPower(p), NEW f, f # "EXPLICIT_CONTRACT"
    PROVE  Still(p, ClearFlag(p, f))
  BY DEF HasPower, Still, Stays, Frame, SameLast, SameAgreement, Contracted, SameRoles, SameData,
         Remains, SameTimer, ClearFlag

LEMMA DriverStill ==
    ASSUME NEW p, HasPower(p)
    PROVE  /\ \A what : Still(p, tcpm_transmit(p, what))
           /\ Still(p, fusb302_pd_reset(p))
  <1>1. \A what : \E v : tcpm_transmit(p, what) = [p EXCEPT !.tx = v]
    <2> TAKE what
    <2> DEFINE v == CASE what = "BIST" -> "none"
                      [] what # "BIST" /\ what \in SeenOnWire \cup {"HARD_RESET"} -> what
                      [] OTHER -> "SOP"
    <2>1. tcpm_transmit(p, what) = [p EXCEPT !.tx = v] BY DEF tcpm_transmit
    <2> HIDE DEF v
    <2> QED BY <2>1
  <1>2. Still(p, fusb302_pd_reset(p))
    BY DEF HasPower, Still, Stays, Frame, SameLast, SameAgreement, Contracted, SameRoles,
           SameData, Remains, SameTimer, fusb302_pd_reset
  <1>3. \A v : Still(p, [p EXCEPT !.tx = v]) BY FieldsStill
  <1> QED BY <1>1, <1>2, <1>3, Zenon

LEMMA SendsStill ==
    ASSUME NEW p, HasPower(p)
    PROVE  /\ \A what : Still(p, pd_transmit(p, what)) /\ Still(p, send_control(p, what))
           /\ Still(p, send_source_cap(p)) /\ Still(p, send_sink_cap(p))
           /\ Still(p, send_request(p))
  BY DriverStill DEF pd_transmit, send_control, send_source_cap, send_sink_cap, send_request

LEMMA StillHas ==
    ASSUME NEW p, NEW q, Still(p, q)
    PROVE  /\ HasPower(q) /\ q.task_state = p.task_state /\ q.power_role = p.power_role
           /\ q.pull = p.pull /\ (IsSink(q) <=> IsSink(p)) /\ q.last_state = p.last_state
           /\ Stays(p, q)
  BY StaysHas DEF Still, SameLast

\* set_state and set_state_timeout after assignments that leave things as they are.
LEMMA StillGoes ==
    ASSUME NEW p, NEW q, Still(p, q), NEW s
    PROVE  Goes(p, set_state(q, s), s) /\ Awaits(p, set_state_timeout(q, s), s)
  BY StillHas, GoesByState, AwaitsByTimeout, StaysThen

----------------------------------------------------------------------------
\* The states, and where a port may go from them.

LEMMA StageFacts ==
    /\ \A s \in Detached : Stage(s) = "detached"
    /\ \A s \in {"SNK_DISCOVERY", "SRC_STARTUP", "SRC_DISCOVERY"} : Stage(s) = "default"
    /\ \A s \in {"SNK_REQUESTED", "SRC_NEGOCIATE"} : Stage(s) = "offer"
    /\ \A s \in {"SNK_TRANSITION", "SRC_ACCEPTED"} : Stage(s) = "agreed"
    /\ \A s \in {"SRC_POWERED", "SRC_TRANSITION"} : Stage(s) = "moving"
    /\ \A s \in PowerSwapping : Stage(s) = "swapping"
    /\ \A s \in {"SOFT_RESET", "HARD_RESET_SEND", "HARD_RESET_EXECUTE",
                 "SNK_HARD_RESET_RECOVER", "SRC_HARD_RESET_RECOVER"} : Stage(s) = "recovery"
    /\ \A s \in {"SNK_READY", "SRC_READY", "SRC_GET_SINK_CAP", "DR_SWAP", "SNK_SWAP_INIT",
                 "SRC_SWAP_INIT"} : Stage(s) = "settled"
  BY DEF Stage, Detached, Disconnected, Debouncing, PowerSwapping

\* Only these states are detached, at default power, moving power or swapping, for a port
\* whose state suits its role.
LEMMA SuitsFacts ==
    ASSUME NEW s, NEW role \in PowerRoles, Suits(s, role)
    PROVE  /\ s \notin {"DISABLED", "SUSPENDED"}
           /\ s \in SnkStates => role = "SINK"
           /\ s \in SrcStates => role = "SOURCE"
           /\ s \in BetweenPulls => role = "SINK"
           /\ Stage(s) = "detached" => s \in Detached
           /\ Stage(s) = "default" => s \in {"SNK_DISCOVERY", "SRC_STARTUP", "SRC_DISCOVERY"}
           /\ Stage(s) = "moving" => s \in {"SRC_POWERED", "SRC_TRANSITION"}
           /\ Stage(s) = "swapping" => s \in PowerSwapping
           /\ Stage(s) \in {"detached", "default", "offer", "agreed", "moving", "settled",
                            "swapping", "recovery"}
  BY DEF Suits, PowerRoles, SnkStates, SrcStates, Unbound, BetweenPulls, Stage, Detached,
         Disconnected, Debouncing, PowerSwapping

\* States that a port outside a swap may go to, or wait for, if they suit its role.
Asides == {"SOFT_RESET", "HARD_RESET_SEND", "HARD_RESET_EXECUTE"}

LEMMA LeadsAside ==
    ASSUME NEW p, Lawful(p), NEW s \in Asides \cup Disconnected, Suits(s, p.power_role),
           p.task_state \notin BetweenPulls,
           p.task_state \in Detached => s \in Disconnected,
           p.task_state = "SRC_SWAP_STANDBY" => s \in Disconnected
    PROVE  Leads(p, s) /\ Targets(p, s)
  <1>1. Stage(s) \in {"recovery", "detached"}
    BY StageFacts DEF Asides, Detached
  <1>2. s \notin SwapStates \cup BetweenPulls \cup {"SNK_SWAP_SNK_DISABLE", "SRC_SWAP_STANDBY"}
        /\ (s \in Disconnected => s \in Detached)
    BY DEF Asides, Disconnected, SwapStates, PowerSwapping, BetweenPulls, Detached
  <1> QED BY <1>1, <1>2 DEF Leads, Targets, StageStep, BetweenPulls

\* The other moves of the handlers, the messages and the timers.
Paths ==
    {<<"SNK_DISCONNECTED", "SNK_DISCONNECTED_DEBOUNCE">>,
     <<"SNK_DISCONNECTED_DEBOUNCE", "SNK_DISCONNECTED">>,
     <<"SNK_HARD_RESET_RECOVER", "SNK_DISCOVERY">>, <<"SOFT_RESET", "SNK_DISCOVERY">>,
     <<"SNK_DISCOVERY", "SNK_REQUESTED">>, <<"SNK_TRANSITION", "SNK_REQUESTED">>,
     <<"SNK_READY", "SNK_REQUESTED">>, <<"SNK_REQUESTED", "SNK_DISCOVERY">>,
     <<"SNK_REQUESTED", "SNK_READY">>, <<"DR_SWAP", "SNK_READY">>,
     <<"SNK_SWAP_INIT", "SNK_READY">>, <<"SNK_SWAP_SNK_DISABLE", "SNK_SWAP_SRC_DISABLE">>,
     <<"SNK_SWAP_SRC_DISABLE", "SNK_SWAP_STANDBY">>,
     <<"SNK_SWAP_STANDBY", "SNK_SWAP_COMPLETE">>,
     <<"SRC_DISCONNECTED", "SRC_DISCONNECTED_DEBOUNCE">>,
     <<"SRC_DISCONNECTED_DEBOUNCE", "SRC_DISCONNECTED">>,
     <<"SRC_HARD_RESET_RECOVER", "SRC_STARTUP">>, <<"SRC_STARTUP", "SRC_DISCOVERY">>,
     <<"SOFT_RESET", "SRC_DISCOVERY">>, <<"SRC_DISCOVERY", "SRC_NEGOCIATE">>,
     <<"SRC_ACCEPTED", "SRC_POWERED">>, <<"SRC_POWERED", "SRC_TRANSITION">>,
     <<"SRC_TRANSITION", "SRC_READY">>, <<"SRC_READY", "SRC_GET_SINK_CAP">>,
     <<"SRC_GET_SINK_CAP", "SRC_READY">>, <<"DR_SWAP", "SRC_READY">>,
     <<"SRC_SWAP_INIT", "SRC_READY">>, <<"SRC_SWAP_SNK_DISABLE", "SRC_SWAP_SRC_DISABLE">>,
     <<"SRC_SWAP_SRC_DISABLE", "SRC_SWAP_STANDBY">>}

LEMMA PathStages ==
    ASSUME NEW a, NEW b, <<a, b>> \in Paths, NEW role \in PowerRoles, Suits(a, role)
    PROVE  StageStep(Stage(a), Stage(b), role)
  <1>1. \/ a \in Detached /\ b \in Detached
        \/ b \in {"SNK_DISCOVERY", "SRC_STARTUP", "SRC_DISCOVERY"}
        \/ a \in {"SNK_DISCOVERY", "SRC_DISCOVERY"} /\ b \in {"SNK_REQUESTED", "SRC_NEGOCIATE"}
        \/ a \in {"SNK_TRANSITION", "SNK_READY"} /\ b = "SNK_REQUESTED"
        \/ a = "SNK_REQUESTED" /\ b = "SNK_READY"
        \/ a = "SRC_TRANSITION" /\ b = "SRC_READY"
        \/ a \in {"SRC_GET_SINK_CAP", "DR_SWAP", "SNK_SWAP_INIT", "SRC_SWAP_INIT", "SRC_READY"}
              /\ b \in {"SNK_READY", "SRC_READY", "SRC_GET_SINK_CAP"}
        \/ a \in PowerSwapping /\ b \in PowerSwapping
        \/ a = "SRC_ACCEPTED" /\ b = "SRC_POWERED"
        \/ a = "SRC_POWERED" /\ b = "SRC_TRANSITION"
    BY DEF Paths, Detached, Disconnected, Debouncing, PowerSwapping
  <1>2. /\ a \in {"SNK_TRANSITION", "SNK_READY"} => role = "SINK"
        /\ a \in {"SRC_TRANSITION", "SRC_ACCEPTED"} => role = "SOURCE"
    BY SuitsFacts DEF SnkStates, SrcStates
  <1> QED BY <1>1, <1>2, StageFacts DEF StageStep

LEMMA LeadsPath ==
    ASSUME NEW p, Lawful(p), NEW s, <<p.task_state, s>> \in Paths, Suits(s, p.power_role),
           s = "SNK_SWAP_COMPLETE" => p.pull = "RP"
    PROVE  Leads(p, s)
  <1>1. StageStep(Stage(p.task_state), Stage(s), p.power_role) BY PathStages DEF Lawful, PowerRoles
  <1>2. /\ p.task_state \in Detached => s \in Detached
        /\ p.task_state \in BetweenPulls => s \in BetweenPulls
        /\ p.task_state # "SRC_SWAP_STANDBY"
        /\ s \in SwapStates => p.task_state \in SwapStates
        /\ s # "SNK_SWAP_SNK_DISABLE"
    BY DEF Paths, Detached, Disconnected, Debouncing, BetweenPulls, SwapStates, PowerSwapping
  <1>3. s = "SRC_SWAP_STANDBY" => ~IsSink(p)
    <2>1. s = "SRC_SWAP_STANDBY" => p.task_state = "SRC_SWAP_SRC_DISABLE" BY DEF Paths
    <2>2. "SRC_SWAP_SRC_DISABLE" \in SrcStates BY DEF SrcStates
    <2> QED BY <2>1, <2>2, SuitsFacts DEF Lawful, PowerRoles, IsSink
  <1> QED BY <1>1, <1>2, <1>3 DEF Leads

\* A state timer leads to a state that suits the role, but for the swap states that
\* change it.
LEMMA TargetSuits ==
    ASSUME NEW s, s \notin {"DR_SWAP", "SRC_SWAP_STANDBY"}, NEW role \in PowerRoles,
           Suits(s, role), NEW t \in TimerTargets(s)
    PROVE  Suits(t, role)
  BY DEF TimerTargets, Suits, PowerRoles, SnkStates, SrcStates, Unbound

LEMMA TargetFacts ==
    ASSUME NEW s, NEW t \in TimerTargets(s)
    PROVE  /\ t \in Asides \cup Disconnected \/ <<s, t>> \in Paths
           /\ t \in SwapStates => s \in SwapStates
           /\ t = "SNK_SWAP_COMPLETE" => s = "SNK_SWAP_STANDBY"
           /\ s \in BetweenPulls => t = "SNK_SWAP_COMPLETE"
           /\ s \notin Detached
           /\ s = "SRC_SWAP_STANDBY" => t \in Disconnected
  BY DEF TimerTargets, Asides, Disconnected, Debouncing, Paths, SwapStates, PowerSwapping,
         BetweenPulls, Detached

\* The timer that is running leads where the state may go.
LEMMA TimerLeads ==
    ASSUME NEW p, Lawful(p), On(p), p.timeout_state \in TimerTargets(p.task_state)
    PROVE  Leads(p, p.timeout_state)
  <1> DEFINE t == p.timeout_state
  <1>1. Suits(t, p.power_role) /\ (t = "SNK_SWAP_COMPLETE" => p.pull = "RP") BY DEF Lawful
  <1>2. CASE <<p.task_state, t>> \in Paths BY <1>1, <1>2, LeadsPath
  <1>3. CASE <<p.task_state, t>> \notin Paths
    <2>1. t \in Asides \cup Disconnected /\ p.task_state \notin Detached
          /\ (p.task_state = "SRC_SWAP_STANDBY" => t \in Disconnected)
      BY <1>3, TargetFacts
    <2>2. p.task_state \notin BetweenPulls
      <3>1. "SNK_SWAP_COMPLETE" \notin Asides \cup Disconnected BY DEF Asides, Disconnected
      <3> QED BY <2>1, <3>1, TargetFacts
    <2> QED BY <1>1, <2>1, <2>2, LeadsAside
  <1> QED BY <1>2, <1>3

LEMMA PathMoves ==
    ASSUME NEW p, Lawful(p), NEW q, Still(p, q), NEW s, <<p.task_state, s>> \in Paths,
           Suits(s, p.power_role), s # "SNK_SWAP_COMPLETE"
    PROVE  Moves(p, set_state(q, s))
  BY LeadsPath, StillGoes DEF Moves

LEMMA AsideMoves ==
    ASSUME NEW p, Lawful(p), NEW q, Still(p, q), NEW s \in Asides \cup Disconnected,
           Suits(s, p.power_role), p.task_state \notin BetweenPulls,
           p.task_state \in Detached => s \in Disconnected,
           p.task_state = "SRC_SWAP_STANDBY" => s \in Disconnected
    PROVE  Moves(p, set_state(q, s))
  BY LeadsAside, StillGoes DEF Moves

LEMMA StillMoves ==
    ASSUME NEW p, NEW q, Still(p, q)
    PROVE  Moves(p, q)
  BY DEF Still, Moves

LEMMA MovesThen ==
    ASSUME NEW p, NEW q, NEW r, Moves(p, q), Stays(q, r)
    PROVE  Moves(p, r)
  <1>1. CASE Stays(p, q) BY <1>1, StaysTwice DEF Moves
  <1>2. ASSUME NEW s, Awaits(p, q, s), Targets(p, s) PROVE Moves(p, r)
    BY <1>2, ThenStays DEF Moves
  <1>3. ASSUME NEW s, Goes(p, q, s), Leads(p, s) PROVE Moves(p, r)
    BY <1>3, ThenStays DEF Moves
  <1> QED BY <1>1, <1>2, <1>3 DEF Moves

LEMMA LawfulFacts ==
    ASSUME NEW p, Lawful(p)
    PROVE  /\ HasPower(p) /\ p.power_role \in PowerRoles
           /\ p.task_state \notin {"DISABLED", "SUSPENDED"}
           /\ p.task_state \in SnkStates => IsSink(p)
           /\ p.task_state \in SrcStates => ~IsSink(p)
           /\ p.task_state \in BetweenPulls => IsSink(p)
           /\ pd_is_connected(p) <=> p.task_state \notin Detached
           /\ \A s : Suits(s, p.power_role) <=>
                       s \in Unbound \cup (IF IsSink(p) THEN SnkStates ELSE SrcStates)
  <1>1. HasPower(p) /\ p.power_role \in PowerRoles /\ Suits(p.task_state, p.power_role)
    BY DEF Lawful, PowerRoles
  <1>2. IsSink(p) <=> p.power_role # "SOURCE" BY <1>1 DEF IsSink, PowerRoles
  <1>3. /\ p.task_state \in SnkStates => IsSink(p)
        /\ p.task_state \in SrcStates => ~IsSink(p)
        /\ p.task_state \in BetweenPulls => IsSink(p)
        /\ p.task_state \notin {"DISABLED", "SUSPENDED"}
    BY <1>1, <1>2, SuitsFacts DEF IsSink
  <1>4. pd_is_connected(p) <=> p.task_state \notin Detached
    BY <1>3 DEF pd_is_connected, ByRole, Detached, Disconnected, Debouncing, SnkStates, SrcStates
  <1>5. \A s : Suits(s, p.power_role) <=>
                 s \in Unbound \cup (IF IsSink(p) THEN SnkStates ELSE SrcStates)
    BY DEF Suits, IsSink
  <1> QED BY <1>1, <1>3, <1>4, <1>5

----------------------------------------------------------------------------
\* Messages.

\* The port takes the message where a conforming partner, heard in turn, sends it.
CanTake(p, m) ==
    /\ Lawful(p)
    /\ p.task_state # "SNK_SWAP_SNK_DISABLE"
    /\ m.type = "REQUEST" => ~IsSink(p)
    /\ m.type = "PS_RDY" =>
          /\ p.task_state # "SNK_SWAP_COMPLETE"
          /\ p.task_state = "SRC_SWAP_STANDBY" => p.pull = "RD"

LEMMA PdoFlagsStill ==
    ASSUME NEW p, HasPower(p), NEW pdo0 \in Pdo0s
    PROVE  Still(p, pd_update_pdo_flags(p, pdo0))
  <1> DEFINE q == [p EXCEPT !.flags = p.flags \ PartnerFlags]
             r == [q EXCEPT !.flags = q.flags \cup pdo0.flags]
  <1>1. "EXPLICIT_CONTRACT" \notin pdo0.flags /\ "EXPLICIT_CONTRACT" \notin PartnerFlags
    BY DEF Pdo0s, PartnerFlags
  <1>2. [p EXCEPT !.flags = (@ \ PartnerFlags) \cup pdo0.flags] = r BY DEF HasPower
  <1>3. Still(p, q) /\ HasPower(q)
    <2>1. Still(p, [p EXCEPT !.flags = @ \ PartnerFlags]) BY <1>1, FlagsStill
    <2> QED BY <2>1, StillHas
  <1> HIDE DEF q
  <1>4. Still(q, r) BY <1>1, <1>3, FlagsStill
  <1> HIDE DEF r
  <1> QED BY <1>2, <1>3, <1>4, StillTwice, StaysSame DEF pd_update_pdo_flags

LEMMA CapsStill ==
    ASSUME NEW p, HasPower(p), NEW mv
    PROVE  /\ Still(p, pd_process_source_cap(p, mv))
           /\ Still(p, pd_process_source_cap_callback(p, mv))
  <1>1. Still(p, pd_process_source_cap_callback(p, mv))
    BY FieldsStill DEF pd_process_source_cap_callback
  <1>2. \A c, a : Still(p, [p EXCEPT !.src_cap_cnt = c, !.src_caps = a])
    BY DEF HasPower, Still, Stays, Frame, SameLast, SameAgreement, Contracted, SameRoles,
           SameData, Remains, SameTimer
  <1> DEFINE a == [i \in DOMAIN p.src_caps |-> IF i < Len(mv) THEN mv[i + 1] ELSE p.src_caps[i]]
             c == Len(mv)
  <1>3. pd_process_source_cap(p, mv) = [p EXCEPT !.src_cap_cnt = c, !.src_caps = a]
    BY DEF pd_process_source_cap
  <1> HIDE DEF a, c
  <1>4. Still(p, [p EXCEPT !.src_cap_cnt = c, !.src_caps = a]) BY <1>2
  <1> QED BY <1>1, <1>3, <1>4, Zenon

\* A Request is sent from SNK_READY too; one that was not acknowledged changes nothing.
LEMMA RequestSends ==
    ASSUME NEW p, HasPower(p), NEW always
    PROVE  \/ Still(p, pd_send_request_msg(p, always))
           \/ Goes(p, pd_send_request_msg(p, always), "SNK_REQUESTED")
              /\ RequestMsgOk(p, always)
  <1> DEFINE q == [p EXCEPT !.new_power_request = 0]
             u == [q EXCEPT !.supply_voltage = pd_build_request(p)]
             v == [u EXCEPT !.prev_request_mv = pd_build_request(p)]
             r == send_request(v)
  <1>1. Still(p, q) /\ HasPower(q) BY FieldsStill, StillHas
  <1>2. pd_send_request_msg(p, always) =
          CASE SameRequest(p, always) -> q
            [] ~SameRequest(p, always) /\ TransmitOk(p) -> set_state(r, "SNK_REQUESTED")
            [] OTHER -> r
    BY Zenon DEF pd_send_request_msg
  <1> HIDE DEF q
  <1>3. Still(p, u) /\ HasPower(u) BY <1>1, FieldsStill, StillTwice, StillHas
  <1> HIDE DEF u
  <1>4. Still(p, v) /\ HasPower(v) BY <1>3, FieldsStill, StillTwice, StillHas
  <1> HIDE DEF v
  <1>5. Still(p, r) BY <1>4, SendsStill, StillTwice
  <1> HIDE DEF r
  <1>6. Goes(p, set_state(r, "SNK_REQUESTED"), "SNK_REQUESTED") BY <1>5, StillGoes
  <1> QED BY <1>1, <1>2, <1>5, <1>6, Zenon DEF RequestMsgOk

LEMMA VdmStill ==
    ASSUME NEW p, HasPower(p)
    PROVE  /\ \A cmdt : Still(p, handle_vdm_request(p, cmdt))
           /\ Still(p, queue_vdm(p)) /\ Still(p, pd_send_vdm(p))
           /\ Still(p, pd_vdm_send_state_machine(p))
  <1>1. ASSUME NEW q, HasPower(q), NEW v, NEW w
        PROVE  /\ Still(q, [q EXCEPT !.vdm_timeout = w, !.vdm_state = v])
               /\ Still(q, [q EXCEPT !.vdm_state = v, !.vdm_timeout = w])
    BY <1>1 DEF HasPower, Still, Stays, Frame, SameLast, SameAgreement, Contracted, SameRoles,
                SameData, Remains, SameTimer
  <1>2. \A cmdt : Still(p, handle_vdm_request(p, cmdt))
    BY <1>1, FieldsStill, StaysSame DEF handle_vdm_request
  <1>3. Still(p, queue_vdm(p)) /\ Still(p, pd_send_vdm(p))
    BY FieldsStill DEF queue_vdm, pd_send_vdm
  <1>4. Still(p, pd_vdm_send_state_machine(p))
    <2> DEFINE q == pd_transmit(p, "VENDOR_DEF")
    <2>1. Still(p, q) /\ HasPower(q) BY SendsStill, StillHas
    <2> HIDE DEF q
    <2>2. /\ Still(p, [q EXCEPT !.vdm_state = "BUSY", !.vdm_timeout = "armed"])
          /\ Still(p, [q EXCEPT !.vdm_state = "ERR_SEND"])
      BY <1>1, <2>1, FieldsStill, StillTwice
    <2>3. Still(p, [p EXCEPT !.vdm_state = "ERR_BUSY"])
          /\ Still(p, [p EXCEPT !.vdm_state = "ERR_TMOUT"])
      BY FieldsStill
    <2> QED BY <1>3, <2>2, <2>3, StaysSame, Zenon DEF pd_vdm_send_state_machine, q
  <1> QED BY <1>2, <1>3, <1>4

LEMMA SourceCapHeard ==
    ASSUME NEW p, Lawful(p), NEW m \in Messages, m.type = "SOURCE_CAP"
    PROVE  Moves(p, handle_source_cap(p, m))
  <1> DEFINE p1 == [p EXCEPT !.flags = p.flags \cup {"PREVIOUS_PD_CONN"}]
             q == pd_update_pdo_flags(p1, m.pdo0)
             c == pd_process_source_cap(q, m.mv)
             r == pd_send_request_msg(c, TRUE)
             t == pd_process_source_cap_callback(r, m.mv)
  <1>0. HasPower(p) BY DEF Lawful
  <1>1. m.pdo0 \in Pdo0s BY MessageFields
  <1>2. Still(p, p1) /\ HasPower(p1) BY <1>0, FlagsStill, StillHas
  <1>3. p1 = [p EXCEPT !.flags = @ \cup {"PREVIOUS_PD_CONN"}] OBVIOUS
  <1> HIDE DEF p1
  <1>4. Still(p, q) /\ HasPower(q) BY <1>1, <1>2, StillHas, StillTwice, PdoFlagsStill
  <1> HIDE DEF q
  <1>5. Still(p, c) /\ HasPower(c) BY <1>4, StillHas, StillTwice, CapsStill
  <1> HIDE DEF c
  <1>6. Still(p, r) \/ Goes(p, r, "SNK_REQUESTED")
    BY <1>5, StillHas, StillTwice, StaysThen, RequestSends
  <1> HIDE DEF r
  <1>7. HasPower(r) BY <1>6, StillHas DEF Goes, Frame
  <1>8. Stays(r, t) BY <1>7, CapsStill, StillHas
  <1> HIDE DEF t
  <1>9. ASSUME p.task_state \in {"SNK_DISCOVERY", "SNK_TRANSITION", "SNK_READY"}
        PROVE  Moves(p, t)
    <2>1. p.task_state \in SnkStates BY <1>9 DEF SnkStates
    <2>2. IsSink(p) BY <2>1, LawfulFacts
    <2>3. Suits("SNK_REQUESTED", p.power_role) BY <2>2, LawfulFacts DEF SnkStates
    <2>4. <<p.task_state, "SNK_REQUESTED">> \in Paths BY <1>9 DEF Paths
    <2>5. Leads(p, "SNK_REQUESTED") BY <2>3, <2>4, LeadsPath
    <2>6. Moves(p, r) BY <1>6, <2>5, StillMoves DEF Moves
    <2> QED BY <1>8, <2>6, MovesThen
  <1>10. Moves(p, p) BY <1>0, StaysSame, StillMoves
  <1> QED BY <1>3, <1>9, <1>10 DEF handle_source_cap, p1, q, c, r, t

LEMMA RdoHeard ==
    ASSUME NEW p, Lawful(p), p.task_state \notin Detached, ~IsSink(p), NEW m
    PROVE  Moves(p, handle_data_rdo(p, m)) \/ Agrees(p, handle_data_rdo(p, m))
  <1> DEFINE q == send_control(p, "ACCEPT")
             c == [q EXCEPT !.flags = q.flags \cup {"EXPLICIT_CONTRACT"}]
             r == set_state(c, "SRC_ACCEPTED")
             j == send_control(p, "REJECT")
  <1>0. HasPower(p) BY DEF Lawful
  <1>1. Still(p, q) /\ HasPower(q) BY <1>0, SendsStill, StillHas
  <1> HIDE DEF q
  <1>2. /\ HasPower(c) /\ Contracted(c) /\ c.task_state = q.task_state
        /\ c.rx_enable = q.rx_enable /\ SameRoles(q, c) /\ Frame(q, c)
    BY <1>1 DEF HasPower, Contracted, SameRoles, SameData, Frame
  <1>3. c = [q EXCEPT !.flags = @ \cup {"EXPLICIT_CONTRACT"}] OBVIOUS
  <1> HIDE DEF c
  <1>4. Goes(c, r, "SRC_ACCEPTED") BY <1>2, GoesByState
  <1> HIDE DEF r
  <1>5. Agrees(p, r)
    <2>1. Frame(p, r) BY <1>1, <1>2, <1>4, FrameTwice DEF Still, Stays, Goes
    <2>2. Contracted(r) BY <1>2, <1>4 DEF Goes, SameAgreement
    <2>3. SameRoles(p, r)
      BY <1>1, <1>2, <1>4 DEF Still, Stays, Goes, SameRoles, SameData
    <2>4. Enters(p, r, "SRC_ACCEPTED")
      BY <1>1, <1>2, <1>4 DEF Still, Stays, Remains, Goes, Enters
    <2> QED BY <2>1, <2>2, <2>3, <2>4 DEF Agrees
  <1>6. Still(p, j) BY <1>0, SendsStill
  <1> HIDE DEF j
  <1>7. Moves(p, set_state(j, "SRC_READY"))
    <2>1. Leads(p, "SRC_READY")
      <3>1. Suits("SRC_READY", p.power_role) BY LawfulFacts DEF SrcStates
      <3>2. Stage("SRC_READY") = "settled" BY StageFacts
      <3>3. Stage(p.task_state) # "detached" BY SuitsFacts DEF Lawful, PowerRoles
      <3>4. p.power_role = "SOURCE" BY LawfulFacts DEF IsSink, PowerRoles
      <3>5. p.task_state \notin BetweenPulls BY LawfulFacts
      <3>6. "SRC_READY" \notin SwapStates BY DEF SwapStates, PowerSwapping
      <3> QED BY <3>1, <3>2, <3>3, <3>4, <3>5, <3>6 DEF Leads, StageStep
    <2> QED BY <1>6, <2>1, StillGoes DEF Moves
  <1>8. Moves(p, q) BY <1>1, StillMoves
  <1> QED BY <1>3, <1>5, <1>7, <1>8, Zenon DEF handle_data_rdo, q, c, r, j

LEMMA BistHeard ==
    ASSUME NEW p, Lawful(p), NEW m
    PROVE  Moves(p, handle_bist(p, m))
  <1> DEFINE q == pd_transmit(p, "BIST")
             s == ByRole(p, "SNK_DISCONNECTED", "SRC_DISCONNECTED")
  <1>0. HasPower(p) BY DEF Lawful
  <1>1. Still(p, q) /\ Moves(p, p) BY <1>0, SendsStill, StaysSame, StillMoves
  <1>2. s \in Disconnected /\ Suits(s, p.power_role)
    BY LawfulFacts DEF ByRole, Disconnected, SnkStates, SrcStates
  <1>3. p.task_state = ReadyReturnState(p) =>
            p.task_state \notin BetweenPulls /\ p.task_state # "SRC_SWAP_STANDBY"
    BY DEF ReadyReturnState, ByRole, BetweenPulls
  <1> HIDE DEF q, s
  <1>4. p.task_state = ReadyReturnState(p) => Moves(p, set_state(q, s))
    BY <1>1, <1>2, <1>3, AsideMoves
  <1> QED BY <1>1, <1>4, Zenon DEF handle_bist, q, s

LEMMA SinkCapHeard ==
    ASSUME NEW p, Lawful(p), NEW m \in Messages, m.type = "SINK_CAP"
    PROVE  Moves(p, handle_sink_cap(p, m))
  <1> DEFINE p1 == [p EXCEPT !.flags = @ \cup {"SNK_CAP_RECVD"}]
             q == pd_update_pdo_flags(p1, m.pdo0)
  <1>0. HasPower(p) BY DEF Lawful
  <1>1. Still(p, p1) /\ HasPower(p1)
    <2>1. Still(p, p1) BY <1>0, FlagsStill
    <2> QED BY <2>1, StillHas
  <1> HIDE DEF p1
  <1>2. Still(p, q) BY <1>1, StillTwice, MessageFields, PdoFlagsStill
  <1> HIDE DEF q
  <1>3. ASSUME p.task_state = "SRC_GET_SINK_CAP" PROVE Moves(p, set_state(q, "SRC_READY"))
    <2>1. p.task_state \in SrcStates BY <1>3 DEF SrcStates
    <2>2. Suits("SRC_READY", p.power_role) BY <2>1, LawfulFacts DEF SrcStates
    <2>3. <<p.task_state, "SRC_READY">> \in Paths BY <1>3 DEF Paths
    <2> QED BY <1>2, <2>2, <2>3, PathMoves
  <1> QED BY <1>2, <1>3, StillMoves DEF handle_sink_cap, q, p1

LEMMA DataHeard ==
    ASSUME NEW p, NEW m \in Messages, m.type \in DataTypes, CanTake(p, m),
           p.task_state \notin Detached
    PROVE  Hears(p, handle_data_request(p, m))
  <1>1. Lawful(p) /\ HasPower(p) BY DEF CanTake, Lawful
  <1>2. \A cmdt : Moves(p, handle_vdm_request(p, cmdt)) BY <1>1, VdmStill, StillMoves
  <1>3. m.type = "SOURCE_CAP" => Moves(p, handle_source_cap(p, m)) BY <1>1, SourceCapHeard
  <1>4. m.type = "REQUEST" => Hears(p, handle_data_rdo(p, m))
    BY <1>1, RdoHeard DEF CanTake, Hears
  <1>5. Moves(p, handle_bist(p, m)) BY <1>1, BistHeard
  <1>6. m.type = "SINK_CAP" => Moves(p, handle_sink_cap(p, m)) BY <1>1, SinkCapHeard
  <1> QED BY <1>2, <1>3, <1>4, <1>5, <1>6 DEF handle_data_request, DataTypes, Hears

LEMMA GetSourceCapHeard ==
    ASSUME NEW p, Lawful(p)
    PROVE  Moves(p, handle_get_source_cap(p))
  <1> DEFINE q == send_source_cap(p)
  <1>1. Still(p, q) BY SendsStill DEF Lawful
  <1> HIDE DEF q
  <1>2. ASSUME p.task_state = "SRC_DISCOVERY" PROVE Moves(p, set_state(q, "SRC_NEGOCIATE"))
    <2>1. p.task_state \in SrcStates BY <1>2 DEF SrcStates
    <2>2. Suits("SRC_NEGOCIATE", p.power_role) BY <2>1, LawfulFacts DEF SrcStates
    <2>3. <<p.task_state, "SRC_NEGOCIATE">> \in Paths BY <1>2 DEF Paths
    <2> QED BY <1>1, <2>2, <2>3, PathMoves
  <1> QED BY <1>1, <1>2, StillMoves DEF handle_get_source_cap, q

LEMMA PsRdyHeard ==
    ASSUME NEW p, Lawful(p), p.task_state \notin Detached,
           p.task_state \notin {"SNK_SWAP_SNK_DISABLE", "SNK_SWAP_COMPLETE"},
           p.task_state = "SRC_SWAP_STANDBY" => p.pull = "RD"
    PROVE  Moves(p, handle_ps_rdy(p)) \/ BecomesSink(p, handle_ps_rdy(p))
  <1>0. HasPower(p) /\ Still(p, p) /\ Moves(p, p) BY StaysSame, StillMoves DEF Lawful
  <1>1. ASSUME p.task_state = "SNK_SWAP_SRC_DISABLE"
        PROVE  Moves(p, set_state(p, "SNK_SWAP_STANDBY"))
    <2>1. p.task_state \in SnkStates BY <1>1 DEF SnkStates
    <2>2. Suits("SNK_SWAP_STANDBY", p.power_role) BY <2>1, LawfulFacts DEF SnkStates
    <2>3. <<p.task_state, "SNK_SWAP_STANDBY">> \in Paths BY <1>1 DEF Paths
    <2> QED BY <1>0, <2>2, <2>3, PathMoves
  <1>2. ASSUME p.task_state = "SRC_SWAP_STANDBY"
        PROVE  BecomesSink(p, set_state(pd_update_roles([p EXCEPT !.msg_id = 0,
                                                                  !.power_role = "SINK"]),
                                        "SNK_DISCOVERY"))
    <2> DEFINE q == pd_update_roles([p EXCEPT !.msg_id = 0, !.power_role = "SINK"])
               r == set_state(q, "SNK_DISCOVERY")
    <2>1. /\ Frame(p, q) /\ SameAgreement(p, q) /\ HeaderTold(q) /\ q.power_role = "SINK"
          /\ q.pull = p.pull /\ q.task_state = p.task_state /\ q.rx_enable = p.rx_enable
      BY <1>0 DEF HasPower, Frame, SameAgreement, Contracted, HeaderTold, pd_update_roles,
                  tcpm_set_msg_header
    <2> HIDE DEF q
    <2>2. Goes(q, r, "SNK_DISCOVERY") BY <2>1, GoesByState DEF Frame
    <2> HIDE DEF r
    <2>3. Frame(p, r) BY <2>1, <2>2, FrameTwice DEF Goes
    <2>4. BecomesSink(p, r)
      BY <1>2, <2>1, <2>2, <2>3 DEF BecomesSink, Goes, SameAgreement, SameRoles, SameData,
                                    HeaderTold, Enters
    <2> QED BY <2>4 DEF q, r
  <1>3. ASSUME p.task_state = "SNK_DISCOVERY" PROVE Moves(p, set_state(p, "HARD_RESET_SEND"))
    <2>1. "HARD_RESET_SEND" \in Asides /\ p.task_state \notin BetweenPulls
      BY <1>3 DEF Asides, BetweenPulls
    <2>2. Suits("HARD_RESET_SEND", p.power_role) BY DEF Suits, Unbound
    <2> QED BY <1>0, <1>3, <2>1, <2>2, AsideMoves
  <1>4. ASSUME IsSink(p),
               p.task_state \notin {"SNK_SWAP_SRC_DISABLE", "SRC_SWAP_STANDBY",
                                    "SNK_SWAP_STANDBY", "SNK_DISCOVERY"}
        PROVE  Moves(p, set_state(p, "SNK_READY"))
    <2>1. Suits("SNK_READY", p.power_role) BY <1>4, LawfulFacts DEF SnkStates
    <2>2. p.task_state \notin PowerSwapping /\ p.task_state \notin BetweenPulls
      BY <1>4, LawfulFacts DEF PowerSwapping, SrcStates, BetweenPulls
    <2>3. Stage(p.task_state) \in {"offer", "agreed", "settled", "recovery"}
      <3>1. p.task_state \notin {"SRC_STARTUP", "SRC_DISCOVERY", "SRC_POWERED", "SRC_TRANSITION"}
        BY <1>4, LawfulFacts DEF SrcStates
      <3> QED BY <1>4, <2>2, <3>1, SuitsFacts DEF Lawful, PowerRoles
    <2>4. Stage("SNK_READY") = "settled" BY StageFacts
    <2>5. "SNK_READY" \notin SwapStates BY DEF SwapStates, PowerSwapping
    <2>6. Leads(p, "SNK_READY")
      BY <1>4, <2>1, <2>2, <2>3, <2>4, <2>5 DEF Leads, StageStep
    <2> QED BY <1>0, <2>6, StillGoes DEF Moves
  <1> QED BY <1>0, <1>1, <1>2, <1>3, <1>4 DEF handle_ps_rdy

LEMMA RejectWaitHeard ==
    ASSUME NEW p, Lawful(p), NEW type
    PROVE  Moves(p, handle_reject_wait(p, type))
  <1>0. HasPower(p) /\ Still(p, p) /\ Moves(p, p) BY StaysSame, StillMoves DEF Lawful
  <1>1. ASSUME p.task_state = "DR_SWAP" PROVE Moves(p, set_state(p, ReadyReturnState(p)))
    <2>1. Suits(ReadyReturnState(p), p.power_role)
          /\ ReadyReturnState(p) \in {"SNK_READY", "SRC_READY"}
      BY LawfulFacts DEF ReadyReturnState, ByRole, SnkStates, SrcStates
    <2>2. <<p.task_state, ReadyReturnState(p)>> \in Paths BY <1>1, <2>1 DEF Paths
    <2> QED BY <1>0, <2>1, <2>2, PathMoves
  <1>2. ASSUME p.task_state = "SRC_SWAP_INIT" PROVE Moves(p, set_state(p, "SRC_READY"))
    <2>1. p.task_state \in SrcStates BY <1>2 DEF SrcStates
    <2>2. Suits("SRC_READY", p.power_role) BY <2>1, LawfulFacts DEF SrcStates
    <2>3. <<p.task_state, "SRC_READY">> \in Paths BY <1>2 DEF Paths
    <2> QED BY <1>0, <2>2, <2>3, PathMoves
  <1>3. ASSUME p.task_state \in {"SNK_SWAP_INIT", "SNK_REQUESTED"}
        PROVE  Moves(p, set_state(p, "SNK_READY")) /\ Suits("SNK_READY", p.power_role)
    <2>1. p.task_state \in SnkStates BY <1>3 DEF SnkStates
    <2>2. Suits("SNK_READY", p.power_role) BY <2>1, LawfulFacts DEF SnkStates
    <2>3. <<p.task_state, "SNK_READY">> \in Paths BY <1>3 DEF Paths
    <2> QED BY <1>0, <2>2, <2>3, PathMoves
  <1>4. ASSUME p.task_state = "SNK_REQUESTED"
        PROVE  /\ Moves(p, set_state(p, "SNK_DISCOVERY"))
               /\ Moves(p, request_again_later(p))
    <2>1. p.task_state \in SnkStates BY <1>4 DEF SnkStates
    <2>2. Suits("SNK_DISCOVERY", p.power_role) BY <2>1, LawfulFacts DEF SnkStates
    <2>3. <<p.task_state, "SNK_DISCOVERY">> \in Paths BY <1>4 DEF Paths
    <2>4. Moves(p, set_state(p, "SNK_DISCOVERY")) BY <1>0, <2>2, <2>3, PathMoves
    <2>5. Still(p, [p EXCEPT !.new_power_request = 1, !.prev_request_mv = 0])
      BY <1>0 DEF HasPower, Still, Stays, Frame, SameLast, SameAgreement, Contracted, SameRoles,
                  SameData, Remains, SameTimer
    <2>6. Awaits(p, request_again_later(p), "SNK_READY")
      BY <2>5, StillGoes DEF request_again_later
    <2>7. "SNK_READY" \notin SwapStates BY DEF SwapStates, PowerSwapping
    <2>8. Targets(p, "SNK_READY") BY <1>3, <1>4, <2>7 DEF Targets
    <2> QED BY <2>4, <2>6, <2>8 DEF Moves
  <1> QED BY <1>0, <1>1, <1>2, <1>3, <1>4, Zenon DEF handle_reject_wait

\* execute_soft_reset, on an Accept in SOFT_RESET and on a Soft Reset in any state.
LEMMA SoftResetGoes ==
    ASSUME NEW p, HasPower(p)
    PROVE  Goes(p, execute_soft_reset(p), ByRole(p, "SNK_DISCOVERY", "SRC_DISCOVERY"))
  BY FieldsStill, StillGoes DEF execute_soft_reset

LEMMA AgreementEnters ==
    ASSUME NEW p, HasPower(p), NEW fs, NEW s
    PROVE  LET q == set_state([p EXCEPT !.flags = fs], s)
           IN  /\ Frame(p, q) /\ SameRoles(p, q) /\ Enters(p, q, s)
               /\ Contracted(q) <=> "EXPLICIT_CONTRACT" \in fs
  <1> DEFINE c == [p EXCEPT !.flags = fs]
             q == set_state(c, s)
  <1>1. /\ Frame(p, c) /\ SameRoles(p, c) /\ c.task_state = p.task_state
        /\ c.rx_enable = p.rx_enable /\ c.flags = fs
    BY DEF HasPower, Frame, SameRoles, SameData
  <1> HIDE DEF c
  <1>2. Goes(c, q, s) BY <1>1, GoesByState DEF Frame
  <1> HIDE DEF q
  <1>3. Frame(p, q) BY <1>1, <1>2, FrameTwice DEF Goes
  <1>4. SameRoles(p, q) /\ Enters(p, q, s)
    BY <1>1, <1>2 DEF Goes, SameRoles, SameData, Enters
  <1>5. Contracted(q) <=> "EXPLICIT_CONTRACT" \in fs
    BY <1>1, <1>2 DEF Goes, SameAgreement, Contracted
  <1> QED BY <1>3, <1>4, <1>5 DEF q, c

LEMMA DataSwapped ==
    ASSUME NEW p, HasPower(p), NEW s
    PROVE  LET q == set_state(pd_dr_swap(p), s)
           IN  /\ Frame(p, q) /\ SameAgreement(p, q) /\ Enters(p, q, s)
               /\ q.power_role = p.power_role /\ q.pull = p.pull /\ HeaderTold(q)
  <1> DEFINE role == IF p.data_role = "UFP" THEN "DFP" ELSE "UFP"
             d == pd_set_data_role(p, role)
             c == [d EXCEPT !.flags = d.flags \cup {"CHECK_IDENTITY"}]
             q == set_state(c, s)
  <1>0. pd_dr_swap(p) = c BY DEF pd_dr_swap
  <1> HIDE DEF role
  <1>1. /\ Frame(p, d) /\ SameAgreement(p, d) /\ HeaderTold(d)
        /\ d.power_role = p.power_role /\ d.pull = p.pull
        /\ d.task_state = p.task_state /\ d.rx_enable = p.rx_enable
    BY DEF HasPower, Frame, SameAgreement, Contracted, HeaderTold, pd_set_data_role,
           pd_update_roles, tcpm_set_msg_header
  <1> HIDE DEF d
  <1>2. Still(d, c) /\ HasPower(c) BY <1>1, FlagsStill, StillHas DEF Frame
  <1> HIDE DEF c
  <1>3. Goes(d, q, s) BY <1>2, StillGoes
  <1> HIDE DEF q
  <1>4. Frame(p, q) BY <1>1, <1>3, FrameTwice DEF Goes
  <1>5. SameAgreement(p, q) /\ Enters(p, q, s) /\ q.power_role = p.power_role
        /\ q.pull = p.pull /\ HeaderTold(q)
    BY <1>1, <1>3 DEF Goes, SameAgreement, Enters, SameRoles, SameData, HeaderTold
  <1> QED BY <1>0, <1>4, <1>5 DEF q

LEMMA AcceptHeard ==
    ASSUME NEW p, Lawful(p)
    PROVE  Hears(p, handle_accept(p))
  <1>0. HasPower(p) /\ Moves(p, p) BY StaysSame, StillMoves DEF Lawful
  <1>1. ASSUME p.task_state = "SOFT_RESET" PROVE Moves(p, execute_soft_reset(p))
    <2> DEFINE s == ByRole(p, "SNK_DISCOVERY", "SRC_DISCOVERY")
    <2>1. Suits(s, p.power_role) /\ s \in {"SNK_DISCOVERY", "SRC_DISCOVERY"}
      BY LawfulFacts DEF ByRole, SnkStates, SrcStates
    <2>2. <<p.task_state, s>> \in Paths BY <1>1, <2>1 DEF Paths
    <2>3. Goes(p, execute_soft_reset(p), s) BY <1>0, SoftResetGoes
    <2> HIDE DEF s
    <2>4. Leads(p, s) BY <2>1, <2>2, LeadsPath
    <2> QED BY <2>3, <2>4 DEF Moves
  <1>2. ASSUME p.task_state = "DR_SWAP"
        PROVE  SwapsData(p, set_state(pd_dr_swap(p), ReadyReturnState(p)))
    BY <1>0, <1>2, DataSwapped DEF SwapsData
  <1> DEFINE fs == p.flags \ {"EXPLICIT_CONTRACT"}
  <1>d. DropContract(p) = [p EXCEPT !.flags = fs] /\ "EXPLICIT_CONTRACT" \notin fs
    BY DEF DropContract
  <1> HIDE DEF fs
  <1>s. ASSUME NEW s PROVE LET q == set_state(DropContract(p), s)
                           IN  Frame(p, q) /\ SameRoles(p, q) /\ Enters(p, q, s) /\ ~Contracted(q)
    BY <1>0, <1>d, AgreementEnters
  <1>3. ASSUME p.task_state = "SRC_SWAP_INIT"
        PROVE  BeginsSwap(p, set_state(DropContract(p), "SRC_SWAP_SNK_DISABLE"))
    BY <1>3, <1>s DEF BeginsSwap
  <1>4. ASSUME p.task_state = "SNK_SWAP_INIT"
        PROVE  BeginsSwap(p, set_state(DropContract(p), "SNK_SWAP_SNK_DISABLE"))
    BY <1>4, <1>s DEF BeginsSwap
  <1>5. ASSUME p.task_state = "SNK_REQUESTED"
        PROVE  Agrees(p, set_state([p EXCEPT !.flags = @ \cup {"EXPLICIT_CONTRACT"}],
                                   "SNK_TRANSITION"))
    BY <1>0, <1>5, AgreementEnters DEF Agrees
  <1> QED BY <1>0, <1>1, <1>2, <1>3, <1>4, <1>5 DEF handle_accept, Hears

LEMMA CtrlHeard ==
    ASSUME NEW p, NEW m, CanTake(p, m), p.task_state \notin Detached
    PROVE  \/ Hears(p, handle_ctrl_request(p, m.type))
           \/ m.type = "SOFT_RESET" /\ SoftResets(p, handle_ctrl_request(p, m.type))
  <1>0. Lawful(p) /\ HasPower(p) BY DEF CanTake, Lawful
  <1>1. \A what : Moves(p, send_control(p, what)) BY <1>0, SendsStill, StillMoves
  <1>2. Moves(p, send_sink_cap(p)) /\ Moves(p, p) BY <1>0, SendsStill, StaysSame, StillMoves
  <1>3. Moves(p, handle_pr_swap(p)) /\ Moves(p, handle_dr_swap(p))
    BY <1>1 DEF handle_pr_swap, handle_dr_swap, pd_check_power_swap, pd_check_data_swap
  <1>4. SoftResets(p, send_control(execute_soft_reset(p), "ACCEPT"))
    <2> DEFINE s == ByRole(p, "SNK_DISCOVERY", "SRC_DISCOVERY")
               q == execute_soft_reset(p)
               r == send_control(q, "ACCEPT")
    <2>1. Goes(p, q, s) BY <1>0, SoftResetGoes
    <2> HIDE DEF q, s
    <2>2. Stays(q, r) BY <2>1, SendsStill, StillHas DEF Goes, Frame
    <2> HIDE DEF r
    <2>3. Goes(p, r, s) BY <2>1, <2>2, ThenStays
    <2> QED BY <2>3 DEF SoftResets, r, q, s
  <1>5. m.type = "PS_RDY" => Hears(p, handle_ps_rdy(p))
    BY <1>0, PsRdyHeard DEF CanTake, Hears
  <1>6. Hears(p, handle_accept(p)) BY <1>0, AcceptHeard
  <1>7. \A type : Moves(p, handle_reject_wait(p, type)) BY <1>0, RejectWaitHeard
  <1>8. Moves(p, handle_get_source_cap(p)) BY <1>0, GetSourceCapHeard
  <1> QED BY <1>1, <1>2, <1>3, <1>4, <1>5, <1>6, <1>7, <1>8
          DEF handle_ctrl_request, Hears

LEMMA MessageHeard ==
    ASSUME NEW p, NEW m \in Messages, CanTake(p, m)
    PROVE  \/ Hears(p, handle_request(p, m))
           \/ m.type = "SOFT_RESET" /\ SoftResets(p, handle_request(p, m))
  <1>1. Hears(p, p) BY StaysSame, StillMoves DEF CanTake, Lawful, Hears
  <1>2. pd_is_connected(p) => p.task_state \notin Detached BY LawfulFacts DEF CanTake
  <1> QED BY <1>1, <1>2, DataHeard, CtrlHeard DEF handle_request

----------------------------------------------------------------------------
\* The handlers of the states.

\* A state that waits for its timer.
LEMMA WaitDoes ==
    ASSUME NEW p, Lawful(p), NEW q, Still(p, q), NEW s \in TimerTargets(p.task_state),
           p.task_state \notin {"DR_SWAP", "SRC_SWAP_STANDBY", "SNK_SWAP_STANDBY"}
    PROVE  /\ Moves(p, set_state_timeout(q, s)) /\ Moves(p, p)
           /\ Moves(p, OnEntry(p, set_state_timeout(q, s))) /\ Moves(p, WaitFor(p, s))
  <1>1. Suits(s, p.power_role) BY TargetSuits DEF Lawful, PowerRoles
  <1>2. Targets(p, s) BY <1>1, TargetFacts DEF Targets
  <1>3. \A r : Still(p, r) => Moves(p, set_state_timeout(r, s)) BY <1>2, StillGoes DEF Moves
  <1>4. Still(p, p) /\ Moves(p, p) BY StaysSame, StillMoves DEF Lawful
  <1> QED BY <1>3, <1>4 DEF OnEntry, WaitFor

LEMMA AskDoes ==
    ASSUME NEW p, Lawful(p), NEW msg, NEW ready \in {"SNK_READY", "SRC_READY"},
           Suits(ready, p.power_role),
           p.task_state \in {"DR_SWAP", "SNK_SWAP_INIT", "SRC_SWAP_INIT"}
    PROVE  Moves(p, AskPartner(p, msg, ready))
  <1> DEFINE q == send_control(p, msg)
  <1>1. Still(p, q) /\ Moves(p, p) BY SendsStill, StaysSame, StillMoves DEF Lawful
  <1> HIDE DEF q
  <1>2. Targets(p, ready) BY DEF Targets, SwapStates, PowerSwapping
  <1>3. Moves(p, set_state_timeout(q, ready)) BY <1>1, <1>2, StillGoes DEF Moves
  <1>4. Suits("SOFT_RESET", p.power_role) /\ "SOFT_RESET" \in Asides
        /\ p.task_state \notin BetweenPulls \cup Detached
    BY DEF Suits, Unbound, Asides, BetweenPulls, Detached, Disconnected, Debouncing
  <1>5. Moves(p, set_state(q, "SOFT_RESET")) BY <1>1, <1>4, AsideMoves
  <1> QED BY <1>1, <1>3, <1>5 DEF AskPartner, OnEntry, q

LEMMA ToggleDoes ==
    ASSUME NEW p, HasPower(p),
           NEW s, NEW role, NEW pull,
           \/ p.task_state = "SNK_DISCONNECTED" /\ s = "SRC_DISCONNECTED"
                 /\ role = "SOURCE" /\ pull = "RP"
           \/ p.task_state = "SRC_DISCONNECTED" /\ s = "SNK_DISCONNECTED"
                 /\ role = "SINK" /\ pull = "RD"
    PROVE  Toggles(p, [tcpm_set_cc(set_state([p EXCEPT !.power_role = role], s), pull)
                         EXCEPT !.next_role_swap = "armed"])
  <1> DEFINE c == [p EXCEPT !.power_role = role]
             q == set_state(c, s)
             r == tcpm_set_cc(q, pull)
             t == [r EXCEPT !.next_role_swap = "armed"]
  <1>1. /\ Frame(p, c) /\ SameAgreement(p, c) /\ SameData(p, c) /\ c.power_role = role
        /\ c.task_state = p.task_state /\ c.rx_enable = p.rx_enable
    BY DEF HasPower, Frame, SameAgreement, Contracted, SameData
  <1> HIDE DEF c
  <1>2. Goes(c, q, s) BY <1>1, GoesByState DEF Frame
  <1> HIDE DEF q
  <1>3. /\ Frame(q, r) /\ SameAgreement(q, r) /\ SameData(q, r) /\ r.power_role = q.power_role
        /\ r.pull = pull /\ r.task_state = q.task_state /\ r.rx_enable = q.rx_enable
        /\ r.timeout = q.timeout
    <2>1. HasPower(q) BY <1>2 DEF Goes, Frame
    <2> QED BY <2>1 DEF HasPower, Frame, SameAgreement, Contracted, SameData, tcpm_set_cc
  <1> HIDE DEF r
  <1>4. Stays(r, t) BY <1>3, FieldsStill, StillHas DEF Frame
  <1> HIDE DEF t
  <1>5. Frame(p, t) BY <1>1, <1>2, <1>3, <1>4, FrameTwice DEF Goes, Stays
  <1>6. SameAgreement(p, t) /\ SameData(p, t) /\ t.power_role = role /\ t.pull = pull
    BY <1>1, <1>2, <1>3, <1>4 DEF Goes, Stays, SameAgreement, SameData, SameRoles
  <1>7. Enters(p, t, s)
    BY <1>1, <1>2, <1>3, <1>4 DEF Goes, Stays, Enters, Remains, SameTimer
  <1> QED BY <1>5, <1>6, <1>7 DEF Toggles, c, q, r, t

\* tcpm_set_polarity, the data role, the receiver on, flags: then the state.
LEMMA AttachDoes ==
    ASSUME NEW p, HasPower(p), NEW q, Still(p, q), NEW role, NEW fs, "EXPLICIT_CONTRACT" \notin fs,
           NEW t, Still(SetFlags(tcpm_set_rx_enable(pd_set_data_role(q, role), 1), fs), t),
           NEW s,
           \/ p.task_state = "SNK_DISCONNECTED_DEBOUNCE" /\ s = "SNK_DISCOVERY"
           \/ p.task_state = "SRC_DISCONNECTED_DEBOUNCE" /\ s = "SRC_STARTUP"
    PROVE  Attaches(p, set_state(t, s))
  <1> DEFINE d == pd_set_data_role(q, role)
             r == tcpm_set_rx_enable(d, 1)
             f == SetFlags(r, fs)
             z == set_state(t, s)
  <1>0. Still(f, t) OBVIOUS
  <1>1. /\ Frame(q, d) /\ SameAgreement(q, d) /\ HeaderTold(d)
        /\ d.power_role = q.power_role /\ d.pull = q.pull
    <2>1. HasPower(q) BY StillHas
    <2> QED BY <2>1 DEF HasPower, Frame, SameAgreement, Contracted, HeaderTold,
                        pd_set_data_role, pd_update_roles, tcpm_set_msg_header
  <1> HIDE DEF d
  <1>2. /\ Frame(d, r) /\ SameAgreement(d, r) /\ HeaderTold(r)
        /\ r.power_role = d.power_role /\ r.pull = d.pull /\ r.rx_enable = 1
    BY <1>1 DEF HasPower, Frame, SameAgreement, Contracted, HeaderTold, tcpm_set_rx_enable
  <1> HIDE DEF r
  <1>3. Stays(r, f) BY <1>2, FlagsStill, StillHas DEF Frame
  <1> HIDE DEF f
  <1>4. Stays(r, t) /\ HasPower(t) BY <1>0, <1>3, StillHas, StaysTwice
  <1>5. Goes(t, z, s) BY <1>4, GoesByState
  <1> HIDE DEF z
  <1>6. Goes(r, z, s) BY <1>4, <1>5, StaysThen
  <1>7. Frame(p, z) BY <1>1, <1>2, <1>6, FrameTwice DEF Still, Stays, Goes
  <1>8. SameAgreement(p, z) BY <1>1, <1>2, <1>6 DEF Still, Stays, Goes, SameAgreement
  <1>9. /\ z.power_role = p.power_role /\ z.pull = p.pull /\ HeaderTold(z)
    BY <1>1, <1>2, <1>6 DEF Still, Stays, Goes, SameRoles, SameData, HeaderTold
  <1>10. z.timeout = "off" /\ z.rx_enable = 1 /\ z.task_state = s
    BY <1>2, <1>6 DEF Goes, Enters, Disconnected
  <1> QED BY <1>7, <1>8, <1>9, <1>10 DEF Attaches, z

\* What a handler does, besides the Hard Reset of HARD_RESET_EXECUTE.
LEMMA DisconnectedDoes ==
    ASSUME NEW p, Lawful(p), NEW ccs
    PROVE  /\ p.task_state = "SNK_DISCONNECTED" => Does(p, SnkDisconnected(p, ccs))
           /\ p.task_state = "SRC_DISCONNECTED" => Does(p, SrcDisconnected(p, ccs))
  <1>0. HasPower(p) /\ Moves(p, p) BY StaysSame, StillMoves DEF Lawful
  <1>1. ASSUME p.task_state = "SNK_DISCONNECTED" PROVE Does(p, SnkDisconnected(p, ccs))
    <2> DEFINE q == [p EXCEPT !.cc_state = "NONE", !.hard_reset_count = 0,
                              !.cc_debounce = "armed"]
    <2>1. Still(p, q)
      BY <1>0 DEF HasPower, Still, Stays, Frame, SameLast, SameAgreement, Contracted, SameRoles,
                  SameData, Remains, SameTimer
    <2> HIDE DEF q
    <2>2. p.task_state \in SnkStates BY <1>1 DEF SnkStates
    <2>3. Suits("SNK_DISCONNECTED_DEBOUNCE", p.power_role)
      BY <2>2, LawfulFacts DEF SnkStates
    <2>4. <<p.task_state, "SNK_DISCONNECTED_DEBOUNCE">> \in Paths BY <1>1 DEF Paths
    <2>5. Moves(p, set_state(q, "SNK_DISCONNECTED_DEBOUNCE")) BY <2>1, <2>3, <2>4, PathMoves
    <2>6. Toggles(p, [tcpm_set_cc(set_state([p EXCEPT !.power_role = "SOURCE"],
                                            "SRC_DISCONNECTED"), "RP")
                        EXCEPT !.next_role_swap = "armed"])
      BY <1>0, <1>1, ToggleDoes
    <2> QED BY <1>0, <2>5, <2>6, Zenon DEF SnkDisconnected, Does, q
  <1>2. ASSUME p.task_state = "SRC_DISCONNECTED" PROVE Does(p, SrcDisconnected(p, ccs))
    <2>1. Still(p, [p EXCEPT !.cc_state = "NONE"]) BY <1>0, FieldsStill
    <2>2. p.task_state \in SrcStates BY <1>2 DEF SrcStates
    <2>3. Suits("SRC_DISCONNECTED_DEBOUNCE", p.power_role)
      BY <2>2, LawfulFacts DEF SrcStates
    <2>4. <<p.task_state, "SRC_DISCONNECTED_DEBOUNCE">> \in Paths BY <1>2 DEF Paths
    <2>5. Moves(p, set_state([p EXCEPT !.cc_state = "NONE"], "SRC_DISCONNECTED_DEBOUNCE"))
      BY <2>1, <2>3, <2>4, PathMoves
    <2>6. Toggles(p, [tcpm_set_cc(set_state([p EXCEPT !.power_role = "SINK"],
                                            "SNK_DISCONNECTED"), "RD")
                        EXCEPT !.next_role_swap = "armed"])
      BY <1>0, <1>2, ToggleDoes
    <2> QED BY <1>0, <2>5, <2>6, Zenon DEF SrcDisconnected, Does
  <1> QED BY <1>1, <1>2

LEMMA DebounceDoes ==
    ASSUME NEW p, Lawful(p), NEW ccs
    PROVE  /\ p.task_state = "SNK_DISCONNECTED_DEBOUNCE" =>
                 Does(p, SnkDisconnectedDebounce(p, ccs))
           /\ p.task_state = "SRC_DISCONNECTED_DEBOUNCE" =>
                 Does(p, SrcDisconnectedDebounce(p, ccs))
  <1>0. HasPower(p) /\ Moves(p, p) /\ Still(p, p) BY StaysSame, StillMoves DEF Lawful
  <1>1. \A c : Moves(p, [p EXCEPT !.cc_debounce = "armed", !.cc_state = c])
    <2> TAKE c
    <2>1. Still(p, [p EXCEPT !.cc_debounce = "armed", !.cc_state = c])
      BY <1>0 DEF HasPower, Still, Stays, Frame, SameLast, SameAgreement, Contracted, SameRoles,
                  SameData, Remains, SameTimer
    <2> QED BY <2>1, StillMoves
  <1>2. ASSUME p.task_state = "SNK_DISCONNECTED_DEBOUNCE"
        PROVE  Does(p, SnkDisconnectedDebounce(p, ccs))
    <2>1. p.task_state \in SnkStates BY <1>2 DEF SnkStates
    <2>2. Suits("SNK_DISCONNECTED", p.power_role) BY <2>1, LawfulFacts DEF SnkStates
    <2>3. <<p.task_state, "SNK_DISCONNECTED">> \in Paths BY <1>2 DEF Paths
    <2>4. Moves(p, set_state(p, "SNK_DISCONNECTED")) BY <1>0, <2>2, <2>3, PathMoves
    <2>5. \A acc : Attaches(p, AttachSink(p, ccs, acc))
      <3> TAKE acc
      <3> DEFINE q == [p EXCEPT !.polarity = get_snk_polarity(ccs), !.msg_id = 0]
                 fs == {"CHECK_PR_ROLE", "CHECK_DR_ROLE", "CHECK_IDENTITY"} \cup
                       (IF acc = "DEBUG_ACC" THEN {"TS_DTS_PARTNER"} ELSE {})
                 f == SetFlags(tcpm_set_rx_enable(pd_set_data_role(q, "UFP"), 1), fs)
                 t == send_control(f, "GET_SOURCE_CAP")
      <3>1. Still(p, q)
        BY <1>0 DEF HasPower, Still, Stays, Frame, SameLast, SameAgreement, Contracted,
                    SameRoles, SameData, Remains, SameTimer
      <3>2. "EXPLICIT_CONTRACT" \notin fs OBVIOUS
      <3>3. AttachSink(p, ccs, acc) = set_state(t, "SNK_DISCOVERY") BY DEF AttachSink
      <3> HIDE DEF q, fs
      <3>4. HasPower(f)
        <4>1. HasPower(q) BY <3>1, StillHas
        <4> QED BY <4>1 DEF HasPower, SetFlags, tcpm_set_rx_enable, pd_set_data_role,
                            pd_update_roles, tcpm_set_msg_header
      <3>5. Still(f, t) BY <3>4, SendsStill
      <3> HIDE DEF t
      <3> QED BY <1>0, <1>2, <3>1, <3>2, <3>3, <3>5, AttachDoes
    <2> QED BY <1>0, <1>1, <2>4, <2>5, Zenon DEF SnkDisconnectedDebounce, Does
  <1>3. ASSUME p.task_state = "SRC_DISCONNECTED_DEBOUNCE"
        PROVE  Does(p, SrcDisconnectedDebounce(p, ccs))
    <2>1. p.task_state \in SrcStates BY <1>3 DEF SrcStates
    <2>2. Suits("SRC_DISCONNECTED", p.power_role) BY <2>1, LawfulFacts DEF SrcStates
    <2>3. <<p.task_state, "SRC_DISCONNECTED">> \in Paths BY <1>3 DEF Paths
    <2>4. Moves(p, set_state(p, "SRC_DISCONNECTED")) BY <1>0, <2>2, <2>3, PathMoves
    <2>5. \A acc : Attaches(p, AttachSource(p, ccs, acc))
      <3> TAKE acc
      <3> DEFINE q == [p EXCEPT !.polarity = IF ccs[1] # TYPEC_CC_VOLT_RD THEN 1 ELSE 0]
                 fs == {"CHECK_PR_ROLE", "CHECK_DR_ROLE"} \cup
                       (IF acc = "DEBUG_ACC" THEN {"TS_DTS_PARTNER"} ELSE {})
                 f == SetFlags(tcpm_set_rx_enable(pd_set_data_role(q, "DFP"), 1), fs)
                 t == [f EXCEPT !.hard_reset_count = 0]
      <3>1. Still(p, q) BY <1>0, FieldsStill
      <3>2. "EXPLICIT_CONTRACT" \notin fs OBVIOUS
      <3>3. AttachSource(p, ccs, acc) = set_state(t, "SRC_STARTUP") BY DEF AttachSource
      <3> HIDE DEF q, fs
      <3>4. HasPower(f)
        <4>1. HasPower(q) BY <3>1, StillHas
        <4> QED BY <4>1 DEF HasPower, SetFlags, tcpm_set_rx_enable, pd_set_data_role,
                            pd_update_roles, tcpm_set_msg_header
      <3>5. Still(f, t) BY <3>4, FieldsStill
      <3> HIDE DEF t
      <3> QED BY <1>0, <1>3, <3>1, <3>2, <3>3, <3>5, AttachDoes
    <2> QED BY <1>0, <1>1, <2>4, <2>5, Zenon DEF SrcDisconnectedDebounce, Does
  <1> QED BY <1>2, <1>3

LEMMA SinkDoes ==
    ASSUME NEW p, Lawful(p)
    PROVE  /\ p.task_state = "SNK_DISCOVERY" => Moves(p, SnkDiscovery(p))
           /\ p.task_state = "SNK_REQUESTED" => Moves(p, SnkRequested(p))
           /\ p.task_state = "SNK_TRANSITION" => Moves(p, SnkTransition(p))
           /\ p.task_state = "SNK_READY" => Moves(p, SnkReady(p))
  <1>0. HasPower(p) /\ Still(p, p) /\ Moves(p, p) BY StaysSame, StillMoves DEF Lawful
  <1>1. ASSUME p.task_state = "SNK_DISCOVERY" PROVE Moves(p, SnkDiscovery(p))
    <2>1. "HARD_RESET_SEND" \in TimerTargets(p.task_state)
          /\ "SNK_DISCONNECTED" \in TimerTargets(p.task_state)
      BY <1>1 DEF TimerTargets
    <2>2. Moves(p, set_state_timeout(p, "HARD_RESET_SEND"))
          /\ Moves(p, set_state_timeout(p, "SNK_DISCONNECTED"))
      BY <1>0, <1>1, <2>1, WaitDoes
    <2> QED BY <1>0, <2>2, Zenon DEF SnkDiscovery
  <1>2. ASSUME p.task_state = "SNK_REQUESTED" PROVE Moves(p, SnkRequested(p))
    <2>1. "HARD_RESET_SEND" \in TimerTargets(p.task_state) BY <1>2 DEF TimerTargets
    <2>2. Still(p, [p EXCEPT !.hard_reset_count = 0]) BY <1>0, FieldsStill
    <2> QED BY <1>2, <2>1, <2>2, WaitDoes DEF SnkRequested
  <1>3. ASSUME p.task_state = "SNK_TRANSITION" PROVE Moves(p, SnkTransition(p))
    <2>1. "HARD_RESET_SEND" \in TimerTargets(p.task_state) BY <1>3 DEF TimerTargets
    <2> QED BY <1>0, <1>3, <2>1, WaitDoes DEF SnkTransition
  <1>4. ASSUME p.task_state = "SNK_READY" PROVE Moves(p, SnkReady(p))
    <2>1. Moves(p, SnkReadyPolicy(p))
      <3>1. /\ Still(p, ClearFlag(p, "CHECK_PR_ROLE")) /\ Still(p, ClearFlag(p, "CHECK_DR_ROLE"))
            /\ Still(p, ClearFlag(pd_send_vdm(p), "CHECK_IDENTITY"))
        BY <1>0, VdmStill, StillHas, ClearStill, StillTwice
      <3> QED BY <1>0, <3>1, StillMoves, Zenon DEF SnkReadyPolicy
    <2> DEFINE q == pd_send_request_msg(p, FALSE)
    <2>2. \/ Still(p, q)
          \/ Goes(p, q, "SNK_REQUESTED") /\ RequestMsgOk(p, FALSE)
      BY <1>0, RequestSends
    <2> HIDE DEF q
    <2>3. p.task_state \in SnkStates BY <1>4 DEF SnkStates
    <2>4. Suits("SNK_REQUESTED", p.power_role) /\ Suits("SOFT_RESET", p.power_role)
      BY <2>3, LawfulFacts DEF SnkStates, Unbound
    <2>5. <<p.task_state, "SNK_REQUESTED">> \in Paths BY <1>4 DEF Paths
    <2>6. Leads(p, "SNK_REQUESTED") BY <2>4, <2>5, LeadsPath
    <2>7. Moves(p, q) BY <2>2, <2>6, StillMoves DEF Moves
    <2>8. ~RequestMsgOk(p, FALSE) => Moves(p, set_state(q, "SOFT_RESET"))
      <3>1. "SOFT_RESET" \in Asides /\ p.task_state \notin BetweenPulls \cup Detached
        BY <1>4 DEF Asides, BetweenPulls, Detached, Disconnected, Debouncing
      <3> QED BY <1>4, <2>2, <2>4, <3>1, AsideMoves
    <2> QED BY <1>0, <2>1, <2>7, <2>8, Zenon DEF SnkReady, q
  <1> QED BY <1>1, <1>2, <1>3, <1>4

LEMMA SourceStateDoes ==
    ASSUME NEW p, Lawful(p)
    PROVE  /\ p.task_state = "SRC_STARTUP" => Moves(p, SrcStartup(p))
           /\ p.task_state = "SRC_DISCOVERY" => Moves(p, SrcDiscovery(p))
           /\ p.task_state = "SRC_NEGOCIATE" => Moves(p, SrcNegociate(p))
           /\ p.task_state = "SRC_ACCEPTED" => Moves(p, SrcAccepted(p))
           /\ p.task_state = "SRC_POWERED" => Moves(p, SrcPowered(p))
           /\ p.task_state = "SRC_TRANSITION" => Moves(p, SrcTransition(p))
           /\ p.task_state = "SRC_READY" => Moves(p, SrcReady(p))
           /\ p.task_state = "SRC_GET_SINK_CAP" => Moves(p, SrcGetSinkCap(p))
  <1>0. HasPower(p) /\ Still(p, p) /\ Moves(p, p) BY StaysSame, StillMoves DEF Lawful
  <1>w. ASSUME NEW s \in TimerTargets(p.task_state), NEW q, Still(p, q),
               p.task_state \notin {"DR_SWAP", "SRC_SWAP_STANDBY", "SNK_SWAP_STANDBY"}
        PROVE  /\ Moves(p, OnEntry(p, set_state_timeout(q, s))) /\ Moves(p, WaitFor(p, s))
               /\ Moves(p, set_state_timeout(q, s))
    BY <1>w, WaitDoes
  <1>1. ASSUME p.task_state = "SRC_STARTUP" PROVE Moves(p, SrcStartup(p))
    <2> DEFINE f == SetFlags(p, {"CHECK_IDENTITY"})
               q == [f EXCEPT !.caps_count = 0, !.msg_id = 0, !.snk_cap_count = 0]
    <2>1. Still(p, f) /\ HasPower(f) BY <1>0, FlagsStill, StillHas
    <2> HIDE DEF f
    <2>2. Still(f, q)
      BY <2>1 DEF HasPower, Still, Stays, Frame, SameLast, SameAgreement, Contracted, SameRoles,
                  SameData, Remains, SameTimer
    <2> HIDE DEF q
    <2>3. Still(p, q) BY <2>1, <2>2, StillTwice
    <2>4. "SRC_DISCOVERY" \in TimerTargets(p.task_state) BY <1>1 DEF TimerTargets
    <2>5. Moves(p, OnEntry(p, set_state_timeout(q, "SRC_DISCOVERY"))) BY <1>1, <1>w, <2>3, <2>4
    <2> QED BY <2>5 DEF SrcStartup, q, f
  <1>2. ASSUME p.task_state = "SRC_DISCOVERY" PROVE Moves(p, SrcDiscovery(p))
    <2> DEFINE a == set_state_timeout(p, NoResponse(p, "SRC_DISCONNECTED"))
               q == IF Entering(p) /\ "PREVIOUS_PD_CONN" \in p.flags THEN a ELSE p
               r == send_source_cap(q)
               s == set_state(r, "SRC_NEGOCIATE")
               t == [s EXCEPT !.hard_reset_count = 0, !.caps_count = 0]
               u == SetFlags(t, {"PREVIOUS_PD_CONN"})
    <2>1. NoResponse(p, "SRC_DISCONNECTED") \in TimerTargets(p.task_state)
      BY <1>2 DEF NoResponse, TimerTargets
    <2>2. Suits(NoResponse(p, "SRC_DISCONNECTED"), p.power_role)
      BY <1>2, <2>1, TargetSuits DEF Lawful, PowerRoles
    <2>3. Awaits(p, a, NoResponse(p, "SRC_DISCONNECTED"))
          /\ Targets(p, NoResponse(p, "SRC_DISCONNECTED"))
      BY <1>0, <1>2, <2>1, <2>2, AwaitsByTimeout, TargetFacts DEF Targets
    <2> HIDE DEF a
    <2>4. \/ Still(p, q)
          \/ Awaits(p, q, NoResponse(p, "SRC_DISCONNECTED"))
      BY <1>0, <2>3
    <2> HIDE DEF q
    <2>5. Moves(p, q) /\ HasPower(q)
      BY <2>3, <2>4, StillMoves, StillHas DEF Moves, Awaits, Frame
    <2>6. Still(q, r) /\ HasPower(r) BY <2>5, SendsStill, StillHas
    <2> HIDE DEF r
    <2>7. Goes(r, s, "SRC_NEGOCIATE") BY <2>6, GoesByState
    <2> HIDE DEF s
    <2>8. Still(s, t) /\ HasPower(t)
      <3>1. HasPower(s) BY <2>7 DEF Goes, Frame
      <3>2. Still(s, t)
        BY <3>1 DEF HasPower, Still, Stays, Frame, SameLast, SameAgreement, Contracted, SameRoles,
                    SameData, Remains, SameTimer
      <3> HIDE DEF t
      <3> QED BY <3>2, StillHas
    <2> HIDE DEF t
    <2>9. Still(t, u) BY <2>8, FlagsStill
    <2> HIDE DEF u
    <2>10. Goes(q, u, "SRC_NEGOCIATE")
      <3>1. Stays(q, r) /\ Stays(s, u) BY <2>6, <2>8, <2>9, StillHas, StaysTwice
      <3> QED BY <2>7, <3>1, StaysThen, ThenStays
    <2>11. Goes(p, u, "SRC_NEGOCIATE") BY <2>4, <2>10, StillHas, StaysThen, AwaitsThen
    <2>12. Leads(p, "SRC_NEGOCIATE")
      <3>1. p.task_state \in SrcStates BY <1>2 DEF SrcStates
      <3>2. Suits("SRC_NEGOCIATE", p.power_role) BY <3>1, LawfulFacts DEF SrcStates
      <3>3. <<p.task_state, "SRC_NEGOCIATE">> \in Paths BY <1>2 DEF Paths
      <3> QED BY <3>2, <3>3, LeadsPath
    <2>13. Moves(p, u) BY <2>11, <2>12 DEF Moves
    <2>14. Moves(p, [r EXCEPT !.caps_count = @ + 1])
      <3>1. Still(r, [r EXCEPT !.caps_count = @ + 1]) BY <2>6, FieldsStill
      <3>2. Stays(q, [r EXCEPT !.caps_count = @ + 1]) BY <2>6, <3>1, StillTwice, StillHas
      <3> QED BY <2>5, <3>2, MovesThen
    <2> QED BY <2>5, <2>13, <2>14, Zenon DEF SrcDiscovery, u, t, s, r, q, a
  <1>3. ASSUME p.task_state = "SRC_NEGOCIATE" PROVE Moves(p, SrcNegociate(p))
    <2>1. "HARD_RESET_SEND" \in TimerTargets(p.task_state) BY <1>3 DEF TimerTargets
    <2> QED BY <1>0, <1>3, <1>w, <2>1 DEF SrcNegociate
  <1>4. ASSUME p.task_state = "SRC_ACCEPTED" PROVE Moves(p, SrcAccepted(p))
    <2>1. "SRC_POWERED" \in TimerTargets(p.task_state) BY <1>4 DEF TimerTargets
    <2> QED BY <1>0, <1>4, <1>w, <2>1 DEF SrcAccepted
  <1>5. ASSUME p.task_state = "SRC_POWERED" PROVE Moves(p, SrcPowered(p))
    <2>1. "SRC_TRANSITION" \in TimerTargets(p.task_state) BY <1>5 DEF TimerTargets
    <2> QED BY <1>0, <1>5, <1>w, <2>1 DEF SrcPowered
  <1>6. ASSUME p.task_state = "SRC_TRANSITION" PROVE Moves(p, SrcTransition(p))
    <2>1. Still(p, send_control(p, "PS_RDY")) BY <1>0, SendsStill
    <2>2. p.task_state \in SrcStates BY <1>6 DEF SrcStates
    <2>3. Suits("SRC_READY", p.power_role) /\ Suits("SRC_DISCONNECTED", p.power_role)
      BY <2>2, LawfulFacts DEF SrcStates
    <2>4. <<p.task_state, "SRC_READY">> \in Paths BY <1>6 DEF Paths
    <2>5. "SRC_DISCONNECTED" \in Disconnected /\ p.task_state \notin BetweenPulls
      BY <1>6 DEF Disconnected, BetweenPulls
    <2>6. Moves(p, set_state(send_control(p, "PS_RDY"), "SRC_READY"))
      BY <2>1, <2>3, <2>4, PathMoves
    <2>7. Moves(p, set_state(send_control(p, "PS_RDY"), "SRC_DISCONNECTED"))
      BY <2>1, <2>3, <2>5, AsideMoves
    <2> QED BY <2>6, <2>7 DEF SrcTransition
  <1>7. ASSUME p.task_state = "SRC_READY" PROVE Moves(p, SrcReady(p))
    <2>0. p.task_state \in SrcStates /\ p.task_state \notin BetweenPulls \cup Detached
      BY <1>7 DEF SrcStates, BetweenPulls, Detached, Disconnected, Debouncing
    <2>1. Suits("SRC_GET_SINK_CAP", p.power_role) /\ Suits("SOFT_RESET", p.power_role)
      BY <2>0, LawfulFacts DEF SrcStates, Unbound
    <2>2. ASSUME NEW q, Still(p, q) PROVE Moves(p, SrcReadyPolicy(q))
      <3>1. HasPower(q) BY <2>2, StillHas
      <3>2. ASSUME NEW v, Still(q, v) PROVE Moves(p, v) /\ Moves(p, set_state(v, "SOFT_RESET"))
        <4>1. Still(p, v) BY <2>2, <3>2, StillTwice
        <4>2. "SOFT_RESET" \in Asides BY DEF Asides
        <4> QED BY <1>7, <2>0, <2>1, <4>1, <4>2, StillMoves, AsideMoves
      <3>3. Still(q, ClearFlag(q, "CHECK_PR_ROLE")) /\ Still(q, ClearFlag(q, "CHECK_DR_ROLE"))
            /\ Still(q, ClearFlag(pd_send_vdm(q), "CHECK_IDENTITY")) /\ Still(q, q)
            /\ Still(q, send_control(q, "PING"))
        BY <3>1, VdmStill, StillHas, ClearStill, StillTwice, StaysSame, SendsStill
      <3> QED BY <3>2, <3>3, Zenon DEF SrcReadyPolicy
    <2> DEFINE q == [p EXCEPT !.snk_cap_count = IF @ > PD_SNK_CAP_RETRIES THEN @ ELSE @ + 1]
    <2>3. Still(p, q) BY <1>0, FieldsStill
    <2> HIDE DEF q
    <2>4. Moves(p, set_state(send_control(q, "GET_SINK_CAP"), "SRC_GET_SINK_CAP"))
      <3>1. Still(p, send_control(q, "GET_SINK_CAP")) BY <2>3, SendsStill, StillHas, StillTwice
      <3>2. <<p.task_state, "SRC_GET_SINK_CAP">> \in Paths BY <1>7 DEF Paths
      <3> QED BY <2>1, <3>1, <3>2, PathMoves
    <2>5. Moves(p, SrcReadyPolicy(p)) /\ Moves(p, SrcReadyPolicy(q)) BY <1>0, <2>2, <2>3
    <2> QED BY <1>0, <2>4, <2>5, Zenon DEF SrcReady, q
  <1>8. ASSUME p.task_state = "SRC_GET_SINK_CAP" PROVE Moves(p, SrcGetSinkCap(p))
    <2>1. "SRC_READY" \in TimerTargets(p.task_state) BY <1>8 DEF TimerTargets
    <2> QED BY <1>0, <1>8, <1>w, <2>1 DEF SrcGetSinkCap
  <1> QED BY <1>1, <1>2, <1>3, <1>4, <1>5, <1>6, <1>7, <1>8

LEMMA SwapDoes ==
    ASSUME NEW p, Lawful(p)
    PROVE  /\ p.task_state = "DR_SWAP" => Moves(p, DrSwap(p))
           /\ p.task_state = "SNK_SWAP_INIT" => Moves(p, SnkSwapInit(p))
           /\ p.task_state = "SNK_SWAP_SNK_DISABLE" =>
                 Moves(p, SnkSwapSnkDisable(p))
                 /\ Goes(p, SnkSwapSnkDisable(p), "SNK_SWAP_SRC_DISABLE")
           /\ p.task_state = "SNK_SWAP_SRC_DISABLE" => Moves(p, SnkSwapSrcDisable(p))
           /\ p.task_state = "SRC_SWAP_INIT" => Moves(p, SrcSwapInit(p))
           /\ p.task_state = "SRC_SWAP_SNK_DISABLE" => Moves(p, SrcSwapSnkDisable(p))
           /\ p.task_state = "SRC_SWAP_SRC_DISABLE" => Moves(p, SrcSwapSrcDisable(p))
  <1>0. HasPower(p) /\ Still(p, p) /\ Moves(p, p) BY StaysSame, StillMoves DEF Lawful
  <1>1. ASSUME p.task_state = "DR_SWAP" PROVE Moves(p, DrSwap(p))
    <2>1. ReadyReturnState(p) \in {"SNK_READY", "SRC_READY"}
          /\ Suits(ReadyReturnState(p), p.power_role)
      BY LawfulFacts DEF ReadyReturnState, ByRole, SnkStates, SrcStates
    <2> QED BY <1>1, <2>1, AskDoes DEF DrSwap
  <1>2. ASSUME p.task_state = "SNK_SWAP_INIT" PROVE Moves(p, SnkSwapInit(p))
    <2>1. p.task_state \in SnkStates BY <1>2 DEF SnkStates
    <2>2. Suits("SNK_READY", p.power_role) BY <2>1, LawfulFacts DEF SnkStates
    <2> QED BY <1>2, <2>2, AskDoes DEF SnkSwapInit
  <1>3. ASSUME p.task_state = "SRC_SWAP_INIT" PROVE Moves(p, SrcSwapInit(p))
    <2>1. p.task_state \in SrcStates BY <1>3 DEF SrcStates
    <2>2. Suits("SRC_READY", p.power_role) BY <2>1, LawfulFacts DEF SrcStates
    <2> QED BY <1>3, <2>2, AskDoes DEF SrcSwapInit
  <1>4. ASSUME p.task_state = "SNK_SWAP_SNK_DISABLE"
        PROVE  Moves(p, SnkSwapSnkDisable(p))
               /\ Goes(p, SnkSwapSnkDisable(p), "SNK_SWAP_SRC_DISABLE")
    <2>1. p.task_state \in SnkStates BY <1>4 DEF SnkStates
    <2>2. Suits("SNK_SWAP_SRC_DISABLE", p.power_role) BY <2>1, LawfulFacts DEF SnkStates
    <2>3. <<p.task_state, "SNK_SWAP_SRC_DISABLE">> \in Paths BY <1>4 DEF Paths
    <2> QED BY <1>0, <2>2, <2>3, PathMoves, GoesByState DEF SnkSwapSnkDisable
  <1>5. ASSUME p.task_state = "SNK_SWAP_SRC_DISABLE" PROVE Moves(p, SnkSwapSrcDisable(p))
    <2>1. "HARD_RESET_SEND" \in TimerTargets(p.task_state) BY <1>5 DEF TimerTargets
    <2> QED BY <1>0, <1>5, <2>1, WaitDoes DEF SnkSwapSrcDisable
  <1>6. ASSUME p.task_state = "SRC_SWAP_SNK_DISABLE" PROVE Moves(p, SrcSwapSnkDisable(p))
    <2>1. "SRC_SWAP_SRC_DISABLE" \in TimerTargets(p.task_state) BY <1>6 DEF TimerTargets
    <2> QED BY <1>0, <1>6, <2>1, WaitDoes DEF SrcSwapSnkDisable
  <1>7. ASSUME p.task_state = "SRC_SWAP_SRC_DISABLE" PROVE Moves(p, SrcSwapSrcDisable(p))
    <2>1. "SRC_SWAP_STANDBY" \in TimerTargets(p.task_state) BY <1>7 DEF TimerTargets
    <2> QED BY <1>0, <1>7, <2>1, WaitDoes DEF SrcSwapSrcDisable
  <1> QED BY <1>1, <1>2, <1>3, <1>4, <1>5, <1>6, <1>7

\* The handlers that change the resistor or the role.
LEMMA StandbyDoes ==
    ASSUME NEW p, Lawful(p), LastFits(p)
    PROVE  /\ p.task_state = "SNK_SWAP_STANDBY" => Does(p, SnkSwapStandby(p))
           /\ p.task_state = "SNK_SWAP_COMPLETE" => Does(p, SnkSwapComplete(p))
           /\ p.task_state = "SRC_SWAP_STANDBY" => Does(p, SrcSwapStandby(p))
  <1>0. HasPower(p) /\ Still(p, p) /\ Moves(p, p) BY StaysSame, StillMoves DEF Lawful
  <1>1. ASSUME p.task_state = "SNK_SWAP_STANDBY" PROVE Does(p, SnkSwapStandby(p))
    <2> DEFINE c == tcpm_set_cc(p, "RP")
               q == set_state_timeout(c, "SNK_SWAP_COMPLETE")
    <2>1. /\ Frame(p, c) /\ SameAgreement(p, c) /\ c.power_role = p.power_role
          /\ c.pull = "RP" /\ SameData(p, c) /\ Remains(p, c)
      BY <1>0 DEF HasPower, Frame, SameAgreement, Contracted, SameData, Remains, tcpm_set_cc
    <2> HIDE DEF c
    <2>2. Awaits(c, q, "SNK_SWAP_COMPLETE") BY <2>1, AwaitsByTimeout DEF Frame
    <2> HIDE DEF q
    <2>3. Frame(p, q) BY <2>1, <2>2, FrameTwice DEF Awaits
    <2>4. ShowsRp(p, q)
      BY <1>1, <2>1, <2>2, <2>3 DEF ShowsRp, Awaits, SameAgreement, SameRoles, SameData, Remains
    <2> QED BY <1>0, <2>4, Zenon DEF SnkSwapStandby, OnEntry, Does, q, c
  <1>2. ASSUME p.task_state = "SNK_SWAP_COMPLETE" PROVE Does(p, SnkSwapComplete(p))
    <2> DEFINE q == send_control(p, "PS_RDY")
    <2>1. Still(p, q) /\ HasPower(q) BY <1>0, SendsStill, StillHas
    <2>2. BecomesSource(p, set_state(tcpm_set_cc(q, "RD"), "SNK_DISCONNECTED"))
      <3> HIDE DEF q
      <3> DEFINE c == tcpm_set_cc(q, "RD")
                 z == set_state(c, "SNK_DISCONNECTED")
      <3>1. /\ Frame(q, c) /\ SameAgreement(q, c) /\ c.power_role = q.power_role
            /\ c.pull = "RD" /\ SameData(q, c) /\ Remains(q, c)
        BY <2>1 DEF HasPower, Frame, SameAgreement, Contracted, SameData, Remains, tcpm_set_cc
      <3> HIDE DEF c
      <3>2. Goes(c, z, "SNK_DISCONNECTED") BY <3>1, GoesByState DEF Frame
      <3> HIDE DEF z
      <3>3. Frame(p, z) BY <2>1, <3>1, <3>2, FrameTwice DEF Still, Stays, Goes
      <3>4. /\ SameAgreement(p, z) /\ z.power_role = p.power_role /\ z.pull = "RD"
            /\ SameData(p, z)
        BY <2>1, <3>1, <3>2 DEF Still, Stays, Goes, SameAgreement, SameRoles, SameData
      <3>5. Enters(p, z, "SNK_DISCONNECTED")
        BY <2>1, <3>1, <3>2 DEF Still, Stays, Goes, Remains, Enters
      <3> QED BY <1>2, <3>3, <3>4, <3>5 DEF BecomesSource, z, c
    <2>3. ASSUME NEW v, NEW w, NEW x
          PROVE  BecomesSource(p, set_state(pd_update_roles(
                     [q EXCEPT !.snk_cap_count = v, !.caps_count = w, !.msg_id = x,
                               !.power_role = "SOURCE"]), "SRC_DISCOVERY"))
      <3> HIDE DEF q
      <3> DEFINE r == [q EXCEPT !.snk_cap_count = v, !.caps_count = w, !.msg_id = x,
                                !.power_role = "SOURCE"]
                 u == pd_update_roles(r)
                 z == set_state(u, "SRC_DISCOVERY")
      <3>1. /\ Frame(q, r) /\ SameAgreement(q, r) /\ r.power_role = "SOURCE"
            /\ r.pull = q.pull /\ Remains(q, r)
        BY <2>1 DEF HasPower, Frame, SameAgreement, Contracted, Remains
      <3> HIDE DEF r
      <3>2. /\ Frame(r, u) /\ SameAgreement(r, u) /\ u.power_role = r.power_role
            /\ u.pull = r.pull /\ HeaderTold(u) /\ Remains(r, u)
        BY <3>1 DEF HasPower, Frame, SameAgreement, Contracted, HeaderTold, Remains,
                    pd_update_roles, tcpm_set_msg_header
      <3> HIDE DEF u
      <3>3. Goes(u, z, "SRC_DISCOVERY") BY <3>2, GoesByState DEF Frame
      <3> HIDE DEF z
      <3>4. Frame(p, z) BY <2>1, <3>1, <3>2, <3>3, FrameTwice DEF Still, Stays, Goes
      <3>5. /\ SameAgreement(p, z) /\ z.power_role = "SOURCE" /\ z.pull = p.pull
            /\ HeaderTold(z)
        BY <2>1, <3>1, <3>2, <3>3
           DEF Still, Stays, Goes, SameAgreement, SameRoles, SameData, HeaderTold
      <3>6. Enters(p, z, "SRC_DISCOVERY")
        BY <2>1, <3>1, <3>2, <3>3 DEF Still, Stays, Goes, Remains, Enters
      <3> QED BY <1>2, <3>4, <3>5, <3>6 DEF BecomesSource, z, u, r
    <2> QED BY <2>2, <2>3, Zenon DEF SnkSwapComplete, Does, q
  <1>3. ASSUME p.task_state = "SRC_SWAP_STANDBY" PROVE Does(p, SrcSwapStandby(p))
    <2> DEFINE q == send_control(p, "PS_RDY")
    <2>1. Still(p, q) /\ HasPower(q) BY <1>0, SendsStill, StillHas
    <2> HIDE DEF q
    <2>2. ShowsRd(p, set_state_timeout([tcpm_set_cc(q, "RD") EXCEPT !.power_role = "SINK"],
                                       "SNK_DISCONNECTED"))
      <3> DEFINE c == tcpm_set_cc(q, "RD")
                 r == [c EXCEPT !.power_role = "SINK"]
                 z == set_state_timeout(r, "SNK_DISCONNECTED")
      <3>1. /\ Frame(q, c) /\ SameAgreement(q, c) /\ c.pull = "RD" /\ SameData(q, c)
            /\ Remains(q, c)
        BY <2>1 DEF HasPower, Frame, SameAgreement, Contracted, SameData, Remains, tcpm_set_cc
      <3> HIDE DEF c
      <3>2. /\ Frame(c, r) /\ SameAgreement(c, r) /\ r.pull = c.pull /\ SameData(c, r)
            /\ Remains(c, r) /\ r.power_role = "SINK"
        BY <3>1 DEF HasPower, Frame, SameAgreement, Contracted, SameData, Remains
      <3> HIDE DEF r
      <3>3. Awaits(r, z, "SNK_DISCONNECTED") BY <3>2, AwaitsByTimeout DEF Frame
      <3> HIDE DEF z
      <3>4. Frame(p, z) BY <2>1, <3>1, <3>2, <3>3, FrameTwice DEF Still, Stays, Awaits
      <3>5. /\ SameAgreement(p, z) /\ z.power_role = "SINK" /\ z.pull = "RD" /\ SameData(p, z)
        BY <2>1, <3>1, <3>2, <3>3
           DEF Still, Stays, Awaits, SameAgreement, SameRoles, SameData
      <3>6. Remains(p, z) BY <2>1, <3>1, <3>2, <3>3 DEF Still, Stays, Awaits, Remains
      <3> QED BY <1>3, <3>3, <3>4, <3>5, <3>6 DEF ShowsRd, Awaits, z, r, c
    <2>3. ASSUME Entering(p) PROVE Moves(p, set_state(q, "SRC_DISCONNECTED"))
      <3>1. ~IsSink(p) BY <1>3, <2>3 DEF LastFits, Entering
      <3>2. Suits("SRC_DISCONNECTED", p.power_role) /\ "SRC_DISCONNECTED" \in Disconnected
        BY <3>1, LawfulFacts DEF SrcStates, Disconnected
      <3>3. p.task_state \notin BetweenPulls BY <1>3 DEF BetweenPulls
      <3> QED BY <2>1, <3>2, <3>3, AsideMoves
    <2> QED BY <1>0, <2>2, <2>3, Zenon DEF SrcSwapStandby, OnEntry, Does, q
  <1> QED BY <1>1, <1>2, <1>3

LEMMA ResetDoes ==
    ASSUME NEW p, Lawful(p)
    PROVE  /\ p.task_state = "SOFT_RESET" => Moves(p, SoftReset(p))
           /\ p.task_state = "HARD_RESET_SEND" => Moves(p, HardResetSend(p))
           /\ p.task_state = "SRC_HARD_RESET_RECOVER" => Moves(p, SrcHardResetRecover(p))
  <1>0. HasPower(p) /\ Still(p, p) /\ Moves(p, p) BY StaysSame, StillMoves DEF Lawful
  <1>1. ASSUME p.task_state = "SOFT_RESET" PROVE Moves(p, SoftReset(p))
    <2> DEFINE z == [p EXCEPT !.msg_id = 0]
               q == send_control(z, "SOFT_RESET")
    <2>1. Still(p, z) /\ HasPower(z) BY <1>0, FieldsStill, StillHas
    <2> HIDE DEF z
    <2>2. Still(p, q) BY <2>1, SendsStill, StillTwice
    <2> HIDE DEF q
    <2>3. "HARD_RESET_SEND" \in TimerTargets(p.task_state) BY <1>1 DEF TimerTargets
    <2>4. Moves(p, set_state_timeout(q, "HARD_RESET_SEND")) BY <1>1, <2>2, <2>3, WaitDoes
    <2>5. Suits("HARD_RESET_SEND", p.power_role) /\ "HARD_RESET_SEND" \in Asides
          /\ p.task_state \notin BetweenPulls \cup Detached
      BY <1>1 DEF Suits, Unbound, Asides, BetweenPulls, Detached, Disconnected, Debouncing
    <2>6. Moves(p, set_state(q, "HARD_RESET_SEND")) BY <1>1, <2>2, <2>5, AsideMoves
    <2> QED BY <1>0, <2>4, <2>6, Zenon DEF SoftReset, OnEntry, q, z
  <1>2. ASSUME p.task_state = "HARD_RESET_SEND" PROVE Moves(p, HardResetSend(p))
    <2> DEFINE c == IF p.hard_reset_count < PD_HARD_RESET_COUNT
                    THEN p.hard_reset_count + 1 ELSE p.hard_reset_count
               b == IF Entering(p) THEN 0 ELSE p.hard_reset_sent
               q == [p EXCEPT
                       !.hard_reset_count = IF @ < PD_HARD_RESET_COUNT THEN @ + 1 ELSE @,
                       !.hard_reset_sent = IF Entering(p) THEN 0 ELSE @]
               r == pd_transmit(q, "HARD_RESET")
               t == [r EXCEPT !.hard_reset_sent = 1]
    <2>1. Still(p, q) /\ HasPower(q)
      <3>1. \A x, y : Still(p, [p EXCEPT !.hard_reset_count = x, !.hard_reset_sent = y])
        BY <1>0 DEF HasPower, Still, Stays, Frame, SameLast, SameAgreement, Contracted,
                    SameRoles, SameData, Remains, SameTimer
      <3>2. q = [p EXCEPT !.hard_reset_count = c, !.hard_reset_sent = b] OBVIOUS
      <3> HIDE DEF q, c, b
      <3>3. Still(p, q) BY <3>1, <3>2
      <3> QED BY <3>3, StillHas
    <2> HIDE DEF q
    <2>2. Still(p, r) /\ HasPower(r) BY <2>1, SendsStill, StillTwice, StillHas
    <2> HIDE DEF r
    <2>3. Still(p, t) BY <2>2, FieldsStill, StillTwice
    <2> HIDE DEF t
    <2>4. "HARD_RESET_EXECUTE" \in TimerTargets(p.task_state) BY <1>2 DEF TimerTargets
    <2>5. Moves(p, set_state_timeout(t, "HARD_RESET_EXECUTE")) BY <1>2, <2>3, <2>4, WaitDoes
    <2>6. Suits("HARD_RESET_EXECUTE", p.power_role) /\ "HARD_RESET_EXECUTE" \in Asides
          /\ p.task_state \notin BetweenPulls \cup Detached
      BY <1>2 DEF Suits, Unbound, Asides, BetweenPulls, Detached, Disconnected, Debouncing
    <2>7. Moves(p, set_state(t, "HARD_RESET_EXECUTE")) BY <1>2, <2>3, <2>6, AsideMoves
    <2>8. Moves(p, q) /\ Moves(p, r) BY <2>1, <2>2, StillMoves
    <2> QED BY <2>5, <2>7, <2>8, Zenon DEF HardResetSend, t, r, q
  <1>3. ASSUME p.task_state = "SRC_HARD_RESET_RECOVER"
        PROVE  Moves(p, SrcHardResetRecover(p))
    <2>1. p.task_state \in SrcStates BY <1>3 DEF SrcStates
    <2>2. Suits("SRC_STARTUP", p.power_role) BY <2>1, LawfulFacts DEF SrcStates
    <2>3. <<p.task_state, "SRC_STARTUP">> \in Paths BY <1>3 DEF Paths
    <2>4. Moves(p, set_state(p, "SRC_STARTUP")) BY <1>0, <2>2, <2>3, PathMoves
    <2> QED BY <1>0, <2>4 DEF SrcHardResetRecover
  <1> QED BY <1>1, <1>2, <1>3

LEMMA RecoverDoes ==
    ASSUME NEW p, Lawful(p), p.task_state = "SNK_HARD_RESET_RECOVER"
    PROVE  Moves(p, SnkHardResetRecover(p))
  <1> DEFINE f == SetFlags(p, {"CHECK_IDENTITY"})
             v == [f EXCEPT !.vbus_off = 0]
             s == NoResponse(p, "SNK_DISCOVERY")
             a == set_state_timeout(v, s)
             q == OnEntry(p, a)
  <1>0. HasPower(p) /\ Still(p, p) BY StaysSame DEF Lawful
  <1>1. Still(p, f) /\ HasPower(f) BY <1>0, FlagsStill, StillHas
  <1> HIDE DEF f
  <1>2. Still(p, v) BY <1>1, FieldsStill, StillTwice
  <1> HIDE DEF v
  <1>3. s \in TimerTargets(p.task_state) BY DEF NoResponse, TimerTargets
  <1>4. Targets(p, s)
    <2>1. Suits(s, p.power_role) BY <1>3, TargetSuits DEF Lawful, PowerRoles
    <2> QED BY <1>3, <2>1, TargetFacts DEF Targets
  <1> HIDE DEF s
  <1>5. Awaits(p, a, s) BY <1>2, StillGoes
  <1> HIDE DEF a
  <1>6. (Still(p, q) \/ Awaits(p, q, s)) /\ HasPower(q)
    <2>1. Still(p, q) \/ Awaits(p, q, s) BY <1>0, <1>5 DEF OnEntry
    <2> QED BY <2>1, StillHas DEF Awaits, Frame
  <1> HIDE DEF q
  <1>7. Moves(p, q) BY <1>4, <1>6, StillMoves DEF Moves
  <1>8. Moves(p, set_state(q, "SNK_DISCOVERY"))
    <2>1. Goes(q, set_state(q, "SNK_DISCOVERY"), "SNK_DISCOVERY") BY <1>6, GoesByState
    <2>2. Goes(p, set_state(q, "SNK_DISCOVERY"), "SNK_DISCOVERY")
      BY <1>6, <2>1, StillHas, StaysThen, AwaitsThen
    <2>3. p.task_state \in SnkStates BY DEF SnkStates
    <2>4. Suits("SNK_DISCOVERY", p.power_role) BY <2>3, LawfulFacts DEF SnkStates
    <2>5. <<p.task_state, "SNK_DISCOVERY">> \in Paths BY DEF Paths
    <2> QED BY <2>2, <2>4, <2>5, LeadsPath DEF Moves
  <1>9. \A x : pd_is_vbus_present(x) BY DEF pd_is_vbus_present, pd_snk_is_vbus_provided
  <1>10. SnkHardResetRecover(p) = IF q.vbus_off = 1 THEN set_state(q, "SNK_DISCOVERY") ELSE q
    BY <1>9, Zenon DEF SnkHardResetRecover, q, a, s, v, f
  <1> QED BY <1>7, <1>8, <1>10

LEMMA HardResetRecovers ==
    ASSUME NEW p, HasPower(p), NEW q, Still(p, q) \/
                 /\ Frame(p, q) /\ SameLast(p, q) /\ SameAgreement(p, q) /\ SameData(p, q)
                 /\ q.power_role = p.power_role /\ Remains(p, q)
                 /\ q.pull = "RD" /\ p.last_state = "SNK_SWAP_STANDBY",
           p.task_state = "HARD_RESET_EXECUTE" \/ "HARDRESET" \in p.ints
    PROVE  Recovers(p, pd_execute_hard_reset(q))
  <1> DEFINE c == [q EXCEPT !.msg_id = 0, !.last_state = "HARD_RESET_EXECUTE"]
             r == IF q.task_state \in {"SNK_SWAP_STANDBY", "SNK_SWAP_COMPLETE"}
                  THEN tcpm_set_cc(c, "RD") ELSE c
             s == ByRole(p, "SNK_HARD_RESET_RECOVER", "SRC_HARD_RESET_RECOVER")
             t == IF IsSink(p) THEN r ELSE [r EXCEPT !.src_recover = "armed"]
             z == set_state(t, s)
  <1>1. /\ Frame(p, q) /\ q.last_state = p.last_state /\ SameAgreement(p, q) /\ SameData(p, q)
        /\ q.power_role = p.power_role /\ Remains(p, q)
        /\ q.pull = p.pull \/ (q.pull = "RD" /\ p.last_state = "SNK_SWAP_STANDBY")
    BY DEF Still, Stays, SameRoles, SameLast
  <1>2. /\ Frame(q, c) /\ c.last_state = "HARD_RESET_EXECUTE" /\ SameAgreement(q, c)
        /\ SameData(q, c) /\ c.power_role = q.power_role /\ Remains(q, c) /\ c.pull = q.pull
    BY <1>1 DEF HasPower, Frame, SameAgreement, Contracted, SameData, Remains
  <1>3. pd_execute_hard_reset(q) = z
    BY <1>1, Zenon DEF pd_execute_hard_reset, IsSink, ByRole
  <1> HIDE DEF c
  <1>4. /\ Frame(c, r) /\ r.last_state = c.last_state /\ SameAgreement(c, r) /\ SameData(c, r)
        /\ r.power_role = c.power_role /\ Remains(c, r)
        /\ \/ r.pull = c.pull /\ p.task_state \notin BetweenPulls
           \/ r.pull = "RD" /\ p.task_state \in BetweenPulls
    <2>1. /\ Frame(c, c) /\ SameAgreement(c, c) /\ SameData(c, c) /\ Remains(c, c)
      BY <1>2 DEF Frame, SameAgreement, SameData, Remains
    <2>2. LET d == tcpm_set_cc(c, "RD")
          IN  /\ Frame(c, d) /\ d.last_state = c.last_state /\ SameAgreement(c, d)
              /\ SameData(c, d) /\ d.power_role = c.power_role /\ Remains(c, d) /\ d.pull = "RD"
      BY <1>2 DEF HasPower, Frame, SameAgreement, Contracted, SameData, Remains, tcpm_set_cc
    <2>3. q.task_state = p.task_state BY <1>1 DEF Remains
    <2> QED BY <2>1, <2>2, <2>3 DEF BetweenPulls
  <1> HIDE DEF r
  <1>5. Stays(r, t) /\ t.last_state = r.last_state /\ HasPower(t)
    <2>1. Still(r, t) BY <1>4, FieldsStill, StaysSame DEF Frame
    <2> HIDE DEF t
    <2> QED BY <2>1, StillHas
  <1> HIDE DEF t
  <1>6. Goes(t, z, s) /\ z.last_state = t.last_state
    BY <1>5, GoesByState DEF set_state, tcpm_set_rx_enable, HasPower
  <1> HIDE DEF z
  <1>7. Frame(p, z) BY <1>1, <1>2, <1>4, <1>5, <1>6, FrameTwice DEF Stays, Goes
  <1>8. /\ z.last_state = "HARD_RESET_EXECUTE" /\ SameAgreement(p, z)
        /\ z.power_role = p.power_role /\ SameData(p, z)
    BY <1>1, <1>2, <1>4, <1>5, <1>6 DEF Stays, Goes, SameAgreement, SameRoles, SameData
  <1>9. Enters(p, z, s)
    BY <1>1, <1>2, <1>4, <1>5, <1>6 DEF Stays, Goes, Remains, Enters
  <1>10. \/ z.pull = p.pull /\ p.task_state \notin BetweenPulls
         \/ z.pull = "RD" /\ (p.task_state \in BetweenPulls \/ p.last_state = "SNK_SWAP_STANDBY")
    BY <1>1, <1>2, <1>4, <1>5, <1>6 DEF Stays, Goes, SameRoles
  <1> QED BY <1>3, <1>7, <1>8, <1>9, <1>10 DEF Recovers, s

LEMMA ExecuteRecovers ==
    ASSUME NEW p, Lawful(p), p.task_state = "HARD_RESET_EXECUTE"
    PROVE  Recovers(p, HardResetExecute(p))
  <1>0. HasPower(p) /\ Still(p, p) BY StaysSame DEF Lawful
  <1> DEFINE c == tcpm_set_cc(p, "RD")
  <1>1. /\ Frame(p, c) /\ SameLast(p, c) /\ SameAgreement(p, c) /\ SameData(p, c)
        /\ c.power_role = p.power_role /\ Remains(p, c) /\ c.pull = "RD"
    BY <1>0 DEF HasPower, Frame, SameLast, SameAgreement, Contracted, SameData, Remains,
                tcpm_set_cc
  <1> HIDE DEF c
  <1>2. p.last_state = "SNK_SWAP_STANDBY" => Recovers(p, pd_execute_hard_reset(c))
    BY <1>0, <1>1, HardResetRecovers
  <1>3. Recovers(p, pd_execute_hard_reset(p)) BY <1>0, HardResetRecovers
  <1> QED BY <1>2, <1>3 DEF HardResetExecute, c

----------------------------------------------------------------------------
\* What is not a handler and not a message.

LEMMA RecoversThen ==
    ASSUME NEW p, NEW q, NEW r, Recovers(p, q), Still(q, r)
    PROVE  Recovers(p, r)
  <1>1. Frame(p, r) BY FrameTwice DEF Recovers, Still, Stays
  <1> QED BY <1>1 DEF Recovers, Still, Stays, SameLast, SameAgreement, SameRoles, SameData,
                      Remains, SameTimer, Enters

LEMMA AlertActs ==
    ASSUME NEW p, HasPower(p)
    PROVE  Still(p, tcpc_alert(p)) \/ Recovers(p, tcpc_alert(p))
  <1> DEFINE p0 == [p EXCEPT !.ints = {}]
             p1 == IF "COLLISION" \in p.ints THEN pd_transmit_complete(p0, "FAILED") ELSE p0
             p2 == IF "TX_SUCCESS" \in p.ints THEN pd_transmit_complete(p1, "SUCCESS") ELSE p1
             p3 == IF "RETRYFAIL" \in p.ints THEN pd_transmit_complete(p2, "FAILED") ELSE p2
             p4 == IF "HARDSENT" \in p.ints
                   THEN pd_transmit_complete(fusb302_pd_reset(p3), "SUCCESS") ELSE p3
             r5 == pd_execute_hard_reset(fusb302_pd_reset(p4))
             p5 == IF "HARDRESET" \in p.ints THEN r5 ELSE p4
             p6 == [p5 EXCEPT !.rx_fifo = << >>]
  <1>c. ASSUME NEW q, HasPower(q), NEW st PROVE Still(q, pd_transmit_complete(q, st))
    <2> DEFINE r == IF st = "SUCCESS" THEN inc_id(q) ELSE q
    <2>1. Still(q, r) /\ HasPower(r) BY <1>c, FieldsStill, StaysSame, StillHas DEF inc_id
    <2> HIDE DEF r
    <2>2. Still(q, [r EXCEPT !.tx_status = st]) BY <2>1, FieldsStill, StillTwice
    <2> QED BY <2>2 DEF pd_transmit_complete, r
  <1>1. Still(p, p0) BY FieldsStill
  <1> HIDE DEF p0
  <1>2. Still(p, p1) BY <1>1, <1>c, StillHas, StillTwice
  <1> HIDE DEF p1
  <1>3. Still(p, p2) BY <1>2, <1>c, StillHas, StillTwice
  <1> HIDE DEF p2
  <1>4. Still(p, p3) BY <1>3, <1>c, StillHas, StillTwice
  <1> HIDE DEF p3
  <1>5. Still(p, p4)
    <2>1. Still(p, fusb302_pd_reset(p3)) BY <1>4, StillHas, DriverStill, StillTwice
    <2>2. Still(p, pd_transmit_complete(fusb302_pd_reset(p3), "SUCCESS"))
      BY <2>1, <1>c, StillHas, StillTwice
    <2> QED BY <1>4, <2>2
  <1> HIDE DEF p4
  <1>6. "HARDRESET" \in p.ints => Recovers(p, r5)
    <2>1. Still(p, fusb302_pd_reset(p4)) BY <1>5, StillHas, DriverStill, StillTwice
    <2> QED BY <2>1, HardResetRecovers
  <1> HIDE DEF r5
  <1>7. (Still(p, p5) \/ Recovers(p, p5)) /\ HasPower(p5)
    <2>1. Still(p, p5) \/ Recovers(p, p5) BY <1>5, <1>6
    <2> QED BY <2>1, StillHas DEF Recovers, Frame
  <1> HIDE DEF p5
  <1>8. Still(p5, p6) BY <1>7, FieldsStill
  <1> HIDE DEF p6
  <1>9. Still(p, p6) \/ Recovers(p, p6) BY <1>7, <1>8, StillTwice, RecoversThen
  <1> QED BY <1>7, <1>9 DEF tcpc_alert, p0, p1, p2, p3, p4, r5, p5, p6

LEMMA PollActs ==
    ASSUME NEW p, HasPower(p)
    PROVE  /\ \/ Still(p, BeginRun(ServicePin(p), FALSE))
              \/ Recovers(p, BeginRun(ServicePin(p), FALSE))
           /\ \E r : /\ Still(p, r) \/ Recovers(p, r)
                     /\ Pressed(r, BeginRun(ServicePin(p), TRUE))
  <1> DEFINE q == ServicePin(p)
  <1>1. Still(p, q) \/ Recovers(p, q) BY AlertActs, StaysSame DEF ServicePin
  <1>2. HasPower(q) BY <1>1, StillHas DEF Recovers, Frame
  <1> HIDE DEF q
  <1>3. Still(q, pd_vdm_send_state_machine(q)) BY <1>2, VdmStill
  <1>4. \/ Still(p, pd_vdm_send_state_machine(q))
        \/ Recovers(p, pd_vdm_send_state_machine(q))
    BY <1>1, <1>3, StillTwice, RecoversThen
  <1> DEFINE r == [q EXCEPT !.task_state = "SOFT_RESET"]
             t == pd_vdm_send_state_machine(r)
  <1>5. Pressed(q, r)
    BY <1>2 DEF HasPower, Pressed, Frame, SameLast, SameAgreement, Contracted, SameRoles,
                SameData, SameTimer
  <1> HIDE DEF r
  <1>6. Still(r, t) BY <1>5, VdmStill DEF Pressed, Frame
  <1> HIDE DEF t
  <1>7. Pressed(q, t)
    <2>1. Frame(q, t) BY <1>5, <1>6, FrameTwice DEF Pressed, Still, Stays
    <2> QED BY <1>5, <1>6, <2>1 DEF Pressed, Still, Stays, SameLast, SameAgreement, SameRoles,
                                    SameData, Remains, SameTimer
  <1>8. BeginRun(ServicePin(p), FALSE) = pd_vdm_send_state_machine(q)
        /\ BeginRun(ServicePin(p), TRUE) = t
    BY DEF BeginRun, q, t, r
  <1> QED BY <1>1, <1>4, <1>7, <1>8

\* What the application calls.
LEMMA ApplicationActs ==
    ASSUME NEW p, Lawful(p)
    PROVE  /\ Moves(p, pd_soft_reset(p)) \/ SoftResets(p, pd_soft_reset(p))
           /\ Moves(p, pd_request_power_swap(p)) \/ AsksForSwap(p, pd_request_power_swap(p))
           /\ Moves(p, pd_request_data_swap(p)) /\ Moves(p, pd_set_new_power_request(p))
           /\ Moves(p, pd_ping_enable(p, TRUE)) /\ Moves(p, pd_send_vdm(p))
           /\ \A state : Moves(p, pd_set_dual_role(p, state))
  <1>1. HasPower(p) /\ Moves(p, p) BY StaysSame, StillMoves DEF Lawful
  <1>2. \A s : Goes(p, set_state(p, s), s) BY <1>1, GoesByState
  <1>3. Moves(p, pd_soft_reset(p)) \/ SoftResets(p, pd_soft_reset(p))
    BY <1>1, <1>2, LawfulFacts DEF pd_soft_reset, SoftResets
  <1>4. Moves(p, pd_request_power_swap(p)) \/ AsksForSwap(p, pd_request_power_swap(p))
    BY <1>1, <1>2, Zenon DEF pd_request_power_swap, AsksForSwap
  <1>5. Moves(p, pd_request_data_swap(p))
    <2>1. ASSUME p.task_state \in {"SNK_READY", "SRC_READY"} PROVE Leads(p, "DR_SWAP")
      <3>1. Stage("DR_SWAP") = Stage(p.task_state) BY <2>1, StageFacts
      <3> QED BY <2>1, <3>1 DEF Leads, Suits, Unbound, StageStep, Detached, Disconnected,
                                Debouncing, BetweenPulls, SwapStates, PowerSwapping
    <2> QED BY <1>1, <1>2, <2>1 DEF pd_request_data_swap, ReadyReturnState, ByRole, Moves
  <1>6. Moves(p, pd_set_new_power_request(p)) /\ \A state : Moves(p, pd_set_dual_role(p, state))
    BY <1>1, FieldsStill, StillMoves DEF pd_set_new_power_request, pd_set_dual_role
  <1>7. Moves(p, pd_ping_enable(p, TRUE)) BY <1>1, FlagsStill, StillMoves DEF pd_ping_enable
  <1>8. Moves(p, pd_send_vdm(p)) BY <1>1, VdmStill, StillMoves
  <1> QED BY <1>3, <1>4, <1>5, <1>6, <1>7, <1>8

LEMMA ForgetStill ==
    ASSUME NEW p, HasPower(p)
    PROVE  Still(p, Forget(p))
  BY DEF HasPower, Still, Stays, Frame, SameLast, SameAgreement, Contracted, SameRoles, SameData,
         Remains, SameTimer, Forget

LEMMA EndRunMoves ==
    ASSUME NEW p, Lawful(p), NEW ccs
    PROVE  Moves(p, Forget(CheckDisconnect(p, ccs)))
  <1> DEFINE q == CheckDisconnect(p, ccs)
  <1>1. HasPower(p) /\ Moves(p, p) /\ Still(p, p) BY StaysSame, StillMoves DEF Lawful
  <1>2. ASSUME p.task_state \notin PowerSwapping, NEW s \in Disconnected, Suits(s, p.power_role)
        PROVE  Moves(p, set_state(p, s))
    <2>1. p.task_state \notin BetweenPulls BY <1>2 DEF PowerSwapping, BetweenPulls
    <2>2. p.task_state # "SRC_SWAP_STANDBY" BY <1>2 DEF PowerSwapping
    <2> QED BY <1>1, <1>2, <2>1, <2>2, AsideMoves
  <1>3. Moves(p, q)
    <2>1. IsSink(p) => Suits("SNK_DISCONNECTED", p.power_role) BY LawfulFacts DEF SnkStates
    <2>2. ~IsSink(p) => Suits("SRC_DISCONNECTED", p.power_role) BY LawfulFacts DEF SrcStates
    <2>3. "SNK_DISCONNECTED" \in Disconnected /\ "SRC_DISCONNECTED" \in Disconnected
      BY DEF Disconnected
    <2>4. ~pd_is_power_swapping(p) /\ IsSink(p) => Moves(p, set_state(p, "SNK_DISCONNECTED"))
      BY <1>2, <2>1, <2>3 DEF pd_is_power_swapping
    <2>5. ~pd_is_power_swapping(p) /\ ~IsSink(p) => Moves(p, set_state(p, "SRC_DISCONNECTED"))
      BY <1>2, <2>2, <2>3 DEF pd_is_power_swapping
    <2> QED BY <1>1, <2>4, <2>5, Zenon DEF CheckDisconnect
  <1> HIDE DEF q
  <1>4. HasPower(q)
    <2>1. Stays(p, q) => HasPower(q) BY DEF Stays, Frame
    <2>2. \A s : Awaits(p, q, s) \/ Goes(p, q, s) => HasPower(q) BY DEF Awaits, Goes, Frame
    <2> QED BY <1>3, <2>1, <2>2 DEF Moves
  <1>5. Stays(q, Forget(q)) BY <1>4, ForgetStill, StillHas
  <1>6. Moves(p, Forget(q)) BY <1>3, <1>5, MovesThen
  <1> QED BY <1>6 DEF q

\* None of these changes last_state.
LEMMA LastKept ==
    ASSUME NEW p, HasPower(p)
    PROVE  /\ SameLast(p, pd_soft_reset(p)) /\ SameLast(p, pd_request_power_swap(p))
           /\ SameLast(p, pd_request_data_swap(p)) /\ SameLast(p, pd_set_new_power_request(p))
           /\ SameLast(p, pd_ping_enable(p, TRUE)) /\ SameLast(p, pd_send_vdm(p))
           /\ \A state : SameLast(p, pd_set_dual_role(p, state))
           /\ \A ccs : SameLast(p, Forget(CheckDisconnect(p, ccs)))
  <1>1. HasControl(p) BY PowerControl
  <1>2. \A q : Kept(p, q) => SameLast(p, q) BY DEF Kept, SameLast
  <1>3. \A s : SameLast(p, set_state(p, s)) /\ HasControl(set_state(p, s))
    BY <1>1, SetState DEF Entered, SameContract, SameLast
  <1>4. SameLast(p, p) BY DEF SameLast
  <1>5. SameLast(p, pd_ping_enable(p, TRUE)) BY <1>1, <1>2, FlagsKeep DEF pd_ping_enable
  <1>6. SameLast(p, pd_send_vdm(p)) BY <1>1, <1>2, VdmKeeps
  <1>7. /\ SameLast(p, pd_set_new_power_request(p))
        /\ \A state : SameLast(p, pd_set_dual_role(p, state))
    BY <1>1, <1>2, FieldsKeep DEF pd_set_new_power_request, pd_set_dual_role
  <1>8. \A ccs : SameLast(p, Forget(CheckDisconnect(p, ccs)))
    <2> TAKE ccs
    <2> DEFINE q == CheckDisconnect(p, ccs)
    <2>1. SameLast(p, q) /\ HasControl(q) BY <1>1, <1>3, <1>4, Zenon DEF CheckDisconnect
    <2> HIDE DEF q
    <2>2. Forget(q).last_state = q.last_state BY <2>1 DEF HasControl, Forget
    <2> QED BY <2>1, <2>2 DEF SameLast, q
  <1>9. SameLast(p, pd_soft_reset(p)) /\ SameLast(p, pd_request_data_swap(p))
        /\ SameLast(p, pd_request_power_swap(p))
    BY <1>3, <1>4, Zenon DEF pd_soft_reset, pd_request_data_swap, pd_request_power_swap
  <1> QED BY <1>5, <1>6, <1>7, <1>8, <1>9

----------------------------------------------------------------------------
\* A pass through the switch: the handler, last_state, and the timer if it is due.

LEMMA DoesThen ==
    ASSUME NEW p, NEW q, NEW r, Does(p, q), Stays(q, r)
    PROVE  Does(p, r)
  <1>1. Frame(p, q) => Frame(p, r) BY FrameTwice DEF Stays
  <1>2. Moves(p, q) => Moves(p, r) BY MovesThen
  <1>3. Toggles(p, q) => Toggles(p, r)
    BY <1>1 DEF Toggles, Stays, SameAgreement, SameRoles, SameData, SameTimer, Remains, Enters
  <1>4. Attaches(p, q) => Attaches(p, r)
    BY <1>1 DEF Attaches, Stays, SameAgreement, SameRoles, SameData, SameTimer, Remains,
                HeaderTold
  <1>5. ShowsRp(p, q) => ShowsRp(p, r)
    BY <1>1 DEF ShowsRp, Stays, SameAgreement, SameRoles, SameData, SameTimer, Remains
  <1>6. ShowsRd(p, q) => ShowsRd(p, r)
    BY <1>1 DEF ShowsRd, Stays, SameAgreement, SameRoles, SameData, SameTimer, Remains
  <1>7. BecomesSource(p, q) => BecomesSource(p, r)
    BY <1>1 DEF BecomesSource, Stays, SameAgreement, SameRoles, SameData, SameTimer, Remains,
                Enters, HeaderTold
  <1> QED BY <1>2, <1>3, <1>4, <1>5, <1>6, <1>7 DEF Does

\* The state timer runs on only where the handler left everything as it was.
LEMMA DueStays ==
    ASSUME NEW p, NEW q, Does(p, q), q.timeout = "due"
    PROVE  Stays(p, q)
  <1>1. ~Toggles(p, q) /\ ~BecomesSource(p, q) BY DEF Toggles, BecomesSource, Enters
  <1>2. ~Attaches(p, q) /\ ~ShowsRp(p, q) /\ ~ShowsRd(p, q)
    BY DEF Attaches, ShowsRp, ShowsRd
  <1>3. Moves(p, q) => Stays(p, q) BY DEF Moves, Awaits, Goes, Enters
  <1> QED BY <1>1, <1>2, <1>3 DEF Does

LEMMA DoesHas ==
    ASSUME NEW p, NEW q, Does(p, q)
    PROVE  HasPower(q)
  BY DEF Does, Moves, Stays, Awaits, Goes, Toggles, Attaches, ShowsRp, ShowsRd, BecomesSource,
         Frame

LEMMA HandledActs ==
    ASSUME NEW p, Ready(p), Lawful(p), NEW q, Ran(p, q),
           Does(p, q) \/ (p.task_state = "HARD_RESET_EXECUTE" /\ Recovers(p, q)),
           p.task_state = "SNK_SWAP_SNK_DISABLE" => Goes(p, q, "SNK_SWAP_SRC_DISABLE")
    PROVE  LET r == FinishState(q, p.task_state)
           IN  /\ Does(p, r) \/ Recovers(p, r)
               /\ r.last_state = p.task_state
               /\ r.task_state # "SNK_SWAP_SNK_DISABLE"
  <1> DEFINE c == [q EXCEPT !.last_state = p.task_state]
             f == set_state(c, c.timeout_state)
  <1>1. HasPower(q) BY DoesHas DEF Recovers, Frame
  <1>2. Stays(q, c) /\ c.last_state = p.task_state
    BY <1>1 DEF HasPower, Stays, Frame, SameAgreement, Contracted, SameRoles, SameData, Remains,
                SameTimer
  <1>3. FinishState(q, p.task_state) = IF c.timeout = "due" THEN f ELSE c BY DEF FinishState
  <1> HIDE DEF c
  <1>4. Goes(c, f, c.timeout_state) /\ f.last_state = c.last_state
    BY <1>2, GoesByState, StaysHas DEF set_state, tcpm_set_rx_enable, HasPower
  <1> HIDE DEF f
  <1>5. CASE c.timeout # "due"
    <2>1. c.task_state # "SNK_SWAP_SNK_DISABLE"
      <3>1. CASE p.task_state = "SNK_SWAP_SNK_DISABLE"
        BY <1>2, <3>1 DEF Goes, Enters, Stays, Remains
      <3>2. CASE p.task_state # "SNK_SWAP_SNK_DISABLE"
        <4>1. Moves(p, q) => q.task_state # "SNK_SWAP_SNK_DISABLE"
          BY <3>2 DEF Moves, Stays, Awaits, Goes, Remains, Enters, Leads
        <4>2. Does(p, q) => q.task_state # "SNK_SWAP_SNK_DISABLE"
          BY <3>2, <4>1 DEF Does, Toggles, Attaches, ShowsRp, ShowsRd, BecomesSource, Remains,
                            Enters
        <4>3. Recovers(p, q) => q.task_state # "SNK_SWAP_SNK_DISABLE"
          BY DEF Recovers, Enters, ByRole
        <4> QED BY <1>2, <4>2, <4>3 DEF Stays, Remains
      <3> QED BY <3>1, <3>2
    <2>2. Does(p, q) => Does(p, c) BY <1>2, DoesThen
    <2>3. p.task_state = "HARD_RESET_EXECUTE" /\ Recovers(p, q) => Recovers(p, c)
      <3>1. Frame(p, q) => Frame(p, c) BY <1>2, FrameTwice DEF Stays
      <3> QED BY <1>2, <3>1 DEF Recovers, Stays, SameAgreement, SameRoles, SameData, Remains,
                                SameTimer, Enters
    <2> QED BY <1>2, <1>3, <1>5, <2>1, <2>2, <2>3
  <1>6. CASE c.timeout = "due"
    <2>1. q.timeout = "due" /\ c.timeout_state = q.timeout_state
      BY <1>2, <1>6 DEF Stays, SameTimer
    <2>2. ~Recovers(p, q) BY <2>1 DEF Recovers, Enters
    <2>3. Stays(p, q) BY <2>1, <2>2, DueStays
    <2>4. q.timeout_state \in TimerTargets(p.task_state) BY <2>1, RanTimer DEF On
    <2>5. p.timeout = "due" /\ p.timeout_state = q.timeout_state
      BY <2>1, <2>3 DEF Stays, SameTimer
    <2>6. Leads(p, q.timeout_state) BY <2>4, <2>5, TimerLeads DEF On
    <2>7. Stays(p, c) BY <1>2, <2>3, StaysTwice
    <2>8. Goes(p, f, q.timeout_state) BY <1>4, <2>1, <2>7, StaysThen
    <2>9. Does(p, f) BY <2>6, <2>8 DEF Does, Moves
    <2>10. f.task_state # "SNK_SWAP_SNK_DISABLE" BY <2>6, <2>8 DEF Goes, Enters, Leads
    <2> QED BY <1>2, <1>3, <1>4, <1>6, <2>9, <2>10
  <1> QED BY <1>5, <1>6

----------------------------------------------------------------------------
\* Every act keeps the invariants.

LEMMA LawfulMoves ==
    ASSUME NEW p, Lawful(p), NEW q, Moves(p, q)
    PROVE  Lawful(q)
  <1>1. CASE Stays(p, q)
    BY <1>1 DEF Lawful, Stays, Frame, Remains, SameTimer, SameRoles, On
  <1>2. ASSUME NEW s, Awaits(p, q, s), Targets(p, s) PROVE Lawful(q)
    BY <1>2 DEF Lawful, Awaits, Targets, Frame, Remains, SameRoles, On
  <1>3. ASSUME NEW s, Goes(p, q, s), Leads(p, s) PROVE Lawful(q)
    BY <1>3 DEF Lawful, Goes, Leads, Frame, Enters, SameRoles, On
  <1> QED BY <1>1, <1>2, <1>3 DEF Moves

\* An act that enters a state that suits the role it leaves.
LEMMA LawfulEnters ==
    ASSUME NEW p, NEW q, HasPower(q), NEW s, Enters(p, q, s), q.power_role \in PowerRoles,
           s \in Unbound \cup (IF IsSink(q) THEN SnkStates ELSE SrcStates),
           s # "SNK_SWAP_COMPLETE"
    PROVE  Lawful(q)
  BY DEF Enters, Lawful, Suits, PowerRoles, On, IsSink

LEMMA LawfulKept ==
    ASSUME NEW p, Lawful(p), NEW q, Acts(p, q)
    PROVE  Lawful(q)
  <1>0. /\ p.power_role \in PowerRoles
        /\ p.task_state \in SnkStates => IsSink(p)
        /\ p.task_state \in SrcStates => ~IsSink(p)
    BY LawfulFacts
  <1>1. CASE Moves(p, q) BY <1>1, LawfulMoves
  <1>2. CASE Agrees(p, q)
    <2>1. HasPower(q) /\ q.power_role = p.power_role BY <1>2 DEF Agrees, Frame, SameRoles
    <2>2. CASE ~IsSink(p) /\ Enters(p, q, "SRC_ACCEPTED")
      BY <1>0, <2>1, <2>2, LawfulEnters DEF IsSink, SrcStates
    <2>3. CASE p.task_state = "SNK_REQUESTED" /\ Enters(p, q, "SNK_TRANSITION")
      BY <1>0, <2>1, <2>3, LawfulEnters DEF IsSink, SnkStates
    <2> QED BY <1>2, <2>2, <2>3 DEF Agrees
  <1>3. CASE BeginsSwap(p, q)
    <2>1. HasPower(q) /\ q.power_role = p.power_role BY <1>3 DEF BeginsSwap, Frame, SameRoles
    <2>2. CASE p.task_state = "SRC_SWAP_INIT" /\ Enters(p, q, "SRC_SWAP_SNK_DISABLE")
      BY <1>0, <2>1, <2>2, LawfulEnters DEF IsSink, SrcStates
    <2>3. CASE p.task_state = "SNK_SWAP_INIT" /\ Enters(p, q, "SNK_SWAP_SNK_DISABLE")
      BY <1>0, <2>1, <2>3, LawfulEnters DEF IsSink, SnkStates
    <2> QED BY <1>3, <2>2, <2>3 DEF BeginsSwap
  <1>4. CASE SwapsData(p, q)
    <2>1. HasPower(q) /\ q.power_role = p.power_role /\ Enters(p, q, ReadyReturnState(p))
      BY <1>4 DEF SwapsData, Frame
    <2> QED BY <1>0, <2>1, LawfulEnters DEF ReadyReturnState, ByRole, IsSink, SnkStates, SrcStates
  <1>5. CASE BecomesSink(p, q)
    BY <1>5, LawfulEnters DEF BecomesSink, Frame, IsSink, SnkStates, PowerRoles
  <1>6. CASE Toggles(p, q)
    <2>1. HasPower(q) BY <1>6 DEF Toggles, Frame
    <2>2. CASE Enters(p, q, "SRC_DISCONNECTED") /\ q.power_role = "SOURCE"
      BY <2>1, <2>2, LawfulEnters DEF IsSink, SrcStates, PowerRoles
    <2>3. CASE Enters(p, q, "SNK_DISCONNECTED") /\ q.power_role = "SINK"
      BY <2>1, <2>3, LawfulEnters DEF IsSink, SnkStates, PowerRoles
    <2> QED BY <1>6, <2>2, <2>3 DEF Toggles
  <1>7. CASE Attaches(p, q)
    <2>1. HasPower(q) /\ q.power_role = p.power_role /\ q.timeout = "off"
      BY <1>7 DEF Attaches, Frame
    <2>2. Suits(q.task_state, q.power_role) /\ q.task_state # "SNK_SWAP_COMPLETE"
      BY <1>0, <1>7, <2>1 DEF Attaches, Suits, IsSink, SnkStates, SrcStates
    <2> QED BY <1>0, <2>1, <2>2 DEF Lawful, On, PowerRoles
  <1>8. CASE ShowsRp(p, q)
    <2>1. /\ HasPower(q) /\ q.power_role = p.power_role /\ q.pull = "RP"
          /\ q.task_state = p.task_state /\ q.timeout_state = "SNK_SWAP_COMPLETE"
      BY <1>8 DEF ShowsRp, Frame, Remains
    <2>2. Suits("SNK_SWAP_COMPLETE", p.power_role)
      BY <1>0, <1>8 DEF ShowsRp, Suits, IsSink, SnkStates
    <2> QED BY <2>1, <2>2 DEF Lawful
  <1>9. CASE ShowsRd(p, q)
    BY <1>9 DEF ShowsRd, Frame, Remains, Lawful, Suits, Unbound, SnkStates
  <1>10. CASE BecomesSource(p, q)
    <2>1. HasPower(q) BY <1>10 DEF BecomesSource, Frame
    <2>2. CASE q.power_role = "SOURCE" /\ Enters(p, q, "SRC_DISCOVERY")
      BY <2>1, <2>2, LawfulEnters DEF IsSink, SrcStates, PowerRoles
    <2>3. CASE q.power_role = p.power_role /\ Enters(p, q, "SNK_DISCONNECTED")
      BY <1>0, <1>10, <2>1, <2>3, LawfulEnters DEF BecomesSource, IsSink, SnkStates
    <2> QED BY <1>10, <2>2, <2>3 DEF BecomesSource
  <1>11. ASSUME NEW s, Goes(p, q, s), s # "SNK_SWAP_COMPLETE",
                s \in Unbound \cup (IF IsSink(p) THEN SnkStates ELSE SrcStates)
         PROVE  Lawful(q)
    BY <1>0, <1>11, LawfulEnters DEF Goes, Frame, SameRoles, IsSink
  <1>12. CASE AsksForSwap(p, q)
    BY <1>0, <1>11, <1>12 DEF AsksForSwap, SnkStates, SrcStates
  <1>13. CASE SoftResets(p, q)
    BY <1>11, <1>13 DEF SoftResets, ByRole, Unbound, SnkStates, SrcStates
  <1>14. CASE Pressed(p, q)
    BY <1>14 DEF Pressed, Frame, SameRoles, SameTimer, Lawful, Suits, Unbound, On
  <1>15. CASE Recovers(p, q)
    <2>1. /\ HasPower(q) /\ q.power_role = p.power_role
          /\ Enters(p, q, ByRole(p, "SNK_HARD_RESET_RECOVER", "SRC_HARD_RESET_RECOVER"))
      BY <1>15 DEF Recovers, Frame
    <2> QED BY <1>0, <2>1, LawfulEnters DEF ByRole, IsSink, SnkStates, SrcStates
  <1> QED BY <1>1, <1>2, <1>3, <1>4, <1>5, <1>6, <1>7, <1>8, <1>9, <1>10, <1>12, <1>13, <1>14,
             <1>15 DEF Acts, Hears, Does

LEMMA LastFitsKept ==
    ASSUME NEW p, Lawful(p), LastFits(p), NEW q, Acts(p, q)
    PROVE  LastFits(q)
  <1>0. /\ p.power_role \in PowerRoles
        /\ p.task_state = "SNK_SWAP_STANDBY" => IsSink(p)
    BY LawfulFacts DEF BetweenPulls
  <1>1. CASE q.power_role = p.power_role /\ SameLast(p, q)
             /\ (q.task_state = "SRC_SWAP_STANDBY" =>
                    p.task_state = "SRC_SWAP_STANDBY" \/ ~IsSink(p))
    BY <1>1 DEF LastFits, SameLast, IsSink
  <1>2. CASE q.power_role = "SINK" /\ SameLast(p, q) /\ q.task_state # "SRC_SWAP_STANDBY"
    BY <1>2 DEF LastFits, SameLast, IsSink
  <1>3. CASE q.last_state = p.task_state
             /\ (p.task_state = "SNK_SWAP_STANDBY" => q.power_role = p.power_role)
             /\ (q.task_state = "SRC_SWAP_STANDBY" =>
                    p.task_state = "SRC_SWAP_STANDBY"
                    \/ (q.power_role = p.power_role /\ ~IsSink(p)))
    BY <1>0, <1>3 DEF LastFits, IsSink
  <1>4. Moves(p, q) =>
          /\ q.power_role = p.power_role
          /\ q.task_state = "SRC_SWAP_STANDBY" =>
                p.task_state = "SRC_SWAP_STANDBY" \/ ~IsSink(p)
    BY DEF Moves, Stays, Awaits, Goes, SameRoles, Remains, Enters, Leads
  <1>5. Agrees(p, q) \/ BeginsSwap(p, q) =>
          q.power_role = p.power_role /\ q.task_state # "SRC_SWAP_STANDBY"
    BY DEF Agrees, BeginsSwap, SameRoles, Enters
  <1>6. SwapsData(p, q) => q.power_role = p.power_role /\ q.task_state # "SRC_SWAP_STANDBY"
    BY DEF SwapsData, Enters, ReadyReturnState, ByRole
  <1>7. BecomesSink(p, q) => q.power_role = "SINK" /\ q.task_state # "SRC_SWAP_STANDBY"
    BY DEF BecomesSink, Enters
  <1>8. AsksForSwap(p, q) \/ SoftResets(p, q) =>
          q.power_role = p.power_role /\ q.task_state # "SRC_SWAP_STANDBY"
    BY DEF AsksForSwap, SoftResets, Goes, SameRoles, Enters, ByRole
  <1>9. Pressed(p, q) => q.power_role = p.power_role /\ q.task_state # "SRC_SWAP_STANDBY"
    BY DEF Pressed, SameRoles
  <1>10. Toggles(p, q) => p.task_state # "SNK_SWAP_STANDBY" /\ q.task_state # "SRC_SWAP_STANDBY"
    BY DEF Toggles, Enters
  <1>11. Attaches(p, q) => p.task_state # "SNK_SWAP_STANDBY" /\ q.task_state # "SRC_SWAP_STANDBY"
    BY DEF Attaches
  <1>12. ShowsRp(p, q) => q.power_role = p.power_role /\ q.task_state # "SRC_SWAP_STANDBY"
    BY DEF ShowsRp, Remains
  <1>13. ShowsRd(p, q) => p.task_state = "SRC_SWAP_STANDBY"
    BY DEF ShowsRd
  <1>14. BecomesSource(p, q) =>
           p.task_state # "SNK_SWAP_STANDBY" /\ q.task_state # "SRC_SWAP_STANDBY"
    BY DEF BecomesSource, Enters
  <1>15. CASE Recovers(p, q)
    <2>1. q.last_state = "HARD_RESET_EXECUTE" /\ q.task_state # "SRC_SWAP_STANDBY"
      BY <1>15 DEF Recovers, Enters, ByRole
    <2> QED BY <2>1 DEF LastFits
  <1>16. CASE SameLast(p, q)
              /\ (Hears(p, q) \/ AsksForSwap(p, q) \/ SoftResets(p, q) \/ Pressed(p, q))
    BY <1>1, <1>2, <1>4, <1>5, <1>6, <1>7, <1>8, <1>9, <1>16 DEF Hears
  <1>17. CASE q.last_state = p.task_state /\ Does(p, q)
    BY <1>3, <1>4, <1>10, <1>11, <1>12, <1>13, <1>14, <1>17 DEF Does
  <1> QED BY <1>15, <1>16, <1>17 DEF Acts

LEMMA NotSwappingKept ==
    ASSUME NoSwaps, NEW p, NotSwapping(p), NEW q, Acts(p, q)
    PROVE  NotSwapping(q)
  <1>0. p.task_state \notin SwapStates BY DEF NotSwapping
  <1>s. /\ \A s \in {"SNK_SWAP_INIT", "SRC_SWAP_INIT", "SNK_SWAP_STANDBY", "SNK_SWAP_COMPLETE",
                     "SRC_SWAP_STANDBY"} : s \in SwapStates
        /\ \A s \in {"SRC_ACCEPTED", "SNK_TRANSITION", "SNK_READY", "SRC_READY", "SOFT_RESET",
                     "SRC_DISCONNECTED", "SNK_DISCONNECTED", "SNK_DISCOVERY", "SRC_DISCOVERY",
                     "SRC_STARTUP", "SNK_HARD_RESET_RECOVER", "SRC_HARD_RESET_RECOVER"} :
              s \notin SwapStates
    BY DEF SwapStates, PowerSwapping
  <1>1. CASE Stays(p, q) BY <1>1 DEF Stays, Remains, SameTimer, NotSwapping, On
  <1>2. ASSUME NEW s, Awaits(p, q, s), Targets(p, s) PROVE NotSwapping(q)
    BY <1>0, <1>2 DEF Awaits, Targets, Remains, NotSwapping
  <1>3. ASSUME NEW s, Enters(p, q, s), s \notin SwapStates PROVE NotSwapping(q)
    BY <1>3 DEF Enters, NotSwapping, On
  <1>4. ASSUME NEW s, Goes(p, q, s), Leads(p, s) PROVE NotSwapping(q)
    BY <1>0, <1>3, <1>4 DEF Goes, Leads
  <1>5. CASE Moves(p, q) BY <1>1, <1>2, <1>4, <1>5 DEF Moves
  <1>6. CASE Agrees(p, q) BY <1>3, <1>6, <1>s DEF Agrees
  <1>7. CASE SwapsData(p, q) BY <1>3, <1>7, <1>s DEF SwapsData, ReadyReturnState, ByRole
  <1>8. CASE Toggles(p, q) BY <1>3, <1>8, <1>s DEF Toggles
  <1>9. CASE Attaches(p, q) BY <1>9, <1>s DEF Attaches, NotSwapping, On
  <1>10. CASE SoftResets(p, q) BY <1>3, <1>10, <1>s DEF SoftResets, Goes, ByRole
  <1>11. CASE Recovers(p, q) BY <1>3, <1>11, <1>s DEF Recovers, ByRole
  <1>12. CASE Pressed(p, q) BY <1>12, <1>s DEF Pressed, SameTimer, NotSwapping, On
  <1>13. ~BeginsSwap(p, q) /\ ~BecomesSink(p, q) /\ ~ShowsRp(p, q) /\ ~ShowsRd(p, q)
         /\ ~BecomesSource(p, q)
    BY <1>0, <1>s DEF BeginsSwap, BecomesSink, ShowsRp, ShowsRd, BecomesSource
  <1> QED BY <1>5, <1>6, <1>7, <1>8, <1>9, <1>10, <1>11, <1>12, <1>13 DEF Acts, Hears, Does

\* A Soft Reset between the halves of a swap to source would leave Rp to a sink.
LEMMA PullKept ==
    ASSUME SwapsUndisturbed, NEW p, Lawful(p), LastFits(p), NoSwaps => NotSwapping(p),
           PullFits(p), NEW q, Acts(p, q)
    PROVE  PullFits(q)
  <1>0. /\ p.task_state \in BetweenPulls => IsSink(p)
        /\ p.task_state = "SNK_SWAP_COMPLETE" => p.pull = "RP"
    BY LawfulFacts DEF Lawful
  <1>d. SoftResetsCome \/ MaxPresses # 0 => p.task_state \notin BetweenPulls
    BY DEF SwapsUndisturbed, NotSwapping, SwapStates, PowerSwapping, BetweenPulls
  <1>1. CASE /\ q.power_role = p.power_role /\ q.pull = p.pull
             /\ p.task_state \in BetweenPulls => q.task_state \in BetweenPulls
    BY <1>1 DEF PullFits, IsSink
  <1>2. CASE Moves(p, q)
    <2>1. /\ q.power_role = p.power_role /\ q.pull = p.pull
          /\ p.task_state \in BetweenPulls => q.task_state \in BetweenPulls
      BY <1>2 DEF Moves, Stays, Awaits, Goes, SameRoles, Remains, Enters, Leads
    <2> QED BY <1>1, <2>1
  <1>3. CASE Agrees(p, q) \/ BeginsSwap(p, q) \/ SwapsData(p, q)
    <2>1. q.power_role = p.power_role /\ q.pull = p.pull
      BY <1>3 DEF Agrees, BeginsSwap, SwapsData, SameRoles
    <2>2. p.task_state \notin BetweenPulls
      BY <1>0, <1>3 DEF Agrees, BeginsSwap, SwapsData, BetweenPulls
    <2> QED BY <1>1, <2>1, <2>2
  <1>4. CASE BecomesSink(p, q) \/ ShowsRd(p, q)
    BY <1>4 DEF BecomesSink, ShowsRd, PullFits, IsSink
  <1>5. CASE Toggles(p, q) BY <1>5 DEF Toggles, PullFits, IsSink
  <1>6. CASE Attaches(p, q) BY <1>1, <1>6 DEF Attaches, BetweenPulls
  <1>7. CASE ShowsRp(p, q) BY <1>7 DEF ShowsRp, Remains, PullFits, BetweenPulls
  <1>8. CASE BecomesSource(p, q)
    <2>1. p.pull = "RP" /\ IsSink(p) BY <1>0, <1>8 DEF BecomesSource, BetweenPulls
    <2> QED BY <1>8, <2>1 DEF BecomesSource, PullFits, IsSink
  <1>9. CASE (SoftResets(p, q) /\ SoftResetsCome) \/ AsksForSwap(p, q)
    <2>1. q.power_role = p.power_role /\ q.pull = p.pull
      BY <1>9 DEF SoftResets, AsksForSwap, Goes, SameRoles
    <2>2. p.task_state \notin BetweenPulls BY <1>d, <1>9 DEF AsksForSwap, BetweenPulls
    <2> QED BY <1>1, <2>1, <2>2
  <1>10. CASE Pressed(p, q) /\ MaxPresses # 0 BY <1>1, <1>d, <1>10 DEF Pressed, SameRoles
  <1>11. CASE Recovers(p, q)
    <2>1. CASE q.pull = p.pull /\ p.task_state \notin BetweenPulls
      BY <1>1, <1>11, <2>1 DEF Recovers
    <2>2. CASE q.pull = "RD" /\ IsSink(p) BY <1>11, <2>2 DEF Recovers, PullFits, IsSink
    <2> QED BY <1>0, <1>11, <2>1, <2>2 DEF Recovers, LastFits
  <1> QED BY <1>2, <1>3, <1>4, <1>5, <1>6, <1>7, <1>8, <1>9, <1>10, <1>11
          DEF Acts, Hears, Does

LEMMA HeaderKept ==
    ASSUME SwapsUndisturbed, ResetsConnected, NEW p, Lawful(p), NoSwaps => NotSwapping(p),
           "HARDRESET" \notin p.ints, HeaderFits(p), NEW q, Acts(p, q)
    PROVE  HeaderFits(q)
  <1>0. HeaderTold(p) /\ q.power_role = p.power_role /\ SameData(p, q) => HeaderFits(q)
    BY DEF HeaderTold, SameData, HeaderFits
  <1>d. q.task_state \in Detached \/ HeaderTold(q) => HeaderFits(q) BY DEF HeaderFits
  <1>s. \A s \in {"SRC_SWAP_INIT", "SNK_SWAP_INIT", "SNK_REQUESTED", "SNK_SWAP_STANDBY",
                  "SNK_READY", "SRC_READY", "HARD_RESET_EXECUTE"} :
           s \notin Detached /\ s # "SRC_SWAP_STANDBY"
    BY DEF Detached, Disconnected, Debouncing
  <1>1. CASE Moves(p, q)
    <2>1. CASE q.task_state = p.task_state /\ SameRoles(p, q)
      BY <2>1 DEF HeaderFits, HeaderTold, SameRoles, SameData, IsSink
    <2>2. ASSUME NEW s, Goes(p, q, s), Leads(p, s) PROVE HeaderFits(q)
      <3>1. q.task_state = s /\ SameRoles(p, q) BY <2>2 DEF Goes, Enters
      <3>2. p.task_state \in Detached => s \in Detached BY <2>2 DEF Leads
      <3>3. p.task_state = "SRC_SWAP_STANDBY" /\ IsSink(p) => s \in Detached
        BY <2>2 DEF Leads, Detached
      <3> QED BY <1>0, <1>d, <3>1, <3>2, <3>3 DEF HeaderFits, SameRoles
    <2>3. Stays(p, q) => q.task_state = p.task_state /\ SameRoles(p, q) BY DEF Stays, Remains
    <2>4. \A s : Awaits(p, q, s) => q.task_state = p.task_state /\ SameRoles(p, q)
      BY DEF Awaits, Remains
    <2> QED BY <1>1, <2>1, <2>2, <2>3, <2>4 DEF Moves
  <1>2. CASE Agrees(p, q)
    <2>1. SameRoles(p, q) BY <1>2 DEF Agrees
    <2>2. HeaderTold(p) BY <1>2, <1>s DEF Agrees, HeaderFits
    <2> QED BY <1>0, <2>1, <2>2 DEF SameRoles
  <1>3. CASE BeginsSwap(p, q)
    <2>1. SameRoles(p, q) BY <1>3 DEF BeginsSwap
    <2>2. HeaderTold(p) BY <1>3, <1>s DEF BeginsSwap, HeaderFits
    <2> QED BY <1>0, <2>1, <2>2 DEF SameRoles
  <1>4. CASE SwapsData(p, q) \/ BecomesSink(p, q) \/ Attaches(p, q)
    BY <1>d, <1>4 DEF SwapsData, BecomesSink, Attaches
  <1>5. CASE Toggles(p, q)
    BY <1>d, <1>5 DEF Toggles, Enters, Detached, Disconnected
  <1>6. CASE ShowsRp(p, q)
    <2>1. HeaderTold(p) BY <1>6, <1>s DEF ShowsRp, HeaderFits
    <2> QED BY <1>0, <1>6, <2>1 DEF ShowsRp
  <1>7. CASE ShowsRd(p, q) BY <1>7 DEF ShowsRd, Remains, HeaderFits, IsSink
  <1>8. CASE BecomesSource(p, q)
    BY <1>d, <1>8 DEF BecomesSource, Enters, Detached, Disconnected
  <1>9. CASE SoftResets(p, q) /\ SoftResetsCome
    <2>0. p.task_state # "SRC_SWAP_STANDBY"
      BY <1>9 DEF SwapsUndisturbed, NotSwapping, SwapStates, PowerSwapping
    <2>1. HeaderTold(p) BY <1>9, <2>0 DEF SoftResets, HeaderFits
    <2>2. SameRoles(p, q) BY <1>9 DEF SoftResets, Goes
    <2> QED BY <1>0, <2>1, <2>2 DEF SameRoles
  <1>10. CASE AsksForSwap(p, q)
    <2>1. HeaderTold(p) BY <1>10, <1>s DEF AsksForSwap, HeaderFits
    <2>2. SameRoles(p, q) BY <1>10 DEF AsksForSwap, Goes
    <2> QED BY <1>0, <2>1, <2>2 DEF SameRoles
  <1>11. CASE Recovers(p, q)
    <2>1. p.task_state = "HARD_RESET_EXECUTE" BY <1>11 DEF Recovers
    <2>2. HeaderTold(p) BY <2>1, <1>s DEF HeaderFits
    <2> QED BY <1>0, <1>11, <2>2 DEF Recovers
  <1> QED BY <1>1, <1>2, <1>3, <1>4, <1>5, <1>6, <1>7, <1>8, <1>9, <1>10, <1>11
          DEF Acts, Hears, Does, ResetsConnected

LEMMA ReceiverKept ==
    ASSUME ResetsConnected, NEW p, "HARDRESET" \notin p.ints, ReceiverFits(p),
           NEW q, Acts(p, q)
    PROVE  ReceiverFits(q)
  <1>s. \A s \in {"SRC_SWAP_INIT", "SNK_SWAP_INIT", "SNK_REQUESTED", "SNK_SWAP_STANDBY",
                  "SNK_SWAP_COMPLETE", "SRC_SWAP_STANDBY", "SNK_READY", "SRC_READY", "DR_SWAP",
                  "HARD_RESET_EXECUTE"} : s \notin Detached
    BY DEF Detached, Disconnected, Debouncing
  <1>1. ASSUME NEW s, Enters(p, q, s), p.task_state \in Detached => s \in Detached
        PROVE  ReceiverFits(q)
    BY <1>1 DEF Enters, ReceiverFits, Detached
  <1>2. Remains(p, q) => ReceiverFits(q) BY DEF Remains, ReceiverFits
  <1>3. Moves(p, q) => ReceiverFits(q)
    BY <1>1, <1>2 DEF Moves, Stays, Awaits, Goes, Leads
  <1>4. Agrees(p, q) \/ BeginsSwap(p, q) \/ SwapsData(p, q) \/ BecomesSink(p, q)
          => ReceiverFits(q)
    BY <1>1, <1>s DEF Agrees, BeginsSwap, SwapsData, BecomesSink
  <1>5. Toggles(p, q) => ReceiverFits(q)
    BY <1>1 DEF Toggles, Detached, Disconnected
  <1>6. Attaches(p, q) => ReceiverFits(q) BY DEF Attaches, ReceiverFits
  <1>7. ShowsRp(p, q) \/ ShowsRd(p, q) => ReceiverFits(q) BY <1>2 DEF ShowsRp, ShowsRd
  <1>8. BecomesSource(p, q) \/ Recovers(p, q) => ReceiverFits(q)
    BY <1>1, <1>s DEF BecomesSource, Recovers
  <1>9. AsksForSwap(p, q) \/ SoftResets(p, q) => ReceiverFits(q)
    BY <1>1, <1>s DEF AsksForSwap, SoftResets, Goes
  <1> QED BY <1>3, <1>4, <1>5, <1>6, <1>7, <1>8, <1>9 DEF Acts, Hears, Does, ResetsConnected

----------------------------------------------------------------------------
\* The world changes nothing of what the invariants are about: it latches interrupts,
\* fills the FIFO and makes timers due.

Alike(p, q) ==
    /\ HasPower(q)
    /\ q.task_state = p.task_state /\ SameLast(p, q)
    /\ (On(q) <=> On(p)) /\ q.timeout_state = p.timeout_state
    /\ q.flags = p.flags /\ SameRoles(p, q) /\ q.rx_enable = p.rx_enable

LEMMA AlikeSame ==
    ASSUME NEW p, HasPower(p)
    PROVE  Alike(p, p)
  BY DEF Alike, SameLast, SameRoles, SameData

LEMMA AlikeFields ==
    ASSUME NEW p, HasPower(p), NEW v
    PROVE  /\ Alike(p, [p EXCEPT !.rx_fifo = v]) /\ Alike(p, [p EXCEPT !.ints = v])
           /\ Alike(p, [p EXCEPT !.tx = v])
           /\ Alike(p, [p EXCEPT !.cap_index = v])
           /\ On(p) => Alike(p, [p EXCEPT !.timeout = "due"])
           /\ \A f \in {"vdm_timeout", "cc_debounce", "src_recover", "next_role_swap"} :
                 Alike(p, [p EXCEPT ![f] = v])
  <1>1. Alike(p, [p EXCEPT !.rx_fifo = v]) /\ Alike(p, [p EXCEPT !.ints = v])
    BY DEF HasPower, Alike, SameLast, SameRoles, SameData, On
  <1>2. Alike(p, [p EXCEPT !.tx = v]) /\ Alike(p, [p EXCEPT !.cap_index = v])
    BY DEF HasPower, Alike, SameLast, SameRoles, SameData, On
  <1>3. On(p) => Alike(p, [p EXCEPT !.timeout = "due"])
    BY DEF HasPower, Alike, SameLast, SameRoles, SameData, On
  <1>4. ASSUME NEW f \in {"vdm_timeout", "cc_debounce", "src_recover", "next_role_swap"}
        PROVE  Alike(p, [p EXCEPT ![f] = v])
    <2> DEFINE q == [p EXCEPT ![f] = v]
    <2>1. DOMAIN q = DOMAIN p /\ \A g \in DOMAIN p : g # f => q[g] = p[g] OBVIOUS
    <2>2. /\ q.task_state = p.task_state /\ q.last_state = p.last_state
          /\ q.timeout = p.timeout /\ q.timeout_state = p.timeout_state
          /\ q.flags = p.flags /\ q.rx_enable = p.rx_enable
          /\ q.power_role = p.power_role /\ q.pull = p.pull /\ q.data_role = p.data_role
          /\ q.hdr_power = p.hdr_power /\ q.hdr_data = p.hdr_data
      BY <1>4, <2>1 DEF HasPower
    <2> HIDE DEF q
    <2> QED BY <2>1, <2>2 DEF HasPower, Alike, SameLast, SameRoles, SameData, On, q
  <1> QED BY <1>1, <1>2, <1>3, <1>4

LEMMA AlikeTwice ==
    ASSUME NEW p, NEW q, NEW r, Alike(p, q), Alike(q, r)
    PROVE  Alike(p, r)
  BY DEF Alike, SameLast, SameRoles, SameData

LEMMA AlikeKeeps ==
    ASSUME NEW p, NEW q, Alike(p, q)
    PROVE  /\ Lawful(p) => Lawful(q)
           /\ LastFits(p) => LastFits(q)
           /\ NotSwapping(p) => NotSwapping(q)
           /\ PullFits(p) => PullFits(q)
           /\ HeaderFits(p) => HeaderFits(q)
           /\ ReceiverFits(p) => ReceiverFits(q)
  <1>1. Lawful(p) => Lawful(q) BY DEF Alike, SameRoles, Lawful
  <1>2. LastFits(p) => LastFits(q) BY DEF Alike, SameRoles, SameLast, LastFits, IsSink
  <1>3. NotSwapping(p) => NotSwapping(q) BY DEF Alike, NotSwapping
  <1>4. PullFits(p) => PullFits(q) BY DEF Alike, SameRoles, PullFits, IsSink
  <1>5. HeaderFits(p) => HeaderFits(q)
    BY DEF Alike, SameRoles, SameData, HeaderFits, HeaderTold, IsSink
  <1>6. ReceiverFits(p) => ReceiverFits(q) BY DEF Alike, ReceiverFits
  <1> QED BY <1>1, <1>2, <1>3, <1>4, <1>5, <1>6

LEMMA ActsFrame ==
    ASSUME NEW p, NEW q, Acts(p, q)
    PROVE  Frame(p, q)
  <1>1. Moves(p, q) => Frame(p, q) BY DEF Moves, Stays, Awaits, Goes
  <1>2. Hears(p, q) => Frame(p, q)
    BY <1>1 DEF Hears, Agrees, BeginsSwap, SwapsData, BecomesSink
  <1>3. Does(p, q) => Frame(p, q)
    BY <1>1 DEF Does, Toggles, Attaches, ShowsRp, ShowsRd, BecomesSource
  <1>4. AsksForSwap(p, q) \/ SoftResets(p, q) \/ Pressed(p, q) \/ Recovers(p, q) => Frame(p, q)
    BY DEF AsksForSwap, SoftResets, Goes, Pressed, Recovers
  <1> QED BY <1>2, <1>3, <1>4 DEF Acts

----------------------------------------------------------------------------
\* Every step of the system is one act, or two when the button is pressed.

\* Nothing but the FIFO and the array index changed before the act.
Before(p) == Alike(port, p) /\ p.ints = port.ints

Stepped ==
    \/ Alike(port, port')
    \/ \E p : Before(p) /\ Acts(p, port')
    \/ \E p, r : /\ Before(p) /\ (Still(p, r) \/ Recovers(p, r))
                 /\ Pressed(r, port') /\ MaxPresses # 0

LEMMA MessageStep ==
    ASSUME Orderly, RoleInv, PortInv, ControlInv, ProcessMessage
    PROVE  /\ Stepped
           /\ \/ port'.rx_fifo = << >>
              \/ port.rx_fifo # << >> /\ port'.rx_fifo = Tail(port.rx_fifo)
           /\ port'.ints \in {port.ints, {}}
  <1> DEFINE p == [port EXCEPT !.rx_fifo = Tail(port.rx_fifo)]
             m == Head(port.rx_fifo)
             q == handle_request(p, m)
  <1>1. pc = "msg" /\ port' = TakeMessage(port) /\ Lawful(port) /\ HasPower(port)
        /\ port.task_state # "SNK_SWAP_SNK_DISABLE" /\ (NoSwaps => NotSwapping(port))
    BY DEF ProcessMessage, RoleInv, Lawful
  <1>2. CASE port.rx_fifo = << >>
    BY <1>1, <1>2, AlikeSame DEF TakeMessage, Stepped
  <1>3. CASE port.rx_fifo # << >>
    <2>1. port.rx_fifo \in Seq(Messages) BY DEF PortInv, Sound, Ports, Fifos
    <2>2. 1 \in DOMAIN port.rx_fifo /\ m = port.rx_fifo[1] BY <1>3, <2>1
    <2>3. m \in PartnerMsgs /\ m \in Messages
      BY <2>2, PartnerMsgsAssumption DEF RoleInv
    <2>4. InTurn => MayCome(m) BY <2>2 DEF RoleInv, Heard
    <2>5. port' = q BY <1>1, <1>3 DEF TakeMessage
    <2>6. Alike(port, p) /\ p.ints = port.ints /\ p.rx_fifo = Tail(port.rx_fifo)
      BY <1>1, AlikeFields DEF HasPower
    <2> HIDE DEF p, m
    <2>7. Lawful(p) /\ p.task_state = port.task_state /\ p.pull = port.pull
          /\ (IsSink(p) <=> IsSink(port))
      BY <1>1, <2>6, AlikeKeeps DEF Alike, SameRoles, IsSink
    <2>8. m.type = "REQUEST" => ~IsSink(p)
      BY <2>3, <2>4, <2>7 DEF Orderly, InTurn, NoRequests, MayCome, IsSink
    <2>9. ASSUME m.type = "PS_RDY"
          PROVE  /\ p.task_state # "SNK_SWAP_COMPLETE"
                 /\ p.task_state = "SRC_SWAP_STANDBY" => p.pull = "RD"
      <3>1. CASE InTurn
        <4>1. p.pull = "RD" BY <2>4, <2>7, <2>9, <3>1 DEF InTurn, MayCome
        <4> QED BY <2>7, <4>1 DEF Lawful
      <3>2. CASE ~InTurn
        <4>1. p.task_state \notin SwapStates BY <1>1, <2>7, <3>2 DEF Orderly, NotSwapping
        <4> QED BY <4>1 DEF SwapStates, PowerSwapping
      <3> QED BY <3>1, <3>2
    <2>10. CanTake(p, m) BY <1>1, <2>7, <2>8, <2>9 DEF CanTake
    <2>11. SameLast(p, q)
      <3>1. HasControl(p) /\ Fits(p)
        <4>1. Ready(port) BY <1>1 DEF ControlInv
        <4> QED BY <2>6, <2>7, <4>1, PowerControl
                DEF Alike, Ready, Controlled, Fits, Contracted, Lawful
      <3>2. Taken(p, q) BY <2>3, <3>1, MessageTaken
      <3> QED BY <3>2 DEF Taken, Kept, Armed, SameLast
    <2>12. Acts(p, q)
      <3>1. \/ Hears(p, q)
            \/ m.type = "SOFT_RESET" /\ SoftResets(p, q)
        BY <2>3, <2>10, MessageHeard
      <3>2. m.type = "SOFT_RESET" => SoftResetsCome BY <2>3 DEF SoftResetsCome
      <3> QED BY <2>11, <3>1, <3>2 DEF Acts
    <2>13. q.rx_fifo \in {p.rx_fifo, << >>} /\ q.ints \in {p.ints, {}}
      BY <2>12, ActsFrame DEF Frame
    <2> QED BY <1>3, <2>5, <2>6, <2>12, <2>13 DEF Stepped, Before
  <1> QED BY <1>2, <1>3

LEMMA HandledStep ==
    ASSUME RoleInv, ControlInv, NEW s, NEW q, Handle(s, q), Ran(port, q),
           Does(port, q) \/ (port.task_state = "HARD_RESET_EXECUTE" /\ Recovers(port, q)),
           port.task_state = "SNK_SWAP_SNK_DISABLE" => Goes(port, q, "SNK_SWAP_SRC_DISABLE")
    PROVE  Acts(port, port') /\ port'.task_state # "SNK_SWAP_SNK_DISABLE"
  <1>1. Ready(port) /\ Lawful(port) BY DEF Handle, ControlInv, RoleInv
  <1>2. port' = FinishState(q, port.task_state) BY DEF Handle
  <1> DEFINE r == FinishState(q, port.task_state)
  <1>3. /\ Does(port, r) \/ Recovers(port, r)
        /\ r.last_state = port.task_state
        /\ r.task_state # "SNK_SWAP_SNK_DISABLE"
    BY <1>1, HandledActs
  <1> QED BY <1>2, <1>3 DEF Acts

LEMMA StateStep ==
    ASSUME RoleInv, ControlInv, RunState
    PROVE  Acts(port, port') /\ port'.task_state # "SNK_SWAP_SNK_DISABLE"
  <1>1. pc = "state" /\ Ready(port) /\ HasControl(port) /\ Fits(port)
    BY DEF RunState, RunAttach, RunSink, RunSource, RunSwap, RunReset, Handle,
           ControlInv, Ready, Controlled
  <1>2. Lawful(port) /\ LastFits(port) BY DEF RoleInv
  <1>3. ASSUME NEW s, NEW q, Handle(s, q), Ran(port, q), Moves(port, q) \/ Does(port, q),
               s # "SNK_SWAP_SNK_DISABLE"
        PROVE  Acts(port, port') /\ port'.task_state # "SNK_SWAP_SNK_DISABLE"
    <2>1. port.task_state = s BY <1>3 DEF Handle
    <2>2. Does(port, q) BY <1>3 DEF Does
    <2> QED BY <1>3, <2>1, <2>2, HandledStep
  <1>4. ASSUME NEW s, NEW q, Handle(s, q) PROVE port.task_state = s
    BY <1>4 DEF Handle
  <1>5. CASE RunAttach
    BY <1>1, <1>2, <1>3, <1>4, <1>5, AttachRan, DisconnectedDoes, DebounceDoes
       DEF RunAttach, Disconnected, Debouncing
  <1>6. CASE RunSink BY <1>1, <1>2, <1>3, <1>4, <1>6, SinkRan, SinkDoes DEF RunSink
  <1>7. CASE RunSource
    BY <1>1, <1>2, <1>3, <1>4, <1>7, SourceRan, SourceStateDoes DEF RunSource
  <1>8. CASE Handle("SNK_SWAP_SNK_DISABLE", SnkSwapSnkDisable(port))
    <2>1. port.task_state = "SNK_SWAP_SNK_DISABLE" BY <1>4, <1>8
    <2>2. Ran(port, SnkSwapSnkDisable(port)) BY <1>1, <2>1, SwapRan
    <2>3. Does(port, SnkSwapSnkDisable(port))
          /\ Goes(port, SnkSwapSnkDisable(port), "SNK_SWAP_SRC_DISABLE")
      BY <1>2, <2>1, SwapDoes DEF Does
    <2> QED BY <1>8, <2>2, <2>3, HandledStep
  <1>9. CASE RunSwap
    BY <1>1, <1>2, <1>3, <1>4, <1>8, <1>9, SwapRan, SwapDoes, StandbyDoes DEF RunSwap
  <1>10. CASE Handle("HARD_RESET_EXECUTE", HardResetExecute(port))
    <2>1. port.task_state = "HARD_RESET_EXECUTE" BY <1>4, <1>10
    <2>2. Ran(port, HardResetExecute(port)) BY <1>1, <2>1, ResetRan
    <2>3. Recovers(port, HardResetExecute(port)) BY <1>2, <2>1, ExecuteRecovers
    <2> QED BY <1>10, <2>1, <2>2, <2>3, HandledStep
  <1>11. CASE RunReset
    BY <1>1, <1>2, <1>3, <1>4, <1>10, <1>11, ResetRan, ResetDoes, RecoverDoes DEF RunReset
  <1> QED BY <1>5, <1>6, <1>7, <1>9, <1>11 DEF RunState

\* No step but a message enters SNK_SWAP_SNK_DISABLE.
LEMMA MovesAvoid ==
    ASSUME NEW p, p.task_state # "SNK_SWAP_SNK_DISABLE", NEW q,
           Moves(p, q) \/ AsksForSwap(p, q) \/ SoftResets(p, q) \/ Recovers(p, q) \/ Pressed(p, q)
    PROVE  q.task_state # "SNK_SWAP_SNK_DISABLE"
  <1>1. Moves(p, q) => q.task_state # "SNK_SWAP_SNK_DISABLE"
    BY DEF Moves, Stays, Awaits, Goes, Remains, Enters, Leads
  <1> QED BY <1>1 DEF AsksForSwap, SoftResets, Recovers, Pressed, Goes, Enters, ByRole

LEMMA PollStep ==
    ASSUME RoleInv, PortInv, Poll \/ PollPressed
    PROVE  /\ Stepped
           /\ port'.task_state # "SNK_SWAP_SNK_DISABLE"
           /\ port'.rx_fifo \in {port.rx_fifo, << >>}
           /\ port'.ints \in {port.ints, {}}
  <1>0. HasPower(port) /\ port.task_state # "SNK_SWAP_SNK_DISABLE"
    BY DEF Poll, PollPressed, RoleInv, Lawful
  <1>1. CASE Poll
    <2>1. Still(port, port') \/ Recovers(port, port') BY <1>0, <1>1, PollActs DEF Poll
    <2>2. Acts(port, port') /\ (Moves(port, port') \/ Recovers(port, port'))
      BY <2>1 DEF Acts, Hears, Moves, Still
    <2>3. Before(port) BY <1>0, AlikeSame DEF Before
    <2>4. port'.rx_fifo \in {port.rx_fifo, << >>} /\ port'.ints \in {port.ints, {}}
      BY <2>2, ActsFrame DEF Frame
    <2> QED BY <1>0, <2>2, <2>3, <2>4, MovesAvoid DEF Stepped
  <1>2. CASE PollPressed
    <2> DEFINE p == NextCapIndex(port)
    <2>1. Before(p) /\ HasPower(p) /\ p.rx_fifo = port.rx_fifo
          /\ p.task_state = port.task_state
      <3>1. \E v : p = [port EXCEPT !.cap_index = v] BY DEF NextCapIndex
      <3>2. \A v : Alike(port, [port EXCEPT !.cap_index = v]) BY <1>0, AlikeFields
      <3>3. \A v : [port EXCEPT !.cap_index = v].ints = port.ints
                   /\ [port EXCEPT !.cap_index = v].rx_fifo = port.rx_fifo
        BY <1>0 DEF HasPower
      <3> QED BY <3>1, <3>2, <3>3 DEF Before, Alike
    <2>2. MaxPresses # 0 BY <1>2, BoundsAssumption DEF PollPressed, PortInv
    <2>3. port' = BeginRun(ServicePin(p), TRUE) BY <1>2 DEF PollPressed
    <2> HIDE DEF p
    <2>4. PICK r : (Still(p, r) \/ Recovers(p, r)) /\ Pressed(r, port')
      BY <2>1, <2>3, PollActs
    <2>5. Frame(p, r) BY <2>4 DEF Still, Stays, Recovers
    <2>6. port'.rx_fifo \in {port.rx_fifo, << >>} /\ port'.ints \in {port.ints, {}}
      BY <2>1, <2>4, <2>5 DEF Before, Pressed, Frame
    <2>7. port'.task_state # "SNK_SWAP_SNK_DISABLE" BY <2>4 DEF Pressed
    <2> QED BY <2>1, <2>2, <2>4, <2>6, <2>7 DEF Stepped
  <1> QED BY <1>1, <1>2

LEMMA TailStep ==
    ASSUME RoleInv, EndRun \/ Application
    PROVE  Acts(port, port') /\ port'.task_state # "SNK_SWAP_SNK_DISABLE"
  <1>0. Lawful(port) /\ HasPower(port) /\ port.task_state # "SNK_SWAP_SNK_DISABLE"
    BY DEF EndRun, Application, Call, RoleInv, Lawful
  <1>1. ASSUME Moves(port, port'), SameLast(port, port')
        PROVE  Acts(port, port') /\ port'.task_state # "SNK_SWAP_SNK_DISABLE"
    BY <1>0, <1>1, MovesAvoid DEF Acts, Hears
  <1>2. CASE EndRun
    <2>1. port' = Forget(CheckDisconnect(port, cc)) BY <1>2 DEF EndRun
    <2>2. Moves(port, Forget(CheckDisconnect(port, cc))) BY <1>0, EndRunMoves
    <2>3. SameLast(port, Forget(CheckDisconnect(port, cc))) BY <1>0, LastKept
    <2> QED BY <1>1, <2>1, <2>2, <2>3
  <1>3. CASE Call("pd_soft_reset", pd_soft_reset(port))
    <2>1. port' = pd_soft_reset(port) /\ SoftResetsCome BY <1>3 DEF Call, SoftResetsCome
    <2>2. Moves(port, port') \/ SoftResets(port, port') BY <1>0, <2>1, ApplicationActs
    <2>3. SameLast(port, port') BY <1>0, <2>1, LastKept
    <2> QED BY <1>0, <1>1, <2>1, <2>2, <2>3, MovesAvoid DEF Acts
  <1>4. CASE Call("pd_request_power_swap", pd_request_power_swap(port))
    <2>1. port' = pd_request_power_swap(port) /\ ~NoSwaps BY <1>4 DEF Call, NoSwaps
    <2>2. Moves(port, port') \/ AsksForSwap(port, port') BY <1>0, <2>1, ApplicationActs
    <2>3. SameLast(port, port') BY <1>0, <2>1, LastKept
    <2> QED BY <1>0, <1>1, <2>1, <2>2, <2>3, MovesAvoid DEF Acts
  <1>5. CASE Call("pd_request_data_swap", pd_request_data_swap(port))
    BY <1>0, <1>1, <1>5, ApplicationActs, LastKept DEF Call
  <1>6. CASE Call("pd_set_new_power_request", pd_set_new_power_request(port))
    BY <1>0, <1>1, <1>6, ApplicationActs, LastKept DEF Call
  <1>7. CASE Call("pd_ping_enable", pd_ping_enable(port, TRUE))
    <2>1. port' = pd_ping_enable(port, TRUE) BY <1>7, Zenon DEF Call
    <2>2. Moves(port, pd_ping_enable(port, TRUE)) BY <1>0, ApplicationActs, Zenon
    <2>3. SameLast(port, pd_ping_enable(port, TRUE)) BY <1>0, LastKept, Zenon
    <2> QED BY <1>1, <2>1, <2>2, <2>3, Zenon
  <1>8. CASE Call("pd_send_vdm", pd_send_vdm(port))
    BY <1>0, <1>1, <1>8, ApplicationActs, LastKept DEF Call
  <1>9. ASSUME NEW state, Call(state, pd_set_dual_role(port, state))
        PROVE  Acts(port, port') /\ port'.task_state # "SNK_SWAP_SNK_DISABLE"
    <2>1. port' = pd_set_dual_role(port, state) BY <1>9 DEF Call
    <2>2. Moves(port, pd_set_dual_role(port, state)) BY <1>0, ApplicationActs
    <2>3. SameLast(port, pd_set_dual_role(port, state)) BY <1>0, LastKept
    <2> QED BY <1>1, <2>1, <2>2, <2>3
  <1> QED BY <1>2, <1>3, <1>4, <1>5, <1>6, <1>7, <1>8, <1>9, Zenon DEF Application

LEMMA WorldStep ==
    ASSUME RoleInv, PartnerSends \/ PartnerHardReset \/ TxDone \/ Plug \/ Time
    PROVE  /\ Alike(port, port')
           /\ ~PartnerResets => "HARDRESET" \notin port'.ints
           /\ PartnerSends \/ port'.rx_fifo = port.rx_fifo
           /\ pc' = pc /\ (pc = "msg" => cable' = cable)
  <1>0. HasPower(port) /\ (~PartnerResets => "HARDRESET" \notin port.ints)
    BY DEF RoleInv, Lawful
  <1>1. CASE PartnerSends
    <2>1. PICK m \in PartnerMsgs :
            port' = [port EXCEPT !.rx_fifo = Append(@, m),
                                 !.ints = IF port.rx_fifo = << >> THEN @
                                          ELSE @ \cup {"GCRCSENT"}]
      BY <1>1 DEF PartnerSends
    <2> DEFINE f == Append(port.rx_fifo, m)
               is == IF port.rx_fifo = << >> THEN port.ints ELSE port.ints \cup {"GCRCSENT"}
               p == [port EXCEPT !.rx_fifo = f]
               q == [p EXCEPT !.ints = is]
    <2>2. port' = q BY <1>0, <2>1 DEF HasPower
    <2>3. "HARDRESET" \in is => "HARDRESET" \in port.ints OBVIOUS
    <2> HIDE DEF f, is
    <2>4. Alike(port, p) BY <1>0, AlikeFields
    <2>5. Alike(p, q) /\ q.ints = is BY <2>4, AlikeFields DEF Alike, HasPower
    <2>6. Alike(port, q) BY <2>4, <2>5, AlikeTwice
    <2> HIDE DEF p, q
    <2>7. Alike(port, port') /\ port'.ints = is BY <2>2, <2>5, <2>6
    <2> QED BY <1>0, <1>1, <2>3, <2>7 DEF PartnerSends
  <1>2. CASE PartnerHardReset
    <2>1. port' = [port EXCEPT !.ints = port.ints \cup {"HARDRESET"}]
      BY <1>2 DEF PartnerHardReset
    <2>2. port'.rx_fifo = port.rx_fifo BY <1>0, <2>1 DEF HasPower
    <2>3. Alike(port, port') BY <1>0, <2>1, AlikeFields
    <2>4. pc' = pc /\ pc # "msg" BY <1>2 DEF PartnerHardReset
    <2>5. PartnerResets BY <1>2 DEF PartnerHardReset
    <2> QED BY <2>2, <2>3, <2>4, <2>5, Zenon
  <1>3. CASE TxDone
    <2>1. ASSUME NEW int, int # "HARDRESET", TxEnds(int)
          PROVE  /\ Alike(port, port')
                 /\ ~PartnerResets => "HARDRESET" \notin port'.ints
                 /\ port'.rx_fifo = port.rx_fifo
                 /\ pc' = pc /\ cable' = cable
      <3> DEFINE is == port.ints \cup {int}
                 p == [port EXCEPT !.tx = "none"]
                 q == [p EXCEPT !.ints = is]
      <3>1. port' = q BY <1>0, <2>1 DEF TxEnds, HasPower
      <3>2. "HARDRESET" \in is => "HARDRESET" \in port.ints BY <2>1
      <3> HIDE DEF is
      <3>3. Alike(port, p) BY <1>0, AlikeFields
      <3>4. Alike(p, q) /\ q.ints = is /\ q.rx_fifo = port.rx_fifo
        BY <1>0, <3>3, AlikeFields DEF Alike, HasPower
      <3>5. Alike(port, q) BY <3>3, <3>4, AlikeTwice
      <3> HIDE DEF p, q
      <3> QED BY <1>0, <2>1, <3>1, <3>2, <3>4, <3>5 DEF TxEnds
    <2> QED BY <1>3, <2>1 DEF TxDone
  <1>4. CASE Plug
    <2>1. port' = port /\ pc' = pc /\ pc # "msg" BY <1>4 DEF Plug
    <2>2. Alike(port, port) BY <1>0, AlikeSame
    <2>3. Alike(port, port') BY <2>1, <2>2, Zenon
    <2> QED BY <1>0, <2>1, <2>3, Zenon
  <1>5. CASE Time
    <2>1. CASE StateTimer
      <3>1. port' = [port EXCEPT !.timeout = "due"] /\ port.timeout = "armed"
            /\ pc' = pc /\ cable' = cable
        BY <2>1 DEF StateTimer, Passes
      <3>2. Alike(port, port') BY <1>0, <3>1, AlikeFields DEF On
      <3>3. port'.ints = port.ints /\ port'.rx_fifo = port.rx_fifo
        BY <1>0, <3>1 DEF HasPower
      <3> QED BY <1>0, <3>1, <3>2, <3>3
    <2>2. ASSUME NEW f \in {"vdm_timeout", "cc_debounce", "src_recover", "next_role_swap"},
                 NEW at, Passes(f, at)
          PROVE  /\ Alike(port, port') /\ pc' = pc /\ cable' = cable
                 /\ port'.ints = port.ints /\ port'.rx_fifo = port.rx_fifo
      <3>1. port' = [port EXCEPT ![f] = "due"] /\ pc' = pc /\ cable' = cable
        BY <2>2 DEF Passes
      <3>2. Alike(port, port') BY <1>0, <3>1, AlikeFields
      <3>3. port'.ints = port.ints /\ port'.rx_fifo = port.rx_fifo
        BY <1>0, <2>2, <3>1 DEF HasPower
      <3> QED BY <3>1, <3>2, <3>3
    <2>3. CASE VdmTimer \/ DebounceTimer \/ RecoverTimer \/ ToggleTimer
      BY <1>0, <2>2, <2>3 DEF VdmTimer, DebounceTimer, RecoverTimer, ToggleTimer
    <2> QED BY <1>5, <2>1, <2>3 DEF Time, PortTimer
  <1> QED BY <1>1, <1>2, <1>3, <1>4, <1>5

LEMMA NextStepped ==
    ASSUME Orderly, RoleInv, PortInv, ControlInv, [Next]_vars
    PROVE  Stepped
  <1>0. HasPower(port) BY DEF RoleInv, Lawful
  <1>1. Acts(port, port') => Stepped BY <1>0, AlikeSame DEF Stepped, Before
  <1>2. CASE UNCHANGED vars
    <2>1. port' = port BY <1>2 DEF vars
    <2>2. Alike(port, port') BY <1>0, <2>1, AlikeSame, Zenon
    <2> QED BY <2>2 DEF Stepped
  <1>3. CASE Loop
    <2>1. CASE Poll BY <2>1, PollStep
    <2>2. CASE ProcessMessage BY <2>2, MessageStep
    <2>3. CASE RunState BY <1>1, <2>3, StateStep
    <2>4. CASE EndRun BY <1>1, <2>4, TailStep
    <2> QED BY <1>3, <2>1, <2>2, <2>3, <2>4 DEF Loop
  <1>4. CASE PollPressed BY <1>4, PollStep
  <1>5. CASE Application BY <1>1, <1>5, TailStep
  <1>6. CASE PartnerSends \/ PartnerHardReset \/ TxDone \/ Plug \/ Time
    BY <1>6, WorldStep DEF Stepped
  <1> QED BY <1>2, <1>3, <1>4, <1>5, <1>6 DEF Next

LEMMA SteppedActs ==
    ASSUME Stepped
    PROVE  \/ Alike(port, port')
           \/ \E p : Before(p) /\ (Acts(p, port') \/ \E r : Acts(p, r) /\ Acts(r, port'))
  <1>1. \A p, r : Still(p, r) \/ Recovers(p, r) => Acts(p, r) BY DEF Still, Acts, Hears, Moves
  <1>2. \A r : Pressed(r, port') /\ MaxPresses # 0 => Acts(r, port') BY DEF Pressed, Acts
  <1> QED BY <1>1, <1>2 DEF Stepped

\* What a port keeps whatever it does.
LEMMA SteppedKeeps ==
    ASSUME Stepped, Lawful(port), LastFits(port), NoSwaps => NotSwapping(port)
    PROVE  Lawful(port') /\ LastFits(port') /\ (NoSwaps => NotSwapping(port'))
  <1> DEFINE Good(p) == Lawful(p) /\ LastFits(p) /\ (NoSwaps => NotSwapping(p))
  <1>1. \A p, q : Good(p) /\ Acts(p, q) => Good(q)
    BY LawfulKept, LastFitsKept, NotSwappingKept
  <1>2. \A p, q : Good(p) /\ Alike(p, q) => Good(q) BY AlikeKeeps
  <1>3. Good(port) OBVIOUS
  <1> HIDE DEF Good
  <1>4. Good(port') BY <1>1, <1>2, <1>3, SteppedActs DEF Before
  <1> QED BY <1>4 DEF Good

LEMMA SteppedPull ==
    ASSUME SwapsUndisturbed, Stepped, RoleInv, PullFits(port)
    PROVE  PullFits(port')
  <1> DEFINE Good(p) == /\ Lawful(p) /\ LastFits(p) /\ (NoSwaps => NotSwapping(p))
                        /\ PullFits(p)
  <1>1. \A p, q : Good(p) /\ Acts(p, q) => Good(q)
    BY LawfulKept, LastFitsKept, NotSwappingKept, PullKept
  <1>2. \A p, q : Good(p) /\ Alike(p, q) => Good(q) BY AlikeKeeps
  <1>3. Good(port) BY DEF RoleInv
  <1> HIDE DEF Good
  <1>4. Good(port') BY <1>1, <1>2, <1>3, SteppedActs DEF Before
  <1> QED BY <1>4 DEF Good

LEMMA SteppedHeader ==
    ASSUME SwapsUndisturbed, ResetsConnected, Stepped, RoleInv, HeaderFits(port)
    PROVE  HeaderFits(port')
  <1> DEFINE Good(p) == /\ Lawful(p) /\ (NoSwaps => NotSwapping(p)) /\ HeaderFits(p)
             Calm(p) == "HARDRESET" \notin p.ints
  <1>1. \A p, q : Good(p) /\ Calm(p) /\ Acts(p, q) => Good(q) /\ Calm(q)
    BY LawfulKept, NotSwappingKept, HeaderKept, ActsFrame DEF Frame
  <1>2. \A p, q : Good(p) /\ Alike(p, q) => Good(q) BY AlikeKeeps
  <1>3. Good(port) /\ Calm(port) BY DEF RoleInv, ResetsConnected
  <1>4. \A p : Before(p) => Alike(port, p) /\ Calm(p) BY <1>3 DEF Before
  <1> HIDE DEF Good, Calm
  <1>5. Good(port') BY <1>1, <1>2, <1>3, <1>4, SteppedActs
  <1> QED BY <1>5 DEF Good

LEMMA SteppedReceiver ==
    ASSUME ResetsConnected, Stepped, RoleInv, ReceiverFits(port)
    PROVE  ReceiverFits(port')
  <1> DEFINE Good(p) == ReceiverFits(p)
             Calm(p) == "HARDRESET" \notin p.ints
  <1>1. \A p, q : Good(p) /\ Calm(p) /\ Acts(p, q) => Good(q) /\ Calm(q)
    BY ReceiverKept, ActsFrame DEF Frame
  <1>2. \A p, q : Good(p) /\ Alike(p, q) => Good(q) BY AlikeKeeps
  <1>3. Good(port) /\ Calm(port) BY DEF RoleInv, ResetsConnected
  <1>4. \A p : Before(p) => Alike(port, p) /\ Calm(p) BY <1>3 DEF Before
  <1> HIDE DEF Good, Calm
  <1>5. Good(port') BY <1>1, <1>2, <1>3, <1>4, SteppedActs
  <1> QED BY <1>5 DEF Good

----------------------------------------------------------------------------
\* The invariant.

\* Every message in the FIFO may still come, if its sender may not have changed.
LEMMA FifoKept ==
    ASSUME Orderly, RoleInv, PortInv, ControlInv, [Next]_vars
    PROVE  /\ \A i \in DOMAIN port'.rx_fifo : port'.rx_fifo[i] \in PartnerMsgs
           /\ InTurn => Heard'
  <1> DEFINE f == port.rx_fifo
             g == port'.rx_fifo
             Sent == \A i \in DOMAIN g : g[i] \in PartnerMsgs
  <1>0. /\ f \in Seq(Messages)
        /\ \A i \in DOMAIN f : f[i] \in PartnerMsgs
        /\ InTurn => Heard
    BY DEF PortInv, Sound, Ports, Fifos, RoleInv
  <1>1. ASSUME g = << >> PROVE Sent /\ (InTurn => Heard')
    BY <1>1 DEF Heard
  <1>2. ASSUME pc # "msg", g \in {f, << >>} PROVE Sent /\ (InTurn => Heard')
    <2>1. InTurn => g = << >> BY <1>0, <1>2 DEF Heard
    <2>2. Sent BY <1>0, <1>2
    <2> QED BY <1>1, <2>1, <2>2
  <1>3. ASSUME \A m : MayCome(m)' <=> MayCome(m), pc' = pc, g = f
        PROVE  Sent /\ (InTurn => Heard')
    BY <1>0, <1>3 DEF Heard
  <1>4. ASSUME Alike(port, port'), cable' = cable PROVE \A m : MayCome(m)' <=> MayCome(m)
    <2>1. port'.pull = port.pull /\ port'.power_role = port.power_role
      BY <1>4 DEF Alike, SameRoles
    <2> QED BY <1>4, <2>1 DEF MayCome
  <1>5. CASE UNCHANGED vars
    <2>1. g = f /\ pc' = pc /\ \A m : MayCome(m)' <=> MayCome(m) BY <1>5 DEF vars, MayCome
    <2> QED BY <1>3, <2>1
  <1>6. CASE Poll \/ PollPressed BY <1>2, <1>6, PollStep DEF Poll, PollPressed
  <1>7. CASE ProcessMessage
    <2>1. pc = "msg" /\ pc' = "state" BY <1>7 DEF ProcessMessage
    <2>2. g = << >> \/ (f # << >> /\ g = Tail(f)) BY <1>7, MessageStep
    <2>3. ASSUME f # << >>, g = Tail(f) PROVE Sent /\ (InTurn => g = << >>)
      <3>1. \A i \in DOMAIN g : i + 1 \in DOMAIN f /\ g[i] = f[i + 1] BY <1>0, <2>3
      <3>2. Len(f) <= 1 => g = << >> BY <1>0, <2>3
      <3> QED BY <1>0, <3>1, <3>2 DEF Heard
    <2> QED BY <1>1, <2>2, <2>3
  <1>8. ASSUME Acts(port, port'), pc # "msg" PROVE Sent /\ (InTurn => Heard')
    BY <1>2, <1>8, ActsFrame DEF Frame
  <1>9. CASE RunState
    <2>1. pc # "msg"
      BY <1>9 DEF RunState, RunAttach, RunSink, RunSource, RunSwap, RunReset, Handle
    <2> QED BY <1>8, <1>9, <2>1, StateStep
  <1>10. CASE EndRun \/ Application
    <2>1. pc # "msg" BY <1>10 DEF EndRun, Application, Call
    <2> QED BY <1>8, <1>10, <2>1, TailStep
  <1>11. CASE PartnerSends
    <2>1. PICK m \in PartnerMsgs :
            /\ MayCome(m)
            /\ port' = [port EXCEPT !.rx_fifo = Append(@, m),
                                    !.ints = IF port.rx_fifo = << >> THEN @
                                             ELSE @ \cup {"GCRCSENT"}]
      BY <1>11 DEF PartnerSends
    <2>2. g = Append(f, m) /\ pc = "msg" /\ pc' = pc /\ cable' = cable /\ Len(f) < RxDepth
      <3>1. g = Append(f, m) BY <2>1 DEF RoleInv, Lawful, HasPower
      <3> QED BY <1>11, <3>1 DEF PartnerSends
    <2>3. Alike(port, port') BY <1>11, WorldStep
    <2>4. MayCome(m)' BY <1>4, <2>1, <2>2, <2>3
    <2>5. Sent
      <3>1. \A i \in DOMAIN g : (i \in DOMAIN f /\ g[i] = f[i]) \/ g[i] = m BY <1>0, <2>1, <2>2
      <3> QED BY <1>0, <2>1, <3>1
    <2>6. ASSUME InTurn PROVE Heard'
      <3>1. Len(f) = 0 BY <1>0, <2>2, <2>6, BoundsAssumption DEF InTurn
      <3>2. Len(g) = 1 /\ \A i \in DOMAIN g : g[i] = m BY <1>0, <2>1, <2>2, <3>1
      <3> QED BY <2>2, <2>4, <3>2 DEF Heard
    <2> QED BY <2>5, <2>6
  <1>12. CASE PartnerHardReset \/ TxDone \/ Plug \/ Time
    <2>1. PartnerSends => Sent /\ (InTurn => Heard') BY <1>11
    <2>2. /\ Alike(port, port') /\ pc' = pc /\ (pc = "msg" => cable' = cable)
          /\ PartnerSends \/ g = f
      BY <1>12, WorldStep
    <2> QED BY <1>2, <1>3, <1>4, <2>1, <2>2
  <1>13. Sent /\ (InTurn => Heard')
    BY <1>5, <1>6, <1>7, <1>9, <1>10, <1>11, <1>12 DEF Next, Loop
  <1> QED BY <1>13

LEMMA RoleInit ==
    ASSUME Init
    PROVE  RoleInv /\ PullFits(port) /\ HeaderFits(port) /\ ReceiverFits(port)
  <1>1. /\ HasPower(pd_init) /\ pd_init.power_role = "SINK" /\ pd_init.pull = "RD"
        /\ pd_init.task_state = "SNK_DISCONNECTED" /\ pd_init.last_state = "DISABLED"
        /\ pd_init.timeout = "off" /\ pd_init.rx_fifo = << >> /\ pd_init.ints = {}
        /\ HeaderTold(pd_init)
    BY DEF pd_init, HasPower, HeaderTold
  <1>2. "SNK_DISCONNECTED" \in SnkStates /\ "SNK_DISCONNECTED" \in Detached
        /\ "SNK_DISCONNECTED" \notin SwapStates
    BY DEF SnkStates, Detached, Disconnected, SwapStates, PowerSwapping
  <1>3. Lawful(pd_init) /\ LastFits(pd_init) /\ NotSwapping(pd_init)
    BY <1>1, <1>2 DEF Lawful, Suits, On, LastFits, NotSwapping
  <1>4. PullFits(pd_init) /\ HeaderFits(pd_init) /\ ReceiverFits(pd_init)
    BY <1>1, <1>2 DEF PullFits, HeaderFits, ReceiverFits, IsSink
  <1>5. port = pd_init /\ pc = "poll" BY DEF Init
  <1>6. Heard BY <1>1, <1>5 DEF Heard
  <1> QED BY <1>1, <1>3, <1>4, <1>5, <1>6 DEF RoleInv

LEMMA RoleKept ==
    ASSUME Orderly, RoleInv, PortInv, ControlInv, [Next]_vars
    PROVE  RoleInv'
  <1>1. Lawful(port') /\ LastFits(port') /\ (NoSwaps => NotSwapping(port'))
    BY NextStepped, SteppedKeeps DEF RoleInv
  <1>2. pc' # "state" => port'.task_state # "SNK_SWAP_SNK_DISABLE"
    <2>0. pc # "state" => port.task_state # "SNK_SWAP_SNK_DISABLE" BY DEF RoleInv
    <2>1. CASE UNCHANGED vars BY <2>0, <2>1 DEF vars
    <2>2. CASE ProcessMessage BY <2>2 DEF ProcessMessage
    <2>3. CASE Poll \/ PollPressed BY <2>3, PollStep
    <2>4. CASE RunState BY <2>4, StateStep
    <2>5. CASE EndRun \/ Application BY <2>5, TailStep
    <2>6. CASE PartnerSends \/ PartnerHardReset \/ TxDone \/ Plug \/ Time
      BY <2>0, <2>6, WorldStep DEF Alike
    <2> QED BY <2>1, <2>2, <2>3, <2>4, <2>5, <2>6 DEF Next, Loop
  <1>3. ~PartnerResets => "HARDRESET" \notin port'.ints
    <2>0. ~PartnerResets => "HARDRESET" \notin port.ints BY DEF RoleInv
    <2>1. CASE UNCHANGED vars BY <2>0, <2>1 DEF vars
    <2>2. CASE PartnerSends \/ PartnerHardReset \/ TxDone \/ Plug \/ Time BY <2>2, WorldStep
    <2>3. ASSUME Acts(port, port') PROVE "HARDRESET" \in port'.ints => "HARDRESET" \in port.ints
      BY <2>3, ActsFrame DEF Frame
    <2>4. CASE RunState BY <2>0, <2>3, <2>4, StateStep
    <2>5. CASE EndRun \/ Application BY <2>0, <2>3, <2>5, TailStep
    <2>6. CASE ProcessMessage BY <2>0, <2>6, MessageStep
    <2>7. CASE Poll \/ PollPressed BY <2>0, <2>7, PollStep
    <2> QED BY <2>1, <2>2, <2>4, <2>5, <2>6, <2>7 DEF Next, Loop
  <1> QED BY <1>1, <1>2, <1>3, FifoKept DEF RoleInv

----------------------------------------------------------------------------
\* The refinement of PDContract.

SameBargain(p, q) == q.power_role = p.power_role /\ SameAgreement(p, q)

\* The steps of PDContract, as changes of the port.
LEMMA ContractMoves ==
    ASSUME SameBargain(port, port')
    PROVE  /\ Stage(port'.task_state) = Stage(port.task_state) => UNCHANGED Contract!vars
           /\ Stage(port'.task_state) = "recovery" => Contract!Recover
           /\ Stage(port'.task_state) = "detached" => Contract!Detach
           /\ Stage(port'.task_state) = "offer"
                 /\ \/ Stage(port.task_state) = "default"
                    \/ (port.power_role = "SINK" /\ Stage(port.task_state) \in {"agreed", "settled"})
              => Contract!Propose
           /\ Stage(port'.task_state) = "moving"
                 /\ port.power_role = "SOURCE" /\ Stage(port.task_state) = "agreed"
              => Contract!Deliver
           /\ Stage(port'.task_state) = "settled"
                 /\ \/ Stage(port.task_state) \in {"offer", "agreed", "recovery"}
                    \/ (port.power_role = "SOURCE" /\ Stage(port.task_state) # "detached")
              => Contract!Settle
           /\ Stage(port'.task_state) = "default" =>
                 Contract!Attach \/ Contract!Restart
  <1>1. UNCHANGED <<port.power_role, "EXPLICIT_CONTRACT" \in port.flags>>
    BY DEF SameBargain, SameAgreement, Contracted
  <1>2. Stage(port'.task_state) = Stage(port.task_state) => UNCHANGED Contract!vars
    BY <1>1 DEF Contract!vars
  <1>3. Contract!Move(Stage(port'.task_state))
    BY <1>1 DEF Contract!Move
  <1> QED
    BY <1>2, <1>3, Zenon DEF Contract!Recover, Contract!Detach, Contract!Propose,
                             Contract!Deliver, Contract!Settle, Contract!Attach,
                             Contract!Restart

LEMMA ContractChanges ==
    /\ port'.power_role = port.power_role /\ Contracted(port')
          /\ Stage(port'.task_state) = "agreed"
          /\ (Stage(port.task_state) = "offer"
              \/ (port.power_role = "SOURCE" /\ Stage(port.task_state) # "detached"))
       => Contract!Agree
    /\ port'.power_role = port.power_role /\ ~Contracted(port')
          /\ Stage(port'.task_state) = "swapping" /\ Stage(port.task_state) = "settled"
       => Contract!BeginSwap
    /\ SameAgreement(port, port')
          /\ port'.power_role = (IF port.power_role = "SINK" THEN "SOURCE" ELSE "SINK")
          /\ Stage(port.task_state) = "detached" /\ Stage(port'.task_state) = "detached"
       => Contract!Toggle
    /\ SameAgreement(port, port')
          /\ port'.power_role = (IF port.power_role = "SINK" THEN "SOURCE" ELSE "SINK")
          /\ Stage(port.task_state) = "swapping"
          /\ Stage(port'.task_state) \in {"swapping", "default"}
       => Contract!ChangeRole
  <1>1. ASSUME port'.power_role = port.power_role, Contracted(port'),
               Stage(port'.task_state) = "agreed",
               Stage(port.task_state) = "offer"
                 \/ (port.power_role = "SOURCE" /\ Stage(port.task_state) # "detached")
        PROVE  Contract!Agree
    BY <1>1 DEF Contract!Agree, Contracted
  <1>2. ASSUME port'.power_role = port.power_role, ~Contracted(port'),
               Stage(port'.task_state) = "swapping", Stage(port.task_state) = "settled"
        PROVE  Contract!BeginSwap
    BY <1>2 DEF Contract!BeginSwap, Contracted
  <1>3. ASSUME SameAgreement(port, port'),
               port'.power_role = (IF port.power_role = "SINK" THEN "SOURCE" ELSE "SINK"),
               Stage(port.task_state) = "detached", Stage(port'.task_state) = "detached"
        PROVE  Contract!Toggle
    BY <1>3 DEF Contract!Toggle, Contract!Other, SameAgreement, Contracted
  <1>4. ASSUME SameAgreement(port, port'),
               port'.power_role = (IF port.power_role = "SINK" THEN "SOURCE" ELSE "SINK"),
               Stage(port.task_state) = "swapping",
               Stage(port'.task_state) \in {"swapping", "default"}
        PROVE  Contract!ChangeRole
    BY <1>4 DEF Contract!ChangeRole, Contract!Other, SameAgreement, Contracted
  <1> QED BY <1>1, <1>2, <1>3, <1>4

LEMMA ActsServe ==
    ASSUME NEW p, Alike(port, p), Lawful(p), Acts(p, port')
    PROVE  [Contract!Next]_(Contract!vars)
  <1> DEFINE q == port'
             a == Stage(port.task_state)
             b == Stage(port'.task_state)
  <1>0. /\ p.task_state = port.task_state /\ p.power_role = port.power_role
        /\ SameAgreement(p, q) <=> SameAgreement(port, q)
        /\ p.power_role \in {"SINK", "SOURCE"} /\ (IsSink(p) <=> p.power_role = "SINK")
    BY DEF Alike, SameRoles, SameAgreement, Contracted, Lawful, IsSink
  <1>1. /\ p.task_state \in SnkStates => p.power_role = "SINK"
        /\ p.task_state \in SrcStates => p.power_role = "SOURCE"
        /\ p.task_state \in BetweenPulls => p.power_role = "SINK"
    BY <1>0, LawfulFacts
  <1>2. ASSUME SameBargain(p, q), b = a \/ b \in {"recovery", "detached", "default"}
        PROVE  [Contract!Next]_(Contract!vars)
    <2>1. SameBargain(port, port') BY <1>0, <1>2 DEF SameBargain
    <2> QED BY <1>2, <2>1, ContractMoves DEF Contract!Next
  <1>3. CASE Moves(p, q)
    <2>1. CASE q.task_state = p.task_state /\ SameAgreement(p, q) /\ SameRoles(p, q)
      BY <1>0, <1>2, <2>1 DEF SameBargain, SameRoles
    <2>2. ASSUME NEW s, Goes(p, q, s), Leads(p, s) PROVE [Contract!Next]_(Contract!vars)
      <3>1. SameBargain(p, q) /\ b = Stage(s) /\ StageStep(a, b, p.power_role)
        BY <1>0, <2>2 DEF Goes, Leads, SameBargain, SameRoles, Enters
      <3>2. SameBargain(port, port') BY <1>0, <3>1 DEF SameBargain
      <3>3. CASE b = "offer" /\ (\/ a = "default"
                                  \/ (p.power_role = "SINK" /\ a \in {"agreed", "settled"}))
        BY <1>0, <3>2, <3>3, ContractMoves DEF Contract!Next
      <3>4. CASE b = "moving" /\ p.power_role = "SOURCE" /\ a = "agreed"
        BY <1>0, <3>2, <3>4, ContractMoves DEF Contract!Next
      <3>5. CASE b = "settled" /\ (\/ a \in {"offer", "agreed", "recovery"}
                                    \/ (p.power_role = "SOURCE" /\ a # "detached"))
        BY <1>0, <3>2, <3>5, ContractMoves DEF Contract!Next
      <3> QED BY <1>2, <3>1, <3>3, <3>4, <3>5 DEF StageStep
    <2>3. Stays(p, q) => q.task_state = p.task_state /\ SameAgreement(p, q) /\ SameRoles(p, q)
      BY DEF Stays, Remains
    <2>4. \A s : Awaits(p, q, s) =>
                   q.task_state = p.task_state /\ SameAgreement(p, q) /\ SameRoles(p, q)
      BY DEF Awaits, Remains
    <2> QED BY <1>3, <2>1, <2>2, <2>3, <2>4 DEF Moves
  <1>4. CASE Agrees(p, q)
    <2>1. q.power_role = port.power_role /\ Contracted(q) BY <1>0, <1>4 DEF Agrees, SameRoles
    <2>2. b = "agreed"
      BY <1>4, StageFacts DEF Agrees, Enters
    <2>3. a = "offer" \/ (port.power_role = "SOURCE" /\ a # "detached")
      <3>1. CASE p.task_state = "SNK_REQUESTED" BY <1>0, <3>1, StageFacts
      <3>2. CASE ~IsSink(p) /\ p.task_state \notin Detached
        BY <1>0, <3>2, SuitsFacts DEF Lawful, PowerRoles
      <3> QED BY <1>4, <3>1, <3>2 DEF Agrees
    <2>4. Contract!Agree BY <2>1, <2>2, <2>3, ContractChanges
    <2> QED BY <2>4 DEF Contract!Next
  <1>5. CASE BeginsSwap(p, q)
    <2>1. q.power_role = port.power_role /\ ~Contracted(q)
      BY <1>0, <1>5 DEF BeginsSwap, SameRoles
    <2>2. a = "settled" /\ b = "swapping"
      BY <1>0, <1>5, StageFacts DEF BeginsSwap, Enters, PowerSwapping
    <2>3. Contract!BeginSwap BY <2>1, <2>2, ContractChanges
    <2> QED BY <2>3 DEF Contract!Next
  <1>6. CASE SwapsData(p, q)
    <2>1. a = "settled" /\ b = "settled"
      BY <1>0, <1>6, StageFacts DEF SwapsData, Enters, ReadyReturnState, ByRole
    <2> QED BY <1>2, <1>6, <2>1 DEF SwapsData, SameBargain
  <1>7. CASE AsksForSwap(p, q)
    <2>1. a = "settled" /\ b = "settled"
      BY <1>0, <1>7, StageFacts DEF AsksForSwap, Goes, Enters
    <2> QED BY <1>2, <1>7, <2>1 DEF AsksForSwap, Goes, SameRoles, SameBargain
  <1>8. CASE SoftResets(p, q)
    <2>1. b \in {"recovery", "default"}
      BY <1>8, StageFacts DEF SoftResets, Goes, Enters, ByRole
    <2> QED BY <1>2, <1>8, <2>1 DEF SoftResets, Goes, SameRoles, SameBargain
  <1>9. CASE Recovers(p, q)
    <2>1. b = "recovery" BY <1>9, StageFacts DEF Recovers, Enters, ByRole
    <2> QED BY <1>2, <1>9, <2>1 DEF Recovers, SameBargain
  <1>10. CASE Pressed(p, q)
    <2>1. b = "recovery" BY <1>10, StageFacts DEF Pressed
    <2> QED BY <1>2, <1>10, <2>1 DEF Pressed, SameRoles, SameBargain
  <1>11. CASE Toggles(p, q)
    <2>1. a = "detached" /\ b = "detached"
      BY <1>0, <1>11, StageFacts DEF Toggles, Enters, Detached, Disconnected
    <2>2. q.power_role = (IF port.power_role = "SINK" THEN "SOURCE" ELSE "SINK")
      BY <1>0, <1>1, <1>11 DEF Toggles, SnkStates, SrcStates
    <2>3. Contract!Toggle BY <1>0, <1>11, <2>1, <2>2, ContractChanges DEF Toggles
    <2> QED BY <2>3 DEF Contract!Next
  <1>12. CASE Attaches(p, q)
    <2>1. b = "default" BY <1>12, StageFacts DEF Attaches
    <2> QED BY <1>2, <1>12, <2>1 DEF Attaches, SameBargain
  <1>13. CASE ShowsRp(p, q)
    BY <1>0, <1>2, <1>13 DEF ShowsRp, Remains, SameBargain
  <1>14. ASSUME p.task_state \in PowerSwapping, SameAgreement(p, q),
                q.power_role = (IF p.power_role = "SINK" THEN "SOURCE" ELSE "SINK"),
                b \in {"swapping", "default"}
         PROVE  [Contract!Next]_(Contract!vars)
    <2>1. a = "swapping" BY <1>0, <1>14, StageFacts
    <2>2. Contract!ChangeRole BY <1>0, <1>14, <2>1, ContractChanges
    <2> QED BY <2>2 DEF Contract!Next
  <1>15. CASE ShowsRd(p, q)
    <2>1. p.task_state \in PowerSwapping /\ q.task_state = p.task_state /\ b = "swapping"
      BY <1>15, StageFacts DEF ShowsRd, Remains, PowerSwapping
    <2>2. CASE p.power_role = "SINK"
      BY <1>0, <1>2, <1>15, <2>1, <2>2 DEF ShowsRd, SameBargain
    <2> QED BY <1>0, <1>14, <1>15, <2>1, <2>2 DEF ShowsRd
  <1>16. CASE BecomesSink(p, q)
    <2>1. p.task_state \in PowerSwapping /\ b = "default"
      BY <1>16, StageFacts DEF BecomesSink, Enters, PowerSwapping
    <2>2. CASE p.power_role = "SINK"
      BY <1>2, <1>16, <2>1, <2>2 DEF BecomesSink, SameBargain
    <2> QED BY <1>0, <1>14, <1>16, <2>1, <2>2 DEF BecomesSink
  <1>17. CASE BecomesSource(p, q)
    <2>1. p.task_state \in PowerSwapping /\ p.power_role = "SINK" /\ SameAgreement(p, q)
      BY <1>1, <1>17 DEF BecomesSource, PowerSwapping, SnkStates
    <2>2. CASE q.power_role = "SOURCE" /\ Enters(p, q, "SRC_DISCOVERY")
      <3>1. b = "default" BY <2>2, StageFacts DEF Enters
      <3> QED BY <1>14, <2>1, <2>2, <3>1
    <2>3. CASE q.power_role = p.power_role /\ Enters(p, q, "SNK_DISCONNECTED")
      <3>1. b = "detached" BY <2>3, StageFacts DEF Enters, Detached, Disconnected
      <3> QED BY <1>2, <2>1, <2>3, <3>1 DEF SameBargain
    <2> QED BY <1>17, <2>2, <2>3 DEF BecomesSource
  <1> QED BY <1>3, <1>4, <1>5, <1>6, <1>7, <1>8, <1>9, <1>10, <1>11, <1>12, <1>13, <1>15,
             <1>16, <1>17 DEF Acts, Hears, Does

LEMMA StepServes ==
    ASSUME RoleInv, Stepped
    PROVE  [Contract!Next]_(Contract!vars)
  <1>1. CASE Alike(port, port')
    <2>1. SameBargain(port, port') /\ Stage(port'.task_state) = Stage(port.task_state)
      BY <1>1 DEF Alike, SameRoles, SameBargain, SameAgreement, Contracted
    <2> QED BY <2>1, ContractMoves
  <1>2. ASSUME NEW p, Before(p), Acts(p, port') PROVE [Contract!Next]_(Contract!vars)
    <2>1. Alike(port, p) /\ Lawful(p) BY <1>2, AlikeKeeps DEF Before, RoleInv
    <2> QED BY <1>2, <2>1, ActsServe
  <1>3. ASSUME NEW p, NEW r, Before(p), Still(p, r) \/ Recovers(p, r), Pressed(r, port')
        PROVE  [Contract!Next]_(Contract!vars)
    <2>1. r.power_role = p.power_role /\ SameAgreement(p, r)
      BY <1>3 DEF Still, Stays, SameRoles, Recovers
    <2>2. port'.power_role = r.power_role /\ SameAgreement(r, port')
      BY <1>3 DEF Pressed, SameRoles
    <2>3. p.power_role = port.power_role /\ SameAgreement(port, p)
      BY <1>3 DEF Before, Alike, SameRoles, SameAgreement, Contracted
    <2>4. SameBargain(port, port') BY <2>1, <2>2, <2>3 DEF SameBargain, SameAgreement
    <2>5. Stage(port'.task_state) = "recovery" BY <1>3, StageFacts DEF Pressed
    <2> QED BY <2>4, <2>5, ContractMoves DEF Contract!Next
  <1> QED BY <1>1, <1>2, <1>3 DEF Stepped

----------------------------------------------------------------------------
\* The theorems.

\* The state, the role, the timer and the FIFO fit each other in every reachable state.
LEMMA RoleInvariant == ASSUME Orderly PROVE Spec => []RoleInv
  <1>1. Init => RoleInv BY RoleInit
  <1>2. RoleInv /\ PortInv /\ ControlInv /\ [Next]_vars => RoleInv' BY RoleKept
  <1> QED BY <1>1, <1>2, PortInvariant, ControlInvariant, PTL DEF Spec

\* pd_run_state_machine, handle_ps_rdy, handle_accept: the state always belongs to the
\* power role, through every toggle, negotiation, swap, time-out and reset, and a timer
\* never leads out of it.
THEOREM RoleFitsState == ASSUME Orderly PROVE Spec => []RoleMatchesState
  <1>1. RoleInv => RoleMatchesState
    BY LawfulFacts DEF RoleInv, RoleMatchesState, IsSink, PowerRoles
  <1> QED BY <1>1, RoleInvariant, PTL

\* tcpm_set_cc in drp_state, SNK_SWAP_STANDBY, SNK_SWAP_COMPLETE, SRC_SWAP_STANDBY and
\* pd_execute_hard_reset: the resistor shown is that of the role, outside the two states
\* in which a sink becomes a source.
THEOREM PullFitsRole ==
    ASSUME Orderly, SwapsUndisturbed
    PROVE  Spec => []PullMatchesRole
  <1>1. Init => PullFits(port) BY RoleInit
  <1>2. /\ RoleInv /\ PortInv /\ ControlInv /\ PullFits(port) /\ [Next]_vars
        => PullFits(port)'
    BY NextStepped, SteppedPull
  <1>3. PullFits(port) => PullMatchesRole
    BY DEF PullFits, PullMatchesRole, BetweenPulls, IsSink
  <1> QED
    BY <1>1, <1>2, <1>3, RoleInvariant, PortInvariant, ControlInvariant, PTL DEF Spec

\* pd_update_roles: whoever changes a role of a connected port tells the chip, which
\* answers every packet with the header it was told.
THEOREM HeaderFitsRoles ==
    ASSUME Orderly, SwapsUndisturbed, ResetsConnected
    PROVE  Spec => []HeaderMatchesRoles
  <1>1. Init => HeaderFits(port) BY RoleInit
  <1>2. /\ RoleInv /\ PortInv /\ ControlInv /\ HeaderFits(port) /\ [Next]_vars
        => HeaderFits(port)'
    BY NextStepped, SteppedHeader
  <1>3. RoleInv /\ HeaderFits(port) => HeaderMatchesRoles
    BY LawfulFacts DEF RoleInv, HeaderFits, HeaderTold, HeaderMatchesRoles
  <1> QED
    BY <1>1, <1>2, <1>3, RoleInvariant, PortInvariant, ControlInvariant, PTL DEF Spec

\* set_state, tcpm_set_rx_enable: no path leads to a connected state past the attachment
\* that turns the receiver on, and none turns it off but one that disconnects.
THEOREM ConnectedListens ==
    ASSUME Orderly, ResetsConnected
    PROVE  Spec => []ListeningWhenConnected
  <1>1. Init => ReceiverFits(port) BY RoleInit
  <1>2. /\ RoleInv /\ PortInv /\ ControlInv /\ ReceiverFits(port) /\ [Next]_vars
        => ReceiverFits(port)'
    BY NextStepped, SteppedReceiver
  <1>3. RoleInv /\ ReceiverFits(port) => ListeningWhenConnected
    BY LawfulFacts DEF RoleInv, ReceiverFits, ListeningWhenConnected
  <1> QED
    BY <1>1, <1>2, <1>3, RoleInvariant, PortInvariant, ControlInvariant, PTL DEF Spec

\* pd_run_state_machine and the message handlers implement the contract: every step of
\* the loop is one step of PDContract or none, whatever is heard, lost, swapped or reset.
THEOREM ContractImplemented == ASSUME Orderly PROVE Spec => ImplementsContract
  <1>1. Init => Contract!Init
    <2>1. Init => /\ port.task_state = "SNK_DISCONNECTED" /\ port.power_role = "SINK"
                  /\ port.flags = {}
      BY DEF Init, pd_init
    <2>2. Stage("SNK_DISCONNECTED") = "detached"
      BY StageFacts DEF Detached, Disconnected
    <2> QED BY <2>1, <2>2 DEF Contract!Init
  <1>2. RoleInv /\ PortInv /\ ControlInv /\ [Next]_vars => [Contract!Next]_(Contract!vars)
    BY NextStepped, StepServes
  <1> QED
    BY <1>1, <1>2, RoleInvariant, PortInvariant, ControlInvariant, PTL
       DEF Spec, ImplementsContract, Contract!Spec
=============================================================================
