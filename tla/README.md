# A TLA+ model of the NOA ESP32 PD firmware

The firmware makes an ESP32 with an FUSB302 transceiver into a USB-C Power Delivery
port. It is a port of the Chromium EC library to a single Arduino `loop()`: the
tasks, events and hooks of the original are commented out, and several of the
behaviours below follow from that. This directory models the protocol stack with
the policy, the board hooks and the driver as the stack sees it; below that, the driver
register by register; and the two calculations everything rests on, the clock's and the
request's. TLC checks the models, also against two abstract specifications, and
TLAPS proves invariants of them and both refinements.

Line numbers are those of `src/NOA_ESP32_PD/`.

## 1. Inventory

| part | state | operations | interacts with |
|---|---|---|---|
| `NOA_ESP32_PD.ino` | button samples, index of the requested PDO and its maximum | `setup`, `loop`, `pd_process_source_cap_callback` | polls the interrupt pin and calls `tcpc_alert`, then `pd_run_state_machine(0, reset)` |
| `usb_pd_protocol.cpp` | `pd[port]` (roles, state, timer, flags, message ID, VDM sender), file statics (`hard_reset_count`, `caps_count`, `snk_cap_count`, `drp_state`, ...) | the state machine, message handlers, resets, public requests, `pd_transmit_complete` and `pd_execute_hard_reset` (called back by the driver) | driver through `tcpm_*`, policy, board hooks |
| `usb_pd_policy.cpp` | `pd_src_caps`, `pd_src_cap_cnt`, `max_request_mv` | storing an offer, building a request, checking a request | index of the sketch |
| `usb_pd_driver.cpp` | none | board answers: VBUS present, swaps refused, clock | Arduino clock |
| `FUSB302.cpp` | `state[port]` (pull, polarity, receiver, thresholds); in the chip: switches, FIFOs, interrupt registers | CC measurement, transmit, receive, alert | the CC wire; calls back into the protocol |
| `tcpm_driver.cpp`, `tcpm.h` | none | forwarding, I2C transfers, whose failures nobody notices | the I2C bus |
| console, host commands, hooks | - | under `CONFIG_COMMON_RUNTIME` (not defined), or no longer hooked | - |

What is hard here:

* **The result of a transmission is not there yet.** `pd_transmit` starts a
  transmission and returns the status the *last alert* left (540). Success, failure
  and collision arrive at any later pass. Every branch on that result is taken on
  stale data.
* **Timers and entry work.** One timer per port, stopped by every `set_state`, armed
  only when a handler sees `last_state != task_state`. Messages are handled *before*
  the handler in the same pass, so a state can be left and entered again unseen.
* **Two callbacks change the state beside the handlers**: the alert (Hard Reset) and
  the push button (which writes `task_state` directly, 2136).
* **Power role swaps** change resistor, role and header at three different steps.
* **Attach and detach** race with everything above.
* **A driver call is many I2C accesses** (a CC measurement has about ten). The chip receives,
  acknowledges and latches interrupts between them, and goes on when the ESP32 is
  reset in the middle of one.

For each part, what makes it correct:

* protocol: a timer belongs to the state it fires in; timed waits end; power moves
  only straight from an agreement and no contract spans a swap; role, resistor and header agree;
* attach: the right pin, only partners, a disconnected port is deaf, a connected one
  listens, nothing of the former partner is left;
* policy: what is requested was offered; a request that is accepted can be satisfied;
* VDM sender: an awaited answer has a deadline and does not block the port;
* recovery: Hard Resets are limited for a partner that does not speak PD;
* driver: registers and memory agree after every call; a measurement disturbs nothing;
  what was acknowledged is delivered; a reset of the board leaves nothing behind;
* clock and request arithmetic: no early deadline, nothing requested beyond the offer.

## 2. Modules

```
PDTypes      vocabulary, the port record
  FUSB302      driver as seen by the protocol
    PDPolicy     offers, requests, board hooks
      PDProtocol   usb_pd_protocol.cpp below the state machine, and the alert handler
        PDStates     the switch of pd_run_state_machine
          PDPort       the loop, the world around it, fairness
            PDPortProps  properties; the port as a PDContract
              MCPort         definitions for the runs
              PDPortProofs   types, receiver, VDM deadlines
                PDControlProofs  states, timers and contracts
                  PDRoleProofs     roles, resistor, header; the refinement of PDContract
                PDAttachProofs   receiver and CC pin
PDContract   what a port promises about its contract (abstract)

FUSB302Chip  the driver access by access, the chip, the cable, resets of the board
  MCChip       definitions for the runs
  FUSB302ChipProofs     registers and calls; the refinement of Transceiver
    FUSB302ReadingProofs  CC measurements
Transceiver  what the protocol relies on in its transceiver (abstract)

Clock        get_time and deadlines
PdoPower     arithmetic of a request
  MCLive       MCPort, Clock and PdoPower: liveness, and what it rests on
    ClockProofs, PdoPowerProofs   theorems about the two
```

`PDPortProps` shows `PDPort` to implement `PDContract`, `FUSB302Chip` shows itself to
implement `Transceiver`, both by `INSTANCE ... WITH`. `FUSB302Chip` also instantiates
`FUSB302`: the measurements must yield what that module says `tcpm_get_cc` returns.

**Correspondence.** One port is one record `port` (type `Ports`): the fields of
`struct pd_protocol`, the file statics, the sink policy's arrays, the sketch's two
indices, and the chip's registers the code reads back. A C function is an operator
of the same name from a record to a record; a case of the switch is an operator named
after its state (`SRC_NEGOCIATE` is `SrcNegociate`). `pc`, `cable` and `presses`
complete the state. `PROJECT.json` maps every definition to its lines.

A pass of `loop()` is four actions, for nothing runs concurrently to the code except
the chip and the partner, and those are felt only where the code looks:

| `pc` | action | code |
|---|---|---|
| `poll` | `Poll`, `PollPressed` | button, `tcpc_alert` if the pin is low, `pd_vdm_send_state_machine` |
| `msg` | `ProcessMessage` | `tcpm_get_message`, `handle_request` |
| `state` | `RunAttach` ... `RunReset` | the handler of the current state, `last_state`, the state timer |
| `tail` | `EndRun` | disconnect detection |

Between them: `PartnerSends`, `PartnerHardReset`, `TxDone` (acknowledged, given up,
collided, Hard Reset sent), `Plug`, five timers, and `Application` (the public
functions, between two passes, as an Arduino program can call them).

**The contract.** `PDContract` has a stage, a power role and a contract bit, and no
messages, timers or partner. `Stage` maps each state to one of eight stages. It
says that a contract begins only with an agreement (a Request accepted), ends
with the step that begins a swap and nowhere else (the code keeps the flag over
disconnects and resets), and that the role changes only while detached or swapping. A
source moves its supply (`Deliver`) straight from an agreement: once a Soft Reset, a refused
Request or a Hard Reset has called it off, no timer left running may move power, though the
contract flag is still set. A sink is settled only by an offer, an agreement or the end of a
recovery. Two things the contract allows since the code does them: a refused Request
settles a source in the middle of a swap (1162), a PS_RDY settles a sink that is about to
send a Soft Reset (1343).

**The driver.** In `FUSB302Chip` a call is the sequence of its accesses (`todo`), and each
access (`DoWrite`, `DoBcLvl`, `DoRead`, ...) is one step. Between any two of them packets and
Hard Resets arrive (and are acknowledged by the chip itself, if AUTO_GCRC is on),
transmissions end, the cable is changed, and the ESP32 is reset (`Reboot`): then its memory is
zero, the chip is as it was, and `setup()` begins again. Only the driver writes the
registers, so a read-modify-write is one step; `ReadsFail` makes its read fail, which
`tcpc_read` does not report. The record `chip` has the register fields the driver uses and
`struct fusb302_chip_state`. The calls come in any order the protocol layer can make
them: polarity only with the receiver off (`DeafWhenDisconnected`), enabling only from off.

**The numbers.** `Clock` computes `get_time` from the two Arduino counters for any
word size and any length of a millisecond, with an arbitrary moment for the second read.
`PdoPower` computes the current, the flags and the fields of a request.

**Abstractions.** In `PDPort` a deadline is `"off"`, `"armed"` or `"due"`: the code only compares
it with the clock. A message is its type with the fields the handlers look at. A
VDM is its command type. Message IDs are counted but are not in the messages. I2C
transfers succeed, and a driver call is one step. `tx` holds what the chip is sending only as far as the code can
tell the outcome: a Hard Reset or any packet. Counters that the code only compares
saturate (`hard_reset_count` at 2, `snk_cap_count` past its limit). `evt` is never
assigned in the code, hence `incoming_packet` is 0. Code that this build leaves out
(Chromium-only parts, Try.SRC, VCONN swap, alternate modes, PD 3.0, and all that
`CONFIG_COMMON_RUNTIME` guards: suspend, `pd_comm_enable`, BIST states,
`pd_request_source_voltage`, `pd_update_contract`) is left out.

**Reductions**, each of which leaves out only orders of independent steps:

* A timer comes due just before the step that reads it, and only if it is read then.
* A transmission ends just before a step that reads the interrupts or may replace
  the transmission (`TxMatters`); any other end can be moved later.
* A message arrives just before it is looked for. One that arrived earlier waits in
  the FIFO; the only steps that see the difference flush it, and `RxDepth = 2` in
  `Sink` keeps a second message across them.
* The GoodCRC interrupt matters only for a message that is still in the FIFO at the next
  alert, so it is raised for those.
* The cable changes before the two steps that read the CC pins. A read at `state`
  and the one at `tail` of the same pass may differ.
* `Forget` sets variables that are written before they are read again to one value,
  and the final states of a VDM, which nothing distinguishes, to `DONE`.

**Environment assumptions**, as constants. `RoleConformant`: a partner offers power
only as a source to a port that shows Rd, and asks for it only from a source; apart
from this it may send any listed message at any time, whether it makes sense or not.
`PartnerAcks`, `Collisions`, `PartnerResets`, `Replug`, `MaxPresses`, `Apis` switch
parts of the world on. A partner of kind `drp` always shows the counterpart of our
own resistor: it follows us through a swap.

## 3. Runs

The runs of the port use `MsgIds = 1` and `PD_CAPS_COUNT = 1` (2 in `Live`; the code
has 8 and 50). The message ID is never compared by the code, and a capability
attempt differs from the next only in the count. `PD_SNK_CAP_RETRIES` is 1 (3 in
the code), or 0 in `Swap` and `World`.

| run | world | checks | result |
|---|---|---|---|
| `Sink` | source partner, six messages, FIFO of 2, Hard Resets, replugging, one button press | `TypeOK`, `DeafWhenDisconnected`, `TimerOfState`, `TimedWaits`, `ImplementsContract` | holds, 2.8 M states |
| `Source` | sink partner, replugging, collisions, toggling, good and bad Requests, Sink_Capabilities, Soft Reset | `TimerOfState`, `TimedWaits`, `VdmWaits`, `ListeningWhenConnected`, `ListensToPartner`, `ImplementsContract` | holds, 2.7 M |
| `Swap` | dual role partner, power swaps by us in both directions, data swaps by us | `TimerOfState`, `TimedWaits`, `RoleMatchesState`, `PullMatchesRole`, `NoContractDuringSwap`, `HeaderMatchesRoles`, `ImplementsContract` | holds, 3.8 M |
| `World` | a source, a sink, debug accessories of both kinds, an audio accessory or an open cable, left alone; toggling, BIST, VDMs by us answered with ACK or BUSY or not, pings, new power requests, soft resets | `OrientationOK`, `OnlyPartnersConnect`, `VdmWaits` | holds, 5.5 M |
| `Live` | source or sink partner, fairness; clock with a word of 10 and a millisecond of 3, 27 moments; 14 currents by 14 voltages around every limit | `WaitsEnd`, `VdmEnds`, `PlainChargerLeftAlone`, `ClockSound`, `RequestSound` | holds, 0.1 M |
| `Driver` | FIFO of 2, four cables, replugging, Hard Resets, resets of the ESP32 anywhere | `ChipTypeOK`, `RegistersMatchDriver`, `PullsMatchDriver`, `CcReadingRight`, `ImplementsTransceiver` | holds, 1.5 M |
| `SinkDetach` | source partner, replugging, fairness | `SinkDetachSeen` | violated |
| `StaleOffer` | offers of one and two PDOs, one button press | `RequestsOfferedPdo` | violated |
| `MutePartner` | a sink that never acknowledges or sends | `PdCapableOnlyIfAcked` | violated |
| `FlagsKept` | sink partner, replugging | `ForgetsPartner` | violated |
| `ForcedSource` | `pd_set_dual_role(PD_DRP_FORCE_SOURCE)`, fairness | `ForcedToSource` | violated |
| `LostRead` | reads over I2C may fail | `SuccessMeansDone` | violated |

Each property of a passing run is broken by at least one plausible mutation of the
code (the definitions marked `Mutant:`), so none holds by the shape of the model.

Why the bounds are enough: the code has one outstanding transmission, one timer and
takes one message per pass, so two messages in the FIFO already cover every
interleaving of a message with a flush. Cables and messages are unbounded in number
over time; only their variety is limited by the run. One press reaches every effect of
the button on the state machine (a second one repeats it). The chip's FIFO has to hold one
packet that was acknowledged and one that was not, or a GoodCRC, for their order to
matter. The clock's word is no multiple of its millisecond, as 2^32 is not, and the
moments cover two wrap-arounds of each counter that `get_time` reads in microseconds.

`World` has one cable of each kind, the source and the debug sink in one orientation, the
sink and the debug source in the other. It accepts no Request of a sink and hears no Accept of a
source: the READY states are reached by a refused Request and by PS_RDY, which is
enough for the VDM sender, and contracts are what `Sink`, `Source` and `Swap` are about. A
dual role port shows what a source or a sink shows until power is swapped (`Swap`).

What the violated runs show is a disagreement between the code and a comment in the
repository; the six are listed with their lines in `PROJECT.json` (`findings`):
the VBUS hook that disables sink detach; the request index that outlives the offer; the
transmit result that is always one transmission late; the flag mask whose use is
compiled out; the dual role request nobody acts on; and the driver calls that report
success whatever happened on the bus.

**What the passing runs leave out on purpose.** Some properties hold only because the
run excludes an event, and the README would be misleading without the list:

* `ListeningWhenConnected` needs `MaxPresses = 0`: a press writes `task_state` beside
  `set_state`, and a disconnected port becomes one that counts as connected.
* `ListeningWhenConnected` and `HeaderMatchesRoles` need `PartnerResets = FALSE`: a
  Hard Reset latched before a disconnect is handled after it, and one in
  `SRC_SWAP_STANDBY` keeps the old header.
* `RoleMatchesState` and `PullMatchesRole` need `RoleConformant`: an unacceptable
  Request takes a sink to `SRC_READY` (1160), a premature PS_RDY swaps the role (1323).
* `PullMatchesRole` and `HeaderMatchesRoles` need that no Soft Reset falls into a power
  swap, where `execute_soft_reset` leaves the resistor or the header of the half that is
  done (935): `Swap` has no Soft Reset, the other runs no swap.
* Swaps are ours: the board refuses those the partner asks for (`pd_check_power_swap`,
  `pd_check_data_swap`), so that branches behind its consent are never taken.
* `TimedStates` leaves out `SNK_DISCOVERY`, `SNK_REQUESTED`, `SRC_ACCEPTED`,
  `SOFT_RESET`, `DR_SWAP` and the swap requests: there, a state can be left and
  entered again without its entry work (see the hazards), and the wait has no limit.
* `Driver` takes reads to succeed (`LostRead` shows what happens when they do not), and
  `CcReadingRight` is about a measurement during which the cable is not touched.
* `RequestSound` is about offers that are not batteries: for a battery the code
  multiplies where it should divide (see the hazards).
* `World`, `Swap` and `Live` keep the cable plugged (`Replug = FALSE`): a sink never
  notices that it was pulled, which `SinkDetach` shows.

All these are listed as hazards with their lines.

**Fairness** (`FairSpec`). Weak fairness of `Loop`: the Arduino core calls `loop()`
for ever and no step of it blocks. Strong fairness of the timers and of `TxDone`: the
clock advances and the FUSB302 ends every transmission, by GoodCRC or after its
retries. It has to be strong because the reductions enable these steps only just
before the step that reads them, again and again; it says no more than that the
clock does not stand still at exactly these moments for ever. Nothing is assumed of
partner, application, cable or button. That a timer comes due rests on the clock, which
`ClockSound` is about: a deadline is at most two milliseconds late as long as the clock
does not wrap around between arming and expiry. Every 71.6 minutes it does, and a
deadline beyond the wrap-around never comes (`LostBeyondWrap`); liveness is claimed
between two wrap-arounds only.

## 4. Proofs

Eight modules hold theorems. What they say holds for every message set, cable set, retry
limit, PDO count, FIFO depth, message ID space and number of button presses; the
assumptions are the named `ASSUME`s on the constants, which TLC evaluates in the runs.
With them every invariant, every action property and both refinements that a passing run
checks are proved.

| theorem | statement |
|---|---|
| `PDPortProofs!TypeCorrect` | `Spec => []TypeOK` |
| `PDPortProofs!DeafDisconnected` | `Spec => []DeafWhenDisconnected` |
| `PDPortProofs!VdmHasDeadline` | `Spec => []VdmWaits` |
| `PDControlProofs!TimersBelong` | `Spec => []TimerOfState` |
| `PDControlProofs!WaitsAreTimed` | `Spec => []TimedWaits` |
| `PDControlProofs!SwapHasNoContract` | `Spec => []NoContractDuringSwap` |
| `PDAttachProofs!ListensToPartnerOnly` | `Spec => ListensToPartner` |
| `PDAttachProofs!OrientationRight` | `~Replug`: `Spec => []OrientationOK` |
| `PDAttachProofs!PartnersOnly` | `~Replug`: `Spec => []OnlyPartnersConnect` |
| `PDRoleProofs!RoleFitsState` | `Orderly`: `Spec => []RoleMatchesState` |
| `PDRoleProofs!PullFitsRole` | `Orderly`, `SwapsUndisturbed`: `Spec => []PullMatchesRole` |
| `PDRoleProofs!HeaderFitsRoles` | these and `ResetsConnected`: `Spec => []HeaderMatchesRoles` |
| `PDRoleProofs!ConnectedListens` | `Orderly`, `ResetsConnected`: `Spec => []ListeningWhenConnected` |
| `PDRoleProofs!ContractImplemented` | `Orderly`: `Spec => ImplementsContract` |
| `FUSB302ChipProofs!ChipTypeCorrect` | `Spec => []ChipTypeOK` |
| `FUSB302ChipProofs!RegistersAgree` | `ReadsFail = FALSE`: `Spec => []RegistersMatchDriver` |
| `FUSB302ChipProofs!PullsAgree` | `ReadsFail = FALSE`: `Spec => []PullsMatchDriver` |
| `FUSB302ChipProofs!TransceiverImplemented` | `ReadsFail = FALSE`: `Spec => ImplementsTransceiver` |
| `FUSB302ReadingProofs!ReadingRight` | `ReadsFail = FALSE`: `Spec => []CcReadingRight` |
| `ClockProofs!ClockIsRight` | `ClockRight`: accurate, never early, never late, lost beyond the wrap-around |
| `ClockProofs!ClockAlwaysSound` | `Spec => []ClockSound`, the form the runs check |
| `PdoPowerProofs!RequestIsRight` | `RequestRight`: within the offer, right mismatch bit |
| `PdoPowerProofs!RequestAlwaysSound` | `Spec => []RequestSound`, the form the runs check |

**`PDPortProofs`.** They follow from `PortInvariant`: `Spec => []PortInv`. `PortInv` is
`Sound(port)` with the types of the other variables, and `Sound` has four parts: the port
is well typed; its receiver is off in a disconnected or debouncing state
(`ReceiverOff`); its state timer does not lead to a debouncing state (`TimerLeadsOn`); a
pending VDM has a deadline. `DeafWhenDisconnected` alone is not inductive. `set_state`
turns the receiver off only when it goes from another state to a *disconnected* one, not to
a debouncing one, so the timer, which calls `set_state` with a stored target, would break
it if the target could be a debouncing state; `TimerLeadsOn` excludes that. Debouncing
states are entered only by the two disconnected handlers, where the receiver is off
already.

**`PDControlProofs`.** The timer, the waits and the contract need one invariant,
`ControlInv`, for each is disturbed by the steps that disturb the others. It differs by
program counter. Between passes (`Steady`) a running timer is the state's own, and it runs
where the state needs one. After the messages of a pass and before the handler (`Ready`)
a state may have been entered without its timer, but then its entry is still to be
seen, `last_state # task_state`. What makes this inductive is `NotBack`: a message
never leads from some state back to a timed state whose handler ran last (`Backwards` are
the pairs that would), for then the handler would take the state for an old one and arm
nothing. This fails for the states that `TimedStates` leaves out, and these failures
are the hazards listed for them. The contract is in `Fits`: a swapping state has none, a
state that has agreed on power or moves it has one. The lemmas go by operator. Each says that an operator keeps state,
timer and contract (`Kept`), arms the timer of its state (`Armed`), or enters a state with
the timer stopped (`Entered`); `Taken` is what a message may do and `Ran` what a handler
may do. The button is no exception: it overwrites the state, but `SOFT_RESET` is handled
before the timer is looked at.

**`PDAttachProofs`.** A step is `Quiet` if it leaves the receiver and its pin alone or turns
the receiver off, and quiet steps compose; one lemma per operator says that it is quiet,
from the driver to the alert handler. What is not quiet is `AttachSink` and
`AttachSource`; `PinsShow` says what a reading of the CC pins tells of the partner, whichever
resistor the port shows, and with it their result is `Tuned` to the cable they read.
`ListensToPartner` says this of every step, with cables that come and go at any time. In
a state it can only be said of a cable that stays, since a pulled plug is noticed later (or, by
a sink, never): `Tuned(port, cable)` is inductive under `~Replug`. `Source` checks
`ListensToPartner` with replugging and `World` both orientations; the two together are beyond
TLC's time, and are what the theorem adds.

**`PDRoleProofs`.** Every step of the loop and of the application is one *act* on the
port (`Acts`): it stays, waits for its timer, goes to another state (`Leads` says
which), begins or ends a contract, attaches, toggles, changes resistor or role in a
swap, or resets. One lemma per operator says which act it is (up to `NextStepped`); then
each invariant, and the refinement, is one lemma over the sixteen kinds of act rather
than over the program (`SteppedKeeps`, `SteppedPull`, `SteppedHeader`,
`SteppedReceiver`, `StepServes`). `RoleMatchesState` needs `RoleInv`. A timer may lead
to a state of the other role, so its target has to fit the role as well (`Lawful`). In
`SRC_SWAP_STANDBY` the role changes under a state that is legal for both, and a PS_RDY
must not find a sink there whose handler has yet to run (`LastFits`). And a message
handled now was sent to a port of the role it has now (`Heard`): the FIFO is empty
outside the message step and holds one message in it. `RoleInv` was checked by TLC
before it was proved.

The hypotheses are about the environment, and they are the exceptions of section 3 in
general form:

* `Orderly`: partners are `RoleConformant` and the FIFO holds one message (`Source`, `Swap`,
  `World`); or nobody sends a Request and the application never asks for a swap (`Sink`, whose
  FIFO is deeper). With two messages in the FIFO, the first can change the role the second
  was sent to: a Request that outlives its source takes a sink to `SRC_READY` (1160).
* `SwapsUndisturbed`: no swaps, or neither Soft Resets nor presses (935). `RoleFitsState` and
  `ContractImplemented` do without.
* `ResetsConnected`: no Hard Reset of the partner, no press. One latched before a disconnect
  is handled after it, and one in `SRC_SWAP_STANDBY` keeps the old header. Resets the port itself
  decides on are covered.

`ContractImplemented` is a step simulation: `StageStep` says which stages of `PDContract` may
follow each other with role and contract kept, and the other acts are its actions.

**`FUSB302ChipProofs`.** A call may be cut short at any access, so no invariant can say
what the registers are in the middle of one without enumerating the calls. The
invariants speak about the rest of the call instead. `Will(f, v)`: field `f` has value
`v` after the accesses still to come, because the last of them that writes it writes
`v`, or because it has the value and none writes it. A step through a call changes
nothing of that, and only the first access of a call, or a reset of the ESP32, has to be
looked at; `RegisterInv` is `RegistersMatchDriver` and `PullsMatchDriver` with every
register replaced by what will become of it. `OrderInv` says which accesses still to
come are before which: the receiver is switched on last, after the flush of the FIFO and
with the pin chosen; the FIFO is flushed and the pin chosen while AUTO_GCRC is off, or
behind a software reset; the protocol engine is reset once per Hard Reset signal read.
With it every access is an action of `Transceiver` or a stutter. The hypothesis that
reads succeed is needed: a read that fails sets every bit of its register, as `LostRead`
shows.

Two things in the model came out of the attempt: `CASE` expressions of `FUSB302` and
`FUSB302Chip` had arms that overlap (the voltage of a CC pin, BC_LVL, the outcome of a
transmission), of which TLC takes the first and the logic any; they are disjoint now.
And `ReadingRight` needs the partners of `FUSB302Chip` to be cables of `FUSB302`
(`PartnersAssumption`).

**`FUSB302ReadingProofs`.** A measurement has up to nine accesses, and the comparator's
answer depends on the pin, pull-up and threshold selected before it. `ReadingInv` lists
its phases: what is still to do, what is selected, and that the pins measured so far
have the voltage that `FUSB302` says. The thresholds come from `RegisterInv`; the rest
is that three voltage bands, cut by two thresholds, are told apart for each Rp value, by
BC_LVL on the sink's side.

**`ClockProofs`.** `Accurate` is the lemma: a reading plus `Wraps(t) * WordSize` lies within
a millisecond of the moment, wherever the second read falls and whatever the word, because
the first counter alone decides the wrap-around and the second adds less than a
millisecond. The rest is the monotony of division.

**`PdoPowerProofs`.** Products of two variables are beyond the SMT solver, so `ProductOrder`
and `Rounding` give it what it needs; the mismatch bit is right because the limit of 60 W
can only cut a current of which more than 2.25 W remain.

Only model-checked:

* all liveness (`WaitsEnd`, `VdmEnds`, `PlainChargerLeftAlone`): fairness and `ENABLED` are outside
  the prover's reach;
* the six violated properties, whose counterexamples are TLC's;
* that the exceptions of section 3 are the only ones worth making: the hypotheses above are
  sufficient, and the hazards give a behaviour for each, but none is proved to be necessary.

## 5. Not modelled, and why

* Two ports on one wire. `SeenOnWire` is the place for it, but two copies of the port
  record with both transmitters exceed what TLC can explore with any interesting
  message set; so message IDs, duplicated messages and the count of Hard Resets on the
  wire have no property (hazards at 540, 1573 and 3237).
* Batteries: `PdoPower` computes their requests as the code does, and no property is
  stated, since what the code computes is not what it means to.
* The button's sampling (`ino:66`): a press is an event that may come at any time.
* FIFO tokens, packet lengths and CRC bytes: a packet is taken whole. VCONN
  (nothing turns it on) and `fusb302_tcpm_release` (only from `SUSPENDED`, which
  nothing enters).
* Failing I2C *writes*, and the byte order on the bus.
* The console, host commands and suspend (not built); alternate modes and structured VDM
  discovery (not compiled: `pd_svdm` answers nothing); logging and LED.

Next: weaker hypotheses for `PDRoleProofs` (a FIFO of two, by an invariant about what a message
does to the one behind it; Hard Resets for a port that never swaps), and safety lemmas behind the
liveness properties, such as a bound on Hard Resets to a partner that does not answer.
