----------------------------- MODULE PDContract -----------------------------
(***************************************************************************)
(* What a port promises about its power contract, without messages, timers *)
(* or a partner.  A port is detached, or at default power, or has a        *)
(* request pending, or has agreed on power, or (a source) moves its power  *)
(* to what was agreed, or is settled, or swaps its power role, or recovers *)
(* from an error.                                                          *)
(*                                                                         *)
(* A contract begins at one step only, the agreement.  A source moves its  *)
(* power straight from an agreement: whatever comes between (a reset, a    *)
(* refusal, a swap) calls it off, and it takes a new agreement.  A power   *)
(* swap ends the contract before it starts.  The power role changes only   *)
(* while detached or in a swap.  A disconnect or a reset does NOT end the  *)
(* contract: the code keeps the flag.                                      *)
(***************************************************************************)
VARIABLES stage, role, contract

vars == <<stage, role, contract>>

Stages ==
    {"detached", "default", "offer", "agreed", "moving", "settled", "swapping", "recovery"}

ContractTypeOK ==
    /\ stage \in Stages
    /\ role \in {"SINK", "SOURCE"}
    /\ contract \in BOOLEAN

Init == stage = "detached" /\ role = "SINK" /\ contract = FALSE

Other == IF role = "SINK" THEN "SOURCE" ELSE "SINK"
Move(next) == stage' = next /\ UNCHANGED <<role, contract>>

\* Looking for a partner in the other role.
Toggle == stage = "detached" /\ role' = Other /\ UNCHANGED <<stage, contract>>

Attach == stage = "detached" /\ Move("default")

\* The sink has requested, also a second time; the source has advertised.
Propose ==
    /\ stage = "default" \/ (role = "SINK" /\ stage \in {"agreed", "settled"})
    /\ Move("offer")

\* A sink has its request accepted, a source accepts one, at any time.
Agree ==
    /\ stage = "offer" \/ (role = "SOURCE" /\ stage # "detached")
    /\ stage' = "agreed"
    /\ contract' = TRUE
    /\ UNCHANGED role

\* A source moves its supply to what was agreed last.
Deliver == role = "SOURCE" /\ stage = "agreed" /\ Move("moving")

\* Power is where it was agreed; or a request is turned down, which a source does at
\* any time, giving up a swap that has begun.
Settle ==
    /\ stage \in {"offer", "agreed", "recovery"} \/ (role = "SOURCE" /\ stage # "detached")
    /\ Move("settled")

\* A swap is accepted: the contract is over before power moves.
BeginSwap ==
    /\ stage = "settled"
    /\ stage' = "swapping"
    /\ contract' = FALSE
    /\ UNCHANGED role

ChangeRole ==
    /\ stage = "swapping"
    /\ role' = Other
    /\ stage' \in {"swapping", "default"}
    /\ UNCHANGED contract

\* Soft Reset, the end of a recovery, or an offer that was refused.
Restart == stage # "detached" /\ Move("default")

Recover == Move("recovery")
Detach == Move("detached")

Next ==
    \/ Toggle \/ Attach \/ Propose \/ Agree \/ Deliver \/ Settle
    \/ BeginSwap \/ ChangeRole \/ Restart \/ Recover \/ Detach

Spec == Init /\ [][Next]_vars
=============================================================================
