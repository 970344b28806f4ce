---------------------------- MODULE Transceiver ----------------------------
(***************************************************************************)
(* What the protocol layer relies on in its transceiver.  The operations   *)
(* are atomic here.  A message the chip has acknowledged waits until it is *)
(* taken; it is thrown away only while the receiver is off or after Hard   *)
(* Reset signaling.  The receiver is switched on with nothing waiting and  *)
(* on a chosen CC line, and stays on that line.                            *)
(***************************************************************************)
EXTENDS Naturals

VARIABLES
    pull,       \* the resistor shown on both CC pins
    line,       \* the CC pin used for communication, 0 if none was chosen
    listening,  \* TRUE: received messages are acknowledged
    header,     \* <<power role, data role>> of what is sent
    waiting,    \* acknowledged messages nobody has taken yet
    signaled    \* TRUE: Hard Reset was sent or received and not yet dealt with

vars == <<pull, line, listening, header, waiting, signaled>>

Quiet ==
    /\ pull = "RD" /\ line = 0 /\ ~listening /\ header = <<0, 0>>
    /\ waiting = 0

Init == Quiet /\ ~signaled

SetPull ==
    /\ pull' \in {"RP", "RD", "OPEN"}
    /\ UNCHANGED <<line, listening, header, waiting, signaled>>

SetHeader ==
    /\ header' \in {0, 1} \X {0, 1}
    /\ UNCHANGED <<pull, line, listening, waiting, signaled>>

ChooseLine ==
    /\ ~listening
    /\ line' \in {1, 2}
    /\ UNCHANGED <<pull, listening, header, waiting, signaled>>

Enable ==
    /\ ~listening /\ waiting = 0 /\ line # 0
    /\ listening' = TRUE
    /\ UNCHANGED <<pull, line, header, waiting, signaled>>

Disable ==
    /\ listening' = FALSE
    /\ UNCHANGED <<pull, line, header, waiting, signaled>>

Hear ==
    /\ listening
    /\ waiting' = waiting + 1
    /\ UNCHANGED <<pull, line, listening, header, signaled>>

Take ==
    /\ waiting > 0
    /\ waiting' = waiting - 1
    /\ UNCHANGED <<pull, line, listening, header, signaled>>

\* Hard Reset signaling, or a reset of the board that forgets it.
Signal ==
    /\ signaled' \in BOOLEAN
    /\ UNCHANGED <<pull, line, listening, header, waiting>>

\* Messages are dropped while deaf, or because of Hard Reset signaling.
Drop ==
    /\ ~listening \/ signaled
    /\ waiting' = 0
    /\ signaled' \in {signaled, FALSE}
    /\ UNCHANGED <<pull, line, listening, header>>

\* The board is reset, and the chip with it; a message may be left behind.
Restart ==
    /\ pull' = "RD" /\ line' = 0 /\ listening' = FALSE /\ header' = <<0, 0>>
    /\ waiting' \in {0, waiting}
    /\ signaled' \in {signaled, FALSE}

Next ==
    \/ SetPull \/ SetHeader \/ ChooseLine \/ Enable \/ Disable
    \/ Hear \/ Take \/ Signal \/ Drop \/ Restart

Spec == Init /\ [][Next]_vars
=============================================================================
