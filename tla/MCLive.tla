------------------------------- MODULE MCLive -------------------------------
(***************************************************************************)
(* Liveness of a port, and the numbers its deadlines and requests rest on: *)
(* a clock with a small word that is no multiple of a millisecond, like    *)
(* 2^32, and data objects on both sides of every limit.                    *)
(***************************************************************************)
EXTENDS MCPort, Clock, PdoPower

SmallMoments == 0 .. 26
SmallDelays == {1, 4, 7}
SomeCurrents == {0, 1, 9, 10, 44, 45, 46, 150, 300, 499, 500, 501, 1022, 1023}
SomeVoltages == {0, 1, 8, 9, 10, 99, 100, 101, 180, 239, 240, 241, 400, 1023}

\* What does not depend on the state is looked at once, in the initial one.
Once(P) == port = pd_init => P

\* get_time and the deadlines made from it: a reading is right to a millisecond, no
\* deadline is early, none is late while the clock does not wrap around, and those
\* armed beyond the wrap-around are the ones that are lost.
ClockSound == Once(ClockRight)

\* pd_build_request: what is requested lies within the offer and the port's limits, and
\* the mismatch bit says when that is not enough.
RequestSound == Once(RequestRight)
=============================================================================
