-------------------------------- MODULE Clock -------------------------------
(***************************************************************************)
(* The clock behind every deadline.  get_time() adds the milliseconds of   *)
(* millis(), scaled in 32 bits, and the part of micros() below one         *)
(* millisecond, read a moment later.  A moment is the number of            *)
(* microseconds since the start.                                           *)
(***************************************************************************)
EXTENDS Integers

CONSTANTS
    MSEC_US,   \* microseconds in a millisecond (1000)
    WordSize,  \* the range of an unsigned long (2^32)
    Moments,   \* moments looked at
    Delays     \* PD_T_* times

ASSUME MsecAssumption == MSEC_US \in Nat \ {0}
ASSUME WordAssumption == WordSize \in Nat \ {0}
ASSUME MomentsAssumption == Moments \subseteq Nat
ASSUME DelaysAssumption == Delays \subseteq Nat

\* The counters of the Arduino core.
millis(t) == (t \div MSEC_US) % WordSize
micros(t) == t % WordSize

\* Mutant: the microseconds are not reduced.
get_time_sum(t, later) == ((millis(t) * MSEC_US) % WordSize) + micros(later)

get_time(t, later) == ((millis(t) * MSEC_US) % WordSize) + (micros(later) % MSEC_US)

\* set_state_timeout(get_time() + delay) at one moment, the comparison at another.
\* u and v are the moments of the second reads.
Due(t, u, delay, now, v) == get_time(now, v) >= get_time(t, u) + delay

\* How often the scaled milliseconds have wrapped around.
Wraps(t) == ((t \div MSEC_US) * MSEC_US) \div WordSize

\* Apart from its wrap-around a reading is less than a millisecond off, before and
\* after micros() itself wraps and the two counters go out of step, and whatever lies
\* between the two reads.
ReadingAccurate ==
    \A t, u \in Moments :
        LET read == get_time(t, u) + Wraps(t) * WordSize
        IN t - MSEC_US < read /\ read < t + MSEC_US

\* No deadline comes due more than two milliseconds early, wrap-around or not.
NeverEarly ==
    \A t, u, now, v \in Moments, delay \in Delays :
        t <= now /\ Due(t, u, delay, now, v) => t + delay < now + 2 * MSEC_US

\* A deadline is at most two milliseconds late, unless the clock has wrapped around
\* since it was armed.
NeverLate ==
    \A t, u, now, v \in Moments, delay \in Delays :
        /\ t <= now /\ Wraps(now) = Wraps(t)
        /\ t + delay + 2 * MSEC_US <= now
        => Due(t, u, delay, now, v)

\* A deadline beyond the largest reading is never reached: a state timer armed just
\* before the wrap-around waits for ever.
LostBeyondWrap ==
    \A t, u, now, v \in Moments, delay \in Delays :
        get_time(t, u) + delay >= WordSize + MSEC_US => ~Due(t, u, delay, now, v)

\* Everything a deadline made from get_time rests on.
ClockRight == ReadingAccurate /\ NeverEarly /\ NeverLate /\ LostBeyondWrap
=============================================================================
