----------------------------- MODULE ClockProofs ----------------------------
(***************************************************************************)
(* What get_time() and its deadlines promise, for every length of a        *)
(* millisecond, every word size, all moments and all delays.               *)
(***************************************************************************)
EXTENDS MCLive, TLAPS

\* Division of a natural number.
LEMMA DivMod ==
    ASSUME NEW n \in Nat, NEW d \in Nat \ {0}
    PROVE  /\ n \div d \in Nat
           /\ n % d \in 0 .. d - 1
           /\ n = d * (n \div d) + (n % d)
BY SMT

LEMMA ProductMonotone ==
    ASSUME NEW a \in Int, NEW b \in Int, NEW d \in Nat, a <= b
    PROVE  a * d <= b * d
BY SMT

\* Products with a common factor that are less than the factor apart.
LEMMA DivMonotone ==
    ASSUME NEW m \in Nat, NEW n \in Nat, NEW d \in Nat \ {0}, m <= n
    PROVE  m \div d <= n \div d
<1> DEFINE p == m \div d
           q == n \div d
<1>1. /\ p \in Nat /\ q \in Nat /\ m = d * p + (m % d) /\ n = d * q + (n % d)
      /\ m % d \in 0 .. d - 1 /\ n % d \in 0 .. d - 1
  BY DivMod
<1> HIDE DEF p, q
<1>2. SUFFICES ASSUME q + 1 <= p PROVE FALSE
  BY <1>1 DEF p, q
<1>3. (q + 1) * d <= p * d
  BY <1>1, <1>2, ProductMonotone
<1>4. (q + 1) * d = d * q + d /\ p * d = d * p
  BY <1>1
<1> DEFINE dp == d * p
           dq == d * q
<1>5. dp \in Int /\ dq \in Int /\ dq + d <= dp /\ m = dp + (m % d) /\ n = dq + (n % d)
  BY <1>1, <1>3, <1>4
<1> HIDE DEF dp, dq
<1> QED
  BY <1>1, <1>5

\* Quotient and remainder are unique.
LEMMA ModUnique ==
    ASSUME NEW k \in Nat, NEW r \in Nat, NEW d \in Nat \ {0}, NEW n \in Nat,
           r < d, n = d * k + r
    PROVE  n % d = r
<1> DEFINE q == n \div d
           x == n % d
<1>1. q \in Nat /\ x \in 0 .. d - 1 /\ n = d * q + x
  BY DivMod
<1> HIDE DEF q, x
<1>2. d * q + x = d * k + r
  BY <1>1
<1>3. CASE q = k
  <2>1. d * q = d * k /\ d * k \in Int
    BY <1>3
  <2> QED
    BY <1>1, <1>2, <2>1 DEF x
<1>4. CASE q + 1 <= k
  <2>1. (q + 1) * d <= k * d
    BY <1>1, <1>4, ProductMonotone
  <2>2. (q + 1) * d = d * q + d /\ k * d = d * k /\ d * q \in Int /\ d * k \in Int
    BY <1>1
  <2> QED
    BY <1>1, <1>2, <2>1, <2>2
<1>5. CASE k + 1 <= q
  <2>1. (k + 1) * d <= q * d
    BY <1>1, <1>5, ProductMonotone
  <2>2. (k + 1) * d = d * k + d /\ q * d = d * q /\ d * q \in Int /\ d * k \in Int
    BY <1>1
  <2> QED
    BY <1>1, <1>2, <2>1, <2>2
<1> QED
  BY <1>1, <1>3, <1>4, <1>5

\* The wrap-around of millis() itself makes no difference to the scaled value.
LEMMA ScaledMillis ==
    ASSUME NEW t \in Nat
    PROVE  (millis(t) * MSEC_US) % WordSize = ((t \div MSEC_US) * MSEC_US) % WordSize
<1> DEFINE q == t \div MSEC_US
           k == q \div WordSize
           r == q % WordSize
<1> USE MsecAssumption, WordAssumption
<1>1. q \in Nat
  BY DivMod
<1> HIDE DEF q
<1>2. k \in Nat /\ r \in Nat /\ q = WordSize * k + r
  BY <1>1, DivMod
<1> HIDE DEF k, r
<1> DEFINE n == r * MSEC_US
           j == n \div WordSize
           x == n % WordSize
<1>3. n \in Nat
  BY <1>2
<1>4. q * MSEC_US = (WordSize * k) * MSEC_US + n
  BY <1>2
<1> HIDE DEF n
<1>5. j \in Nat /\ x \in 0 .. WordSize - 1 /\ n = WordSize * j + x
  BY <1>3, DivMod
<1> HIDE DEF j, x
<1>6. q * MSEC_US = WordSize * (k * MSEC_US + j) + x
  BY <1>2, <1>4, <1>5
<1>7. k * MSEC_US + j \in Nat /\ q * MSEC_US \in Nat
  BY <1>1, <1>2, <1>5
<1>8. (q * MSEC_US) % WordSize = x
  BY <1>5, <1>6, <1>7, ModUnique
<1> QED
  BY <1>8 DEF x, n, r, q, millis

\* A reading lies within a millisecond of the moment it is taken at.
LEMMA Accurate ==
    ASSUME NEW t \in Nat, NEW u \in Nat
    PROVE  /\ Wraps(t) \in Nat /\ get_time(t, u) \in Nat
           /\ Wraps(t) * WordSize \in Nat
           /\ t - MSEC_US < get_time(t, u) + Wraps(t) * WordSize
           /\ get_time(t, u) + Wraps(t) * WordSize < t + MSEC_US
           /\ get_time(t, u) < WordSize + MSEC_US
<1> DEFINE q == t \div MSEC_US
           x == q * MSEC_US
           e == x \div WordSize
           low == micros(u) % MSEC_US
<1> USE MsecAssumption, WordAssumption
<1>1. q \in Nat /\ t % MSEC_US \in 0 .. MSEC_US - 1 /\ t = MSEC_US * q + (t % MSEC_US)
  BY DivMod
<1>2. low \in 0 .. MSEC_US - 1
  <2>1. micros(u) \in Nat
    BY DivMod DEF micros
  <2> QED
    BY <2>1, DivMod
<1> HIDE DEF q, low
<1>3. x \in Nat /\ x <= t /\ t < x + MSEC_US
  <2>1. x = MSEC_US * q /\ x \in Nat
    BY <1>1
  <2> HIDE DEF x
  <2>2. t = x + (t % MSEC_US)
    BY <1>1, <2>1
  <2> QED
    BY <1>1, <2>1, <2>2
<1> HIDE DEF x
<1>4. e \in Nat /\ x % WordSize \in 0 .. WordSize - 1 /\ x = WordSize * e + (x % WordSize)
  BY <1>3, DivMod
<1> HIDE DEF e
<1>5. WordSize * e = e * WordSize /\ e * WordSize \in Nat
  BY <1>4
<1>6. Wraps(t) = e
  BY DEF Wraps, e, x, q
<1>7. get_time(t, u) = (x % WordSize) + low
  BY ScaledMillis DEF get_time, x, q, low
<1> QED
  BY <1>2, <1>3, <1>4, <1>5, <1>6, <1>7

\* The number of wrap-arounds never goes down.
LEMMA WrapsMonotone ==
    ASSUME NEW t \in Nat, NEW now \in Nat, t <= now
    PROVE  Wraps(t) * WordSize <= Wraps(now) * WordSize
<1> DEFINE q == t \div MSEC_US
           r == now \div MSEC_US
<1> USE MsecAssumption, WordAssumption
<1>1. q \in Nat /\ r \in Nat /\ q <= r
  BY DivMod, DivMonotone
<1> HIDE DEF q, r
<1>2. q * MSEC_US <= r * MSEC_US /\ q * MSEC_US \in Nat /\ r * MSEC_US \in Nat
  BY <1>1, ProductMonotone
<1>3. (q * MSEC_US) \div WordSize <= (r * MSEC_US) \div WordSize
  BY <1>2, DivMonotone
<1>4. Wraps(t) <= Wraps(now)
  BY <1>3 DEF Wraps, q, r
<1> QED
  BY <1>4, Accurate, ProductMonotone

\* get_time: apart from the wrap-around a reading is less than a millisecond off.
THEOREM ReadingsAccurate == ReadingAccurate
BY Accurate, MomentsAssumption DEF ReadingAccurate

\* Deadlines set with get_time never come due more than two milliseconds early.
THEOREM DeadlinesNeverEarly == NeverEarly
<1> SUFFICES ASSUME NEW t \in Moments, NEW u \in Moments, NEW now \in Moments,
                    NEW v \in Moments, NEW delay \in Delays,
                    t <= now, Due(t, u, delay, now, v)
             PROVE  t + delay < now + 2 * MSEC_US
  BY DEF NeverEarly
<1> USE MomentsAssumption, DelaysAssumption, MsecAssumption
<1>1. get_time(now, v) >= get_time(t, u) + delay
  BY DEF Due
<1>2. Wraps(t) * WordSize <= Wraps(now) * WordSize
  BY WrapsMonotone
<1> QED
  BY <1>1, <1>2, Accurate

\* Nor, between two wrap-arounds, more than two milliseconds late.
THEOREM DeadlinesNeverLate == NeverLate
<1> SUFFICES ASSUME NEW t \in Moments, NEW u \in Moments, NEW now \in Moments,
                    NEW v \in Moments, NEW delay \in Delays,
                    Wraps(now) = Wraps(t), t + delay + 2 * MSEC_US <= now
             PROVE  get_time(now, v) >= get_time(t, u) + delay
  BY DEF NeverLate, Due
<1> USE MomentsAssumption, DelaysAssumption, MsecAssumption
<1>1. Wraps(t) * WordSize = Wraps(now) * WordSize
  OBVIOUS
<1> QED
  BY <1>1, Accurate

\* A deadline beyond the largest reading is lost.
THEOREM DeadlinesLost == LostBeyondWrap
<1> SUFFICES ASSUME NEW t \in Moments, NEW u \in Moments, NEW now \in Moments,
                    NEW v \in Moments, NEW delay \in Delays,
                    get_time(t, u) + delay >= WordSize + MSEC_US,
                    get_time(now, v) >= get_time(t, u) + delay
             PROVE  FALSE
  BY DEF LostBeyondWrap, Due
<1> USE MomentsAssumption, DelaysAssumption, MsecAssumption, WordAssumption
<1> QED
  BY Accurate

\* For every word size and every length of a millisecond: the clock is as right as its
\* deadlines need, except that those beyond its wrap-around are lost.
THEOREM ClockIsRight == ClockRight
BY ReadingsAccurate, DeadlinesNeverEarly, DeadlinesNeverLate, DeadlinesLost DEF ClockRight

\* What the runs see of it, whatever the constants: get_time and the deadlines made
\* from it (usb_pd_driver.cpp, get_time).
THEOREM ClockAlwaysSound == Spec => []ClockSound
<1>1. ClockSound
  BY ClockIsRight DEF ClockSound, Once
<1> QED
  BY <1>1, PTL
=============================================================================
