--------------------------- MODULE PdoPowerProofs ---------------------------
(***************************************************************************)
(* The arithmetic of a Request for every ten-bit offer that is not a       *)
(* battery.                                                                *)
(***************************************************************************)
EXTENDS MCLive, TLAPS

LEMMA Rounding ==
    ASSUME NEW n \in Nat, NEW d \in Nat \ {0}
    PROVE  n \div d \in Nat /\ d * (n \div d) <= n /\ n < d * (n \div d) + d
BY SMT

LEMMA ProductOrder ==
    ASSUME NEW a \in Nat, NEW b \in Nat, NEW d \in Nat, a <= b
    PROVE  a * d <= b * d /\ a * d \in Nat /\ b * d \in Nat
BY SMT

\* The limits as variables of a lemma, which keeps large numerals away from the provers.
LEMMA Limited ==
    ASSUME NEW offered \in Nat, NEW most \in Nat, NEW power \in Nat, NEW mv \in Nat \ {0},
           NEW ma, ma = Lesser(Lesser(offered, power \div mv), most)
    PROVE  /\ ma \in Nat /\ ma <= offered /\ ma <= most
           /\ ma * mv \in Nat /\ ma * mv <= power
           /\ \/ ma = Lesser(offered, most)
              \/ ma < Lesser(offered, most) /\ power < ma * mv + mv
<1> DEFINE limit == power \div mv
<1>1. limit \in Nat /\ mv * limit <= power /\ power < mv * limit + mv
  BY Rounding
<1>2. ma = Lesser(Lesser(offered, limit), most)
  OBVIOUS
<1> HIDE DEF limit
<1>3. /\ ma \in Nat /\ ma <= offered /\ ma <= most /\ ma <= limit
      /\ (ma = Lesser(offered, most) \/ (ma < Lesser(offered, most) /\ ma = limit))
  BY <1>1, <1>2, SMT DEF Lesser
<1>4. ma * mv <= limit * mv /\ ma * mv \in Nat
  BY <1>1, <1>3, ProductOrder
<1>5. limit * mv = mv * limit
  BY <1>1
<1> QED
  BY <1>1, <1>3, <1>4, <1>5, SMT

\* The current taken from an offer: no more than it has, than the port takes, and
\* than gives the port's power; less than both others only if the power limits it.
LEMMA Current ==
    ASSUME NEW field \in Fields, NEW mv \in Nat,
           NEW ma, ma = pd_extract_pdo_ma("FIXED", field, mv)
    PROVE  /\ ma \in Nat /\ ma <= 10 * field /\ ma <= PD_MAX_CURRENT_MA
           /\ ma * mv \in Nat /\ ma * mv <= 1000 * PD_MAX_POWER_MW
           /\ \/ ma = Lesser(10 * field, PD_MAX_CURRENT_MA) \/ mv = 0
              \/ /\ ma < Lesser(10 * field, PD_MAX_CURRENT_MA)
                 /\ 1000 * PD_MAX_POWER_MW < ma * mv + mv
<1>1. CASE mv = 0
  <2>1. ma = 0
    BY <1>1 DEF pd_extract_pdo_ma
  <2>2. 10 * field \in Nat /\ PD_MAX_CURRENT_MA \in Nat /\ 1000 * PD_MAX_POWER_MW \in Nat
    BY SMT DEF Fields, PD_MAX_CURRENT_MA, PD_MAX_POWER_MW
  <2> QED
    BY <1>1, <2>1, <2>2, SMT
<1>2. CASE mv # 0
  <2>1. ma = Lesser(Lesser(10 * field, (1000 * PD_MAX_POWER_MW) \div mv), PD_MAX_CURRENT_MA)
    BY <1>2, Zenon DEF pd_extract_pdo_ma
  <2>2. /\ 10 * field \in Nat /\ PD_MAX_CURRENT_MA \in Nat
        /\ 1000 * PD_MAX_POWER_MW \in Nat /\ mv \in Nat \ {0}
    BY <1>2, SMT DEF Fields, PD_MAX_CURRENT_MA, PD_MAX_POWER_MW
  <2> DEFINE offered == 10 * field
             power == 1000 * PD_MAX_POWER_MW
  <2> HIDE DEF offered, power
  <2>3. /\ ma \in Nat /\ ma <= offered /\ ma <= PD_MAX_CURRENT_MA
        /\ ma * mv \in Nat /\ ma * mv <= power
        /\ \/ ma = Lesser(offered, PD_MAX_CURRENT_MA)
           \/ ma < Lesser(offered, PD_MAX_CURRENT_MA) /\ power < ma * mv + mv
    <3>1. /\ offered \in Nat /\ power \in Nat
          /\ ma = Lesser(Lesser(offered, power \div mv), PD_MAX_CURRENT_MA)
      BY <2>1, <2>2 DEF offered, power
    <3>2. PD_MAX_CURRENT_MA \in Nat
      BY <2>2
    <3>3. mv \in Nat \ {0}
      BY <2>2
    <3> QED
      BY <3>1, <3>2, <3>3, Limited, Zenon
  <2> QED
    BY <2>3, SMT DEF offered, power
<1> QED
  BY <1>1, <1>2, Zenon

\* pd_build_request: no more than was offered, no more than the port takes.
THEOREM RequestsWithinOffer == RequestWithinOffer
<1>1. ASSUME NEW field \in Fields, NEW volt \in Fields
      PROVE  LET rdo == RequestFor("FIXED", field, volt)
             IN /\ rdo.op <= field /\ rdo.max <= field
                /\ rdo.op <= 500
                /\ 10 * rdo.op * 50 * volt <= 1000 * PD_MAX_POWER_MW
  <2> DEFINE mv == 50 * volt
             ma == pd_extract_pdo_ma("FIXED", field, mv)
             op == ma \div 10
  <2>1. mv \in Nat
    BY SMT DEF Fields
  <2>2. /\ ma \in Nat /\ ma <= 10 * field /\ ma <= PD_MAX_CURRENT_MA
        /\ ma * mv \in Nat /\ ma * mv <= 1000 * PD_MAX_POWER_MW
    <3> HIDE DEF mv
    <3> QED
      BY <2>1, Current, SMT
  <2>3. RequestFor("FIXED", field, volt).op = op /\ RequestFor("FIXED", field, volt).max = op
    BY SMT DEF RequestFor
  <2> HIDE DEF ma
  <2>4. op \in Nat /\ 10 * op <= ma
    BY <2>2, Rounding, SMT
  <2> HIDE DEF op
  <2>5. (10 * op) * mv <= ma * mv
    <3>1. mv \in Nat /\ 10 * op \in Nat
      BY <2>4, SMT DEF Fields
    <3> QED
      BY <2>2, <2>4, <3>1, ProductOrder, SMT
  <2>6. 10 * op * 50 * volt = (10 * op) * mv
    BY <2>4, SMT DEF Fields
  <2> HIDE DEF mv
  <2>7. op <= field /\ op <= 500
    BY <2>2, <2>4, SMT DEF Fields, PD_MAX_CURRENT_MA
  <2>8. 10 * op * 50 * volt <= 1000 * PD_MAX_POWER_MW
    <3>1. (10 * op) * mv \in Int /\ 1000 * PD_MAX_POWER_MW \in Int
      BY <2>1, <2>4, SMT DEF PD_MAX_POWER_MW
    <3> QED
      BY <2>2, <2>5, <2>6, <3>1, SMT
  <2> QED
    BY <2>3, <2>7, <2>8, Zenon
<1> QED
  BY <1>1, FieldsAssumption, SMT DEF RequestWithinOffer

\* RDO_CAP_MISMATCH: set when what the port can take of the offer is below the
\* operating power, and only then; the limit of 60 W never causes it.
THEOREM MismatchesRight == MismatchRight
<1>1. ASSUME NEW field \in Fields, NEW volt \in Fields
      PROVE  RequestFor("FIXED", field, volt).mismatch = 1 <=>
               Lesser(10 * field, PD_MAX_CURRENT_MA) * 50 * volt
                 < 1000 * PD_OPERATING_POWER_MW
  <2> DEFINE mv == 50 * volt
             ma == pd_extract_pdo_ma("FIXED", field, mv)
             most == Lesser(10 * field, PD_MAX_CURRENT_MA)
             floor == 1000 * PD_OPERATING_POWER_MW
             power == 1000 * PD_MAX_POWER_MW
  <2>1. mv \in Nat /\ most \in Nat
    BY SMT DEF Fields, Lesser, PD_MAX_CURRENT_MA
  <2>2. RequestFor("FIXED", field, volt).mismatch = 1 <=> ma * mv < floor
    BY SMT DEF RequestFor, CapMismatch
  <2>3. /\ ma \in Nat /\ ma * mv \in Nat
        /\ ma = most \/ mv = 0 \/ (ma < most /\ power < ma * mv + mv)
    <3> HIDE DEF mv
    <3> QED
      BY <2>1, Current, SMT
  <2>4. floor \in Nat /\ power \in Nat /\ floor + mv <= power
    BY SMT DEF Fields, PD_OPERATING_POWER_MW, PD_MAX_POWER_MW
  <2> HIDE DEF ma, most, floor, power
  <2>5. most * 50 * volt = most * mv
    BY <2>1, SMT DEF Fields
  <2> HIDE DEF mv
  <2>6. ma * mv < floor <=> most * mv < floor
    <3>1. CASE ma = most
      BY <3>1
    <3>2. CASE mv = 0
      BY <2>1, <2>3, <3>2, SMT
    <3>3. CASE ma < most /\ power < ma * mv + mv
      <4>1. ma * mv <= most * mv /\ most * mv \in Nat
        BY <2>1, <2>3, <3>3, ProductOrder, SMT
      <4>2. mv \in Nat
        BY <2>1, SMT
      <4> QED
        BY <2>3, <2>4, <3>3, <4>1, <4>2, SMT
    <3> QED
      BY <2>3, <3>1, <3>2, <3>3, Zenon
  <2> QED
    BY <2>2, <2>5, <2>6, SMT DEF most, floor
<1> QED
  BY <1>1, FieldsAssumption, SMT DEF MismatchRight

\* pd_build_request, for every current and voltage field.
THEOREM RequestIsRight == RequestRight
BY RequestsWithinOffer, MismatchesRight DEF RequestRight

\* What the runs see of it, whatever fields they look at: every Request lies within the
\* offer, and its mismatch bit is right (usb_pd_policy.cpp, pd_build_request).
THEOREM RequestAlwaysSound == Spec => []RequestSound
<1>1. RequestSound
  BY RequestIsRight DEF RequestSound, Once
<1> QED
  BY <1>1, PTL
=============================================================================
