------------------------------ MODULE PdoPower ------------------------------
(***************************************************************************)
(* The arithmetic of a Request: what a sink makes of a power data object.  *)
(* Currents in a data object are in units of 10 mA, voltages of 50 mV,     *)
(* powers of 250 mW; each field has ten bits.                              *)
(***************************************************************************)
EXTENDS Integers

CONSTANTS
    CurrentFields,  \* current (or power) fields of the offers looked at
    VoltageFields   \* voltage fields

Fields == 0 .. 1023
ASSUME FieldsAssumption == CurrentFields \subseteq Fields /\ VoltageFields \subseteq Fields

PD_OPERATING_POWER_MW == 2250
PD_MAX_POWER_MW == 60000
PD_MAX_CURRENT_MA == 5000

Lesser(a, b) == IF a <= b THEN a ELSE b

\* Mutant: the limit on power forgotten.
pd_extract_pdo_ma_unlimited(type, field, mv) ==
    IF mv = 0 THEN 0 ELSE Lesser(10 * field, PD_MAX_CURRENT_MA)

(***************************************************************************)
(* The current taken from a PDO.  The power of a battery is multiplied by  *)
(* 1000 where it should be divided: 1000 * uw is beyond PD_MAX_POWER_MW    *)
(* for every power but zero, also where it overflows an int (the product   *)
(* modulo 2^32 is never below PD_MAX_POWER_MW for a ten-bit field, and a   *)
(* negative one is a huge unsigned number in the comparison).              *)
(***************************************************************************)
pd_extract_pdo_ma(type, field, mv) ==
    LET mw == IF field = 0 THEN 0 ELSE PD_MAX_POWER_MW
        ma == IF type = "BATTERY" THEN (1000 * mw) \div mv
              ELSE Lesser(10 * field, (1000 * PD_MAX_POWER_MW) \div mv)
    IN IF mv = 0 THEN 0 ELSE Lesser(ma, PD_MAX_CURRENT_MA)

\* Mutant: compared with the wrong unit.
CapMismatch_in_mW(uw) == uw < PD_OPERATING_POWER_MW

CapMismatch(uw) == uw < 1000 * PD_OPERATING_POWER_MW

\* pd_build_request: operating and maximum current are one.  RDO_BATT_MAX_POWER shifts
\* the maximum power of a battery request into the operating power, where it is already.
RequestFor(type, field, volt) ==
    LET mv == 50 * volt
        ma == pd_extract_pdo_ma(type, field, mv)
        uw == ma * mv
    IN [ op |-> IF type = "BATTERY" THEN (uw \div 1000) \div 250 ELSE ma \div 10,
         max |-> IF type = "BATTERY" THEN 0 ELSE ma \div 10,
         mismatch |-> IF CapMismatch(uw) THEN 1 ELSE 0 ]

\* A request asks for no more current than is offered, so that a source that made the
\* offer accepts it (pd_check_requested_voltage), and for no more current or power than
\* the port takes.
RequestWithinOffer ==
    \A field \in CurrentFields, volt \in VoltageFields :
        LET rdo == RequestFor("FIXED", field, volt)
        IN /\ rdo.op <= field /\ rdo.max <= field
           /\ rdo.op <= 500
           /\ 10 * rdo.op * 50 * volt <= 1000 * PD_MAX_POWER_MW

\* "Mismatch bit set if less power offered than the operating power": for offers that
\* are not batteries, as far as the port can take their current.
MismatchRight ==
    \A field \in CurrentFields, volt \in VoltageFields :
        RequestFor("FIXED", field, volt).mismatch = 1 <=>
            Lesser(10 * field, PD_MAX_CURRENT_MA) * 50 * volt < 1000 * PD_OPERATING_POWER_MW

\* pd_build_request: what is requested lies within the offer and the port's limits, and
\* the mismatch bit says when that is not enough.
RequestRight == RequestWithinOffer /\ MismatchRight
=============================================================================
