----------------------------- MODULE Peripherals -----------------------------
(***************************************************************************)
(* What the drivers of the boards' chips compute: the PMBus number formats *)
(* (peripheral/pmbus.rs), the temperatures of EMC2101, TMP451 and TMP1075  *)
(* and the fan of the EMC2101.                                             *)
(*                                                                         *)
(* A fractional number is an integer, in units of half the smallest step   *)
(* a format has.                                                           *)
(***************************************************************************)
EXTENDS Integers, FiniteSets

CONSTANTS
    ExpBits,    \* bits of the exponent of SLINEAR11 (5)
    MantBits,   \* bits of its mantissa (11)
    VoutWordMax,    \* largest mantissa of ULINEAR16 (65535)
    MaxValue,   \* bound: values converted
    TempBits,   \* bits of an EMC2101 temperature (11), three of them a fraction
    PwmMax      \* duty of a fan at full speed (63)

ASSUME PeripheralConstants ==
    /\ {ExpBits, MantBits, VoutWordMax, MaxValue, TempBits, PwmMax} \subseteq Nat \ {0}
    \* Arithmetic, said because the provers know no exponents.
    /\ \A n \in (0..2^ExpBits) \cup {ExpBits - 1, MantBits - 1, TempBits - 1} :
          2^n \in Nat \ {0} /\ 2^(n + 1) = 2 * 2^n

VARIABLE perIn  \* an input

-----------------------------------------------------------------------------
(* SLINEAR11 and ULINEAR16.                                                *)

\* A field of so many bits as a two's complement number, and back.
Signed(raw, bits) == IF raw >= 2^(bits - 1) THEN raw - 2^bits ELSE raw
Unsigned(v, bits) == v % 2^bits

ExpMin == -(2^(ExpBits - 1))
Exponents == ExpMin..(-ExpMin - 1)

\* The value of one, in units, at an exponent.
Step(e) == 2^(e - ExpMin + 1)

\* Rounds half away from zero, as f32::round.
RoundDiv(v, d) == IF v >= 0 THEN (2 * v + d) \div (2 * d) ELSE -((d - 2 * v) \div (2 * d))

Distance(a, b) == IF a > b THEN a - b ELSE b - a

UnsignedMantissa(w) == w.mant * Step(Signed(w.exp, ExpBits)) \* mutant: no sign extension

\* linear11::to_float.
Linear11ToFloat(w) == Signed(w.mant, MantBits) * Step(Signed(w.exp, ExpBits))

\* linear11::from_float: 0 is the word 0; else the first exponent of least error
\* among those whose mantissa is in range before it is rounded, 0 when none is.
\* The mantissa is cut to its field.
Linear11FromFloat(v) ==
    LET lim   == 2^(MantBits - 1)
        fit   == {e \in Exponents : -lim * Step(e) <= v /\ v < lim * Step(e)}
        err(e) == Distance(RoundDiv(v, Step(e)) * Step(e), v)
        best  == {e \in fit : \A f \in fit : err(e) <= err(f)}
        exp   == IF v = 0 \/ fit = {} THEN 0 ELSE CHOOSE e \in best : \A f \in best : e <= f
    IN  [exp  |-> Unsigned(exp, ExpBits), mant |-> Unsigned(RoundDiv(v, Step(exp)), MantBits)]

\* Linear11 of pmbus_types.rs has no sign: 0 for what is below zero, refused
\* when the mantissa rounds up out of its field.
TypedToFloat(w) == w.mant * Step(Signed(w.exp, ExpBits))

TypedFromFloat(v) ==
    LET fit   == {e \in Exponents : 0 <= v /\ v < 2^MantBits * Step(e)}
        err(e) == Distance(RoundDiv(v, Step(e)) * Step(e), v)
        best  == {e \in fit : \A f \in fit : err(e) <= err(f)}
        exp   == IF v = 0 \/ fit = {} THEN 0 ELSE CHOOSE e \in best : \A f \in best : e <= f
        mant  == IF v < 0 THEN 0 ELSE RoundDiv(v, Step(exp))
    IN  IF mant >= 2^MantBits THEN {} ELSE {[exp |-> Unsigned(exp, ExpBits), mant |-> mant]}

\* VoutMode: ULINEAR16 at the exponent of VOUT_MODE.
Linear16FromFloat(v, e) ==
    LET m == RoundDiv(v, Step(e)) IN IF m < 0 \/ m > VoutWordMax THEN {} ELSE {m}

Linear16ToFloat(m, e) == m * Step(e)

-----------------------------------------------------------------------------
(* Temperatures and the fan.                                               *)

\* Emc2101::get_external_temperature, in eighths of a degree; two codes are
\* faults of the diode, and an error.
DiodeOpen == 2^(TempBits - 1) - 8
DiodeShort == 2^(TempBits - 1) - 1
ExternalTemp(raw) ==
    IF raw \in {DiodeOpen, DiodeShort} THEN {}
    ELSE {IF raw >= 2^(TempBits - 1) THEN -((2^TempBits - 1 - raw) + 1) ELSE raw}

\* Tmp451::read_local: two reads, between which the temperature may change.
Tmp451Reading(first, second) == 16 * (first \div 16) + (second % 16)

\* Tmp1075: Reading::from_raw.
Tmp1075Reading(raw) == Signed(raw \div 16, 12)

\* set_fan_speed and get_fan_speed.
FanDuty(percent) == (percent * PwmMax) \div 100
FanPercent(duty) == (duty * 100) \div PwmMax

-----------------------------------------------------------------------------
PerInit ==
    \/ \E v \in (-MaxValue)..MaxValue : perIn = [kind |-> "value", v |-> v]
    \/ \E t \in 0..(2^TempBits - 1) : perIn = [kind |-> "emc", raw |-> t]
    \/ \E t \in 0..255, d \in -1..1 : perIn = [kind |-> "tmp", from |-> t, by |-> d]
    \/ \E p \in 0..100 : perIn = [kind |-> "fan", percent |-> p]

\* The conversions keep no state.
PerSpec == PerInit /\ [][UNCHANGED perIn]_perIn

-----------------------------------------------------------------------------
(* Properties.                                                             *)

\* Spans of the format by which a mantissa is beyond its field.
Wraps(m) == (m + 2^(MantBits - 1)) \div 2^MantBits

\* What a limit or a voltage reads back as, whatever it was.  SLINEAR11 is off by
\* half a step at most when the rounded mantissa fits its field, and by whole
\* spans of the format besides when it does not: for a value in range that is
\* one span, so a mantissa that rounds up to the sign bit turns the value
\* negative.  The typed form takes 0 for what is below zero; it and ULINEAR16
\* refuse what does not fit and keep the rest to half a step (pmbus.rs:1004,
\* pmbus_types.rs:98, tps546.rs:1252).
FormatsRoundTrip ==
    perIn.kind = "value" =>
        LET v   == perIn.v
            w   == Linear11FromFloat(v)
            e   == Signed(w.exp, ExpBits)
            n   == Wraps(RoundDiv(v, Step(e)))
            top == 2^(MantBits - 1) * Step(-ExpMin - 1)
        IN  /\ 2 * Distance(Linear11ToFloat(w) + n * (2^MantBits * Step(e)), v) <= Step(e)
            /\ (v < top /\ v >= -top) => n \in {0, 1}
            /\ \A t \in TypedFromFloat(v) :
                  IF v < 0 THEN TypedToFloat(t) = 0
                  ELSE 2 * Distance(TypedToFloat(t), v) <= Step(Signed(t.exp, ExpBits))
            /\ \A x \in Exponents, m \in 0..VoutWordMax :
                  m \in Linear16FromFloat(v, x) => 2 * Distance(Linear16ToFloat(m, x), v) <= Step(x)

\* A temperature is read with its sign, neither code for a fault of the diode is
\* read as a temperature (bitaxe.rs:316), and one that changes between the reads of its
\* halves is off by less than a degree (emc2101.rs:222, tmp451.rs:102).
ReadingsAreClose ==
    /\ perIn.kind = "emc" => \A t \in ExternalTemp(perIn.raw) :
          /\ t % 2^TempBits = perIn.raw /\ t \in -(2^(TempBits - 1))..(2^(TempBits - 1) - 1)
          /\ perIn.raw \notin {DiodeOpen, DiodeShort}
    /\ perIn.kind = "tmp" /\ perIn.from + perIn.by \in 0..255 =>
          Distance(Tmp451Reading(perIn.from, perIn.from + perIn.by), perIn.from) < 16

\* The fan speed read back is that set, to one step of the duty, and 100% is
\* full speed (emc2101.rs:202).
FanReadsBack ==
    perIn.kind = "fan" =>
        LET p == FanPercent(FanDuty(perIn.percent))
        IN  p <= perIn.percent /\ perIn.percent - p <= (100 \div PwmMax) + 1
            /\ (perIn.percent = 100 => FanDuty(perIn.percent) = PwmMax)

\* What a value becomes on its way through the registers of the peripherals
\* (pmbus.rs:1004, emc2101.rs:222).
PeripheralsConvert == FormatsRoundTrip /\ ReadingsAreClose /\ FanReadsBack
=============================================================================
