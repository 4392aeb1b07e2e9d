---------------------------- MODULE FormatProofs ----------------------------
(***************************************************************************)
(* Proofs about the conversions that keep no state: what the peripherals   *)
(* read and write, what the BM13xx chips are told, and what nano-pool      *)
(* encodes.                                                                *)
(*                                                                         *)
(* A lemma is about one number or input of any size; products and          *)
(* quotients the provers would not match are given names (Prod, Quot).     *)
(* The library's induction on natural numbers takes an operator, which the *)
(* provers cannot instantiate; a proof by induction takes the least        *)
(* counterexample (NatMin) instead.                                        *)
(***************************************************************************)
EXTENDS Peripherals, ChipProtocol, PoolFormats, FiniteSetTheorems, SequenceTheorems, WellFoundedInduction, TLAPS

-----------------------------------------------------------------------------
(* Arithmetic.                                                             *)

\* A set of naturals has a least element.
LEMMA NatMin ==
    ASSUME NEW T, T \subseteq Nat, T # {}
    PROVE  \E x \in T : \A y \in T : x <= y
  <1>1. \E x \in T : \A y \in T : ~ (<<y, x>> \in OpToRel(<, Nat))
    BY WFMin, NatLessThanWellFounded
  <1>2. PICK x \in T : \A y \in T : ~ (<<y, x>> \in OpToRel(<, Nat))
    BY <1>1
  <1>3. \A y \in T : ~(y < x)
    BY <1>2 DEF OpToRel
  <1> QED BY <1>3

\* Quotient and remainder are the only ones.
LEMMA Quotient ==
    ASSUME NEW p \in Nat \ {0}, NEW q \in Nat, NEW s \in Nat, s < p
    PROVE  (p * q + s) \div p = q /\ (p * q + s) % p = s
  <1>0. PICK x \in Nat : x = p * q + s
    <2>1. p * q \in Nat
      OBVIOUS
    <2> QED BY <2>1
  <1>1. PICK d \in Nat : d = x \div p
    OBVIOUS
  <1>2. PICK e \in Nat : e = x % p /\ e < p
    OBVIOUS
  <1>3. x = p * d + e
    BY <1>1, <1>2
  <1>4. ~(q < d)
    <2>1. SUFFICES ASSUME q < d PROVE FALSE
      OBVIOUS
    <2>2. PICK c \in Nat : d = q + 1 + c
      <3>1. d - q - 1 \in Nat /\ d = q + 1 + (d - q - 1)
        BY <2>1
      <3> QED BY <3>1
    <2>3. p * d = p * q + p + p * c /\ p * c \in Nat /\ p * q \in Nat
      BY <2>2
    <2> QED BY <1>0, <1>3, <2>3
  <1>5. ~(d < q)
    <2>1. SUFFICES ASSUME d < q PROVE FALSE
      OBVIOUS
    <2>2. PICK c \in Nat : q = d + 1 + c
      <3>1. q - d - 1 \in Nat /\ q = d + 1 + (q - d - 1)
        BY <2>1
      <3> QED BY <3>1
    <2>3. p * q = p * d + p + p * c /\ p * c \in Nat /\ p * d \in Nat
      BY <2>2
    <2> QED BY <1>0, <1>2, <1>3, <2>3
  <1>6. d = q
    BY <1>4, <1>5
  <1>7. e = s
    <2>1. p * q \in Nat
      OBVIOUS
    <2> QED BY <1>0, <1>3, <1>6, <2>1
  <1> QED BY <1>0, <1>1, <1>2, <1>6, <1>7

LEMMA Division ==
    ASSUME NEW x \in Nat, NEW p \in Nat \ {0}
    PROVE  /\ x \div p \in Nat /\ x % p \in Nat /\ x % p < p
           /\ x = p * (x \div p) + (x % p)
  <1>1. x \div p \in Nat
    OBVIOUS
  <1>2. x % p \in Nat /\ x % p < p
    OBVIOUS
  <1>3. x = p * (x \div p) + (x % p)
    OBVIOUS
  <1> QED BY <1>1, <1>2, <1>3

Quot(x, p) == x \div p
Prod(p, q) == p * q

\* Dividing twice is dividing by the product.
LEMMA DivideTwice ==
    ASSUME NEW x \in Nat, NEW p \in Nat \ {0}, NEW q \in Nat \ {0}
    PROVE  Prod(p, q) \in Nat \ {0} /\ Quot(x, Prod(p, q)) = Quot(Quot(x, p), q)
  <1>1. PICK d \in Nat, e \in Nat : d = x \div p /\ e < p /\ x = p * d + e
    BY Division
  <1>2. PICK f \in Nat, g \in Nat : f = d \div q /\ g < q /\ d = q * f + g
    BY Division
  <1>3. PICK s \in Nat : s = p * g + e
    OBVIOUS
  <1>4. p * q \in Nat \ {0} /\ s < p * q
    <2>1. PICK k \in Nat : q = g + 1 + k
      <3>1. q - g - 1 \in Nat /\ q = g + 1 + (q - g - 1)
        BY <1>2
      <3> QED BY <3>1
    <2>2. PICK y \in Nat, z \in Nat : y = p * g /\ z = p * k
      OBVIOUS
    <2>3. p * q = y + p + z
      BY <2>1, <2>2
    <2> QED BY <1>1, <1>3, <2>2, <2>3
  <1>5. x = (p * q) * f + s
    <2>1. PICK y \in Nat, z \in Nat : y = q * f /\ z = p * g
      OBVIOUS
    <2>2. p * d = p * y + z
      BY <1>2, <2>1
    <2>3. (p * q) * f = p * y
      BY <2>1
    <2>4. p * y \in Nat
      OBVIOUS
    <2> QED BY <1>1, <1>3, <2>1, <2>2, <2>3, <2>4
  <1>6. ((p * q) * f + s) \div (p * q) = f
    BY <1>4, Quotient
  <1>7. x \div (p * q) = f
    BY <1>5, <1>6, Zenon
  <1> QED BY <1>1, <1>2, <1>4, <1>7, Zenon DEF Quot, Prod

-----------------------------------------------------------------------------
(* What the peripherals convert.                                           *)

LEMMA PowersOfTwo ==
    /\ \A bits \in {ExpBits, MantBits, TempBits} :
          2^(bits - 1) \in Nat \ {0} /\ 2^bits = 2 * 2^(bits - 1)
    /\ \A e \in Exponents : e \in Int /\ Step(e) \in Nat \ {0}
    /\ ExpMin = -(2^(ExpBits - 1)) /\ 0 \in Exponents /\ -ExpMin - 1 \in Exponents
  <1>1. /\ {ExpBits, MantBits, TempBits} \subseteq Nat \ {0}
        /\ \A n \in (0..2^ExpBits) \cup {ExpBits - 1, MantBits - 1, TempBits - 1} :
              2^n \in Nat \ {0} /\ 2^(n + 1) = 2 * 2^n
    BY PeripheralConstants
  <1>2. ASSUME NEW bits \in {ExpBits, MantBits, TempBits}
        PROVE  2^(bits - 1) \in Nat \ {0} /\ 2^bits = 2 * 2^(bits - 1)
    <2>1. (bits - 1) + 1 = bits
      BY <1>1
    <2>2. 2^(bits - 1) \in Nat \ {0} /\ 2^((bits - 1) + 1) = 2 * 2^(bits - 1)
      BY <1>1
    <2> QED BY <2>1, <2>2
  <1>3. PICK b \in Nat \ {0} : b = 2^(ExpBits - 1) /\ 2^ExpBits = 2 * b
    BY <1>2
  <1>4. ExpMin = -b /\ Exponents = (-b)..(b - 1)
    BY <1>3 DEF ExpMin, Exponents
  <1>5. ASSUME NEW e \in Exponents PROVE e \in Int /\ Step(e) \in Nat \ {0}
    <2>1. e - ExpMin + 1 \in 0..2^ExpBits
      BY <1>3, <1>4
    <2> QED BY <1>1, <1>4, <2>1 DEF Step
  <1> QED BY <1>2, <1>3, <1>4, <1>5

\* A field keeps a number of its range.
LEMMA FieldKeeps ==
    ASSUME NEW bits, NEW b \in Nat \ {0}, 2^(bits - 1) = b, 2^bits = 2 * b, NEW v \in (-b)..(b - 1)
    PROVE  Unsigned(v, bits) \in 0..(2 * b - 1) /\ Signed(Unsigned(v, bits), bits) = v
  <1>1. CASE v >= 0
    <2>1. v % (2 * b) = v
      BY <1>1
    <2> QED BY <1>1, <2>1 DEF Unsigned, Signed
  <1>2. CASE v < 0
    <2>1. v % (2 * b) = v + 2 * b
      BY <1>2
    <2> QED BY <1>2, <2>1 DEF Unsigned, Signed
  <1> QED BY <1>1, <1>2

\* Rounding moves a number by half a step at most.
LEMMA RoundsClose ==
    ASSUME NEW v \in Int, NEW d \in Nat \ {0}
    PROVE  /\ RoundDiv(v, d) \in Int /\ RoundDiv(v, d) * d \in Int
           /\ 2 * Distance(RoundDiv(v, d) * d, v) <= d
           /\ v >= 0 => RoundDiv(v, d) \in Nat
  <1>1. CASE v >= 0
    <2>1. PICK x \in Nat, p \in Nat \ {0} : x = 2 * v + d /\ p = 2 * d
      BY <1>1
    <2>2. PICK q \in Nat, r \in Nat : q = x \div p /\ x = p * q + r /\ r < p
      BY Division
    <2>3. RoundDiv(v, d) = q
      BY <1>1, <2>1, <2>2 DEF RoundDiv
    <2>4. PICK y \in Nat : y = q * d
      OBVIOUS
    <2>5. p * q = 2 * y
      BY <2>1, <2>4
    <2>6. 2 * v + d = 2 * y + r /\ r < 2 * d
      BY <2>1, <2>2, <2>5
    <2> QED BY <2>3, <2>4, <2>6 DEF Distance
  <1>2. CASE v < 0
    <2>1. PICK x \in Nat, p \in Nat \ {0} : x = d - 2 * v /\ p = 2 * d
      BY <1>2
    <2>2. PICK q \in Nat, r \in Nat : q = x \div p /\ x = p * q + r /\ r < p
      BY Division
    <2>3. RoundDiv(v, d) = -q
      BY <1>2, <2>1, <2>2 DEF RoundDiv
    <2>4. PICK y \in Nat : y = q * d
      OBVIOUS
    <2>5. p * q = 2 * y /\ (-q) * d = -y
      BY <2>1, <2>4
    <2>6. d - 2 * v = 2 * y + r /\ r < 2 * d
      BY <2>1, <2>2, <2>5
    <2> QED BY <1>2, <2>3, <2>4, <2>5, <2>6 DEF Distance
  <1> QED BY <1>1, <1>2

\* What rounds away from a range of mantissas stops at its end.
LEMMA RoundsInRange ==
    ASSUME NEW lim \in Nat \ {0}, NEW v \in Int, NEW d \in Nat \ {0}, v < lim * d
    PROVE  /\ -lim * d <= v => RoundDiv(v, d) \in (-lim)..lim
           /\ v >= 0 => RoundDiv(v, d) \in 0..lim
  <1>1. PICK q \in Int : q = RoundDiv(v, d) /\ 2 * Distance(q * d, v) <= d /\ (v >= 0 => q \in Nat)
    BY RoundsClose
  <1>2. PICK l \in Nat : l = lim * d
    OBVIOUS
  <1>3. q <= lim
    <2> SUFFICES ASSUME q > lim PROVE FALSE
      BY <1>1
    <2>1. PICK c \in Nat : q = lim + 1 + c
      <3>1. q - lim - 1 \in Nat /\ q = lim + 1 + (q - lim - 1)
        OBVIOUS
      <3> QED BY <3>1
    <2>2. PICK y \in Nat : y = c * d
      OBVIOUS
    <2>3. q * d = l + d + y
      BY <1>2, <2>1, <2>2
    <2> QED BY <1>1, <1>2, <2>3 DEF Distance
  <1>4. -lim * d <= v => q >= -lim
    <2> SUFFICES ASSUME q < -lim, -lim * d <= v PROVE FALSE
      BY <1>1
    <2>1. PICK c \in Nat : q = (-lim) - 1 - c
      <3>1. -lim - 1 - q \in Nat /\ q = (-lim) - 1 - (-lim - 1 - q)
        OBVIOUS
      <3> QED BY <3>1
    <2>2. PICK y \in Nat : y = c * d
      OBVIOUS
    <2>3. q * d = -l - d - y /\ -lim * d = -l
      BY <1>2, <2>1, <2>2
    <2> QED BY <1>1, <1>2, <2>3 DEF Distance
  <1> QED BY <1>1, <1>3, <1>4

\* The error at each exponent.
Errors(v) == [e \in Exponents |-> Distance(RoundDiv(v, Step(e)) * Step(e), v)]

\* Among the exponents that fit there is a first one of least error.
LEMMA BestExponent ==
    ASSUME NEW v \in Int, NEW fit \in SUBSET Exponents, fit # {},
           NEW best, best = {e \in fit : \A f \in fit : Distance(RoundDiv(v, Step(e)) * Step(e), v)
                                           <= Distance(RoundDiv(v, Step(f)) * Step(f), v)}
    PROVE  (CHOOSE e \in best : \A f \in best : e <= f) \in fit
  <1>1. \A e \in Exponents : Errors(v)[e] \in Nat
    <2> TAKE e \in Exponents
    <2>1. Step(e) \in Nat \ {0}
      BY PowersOfTwo
    <2>2. RoundDiv(v, Step(e)) * Step(e) \in Int
      BY <2>1, RoundsClose
    <2>3. Errors(v)[e] = Distance(RoundDiv(v, Step(e)) * Step(e), v)
      BY DEF Errors
    <2>4. PICK y \in Int : y = RoundDiv(v, Step(e)) * Step(e)
      BY <2>2
    <2> QED BY <2>3, <2>4 DEF Distance
  <1>2. PICK least \in fit : \A f \in fit : Errors(v)[least] <= Errors(v)[f]
    <2> DEFINE T == {Errors(v)[e] : e \in fit}
    <2>1. T \subseteq Nat /\ T # {}
      BY <1>1
    <2>2. PICK x \in T : \A y \in T : x <= y
      BY <2>1, NatMin
    <2> QED BY <2>2
  <1>3. least \in best
    BY <1>2 DEF Errors
  <1>4. PICK b \in Nat : ExpMin = -b
    BY PowersOfTwo
  <1>5. \A e \in best : e \in Int /\ e + b \in Nat
    BY <1>4, PowersOfTwo DEF Exponents
  <1>6. \E e \in best : \A f \in best : e <= f
    <2> DEFINE T == {e + b : e \in best}
    <2>1. T \subseteq Nat /\ T # {}
      BY <1>3, <1>5
    <2>2. PICK x \in T : \A y \in T : x <= y
      BY <2>1, NatMin
    <2>3. PICK e \in best : x = e + b
      BY <2>2
    <2>4. \A f \in best : e + b <= f + b
      BY <2>2, <2>3
    <2> QED BY <1>5, <2>4
  <1> QED BY <1>6

\* Division of any integer, and its only quotient.
LEMMA WholeDivision ==
    ASSUME NEW p \in Nat \ {0}, NEW m \in Int
    PROVE  m \div p \in Int /\ m % p \in 0..(p - 1) /\ m = p * (m \div p) + (m % p)
  OBVIOUS

LEMMA WholeQuotient ==
    ASSUME NEW p \in Nat \ {0}, NEW q \in Int, NEW s \in 0..(p - 1)
    PROVE  (p * q + s) \div p = q
  <1>1. PICK x \in Int : x = p * q + s
    OBVIOUS
  <1>2. PICK d \in Int, r \in 0..(p - 1) : d = x \div p /\ x = p * d + r
    BY WholeDivision
  <1>3. d - q \in Int /\ p * (d - q) = s - r
    <2>1. PICK a \in Int, b \in Int : a = p * d /\ b = p * q
      OBVIOUS
    <2>2. p * (d - q) = a - b
      BY <2>1
    <2> QED BY <1>1, <1>2, <2>1, <2>2
  <1>4. PICK k \in Int : k = d - q
    OBVIOUS
  <1>5. CASE k = 0
    BY <1>1, <1>2, <1>4, <1>5
  <1>6. CASE k > 0
    <2>1. PICK j \in Nat : k = j + 1
      <3>1. k - 1 \in Nat /\ k = (k - 1) + 1
        BY <1>6
      <3> QED BY <3>1
    <2>2. PICK y \in Nat : y = p * j
      OBVIOUS
    <2>3. p * k = y + p
      BY <2>1, <2>2
    <2> QED BY <1>3, <1>4, <2>2, <2>3
  <1>7. CASE k < 0
    <2>1. PICK j \in Nat : k = -j - 1
      <3>1. -k - 1 \in Nat /\ k = -(-k - 1) - 1
        BY <1>7
      <3> QED BY <3>1
    <2>2. PICK y \in Nat : y = p * j
      OBVIOUS
    <2>3. p * k = -y - p
      BY <2>1, <2>2
    <2> QED BY <1>3, <1>4, <2>2, <2>3
  <1> QED BY <1>5, <1>6, <1>7

\* A field drops whole spans of what does not fit.
LEMMA FieldWraps ==
    ASSUME NEW m \in Int
    PROVE  /\ Wraps(m) \in Int
           /\ Signed(Unsigned(m, MantBits), MantBits) \in Int
           /\ Signed(Unsigned(m, MantBits), MantBits) + 2^MantBits * Wraps(m) = m
           /\ m \in (-(2^(MantBits - 1)))..(2^(MantBits - 1)) => Wraps(m) \in {0, 1}
  <1>1. PICK b \in Nat \ {0}, p \in Nat \ {0} : b = 2^(MantBits - 1) /\ p = 2^MantBits /\ p = 2 * b
    BY PowersOfTwo
  <1>2. PICK q \in Int, r \in 0..(p - 1) : q = m \div p /\ r = m % p /\ m = p * q + r
    BY WholeDivision
  <1>3. PICK y \in Int : y = p * q
    OBVIOUS
  <1>4. CASE r < b
    <2>1. r + b \in 0..(p - 1) /\ m + b = p * q + (r + b)
      <3>1. r + b \in 0..(p - 1)
        BY <1>1, <1>4
      <3>2. m = y + r
        BY <1>2, <1>3, Zenon
      <3>3. m + b = y + (r + b)
        BY <3>2
      <3> QED BY <1>3, <3>1, <3>3, Zenon
    <2>2. Wraps(m) = q
      BY <1>1, <2>1, WholeQuotient DEF Wraps
    <2>3. Signed(Unsigned(m, MantBits), MantBits) = r
      BY <1>1, <1>2, <1>4 DEF Signed, Unsigned
    <2>4. m \in (-b)..b => q \in {0, 1}
      <3> SUFFICES ASSUME m \in (-b)..b PROVE q = 0
        OBVIOUS
      <3>1. (p * 0 + (m + b)) \div p = 0 \/ m + b = p
        <4>1. CASE m + b < p
          <5>1. m + b \in 0..(p - 1)
            BY <1>1, <4>1
          <5> QED BY <5>1, WholeQuotient
        <4> QED BY <1>1, <4>1
      <3>2. CASE m + b = p
        <4>1. m = p * 0 + b /\ b \in 0..(p - 1)
          BY <1>1, <3>2
        <4>2. q = 0 /\ r = b
          BY <1>2, <4>1, WholeQuotient
        <4> QED BY <1>4, <4>2
      <3>3. CASE m + b # p
        <4>1. p * 0 + (m + b) = m + b
          BY <1>1
        <4> QED BY <1>1, <2>2, <3>1, <3>3, <4>1 DEF Wraps
      <3> QED BY <3>2, <3>3
    <2>5. r + p * q = m
      BY <1>2, <1>3
    <2> QED BY <1>1, <2>2, <2>3, <2>4, <2>5
  <1>5. CASE r >= b
    <2>1. PICK k \in Int : k = q + 1
      OBVIOUS
    <2>2. p * k = y + p
      BY <1>3, <2>1
    <2>3. r - b \in 0..(p - 1) /\ m + b = p * k + (r - b)
      <3>1. r - b \in 0..(p - 1)
        BY <1>1, <1>5
      <3>2. m = y + r
        BY <1>2, <1>3, Zenon
      <3>3. m + b = (y + p) + (r - b)
        BY <1>1, <3>2
      <3> QED BY <2>2, <3>1, <3>3, Zenon
    <2>4. Wraps(m) = k
      BY <1>1, <2>3, WholeQuotient DEF Wraps
    <2>5. Signed(Unsigned(m, MantBits), MantBits) = r - p
      BY <1>1, <1>2, <1>5 DEF Signed, Unsigned
    <2>6. m \in (-b)..b => k \in {0, 1}
      <3> SUFFICES ASSUME m \in (-b)..b PROVE k \in {0, 1}
        OBVIOUS
      <3>1. CASE m + b < p
        <4>1. m + b \in 0..(p - 1) /\ p * 0 + (m + b) = m + b
          BY <1>1, <3>1
        <4>2. (m + b) \div p = 0
          BY <4>1, WholeQuotient
        <4> QED BY <1>1, <2>4, <4>2 DEF Wraps
      <3>2. CASE m + b = p
        <4>1. p * 1 + 0 = m + b /\ 0 \in 0..(p - 1)
          BY <1>1, <3>2
        <4>2. (m + b) \div p = 1
          BY <4>1, WholeQuotient
        <4> QED BY <1>1, <2>4, <4>2 DEF Wraps
      <3> QED BY <1>1, <3>1, <3>2
    <2>7. (r - p) + p * k = m
      BY <1>2, <1>3, <2>2
    <2> QED BY <1>1, <2>4, <2>5, <2>6, <2>7
  <1> QED BY <1>4, <1>5

\* What SLINEAR11 makes of a value.
LEMMA Linear11Keeps ==
    ASSUME NEW v \in Int, NEW e, e = Signed(Linear11FromFloat(v).exp, ExpBits),
           NEW n, n = Wraps(RoundDiv(v, Step(e))), NEW top, top = 2^(MantBits - 1) * Step(-ExpMin - 1)
    PROVE  /\ 2 * Distance(Linear11ToFloat(Linear11FromFloat(v)) + n * (2^MantBits * Step(e)), v) <= Step(e)
           /\ (v < top /\ v >= -top) => n \in {0, 1}
  <1> DEFINE lim == 2^(MantBits - 1)
             fit == {f \in Exponents : -lim * Step(f) <= v /\ v < lim * Step(f)}
             best == {i \in fit : \A f \in fit : Distance(RoundDiv(v, Step(i)) * Step(i), v)
                                        <= Distance(RoundDiv(v, Step(f)) * Step(f), v)}
             x == IF v = 0 \/ fit = {} THEN 0 ELSE CHOOSE i \in best : \A f \in best : i <= f
  <1>1. lim \in Nat \ {0} /\ 2^MantBits = 2 * lim
    BY PowersOfTwo
  <1>2. x \in Exponents /\ (v # 0 /\ fit # {} => x \in fit)
    <2>1. fit \in SUBSET Exponents
      OBVIOUS
    <2> HIDE DEF fit
    <2>2. ASSUME fit # {} PROVE (CHOOSE i \in best : \A f \in best : i <= f) \in fit
      BY <2>1, <2>2, BestExponent
    <2> QED BY <2>1, <2>2, PowersOfTwo
  <1>3. Linear11FromFloat(v) = [exp  |-> Unsigned(x, ExpBits),
                                mant |-> Unsigned(RoundDiv(v, Step(x)), MantBits)]
    BY Zenon DEF Linear11FromFloat
  <1>4. v # 0 /\ fit # {} => -lim * Step(x) <= v /\ v < lim * Step(x)
    <2> HIDE DEF x
    <2> QED BY <1>2
  <1>5. v < top /\ v >= -top => -lim * Step(-ExpMin - 1) <= v /\ v < lim * Step(-ExpMin - 1)
    <2>1. PICK s \in Nat, l \in Nat : s = Step(-ExpMin - 1) /\ l = lim
      BY <1>1, PowersOfTwo
    <2>2. PICK y \in Nat : y = l * s
      OBVIOUS
    <2>3. -l * s = -y
      BY <2>2
    <2>4. top = y
      BY <2>1, <2>2, Zenon
    <2>5. lim * Step(-ExpMin - 1) = y /\ -lim * Step(-ExpMin - 1) = -y
      <3>1. -l * s = -lim * Step(-ExpMin - 1) /\ l * s = lim * Step(-ExpMin - 1)
        BY <2>1, Zenon
      <3> QED BY <2>2, <2>3, <3>1, Zenon
    <2> HIDE DEF lim
    <2>6. v < y /\ v >= -y => -y <= v /\ v < y
      OBVIOUS
    <2> QED BY <2>4, <2>5, <2>6, Zenon
  <1>6. v < top /\ v >= -top => fit # {}
    BY <1>5, PowersOfTwo
  <1> HIDE DEF x, fit, lim
  <1>7. Signed(Unsigned(x, ExpBits), ExpBits) = x
    <2>1. PICK b \in Nat \ {0} : b = 2^(ExpBits - 1) /\ 2^ExpBits = 2 * b /\ x \in (-b)..(b - 1)
      BY <1>2, PowersOfTwo DEF Exponents
    <2> QED BY <2>1, FieldKeeps
  <1>8. e = x
    BY <1>3, <1>7
  <1>9. PICK d \in Nat \ {0} : d = Step(x)
    BY <1>2, PowersOfTwo
  <1>10. PICK m \in Int : m = RoundDiv(v, d) /\ m * d \in Int /\ 2 * Distance(m * d, v) <= d
    BY RoundsClose
  <1>11. n = Wraps(m)
    BY <1>8, <1>9, <1>10, Zenon
  <1>12. PICK k \in Int, p \in Int : k = Signed(Unsigned(m, MantBits), MantBits) /\ p = 2^MantBits
                                    /\ n \in Int /\ k + p * n = m
    BY <1>1, <1>11, FieldWraps
  <1>13. Linear11ToFloat(Linear11FromFloat(v)) = k * d
    BY <1>3, <1>7, <1>9, <1>10, <1>12 DEF Linear11ToFloat
  <1>14. k * d + n * (p * d) = m * d
    <2>1. PICK i \in Int : i = p * n
      BY <1>12
    <2>2. n * (p * d) = i * d
      BY <1>12, <2>1
    <2>3. m = k + i
      BY <1>12, <2>1
    <2> QED BY <2>2, <2>3
  <1>15. 2 * Distance(Linear11ToFloat(Linear11FromFloat(v)) + n * (2^MantBits * Step(e)), v) <= Step(e)
    BY <1>8, <1>9, <1>10, <1>12, <1>13, <1>14, Zenon
  <1>16. ASSUME v < top, v >= -top PROVE n \in {0, 1}
    <2>1. CASE v = 0
      <3>1. m \in 0..lim
        <4>1. PICK y \in Nat \ {0} : y = lim * d
          BY <1>1
        <4>2. v < lim * d
          BY <2>1, <4>1
        <4> QED BY <1>1, <1>10, <2>1, <4>2, RoundsInRange
      <3>2. m \in (-lim)..lim
        BY <1>1, <3>1
      <3> QED BY <1>11, <3>2, FieldWraps DEF lim
    <2>2. CASE v # 0
      <3>1. m \in (-lim)..lim
        BY <1>1, <1>4, <1>6, <1>9, <1>10, <1>16, <2>2, RoundsInRange
      <3> QED BY <1>11, <3>1, FieldWraps DEF lim
    <2> QED BY <2>1, <2>2
  <1> QED BY <1>15, <1>16

\* The typed SLINEAR11 takes 0 for what is below zero.
LEMMA TypedNegative ==
    ASSUME NEW v \in Int, v < 0, NEW t \in TypedFromFloat(v)
    PROVE  TypedToFloat(t) = 0
  <1>1. t.mant = 0
    BY DEF TypedFromFloat
  <1>2. t.exp = Unsigned(0, ExpBits)
    <2>1. \A e \in Exponents : ~(0 <= v /\ v < 2^MantBits * Step(e))
      OBVIOUS
    <2> QED BY <2>1 DEF TypedFromFloat
  <1>3. Signed(t.exp, ExpBits) = 0
    <2>1. PICK b \in Nat \ {0} : b = 2^(ExpBits - 1) /\ 2^ExpBits = 2 * b /\ 0 \in (-b)..(b - 1)
      BY PowersOfTwo DEF Exponents
    <2> QED BY <1>2, <2>1, FieldKeeps
  <1>4. Step(0) \in Nat
    BY PowersOfTwo
  <1> QED BY <1>1, <1>3, <1>4 DEF TypedToFloat

\* And keeps what else it does not refuse.
LEMMA TypedKeeps ==
    ASSUME NEW v \in Nat, NEW t \in TypedFromFloat(v)
    PROVE  2 * Distance(TypedToFloat(t), v) <= Step(Signed(t.exp, ExpBits))
  <1> DEFINE fit == {e \in Exponents : 0 <= v /\ v < 2^MantBits * Step(e)}
             best == {e \in fit : \A f \in fit : Distance(RoundDiv(v, Step(e)) * Step(e), v)
                                        <= Distance(RoundDiv(v, Step(f)) * Step(f), v)}
             x == IF v = 0 \/ fit = {} THEN 0 ELSE CHOOSE e \in best : \A f \in best : e <= f
             m == RoundDiv(v, Step(x))
  <1>1. x \in Exponents
    <2>1. fit \in SUBSET Exponents /\ v \in Int
      OBVIOUS
    <2> HIDE DEF fit
    <2>2. ASSUME fit # {} PROVE (CHOOSE e \in best : \A f \in best : e <= f) \in fit
      BY <2>1, <2>2, BestExponent
    <2> QED BY <2>1, <2>2, PowersOfTwo
  <1>2. t = [exp |-> Unsigned(x, ExpBits), mant |-> m]
    <2>2. TypedFromFloat(v) =
              LET mant == IF v < 0 THEN 0 ELSE RoundDiv(v, Step(x))
              IN  IF mant >= 2^MantBits THEN {} ELSE {[exp |-> Unsigned(x, ExpBits), mant |-> mant]}
      BY Zenon DEF TypedFromFloat
    <2>3. ~(v < 0)
      OBVIOUS
    <2> HIDE DEF x
    <2> QED BY <2>2, <2>3
  <1> HIDE DEF x
  <1>3. Signed(Unsigned(x, ExpBits), ExpBits) = x
    <2>1. PICK b \in Nat \ {0} : b = 2^(ExpBits - 1) /\ 2^ExpBits = 2 * b /\ x \in (-b)..(b - 1)
      BY <1>1, PowersOfTwo DEF Exponents
    <2> QED BY <2>1, FieldKeeps
  <1>4. TypedToFloat(t) = RoundDiv(v, Step(x)) * Step(x) /\ Signed(t.exp, ExpBits) = x
    BY <1>2, <1>3 DEF TypedToFloat
  <1> QED BY <1>1, <1>4, RoundsClose, PowersOfTwo

LEMMA Linear16Keeps ==
    ASSUME NEW v \in Int, NEW x \in Exponents, NEW m \in Linear16FromFloat(v, x)
    PROVE  2 * Distance(Linear16ToFloat(m, x), v) <= Step(x)
  <1>1. m = RoundDiv(v, Step(x))
    BY DEF Linear16FromFloat
  <1> QED BY <1>1, RoundsClose, PowersOfTwo DEF Linear16ToFloat

LEMMA FormatsKeep ==
    ASSUME perIn.kind = "value" => perIn.v \in Int
    PROVE  FormatsRoundTrip
  <1> SUFFICES ASSUME perIn.kind = "value" PROVE FormatsRoundTrip
    BY DEF FormatsRoundTrip
  <1>1. PICK v \in Int : v = perIn.v
    OBVIOUS
  <1>2. \A w, e, n, top :
            ( /\ w = Linear11FromFloat(v) /\ e = Signed(w.exp, ExpBits)
              /\ n = Wraps(RoundDiv(v, Step(e))) /\ top = 2^(MantBits - 1) * Step(-ExpMin - 1) )
              => /\ 2 * Distance(Linear11ToFloat(w) + n * (2^MantBits * Step(e)), v) <= Step(e)
                 /\ (v < top /\ v >= -top) => n \in {0, 1}
    BY Linear11Keeps
  <1>3. \A t \in TypedFromFloat(v) :
            IF v < 0 THEN TypedToFloat(t) = 0
            ELSE 2 * Distance(TypedToFloat(t), v) <= Step(Signed(t.exp, ExpBits))
    <2> TAKE t \in TypedFromFloat(v)
    <2>1. v < 0 => TypedToFloat(t) = 0
      BY TypedNegative
    <2>2. ~(v < 0) => 2 * Distance(TypedToFloat(t), v) <= Step(Signed(t.exp, ExpBits))
      <3>1. ~(v < 0) => v \in Nat
        OBVIOUS
      <3> QED BY <3>1, TypedKeeps
    <2> QED BY <2>1, <2>2
  <1>4. \A x \in Exponents, m \in 0..VoutWordMax :
            m \in Linear16FromFloat(v, x) => 2 * Distance(Linear16ToFloat(m, x), v) <= Step(x)
    BY Linear16Keeps
  <1> QED BY <1>1, <1>2, <1>3, <1>4, Zenon DEF FormatsRoundTrip

LEMMA Readings ==
    ASSUME perIn.kind = "emc" => perIn.raw \in 0..(2^TempBits - 1),
           perIn.kind = "tmp" => perIn.from \in 0..255 /\ perIn.by \in -1..1
    PROVE  ReadingsAreClose
  <1>1. PICK h \in Nat \ {0} : h = 2^(TempBits - 1) /\ 2^TempBits = 2 * h
    BY PowersOfTwo
  <1>2. ASSUME perIn.kind = "emc", NEW t \in ExternalTemp(perIn.raw)
        PROVE  /\ t % 2^TempBits = perIn.raw
               /\ t \in -(2^(TempBits - 1))..(2^(TempBits - 1) - 1)
               /\ perIn.raw \notin {DiodeOpen, DiodeShort}
    <2>1. PICK r \in 0..(2 * h - 1) : r = perIn.raw
      BY <1>1, <1>2
    <2>2. /\ r \notin {DiodeOpen, DiodeShort} /\ DiodeOpen = h - 8 /\ DiodeShort = h - 1
          /\ t = IF r >= h THEN -((2 * h - 1 - r) + 1) ELSE r
      BY <1>1, <1>2, <2>1 DEF ExternalTemp, DiodeOpen, DiodeShort
    <2>3. CASE r >= h
      <3>1. t = r - 2 * h
        BY <2>2, <2>3
      <3>2. (r - 2 * h) % (2 * h) = r
        BY <2>3
      <3>3. t \in (-h)..(h - 1)
        <4>1. \A a \in Nat, c \in Nat : c >= a /\ c <= 2 * a - 1
                  => c - 2 * a \in Int /\ -a <= c - 2 * a /\ c - 2 * a <= a - 1
          OBVIOUS
        <4>2. r \in Nat /\ r <= 2 * h - 1
          OBVIOUS
        <4>3. t \in Int /\ -h <= t /\ t <= h - 1
          BY <2>3, <3>1, <4>1, <4>2
        <4> QED BY <4>3
      <3> QED BY <1>1, <2>1, <2>2, <3>1, <3>2, <3>3
    <2>4. CASE r < h
      <3>1. t = r
        BY <2>2, <2>4
      <3>2. r % (2 * h) = r
        BY <2>4
      <3>3. t \in (-h)..(h - 1)
        BY <2>4, <3>1
      <3> QED BY <1>1, <2>1, <2>2, <3>1, <3>2, <3>3
    <2> QED BY <2>1, <2>3, <2>4
  <1>3. ASSUME perIn.kind = "tmp", perIn.from + perIn.by \in 0..255
        PROVE  Distance(Tmp451Reading(perIn.from, perIn.from + perIn.by), perIn.from) < 16
    <2>1. PICK f \in 0..255, d \in -1..1 : f = perIn.from /\ d = perIn.by
      BY <1>3
    <2>2. PICK s \in 0..255 : s = f + d
      BY <1>3, <2>1
    <2>3. PICK q \in Nat, r \in 0..15 : q = f \div 16 /\ f = 16 * q + r
      <3>1. f \div 16 \in Nat /\ f % 16 \in 0..15 /\ f = 16 * (f \div 16) + (f % 16)
        OBVIOUS
      <3> QED BY <3>1
    <2>4. PICK t \in 0..15 : t = s % 16
      <3>1. s % 16 \in 0..15
        OBVIOUS
      <3> QED BY <3>1
    <2>5. Tmp451Reading(perIn.from, perIn.from + perIn.by) = 16 * q + t
      BY <2>1, <2>2, <2>3, <2>4 DEF Tmp451Reading
    <2> QED BY <2>1, <2>3, <2>5 DEF Distance
  <1> QED BY <1>2, <1>3 DEF ReadingsAreClose

LEMMA FanReads ==
    ASSUME perIn.kind = "fan" => perIn.percent \in 0..100
    PROVE  FanReadsBack
  <1> SUFFICES ASSUME perIn.kind = "fan" PROVE FanReadsBack
    BY DEF FanReadsBack
  <1>1. PICK c \in 0..100, m \in Nat \ {0} : c = perIn.percent /\ m = PwmMax
    BY PeripheralConstants
  <1>2. PICK y \in Nat : y = c * m
    OBVIOUS
  <1>3. PICK d \in Nat : d = y \div 100 /\ 100 * d <= y /\ y < 100 * d + 100
    OBVIOUS
  <1>4. PICK p \in Nat, r \in Nat : p = (d * 100) \div m /\ d * 100 = m * p + r /\ r < m
    BY Division
  <1>5. PICK q \in Nat, s \in Nat : q = 100 \div m /\ 100 = m * q + s /\ s < m
    BY Division
  <1>6. p <= c
    <2> SUFFICES ASSUME p > c PROVE FALSE
      OBVIOUS
    <2>1. PICK k \in Nat : p = c + 1 + k
      <3>1. p - c - 1 \in Nat /\ p = c + 1 + (p - c - 1)
        OBVIOUS
      <3> QED BY <3>1
    <2>2. PICK z \in Nat : z = m * k
      OBVIOUS
    <2>3. m * p = y + m + z
      BY <1>2, <2>1, <2>2
    <2> QED BY <1>3, <1>4, <2>3
  <1>7. c - p <= q + 1
    <2> SUFFICES ASSUME c > p + q + 1 PROVE FALSE
      OBVIOUS
    <2>1. PICK k \in Nat : c = p + q + 2 + k
      <3>1. c - p - q - 2 \in Nat /\ c = p + q + 2 + (c - p - q - 2)
        OBVIOUS
      <3> QED BY <3>1
    <2>2. PICK z \in Nat, a \in Nat, b \in Nat : z = m * k /\ a = m * p /\ b = m * q
      OBVIOUS
    <2>3. y = a + b + 2 * m + z
      BY <1>2, <2>1, <2>2
    <2> QED BY <1>3, <1>4, <1>5, <2>2, <2>3
  <1>8. c = 100 => d = m
    BY <1>2, <1>3
  <1>9. FanDuty(perIn.percent) = d /\ FanPercent(d) = p /\ 100 \div PwmMax = q
    BY <1>1, <1>2, <1>3, <1>4, <1>5 DEF FanDuty, FanPercent
  <1> QED BY <1>1, <1>6, <1>7, <1>8, <1>9 DEF FanReadsBack

\* What any value becomes in the registers of the regulator, the sensors and
\* the fan (pmbus.rs:1004, emc2101.rs:222), the sign it may lose included, for
\* exponents, mantissas, temperatures and duties of any width.
THEOREM PeripheralsKeepMeaning == PerSpec => []PeripheralsConvert
  <1>1. PerInit => PeripheralsConvert
    <2> SUFFICES ASSUME PerInit PROVE PeripheralsConvert
      OBVIOUS
    <2>1. perIn.kind = "value" => perIn.v \in Int
      BY PeripheralConstants DEF PerInit
    <2>3. perIn.kind = "emc" => perIn.raw \in 0..(2^TempBits - 1)
      BY DEF PerInit
    <2>4. perIn.kind = "tmp" => perIn.from \in 0..255 /\ perIn.by \in -1..1
      BY DEF PerInit
    <2>5. perIn.kind = "fan" => perIn.percent \in 0..100
      BY DEF PerInit
    <2>6. FormatsRoundTrip
      BY <2>1, FormatsKeep
    <2>8. ReadingsAreClose
      BY <2>3, <2>4, Readings
    <2>9. FanReadsBack
      BY <2>5, FanReads
    <2> QED BY <2>6, <2>8, <2>9 DEF PeripheralsConvert
  <1>2. PeripheralsConvert /\ [UNCHANGED perIn]_perIn => PeripheralsConvert'
    BY DEF PeripheralsConvert, FormatsRoundTrip, ReadingsAreClose, FanReadsBack
  <1> QED BY <1>1, <1>2, PTL DEF PerSpec

-----------------------------------------------------------------------------
(* Registers.                                                              *)

LEMMA BaseFacts ==
    /\ Nib \in Nat /\ Nib > 1 /\ ByteBase \in Nat /\ ByteBase >= 4 /\ ByteBase = Nib * Nib
    /\ ByteBase^(1 - 1) = 1 /\ ByteBase^(2 - 1) = ByteBase /\ ByteBase^2 = ByteBase * ByteBase
    /\ ByteBase^3 = ByteBase * (ByteBase * ByteBase)
    /\ ByteBase^4 = ByteBase * (ByteBase * (ByteBase * ByteBase))
    /\ MaxRawReg \in Nat /\ MaxRawReg < ByteBase^4
  <1>1. /\ Nib \in Nat /\ Nib > 1 /\ MaxRawReg \in 0..(ByteBase^4 - 1) /\ ByteBase^0 = 1
        /\ \A n \in 0..3 : ByteBase^(n + 1) = ByteBase * ByteBase^n
    BY ChipProtocolConstants DEF ByteBase
  <1>2. ByteBase = Nib * Nib
    BY DEF ByteBase
  <1>3. ByteBase \in Nat /\ ByteBase >= 4
    <2>1. PICK k \in Nat : Nib = 2 + k
      <3>1. Nib - 2 \in Nat /\ Nib = 2 + (Nib - 2)
        BY <1>1
      <3> QED BY <3>1
    <2>2. PICK y \in Nat : y = k * k
      OBVIOUS
    <2>3. Nib * Nib = 4 + 4 * k + y
      BY <2>1, <2>2
    <2> QED BY <1>2, <2>3
  <1>4. ByteBase^1 = ByteBase
    <2>1. ByteBase^(0 + 1) = ByteBase * 1
      BY <1>1
    <2> QED BY <1>3, <2>1
  <1>5. ByteBase^2 = ByteBase * ByteBase
    <2>1. ByteBase^(1 + 1) = ByteBase * ByteBase^1
      BY <1>1
    <2> QED BY <1>4, <2>1
  <1>6. ByteBase^3 = ByteBase * (ByteBase * ByteBase)
    <2>1. ByteBase^(2 + 1) = ByteBase * ByteBase^2
      BY <1>1
    <2> QED BY <1>5, <2>1
  <1>7. ByteBase^4 = ByteBase * (ByteBase * (ByteBase * ByteBase))
    <2>1. ByteBase^(3 + 1) = ByteBase * ByteBase^3
      BY <1>1
    <2> QED BY <1>6, <2>1
  <1>8. MaxRawReg \in Nat /\ MaxRawReg < ByteBase^4
    <2>1. PICK m \in Nat : m = ByteBase^4
      <3>1. ByteBase * (ByteBase * (ByteBase * ByteBase)) \in Nat
        BY <1>3
      <3> QED BY <1>7, <3>1
    <2> QED BY <1>1, <2>1
  <1> QED BY <1>1, <1>2, <1>3, <1>4, <1>5, <1>6, <1>7, <1>8

\* A number of four digits is their sum.
LEMMA FourDigits ==
    ASSUME NEW b \in Nat \ {0}, NEW v \in Nat, v < b * (b * (b * b))
    PROVE  v = (v % b) + b * ((v \div b) % b) + (b * b) * ((v \div (b * b)) % b)
                 + (b * (b * b)) * ((v \div (b * (b * b))) % b)
  <1>1. PICK q1 \in Nat, d0 \in Nat : q1 = v \div b /\ d0 = v % b /\ v = b * q1 + d0
    BY Division
  <1>2. PICK q2 \in Nat, d1 \in Nat : q2 = q1 \div b /\ d1 = q1 % b /\ q1 = b * q2 + d1
    BY Division
  <1>3. PICK q3 \in Nat, d2 \in Nat : q3 = q2 \div b /\ d2 = q2 % b /\ q2 = b * q3 + d2
    BY Division
  <1>4. b * b \in Nat \ {0} /\ v \div (b * b) = q2
    <2>1. Prod(b, b) \in Nat \ {0} /\ Quot(v, Prod(b, b)) = Quot(Quot(v, b), b)
      BY DivideTwice
    <2> QED BY <1>1, <1>2, <2>1 DEF Quot, Prod
  <1>5. PICK c \in Nat \ {0} : c = b * b
    BY <1>4
  <1>6. v \div (b * c) = q3
    <2>1. Quot(v, Prod(b, c)) = Quot(Quot(v, b), c)
      BY DivideTwice
    <2>2. Quot(q1, Prod(b, b)) = Quot(Quot(q1, b), b)
      BY DivideTwice
    <2> QED BY <1>1, <1>2, <1>3, <1>5, <2>1, <2>2 DEF Quot, Prod
  <1>7. v = d0 + b * d1 + c * d2 + (b * c) * q3
    <2>1. b * q1 = c * q2 + b * d1
      <3>1. b * (b * q2) = c * q2
        BY <1>5
      <3> QED BY <1>2, <3>1
    <2>2. c * q2 = (b * c) * q3 + c * d2
      <3>1. c * (b * q3) = (b * c) * q3
        OBVIOUS
      <3>2. PICK y \in Nat : y = b * q3
        OBVIOUS
      <3>3. c * q2 = c * y + c * d2
        BY <1>3, <3>2
      <3> QED BY <3>1, <3>2, <3>3
    <2>3. PICK x \in Nat, y \in Nat, z \in Nat : x = b * d1 /\ y = c * d2 /\ z = (b * c) * q3
      OBVIOUS
    <2> QED BY <1>1, <2>1, <2>2, <2>3
  <1>8. q3 < b
    <2> SUFFICES ASSUME ~(q3 < b) PROVE FALSE
      OBVIOUS
    <2>1. PICK k \in Nat : q3 = b + k
      <3>1. q3 - b \in Nat /\ q3 = b + (q3 - b)
        OBVIOUS
      <3> QED BY <3>1
    <2>2. (b * c) * q3 = b * (b * c) + (b * c) * k
      BY <2>1
    <2>3. PICK x \in Nat, y \in Nat, z \in Nat, w \in Nat :
              x = b * d1 /\ y = c * d2 /\ z = b * (b * c) /\ w = (b * c) * k
      OBVIOUS
    <2>4. v = d0 + x + y + z + w
      BY <1>7, <2>2, <2>3
    <2>5. v < z
      BY <1>5, <2>3
    <2> QED BY <2>4, <2>5
  <1>9. q3 % b = q3
    BY <1>8
  <1> QED BY <1>1, <1>2, <1>3, <1>4, <1>5, <1>6, <1>7, <1>9

LEMMA WordsRoundTrip ==
    ASSUME NEW v \in Nat, v < ByteBase^4
    PROVE  FromLE(ToLE(v)) = v
  <1>1. PICK b \in Nat \ {0} : b = ByteBase
    BY BaseFacts
  <1>2. v \div 1 = v
    OBVIOUS
  <1>3. /\ ToLE(v)[1] = v % b /\ ToLE(v)[2] = (v \div b) % b
        /\ ToLE(v)[3] = (v \div (b * b)) % b /\ ToLE(v)[4] = (v \div (b * (b * b))) % b
    <2>1. \A i \in 1..4 : ToLE(v)[i] = (v \div ByteBase^(i - 1)) % ByteBase
      BY DEF ToLE
    <2>2. ByteBase^(3 - 1) = b * b /\ ByteBase^(4 - 1) = b * (b * b)
      BY <1>1, BaseFacts
    <2> QED BY <1>1, <1>2, <2>1, <2>2, BaseFacts, SMTT(30)
  <1>4. FromLE(ToLE(v)) = (v % b) + b * ((v \div b) % b) + (b * b) * ((v \div (b * b)) % b)
                 + (b * (b * b)) * ((v \div (b * (b * b))) % b)
    BY <1>1, <1>3, BaseFacts DEF FromLE
  <1>5. v < b * (b * (b * b))
    BY <1>1, BaseFacts
  <1> QED BY <1>4, <1>5, FourDigits

LEMMA NibPowers ==
    /\ \A k \in 0..7 : Nib^k \in Nat \ {0}
    /\ \A x \in Nat : Quot(x, Nib^0) = x
    /\ \A k \in 0..6, x \in Nat : Quot(x, Nib^(k + 1)) = Quot(Quot(x, Nib^k), Nib)
  <1>1. /\ Nib \in Nat \ {0} /\ Nib^0 = 1
        /\ \A n \in 0..7 : Nib^(n + 1) = Nib * Nib^n
    BY ChipProtocolConstants
  <1>2. ASSUME NEW k \in 0..6, Nib^k \in Nat \ {0} PROVE Nib^(k + 1) \in Nat \ {0}
    <2>1. PICK p \in Nat \ {0} : p = Nib^k
      BY <1>2
    <2>2. Nib * p \in Nat \ {0}
      BY <1>1
    <2> QED BY <1>1, <2>1, <2>2
  <1>3. \A k \in 0..7 : Nib^k \in Nat \ {0}
    <2>0. Nib^0 \in Nat \ {0}
      BY <1>1
    <2>1. Nib^(0 + 1) \in Nat \ {0}
      BY <1>2, <2>0
    <2>2. Nib^(1 + 1) \in Nat \ {0}
      BY <1>2, <2>1
    <2>3. Nib^(2 + 1) \in Nat \ {0}
      BY <1>2, <2>2
    <2>4. Nib^(3 + 1) \in Nat \ {0}
      BY <1>2, <2>3
    <2>5. Nib^(4 + 1) \in Nat \ {0}
      BY <1>2, <2>4
    <2>6. Nib^(5 + 1) \in Nat \ {0}
      BY <1>2, <2>5
    <2>7. Nib^(6 + 1) \in Nat \ {0}
      BY <1>2, <2>6
    <2>8. \A k \in 0..7 : k \in {0, 0 + 1, 1 + 1, 2 + 1, 3 + 1, 4 + 1, 5 + 1, 6 + 1}
      OBVIOUS
    <2> QED BY <2>0, <2>1, <2>2, <2>3, <2>4, <2>5, <2>6, <2>7, <2>8
  <1>4. ASSUME NEW k \in 0..6, NEW x \in Nat
        PROVE  Quot(x, Nib^(k + 1)) = Quot(Quot(x, Nib^k), Nib)
    <2>1. PICK p \in Nat \ {0} : p = Nib^k
      BY <1>3
    <2>2. Nib^(k + 1) = Prod(p, Nib)
      BY <1>1, <2>1 DEF Prod
    <2>3. Quot(x, Prod(p, Nib)) = Quot(Quot(x, p), Nib)
      BY <1>1, DivideTwice
    <2> QED BY <2>1, <2>2, <2>3
  <1>5. ASSUME NEW x \in Nat PROVE Quot(x, Nib^0) = x
    <2>1. x \div 1 = x
      OBVIOUS
    <2> QED BY <1>1, <2>1 DEF Quot
  <1> QED BY <1>3, <1>4, <1>5

\* The two digits at the bottom of a number.
WithDigits(n, s, u, t) == s + n * u + (n * n) * t

LEMMA TwoDigits ==
    ASSUME NEW n \in Nat \ {0}, NEW s \in 0..(n - 1), NEW u \in 0..(n - 1), NEW t \in Nat
    PROVE  /\ WithDigits(n, s, u, t) \in Nat /\ WithDigits(n, s, u, t) % n = s
           /\ Quot(WithDigits(n, s, u, t), n) \in Nat /\ Quot(WithDigits(n, s, u, t), n) % n = u
           /\ Quot(Quot(WithDigits(n, s, u, t), n), n) = t
  <1>0. PICK x : x = s + n * u + (n * n) * t
    OBVIOUS
  <1>1. PICK y \in Nat : y = u + n * t
    OBVIOUS
  <1>2. x = n * y + s
    <2>1. n * (n * t) = (n * n) * t
      OBVIOUS
    <2>2. PICK z \in Nat : z = n * t
      OBVIOUS
    <2>3. n * y = n * u + n * z
      BY <1>1, <2>2
    <2> QED BY <1>0, <2>1, <2>2, <2>3
  <1>3. (n * y + s) \div n = y /\ (n * y + s) % n = s
    BY Quotient
  <1>4. x \div n = y /\ x % n = s
    BY <1>2, <1>3, Zenon
  <1>5. (n * t + u) \div n = t /\ (n * t + u) % n = u
    BY Quotient
  <1>6. y = n * t + u
    BY <1>1
  <1>7. y \div n = t /\ y % n = u
    BY <1>5, <1>6, Zenon
  <1>8. x \in Nat
    BY <1>2
  <1> QED BY <1>0, <1>1, <1>4, <1>7, <1>8 DEF Quot, WithDigits

LEMMA StrengthsRoundTrip ==
    ASSUME NEW s, \A i \in 1..8 : s[i] \in 0..(Nib - 1),
           NEW b, \A i \in 1..4 : b[i] = s[2 * i - 1] + Nib * s[2 * i]
    PROVE  \A i \in 1..8 : StrengthAt(FromLE(b), i) = s[i]
  <1>1. PICK n \in Nat \ {0} : n = Nib
    BY BaseFacts
  <1>2. PICK c \in Nat \ {0} : c = n * n /\ c = ByteBase
    BY <1>1, BaseFacts
  <1>3. PICK s1 \in 0..(n - 1), s2 \in 0..(n - 1), s3 \in 0..(n - 1), s4 \in 0..(n - 1),
             s5 \in 0..(n - 1), s6 \in 0..(n - 1), s7 \in 0..(n - 1), s8 \in 0..(n - 1) :
            s1 = s[1] /\ s2 = s[2] /\ s3 = s[3] /\ s4 = s[4] /\ s5 = s[5] /\ s6 = s[6]
            /\ s7 = s[7] /\ s8 = s[8]
    <2>1. /\ s[1] \in 0..(n - 1) /\ s[2] \in 0..(n - 1) /\ s[3] \in 0..(n - 1) /\ s[4] \in 0..(n - 1)
          /\ s[5] \in 0..(n - 1) /\ s[6] \in 0..(n - 1) /\ s[7] \in 0..(n - 1) /\ s[8] \in 0..(n - 1)
      BY <1>1
    <2> QED BY <2>1, Zenon
  <1>4. PICK b1 \in Nat, b2 \in Nat, b3 \in Nat, b4 \in Nat :
            /\ b1 = b[1] /\ b1 = s1 + n * s2
            /\ b2 = b[2] /\ b2 = s3 + n * s4
            /\ b3 = b[3] /\ b3 = s5 + n * s6
            /\ b4 = b[4] /\ b4 = s7 + n * s8
    <2>1. /\ b[1] = s[2 * 1 - 1] + Nib * s[2 * 1] /\ b[2] = s[2 * 2 - 1] + Nib * s[2 * 2]
          /\ b[3] = s[2 * 3 - 1] + Nib * s[2 * 3] /\ b[4] = s[2 * 4 - 1] + Nib * s[2 * 4]
      <3>1. 1 \in 1..4 /\ 2 \in 1..4 /\ 3 \in 1..4 /\ 4 \in 1..4
        OBVIOUS
      <3> QED BY <3>1, Zenon
    <2>2. /\ b[1] = s1 + n * s2 /\ b[2] = s3 + n * s4 /\ b[3] = s5 + n * s6 /\ b[4] = s7 + n * s8
      <3>1. /\ 2 * 1 = 2 /\ 2 * 2 = 4 /\ 2 * 3 = 6 /\ 2 * 4 = 8
            /\ 2 * 1 - 1 = 1 /\ 2 * 2 - 1 = 3 /\ 2 * 3 - 1 = 5 /\ 2 * 4 - 1 = 7
        OBVIOUS
      <3>2. /\ b[1] = s[1] + Nib * s[2] /\ b[2] = s[3] + Nib * s[4]
            /\ b[3] = s[5] + Nib * s[6] /\ b[4] = s[7] + Nib * s[8]
        BY <2>1, <3>1, Zenon
      <3> QED BY <1>1, <1>3, <3>2, Zenon
    <2>3. /\ s1 + n * s2 \in Nat /\ s3 + n * s4 \in Nat /\ s5 + n * s6 \in Nat /\ s7 + n * s8 \in Nat
      OBVIOUS
    <2> QED BY <2>2, <2>3, Zenon
  <1>5. PICK t4 \in Nat, t3 \in Nat, t2 \in Nat, raw \in Nat :
            t4 = b4 + c * 0 /\ t3 = b3 + c * t4 /\ t2 = b2 + c * t3 /\ raw = b1 + c * t2
    OBVIOUS
  <1>6. FromLE(b) = raw
    <2>1. FromLE(b) = b1 + c * b2 + (c * c) * b3 + (c * (c * c)) * b4
      BY <1>2, <1>4, BaseFacts DEF FromLE
    <2>2. c * t3 = c * b3 + (c * c) * b4
      <3>1. c * (c * b4) = (c * c) * b4
        OBVIOUS
      <3>2. PICK y \in Nat : y = c * b4
        OBVIOUS
      <3>3. t3 = b3 + y
        BY <1>5, <3>2
      <3>4. c * t3 = c * b3 + c * y
        BY <3>3
      <3> QED BY <3>1, <3>2, <3>4
    <2>3. c * t2 = c * b2 + (c * c) * b3 + (c * (c * c)) * b4
      <3>1. PICK y \in Nat, z \in Nat : y = c * b3 /\ z = (c * c) * b4
        OBVIOUS
      <3>2. t2 = b2 + y + z
        BY <1>5, <2>2, <3>1
      <3>3. c * t2 = c * b2 + c * y + c * z
        BY <3>2
      <3>4. c * (c * b3) = (c * c) * b3 /\ c * ((c * c) * b4) = (c * (c * c)) * b4
        OBVIOUS
      <3> QED BY <3>1, <3>3, <3>4
    <2>4. PICK x \in Nat, y \in Nat, z \in Nat : x = c * b2 /\ y = (c * c) * b3 /\ z = (c * (c * c)) * b4
      OBVIOUS
    <2> QED BY <1>5, <2>1, <2>3, <2>4
  <1>7. /\ raw % n = s1 /\ Quot(raw, n) \in Nat /\ Quot(raw, n) % n = s2 /\ Quot(Quot(raw, n), n) = t2
        /\ t2 % n = s3 /\ Quot(t2, n) \in Nat /\ Quot(t2, n) % n = s4 /\ Quot(Quot(t2, n), n) = t3
        /\ t3 % n = s5 /\ Quot(t3, n) \in Nat /\ Quot(t3, n) % n = s6 /\ Quot(Quot(t3, n), n) = t4
        /\ t4 % n = s7 /\ Quot(t4, n) \in Nat /\ Quot(t4, n) % n = s8
    <2>1. /\ raw = WithDigits(n, s1, s2, t2) /\ t2 = WithDigits(n, s3, s4, t3)
          /\ t3 = WithDigits(n, s5, s6, t4) /\ t4 = WithDigits(n, s7, s8, 0)
      BY <1>2, <1>4, <1>5 DEF WithDigits
    <2>2. raw % n = s1 /\ Quot(raw, n) \in Nat /\ Quot(raw, n) % n = s2 /\ Quot(Quot(raw, n), n) = t2
      BY <2>1, TwoDigits
    <2>3. t2 % n = s3 /\ Quot(t2, n) \in Nat /\ Quot(t2, n) % n = s4 /\ Quot(Quot(t2, n), n) = t3
      BY <2>1, TwoDigits
    <2>4. t3 % n = s5 /\ Quot(t3, n) \in Nat /\ Quot(t3, n) % n = s6 /\ Quot(Quot(t3, n), n) = t4
      BY <2>1, TwoDigits
    <2>5. t4 % n = s7 /\ Quot(t4, n) \in Nat /\ Quot(t4, n) % n = s8
      BY <2>1, TwoDigits
    <2> QED BY <2>2, <2>3, <2>4, <2>5
  <1>8. /\ Quot(raw, Nib^0) = raw /\ Quot(raw, Nib^1) = Quot(raw, n)
        /\ Quot(raw, Nib^2) = t2 /\ Quot(raw, Nib^3) = Quot(t2, n)
        /\ Quot(raw, Nib^4) = t3 /\ Quot(raw, Nib^5) = Quot(t3, n)
        /\ Quot(raw, Nib^6) = t4 /\ Quot(raw, Nib^7) = Quot(t4, n)
    <2>1. \A k \in 0..6 : Quot(raw, Nib^(k + 1)) = Quot(Quot(raw, Nib^k), n)
      BY <1>1, NibPowers
    <2>2. Quot(raw, Nib^0) = raw
      BY NibPowers
    <2>3. /\ Quot(raw, Nib^1) = Quot(Quot(raw, Nib^0), n) /\ Quot(raw, Nib^2) = Quot(Quot(raw, Nib^1), n)
          /\ Quot(raw, Nib^3) = Quot(Quot(raw, Nib^2), n) /\ Quot(raw, Nib^4) = Quot(Quot(raw, Nib^3), n)
          /\ Quot(raw, Nib^5) = Quot(Quot(raw, Nib^4), n) /\ Quot(raw, Nib^6) = Quot(Quot(raw, Nib^5), n)
          /\ Quot(raw, Nib^7) = Quot(Quot(raw, Nib^6), n)
      <3>1. Quot(raw, Nib^(0 + 1)) = Quot(Quot(raw, Nib^0), n) /\ Quot(raw, Nib^(1 + 1)) = Quot(Quot(raw, Nib^1), n)
            /\ Quot(raw, Nib^(2 + 1)) = Quot(Quot(raw, Nib^2), n) /\ Quot(raw, Nib^(3 + 1)) = Quot(Quot(raw, Nib^3), n)
            /\ Quot(raw, Nib^(4 + 1)) = Quot(Quot(raw, Nib^4), n) /\ Quot(raw, Nib^(5 + 1)) = Quot(Quot(raw, Nib^5), n)
            /\ Quot(raw, Nib^(6 + 1)) = Quot(Quot(raw, Nib^6), n)
        BY <2>1
      <3> QED BY <3>1
    <2> QED BY <1>7, <2>2, <2>3
  <1>9. \A i \in 1..8 : StrengthAt(raw, i) = Quot(raw, Nib^(i - 1)) % n
    BY <1>1 DEF StrengthAt, Quot
  <1>10. /\ StrengthAt(raw, 1) = s[1] /\ StrengthAt(raw, 2) = s[2] /\ StrengthAt(raw, 3) = s[3]
         /\ StrengthAt(raw, 4) = s[4] /\ StrengthAt(raw, 5) = s[5] /\ StrengthAt(raw, 6) = s[6]
         /\ StrengthAt(raw, 7) = s[7] /\ StrengthAt(raw, 8) = s[8]
    BY <1>3, <1>7, <1>8, <1>9
  <1> QED BY <1>6, <1>10

LEMMA RawsRoundTrip ==
    ASSUME NEW v \in 0..MaxRawReg
    PROVE  FromLE(ToLE(v)) = v
  <1>1. v \in Nat /\ v <= MaxRawReg
    BY BaseFacts
  <1>2. v < ByteBase^4
    <2>1. PICK w \in Nat : w = ByteBase^4
      <3>1. ByteBase * (ByteBase * (ByteBase * ByteBase)) \in Nat
        BY BaseFacts
      <3> QED BY <3>1, BaseFacts
    <2> QED BY <1>1, <2>1, BaseFacts
  <1> QED BY <1>1, <1>2, WordsRoundTrip

LEMMA RegistersKeep ==
    ASSUME NEW r \in Registers
    PROVE  ReadsBack(r, DecodeData(r.kind, EncodeData(r)))
  <1>1. CASE r \in [kind : ByteFields, bytes : {ToLE(v) : v \in 0..MaxRawReg}]
    <2>1. r = [kind |-> r.kind, bytes |-> r.bytes] /\ r.kind \in ByteFields
      BY <1>1
    <2>2. EncodeData(r) = r.bytes
      BY <2>1 DEF EncodeData, ByteFields
    <2>3. DecodeData(r.kind, r.bytes) = [kind |-> r.kind, bytes |-> r.bytes]
      BY <2>1 DEF DecodeData, ByteFields
    <2> QED BY <2>1, <2>2, <2>3 DEF ReadsBack
  <1>2. CASE r \in [kind : {"baud"}, rate : {"115200", "1M", "3M"}]
    <2>1. r = [kind |-> "baud", rate |-> r.rate] /\ r.kind = "baud" /\ r.rate \in {"115200", "1M", "3M"}
      BY <1>2
    <2>2. \A v \in {1, 2} : FromLE(ToLE(v)) = v
      <3>1. PICK m \in Nat : m = ByteBase^4 /\ m > 2
        <4>1. PICK b \in Nat, k \in Nat : b = ByteBase /\ b = 4 + k
          <5>1. ByteBase - 4 \in Nat /\ ByteBase = 4 + (ByteBase - 4)
            BY BaseFacts
          <5> QED BY <5>1, BaseFacts
        <4>2. PICK x \in Nat : x = b * b /\ x >= 4
          <5>1. PICK y \in Nat : y = k * b
            OBVIOUS
          <5>2. b * b = 4 * b + y
            BY <4>1, <5>1
          <5> QED BY <4>1, <5>1, <5>2
        <4>3. PICK z \in Nat : z = b * x /\ z >= 4
          <5>1. PICK y \in Nat : y = k * x
            OBVIOUS
          <5>2. b * x = 4 * x + y
            BY <4>1, <5>1
          <5> QED BY <4>2, <5>1, <5>2
        <4>4. b * z \in Nat /\ b * z >= 4
          <5>1. PICK y \in Nat : y = k * z
            OBVIOUS
          <5>2. b * z = 4 * z + y
            BY <4>1, <5>1
          <5> QED BY <4>3, <5>1, <5>2
        <4>5. ByteBase^4 = b * z
          BY <4>1, <4>2, <4>3, BaseFacts
        <4> QED BY <4>4, <4>5
      <3> QED BY <3>1, WordsRoundTrip
    <2>3. EncodeData(r) = ToLE(BaudValue(r))
      BY <2>1 DEF EncodeData, ByteFields
    <2>4. \A b : BaudOf(FromLE(b)) # "custom"
                    => DecodeData("baud", b) = [kind |-> "baud", rate |-> BaudOf(FromLE(b))]
      BY DEF DecodeData, ByteFields
    <2>5. CASE r.rate = "115200"
      <3>1. BaudValue(r) = 2
        BY <2>5 DEF BaudValue
      <3>2. BaudOf(2) = "115200"
        BY DEF BaudOf
      <3> QED BY <2>1, <2>2, <2>3, <2>4, <2>5, <3>1, <3>2 DEF ReadsBack
    <2>6. CASE r.rate = "3M"
      <3>1. BaudValue(r) = 1
        BY <2>6 DEF BaudValue
      <3>2. BaudOf(1) = "3M"
        BY DEF BaudOf
      <3> QED BY <2>1, <2>2, <2>3, <2>4, <2>6, <3>1, <3>2 DEF ReadsBack
    <2>7. CASE r.rate = "1M"
      BY <2>1, <2>7 DEF ReadsBack
    <2> QED BY <2>1, <2>5, <2>6, <2>7
  <1>3. CASE r \in [kind : {"core", "raw"}, raw : 0..MaxRawReg]
    <2>1. r = [kind |-> r.kind, raw |-> r.raw] /\ r.kind \in {"core", "raw"} /\ r.raw \in 0..MaxRawReg
      BY <1>3
    <2>2. CASE r.kind = "raw"
      <3>1. EncodeData(r) = ToLE(r.raw)
        BY <2>2 DEF EncodeData, ByteFields
      <3>2. FromLE(ToLE(r.raw)) = r.raw
        BY <2>1, RawsRoundTrip
      <3>3. DecodeData("raw", EncodeData(r)) = [kind |-> "raw", raw |-> FromLE(EncodeData(r))]
        BY DEF DecodeData, ByteFields
      <3> QED BY <2>1, <2>2, <3>1, <3>2, <3>3 DEF ReadsBack
    <2>3. CASE r.kind = "core"
      BY <2>3 DEF ReadsBack
    <2> QED BY <2>1, <2>2, <2>3
  <1>4. CASE r \in {[kind |-> "io", strengths |-> [i \in 1..8 |-> (v + i) % Nib]] : v \in 0..MaxRawReg}
    <2>1. PICK v \in Nat : r = [kind |-> "io", strengths |-> [i \in 1..8 |-> (v + i) % Nib]]
      BY <1>4, BaseFacts
    <2> DEFINE s == [i \in 1..8 |-> (v + i) % Nib]
               b == [i \in 1..4 |-> s[2 * i - 1] + Nib * s[2 * i]]
    <2>2. \A i \in 1..8 : s[i] \in 0..(Nib - 1)
      BY BaseFacts
    <2>3. EncodeData(r) = b
      BY <2>1 DEF EncodeData, ByteFields
    <2>4. DecodeData("io", b) = [kind |-> "io", strengths |-> [i \in 1..8 |-> StrengthAt(FromLE(b), i)]]
      <3> HIDE DEF b
      <3> QED BY DEF DecodeData, ByteFields
    <2>5. \A i \in 1..4 : b[i] = s[2 * i - 1] + Nib * s[2 * i]
      <3> HIDE DEF s
      <3> QED OBVIOUS
    <2>6. \A i \in 1..8 : StrengthAt(FromLE(b), i) = s[i]
      <3> HIDE DEF s, b
      <3> QED BY <2>2, <2>5, StrengthsRoundTrip
    <2>7. [i \in 1..8 |-> StrengthAt(FromLE(b), i)] = s
      <3>1. s = [i \in 1..8 |-> s[i]]
        OBVIOUS
      <3> HIDE DEF s, b
      <3> QED BY <2>6, <3>1
    <2>8. r.kind = "io" /\ r = [kind |-> "io", strengths |-> s]
      BY <2>1
    <2> HIDE DEF s, b
    <2> QED BY <2>3, <2>4, <2>7, <2>8 DEF ReadsBack
  <1>5. CASE r \in [kind : {"version"}, control : 0..(ByteBase^2 - 1), mask : 0..(ByteBase^2 - 1)]
    <2>1. r = [kind |-> "version", control |-> r.control, mask |-> r.mask] /\ r.kind = "version"
      BY <1>5
    <2>2. PICK b \in Nat \ {0} : b = ByteBase
      BY BaseFacts
    <2>3. PICK sq \in Nat \ {0} : sq = b * b /\ sq = ByteBase^2
      BY <2>2, BaseFacts
    <2>4. PICK c \in 0..(sq - 1), m \in 0..(sq - 1) : c = r.control /\ m = r.mask
      BY <1>5, <2>3
    <2>5. PICK cq \in Nat, cr \in Nat : cq = c \div b /\ cr = c % b /\ c = b * cq + cr
      BY Division
    <2>6. PICK mq \in Nat, mr \in Nat : mq = m \div b /\ mr = m % b /\ m = b * mq + mr
      BY Division
    <2>7. EncodeData(r) = <<cr, cq, mr, mq>>
      BY <2>1, <2>2, <2>4, <2>5, <2>6 DEF EncodeData, ByteFields, VersionBytes
    <2>8. FromLE(<<cr, cq, mr, mq>>) = sq * m + c
      <3>1. FromLE(<<cr, cq, mr, mq>>) = cr + b * cq + sq * mr + (b * sq) * mq
        <4>1. ByteBase^3 = b * sq
          BY <2>2, <2>3, BaseFacts
        <4> QED BY <2>2, <2>3, <4>1 DEF FromLE
      <3>2. sq * m = (b * sq) * mq + sq * mr
        <4>1. PICK y \in Nat : y = b * mq
          OBVIOUS
        <4>2. sq * m = sq * y + sq * mr
          BY <2>6, <4>1
        <4>3. sq * (b * mq) = (b * sq) * mq
          OBVIOUS
        <4> QED BY <4>1, <4>2, <4>3
      <3>3. PICK x \in Nat, y \in Nat, z \in Nat : x = b * cq /\ y = sq * mr /\ z = (b * sq) * mq
        OBVIOUS
      <3> QED BY <2>5, <3>1, <3>2, <3>3
    <2>9. (sq * m + c) \div sq = m /\ (sq * m + c) % sq = c
      BY Quotient
    <2>10. \A x : DecodeData("version", x) = [kind |-> "version", control |-> FromLE(x) % ByteBase^2,
                                               mask |-> FromLE(x) \div ByteBase^2]
      BY DEF DecodeData, ByteFields
    <2>11. DecodeData("version", EncodeData(r)) = [kind |-> "version", control |-> c, mask |-> m]
      BY <2>3, <2>7, <2>8, <2>9, <2>10, Zenon
    <2> QED BY <2>1, <2>4, <2>11 DEF ReadsBack
  <1>6. CASE r \in [kind : {"baud"}, rate : {"custom"}, raw : 0..MaxRawReg]
    <2>1. r = [kind |-> "baud", rate |-> "custom", raw |-> r.raw] /\ r.kind = "baud" /\ r.rate = "custom"
          /\ r.raw \in 0..MaxRawReg
      BY <1>6
    <2>2. FromLE(EncodeData(r)) = r.raw
      <3>1. EncodeData(r) = ToLE(BaudValue(r))
        BY <2>1 DEF EncodeData, ByteFields
      <3>2. BaudValue(r) = r.raw
        BY <2>1 DEF BaudValue
      <3> QED BY <2>1, <3>1, <3>2, RawsRoundTrip
    <2>3. PICK v \in Nat : v = r.raw
      BY <2>1, BaseFacts
    <2>4. CASE BaudOf(v) = "custom"
      <3>1. DecodeData("baud", EncodeData(r)) = [kind |-> "baud", rate |-> "custom", raw |-> v]
        BY <2>2, <2>3, <2>4 DEF DecodeData, ByteFields
      <3> QED BY <2>1, <2>3, <3>1 DEF ReadsBack
    <2>5. CASE BaudOf(v) # "custom"
      <3>1. DecodeData("baud", EncodeData(r)) = [kind |-> "baud", rate |-> BaudOf(v)]
        BY <2>2, <2>3, <2>5 DEF DecodeData, ByteFields
      <3>2. v \in {0, 1, 2}
        BY <2>5 DEF BaudOf
      <3>3. v = 0 => BaudOf(v) = "1M"
        BY DEF BaudOf
      <3>4. v = 1 => BaudOf(v) = "3M" /\ BaudValue([kind |-> "baud", rate |-> "3M"]) = v
        BY DEF BaudOf, BaudValue
      <3>5. v = 2 => BaudOf(v) = "115200" /\ BaudValue([kind |-> "baud", rate |-> "115200"]) = v
        BY DEF BaudOf, BaudValue
      <3> QED BY <2>1, <2>3, <3>1, <3>2, <3>3, <3>4, <3>5 DEF ReadsBack
    <2> QED BY <2>4, <2>5
  <1> QED BY <1>1, <1>2, <1>3, <1>4, <1>5, <1>6 DEF Registers

-----------------------------------------------------------------------------
(* Commands.                                                               *)

\* What a sum over a set of places adds up to, taken in any order.
Picked(w, s, i) == IF i \in s THEN w[i] ELSE 0
Total(w, s) ==
    Picked(w, s, 1) + Picked(w, s, 2) + Picked(w, s, 3) + Picked(w, s, 4) + Picked(w, s, 5)
    + Picked(w, s, 6) + Picked(w, s, 7) + Picked(w, s, 8) + Picked(w, s, 9) + Picked(w, s, 10)

LEMMA TotalSteps ==
    ASSUME NEW n \in 0..10, NEW w, \A i \in 1..n : w[i] \in Nat, NEW s \in SUBSET (1..n)
    PROVE  /\ Total(w, s) \in Nat
           /\ s = {} => Total(w, s) = 0
           /\ \A x \in s : Total(w, s) = w[x] + Total(w, s \ {x})
  <1>1. \A r \in SUBSET (1..n) : \A i : Picked(w, r, i) \in Nat
    BY DEF Picked
  <1>2. Total(w, s) \in Nat /\ (s = {} => Total(w, s) = 0)
    <2>1. /\ Picked(w, s, 1) \in Nat /\ Picked(w, s, 2) \in Nat /\ Picked(w, s, 3) \in Nat
          /\ Picked(w, s, 4) \in Nat /\ Picked(w, s, 5) \in Nat /\ Picked(w, s, 6) \in Nat
          /\ Picked(w, s, 7) \in Nat /\ Picked(w, s, 8) \in Nat /\ Picked(w, s, 9) \in Nat
          /\ Picked(w, s, 10) \in Nat
      BY <1>1
    <2>2. s = {} => \A i : Picked(w, s, i) = 0
      BY DEF Picked
    <2> QED BY <2>1, <2>2 DEF Total
  <1>3. ASSUME NEW x \in s PROVE Total(w, s) = w[x] + Total(w, s \ {x})
    <2>1. /\ Picked(w, s, x) = w[x] /\ Picked(w, s \ {x}, x) = 0
          /\ \A i : i # x => Picked(w, s, i) = Picked(w, s \ {x}, i)
      BY DEF Picked
    <2>2. PICK v \in Nat : v = w[x]
      OBVIOUS
    <2>3. \A i : /\ Picked(w, s, i) \in Nat /\ Picked(w, s \ {x}, i) \in Nat
                 /\ (i = x /\ Picked(w, s, i) = v + Picked(w, s \ {x}, i) /\ Picked(w, s \ {x}, i) = 0)
                    \/ (i # x /\ Picked(w, s, i) = Picked(w, s \ {x}, i))
      BY <1>1, <2>1, <2>2
    <2>4. PICK a1 \in Nat, b1 \in Nat :
              /\ a1 = Picked(w, s, 1) /\ b1 = Picked(w, s \ {x}, 1)
              /\ (1 = x /\ a1 = v + b1) \/ (1 # x /\ a1 = b1)
      BY <2>3
    <2>5. PICK a2 \in Nat, b2 \in Nat :
              /\ a2 = Picked(w, s, 2) /\ b2 = Picked(w, s \ {x}, 2)
              /\ (2 = x /\ a2 = v + b2) \/ (2 # x /\ a2 = b2)
      BY <2>3
    <2>6. PICK a3 \in Nat, b3 \in Nat :
              /\ a3 = Picked(w, s, 3) /\ b3 = Picked(w, s \ {x}, 3)
              /\ (3 = x /\ a3 = v + b3) \/ (3 # x /\ a3 = b3)
      BY <2>3
    <2>7. PICK a4 \in Nat, b4 \in Nat :
              /\ a4 = Picked(w, s, 4) /\ b4 = Picked(w, s \ {x}, 4)
              /\ (4 = x /\ a4 = v + b4) \/ (4 # x /\ a4 = b4)
      BY <2>3
    <2>8. PICK a5 \in Nat, b5 \in Nat :
              /\ a5 = Picked(w, s, 5) /\ b5 = Picked(w, s \ {x}, 5)
              /\ (5 = x /\ a5 = v + b5) \/ (5 # x /\ a5 = b5)
      BY <2>3
    <2>9. PICK a6 \in Nat, b6 \in Nat :
              /\ a6 = Picked(w, s, 6) /\ b6 = Picked(w, s \ {x}, 6)
              /\ (6 = x /\ a6 = v + b6) \/ (6 # x /\ a6 = b6)
      BY <2>3
    <2>10. PICK a7 \in Nat, b7 \in Nat :
              /\ a7 = Picked(w, s, 7) /\ b7 = Picked(w, s \ {x}, 7)
              /\ (7 = x /\ a7 = v + b7) \/ (7 # x /\ a7 = b7)
      BY <2>3
    <2>11. PICK a8 \in Nat, b8 \in Nat :
              /\ a8 = Picked(w, s, 8) /\ b8 = Picked(w, s \ {x}, 8)
              /\ (8 = x /\ a8 = v + b8) \/ (8 # x /\ a8 = b8)
      BY <2>3
    <2>12. PICK a9 \in Nat, b9 \in Nat :
              /\ a9 = Picked(w, s, 9) /\ b9 = Picked(w, s \ {x}, 9)
              /\ (9 = x /\ a9 = v + b9) \/ (9 # x /\ a9 = b9)
      BY <2>3
    <2>13. PICK a10 \in Nat, b10 \in Nat :
              /\ a10 = Picked(w, s, 10) /\ b10 = Picked(w, s \ {x}, 10)
              /\ (10 = x /\ a10 = v + b10) \/ (10 # x /\ a10 = b10)
      BY <2>3
    <2>14. x \in {1, 2, 3, 4, 5, 6, 7, 8, 9, 10}
      OBVIOUS
    <2> QED BY <2>2, <2>4, <2>5, <2>6, <2>7, <2>8, <2>9, <2>10, <2>11, <2>12, <2>13, <2>14 DEF Total
  <1> QED BY <1>2, <1>3

LayoutSum(w) == FoldSeq(+, 2, w)

\* The sum of a sequence of at most ten numbers.
LEMMA FoldsToTotal ==
    ASSUME NEW n \in 0..10, NEW w, DOMAIN w = 1..n, \A i \in 1..n : w[i] \in Nat
    PROVE  LayoutSum(w) = 2 + Total(w, 1..n)
  <1> DEFINE Body(g) == [s \in SUBSET (1..n) |->
                            IF s = {} THEN 2
                            ELSE w[CHOOSE x \in s : TRUE] + g[s \ {CHOOSE x \in s : TRUE}]]
             f == CHOOSE g : g = Body(g)
             t == [s \in SUBSET (1..n) |-> 2 + Total(w, s)]
  <1>1. LayoutSum(w) = f[1..n]
    BY Zenon DEF LayoutSum, FoldSeq, FoldFunction, FoldFunctionOnSet, MapThenFoldSet
  <1> DEFINE Pick(s) == CHOOSE x \in s : TRUE
  <1>2. \A s \in SUBSET (1..n) : s # {} => Pick(s) \in s /\ s \ {Pick(s)} \in SUBSET (1..n)
    OBVIOUS
  <1>3. t = Body(t)
    <2>1. \A s \in SUBSET (1..n) : 2 + Total(w, s) =
              IF s = {} THEN 2 ELSE w[Pick(s)] + t[s \ {Pick(s)}]
      <3> TAKE s \in SUBSET (1..n)
      <3>1. CASE s = {}
        BY <3>1, TotalSteps
      <3>2. CASE s # {}
        <4> HIDE DEF Pick
        <4>1. PICK x \in s : x = Pick(s) /\ s \ {x} \in SUBSET (1..n)
          BY <1>2, <3>2
        <4>2. t[s \ {x}] = 2 + Total(w, s \ {x})
          BY <4>1
        <4>3. \A y \in s : Total(w, s) = w[y] + Total(w, s \ {y})
          BY TotalSteps
        <4>4. PICK v \in Nat, u \in Nat : v = w[x] /\ u = Total(w, s \ {x})
          <5>1. w[x] \in Nat /\ Total(w, s \ {x}) \in Nat
            BY <4>1, TotalSteps
          <5> QED BY <5>1
        <4>5. 2 + Total(w, s) = w[x] + t[s \ {x}]
          BY <4>2, <4>3, <4>4, SMTT(30)
        <4> HIDE DEF t
        <4> QED BY <3>2, <4>1, <4>5
      <3> QED BY <3>1, <3>2
    <2>2. t = [s \in SUBSET (1..n) |-> 2 + Total(w, s)]
      OBVIOUS
    <2> HIDE DEF t
    <2> QED BY <2>1, <2>2, Zenon
  <1> HIDE DEF t
  <1>4. f = Body(f)
    <2> HIDE DEF Body
    <2> QED BY <1>3
  <1> HIDE DEF f
  <1>5. ASSUME NEW s \in SUBSET (1..n)
        PROVE  /\ f[s] = IF s = {} THEN 2 ELSE w[Pick(s)] + f[s \ {Pick(s)}]
               /\ t[s] = IF s = {} THEN 2 ELSE w[Pick(s)] + t[s \ {Pick(s)}]
    <2>1. Body(f)[s] = (IF s = {} THEN 2 ELSE w[Pick(s)] + f[s \ {Pick(s)}])
          /\ Body(t)[s] = (IF s = {} THEN 2 ELSE w[Pick(s)] + t[s \ {Pick(s)}])
      BY Zenon
    <2> HIDE DEF Body, Pick
    <2> QED BY <1>3, <1>4, <2>1, Zenon
  <1> DEFINE bad == {Cardinality(s) : s \in {r \in SUBSET (1..n) : f[r] # t[r]}}
  <1> HIDE DEF Pick, Body
  <1>6. bad = {}
    <2> SUFFICES ASSUME bad # {} PROVE FALSE
      OBVIOUS
    <2>1. \A s \in SUBSET (1..n) : IsFiniteSet(s) /\ Cardinality(s) \in Nat
      <3>1. 1 \in Int /\ n \in Int
        OBVIOUS
      <3>2. IsFiniteSet(1..n)
        BY <3>1, FS_Interval, Zenon
      <3> QED BY <3>2, FS_Subset, FS_CardinalityType
    <2>2. PICK c \in bad : \A d \in bad : c <= d
      <3>1. bad \subseteq Nat
        BY <2>1
      <3> HIDE DEF bad
      <3> QED BY <3>1, NatMin
    <2>3. PICK s \in SUBSET (1..n) : c = Cardinality(s) /\ f[s] # t[s]
      OBVIOUS
    <2>4. s # {}
      BY <1>5, <2>3
    <2>5. PICK x \in s : x = Pick(s) /\ s \ {x} \in SUBSET (1..n)
      BY <1>2, <2>4
    <2>6. Cardinality(s \ {x}) = c - 1 /\ c \in Nat
      BY <2>1, <2>3, <2>5, FS_RemoveElement
    <2>7. f[s \ {x}] = t[s \ {x}]
      <3>1. SUFFICES ASSUME f[s \ {x}] # t[s \ {x}] PROVE FALSE
        OBVIOUS
      <3>2. Cardinality(s \ {x}) \in bad
        BY <2>5, <3>1
      <3>3. c <= Cardinality(s \ {x})
        BY <2>2, <3>2
      <3> QED BY <2>6, <3>3
    <2> QED BY <1>5, <2>3, <2>4, <2>5, <2>7
  <1>7. f[1..n] = t[1..n]
    BY <1>6
  <1> QED BY <1>1, <1>7 DEF t

\* The sums of the layouts there are.
LEMMA SumOfLayout ==
    ASSUME NEW w
    PROVE  /\ DOMAIN w = 1..2 /\ w[1] = 1 /\ w[2] = 1 => LayoutSum(w) = 2 + 1 + 1
           /\ DOMAIN w = 1..3 /\ w[1] = 1 /\ w[2] = 1 /\ w[3] = 4 => LayoutSum(w) = 2 + 1 + 1 + 4
           /\ (/\ DOMAIN w = 1..8 /\ w[1] = 1 /\ w[2] = 1 /\ w[3] = 4 /\ w[4] = 4 /\ w[5] = 4
               /\ w[6] = 32 /\ w[7] = 32 /\ w[8] = 4) => LayoutSum(w) = 84
           /\ \A k \in 1..4 :
                 (/\ DOMAIN w = 1..(6 + k) /\ w[1] = 1 /\ w[2] = 1 /\ w[3] = 4 /\ w[4] = 4 /\ w[5] = 4
                  /\ w[6] = 4 /\ \A i \in 7..(6 + k) : w[i] = 32) => LayoutSum(w) = 20 + 32 * k
  <1>1. ASSUME NEW n \in 0..10, DOMAIN w = 1..n, \A i \in 1..n : w[i] \in Nat
        PROVE  LayoutSum(w) = 2 + Total(w, 1..n)
    BY <1>1, FoldsToTotal
  <1>2. ASSUME DOMAIN w = 1..2, w[1] = 1, w[2] = 1
        PROVE  LayoutSum(w) = 2 + 1 + 1
    <2>1. 2 \in 0..10 /\ \A i \in 1..2 : w[i] \in Nat
      BY <1>2
    <2>2. LayoutSum(w) = 2 + Total(w, 1..2)
      BY <1>1, <1>2, <2>1
    <2>3. Total(w, 1..2) = 2
      <3>1. /\ Picked(w, 1..2, 1) = 1 /\ Picked(w, 1..2, 2) = 1 /\ Picked(w, 1..2, 3) = 0
            /\ Picked(w, 1..2, 4) = 0 /\ Picked(w, 1..2, 5) = 0 /\ Picked(w, 1..2, 6) = 0
            /\ Picked(w, 1..2, 7) = 0 /\ Picked(w, 1..2, 8) = 0 /\ Picked(w, 1..2, 9) = 0
            /\ Picked(w, 1..2, 10) = 0
        BY <1>2 DEF Picked
      <3> QED BY <3>1 DEF Total
    <2> QED BY <2>2, <2>3
  <1>3. ASSUME DOMAIN w = 1..3, w[1] = 1, w[2] = 1, w[3] = 4
        PROVE  LayoutSum(w) = 2 + 1 + 1 + 4
    <2>1. 3 \in 0..10 /\ \A i \in 1..3 : w[i] \in Nat
      BY <1>3
    <2>2. LayoutSum(w) = 2 + Total(w, 1..3)
      BY <1>1, <1>3, <2>1
    <2>3. Total(w, 1..3) = 6
      <3>1. /\ Picked(w, 1..3, 1) = 1 /\ Picked(w, 1..3, 2) = 1 /\ Picked(w, 1..3, 3) = 4
            /\ Picked(w, 1..3, 4) = 0 /\ Picked(w, 1..3, 5) = 0 /\ Picked(w, 1..3, 6) = 0
            /\ Picked(w, 1..3, 7) = 0 /\ Picked(w, 1..3, 8) = 0 /\ Picked(w, 1..3, 9) = 0
            /\ Picked(w, 1..3, 10) = 0
        BY <1>3 DEF Picked
      <3> QED BY <3>1 DEF Total
    <2> QED BY <2>2, <2>3
  <1>4. ASSUME DOMAIN w = 1..8, w[1] = 1, w[2] = 1, w[3] = 4, w[4] = 4, w[5] = 4,
               w[6] = 32, w[7] = 32, w[8] = 4
        PROVE  LayoutSum(w) = 84
    <2>1. 8 \in 0..10 /\ \A i \in 1..8 : w[i] \in Nat
      BY <1>4
    <2>2. LayoutSum(w) = 2 + Total(w, 1..8)
      BY <1>1, <1>4, <2>1
    <2>3. Total(w, 1..8) = 82
      <3>1. /\ Picked(w, 1..8, 1) = 1 /\ Picked(w, 1..8, 2) = 1 /\ Picked(w, 1..8, 3) = 4
            /\ Picked(w, 1..8, 4) = 4 /\ Picked(w, 1..8, 5) = 4 /\ Picked(w, 1..8, 6) = 32
            /\ Picked(w, 1..8, 7) = 32 /\ Picked(w, 1..8, 8) = 4 /\ Picked(w, 1..8, 9) = 0
            /\ Picked(w, 1..8, 10) = 0
        BY <1>4 DEF Picked
      <3> QED BY <3>1 DEF Total
    <2> QED BY <2>2, <2>3
  <1>5. ASSUME NEW k \in 1..4, DOMAIN w = 1..(6 + k), w[1] = 1, w[2] = 1, w[3] = 4, w[4] = 4,
               w[5] = 4, w[6] = 4, \A i \in 7..(6 + k) : w[i] = 32
        PROVE  LayoutSum(w) = 20 + 32 * k
    <2>1. PICK n \in 7..10 : n = 6 + k
      OBVIOUS
    <2>2. n \in 0..10 /\ \A i \in 1..n : w[i] \in Nat
      BY <1>5, <2>1
    <2>3. LayoutSum(w) = 2 + Total(w, 1..n)
      BY <1>1, <1>5, <2>1, <2>2
    <2>4. /\ w[7] = 32 /\ (n > 7 => w[8] = 32) /\ (n > 8 => w[9] = 32) /\ (n > 9 => w[10] = 32)
      BY <1>5, <2>1
    <2>5. Total(w, 1..n) = 18 + 32 * k
      <3>1. /\ Picked(w, 1..n, 1) = 1 /\ Picked(w, 1..n, 2) = 1
            /\ Picked(w, 1..n, 3) = 4 /\ Picked(w, 1..n, 4) = 4
            /\ Picked(w, 1..n, 5) = 4 /\ Picked(w, 1..n, 6) = 4
            /\ Picked(w, 1..n, 7) = 32 /\ (Picked(w, 1..n, 8) = IF n > 7 THEN 32 ELSE 0)
            /\ (Picked(w, 1..n, 9) = IF n > 8 THEN 32 ELSE 0) /\ (Picked(w, 1..n, 10) = IF n > 9 THEN 32 ELSE 0)
        BY <1>5, <2>1, <2>4 DEF Picked
      <3> QED BY <2>1, <3>1 DEF Total
    <2> QED BY <2>3, <2>5
  <1> QED BY <1>2, <1>3, <1>4, <1>5

LEMMA CommandsKeep ==
    ASSUME NEW c \in Commands
    PROVE  /\ TotalLen(c) = LayoutSum(Layout(c)) + CrcLen(c)
           /\ c.cmd \in {"full", "midstate"} =>
                 \A core \in 0..15 : ResponseJobId(ResultHeader(JobHeader(c.id), core)) = c.id
  <1>1. /\ c.cmd \in {"address", "inactive", "read", "write", "full", "midstate"}
        /\ c.cmd = "midstate" => c.midstates \in 1..4
        /\ c.cmd \in {"full", "midstate"} => c.id \in 0..15
    BY DEF Commands
  <1> DEFINE long  == <<1, 1, 4, 4, 4, 32, 32, 4>>
             wide  == <<1, 1, 4>>
             short == <<1, 1>>
             mid   == <<1, 1, 4, 4, 4, 4>> \o [i \in 1..c.midstates |-> 32]
  <1>2. /\ DOMAIN long = 1..8 /\ long[1] = 1 /\ long[2] = 1 /\ long[3] = 4 /\ long[4] = 4
        /\ long[5] = 4 /\ long[6] = 32 /\ long[7] = 32 /\ long[8] = 4
        /\ DOMAIN wide = 1..3 /\ wide[1] = 1 /\ wide[2] = 1 /\ wide[3] = 4
        /\ DOMAIN short = 1..2 /\ short[1] = 1 /\ short[2] = 1
    OBVIOUS
  <1>3. ASSUME c.cmd = "midstate"
        PROVE  /\ DOMAIN mid = 1..(6 + c.midstates) /\ mid[1] = 1 /\ mid[2] = 1 /\ mid[3] = 4
               /\ mid[4] = 4 /\ mid[5] = 4 /\ mid[6] = 4 /\ \A i \in 7..(6 + c.midstates) : mid[i] = 32
    <2>1. PICK k \in 1..4 : k = c.midstates
      BY <1>1, <1>3
    <2> DEFINE head == <<1, 1, 4, 4, 4, 4>>
               tail == [i \in 1..k |-> 32]
    <2>2. /\ head \in Seq(Nat) /\ Len(head) = 6
          /\ head[1] = 1 /\ head[2] = 1 /\ head[3] = 4 /\ head[4] = 4 /\ head[5] = 4 /\ head[6] = 4
      OBVIOUS
    <2>3. tail \in Seq(Nat) /\ Len(tail) = k /\ \A i \in 1..k : tail[i] = 32
      OBVIOUS
    <2>4. mid = head \o tail
      BY <2>1
    <2> HIDE DEF head, tail, mid
    <2>5. \A i \in 7..(6 + k) : i - 6 \in 1..k /\ ~(i <= 6) /\ i \in 1..(6 + k)
      OBVIOUS
    <2>6. /\ head \o tail \in Seq(Nat) /\ Len(head \o tail) = 6 + k
          /\ \A i \in 1..(6 + k) :
                (head \o tail)[i] = IF i <= 6 THEN head[i] ELSE tail[i - 6]
      <3>1. head \in Seq(Nat) /\ tail \in Seq(Nat) /\ Len(head) = 6 /\ Len(tail) = k
        BY <2>2, <2>3
      <3>2. /\ head \o tail \in Seq(Nat) /\ Len(head \o tail) = Len(head) + Len(tail)
            /\ \A i \in 1..(Len(head) + Len(tail)) :
                  (head \o tail)[i] = IF i <= Len(head) THEN head[i] ELSE tail[i - Len(head)]
        BY <3>1, ConcatProperties, Zenon
      <3> QED BY <3>1, <3>2
    <2>7. DOMAIN mid = 1..(6 + k) /\ \A i \in 7..(6 + k) : mid[i] = 32
      <3>1. mid \in Seq(Nat) /\ Len(mid) = 6 + k
        BY <2>4, <2>6
      <3>2. \A i \in 7..(6 + k) : mid[i] = tail[i - 6]
        BY <2>4, <2>5, <2>6
      <3>3. \A i \in 7..(6 + k) : tail[i - 6] = 32
        BY <2>3, <2>5
      <3> QED BY <3>1, <3>2, <3>3
    <2>8. \A i \in 1..6 : mid[i] = head[i]
      <3>1. \A i \in 1..6 : i \in 1..(6 + k) /\ i <= 6
        OBVIOUS
      <3> QED BY <2>4, <2>6, <3>1, Zenon
    <2> QED BY <2>1, <2>2, <2>7, <2>8
  <1>4. /\ c.cmd = "write" => Layout(c) = wide /\ CrcLen(c) = 1 /\ TotalLen(c) = 9
        /\ c.cmd \in {"address", "inactive", "read"} =>
              Layout(c) = short /\ CrcLen(c) = 1 /\ TotalLen(c) = 5
        /\ c.cmd = "full" => Layout(c) = long /\ CrcLen(c) = 2 /\ TotalLen(c) = 86
        /\ c.cmd = "midstate" =>
              /\ Layout(c) = mid /\ CrcLen(c) = 2 /\ TotalLen(c) = (18 + c.midstates * 32 + 4) % 256
    <2>1. /\ c.cmd = "write" => Layout(c) = wide
          /\ c.cmd \in {"address", "inactive", "read"} => Layout(c) = short
          /\ c.cmd = "full" => Layout(c) = long
          /\ c.cmd = "midstate" => Layout(c) = mid
      BY DEF Layout
    <2> HIDE DEF long, wide, short, mid
    <2> QED BY <2>1 DEF CrcLen, TotalLen
  <1> HIDE DEF long, wide, short, mid
  <1>5. TotalLen(c) = LayoutSum(Layout(c)) + CrcLen(c)
    <2>1. CASE c.cmd = "write"
      <3>1. LayoutSum(wide) = 2 + 1 + 1 + 4
        BY <1>2, SumOfLayout
      <3> QED BY <1>4, <2>1, <3>1
    <2>2. CASE c.cmd \in {"address", "inactive", "read"}
      <3>1. LayoutSum(short) = 2 + 1 + 1
        BY <1>2, SumOfLayout
      <3> QED BY <1>4, <2>2, <3>1
    <2>3. CASE c.cmd = "full"
      <3>1. LayoutSum(long) = 84
        BY <1>2, SumOfLayout
      <3> QED BY <1>4, <2>3, <3>1
    <2>4. CASE c.cmd = "midstate"
      <3>1. PICK k \in 1..4 : k = c.midstates
        BY <1>1, <2>4
      <3>2. LayoutSum(mid) = 20 + 32 * k
        <4>1. /\ DOMAIN mid = 1..(6 + k) /\ mid[1] = 1 /\ mid[2] = 1 /\ mid[3] = 4
              /\ mid[4] = 4 /\ mid[5] = 4 /\ mid[6] = 4 /\ \A i \in 7..(6 + k) : mid[i] = 32
          BY <1>3, <2>4, <3>1
        <4> QED BY <4>1, SumOfLayout
      <3>3. (18 + k * 32 + 4) % 256 = 22 + 32 * k
        OBVIOUS
      <3> QED BY <1>4, <2>4, <3>1, <3>2, <3>3
    <2> QED BY <1>1, <2>1, <2>2, <2>3, <2>4
  <1>6. ASSUME c.cmd \in {"full", "midstate"}, NEW core \in 0..15
        PROVE  ResponseJobId(ResultHeader(JobHeader(c.id), core)) = c.id
    <2>1. PICK id \in 0..15 : id = c.id
      BY <1>1, <1>6
    <2>2. ResultHeader(JobHeader(id), core) = id * 16 + core
      BY DEF ResultHeader, JobHeader
    <2>3. ResponseJobId(id * 16 + core) = id
      BY DEF ResponseJobId
    <2> QED BY <2>1, <2>2, <2>3
  <1> QED BY <1>5, <1>6

-----------------------------------------------------------------------------
(* The ticket mask.                                                        *)

LEMMA WorkPowers ==
    /\ WorkBits \in Nat \ {0} /\ 2^0 = 1
    /\ \A n \in 0..WorkBits : 2^(n + 1) = 2 * 2^n
    /\ \A n \in 0..(WorkBits + 1) : 2^n \in Nat \ {0}
  <1>1. /\ WorkBits \in Nat \ {0} /\ 2^0 = 1
        /\ \A n \in 0..WorkBits : 2^(n + 1) = 2 * 2^n
    BY ChipProtocolConstants
  <1> DEFINE bad == {n \in 0..(WorkBits + 1) : 2^n \notin Nat \ {0}}
  <1>2. bad = {}
    <2> SUFFICES ASSUME bad # {} PROVE FALSE
      OBVIOUS
    <2>1. bad \subseteq Nat
      BY <1>1
    <2>2. PICK m \in bad : \A n \in bad : m <= n
      <3> HIDE DEF bad
      <3> QED BY <2>1, NatMin
    <2>3. PICK k \in 0..WorkBits : m = k + 1
      <3>1. m # 0
        <4>1. 2^0 \in Nat \ {0}
          BY <1>1
        <4>2. 0 \notin bad
          BY <4>1
        <4> HIDE DEF bad
        <4> QED BY <4>2
      <3>2. m - 1 \in 0..WorkBits /\ m = (m - 1) + 1
        BY <1>1, <3>1
      <3> QED BY <3>2
    <2>4. k \notin bad
      BY <2>2, <2>3
    <2>5. PICK x \in Nat \ {0} : x = 2^k
      BY <1>1, <2>3, <2>4
    <2>6. 2^(k + 1) = 2 * x
      BY <1>1, <2>3, <2>5
    <2> QED BY <2>3, <2>5, <2>6
  <1> QED BY <1>1, <1>2

\* The low bits and the high ones make all of them.
LEMMA HalvesMeet == \A e \in 0..WorkBits : Prod(2^(WorkBits - e), 2^e) = 2^WorkBits
  <1> DEFINE bad == {e \in 0..WorkBits : Prod(2^(WorkBits - e), 2^e) # 2^WorkBits}
  <1>2. bad = {}
    <2> SUFFICES ASSUME bad # {} PROVE FALSE
      OBVIOUS
    <2>1. bad \subseteq Nat
      OBVIOUS
    <2>2. PICK m \in bad : \A n \in bad : m <= n
      <3> HIDE DEF bad
      <3> QED BY <2>1, NatMin
    <2>3. PICK k \in 0..(WorkBits - 1) : m = k + 1
      <3>1. m # 0
        <4>1. 2^0 = 1 /\ WorkBits - 0 = WorkBits
          BY WorkPowers
        <4>2. PICK x \in Nat : x = 2^WorkBits
          BY WorkPowers
        <4>3. 2^(WorkBits - 0) = x
          BY <4>1, <4>2
        <4>4. Prod(2^(WorkBits - 0), 2^0) = 2^WorkBits
          BY <4>1, <4>2, <4>3 DEF Prod
        <4>5. 0 \notin bad
          BY <4>4
        <4> HIDE DEF bad
        <4> QED BY <4>5
      <3>2. m - 1 \in 0..(WorkBits - 1) /\ m = (m - 1) + 1
        BY <3>1, WorkPowers
      <3> QED BY <3>2
    <2>4. Prod(2^(WorkBits - k), 2^k) = 2^WorkBits
      BY <2>2, <2>3, WorkPowers
    <2>5. PICK x \in Nat \ {0} : x = 2^k /\ 2^(k + 1) = 2 * x
      BY <2>3, WorkPowers
    <2>6. PICK y \in Nat \ {0} : y = 2^(WorkBits - (k + 1)) /\ 2^(WorkBits - k) = 2 * y
      <3>1. WorkBits - (k + 1) \in 0..WorkBits /\ (WorkBits - (k + 1)) + 1 = WorkBits - k
        BY <2>3, WorkPowers
      <3>2. 2^((WorkBits - (k + 1)) + 1) = 2 * 2^(WorkBits - (k + 1))
            /\ 2^(WorkBits - (k + 1)) \in Nat \ {0}
        BY <3>1, WorkPowers
      <3> QED BY <3>1, <3>2
    <2>7. y * (2 * x) = (2 * y) * x
      OBVIOUS
    <2>8. Prod(2^(WorkBits - m), 2^m) = 2^WorkBits
      BY <2>3, <2>4, <2>5, <2>6, <2>7 DEF Prod
    <2> QED BY <2>8
  <1> QED BY <1>2

\* Powers grow.
LEMMA PowersGrow == \A i, j \in 0..WorkBits : i <= j => 2^i <= 2^j
  <1> SUFFICES ASSUME NEW i \in 0..WorkBits PROVE \A j \in 0..WorkBits : i <= j => 2^i <= 2^j
    OBVIOUS
  <1> DEFINE bad == {j \in 0..WorkBits : i <= j /\ ~(2^i <= 2^j)}
  <1>2. bad = {}
    <2> SUFFICES ASSUME bad # {} PROVE FALSE
      OBVIOUS
    <2>1. bad \subseteq Nat
      OBVIOUS
    <2>2. PICK m \in bad : \A n \in bad : m <= n
      <3> HIDE DEF bad
      <3> QED BY <2>1, NatMin
    <2>3. PICK k \in 0..WorkBits : m = k + 1 /\ i <= k
      <3>1. m # i
        BY WorkPowers
      <3>2. m - 1 \in 0..WorkBits /\ m = (m - 1) + 1 /\ i <= m - 1
        BY <3>1, WorkPowers
      <3> QED BY <3>2
    <2>4. k \notin bad
      BY <2>2, <2>3
    <2>5. PICK x \in Nat, y \in Nat : x = 2^i /\ y = 2^k
      BY <2>3, WorkPowers
    <2>6. x <= y
      BY <2>3, <2>4, <2>5
    <2>7. 2^(k + 1) = 2 * y
      BY <2>3, <2>5, WorkPowers
    <2> QED BY <2>3, <2>5, <2>6, <2>7
  <1> QED BY <1>2

\* Every difficulty a hash can meet has its logarithm.
LEMMA LogFound ==
    ASSUME NEW d \in 1..(2^WorkBits - 1)
    PROVE  /\ Log2Difficulty(d) \in 0..(WorkBits - 1)
           /\ 2^Log2Difficulty(d) <= d /\ d < 2 * 2^Log2Difficulty(d)
  <1>1. 2^WorkBits \in Nat \ {0} /\ WorkBits \in Nat \ {0}
    BY WorkPowers
  <1> DEFINE above == {n \in 0..WorkBits : 2^n > d}
  <1>2. PICK m \in above : \A n \in above : m <= n
    <2>1. above \subseteq Nat /\ WorkBits \in above
      BY <1>1
    <2> HIDE DEF above
    <2> QED BY <2>1, NatMin
  <1>3. PICK k \in 0..WorkBits : m = k + 1
    <2>1. m # 0
      <3>1. 0 \notin above
        BY WorkPowers
      <3> HIDE DEF above
      <3> QED BY <3>1
    <2>2. m - 1 \in 0..WorkBits /\ m = (m - 1) + 1
      BY <1>1, <2>1
    <2> QED BY <2>2
  <1>4. 2^k <= d
    <2>1. k \notin above
      BY <1>2, <1>3
    <2>2. PICK x \in Nat : x = 2^k
      BY <1>3, WorkPowers
    <2> QED BY <2>1, <2>2
  <1>5. \E e \in 0..WorkBits : 2^e <= d /\ 2^(e + 1) > d
    BY <1>2, <1>3, <1>4
  <1> DEFINE e == CHOOSE e \in 0..WorkBits : 2^e <= d /\ 2^(e + 1) > d
  <1>6. e \in 0..WorkBits /\ 2^e <= d /\ 2^(e + 1) > d
    BY <1>5
  <1>7. Log2Difficulty(d) = e
    BY DEF Log2Difficulty
  <1> HIDE DEF e
  <1>8. 2^(e + 1) = 2 * 2^e
    BY <1>6, WorkPowers
  <1>9. e # WorkBits
    BY <1>1, <1>6
  <1>10. e \in 0..(WorkBits - 1)
    BY <1>1, <1>6, <1>9
  <1> QED BY <1>6, <1>7, <1>8, <1>10

\* The bytes of the mask say how many bits there are.
LEMMA MaskReads == \A e \in Nat : MaskOf(MaskBits(e)) = 0..(e - 1)
  <1> SUFFICES ASSUME NEW e \in Nat PROVE MaskOf(MaskBits(e)) = 0..(e - 1)
    OBVIOUS
  <1> DEFINE W(k) == <<3 - (k \div 8), 7 - (k % 8)>>
             B(w) == 8 * (3 - w[1]) + (7 - w[2])
  <1>1. \A k \in 0..(e - 1) : B(W(k)) = k
    OBVIOUS
  <1>2. MaskBits(e) = {W(k) : k \in 0..(e - 1)}
    BY DEF MaskBits
  <1>3. \A s : MaskOf(s) = {B(w) : w \in s}
    BY DEF MaskOf
  <1> HIDE DEF W, B
  <1>4. MaskOf(MaskBits(e)) = {B(W(k)) : k \in 0..(e - 1)}
    BY <1>2, <1>3
  <1> QED BY <1>1, <1>4

\* A hash passes the mask of e bits when it is below the 2^e'th part of all.
LEMMA MaskFilters ==
    ASSUME NEW e \in 0..WorkBits, NEW h \in 0..(2^WorkBits - 1)
    PROVE  Passes(h, e) <=> h < 2^(WorkBits - e)
  <1>1. h \in Nat /\ h < 2^WorkBits
    BY WorkPowers
  <1>2. Passes(h, e) <=> \A k \in 0..(e - 1) : (h \div 2^(WorkBits - 1 - k)) % 2 = 0
    <2>1. e \in Nat
      OBVIOUS
    <2> QED BY <2>1, MaskReads DEF Passes
  <1>3. ASSUME h < 2^(WorkBits - e), NEW k \in 0..(e - 1)
        PROVE  (h \div 2^(WorkBits - 1 - k)) % 2 = 0
    <2>1. WorkBits - e \in 0..WorkBits /\ WorkBits - 1 - k \in 0..WorkBits
          /\ WorkBits - e <= WorkBits - 1 - k
      BY WorkPowers
    <2>2. PICK x \in Nat \ {0}, y \in Nat \ {0} : x = 2^(WorkBits - e) /\ y = 2^(WorkBits - 1 - k)
      BY <2>1, WorkPowers
    <2>3. x <= y
      BY <2>1, <2>2, PowersGrow
    <2>4. h \div y = 0
      BY <1>1, <1>3, <2>2, <2>3
    <2> QED BY <2>2, <2>4
  <1>4. ASSUME \A k \in 0..(e - 1) : (h \div 2^(WorkBits - 1 - k)) % 2 = 0
        PROVE  h < 2^(WorkBits - e)
    <2> DEFINE bad == {j \in 0..e : ~(h < 2^(WorkBits - j))}
    <2>1. bad = {}
      <3> SUFFICES ASSUME bad # {} PROVE FALSE
        OBVIOUS
      <3>1. bad \subseteq Nat
        OBVIOUS
      <3>2. PICK m \in bad : \A n \in bad : m <= n
        <4> HIDE DEF bad
        <4> QED BY <3>1, NatMin
      <3>3. PICK k \in 0..(e - 1) : m = k + 1
        <4>1. WorkBits - 0 = WorkBits
          BY WorkPowers
        <4>2. m # 0
          BY <1>1, <4>1
        <4>3. m - 1 \in 0..(e - 1) /\ m = (m - 1) + 1
          BY <4>2
        <4> QED BY <4>3
      <3>4. h < 2^(WorkBits - k)
        BY <3>2, <3>3
      <3>5. WorkBits - 1 - k \in 0..WorkBits /\ (WorkBits - 1 - k) + 1 = WorkBits - k
            /\ WorkBits - m = WorkBits - 1 - k
        BY <3>3, WorkPowers
      <3>6. PICK x \in Nat \ {0} : x = 2^(WorkBits - 1 - k) /\ 2^(WorkBits - k) = 2 * x
        <4>1. 2^((WorkBits - 1 - k) + 1) = 2 * 2^(WorkBits - 1 - k)
              /\ 2^(WorkBits - 1 - k) \in Nat \ {0}
          BY <3>5, WorkPowers
        <4> QED BY <3>5, <4>1
      <3>7. (h \div x) % 2 = 0
        BY <1>4, <3>3, <3>6
      <3>8. PICK q \in Nat, r \in Nat : q = h \div x /\ r < x /\ h = x * q + r
        <4>1. PICK y \in Nat : y = h
          BY <1>1
        <4>2. PICK q \in Nat, r \in Nat : q = y \div x /\ r < x /\ y = x * q + r
          BY Division
        <4> QED BY <4>1, <4>2
      <3>9. q = 0
        <4>1. q # 1
          BY <3>7, <3>8
        <4>2. SUFFICES ASSUME q > 1 PROVE FALSE
          BY <4>1
        <4>3. PICK c \in Nat : q = 2 + c
          <5>1. q - 2 \in Nat /\ q = 2 + (q - 2)
            BY <4>2
          <5> QED BY <5>1
        <4>4. PICK z \in Nat : z = x * c
          OBVIOUS
        <4>5. x * q = 2 * x + z
          BY <4>3, <4>4
        <4> QED BY <3>4, <3>6, <3>8, <4>5
      <3>10. h < x
        BY <3>8, <3>9
      <3> QED BY <3>5, <3>6, <3>10
    <2>2. e \in 0..e
      OBVIOUS
    <2> QED BY <2>1, <2>2
  <1> QED BY <1>2, <1>3, <1>4

LEMMA TicketsCounted ==
    ASSUME NEW d \in 1..(2^WorkBits - 1)
    PROVE  LET e == Log2Difficulty(d)
               all == 2^WorkBits - 1
           IN  /\ \A h \in 0..all : h * d <= all => Passes(h, e)
               /\ Cardinality({h \in 0..all : Passes(h, e)}) * d < 2 * 2^WorkBits
  <1>1. PICK e \in 0..(WorkBits - 1) : e = Log2Difficulty(d) /\ 2^e <= d /\ d < 2 * 2^e
    BY LogFound
  <1>2. e \in 0..WorkBits /\ WorkBits - e \in 0..WorkBits
    BY WorkPowers
  <1>3. PICK p \in Nat \ {0}, q \in Nat \ {0}, n \in Nat \ {0} :
            p = 2^(WorkBits - e) /\ q = 2^e /\ n = 2^WorkBits
    BY <1>2, WorkPowers
  <1>4. p * q = n
    BY <1>2, <1>3, HalvesMeet DEF Prod
  <1>5. \A h \in 0..(n - 1) : Passes(h, e) <=> h < p
    BY <1>2, <1>3, MaskFilters
  <1>6. ASSUME NEW h \in 0..(n - 1), h * d <= n - 1
        PROVE  h < p
    <2> SUFFICES ASSUME ~(h < p) PROVE FALSE
      OBVIOUS
    <2>1. PICK a \in Nat, b \in Nat : h = p + a /\ d = q + b
      <3>1. h - p \in Nat /\ h = p + (h - p) /\ d - q \in Nat /\ d = q + (d - q)
        BY <1>1, <1>3
      <3> QED BY <3>1
    <2>2. PICK x \in Nat, y \in Nat, z \in Nat : x = p * b /\ y = a * q /\ z = a * b
      OBVIOUS
    <2>3. h * d = n + x + y + z
      BY <1>4, <2>1, <2>2
    <2> QED BY <1>6, <2>2, <2>3
  <1>7. p <= n
    <2>1. PICK b \in Nat : q = 1 + b
      <3>1. q - 1 \in Nat /\ q = 1 + (q - 1)
        OBVIOUS
      <3> QED BY <3>1
    <2>2. PICK x \in Nat : x = p * b
      OBVIOUS
    <2>3. p * q = p + x
      BY <2>1, <2>2
    <2> QED BY <1>4, <2>2, <2>3
  <1>8. {h \in 0..(n - 1) : Passes(h, e)} = 0..(p - 1)
    BY <1>5, <1>7
  <1>9. Cardinality(0..(p - 1)) = p
    <2>1. 0 \in Int /\ p - 1 \in Int /\ 0 <= p - 1 /\ (p - 1) - 0 + 1 = p
      OBVIOUS
    <2> QED BY <2>1, FS_Interval
  <1>10. p * d < 2 * n
    <2>1. PICK b \in Nat : 2 * q = d + 1 + b
      <3>1. 2 * q - d - 1 \in Nat /\ 2 * q = d + 1 + (2 * q - d - 1)
        BY <1>1, <1>3
      <3> QED BY <3>1
    <2>2. PICK x \in Nat, y \in Nat : x = p * b /\ y = p * d
      OBVIOUS
    <2>3. p * (2 * q) = y + p + x
      BY <2>1, <2>2
    <2>4. p * (2 * q) = 2 * n
      BY <1>4
    <2> QED BY <2>2, <2>3, <2>4
  <1>11. \A h \in 0..(n - 1) : h * d <= n - 1 => Passes(h, e)
    BY <1>5, <1>6
  <1>12. Cardinality({h \in 0..(n - 1) : Passes(h, e)}) * d < 2 * n
    BY <1>8, <1>9, <1>10
  <1> QED BY <1>1, <1>3, <1>11, <1>12, Zenon

-----------------------------------------------------------------------------
(* The PLL.                                                                *)

LEMMA DivisorsAre ==
    \A d \in Divisors :
       /\ d = <<d[1], d[2], d[3]>> /\ d[1] \in 1..2 /\ d[2] \in 1..7 /\ d[3] \in 1..7
       /\ Div(d) \in Nat \ {0}
  <1> SUFFICES ASSUME NEW d \in Divisors
               PROVE  /\ d = <<d[1], d[2], d[3]>> /\ d[1] \in 1..2 /\ d[2] \in 1..7 /\ d[3] \in 1..7
                      /\ Div(d) \in Nat \ {0}
    OBVIOUS
  <1>1. d = <<d[1], d[2], d[3]>> /\ d[1] \in {1, 2} /\ d[2] \in 1..7 /\ d[3] \in 1..7
    BY DEF Divisors
  <1>2. PICK x \in 1..2, y \in 1..7, z \in 1..7 : x = d[1] /\ y = d[2] /\ z = d[3]
    BY <1>1
  <1>3. x * y * z \in Nat \ {0}
    <2>1. PICK a \in Nat \ {0} : a = x * y
      BY DivideTwice DEF Prod
    <2>2. a * z \in Nat \ {0}
      BY DivideTwice DEF Prod
    <2> QED BY <2>1, <2>2
  <1> QED BY <1>1, <1>2, <1>3 DEF Div

\* A number by which divisors of the same value can be compared with integers.
Weight(d) == (2 \div d[1]) * ((420 \div d[2]) * (420 \div d[3]))

LEMMA WeightsAre ==
    \A d \in Divisors : Weight(d) \in Nat \ {0} /\ Prod(Weight(d), Div(d)) = 352800
  <1> SUFFICES ASSUME NEW d \in Divisors
               PROVE  Weight(d) \in Nat \ {0} /\ Prod(Weight(d), Div(d)) = 352800
    OBVIOUS
  <1>1. PICK x \in 1..2, y \in 1..7, z \in 1..7 : x = d[1] /\ y = d[2] /\ z = d[3]
    BY DivisorsAre
  <1>2. PICK a \in Nat \ {0} : a = 2 \div x /\ a * x = 2
    <2>1. x = 1 \/ x = 2
      OBVIOUS
    <2> QED BY <2>1
  <1>3. \A k \in 1..7 : 420 \div k \in Nat \ {0} /\ (420 \div k) * k = 420
    <2>1. \A k \in 1..7 : k = 1 \/ k = 2 \/ k = 3 \/ k = 4 \/ k = 5 \/ k = 6 \/ k = 7
      OBVIOUS
    <2> QED BY <2>1
  <1>4. PICK b \in Nat \ {0}, c \in Nat \ {0} :
            b = 420 \div y /\ b * y = 420 /\ c = 420 \div z /\ c * z = 420
    BY <1>3
  <1>5. Weight(d) = a * (b * c) /\ Div(d) = x * y * z
    BY <1>1, <1>2, <1>4 DEF Weight, Div
  <1>6. a * (b * c) \in Nat \ {0}
    <2>1. PICK e \in Nat \ {0} : e = b * c
      BY DivideTwice DEF Prod
    <2>2. a * e \in Nat \ {0}
      BY DivideTwice DEF Prod
    <2> QED BY <2>1, <2>2
  <1>7. (a * (b * c)) * (x * y * z) = (a * x) * ((b * y) * (c * z))
    OBVIOUS
  <1>8. (a * (b * c)) * (x * y * z) = 352800
    BY <1>2, <1>4, <1>7
  <1> QED BY <1>5, <1>6, <1>8 DEF Prod

\* Some divisors of a set are searched first.
LEMMA FirstFound ==
    ASSUME NEW ds \in SUBSET Divisors, ds # {}
    PROVE  (CHOOSE d \in ds : \A c \in ds : c = d \/ Before(d, c)) \in ds
  <1> DEFINE Late(d) == 1000 - (100 * d[1] + 10 * d[2] + d[3])
             ranks == {Late(d) : d \in ds}
  <1>1. ranks \subseteq Nat /\ ranks # {}
    <2>1. \A d \in ds : Late(d) \in Nat
      BY DivisorsAre
    <2> QED BY <2>1
  <1>2. PICK m \in ranks : \A n \in ranks : m <= n
    <2> HIDE DEF ranks
    <2> QED BY <1>1, NatMin
  <1>3. PICK d \in ds : m = Late(d)
    OBVIOUS
  <1>4. ASSUME NEW c \in ds, c # d
        PROVE  Before(d, c)
    <2>1. Late(d) <= Late(c)
      BY <1>2, <1>3
    <2>2. /\ d = <<d[1], d[2], d[3]>> /\ c = <<c[1], c[2], c[3]>>
          /\ d[1] \in 1..2 /\ d[2] \in 1..7 /\ d[3] \in 1..7
          /\ c[1] \in 1..2 /\ c[2] \in 1..7 /\ c[3] \in 1..7
      BY DivisorsAre
    <2>3. d[1] # c[1] \/ d[2] # c[2] \/ d[3] # c[3]
      BY <1>4, <2>2
    <2> QED BY <2>1, <2>2, <2>3 DEF Before
  <1> QED BY <1>4

LEMMA DistanceIs == \A x \in Int : Abs(x) \in Nat /\ -Abs(x) <= x /\ x <= Abs(x) /\ (Abs(x) = x \/ Abs(x) = -x)
  BY DEF Abs

LEMMA FeedbackIs == \A f \in Nat, d \in Divisors : FbDiv(f, d) \in 0..255
  <1> SUFFICES ASSUME NEW f \in Nat, NEW d \in Divisors PROVE FbDiv(f, d) \in 0..255
    OBVIOUS
  <1>1. PICK v \in Nat : v = Div(d)
    BY DivisorsAre
  <1>2. PICK x \in Nat : x = 2 * f * v
    <2>1. 2 * f \in Nat /\ 2 * f * v \in Nat
      OBVIOUS
    <2> QED BY <2>1
  <1>3. (x + 100) \div 200 \in Nat
    OBVIOUS
  <1> QED BY <1>1, <1>2, <1>3 DEF FbDiv

\* The thread's search finds usable divisors when there are any.
LEMMA SearchFinds ==
    ASSUME NEW f
    PROVE  \/ CalculatePll(f) = <<>> /\ {d \in Divisors : Usable(f, d)} = {}
           \/ \E d \in Divisors : Usable(f, d) /\ CalculatePll(f) = <<Pll(f, d)>>
  <1> DEFINE ok == {d \in Divisors : Usable(f, d)}
             d == CHOOSE d \in ok : \A c \in ok : c = d \/ Before(d, c)
  <1>1. CASE ok = {}
    BY <1>1 DEF CalculatePll
  <1>2. CASE ok # {}
    <2>1. d \in ok
      BY <1>2, FirstFound
    <2>2. CalculatePll(f) = <<Pll(f, d)>>
      BY <1>2 DEF CalculatePll
    <2> HIDE DEF d
    <2> QED BY <2>1, <2>2
  <1> QED BY <1>1, <1>2

\* Of usable divisors, some miss the frequency least.
LEMMA LeastFound ==
    ASSUME NEW f \in Nat, NEW ok \in SUBSET Divisors, ok # {}
    PROVE  \E d \in ok : \A c \in ok :
              Abs(100 * FbDiv(f, d) - f * Div(d)) * Div(c) <= Abs(100 * FbDiv(f, c) - f * Div(c)) * Div(d)
  <1> DEFINE Err(d) == Abs(100 * FbDiv(f, d) - f * Div(d))
             errs == {Err(d) * Weight(d) : d \in ok}
  <1>1. ASSUME NEW d \in ok PROVE Err(d) \in Nat
    <2>1. PICK x \in Nat, y \in Nat : x = FbDiv(f, d) /\ y = Div(d)
      BY DivisorsAre, FeedbackIs
    <2>2. PICK z \in Int : z = 100 * x - f * y
      <3>1. PICK w \in Nat : w = f * y
        OBVIOUS
      <3>2. 100 * x - w \in Int
        OBVIOUS
      <3> QED BY <3>1, <3>2
    <2>3. Abs(z) \in Nat
      BY DistanceIs
    <2>4. Err(d) = Abs(z)
      BY <2>1, <2>2
    <2> QED BY <2>3, <2>4
  <1> HIDE DEF Err
  <1>2. errs \subseteq Nat /\ errs # {}
    <2>1. ASSUME NEW d \in ok PROVE Err(d) * Weight(d) \in Nat
      <3>1. PICK x \in Nat, y \in Nat : x = Err(d) /\ y = Weight(d)
        BY <1>1, WeightsAre
      <3>2. x * y \in Nat
        OBVIOUS
      <3> QED BY <3>1, <3>2
    <2> QED BY <2>1
  <1>3. PICK m \in errs : \A n \in errs : m <= n
    <2> HIDE DEF errs
    <2> QED BY <1>2, NatMin
  <1>4. PICK d \in ok : m = Err(d) * Weight(d)
    OBVIOUS
  <1>5. ASSUME NEW c \in ok PROVE Err(d) * Div(c) <= Err(c) * Div(d)
    <2>1. Err(d) * Weight(d) <= Err(c) * Weight(c)
      BY <1>3, <1>4
    <2>2. PICK x \in Nat, y \in Nat : x = Err(d) /\ y = Err(c)
      BY <1>1
    <2>3. PICK v \in Nat \ {0}, w \in Nat \ {0} : v = Weight(d) /\ w = Weight(c)
      BY WeightsAre
    <2>4. PICK p \in Nat \ {0}, q \in Nat \ {0} : p = Div(d) /\ q = Div(c)
      BY DivisorsAre
    <2>5. v * p = 352800 /\ w * q = 352800
      BY <2>3, <2>4, WeightsAre DEF Prod
    <2>6. x * v <= y * w
      BY <2>1, <2>2, <2>3
    <2>7. PICK a \in Nat, b \in Nat : a = x * q /\ b = y * p
      OBVIOUS
    <2>8. a <= b
      <3> SUFFICES ASSUME b < a PROVE FALSE
        OBVIOUS
      <3>1. PICK k \in Nat, g \in Nat, s \in Nat : k = p * q /\ g = x * v /\ g + s = y * w
        <4>1. x * v \in Nat /\ y * w \in Nat /\ p * q \in Nat
          OBVIOUS
        <4>2. y * w - x * v \in Nat /\ x * v + (y * w - x * v) = y * w
          BY <2>6, <4>1
        <4> QED BY <4>1, <4>2
      <3>2. (x * v) * (p * q) = a * (v * p)
        BY <2>7
      <3>3. (y * w) * (p * q) = b * (w * q)
        BY <2>7
      <3>4. g * k = 352800 * a /\ (g + s) * k = 352800 * b
        BY <2>5, <3>1, <3>2, <3>3
      <3>5. PICK e \in Nat, h \in Nat : e = g * k /\ h = s * k
        OBVIOUS
      <3>6. (g + s) * k = e + h
        BY <3>5
      <3> QED BY <3>4, <3>5, <3>6
    <2> QED BY <2>2, <2>4, <2>7, <2>8
  <1> QED BY <1>5 DEF Err

\* The protocol's search misses no more than the thread's.
LEMMA SearchesMeet ==
    ASSUME NEW f \in Nat
    PROVE  LET p == BestPll(f)
               first == CalculatePll(f)
               off(x) == Abs(100 * x.fb - f * x.div)
           IN  IF first = <<>> THEN p = DefaultPll
               ELSE off(p) * first[1].div <= off(first[1]) * p.div /\ off(p) < 4 * p.div
  <1> DEFINE ok == {d \in Divisors : Usable(f, d)}
             Err(d) == Abs(100 * FbDiv(f, d) - f * Div(d))
             best == {d \in ok : \A c \in ok : Err(d) * Div(c) <= Err(c) * Div(d)}
             b == CHOOSE d \in best : \A c \in best : c = d \/ Before(d, c)
             Off(x) == Abs(100 * x.fb - f * x.div)
  <1>1. CASE CalculatePll(f) = <<>> /\ ok = {}
    <2>1. BestPll(f) = DefaultPll
      BY <1>1 DEF BestPll
    <2> QED BY <1>1, <2>1
  <1>2. CASE \E d \in Divisors : Usable(f, d) /\ CalculatePll(f) = <<Pll(f, d)>>
    <2>1. PICK d \in ok : CalculatePll(f) = <<Pll(f, d)>>
      BY <1>2
    <2>2. best # {}
      <3>1. ok # {} /\ ok \in SUBSET Divisors
        BY <2>1
      <3> QED BY <3>1, LeastFound
    <2>3. b \in best
      <3>1. best \in SUBSET Divisors
        OBVIOUS
      <3> HIDE DEF best
      <3> QED BY <2>2, <3>1, FirstFound
    <2>4. BestPll(f) = Pll(f, b)
      BY <2>1 DEF BestPll
    <2> HIDE DEF b
    <2>5. Err(b) * Div(d) <= Err(d) * Div(b)
      BY <2>1, <2>3
    <2>6. Err(b) < 4 * Div(b)
      BY <2>3 DEF Usable
    <2>7. \A c : Off(Pll(f, c)) = Err(c) /\ Pll(f, c).div = Div(c)
      BY DEF Pll
    <2>8. CalculatePll(f) # <<>> /\ CalculatePll(f)[1] = Pll(f, d)
      BY <2>1
    <2> HIDE DEF Err, Off
    <2>9. Off(BestPll(f)) * CalculatePll(f)[1].div <= Off(CalculatePll(f)[1]) * BestPll(f).div
          /\ Off(BestPll(f)) < 4 * BestPll(f).div
      BY <2>4, <2>5, <2>6, <2>7, <2>8
    <2> QED BY <2>8, <2>9 DEF Off
  <1> QED BY <1>1, <1>2, SearchFinds

\* The settings sent are those of the frequencies so far, and the next one is
\* the next step's.
Want(i) == RampFrom + (i - 1) * RampStep
RampLast == (RampTo - RampFrom) \div RampStep

RampKept ==
    /\ DOMAIN plls = 1..Len(plls) /\ Len(plls) \in 0..(RampLast + 1)
    /\ \A i \in 1..Len(plls) : \E d \in Divisors : Usable(Want(i), d) /\ plls[i] = Pll(Want(i), d)
    /\ ramp # 0 => ramp = Want(Len(plls) + 1) /\ Len(plls) <= RampLast

LEMMA RampNumbers ==
    /\ RampFrom \in Nat \ {0} /\ RampTo \in Nat /\ RampStep \in Nat /\ RampStep > 8 /\ RampLast \in Nat
    /\ RampTo = Want(RampLast + 1)
    /\ \A i \in 1..(RampLast + 1) : Want(i) \in Nat \ {0} /\ Want(i) <= RampTo
    /\ \A i \in 1..RampLast : Want(i + 1) = Want(i) + RampStep
    /\ \A i \in 1..(RampLast + 1) : \E d \in Divisors : Usable(Want(i), d)
  <1>1. /\ RampFrom \in Nat \ {0} /\ RampTo \in Nat /\ RampStep \in Nat /\ RampStep > 8
        /\ RampFrom <= RampTo /\ (RampTo - RampFrom) % RampStep = 0
        /\ \A k \in 0..((RampTo - RampFrom) \div RampStep) :
              \E d \in Divisors : Usable(RampFrom + k * RampStep, d)
    BY ChipProtocolConstants, RampReachable
  <1>2. PICK x \in Nat : x = RampTo - RampFrom
    BY <1>1
  <1>3. PICK s \in Nat \ {0} : s = RampStep
    BY <1>1
  <1>4. PICK q \in Nat, r \in Nat : q = x \div s /\ r = x % s /\ x = s * q + r
    BY Division
  <1>5. RampLast = q /\ x = s * q
    BY <1>1, <1>2, <1>3, <1>4 DEF RampLast
  <1>6. RampTo = Want(RampLast + 1)
    <2>1. PICK y \in Nat : y = s * q
      OBVIOUS
    <2>2. ((q + 1) - 1) * s = y
      BY <2>1
    <2> QED BY <1>1, <1>2, <1>3, <1>5, <2>1, <2>2 DEF Want
  <1>7. ASSUME NEW i \in 1..(RampLast + 1)
        PROVE  Want(i) \in Nat \ {0} /\ Want(i) <= RampTo
    <2>1. PICK k \in Nat, c \in Nat : i = k + 1 /\ q = k + c
      <3>1. i - 1 \in Nat /\ i = (i - 1) + 1 /\ q - (i - 1) \in Nat /\ q = (i - 1) + (q - (i - 1))
        BY <1>5
      <3> QED BY <3>1
    <2>2. PICK y \in Nat, z \in Nat : y = k * s /\ z = c * s
      OBVIOUS
    <2>3. s * q = y + z /\ (i - 1) * s = y
      BY <2>1, <2>2
    <2> QED BY <1>1, <1>2, <1>3, <1>5, <2>2, <2>3 DEF Want
  <1>8. ASSUME NEW i \in 1..RampLast
        PROVE  Want(i + 1) = Want(i) + RampStep
    <2>1. PICK k \in Nat : i = k + 1
      <3>1. i - 1 \in Nat /\ i = (i - 1) + 1
        BY <1>5
      <3> QED BY <3>1
    <2>2. PICK y \in Nat : y = k * s
      OBVIOUS
    <2>3. (i - 1) * s = y /\ ((i + 1) - 1) * s = y + s
      BY <2>1, <2>2
    <2> QED BY <1>1, <1>3, <2>2, <2>3 DEF Want
  <1>9. ASSUME NEW i \in 1..(RampLast + 1)
        PROVE  \E d \in Divisors : Usable(Want(i), d)
    <2>1. PICK k \in 0..((RampTo - RampFrom) \div RampStep) : k = i - 1
      BY <1>5 DEF RampLast
    <2>2. \E d \in Divisors : Usable(RampFrom + k * RampStep, d)
      BY <1>1
    <2> QED BY <2>1, <2>2 DEF Want
  <1> QED BY <1>1, <1>5, <1>6, <1>7, <1>8, <1>9

\* From a setting to the next step's the clock rises, by less than two steps.
LEMMA ClockRises ==
    ASSUME NEW f \in Nat, NEW s \in Nat, s > 8, NEW c \in Divisors, NEW d \in Divisors,
           Usable(f, c), Usable(f + s, d)
    PROVE  LET a == 100 * Pll(f + s, d).fb * Pll(f, c).div
               b == 100 * Pll(f, c).fb * Pll(f + s, d).div
           IN  a > b /\ a - b < 2 * s * Pll(f + s, d).div * Pll(f, c).div
  <1>1. PICK p \in Nat \ {0}, q \in Nat \ {0} : p = Div(c) /\ q = Div(d)
    BY DivisorsAre
  <1>2. PICK x \in Nat, y \in Nat : x = FbDiv(f, c) /\ y = FbDiv(f + s, d)
    <2>1. f + s \in Nat
      OBVIOUS
    <2>2. FbDiv(f, c) \in 0..255
      BY FeedbackIs
    <2>3. FbDiv(f + s, d) \in 0..255
      BY <2>1, FeedbackIs
    <2>4. 0..255 \subseteq Nat
      OBVIOUS
    <2> QED BY <2>2, <2>3, <2>4
  <1>3. PICK u \in Int, m \in Nat : u = 100 * x - m /\ m = f * p
    <2>1. PICK w \in Nat : w = f * p
      OBVIOUS
    <2>2. 100 * x - w \in Int
      OBVIOUS
    <2> QED BY <2>1, <2>2
  <1>4. PICK v \in Int, n \in Nat : v = 100 * y - n /\ n = (f + s) * q
    <2>1. PICK w \in Nat : w = (f + s) * q
      OBVIOUS
    <2>2. 100 * y - w \in Int
      OBVIOUS
    <2> QED BY <2>1, <2>2
  <1>5. -(4 * p) < u /\ u < 4 * p
    <2>1. Abs(u) < 4 * p
      BY <1>1, <1>2, <1>3 DEF Usable
    <2> QED BY <2>1, DistanceIs
  <1>6. -(4 * q) < v /\ v < 4 * q
    <2>1. Abs(v) < 4 * q
      BY <1>1, <1>2, <1>4 DEF Usable
    <2> QED BY <2>1, DistanceIs
  <1>7. PICK k \in Nat, l \in Nat, g \in Nat, h \in Nat :
            /\ v + 4 * q = k + 1 /\ v + l + 1 = 4 * q /\ u + 4 * p = g + 1 /\ u + h + 1 = 4 * p
    <2>1. v + 4 * q - 1 \in Nat /\ 4 * q - v - 1 \in Nat /\ u + 4 * p - 1 \in Nat /\ 4 * p - u - 1 \in Nat
      BY <1>5, <1>6
    <2>2. /\ v + 4 * q = (v + 4 * q - 1) + 1 /\ v + (4 * q - v - 1) + 1 = 4 * q
          /\ u + 4 * p = (u + 4 * p - 1) + 1 /\ u + (4 * p - u - 1) + 1 = 4 * p
      OBVIOUS
    <2> QED BY <2>1, <2>2
  \* a - b = s p q + v p - u q.
  <1>8. PICK pq \in Nat \ {0}, kp \in Nat, lp \in Nat, gq \in Nat, hq \in Nat, vp \in Int, uq \in Int :
            /\ pq = p * q /\ kp = k * p /\ lp = l * p /\ gq = g * q /\ hq = h * q
            /\ vp = v * p /\ uq = u * q
    <2>1. p * q \in Nat \ {0}
      BY DivideTwice DEF Prod
    <2>2. k * p \in Nat /\ l * p \in Nat /\ g * q \in Nat /\ h * q \in Nat /\ v * p \in Int /\ u * q \in Int
      OBVIOUS
    <2> QED BY <2>1, <2>2
  <1>9. /\ vp + 4 * pq = kp + p /\ vp + lp + p = 4 * pq
        /\ uq + 4 * pq = gq + q /\ uq + hq + q = 4 * pq
    <2>1. (v + 4 * q) * p = vp + 4 * pq /\ (k + 1) * p = kp + p
      BY <1>8
    <2>2. (v + l + 1) * p = vp + lp + p /\ (4 * q) * p = 4 * pq
      BY <1>8
    <2>3. (u + 4 * p) * q = uq + 4 * pq /\ (g + 1) * q = gq + q
      BY <1>8
    <2>4. (u + h + 1) * q = uq + hq + q /\ (4 * p) * q = 4 * pq
      BY <1>8
    <2> QED BY <1>7, <2>1, <2>2, <2>3, <2>4
  <1>10. PICK z \in Nat, t \in Nat : z = f * pq /\ t = s * pq
    OBVIOUS
  <1>11. 100 * y * p = vp + z + t /\ 100 * x * q = uq + z
    <2>1. 100 * y = v + n /\ 100 * x = u + m
      BY <1>3, <1>4
    <2>2. (v + n) * p = vp + n * p /\ (u + m) * q = uq + m * q
      BY <1>8
    <2>3. n * p = z + t /\ m * q = z
      BY <1>3, <1>4, <1>8, <1>10
    <2> QED BY <2>1, <2>2, <2>3
  <1>12. t > 8 * pq /\ 2 * s * q * p = 2 * t
    <2>1. PICK e \in Nat : s = 9 + e
      <3>1. s - 9 \in Nat /\ s = 9 + (s - 9)
        OBVIOUS
      <3> QED BY <3>1
    <2>2. PICK w \in Nat : w = e * pq
      OBVIOUS
    <2>3. t = 9 * pq + w
      BY <1>10, <2>1, <2>2
    <2>4. 2 * s * q * p = 2 * (s * (p * q))
      OBVIOUS
    <2> QED BY <1>8, <1>10, <2>2, <2>3, <2>4
  <1>13. vp + z + t > uq + z /\ (vp + z + t) - (uq + z) < 2 * t
    BY <1>9, <1>12
  <1>14. /\ Pll(f + s, d).fb = y /\ Pll(f + s, d).div = q
         /\ Pll(f, c).fb = x /\ Pll(f, c).div = p
    BY <1>1, <1>2 DEF Pll
  <1> QED BY <1>11, <1>12, <1>13, <1>14

LEMMA RampSmooth == RampKept => RampIsSmooth
  <1> SUFFICES ASSUME RampKept PROVE RampIsSmooth
    BY SMTT(30)
  <1>1. PICK n \in Nat : n = Len(plls) /\ n <= RampLast + 1 /\ DOMAIN plls = 1..n
    <2>1. PICK l \in Nat : l = RampLast
      BY RampNumbers
    <2>2. Len(plls) \in 0..(l + 1) /\ DOMAIN plls = 1..Len(plls)
      BY <2>1 DEF RampKept
    <2>3. Len(plls) \in Nat /\ Len(plls) <= l + 1
      BY <2>2
    <2> QED BY <2>1, <2>2, <2>3
  <1>2. \A i \in 1..n : \E d \in Divisors : Usable(Want(i), d) /\ plls[i] = Pll(Want(i), d)
    BY <1>1 DEF RampKept
  <1>3. ASSUME NEW i \in DOMAIN plls
        PROVE  LET want == IF RampFrom + (i - 1) * RampStep > RampTo THEN RampTo
                           ELSE RampFrom + (i - 1) * RampStep
               IN  Abs(100 * plls[i].fb - want * plls[i].div) < 4 * plls[i].div
    <2>1. PICK d \in Divisors : Usable(Want(i), d) /\ plls[i] = Pll(Want(i), d)
      BY <1>1, <1>2
    <2>2. i \in 1..(RampLast + 1)
      BY <1>1, RampNumbers
    <2>3. ~(RampFrom + (i - 1) * RampStep > RampTo) /\ RampFrom + (i - 1) * RampStep = Want(i)
      <3>1. Want(i) \in Nat /\ Want(i) <= RampTo /\ RampTo \in Nat
        BY <2>2, RampNumbers
      <3>2. RampFrom + (i - 1) * RampStep = Want(i)
        BY DEF Want
      <3>3. ~(Want(i) > RampTo)
        BY <3>1
      <3> QED BY <3>2, <3>3, Zenon
    <2>4. plls[i].fb = FbDiv(Want(i), d) /\ plls[i].div = Div(d)
      BY <2>1 DEF Pll
    <2>5. Abs(100 * plls[i].fb - Want(i) * plls[i].div) < 4 * plls[i].div
      BY <2>1, <2>4 DEF Usable
    <2> QED BY <2>3, <2>5, Zenon
  <1>4. ASSUME NEW i \in DOMAIN plls, i > 1
        PROVE  LET a == 100 * plls[i].fb * plls[i - 1].div
                   b == 100 * plls[i - 1].fb * plls[i].div
               IN  a > b /\ a - b < 2 * RampStep * plls[i].div * plls[i - 1].div
    <2>1. PICK k \in 1..RampLast : i = k + 1 /\ k \in 1..n
      <3>1. i - 1 \in 1..RampLast /\ i = (i - 1) + 1 /\ i - 1 \in 1..n
        BY <1>1, <1>4, RampNumbers, SMTT(30)
      <3> QED BY <3>1
    <2>2. PICK f \in Nat : f = Want(k) /\ Want(i) = f + RampStep
      <3>1. k \in 1..(RampLast + 1)
        BY <2>1, RampNumbers
      <3> QED BY <2>1, <3>1, RampNumbers
    <2>3. PICK c \in Divisors : Usable(f, c) /\ plls[k] = Pll(f, c)
      BY <1>2, <2>1, <2>2
    <2>4. PICK d \in Divisors : Usable(f + RampStep, d) /\ plls[i] = Pll(f + RampStep, d)
      BY <1>1, <1>2, <2>2
    <2>5. i - 1 = k
      BY <2>1
    <2>6. PICK s \in Nat : s = RampStep /\ s > 8
      BY RampNumbers
    <2>7. LET a == 100 * Pll(f + s, d).fb * Pll(f, c).div
              b == 100 * Pll(f, c).fb * Pll(f + s, d).div
          IN  a > b /\ a - b < 2 * s * Pll(f + s, d).div * Pll(f, c).div
      BY <2>3, <2>4, <2>6, ClockRises
    <2> QED BY <2>3, <2>4, <2>5, <2>6, <2>7, Zenon
  <1>5. ASSUME ramp > RampFrom
        PROVE  Len(plls) = (ramp - RampFrom + RampStep - 1) \div RampStep
    <2>1. ramp = 0 \/ ramp = RampFrom + n * RampStep
      BY <1>1 DEF RampKept, Want
    <2>2. PICK s \in Nat \ {0} : s = RampStep
      BY RampNumbers
    <2>3. PICK y \in Nat : y = s * n
      OBVIOUS
    <2>4. ramp = RampFrom + y
      BY <1>5, <2>1, <2>2, <2>3, RampNumbers
    <2>5. PICK z \in Nat : z = s - 1
      OBVIOUS
    <2>6. (s * n + z) \div s = n
      BY <2>5, Quotient
    <2>7. ramp - RampFrom + RampStep - 1 = s * n + z
      BY <2>2, <2>3, <2>4, <2>5, RampNumbers
    <2> QED BY <1>1, <2>2, <2>6, <2>7, Zenon
  <1> QED BY <1>3, <1>4, <1>5 DEF RampIsSmooth

LEMMA RampSteps == RampKept /\ [ChipNext]_chipVars => RampKept'
  <1> SUFFICES ASSUME RampKept, [ChipNext]_chipVars PROVE RampKept'
    OBVIOUS
  <1>1. CASE UNCHANGED <<ramp, plls>>
    BY <1>1 DEF RampKept
  <1>2. CASE RampSend
    <2>1. PICK n \in 0..RampLast : n = Len(plls) /\ DOMAIN plls = 1..n /\ ramp = Want(n + 1)
      <3>1. ramp # 0
        BY <1>2 DEF RampSend
      <3>2. PICK l \in Nat : l = RampLast
        BY RampNumbers
      <3>3. /\ Len(plls) \in 0..(l + 1) /\ DOMAIN plls = 1..Len(plls)
            /\ ramp = Want(Len(plls) + 1) /\ Len(plls) <= l
        BY <3>1, <3>2 DEF RampKept
      <3>4. Len(plls) \in 0..l
        BY <3>3
      <3> QED BY <3>2, <3>3, <3>4
    <2>2. PICK d \in Divisors : Usable(ramp, d) /\ CalculatePll(ramp) = <<Pll(ramp, d)>>
      <3>1. n + 1 \in 1..(RampLast + 1)
        BY RampNumbers
      <3>2. \E c \in Divisors : Usable(ramp, c)
        BY <2>1, <3>1, RampNumbers
      <3> QED BY <3>2, SearchFinds
    <2>3. plls' = plls \o <<Pll(ramp, d)>>
      BY <1>2, <2>2 DEF RampSend
    <2>4. /\ DOMAIN plls' = 1..(n + 1) /\ Len(plls') = n + 1
          /\ \A i \in 1..n : plls'[i] = plls[i]
          /\ plls'[n + 1] = Pll(ramp, d)
      BY <2>1, <2>3
    <2>5. ASSUME NEW i \in 1..(n + 1)
          PROVE  \E c \in Divisors : Usable(Want(i), c) /\ plls'[i] = Pll(Want(i), c)
      <3>1. CASE i \in 1..n
        BY <2>1, <2>4, <3>1 DEF RampKept
      <3>2. CASE i = n + 1
        BY <2>1, <2>2, <2>4, <3>2
      <3> QED BY <3>1, <3>2
    <2>6. ASSUME ramp' # 0 PROVE ramp' = Want((n + 1) + 1) /\ n + 1 <= RampLast
      <3>1. ~(ramp >= RampTo)
        BY <1>2, <2>6 DEF RampSend
      <3>2. n # RampLast
        BY <2>1, <3>1, RampNumbers
      <3>3. n + 1 \in 1..RampLast /\ (n + 1) + 1 \in 1..(RampLast + 1)
        BY <3>2, RampNumbers
      <3>4. /\ Want((n + 1) + 1) = Want(n + 1) + RampStep /\ Want((n + 1) + 1) <= RampTo
            /\ Want((n + 1) + 1) \in Nat
        BY <3>3, RampNumbers
      <3>5. ~(ramp + RampStep > RampTo)
        BY <2>1, <3>4, RampNumbers
      <3> QED BY <1>2, <2>1, <3>1, <3>3, <3>4, <3>5 DEF RampSend
    <2>7. Len(plls') \in 0..(RampLast + 1)
      <3>1. PICK l \in Nat : l = RampLast
        BY RampNumbers
      <3>2. n + 1 \in 0..(l + 1)
        BY <3>1
      <3> QED BY <2>4, <3>1, <3>2
    <2>8. DOMAIN plls' = 1..Len(plls')
          /\ \A i \in 1..Len(plls') : \E c \in Divisors : Usable(Want(i), c) /\ plls'[i] = Pll(Want(i), c)
      BY <2>4, <2>5
    <2>9. ramp' # 0 => ramp' = Want(Len(plls') + 1) /\ Len(plls') <= RampLast
      BY <2>4, <2>6
    <2> QED BY <2>7, <2>8, <2>9 DEF RampKept
  <1> QED BY <1>1, <1>2 DEF ChipNext, chipVars, Decode, ReadChunk

-----------------------------------------------------------------------------
(* What the chips are told.                                                *)

ChipInputs ==
    /\ chipIn.kind = "register" => chipIn.r \in Registers
    /\ chipIn.kind = "command" => chipIn.c \in Commands
    /\ chipIn.kind = "difficulty" => chipIn.d \in 1..(2^WorkBits - 1)
    /\ chipIn.kind = "frequency" => chipIn.f \in Nat

LEMMA InputsMeant == ChipInputs => RegistersRoundTrip /\ CommandsWellFormed /\ TicketMaskLoses /\ SearchesAgree
  <1> SUFFICES ASSUME ChipInputs
               PROVE  RegistersRoundTrip /\ CommandsWellFormed /\ TicketMaskLoses /\ SearchesAgree
    OBVIOUS
  <1>1. RegistersRoundTrip
    BY RegistersKeep DEF ChipInputs, RegistersRoundTrip
  <1>2. CommandsWellFormed
    <2> SUFFICES ASSUME chipIn.kind = "command" PROVE CommandsWellFormed
      BY Zenon DEF CommandsWellFormed
    <2>1. chipIn.c \in Commands
      BY DEF ChipInputs
    <2>2. TotalLen(chipIn.c) = LayoutSum(Layout(chipIn.c)) + CrcLen(chipIn.c)
      BY <2>1, CommandsKeep
    <2>3. chipIn.c.cmd \in {"full", "midstate"} =>
             \A core \in 0..15 :
                ResponseJobId(ResultHeader(JobHeader(chipIn.c.id), core)) = chipIn.c.id
      BY <2>1, CommandsKeep
    <2>4. TotalLen(chipIn.c) = FoldSeq(+, 2, Layout(chipIn.c)) + CrcLen(chipIn.c)
      BY <2>2, Zenon DEF LayoutSum
    <2> QED BY <2>3, <2>4, Zenon DEF CommandsWellFormed
  <1>3. TicketMaskLoses
    BY TicketsCounted, Zenon DEF ChipInputs, TicketMaskLoses
  <1>4. SearchesAgree
    BY SearchesMeet, Zenon DEF ChipInputs, SearchesAgree
  <1> QED BY <1>1, <1>2, <1>3, <1>4

\* Registers, jobs, the ticket mask and the clock are told as they are meant
\* (protocol.rs:287, :558, thread.rs:537), for half-bytes and hashes of any size,
\* any raw register value, any difficulty and any ramp its settings reach.
THEOREM ChipsAreToldRight == ChipSpec => []ChipFormatsRight
  <1>1. ChipInit => RampKept /\ ChipInputs
    <2> SUFFICES ASSUME ChipInit PROVE RampKept /\ ChipInputs
      OBVIOUS
    <2>1. plls = <<>> /\ (ramp = 0 \/ ramp = RampFrom)
      BY DEF ChipInit
    <2>2. RampKept
      <3>1. Want(1) = RampFrom /\ RampLast \in Nat /\ RampFrom \in Nat
        BY RampNumbers DEF Want
      <3> QED BY <2>1, <3>1 DEF RampKept
    <2>3. Frequencies \subseteq Nat
      BY ChipProtocolConstants, SMTT(30)
    <2>4. ChipInputs
      BY <2>3 DEF ChipInit, ChipInputs
    <2> QED BY <2>2, <2>4
  <1>2. RampKept /\ ChipInputs /\ [ChipNext]_chipVars => (RampKept /\ ChipInputs)'
    <2> SUFFICES ASSUME RampKept, ChipInputs, [ChipNext]_chipVars PROVE (RampKept /\ ChipInputs)'
      OBVIOUS
    <2>1. RampKept'
      BY RampSteps
    <2>2. chipIn' = chipIn
      BY DEF ChipNext, chipVars, Decode, ReadChunk, RampSend
    <2>3. ChipInputs'
      BY <2>2 DEF ChipInputs
    <2> QED BY <2>1, <2>3
  <1>3. RampKept /\ ChipInputs => ChipFormatsRight
    BY InputsMeant, RampSmooth DEF ChipFormatsRight
  <1> QED BY <1>1, <1>2, <1>3, PTL DEF ChipSpec

-----------------------------------------------------------------------------
(* What the pool encodes.                                                  *)

LEMMA PoolBase ==
    /\ PoolByte \in Nat /\ PoolByte >= 16 /\ ByteBits \in 4..8 /\ PoolByte = 2^ByteBits
    /\ Width \in Nat \ {0}
    /\ 2^0 = 1 /\ PoolByte^0 = 1
    /\ \A n \in 0..12 \cup 0..(ByteBits * Width) : 2^(n + 1) = 2 * 2^n
    /\ \A n \in 0..3 \cup 0..(Width - 1) : PoolByte^(n + 1) = PoolByte * PoolByte^n
  <1>1. /\ ByteBits \in 4..8 /\ PoolByte = 2^ByteBits /\ Width \in Nat \ {0}
        /\ 2^0 = 1 /\ PoolByte^0 = 1
        /\ \A n \in 0..12 \cup 0..(ByteBits * Width) : 2^(n + 1) = 2 * 2^n
        /\ \A n \in 0..3 \cup 0..(Width - 1) : PoolByte^(n + 1) = PoolByte * PoolByte^n
    BY PoolConstants
  <1>2. 2^1 = 2 /\ 2^2 = 4 /\ 2^3 = 8 /\ 2^4 = 16 /\ 2^5 = 32 /\ 2^6 = 64 /\ 2^7 = 128 /\ 2^8 = 256
    <2>1. /\ 2^(0 + 1) = 2 * 2^0 /\ 2^(1 + 1) = 2 * 2^1 /\ 2^(2 + 1) = 2 * 2^2 /\ 2^(3 + 1) = 2 * 2^3
          /\ 2^(4 + 1) = 2 * 2^4 /\ 2^(5 + 1) = 2 * 2^5 /\ 2^(6 + 1) = 2 * 2^6 /\ 2^(7 + 1) = 2 * 2^7
      BY <1>1
    <2> QED BY <1>1, <2>1
  <1>3. ByteBits = 4 \/ ByteBits = 5 \/ ByteBits = 6 \/ ByteBits = 7 \/ ByteBits = 8
    BY <1>1
  <1>4. PoolByte \in Nat /\ PoolByte >= 16
    <2>1. CASE ByteBits = 4
      <3>1. PoolByte = 16
        BY <1>1, <1>2, <2>1, Zenon
      <3> QED BY <3>1
    <2>2. CASE ByteBits = 5
      <3>1. PoolByte = 32
        BY <1>1, <1>2, <2>2, Zenon
      <3> QED BY <3>1
    <2>3. CASE ByteBits = 6
      <3>1. PoolByte = 64
        BY <1>1, <1>2, <2>3, Zenon
      <3> QED BY <3>1
    <2>4. CASE ByteBits = 7
      <3>1. PoolByte = 128
        BY <1>1, <1>2, <2>4, Zenon
      <3> QED BY <3>1
    <2>5. CASE ByteBits = 8
      <3>1. PoolByte = 256
        BY <1>1, <1>2, <2>5, Zenon
      <3> QED BY <3>1
    <2> QED BY <1>3, <2>1, <2>2, <2>3, <2>4, <2>5
  <1> QED BY <1>1, <1>4

\* What holds of zero, and of the successor of what it holds of, holds up to n.
LEMMA NatClimb ==
    ASSUME NEW n \in Nat, NEW S, 0 \in S, \A i \in 0..(n - 1) : i \in S => i + 1 \in S
    PROVE  \A i \in 0..n : i \in S
  <1> DEFINE off == {i \in 0..n : i \notin S}
  <1>1. off = {}
    <2> SUFFICES ASSUME off # {} PROVE FALSE
      OBVIOUS
    <2>1. PICK m \in off : \A k \in off : m <= k
      <3>1. off \subseteq Nat
        OBVIOUS
      <3> HIDE DEF off
      <3> QED BY <3>1, NatMin
    <2>2. m # 0
      OBVIOUS
    <2>3. m - 1 \in 0..(n - 1) /\ m - 1 \in 0..n /\ (m - 1) + 1 = m /\ ~(m <= m - 1)
      BY <2>2
    <2>4. m - 1 \in S
      BY <2>1, <2>3
    <2> QED BY <2>3, <2>4
  <1> QED BY <1>1

\* A function on 0..n made step by step.
Steps(g, n, v0, F) == g[0] = v0 /\ \A i \in 1..n : g[i] = F[i][g[i - 1]]

LEMMA Recursion ==
    ASSUME NEW n \in Nat, NEW V, NEW v0 \in V, NEW F \in [1..n -> [V -> V]]
    PROVE  \E g \in [0..n -> V] : Steps(g, n, v0, F)
  <1> DEFINE bad == {k \in 0..n : ~ \E g \in [0..k -> V] :
                                      g[0] = v0 /\ \A i \in 1..k : g[i] = F[i][g[i - 1]]}
  <1>1. bad = {}
    <2> SUFFICES ASSUME bad # {} PROVE FALSE
      OBVIOUS
    <2>1. bad \subseteq Nat
      OBVIOUS
    <2>2. PICK m \in bad : \A k \in bad : m <= k
      <3> HIDE DEF bad
      <3> QED BY <2>1, NatMin
    <2>3. PICK k \in 0..(n - 1) : m = k + 1
      <3>1. m # 0
        <4> DEFINE z == [i \in 0..0 |-> v0]
        <4>1. z \in [0..0 -> V] /\ z[0] = v0 /\ \A i \in 1..0 : z[i] = F[i][z[i - 1]]
          OBVIOUS
        <4>2. 0 \notin bad
          BY <4>1
        <4> HIDE DEF bad
        <4> QED BY <4>2
      <3>2. m - 1 \in 0..(n - 1) /\ m = (m - 1) + 1
        BY <3>1
      <3> QED BY <3>2
    <2>4. k \notin bad /\ k \in 0..n
      <3>1. ~(m <= k) /\ k \in 0..n
        BY <2>3
      <3> HIDE DEF bad
      <3> QED BY <2>2, <3>1
    <2>5. PICK g \in [0..k -> V] : g[0] = v0 /\ \A i \in 1..k : g[i] = F[i][g[i - 1]]
      BY <2>4
    <2> DEFINE h == [i \in 0..(k + 1) |-> IF i <= k THEN g[i] ELSE F[k + 1][g[k]]]
    <2>6. F[k + 1][g[k]] \in V
      <3>1. k + 1 \in 1..n /\ g[k] \in V
        BY <2>3, <2>5
      <3> QED BY <3>1
    <2>7. h \in [0..(k + 1) -> V]
      BY <2>5, <2>6
    <2>8. (\A i \in 0..k : h[i] = g[i]) /\ h[k + 1] = F[k + 1][g[k]]
      BY <2>3
    <2> HIDE DEF h
    <2>9. \A i \in 1..(k + 1) : h[i] = F[i][h[i - 1]]
      <3> TAKE i \in 1..(k + 1)
      <3>1. CASE i <= k
        <4>1. i \in 1..k /\ i - 1 \in 0..k /\ i \in 0..k
          BY <2>3, <3>1
        <4> QED BY <2>5, <2>8, <4>1
      <3>2. CASE ~(i <= k)
        <4>1. i = k + 1 /\ (k + 1) - 1 = k /\ k \in 0..k
          BY <2>3, <3>2
        <4> QED BY <2>8, <4>1
      <3> QED BY <3>1, <3>2
    <2>10. h[0] = v0
      BY <2>3, <2>5, <2>8
    <2>11. m \notin bad
      BY <2>3, <2>7, <2>9, <2>10
    <2> QED BY <2>11
  <1>2. n \notin bad /\ n \in 0..n
    <2> HIDE DEF bad
    <2> QED BY <1>1
  <1>3. PICK g \in [0..n -> V] : g[0] = v0 /\ \A i \in 1..n : g[i] = F[i][g[i - 1]]
    BY <1>2
  <1> QED BY <1>3 DEF Steps

LEMMA ArrayLength ==
    ASSUME NEW n \in Nat, NEW S, NEW f \in [1..n -> S]
    PROVE  f \in Seq(S) /\ Len(f) = n
  OBVIOUS

\* The value of bytes, digit by digit.
Values(s, b, n) == s[0] = 0 /\ \A i \in 1..n : s[i] = s[i - 1] * PoolByte + b[i]

LEMMA ValueSteps ==
    ASSUME NEW n \in Nat, NEW b, Len(b) = n, \A i \in 1..n : b[i] \in Nat
    PROVE  \E s \in [0..n -> Nat] : Values(s, b, n) /\ BeValue(b) = s[n]
  <1>1. PICK p \in Nat : p = PoolByte
    BY PoolBase
  <1> DEFINE F == [i \in 1..n |-> [x \in Nat |-> x * p + b[i]]]
  <1>2. F \in [1..n -> [Nat -> Nat]]
    <2>1. ASSUME NEW i \in 1..n, NEW x \in Nat PROVE x * p + b[i] \in Nat
      <3>1. PICK y \in Nat : y = x * p
        OBVIOUS
      <3> QED BY <3>1
    <2> QED BY <2>1
  <1>3. \A i \in 1..n : \A x \in Nat : F[i][x] = x * p + b[i]
    OBVIOUS
  <1> HIDE DEF F
  <1>4. PICK g \in [0..n -> Nat] : g[0] = 0 /\ \A i \in 1..n : g[i] = F[i][g[i - 1]]
    <2>1. \E g \in [0..n -> Nat] : Steps(g, n, 0, F)
      BY <1>2, Recursion
    <2> QED BY <2>1, Zenon DEF Steps
  <1>5. \A i \in 1..n : g[i] = g[i - 1] * p + b[i]
    <2> TAKE i \in 1..n
    <2>1. g[i - 1] \in Nat
      OBVIOUS
    <2> QED BY <1>3, <1>4, <2>1
  <1> DEFINE Body(f) == [i \in 0..n |-> IF i = 0 THEN 0 ELSE f[i - 1] * p + b[i]]
             s == CHOOSE f : f = Body(f)
  <1>6. g = Body(g)
    <2>1. \A i \in 0..n : g[i] = IF i = 0 THEN 0 ELSE g[i - 1] * p + b[i]
      <3> TAKE i \in 0..n
      <3>1. i = 0 \/ i \in 1..n
        OBVIOUS
      <3> QED BY <1>4, <1>5, <3>1
    <2>2. g = [i \in 0..n |-> g[i]]
      OBVIOUS
    <2> QED BY <2>1, <2>2
  <1>7. s = Body(s)
    <2> HIDE DEF Body
    <2> QED BY <1>6
  <1>8. BeValue(b) = s[n]
    BY <1>1 DEF BeValue
  <1> HIDE DEF s
  <1>9. s[0] = 0 /\ DOMAIN s = 0..n /\ \A i \in 1..n : s[i] = s[i - 1] * p + b[i]
    <2>1. s = [i \in 0..n |-> IF i = 0 THEN 0 ELSE s[i - 1] * p + b[i]]
      BY <1>7
    <2>2. ASSUME NEW i \in 1..n PROVE s[i] = s[i - 1] * p + b[i]
      <3>1. i \in 0..n /\ i # 0
        OBVIOUS
      <3> QED BY <2>1, <3>1, Zenon
    <2>3. 0 \in 0..n
      OBVIOUS
    <2> QED BY <2>1, <2>2, <2>3, Zenon
  <1>10. s \in [0..n -> Nat]
    <2> DEFINE S == {i \in 0..n : s[i] \in Nat}
    <2>1. 0 \in S
      BY <1>9
    <2>4. ASSUME NEW i \in 0..(n - 1), i \in S PROVE i + 1 \in S
      <3>1. i + 1 \in 1..n /\ (i + 1) - 1 = i
        OBVIOUS
      <3>2. PICK x \in Nat, y \in Nat : x = b[i + 1] /\ y = s[i] * p
        <4>1. PICK z \in Nat : z = s[i]
          BY <2>4
        <4>2. z * p \in Nat /\ b[i + 1] \in Nat
          BY <3>1
        <4> QED BY <4>1, <4>2
      <3>3. s[i + 1] = y + x
        BY <1>9, <3>1, <3>2
      <3> QED BY <3>2, <3>3, SMTT(30)
    <2>2. \A i \in 0..n : s[i] \in Nat
      <3>1. \A i \in 0..n : i \in S
        <4> HIDE DEF S
        <4> QED BY <2>1, <2>4, NatClimb
      <3> QED BY <3>1
    <2>3. s = [i \in 0..n |-> s[i]]
      BY <1>7
    <2> QED BY <2>2, <2>3
  <1>11. Values(s, b, n)
    BY <1>1, <1>9, Zenon DEF Values
  <1> QED BY <1>8, <1>10, <1>11

\* A quotient by a quotient's own divisor comes back within one unit.
LEMMA TargetsRound ==
    ASSUME NEW a \in Nat, NEW f \in Nat, NEW d \in Nat \ {0}
    PROVE  LET t == (a \div d) * f + ((a % d) * f) \div d
           IN  t \in Nat /\ t * d <= a * f /\ (t + 1) * d > a * f
  <1>1. PICK q \in Nat, r \in Nat : q = a \div d /\ r = a % d /\ r < d /\ a = d * q + r
    BY Division
  <1>2. PICK x \in Nat, y \in Nat : x = r * f /\ y = q * f
    OBVIOUS
  <1>3. PICK u \in Nat, v \in Nat : u = x \div d /\ v = x % d /\ v < d /\ x = d * u + v
    BY Division
  <1>4. a * f = y * d + x
    <2>1. a * f = (d * q + r) * f
      BY <1>1
    <2>2. (d * q + r) * f = (q * f) * d + r * f
      OBVIOUS
    <2> QED BY <1>2, <2>1, <2>2
  <1>5. (y + u) * d = a * f - v /\ ((y + u) + 1) * d = a * f - v + d
    <2>1. (y + u) * d = y * d + d * u /\ ((y + u) + 1) * d = y * d + d * u + d
      OBVIOUS
    <2>2. PICK yd \in Nat, du \in Nat, af \in Nat : yd = y * d /\ du = d * u /\ af = a * f
      OBVIOUS
    <2> QED BY <1>3, <1>4, <2>1, <2>2
  <1>6. (a \div d) * f + ((a % d) * f) \div d = y + u
    BY <1>1, <1>2, <1>3
  <1>7. PICK t \in Nat, af \in Nat : t = y + u /\ af = a * f
    OBVIOUS
  <1>8. t * d <= af /\ (t + 1) * d > af
    BY <1>3, <1>5, <1>7
  <1> QED BY <1>6, <1>7, <1>8, Zenon

LEMMA TargetsHard == (fmt # Empty /\ fmt.kind = "diff" => fmt.d \in Nat) => TargetNeverEasier
  <1> SUFFICES ASSUME fmt # Empty, fmt.kind = "diff", fmt.d > 0, fmt.d \in Nat
               PROVE  /\ TargetOf(fmt.d) * fmt.d <= Diff1 * Fraction
                      /\ (TargetOf(fmt.d) + 1) * fmt.d > Diff1 * Fraction
    BY DEF TargetNeverEasier
  <1>1. PICK d \in Nat \ {0} : d = fmt.d
    OBVIOUS
  <1>2. Diff1 \in Nat /\ Fraction \in Nat
    BY PoolConstants
  <1>3. TargetOf(d) = (Diff1 \div d) * Fraction + ((Diff1 % d) * Fraction) \div d
    <2>1. ~(d < 1)
      BY <1>1
    <2> QED BY <2>1, Zenon DEF TargetOf, DiffToTarget
  <1>4. TargetOf(d) * d <= Diff1 * Fraction /\ (TargetOf(d) + 1) * d > Diff1 * Fraction
    BY <1>2, <1>3, TargetsRound, Zenon
  <1> QED BY <1>1, <1>4

-----------------------------------------------------------------------------
(* Powers.                                                                 *)

LEMMA PoolPowers ==
    /\ \A k \in 0..(ByteBits * Width + 1) : 2^k \in Nat \ {0}
    /\ \A k \in 0..Width : PoolByte^k \in Nat \ {0}
    /\ \A k \in 0..4 : PoolByte^k \in Nat \ {0}
  <1>1. PICK w \in Nat \ {0}, b \in Nat, t \in Nat :
            w = Width /\ b = PoolByte /\ t = ByteBits * Width /\ b >= 16
    <2>1. ByteBits \in 4..8 /\ Width \in Nat /\ PoolByte \in Nat
      BY PoolBase
    <2>2. ByteBits * Width \in Nat
      BY <2>1
    <2> QED BY <2>2, PoolBase
  <1>2. \A k \in 0..(t + 1) : 2^k \in Nat \ {0}
    <2> DEFINE S == {k \in 0..(t + 1) : 2^k \in Nat \ {0}}
    <2>1. 0 \in S
      BY PoolBase
    <2>2. ASSUME NEW i \in 0..((t + 1) - 1), i \in S PROVE i + 1 \in S
      <3>1. i \in 0..t /\ i + 1 \in 0..(t + 1)
        OBVIOUS
      <3>2. 2^(i + 1) = 2 * 2^i
        BY <1>1, <3>1, PoolBase
      <3>3. PICK x \in Nat \ {0} : x = 2^i
        BY <2>2
      <3>4. 2^(i + 1) \in Nat \ {0}
        BY <3>2, <3>3
      <3> QED BY <3>1, <3>4
    <2>3. \A i \in 0..(t + 1) : i \in S
      <3> HIDE DEF S
      <3>1. t + 1 \in Nat
        OBVIOUS
      <3> QED BY <2>1, <2>2, <3>1, NatClimb
    <2> QED BY <2>3
  <1>3. ASSUME NEW n \in Nat, \A i \in 0..(n - 1) : b^(i + 1) = b * b^i
        PROVE  \A k \in 0..n : b^k \in Nat \ {0}
    <2> DEFINE S == {k \in 0..n : b^k \in Nat \ {0}}
    <2>1. 0 \in S
      BY <1>1, PoolBase
    <2>2. ASSUME NEW i \in 0..(n - 1), i \in S PROVE i + 1 \in S
      <3>1. i + 1 \in 0..n /\ b^(i + 1) = b * b^i
        BY <1>3
      <3>2. PICK x \in Nat \ {0} : x = b^i
        BY <2>2
      <3>3. b * x \in Nat \ {0}
        BY <1>1
      <3>4. b^(i + 1) \in Nat \ {0}
        BY <3>1, <3>2, <3>3, Zenon
      <3> QED BY <3>1, <3>4
    <2>3. \A i \in 0..n : i \in S
      <3> HIDE DEF S
      <3> QED BY <2>1, <2>2, NatClimb
    <2> QED BY <2>3
  <1>4. \A k \in 0..w : b^k \in Nat \ {0}
    <2>1. w \in Nat /\ \A i \in 0..(w - 1) : b^(i + 1) = b * b^i
      BY <1>1, PoolBase
    <2> QED BY <1>3, <2>1
  <1>5. \A k \in 0..4 : b^k \in Nat \ {0}
    <2>1. 4 \in Nat /\ \A i \in 0..(4 - 1) : b^(i + 1) = b * b^i
      BY <1>1, PoolBase
    <2> QED BY <1>3, <2>1
  <1> QED BY <1>1, <1>2, <1>4, <1>5

LEMMA PowersOfSum ==
    ASSUME NEW a \in Nat, NEW c \in Nat, a + c <= ByteBits * Width + 1
    PROVE  2^(a + c) = Prod(2^a, 2^c)
  <1>1. PICK t \in Nat : t = ByteBits * Width
    <2>1. ByteBits \in 4..8 /\ Width \in Nat
      BY PoolBase
    <2> QED BY <2>1
  <1>2. \A k \in 0..(t + 1) : 2^k \in Nat \ {0}
    BY <1>1, PoolPowers
  <1>3. PICK x \in Nat : x = 2^a
    BY <1>1, <1>2
  <1> DEFINE S == {i \in 0..c : 2^(a + i) = x * 2^i}
  <1>4. 0 \in S
    <2>1. 2^0 = 1 /\ a + 0 = a /\ x * 1 = x /\ 0 \in 0..c
      BY PoolBase
    <2> QED BY <1>3, <2>1
  <1>5. ASSUME NEW i \in 0..(c - 1), i \in S PROVE i + 1 \in S
    <2>1. i \in 0..t /\ a + i \in 0..t /\ i + 1 \in 0..c /\ a + (i + 1) = (a + i) + 1
      BY <1>1
    <2>2. 2^(i + 1) = 2 * 2^i /\ 2^((a + i) + 1) = 2 * 2^(a + i)
      BY <1>1, <2>1, PoolBase
    <2>3. PICK y \in Nat : y = 2^i
      BY <1>2, <2>1
    <2>4. 2 * (x * y) = x * (2 * y)
      OBVIOUS
    <2>5. 2^(a + i) = x * y
      BY <1>5, <2>3
    <2>6. 2^(a + (i + 1)) = x * 2^(i + 1)
      BY <2>1, <2>2, <2>3, <2>4, <2>5
    <2> QED BY <2>1, <2>6
  <1>6. c \in S
    <2> HIDE DEF S
    <2>1. \A i \in 0..c : i \in S
      BY <1>4, <1>5, NatClimb
    <2> QED BY <2>1
  <1> QED BY <1>3, <1>6 DEF Prod

\* A byte's power of two, taken as often as there are bytes.
LEMMA BytesAsBits == \A j \in 0..Width : ByteBits * j \in 0..(ByteBits * Width) /\ 2^(ByteBits * j) = PoolByte^j
  <1>1. PICK w \in Nat \ {0}, e \in 4..8 : w = Width /\ e = ByteBits
    BY PoolBase
  <1>2. \A j \in 0..w : e * j \in 0..(e * w) /\ e * (j + 1) = e * j + e /\ e * j \in Nat /\ e * w \in Nat
    <2>1. e = 4 \/ e = 5 \/ e = 6 \/ e = 7 \/ e = 8
      OBVIOUS
    <2> QED BY <2>1
  <1> DEFINE S == {j \in 0..w : 2^(e * j) = PoolByte^j}
  <1>3. 0 \in S
    <2>1. e * 0 = 0 /\ 0 \in 0..w
      OBVIOUS
    <2> QED BY <2>1, PoolBase
  <1>4. ASSUME NEW j \in 0..(w - 1), j \in S PROVE j + 1 \in S
    <2>1. j \in 0..w /\ j + 1 \in 0..w
      OBVIOUS
    <2>2. e * (j + 1) = e * j + e /\ e * j \in Nat /\ e * (j + 1) \in 0..(e * w)
      BY <1>2, <2>1
    <2>3. PICK a \in Nat, t \in Nat : a = e * j /\ t = e * w /\ a + e <= t
      BY <1>2, <2>1, <2>2
    <2>4. 2^(a + e) = Prod(2^a, 2^e)
      <3>1. e \in Nat /\ a + e <= ByteBits * Width + 1
        BY <1>1, <2>3
      <3> QED BY <3>1, PowersOfSum
    <2>5. 2^a = PoolByte^j /\ 2^e = PoolByte
      BY <1>1, <1>4, <2>3, PoolBase
    <2>6. PoolByte^(j + 1) = PoolByte * PoolByte^j
      BY <1>1, PoolBase
    <2>7. PICK x \in Nat, y \in Nat : x = PoolByte^j /\ y = PoolByte
      BY <1>1, <2>1, PoolBase, PoolPowers
    <2>8. Prod(x, y) = y * x
      BY DEF Prod
    <2>9. 2^(e * (j + 1)) = PoolByte^(j + 1)
      BY <2>2, <2>3, <2>4, <2>5, <2>6, <2>7, <2>8, Zenon
    <2> QED BY <2>1, <2>9
  <1>5. \A j \in 0..w : j \in S
    <2> HIDE DEF S
    <2>1. w \in Nat
      OBVIOUS
    <2> QED BY <1>3, <1>4, <2>1, NatClimb
  <1> QED BY <1>1, <1>2, <1>5

-----------------------------------------------------------------------------
(* Zero bits.                                                              *)

LEMMA ZerosFound ==
    ASSUME NEW c \in 1..(PoolByte - 1)
    PROVE  \E e \in 1..ByteBits : ByteZeros(c) = ByteBits - e /\ c < 2^e /\ c >= 2^(e - 1)
  <1>1. PICK b \in 4..8 : b = ByteBits
    BY PoolBase
  <1>2. c \in Nat /\ c >= 1 /\ c < 2^b /\ 2^0 = 1
    BY <1>1, PoolBase
  <1>3. \A k \in 0..b : 2^k \in Nat \ {0}
    <2>1. ByteBits * Width >= b /\ ByteBits * Width \in Nat
      BY <1>1, PoolBase
    <2>2. \A k \in 0..b : k \in 0..(ByteBits * Width + 1)
      BY <2>1
    <2> QED BY <2>2, PoolPowers
  <1> DEFINE fits == {k \in 0..b : c < 2^k}
  <1>4. PICK e \in fits : \A k \in fits : e <= k
    <2>1. fits \subseteq Nat /\ b \in fits
      BY <1>2
    <2> HIDE DEF fits
    <2>2. fits # {}
      BY <2>1
    <2> QED BY <2>1, <2>2, NatMin
  <1>5. e \in 1..b /\ c < 2^e
    <2>1. e # 0
      <3> SUFFICES ASSUME e = 0 PROVE FALSE
        OBVIOUS
      <3>1. c < 2^0
        BY <1>4
      <3> QED BY <1>2, <3>1
    <2> QED BY <1>4, <2>1
  <1>6. c >= 2^(e - 1)
    <2>1. e - 1 \in 0..b /\ ~(e <= e - 1)
      BY <1>5
    <2>2. e - 1 \notin fits
      <3> HIDE DEF fits
      <3> QED BY <1>4, <2>1
    <2>3. ~(c < 2^(e - 1)) /\ 2^(e - 1) \in Nat
      BY <1>3, <2>1, <2>2
    <2> QED BY <1>2, <2>3
  <1> DEFINE Zeros(z) == c < 2^(b - z) /\ (z = b \/ c >= 2^(b - z - 1))
             zs == CHOOSE z \in 0..b : Zeros(z)
  <1>7. ByteZeros(c) = zs
    BY <1>1 DEF ByteZeros
  <1>8. zs \in 0..b /\ Zeros(zs)
    <2>1. b - e \in 0..b /\ b - (b - e) = e /\ b - (b - e) - 1 = e - 1
      BY <1>5
    <2>2. Zeros(b - e)
      BY <1>5, <1>6, <2>1
    <2> HIDE DEF Zeros
    <2> QED BY <2>1, <2>2
  <1> HIDE DEF zs
  <1>9. zs # b
    <2> SUFFICES ASSUME zs = b PROVE FALSE
      OBVIOUS
    <2>1. b - zs = 0
      BY <1>8
    <2> QED BY <1>2, <1>8, <2>1
  <1>10. b - zs \in 1..b /\ b - (b - zs) = zs /\ b - zs - 1 = (b - zs) - 1
    BY <1>8, <1>9
  <1>11. c < 2^(b - zs) /\ c >= 2^((b - zs) - 1)
    BY <1>8, <1>9, <1>10
  <1> QED BY <1>1, <1>7, <1>10, <1>11

\* The value of bytes whose first f - 1 are zero, from place f on.
Leading(s, b, n, f) ==
    Values(s, b, n) /\ (\A i \in 1..n : b[i] \in Nat) /\ \A i \in 1..(f - 1) : b[i] = 0

LEMMA Difference == \A i, j \in Nat : i <= j => \E k \in Nat : j = i + k
  <1> SUFFICES ASSUME NEW i \in Nat, NEW j \in Nat, i <= j PROVE \E k \in Nat : j = i + k
    OBVIOUS
  <1>1. j - i \in Nat /\ j = i + (j - i)
    OBVIOUS
  <1> QED BY <1>1

LEMMA LeadingValue ==
    ASSUME NEW n \in Nat, NEW s \in [0..n -> Nat], NEW b, NEW f \in 1..n, Leading(s, b, n, f)
    PROVE  (\A i \in 0..(f - 1) : s[i] = 0) /\ s[f] = b[f]
  <1>1. PICK p \in Nat : p = PoolByte
    BY PoolBase
  <1>0. s[0] = 0 /\ \A i \in 1..n : s[i] = s[i - 1] * p + b[i]
    BY <1>1, Zenon DEF Values, Leading
  <1>6. (\A i \in 1..n : b[i] \in Nat) /\ \A i \in 1..(f - 1) : b[i] = 0
    BY DEF Leading
  <1> DEFINE S == {i \in 0..(f - 1) : s[i] = 0}
  <1>2. 0 \in S
    BY <1>0
  <1>3. ASSUME NEW i \in 0..((f - 1) - 1), i \in S PROVE i + 1 \in S
    <2>1. i + 1 \in 1..(f - 1) /\ i + 1 \in 1..n /\ (i + 1) - 1 = i
      OBVIOUS
    <2>2. s[i + 1] = s[i] * p + b[i + 1] /\ b[i + 1] = 0 /\ s[i] = 0
      BY <1>0, <1>3, <1>6, <2>1
    <2>3. s[i + 1] = 0
      BY <2>2
    <2> QED BY <2>1, <2>3
  <1>4. \A i \in 0..(f - 1) : i \in S
    <2> HIDE DEF S
    <2>1. f - 1 \in Nat
      OBVIOUS
    <2> QED BY <1>2, <1>3, <2>1, NatClimb
  <1>5. s[f] = b[f]
    <2>1. f - 1 \in 0..(f - 1) /\ s[f - 1] = 0 /\ f \in 1..n
      BY <1>4
    <2>2. s[f] = s[f - 1] * p + b[f] /\ b[f] \in Nat
      BY <1>0, <1>6, <2>1
    <2> QED BY <2>1, <2>2
  <1> QED BY <1>4, <1>5

Placed(s, b, f) == s[f] = b[f]
LeadingOf(s, b, n, f) == n \in Nat /\ s \in [0..n -> Nat] /\ f \in 1..n /\ Leading(s, b, n, f)

LEMMA LeadingPlace ==
    ASSUME NEW n, NEW s, NEW b, NEW f, LeadingOf(s, b, n, f)
    PROVE  Placed(s, b, f)
  <1>1. n \in Nat /\ s \in [0..n -> Nat] /\ f \in 1..n /\ Leading(s, b, n, f)
    BY Zenon DEF LeadingOf
  <1> QED BY <1>1, LeadingValue, ZenonT(60) DEF Placed

LEMMA BestShareKept ==
    ASSUME NEW be \in [1..Width -> 0..(PoolByte - 1)]
    PROVE  LET n == ByteBits * Width
               z == LeadingZeros(be)
               v == BeValue(be)
           IN  v < 2^(n - z) /\ (z < n => v >= 2^(n - z - 1))
  <1>1. PICK w \in Nat \ {0}, p \in Nat, e \in 4..8 : w = Width /\ p = PoolByte /\ e = ByteBits /\ p >= 16
    BY PoolBase
  <1>2. /\ be \in Seq(Nat) /\ Len(be) = w /\ DOMAIN be = 1..w
        /\ \A i \in 1..w : be[i] \in Nat /\ be[i] < p
    <2>1. 0..(PoolByte - 1) \subseteq Nat
      BY <1>1
    <2>2. be \in [1..w -> Nat] /\ w \in Nat
      BY <1>1, <2>1
    <2>3. be \in Seq(Nat)
      BY <2>2
    <2> QED BY <1>1, <2>2, <2>3
  <1>3. PICK s \in [0..w -> Nat] : Values(s, be, w) /\ BeValue(be) = s[w]
    <2>1. w \in Nat
      OBVIOUS
    <2> QED BY <1>2, <2>1, ValueSteps
  <1> DEFINE nonzero == {i \in DOMAIN be : be[i] # 0}
             first == CHOOSE i \in nonzero : \A j \in nonzero : i <= j
  <1>4. CASE nonzero = {}
    <2>1. \A i \in 1..w : be[i] = 0
      BY <1>2, <1>4
    <2>2. s[w] = 0
      <3>1. w \in 1..w /\ \A i \in 1..(w - 1) : be[i] = 0
        BY <2>1
      <3>2. s[w] = be[w]
        <4>1. w \in Nat /\ \A i \in 1..w : be[i] \in Nat
          BY <1>2
        <4>2. Leading(s, be, w, w)
          BY <1>3, <3>1, <4>1 DEF Leading
        <4>3. LeadingOf(s, be, w, w)
          BY <3>1, <4>1, <4>2 DEF LeadingOf
        <4>4. Placed(s, be, w)
          BY <4>3, LeadingPlace
        <4> QED BY <4>4 DEF Placed
      <3> QED BY <2>1, <3>1, <3>2
    <2>3. LeadingZeros(be) = ByteBits * w
      BY <1>2, <1>4, Zenon DEF LeadingZeros
    <2>4. PICK t \in Nat : t = ByteBits * Width /\ t = ByteBits * w
      <3>1. e * w \in Nat
        OBVIOUS
      <3> QED BY <1>1, <3>1
    <2>5. t - t = 0 /\ ~(t < t) /\ 0 < 2^0
      BY PoolBase
    <2> QED BY <1>3, <2>2, <2>3, <2>4, <2>5
  <1>5. CASE nonzero # {}
    <2>1. first \in nonzero /\ \A j \in nonzero : first <= j
      <3>1. nonzero \subseteq Nat
        BY <1>2
      <3>2. \E i \in nonzero : \A j \in nonzero : i <= j
        <4> HIDE DEF nonzero
        <4> QED BY <1>5, <3>1, NatMin
      <3> HIDE DEF nonzero
      <3> QED BY <3>2
    <2>2. LeadingZeros(be) = ByteBits * (first - 1) + ByteZeros(be[first])
      <3>1. LeadingZeros(be) = IF nonzero = {} THEN ByteBits * Len(be)
                               ELSE ByteBits * (first - 1) + ByteZeros(be[first])
        BY Zenon DEF LeadingZeros
      <3> HIDE DEF nonzero, first
      <3> QED BY <1>5, <3>1
    <2> HIDE DEF first
    <2>3. PICK f \in 1..w : f = first /\ be[f] # 0 /\ \A i \in 1..(f - 1) : be[i] = 0
      <3>1. first \in 1..w /\ be[first] # 0
        BY <1>2, <2>1
      <3>2. ASSUME NEW i \in 1..(first - 1) PROVE be[i] = 0
        <4>1. i \in 1..w /\ ~(first <= i)
          BY <3>1
        <4> QED BY <1>2, <2>1, <4>1
      <3> QED BY <3>1, <3>2
    <2>4. PICK c \in Nat : c = be[f] /\ c \in 1..(PoolByte - 1)
      <3>1. be[f] \in Nat /\ be[f] < p /\ be[f] # 0
        BY <1>2, <2>3
      <3> QED BY <1>1, <3>1
    <2>5. PICK k \in 1..e : ByteZeros(c) = e - k /\ c < 2^k /\ c >= 2^(k - 1)
      BY <1>1, <2>4, ZerosFound
    <2>6. s[f] = c
      <3>1. w \in Nat /\ \A i \in 1..w : be[i] \in Nat
        BY <1>2
      <3>2. Leading(s, be, w, f)
        BY <1>3, <2>3, <3>1 DEF Leading
      <3>3. LeadingOf(s, be, w, f)
        BY <2>3, <3>1, <3>2 DEF LeadingOf
      <3>4. s[f] = be[f]
        <4>1. Placed(s, be, f)
          BY <3>3, LeadingPlace
        <4> QED BY <4>1 DEF Placed
      <3> QED BY <2>4, <3>4
    <2> DEFINE S == {j \in 0..(w - f) : c * p^j <= s[f + j] /\ s[f + j] < (c + 1) * p^j}
    <2>7. \A j \in 0..(w - f) : p^j \in Nat \ {0}
      <3>1. \A j \in 0..(w - f) : j \in 0..Width
        BY <1>1, <2>3
      <3> QED BY <1>1, <3>1, PoolPowers
    <2>8. 0 \in S
      <3>1. p^0 = 1 /\ f + 0 = f /\ c * 1 = c /\ (c + 1) * 1 = c + 1 /\ 0 \in 0..(w - f)
        BY <1>1, PoolBase
      <3> QED BY <2>6, <3>1
    <2>9. ASSUME NEW j \in 0..((w - f) - 1), j \in S PROVE j + 1 \in S
      <3>1. j \in 0..(w - f) /\ j + 1 \in 0..(w - f) /\ f + (j + 1) \in 1..w /\ f + j \in 0..w
            /\ (f + (j + 1)) - 1 = f + j /\ j \in 0..(Width - 1)
        BY <1>1, <2>3
      <3>2. p^(j + 1) = p * p^j
        BY <1>1, <3>1, PoolBase
      <3>3. PICK x \in Nat, u \in Nat, d \in Nat : x = p^j /\ u = s[f + j] /\ d = be[f + (j + 1)] /\ d < p
        BY <1>2, <2>7, <3>1
      <3>4. s[f + (j + 1)] = u * p + d
        <4>1. \A i \in 1..w : s[i] = s[i - 1] * p + be[i]
          BY <1>1, <1>3, Zenon DEF Values
        <4> QED BY <3>1, <3>3, <4>1
      <3>5. c * x <= u /\ u + 1 <= (c + 1) * x
        <4>1. c * x <= u /\ u < (c + 1) * x
          BY <2>9, <3>3, Zenon
        <4>2. PICK z \in Nat : z = (c + 1) * x
          OBVIOUS
        <4>3. \A k1, k2 \in Nat : k1 < k2 => k1 + 1 <= k2
          OBVIOUS
        <4> QED BY <4>1, <4>2, <4>3, Zenon
      <3>6. (c * x) * p <= u * p /\ (u + 1) * p <= ((c + 1) * x) * p
        <4>1. PICK y \in Nat, z \in Nat : y = c * x /\ z = (c + 1) * x
          OBVIOUS
        <4>2. y <= u /\ u + 1 <= z
          BY <3>5, <4>1
        <4>3. y * p <= u * p
          <5>1. PICK v \in Nat : u = y + v
            BY <4>2, Difference
          <5>2. (y + v) * p = y * p + v * p /\ y * p \in Nat /\ v * p \in Nat
            OBVIOUS
          <5> QED BY <5>1, <5>2
        <4>4. (u + 1) * p <= z * p
          <5>1. PICK v \in Nat : z = (u + 1) + v
            BY <4>2, Difference
          <5>2. ((u + 1) + v) * p = (u + 1) * p + v * p /\ (u + 1) * p \in Nat /\ v * p \in Nat
            OBVIOUS
          <5> QED BY <5>1, <5>2
        <4> QED BY <4>1, <4>3, <4>4
      <3>7. (c * x) * p = c * (p * x) /\ ((c + 1) * x) * p = (c + 1) * (p * x) /\ (u + 1) * p = u * p + p
        OBVIOUS
      <3>8. c * (p * x) <= u * p + d /\ u * p + d < (c + 1) * (p * x)
        <4>1. PICK q \in Nat : q = p * x
          OBVIOUS
        <4>2. PICK y \in Nat : y = c * q
          OBVIOUS
        <4>3. PICK z \in Nat : z = (c + 1) * q
          OBVIOUS
        <4>4. PICK up \in Nat : up = u * p
          OBVIOUS
        <4>5. y <= up /\ up + p <= z
          BY <3>6, <3>7, <4>1, <4>2, <4>3, <4>4, Zenon
        <4>6. y <= up + d /\ up + d < z
          BY <3>3, <4>5, SMTT(30)
        <4> QED BY <4>1, <4>2, <4>3, <4>4, <4>6, Zenon
      <3>9. c * p^(j + 1) <= s[f + (j + 1)] /\ s[f + (j + 1)] < (c + 1) * p^(j + 1)
        BY <3>2, <3>3, <3>4, <3>8, Zenon
      <3> QED BY <3>1, <3>9
    <2>10. PICK j \in Nat : j = w - f /\ j \in S
      <3>1. w - f \in Nat
        BY <2>3
      <3>2. \A i \in 0..(w - f) : i \in S
        <4> HIDE DEF S
        <4> QED BY <2>8, <2>9, <3>1, NatClimb
      <3> QED BY <3>1, <3>2
    <2>11. PICK x \in Nat \ {0}, v \in Nat : x = p^j /\ v = s[w] /\ c * x <= v /\ v < (c + 1) * x
      <3>1. f + j = w /\ j \in 0..(w - f) /\ w \in 0..w
        BY <2>3, <2>10
      <3>2. p^j \in Nat \ {0} /\ s[w] \in Nat
        BY <2>7, <3>1
      <3>3. c * p^j <= s[w] /\ s[w] < (c + 1) * p^j
        BY <2>10, <3>1
      <3> QED BY <3>2, <3>3
    <2>12. PICK a \in Nat, t \in Nat : a = e * j /\ t = e * w /\ a + k <= t /\ 2^a = x
                                       /\ t - LeadingZeros(be) = a + k
      <3>1. j \in 0..Width
        BY <1>1, <2>3, <2>10
      <3>2. e * j \in Nat /\ 2^(e * j) = p^j
        BY <1>1, <3>1, BytesAsBits
      <3>3. e * w = e * (f - 1) + e * j + e /\ e * (f - 1) \in Nat /\ e * w \in Nat
        <4>1. w = (f - 1) + j + 1
          BY <2>10
        <4>2. e * ((f - 1) + j + 1) = e * (f - 1) + e * j + e
          BY <2>3
        <4>3. e * (f - 1) \in Nat
          <5>1. PICK q \in Nat : q = f - 1
            OBVIOUS
          <5> QED BY <5>1
        <4>4. e * w \in Nat
          OBVIOUS
        <4> QED BY <4>1, <4>2, <4>3, <4>4
      <3>4. LeadingZeros(be) = e * (f - 1) + (e - k)
        BY <1>1, <2>2, <2>3, <2>4, <2>5
      <3>5. PICK a \in Nat, t \in Nat, q \in Nat : a = e * j /\ t = e * w /\ q = e * (f - 1)
        BY <3>2, <3>3
      <3>6. t = q + a + e /\ LeadingZeros(be) = q + (e - k)
        BY <3>3, <3>4, <3>5
      <3>7. a + k <= t /\ t - LeadingZeros(be) = a + k
        BY <3>5, <3>6
      <3> QED BY <2>11, <3>2, <3>5, <3>7
    <2>13. 2^(a + k) = x * 2^k /\ 2^(a + (k - 1)) = x * 2^(k - 1)
      <3>1. a + k <= ByteBits * Width + 1 /\ a + (k - 1) <= ByteBits * Width + 1 /\ k \in Nat /\ k - 1 \in Nat
        BY <1>1, <2>12
      <3>2. 2^(a + k) = Prod(2^a, 2^k) /\ 2^(a + (k - 1)) = Prod(2^a, 2^(k - 1))
        BY <3>1, PowersOfSum
      <3> QED BY <2>12, <3>2 DEF Prod
    <2>14. v < 2^(a + k) /\ v >= 2^(a + (k - 1))
      <3>1. PICK y \in Nat, z \in Nat : y = 2^k /\ z = 2^(k - 1) /\ c < y /\ c >= z
        <4>1. k \in 0..(ByteBits * Width + 1) /\ k - 1 \in 0..(ByteBits * Width + 1)
          BY <1>1, <2>12
        <4>2. 2^k \in Nat /\ 2^(k - 1) \in Nat
          BY <4>1, PoolPowers
        <4> QED BY <2>5, <4>2
      <3>2. (c + 1) * x <= x * y /\ x * z <= c * x
        BY <3>1
      <3>3. PICK l \in Nat, m \in Nat, r \in Nat, q \in Nat :
                l = c * x /\ m = (c + 1) * x /\ r = x * y /\ q = x * z
        OBVIOUS
      <3>4. l <= v /\ v < m
        BY <2>11, <3>3, Zenon
      <3>5. m <= r /\ q <= l
        BY <3>2, <3>3, Zenon
      <3>6. v < r /\ v >= q
        BY <3>4, <3>5
      <3> QED BY <2>13, <3>1, <3>3, <3>6, Zenon
    <2>15. t = ByteBits * Width /\ BeValue(be) = v /\ t - LeadingZeros(be) = a + k
           /\ t - LeadingZeros(be) - 1 = a + (k - 1)
      BY <1>1, <1>3, <2>11, <2>12
    <2> QED BY <2>14, <2>15, Zenon
  <1> QED BY <1>4, <1>5

LEMMA BestShareFloors ==
    (fmt # Empty /\ fmt.kind = "hash" => fmt.be \in [1..Width -> 0..(PoolByte - 1)]) => BestShareIsFloor
  BY BestShareKept, Zenon DEF BestShareIsFloor, ShareZeros

-----------------------------------------------------------------------------
(* Compact targets.                                                        *)

LEMMA BitsMeant ==
    ASSUME NEW exp \in 0..Width, NEW m \in [1..3 -> 0..(PoolByte - 1)]
    PROVE  LET v == BeValue(BitsToTarget(exp, m))
               mantissa == BeValue(m)
           IN  IF exp >= 3 THEN v = mantissa * PoolByte^(exp - 3)
               ELSE v = mantissa \div PoolByte^(3 - exp)
  <1>1. PICK w \in Nat \ {0}, p \in Nat : w = Width /\ p = PoolByte /\ p >= 16
    BY PoolBase
  <1>2. p^0 = 1 /\ p^1 = p /\ p^2 = p * p /\ p^3 = p * (p * p)
    <2>1. p^(0 + 1) = p * p^0 /\ p^(1 + 1) = p * p^1 /\ p^(2 + 1) = p * p^2 /\ p^0 = 1
      BY <1>1, PoolBase
    <2> QED BY <2>1
  <1>3. PICK m1 \in Nat, m2 \in Nat, m3 \in Nat :
            m1 = m[1] /\ m2 = m[2] /\ m3 = m[3] /\ m1 < p /\ m2 < p /\ m3 < p
    BY <1>1
  <1>17. PICK y \in Nat, c \in Nat : y = p * m1 + m2 /\ c = p * y + m3
    <2>1. PICK u \in Nat : u = p * m1 + m2
      <3>1. p * m1 \in Nat
        OBVIOUS
      <3> QED BY <3>1
    <2>2. p * u + m3 \in Nat
      <3>1. p * u \in Nat
        OBVIOUS
      <3> QED BY <3>1
    <2> QED BY <2>1, <2>2
  <1>4. BeValue(m) = c
    <2>1. m \in [1..3 -> Nat] /\ 3 \in Nat
      BY <1>1
    <2>2. Len(m) = 3
      BY <2>1, ArrayLength
    <2>3. \A i \in 1..3 : m[i] \in Nat
      BY <2>1
    <2>4. PICK s \in [0..3 -> Nat] : Values(s, m, 3) /\ BeValue(m) = s[3]
      BY <2>1, <2>2, <2>3, ValueSteps
    <2>5. s[0] = 0 /\ s[1] = s[0] * p + m1 /\ s[2] = s[1] * p + m2 /\ s[3] = s[2] * p + m3
      <3>1. s[0] = 0 /\ \A i \in 1..3 : s[i] = s[i - 1] * p + m[i]
        BY <1>1, <2>4, Zenon DEF Values
      <3>2. s[1] = s[1 - 1] * p + m[1] /\ s[2] = s[2 - 1] * p + m[2] /\ s[3] = s[3 - 1] * p + m[3]
        BY <3>1
      <3> QED BY <1>3, <3>1, <3>2
    <2>6. s[1] = m1
      BY <2>5
    <2>7. s[2] = y
      <3>1. m1 * p = p * m1
        OBVIOUS
      <3> QED BY <1>17, <2>5, <2>6, <3>1
    <2>8. s[3] = c
      <3>1. y * p = p * y
        OBVIOUS
      <3> QED BY <1>17, <2>5, <2>7, <3>1
    <2> QED BY <2>4, <2>8
  <1>18. c \div p = y /\ c \div (p * p) = m1 /\ c \div (p * (p * p)) = 0
    <2>1. p \in Nat \ {0}
      BY <1>1
    <2>2. Quot(c, p) = y /\ Quot(y, p) = m1
      BY <1>3, <1>17, <2>1, Quotient DEF Quot
    <2>3. Quot(m1, p) = 0
      BY <1>3, <2>1 DEF Quot
    <2>4. Prod(p, p) \in Nat \ {0} /\ Quot(c, Prod(p, p)) = Quot(Quot(c, p), p)
          /\ Quot(y, Prod(p, p)) = Quot(Quot(y, p), p)
      BY <2>1, DivideTwice
    <2>5. Quot(c, Prod(p, Prod(p, p))) = Quot(Quot(c, p), Prod(p, p))
      BY <2>1, <2>4, DivideTwice
    <2>6. Quot(c, p) = y /\ Quot(c, Prod(p, p)) = m1 /\ Quot(c, Prod(p, Prod(p, p))) = 0
      BY <2>2, <2>3, <2>4, <2>5
    <2> QED BY <2>6, Zenon DEF Quot, Prod
  <1> DEFINE b == TargetBe(exp, m)
             off == w - exp
  <1>5. /\ b \in [1..w -> Nat]
        /\ \A i \in 1..w : b[i] = IF i - 1 - off \in 0..2 THEN m[i - off] ELSE 0
    <2>1. ASSUME NEW i \in 1..w
          PROVE  b[i] = (IF i - 1 - off \in 0..2 THEN m[i - off] ELSE 0) /\ b[i] \in Nat
      <3>1. exp <= Width
        BY <1>1
      <3>2. b[i] = IF exp <= Width /\ i - 1 - (Width - exp) \in 0..2 THEN m[i - (Width - exp)] ELSE 0
        BY <1>1, Zenon DEF TargetBe
      <3>3. b[i] = IF i - 1 - off \in 0..2 THEN m[i - off] ELSE 0
        BY <1>1, <3>1, <3>2
      <3>4. i - 1 - off \in 0..2 => i - off \in 1..3
        BY <1>1
      <3>5. \A k \in 1..3 : m[k] \in Nat
        BY <1>1
      <3> QED BY <3>3, <3>4, <3>5
    <2>2. b = [i \in 1..w |-> b[i]]
      BY <1>1, Zenon DEF TargetBe
    <2> HIDE DEF b
    <2> QED BY <2>1, <2>2
  <1> HIDE DEF b
  <1>6. b \in Seq(Nat) /\ Len(b) = w
    <2>1. w \in Nat
      OBVIOUS
    <2> QED BY <1>5, <2>1, ArrayLength
  <1>16. PICK s \in [0..w -> Nat] : Values(s, b, w) /\ BeValue(b) = s[w]
    <2>1. w \in Nat /\ \A i \in 1..w : b[i] \in Nat
      BY <1>5
    <2> QED BY <1>6, <2>1, ValueSteps
  <1>7. s[0] = 0 /\ \A i \in 1..w : s[i] = s[i - 1] * p + b[i]
    BY <1>1, <1>16, Zenon DEF Values
  <1>8. PICK f \in Nat : f = off /\ f <= w /\ exp = w - f
    BY <1>1
  <1>9. s[f] = 0
    <2>1. CASE f = 0
      BY <1>7, <2>1
    <2>2. CASE f # 0
      <3>1. f \in 1..w /\ w \in Nat
        BY <1>8, <2>2
      <3>2. \A i \in 1..f : b[i] = 0
        <4> TAKE i \in 1..f
        <4>1. i \in 1..w /\ ~(i - 1 - off \in 0..2)
          BY <1>8
        <4> QED BY <1>5, <4>1
      <3>3. (\A i \in 1..(f - 1) : b[i] = 0) /\ b[f] = 0 /\ \A i \in 1..w : b[i] \in Nat
        BY <1>5, <3>1, <3>2
      <3>4. s[f] = b[f]
        <4>1. Leading(s, b, w, f)
          BY <1>16, <3>3 DEF Leading
        <4> QED BY <3>1, <4>1, LeadingValue, SMTT(30)
      <3> QED BY <3>3, <3>4
    <2> QED BY <2>1, <2>2
  <1>10. exp >= 1 => s[f + 1] = m1
    <2> SUFFICES ASSUME exp >= 1 PROVE s[f + 1] = m1
      OBVIOUS
    <2>1. f + 1 \in 1..w /\ (f + 1) - 1 = f /\ (f + 1) - 1 - off \in 0..2 /\ (f + 1) - off = 1
      BY <1>1, <1>8
    <2>2. b[f + 1] = m1 /\ s[f + 1] = s[f] * p + b[f + 1]
      BY <1>1, <1>3, <1>5, <1>7, <2>1
    <2> QED BY <1>9, <2>2
  <1>11. exp >= 2 => s[f + 2] = y
    <2> SUFFICES ASSUME exp >= 2 PROVE s[f + 2] = y
      OBVIOUS
    <2>1. f + 2 \in 1..w /\ (f + 2) - 1 = f + 1 /\ (f + 2) - 1 - off \in 0..2 /\ (f + 2) - off = 2 /\ exp >= 1
      BY <1>1, <1>8
    <2>2. b[f + 2] = m2 /\ s[f + 2] = s[f + 1] * p + b[f + 2]
      BY <1>1, <1>3, <1>5, <1>7, <2>1
    <2>3. m1 * p = p * m1
      OBVIOUS
    <2> QED BY <1>10, <1>17, <2>1, <2>2, <2>3
  <1>12. CASE exp = 0
    <2>1. f = w /\ BeValue(b) = 0 /\ ~(exp >= 3) /\ 3 - exp = 3
      BY <1>8, <1>9, <1>12, <1>16
    <2> QED BY <1>1, <1>2, <1>4, <1>18, <2>1, Zenon DEF BitsToTarget, b
  <1>13. CASE exp = 1
    <2>1. f + 1 = w /\ BeValue(b) = m1 /\ ~(exp >= 3) /\ 3 - exp = 2
      BY <1>8, <1>10, <1>13, <1>16
    <2> QED BY <1>1, <1>2, <1>4, <1>18, <2>1, Zenon DEF BitsToTarget, b
  <1>14. CASE exp = 2
    <2>1. f + 2 = w /\ BeValue(b) = y /\ ~(exp >= 3) /\ 3 - exp = 1
      BY <1>8, <1>11, <1>14, <1>16
    <2> QED BY <1>1, <1>2, <1>4, <1>18, <2>1, Zenon DEF BitsToTarget, b
  <1>15. CASE exp >= 3
    <2>1. s[f + 3] = c
      <3>1. f + 3 \in 1..w /\ (f + 3) - 1 = f + 2 /\ (f + 3) - 1 - off \in 0..2 /\ (f + 3) - off = 3 /\ exp >= 2
        BY <1>1, <1>8, <1>15
      <3>2. b[f + 3] = m3 /\ s[f + 3] = s[f + 2] * p + b[f + 3]
        BY <1>1, <1>3, <1>5, <1>7, <3>1
      <3>3. y * p = p * y
        OBVIOUS
      <3> QED BY <1>11, <1>17, <3>1, <3>2, <3>3
    <2> DEFINE S == {j \in 0..(exp - 3) : s[(f + 3) + j] = c * p^j}
    <2>3. 0 \in S
      <3>1. (f + 3) + 0 = f + 3 /\ 0 \in 0..(exp - 3) /\ c * 1 = c
        BY <1>15
      <3> QED BY <1>2, <2>1, <3>1
    <2>4. ASSUME NEW j \in 0..((exp - 3) - 1), j \in S PROVE j + 1 \in S
      <3>1. /\ j + 1 \in 0..(exp - 3) /\ (f + 3) + (j + 1) \in 1..w /\ ((f + 3) + (j + 1)) - 1 = (f + 3) + j
            /\ j \in 0..(Width - 1) /\ j \in 0..Width /\ ~(((f + 3) + (j + 1)) - 1 - off \in 0..2)
        BY <1>1, <1>8
      <3>2. b[(f + 3) + (j + 1)] = 0
        BY <1>5, <3>1
      <3>3. s[(f + 3) + (j + 1)] = s[(f + 3) + j] * p + 0
        BY <1>1, <1>7, <3>1, <3>2
      <3>4. PICK x \in Nat : x = p^j
        BY <1>1, <3>1, PoolPowers
      <3>5. p^(j + 1) = p * x
        BY <1>1, <3>1, <3>4, PoolBase
      <3>6. s[(f + 3) + j] = c * x
        BY <2>4, <3>4
      <3>7. (c * x) * p + 0 = c * (p * x)
        OBVIOUS
      <3>8. s[(f + 3) + (j + 1)] = c * p^(j + 1)
        BY <3>3, <3>5, <3>6, <3>7, Zenon
      <3> QED BY <3>1, <3>8
    <2>5. exp - 3 \in S
      <3>1. exp - 3 \in Nat /\ exp - 3 \in 0..(exp - 3)
        BY <1>15
      <3>2. \A j \in 0..(exp - 3) : j \in S
        <4> HIDE DEF S
        <4> QED BY <2>3, <2>4, <3>1, NatClimb
      <3> QED BY <3>1, <3>2
    <2>6. (f + 3) + (exp - 3) = w
      BY <1>1, <1>8
    <2>7. BeValue(b) = BeValue(m) * PoolByte^(exp - 3)
      <3>1. s[w] = c * p^(exp - 3)
        BY <2>5, <2>6
      <3> QED BY <1>1, <1>4, <1>16, <3>1, Zenon
    <2> QED BY <1>15, <2>7, Zenon DEF BitsToTarget, b
  <1>19. exp = 0 \/ exp = 1 \/ exp = 2 \/ exp >= 3
    BY <1>1
  <1> QED BY <1>12, <1>13, <1>14, <1>15, <1>19, Zenon

LEMMA BitsKeep ==
    (fmt # Empty /\ fmt.kind = "bits" => fmt.exp \in Nat /\ fmt.m \in [1..3 -> 0..(PoolByte - 1)]) => BitsDecode
  <1> SUFFICES ASSUME fmt # Empty, fmt.kind = "bits", fmt.exp <= Width, fmt.exp \in Nat,
                      fmt.m \in [1..3 -> 0..(PoolByte - 1)]
               PROVE  LET v == BeValue(BitsToTarget(fmt.exp, fmt.m))
                          mantissa == BeValue(fmt.m)
                      IN  IF fmt.exp >= 3 THEN v = mantissa * PoolByte^(fmt.exp - 3)
                          ELSE v = mantissa \div PoolByte^(3 - fmt.exp)
    BY Zenon DEF BitsDecode
  <1>1. fmt.exp \in 0..Width
    BY PoolBase
  <1> QED BY <1>1, BitsMeant, Zenon

-----------------------------------------------------------------------------
(* The height in the coinbase.                                             *)

\* What a script interpreter sums up.
LEMMA ScriptSteps ==
    ASSUME NEW push, Len(push) - 1 \in 1..4, push[1] < OpBase, push[1] \in Nat,
           NEW w \in [1..(Len(push) - 1) -> Nat],
           \A i \in 1..(Len(push) - 1) : w[i] = push[i + 1] * PoolByte^(i - 1)
    PROVE  \E s \in [0..(Len(push) - 1) -> Nat] :
              /\ s[0] = 0 /\ \A i \in 1..(Len(push) - 1) : s[i] = s[i - 1] + w[i]
              /\ ScriptValue(push) =
                    IF push[(Len(push) - 1) + 1] >= PoolByte \div 2
                    THEN -(s[Len(push) - 1] - (PoolByte \div 2) * PoolByte^((Len(push) - 1) - 1))
                    ELSE s[Len(push) - 1]
  <1> DEFINE n == Len(push) - 1
             F == [i \in 1..n |-> [x \in Nat |-> x + w[i]]]
             Body(f) == [i \in 0..n |-> IF i = 0 THEN 0 ELSE f[i - 1] + push[i + 1] * PoolByte^(i - 1)]
             s == CHOOSE f : f = Body(f)
  <1>0. n \in 1..4 /\ n \in Nat
    OBVIOUS
  <1>1. ScriptValue(push) = IF push[n + 1] >= PoolByte \div 2
                            THEN -(s[n] - (PoolByte \div 2) * PoolByte^(n - 1)) ELSE s[n]
    <2>1. ~(push[1] >= OpBase)
      <3>1. OpBase \in Int
        BY PoolBase DEF OpBase
      <3> QED BY <3>1
    <2> QED BY <2>1, Zenon DEF ScriptValue
  <1>2. F \in [1..n -> [Nat -> Nat]] /\ \A i \in 1..n : \A x \in Nat : F[i][x] = x + w[i]
    <2>1. \A i \in 1..n : w[i] \in Nat
      OBVIOUS
    <2> HIDE DEF n
    <2>2. \A i \in 1..n : [x \in Nat |-> x + w[i]] \in [Nat -> Nat]
      BY <2>1
    <2> QED BY <2>2
  <1>3. \A i \in 1..n : w[i] = push[i + 1] * PoolByte^(i - 1)
    OBVIOUS
  <1>4. \A i \in 1..n : w[i] \in Nat
    OBVIOUS
  <1> HIDE DEF F, n
  <1>5. PICK g \in [0..n -> Nat] : g[0] = 0 /\ \A i \in 1..n : g[i] = F[i][g[i - 1]]
    <2>1. \E g \in [0..n -> Nat] : Steps(g, n, 0, F)
      BY <1>0, <1>2, Recursion
    <2> QED BY <2>1, Zenon DEF Steps
  <1>6. g = Body(g)
    <2>1. ASSUME NEW i \in 0..n
          PROVE  g[i] = IF i = 0 THEN 0 ELSE g[i - 1] + push[i + 1] * PoolByte^(i - 1)
      <3>1. CASE i = 0
        <4>1. g[i] = 0
          BY <1>5, <3>1, Zenon
        <4> QED BY <3>1, <4>1, Zenon
      <3>2. CASE i # 0
        <4>1. i \in 1..n /\ i - 1 \in 0..n
          BY <1>0, <3>2
        <4>2. g[i - 1] \in Nat /\ g[i] = F[i][g[i - 1]]
          BY <1>5, <4>1
        <4>3. g[i] = g[i - 1] + w[i]
          BY <1>2, <4>1, <4>2
        <4> QED BY <1>3, <3>2, <4>1, <4>3, Zenon
      <3> QED BY <3>1, <3>2
    <2>2. g = [i \in 0..n |-> g[i]]
      OBVIOUS
    <2> QED BY <2>1, <2>2, Zenon
  <1>7. s = Body(s)
    <2> HIDE DEF Body
    <2> QED BY <1>6
  <1> HIDE DEF s
  <1>8. s[0] = 0 /\ \A i \in 1..n : s[i] = s[i - 1] + w[i]
    <2>1. s = [i \in 0..n |-> IF i = 0 THEN 0 ELSE s[i - 1] + push[i + 1] * PoolByte^(i - 1)]
      BY <1>7
    <2>2. ASSUME NEW i \in 1..n PROVE s[i] = s[i - 1] + w[i]
      <3>1. i \in 0..n /\ i # 0
        BY <1>0
      <3>2. s[i] = s[i - 1] + push[i + 1] * PoolByte^(i - 1)
        BY <2>1, <3>1, Zenon
      <3> QED BY <1>3, <3>2, Zenon
    <2>3. 0 \in 0..n
      BY <1>0
    <2> QED BY <2>1, <2>2, <2>3, Zenon
  <1>9. s \in [0..n -> Nat]
    <2> DEFINE S == {i \in 0..n : s[i] \in Nat}
    <2>1. 0 \in S
      BY <1>0, <1>8
    <2>2. ASSUME NEW i \in 0..(n - 1), i \in S PROVE i + 1 \in S
      <3>1. i + 1 \in 1..n /\ i + 1 \in 0..n /\ (i + 1) - 1 = i
        BY <1>0
      <3>2. s[i + 1] = s[i] + w[i + 1] /\ w[i + 1] \in Nat /\ s[i] \in Nat
        BY <1>4, <1>8, <2>2, <3>1
      <3> QED BY <3>1, <3>2
    <2>3. \A i \in 0..n : i \in S
      <3> HIDE DEF S
      <3> QED BY <1>0, <2>1, <2>2, NatClimb
    <2>4. s = [i \in 0..n |-> s[i]]
      BY <1>7, Zenon
    <2> QED BY <2>3, <2>4
  <1>10. s \in [0..n -> Nat] /\ s[0] = 0 /\ (\A i \in 1..n : s[i] = s[i - 1] + w[i])
         /\ ScriptValue(push) = IF push[n + 1] >= PoolByte \div 2
                                THEN -(s[n] - (PoolByte \div 2) * PoolByte^(n - 1)) ELSE s[n]
    BY <1>1, <1>8, <1>9
  <1> QED BY <1>10, Zenon DEF n

LEMMA PoolSmallPowers ==
    ASSUME NEW i \in 1..4
    PROVE  PoolByte^(i - 1) \in Nat \ {0} /\ PoolByte^i \in Nat \ {0}
           /\ PoolByte^i = Prod(PoolByte, PoolByte^(i - 1))
  <1>1. i - 1 \in 0..3 /\ i - 1 \in 0..4 /\ i \in 0..4 /\ (i - 1) + 1 = i
    OBVIOUS
  <1>2. PoolByte^((i - 1) + 1) = PoolByte * PoolByte^(i - 1)
    BY <1>1, PoolBase
  <1>3. PoolByte^(i - 1) \in Nat \ {0} /\ PoolByte^i \in Nat \ {0}
    BY <1>1, PoolPowers
  <1> QED BY <1>1, <1>2, <1>3, Zenon DEF Prod

LEMMA HeightBytes ==
    ASSUME NEW h \in 0..MaxHeight, h > MaxOpcode
    PROVE  /\ NumBytes(h) \in 1..4
           /\ PoolByte^(NumBytes(h) - 1) <= h /\ h < PoolByte^NumBytes(h)
  <1>1. h \in Nat /\ h >= 1 /\ h < PoolByte^4 /\ PoolByte^0 = 1
    <2>1. MaxHeight \in Nat /\ MaxHeight < PoolByte^4
      BY PoolConstants
    <2>2. PoolByte^4 \in Nat
      <3>1. 4 \in 0..4
        OBVIOUS
      <3> QED BY <3>1, PoolPowers
    <2>3. MaxOpcode >= 1 /\ MaxOpcode \in Int
      BY PoolBase DEF MaxOpcode
    <2> QED BY <2>1, <2>2, <2>3, PoolBase
  <1>2. \A k \in 0..4 : PoolByte^k \in Nat
    BY PoolPowers
  <1> DEFINE above == {k \in 0..4 : h < PoolByte^k}
  <1>3. PICK n \in above : \A k \in above : n <= k
    <2>1. above \subseteq Nat /\ 4 \in above
      BY <1>1
    <2> HIDE DEF above
    <2>2. above # {}
      BY <2>1
    <2> QED BY <2>1, <2>2, NatMin
  <1>4. n \in 1..4 /\ h < PoolByte^n
    <2>1. n # 0
      BY <1>1, <1>3
    <2> QED BY <1>3, <2>1
  <1>5. PoolByte^(n - 1) <= h
    <2>1. n - 1 \in 0..4 /\ ~(n <= n - 1)
      BY <1>4
    <2>2. n - 1 \notin above
      <3> HIDE DEF above
      <3> QED BY <1>3, <2>1
    <2>3. ~(h < PoolByte^(n - 1)) /\ PoolByte^(n - 1) \in Nat
      BY <1>2, <2>1, <2>2
    <2> QED BY <1>1, <2>3
  <1> QED BY <1>4, <1>5 DEF NumBytes

LEMMA HeightsReadBack ==
    ASSUME NEW h \in 0..MaxHeight, h > MaxOpcode, h \div PoolByte^(NumBytes(h) - 1) < PoolByte \div 2
    PROVE  ScriptValue(Bip34Push(h)) = h
  <1>1. PICK n \in 1..4, p \in Nat : n = NumBytes(h) /\ p = PoolByte /\ p >= 16
    BY HeightBytes, PoolBase
  <1>2. h \in Nat /\ p^(n - 1) <= h /\ h < p^n
    <2>1. MaxHeight \in Nat
      BY PoolConstants
    <2> QED BY <1>1, <2>1, HeightBytes
  <1>3. \A i \in 1..4 : p^(i - 1) \in Nat \ {0} /\ p^i \in Nat \ {0} /\ p^i = Prod(p, p^(i - 1))
    BY <1>1, PoolSmallPowers
  <1> DEFINE le == LeDigits(h, n)
             push == <<n>> \o le
  <1>4. le \in [1..n -> Nat] /\ \A i \in 1..n : le[i] = Quot(h, p^(i - 1)) % p
    <2>1. \A i \in 1..n : le[i] = Quot(h, p^(i - 1)) % p
      BY <1>1, Zenon DEF LeDigits, Quot
    <2>2. \A i \in 1..n : le[i] \in Nat
      <3> TAKE i \in 1..n
      <3>1. i \in 1..4
        OBVIOUS
      <3>2. PICK q \in Nat \ {0} : q = p^(i - 1)
        BY <1>3, <3>1
      <3>3. PICK x \in Nat : x = Quot(h, q)
        BY <1>2, Division DEF Quot
      <3>4. x % p \in Nat
        BY <1>1
      <3> QED BY <2>1, <3>2, <3>3, <3>4
    <2>3. le = [i \in 1..n |-> le[i]]
      BY Zenon DEF LeDigits
    <2> HIDE DEF le
    <2> QED BY <2>1, <2>2, <2>3
  <1>5. Bip34Push(h) = push
    <2>1. ~(h <= MaxOpcode)
      <3>1. MaxOpcode \in Int
        BY PoolBase DEF MaxOpcode
      <3> QED BY <1>2, <3>1
    <2> QED BY <1>1, <2>1, Zenon DEF Bip34Push, PushLen
  <1> HIDE DEF le
  <1>6. Len(push) - 1 = n /\ push[1] = n /\ \A i \in 1..n : push[i + 1] = le[i]
    <2>1. le \in Seq(Nat) /\ Len(le) = n /\ n \in Nat
      BY <1>4
    <2>2. <<n>> \in Seq(Nat) /\ Len(<<n>>) = 1
      BY <2>1
    <2>3. Len(push) = n + 1 /\ push[1] = n
      BY <2>1, <2>2
    <2>4. ASSUME NEW i \in 1..n PROVE push[i + 1] = le[i]
      BY <2>1, <2>2
    <2> QED BY <2>1, <2>3, <2>4
  <1> HIDE DEF push
  <1>7. push[1] < OpBase /\ push[1] \in Nat
    <2>1. OpBase >= 5 /\ OpBase \in Int
      BY <1>1 DEF OpBase
    <2> QED BY <1>6, <2>1
  <1> DEFINE w == [i \in 1..n |-> le[i] * p^(i - 1)]
  <1>8. w \in [1..n -> Nat] /\ \A i \in 1..n : w[i] = push[i + 1] * PoolByte^(i - 1)
    <2>1. ASSUME NEW i \in 1..n PROVE le[i] * p^(i - 1) \in Nat
      <3>1. i \in 1..4
        OBVIOUS
      <3>2. PICK x \in Nat, y \in Nat : x = le[i] /\ y = p^(i - 1)
        BY <1>3, <1>4, <3>1
      <3>3. x * y \in Nat
        OBVIOUS
      <3> QED BY <3>2, <3>3
    <2>2. ASSUME NEW i \in 1..n PROVE w[i] = push[i + 1] * PoolByte^(i - 1)
      BY <1>1, <1>6, Zenon
    <2> QED BY <2>1, <2>2
  <1>9. \A i \in 1..n : w[i] = Prod(le[i], p^(i - 1))
    BY Zenon DEF Prod
  <1> HIDE DEF w
  <1>10. PICK s \in [0..n -> Nat] :
             /\ s[0] = 0 /\ \A i \in 1..n : s[i] = s[i - 1] + w[i]
             /\ ScriptValue(push) = IF push[n + 1] >= PoolByte \div 2
                                    THEN -(s[n] - (PoolByte \div 2) * PoolByte^(n - 1)) ELSE s[n]
    <2>1. Len(push) - 1 \in 1..4 /\ w \in [1..(Len(push) - 1) -> Nat]
          /\ \A i \in 1..(Len(push) - 1) : w[i] = push[i + 1] * PoolByte^(i - 1)
      BY <1>6, <1>8, Zenon
    <2>2. \E s \in [0..(Len(push) - 1) -> Nat] :
              /\ s[0] = 0 /\ \A i \in 1..(Len(push) - 1) : s[i] = s[i - 1] + w[i]
              /\ ScriptValue(push) =
                    IF push[(Len(push) - 1) + 1] >= PoolByte \div 2
                    THEN -(s[Len(push) - 1] - (PoolByte \div 2) * PoolByte^((Len(push) - 1) - 1))
                    ELSE s[Len(push) - 1]
      BY <1>7, <2>1, ScriptSteps, Zenon
    <2> QED BY <1>6, <2>2, Zenon
  <1> DEFINE S == {i \in 0..n : h = s[i] + Prod(p^i, Quot(h, p^i))}
  <1>11. 0 \in S
    <2>1. p^0 = 1 /\ 0 \in 0..n
      <3>1. p^0 = 1
        BY <1>1, PoolBase, Zenon
      <3>2. 0 \in 0..n
        OBVIOUS
      <3> QED BY <3>1, <3>2
    <2>2. Prod(1, Quot(h, 1)) = h
      BY <1>2 DEF Prod, Quot
    <2> QED BY <1>2, <1>10, <2>1, <2>2
  <1>12. ASSUME NEW i \in 0..(n - 1), i \in S PROVE i + 1 \in S
    <2>1. i + 1 \in 1..n /\ i + 1 \in 1..4 /\ (i + 1) - 1 = i /\ i \in 0..n /\ i + 1 \in 0..n
      OBVIOUS
    <2>2. PICK x \in Nat \ {0} : x = p^i /\ p^(i + 1) = Prod(p, x)
      BY <1>3, <2>1
    <2>3. PICK q \in Nat : q = Quot(h, x)
      BY <1>2, Division DEF Quot
    <2>4. PICK c \in Nat, d \in Nat : c = q \div p /\ d = q % p /\ q = p * c + d
      <3>1. p \in Nat \ {0}
        BY <1>1
      <3> QED BY <3>1, Division, ZenonT(60)
    <2>5. Quot(h, p^(i + 1)) = c
      <3>1. Quot(h, Prod(x, p)) = Quot(Quot(h, x), p)
        <4>1. p \in Nat \ {0} /\ h \in Nat
          BY <1>1, <1>2
        <4> QED BY <4>1, DivideTwice
      <3>2. Prod(x, p) = Prod(p, x)
        BY DEF Prod
      <3>3. Quot(q, p) = c
        BY <2>4 DEF Quot
      <3> QED BY <2>2, <2>3, <3>1, <3>2, <3>3
    <2>6. w[i + 1] = Prod(d, x)
      BY <1>4, <1>9, <2>1, <2>2, <2>3, <2>4
    <2>7. s[i + 1] = s[i] + Prod(d, x) /\ h = s[i] + Prod(x, q)
      BY <1>10, <1>12, <2>1, <2>2, <2>3, <2>6
    <2>8. Prod(x, q) = Prod(d, x) + Prod(Prod(p, x), c)
      <3>1. x * (p * c + d) = d * x + (p * x) * c
        OBVIOUS
      <3> QED BY <2>4, <3>1 DEF Prod
    <2>9. PICK u \in Nat, v \in Nat, z \in Nat : u = s[i] /\ v = Prod(d, x) /\ z = Prod(Prod(p, x), c)
      <3>1. d * x \in Nat /\ p * x \in Nat
        OBVIOUS
      <3>2. (p * x) * c \in Nat
        BY <3>1
      <3> QED BY <2>1, <3>1, <3>2 DEF Prod
    <2>10. h = s[i + 1] + Prod(p^(i + 1), Quot(h, p^(i + 1)))
      <3>1. h = (u + v) + z
        BY <2>7, <2>8, <2>9, SMTT(30)
      <3>2. s[i + 1] = u + v /\ Prod(p^(i + 1), Quot(h, p^(i + 1))) = z
        BY <2>2, <2>5, <2>7, <2>9
      <3> QED BY <3>1, <3>2
    <2> QED BY <2>1, <2>10
  <1>13. n \in S
    <2>1. n \in Nat
      OBVIOUS
    <2>2. \A i \in 0..n : i \in S
      <3> HIDE DEF S
      <3> QED BY <1>11, <1>12, <2>1, NatClimb
    <2> QED BY <2>2
  <1>14. Quot(h, p^n) = 0 /\ s[n] = h
    <2>1. PICK x \in Nat \ {0} : x = p^n /\ h < x
      BY <1>2, <1>3
    <2>2. Quot(h, x) = 0 /\ Prod(x, 0) = 0
      BY <1>2, <2>1, SMTT(30) DEF Quot, Prod
    <2>3. h = s[n] + 0 /\ s[n] \in Nat
      <3>1. h = s[n] + Prod(p^n, Quot(h, p^n))
        BY <1>13
      <3> QED BY <2>1, <2>2, <3>1
    <2> QED BY <2>1, <2>2, <2>3
  <1>15. push[n + 1] < PoolByte \div 2 /\ push[n + 1] \in Nat
    <2>1. PICK q \in Nat : q = Quot(h, p^(n - 1)) /\ q < PoolByte \div 2
      <3>1. p^(n - 1) \in Nat \ {0}
        BY <1>3
      <3>2. Quot(h, p^(n - 1)) \in Nat
        BY <1>2, <3>1, Division DEF Quot
      <3> QED BY <1>1, <3>2 DEF Quot
    <2>2. n \in 1..n
      OBVIOUS
    <2>3. push[n + 1] = q % p
      BY <1>4, <1>6, <2>1, <2>2
    <2>4. q < p
      BY <1>1, <2>1
    <2>5. q % p = q
      BY <1>1, <2>4
    <2> QED BY <2>1, <2>3, <2>5
  <1>16. ~(push[n + 1] >= PoolByte \div 2)
    <2>1. PoolByte \div 2 \in Int
      BY PoolBase
    <2> QED BY <1>15, <2>1
  <1> QED BY <1>5, <1>10, <1>14, <1>16, Zenon

LEMMA CoinbasesRead ==
    (fmt # Empty /\ fmt.kind = "script" => fmt.h \in 0..MaxHeight /\ fmt.tag \in Nat) => CoinbaseWellFormed
  <1> SUFFICES ASSUME fmt # Empty, fmt.kind = "script", fmt.h \in 0..MaxHeight, fmt.tag \in Nat
               PROVE  CoinbaseWellFormed
    BY Zenon DEF CoinbaseWellFormed
  <1>1. PICK h \in Nat, tag \in Nat : h = fmt.h /\ tag = fmt.tag /\ h \in 0..MaxHeight
    BY PoolConstants
  <1>2. MaxOpcode \in Nat /\ OpBase \in Nat /\ ScriptLen \in Nat
    BY PoolBase, PoolConstants DEF MaxOpcode, OpBase
  <1>3. PushBytes(h) \in Nat
    <2>1. h > MaxOpcode => NumBytes(h) \in 1..4
      BY <1>1, HeightBytes
    <2> QED BY <1>2, <2>1 DEF PushBytes, PushLen
  <1>4. ASSUME h <= MaxOpcode \/ h \div PoolByte^(NumBytes(h) - 1) < PoolByte \div 2
        PROVE  ScriptValue(Bip34Push(h)) = h
    <2>1. CASE h <= MaxOpcode
      <3>1. Bip34Push(h) = <<OpBase + h>>
        BY <2>1, Zenon DEF Bip34Push
      <3>2. <<OpBase + h>>[1] = OpBase + h /\ OpBase + h >= OpBase /\ (OpBase + h) - OpBase = h
        BY <1>2
      <3> QED BY <3>1, <3>2, Zenon DEF ScriptValue
    <2>2. CASE ~(h <= MaxOpcode)
      <3>1. h > MaxOpcode
        BY <1>2, <2>2
      <3> QED BY <1>1, <1>4, <2>2, <3>1, HeightsReadBack
    <2> QED BY <2>1, <2>2
  <1>5. PushBytes(h) + 1 + tag + Padding(h, tag) + (6 + 4) + 8 = ScriptLen
    BY <1>2, <1>3 DEF Padding, EnSpace
  <1> QED BY <1>1, <1>4, <1>5, Zenon DEF CoinbaseWellFormed

-----------------------------------------------------------------------------
(* The merkle branch.                                                      *)

IsRow(row) == \E S : row \in Seq(S) /\ row # <<>>

LEMMA RowIs == ASSUME NEW row, IsRow(row) PROVE Len(row) \in Nat \ {0}
  <1>1. PICK S : row \in Seq(S) /\ row # <<>>
    BY DEF IsRow
  <1> QED BY <1>1

\* A row is paired up into a shorter one, the first pair into its first hash.
LEMMA RowUp ==
    ASSUME NEW row, IsRow(row)
    PROVE  /\ IsRow(NextRow(row))
           /\ Len(row) <= 1 => NextRow(row) = row
           /\ Len(row) > 1 => Len(NextRow(row)) < Len(row) /\ NextRow(row)[1] = <<row[1], Pad(row)[2]>>
  <1>1. PICK S : row \in Seq(S) /\ row # <<>>
    BY DEF IsRow
  <1>2. Len(row) \in Nat \ {0} /\ \A i \in 1..Len(row) : row[i] \in S
    BY <1>1
  <1>3. CASE Len(row) <= 1
    BY <1>2, <1>3 DEF NextRow
  <1>4. CASE ~(Len(row) <= 1)
    <2>1. PICK l \in Nat : l = Len(row) /\ l >= 2
      BY <1>2, <1>4
    <2>2. PICK r \in Seq(S), k \in Nat : r = Pad(row) /\ Len(r) = 2 * k /\ 2 * k <= l + 1 /\ k >= 1 /\ r[1] = row[1]
      <3>1. CASE l % 2 = 1
        <4>1. Pad(row) = Append(row, row[l])
          BY <2>1, <3>1 DEF Pad
        <4>2. row[l] \in S
          BY <1>2, <2>1
        <4>3. Append(row, row[l]) \in Seq(S) /\ Len(Append(row, row[l])) = l + 1
              /\ Append(row, row[l])[1] = row[1]
          BY <1>1, <2>1, <4>2
        <4>4. PICK k \in Nat : l + 1 = 2 * k /\ k >= 1
          <5>1. (l + 1) \div 2 \in Nat /\ (l + 1) = 2 * ((l + 1) \div 2) /\ (l + 1) \div 2 >= 1
            BY <2>1, <3>1
          <5> QED BY <5>1
        <4>5. 2 * k <= l + 1
          BY <2>1, <4>4
        <4> QED BY <4>1, <4>3, <4>4, <4>5, Zenon
      <3>2. CASE l % 2 # 1
        <4>1. Pad(row) = row
          BY <2>1, <3>2 DEF Pad
        <4>2. PICK k \in Nat : l = 2 * k /\ k >= 1
          <5>1. l \div 2 \in Nat /\ l = 2 * (l \div 2) /\ l \div 2 >= 1
            BY <2>1, <3>2
          <5> QED BY <5>1
        <4>3. 2 * k <= l + 1 /\ Len(row) = 2 * k
          BY <2>1, <4>2
        <4> QED BY <1>1, <4>1, <4>2, <4>3, Zenon
      <3> QED BY <3>1, <3>2
    <2> DEFINE up == [i \in 1..k |-> <<r[2 * i - 1], r[2 * i]>>]
    <2>3. NextRow(row) = up
      <3>1. Len(r) \div 2 = k
        BY <2>2
      <3> QED BY <1>4, <2>2, <3>1, Zenon DEF NextRow, Parents
    <2>4. up \in [1..k -> S \X S]
      <3>1. ASSUME NEW i \in 1..k PROVE r[2 * i - 1] \in S /\ r[2 * i] \in S
        <4>1. 2 * i - 1 \in 1..Len(r) /\ 2 * i \in 1..Len(r)
          BY <2>2
        <4> QED BY <2>2, <4>1
      <3> QED BY <3>1
    <2>5. up[1] = <<r[1], r[2]>>
      <3>1. 1 \in 1..k /\ 2 * 1 - 1 = 1 /\ 2 * 1 = 2
        BY <2>2
      <3> QED BY <3>1
    <2> HIDE DEF up
    <2>6. up \in Seq(S \X S) /\ Len(up) = k /\ up # <<>>
      BY <2>2, <2>4
    <2>7. IsRow(up)
      BY <2>6 DEF IsRow
    <2>8. k < l
      BY <2>1, <2>2
    <2> QED BY <1>4, <2>1, <2>2, <2>3, <2>5, <2>6, <2>7, <2>8
  <1>5. Len(row) <= 1 \/ ~(Len(row) <= 1)
    OBVIOUS
  <1> QED BY <1>2, <1>3, <1>4, <1>5

\* The rows above a row.
LEMMA RowsAre ==
    ASSUME NEW row, IsRow(row)
    PROVE  /\ Rows(row)[0] = row
           /\ \A k \in 1..Len(row) : Rows(row)[k] = NextRow(Rows(row)[k - 1])
  <1>1. PICK n \in Nat : n = Len(row)
    BY RowIs
  <1> DEFINE Body(f, m) == [k \in 0..m |-> IF k = 0 THEN row ELSE NextRow(f[k - 1])]
             up == CHOOSE f : f = Body(f, n)
             S == {m \in 0..n : \E g : g = Body(g, m)}
  <1>2. 0 \in S
    <2> DEFINE g == [k \in 0..0 |-> row]
    <2>1. g = Body(g, 0)
      <3>1. \A k \in 0..0 : k = 0
        OBVIOUS
      <3> QED BY <3>1
    <2>2. 0 \in 0..n
      OBVIOUS
    <2> HIDE DEF g, Body
    <2> QED BY <2>1, <2>2
  <1>3. ASSUME NEW m \in 0..(n - 1), m \in S PROVE m + 1 \in S
    <2>1. PICK g : g = Body(g, m)
      <3> HIDE DEF Body
      <3> QED BY <1>3
    <2> DEFINE h == [k \in 0..(m + 1) |-> IF k <= m THEN g[k] ELSE NextRow(g[m])]
    <2>2. ASSUME NEW k \in 0..(m + 1) PROVE h[k] = IF k = 0 THEN row ELSE NextRow(h[k - 1])
      <3>1. CASE k = 0
        <4>1. k <= m /\ k \in 0..m
          BY <3>1
        <4>2. g[k] = row
          <5>1. g = [i \in 0..m |-> IF i = 0 THEN row ELSE NextRow(g[i - 1])]
            BY <2>1
          <5> QED BY <3>1, <4>1, <5>1, Zenon
        <4> QED BY <3>1, <4>1, <4>2
      <3>2. CASE k # 0 /\ k <= m
        <4>1. k \in 0..m /\ k - 1 \in 0..(m + 1) /\ k - 1 <= m
          BY <3>2
        <4>2. g[k] = NextRow(g[k - 1])
          <5>1. g = [i \in 0..m |-> IF i = 0 THEN row ELSE NextRow(g[i - 1])]
            BY <2>1
          <5> QED BY <3>2, <4>1, <5>1, Zenon
        <4>3. h[k] = g[k] /\ h[k - 1] = g[k - 1]
          BY <3>2, <4>1
        <4> QED BY <3>2, <4>2, <4>3
      <3>3. CASE ~(k <= m)
        <4>1. k = m + 1 /\ k - 1 = m /\ m \in 0..(m + 1) /\ m <= m /\ k # 0
          BY <3>3
        <4>2. h[k] = NextRow(g[m]) /\ h[m] = g[m]
          BY <3>3, <4>1
        <4> QED BY <4>1, <4>2
      <3> QED BY <3>1, <3>2, <3>3
    <2>3. h = [k \in 0..(m + 1) |-> h[k]]
      OBVIOUS
    <2> HIDE DEF h
    <2>4. h = Body(h, m + 1)
      BY <2>2, <2>3, Zenon
    <2>5. m + 1 \in 0..n
      OBVIOUS
    <2> HIDE DEF Body
    <2> QED BY <2>4, <2>5
  <1>4. n \in S
    <2> HIDE DEF S
    <2>1. \A m \in 0..n : m \in S
      BY <1>2, <1>3, NatClimb
    <2> QED BY <2>1
  <1>5. up = Body(up, n)
    <2> HIDE DEF Body
    <2> QED BY <1>4
  <1>6. Rows(row) = up
    BY <1>1, Zenon DEF Rows
  <1> HIDE DEF up
  <1>7. up = [k \in 0..n |-> IF k = 0 THEN row ELSE NextRow(up[k - 1])]
    BY <1>5
  <1>8. 0 \in 0..n /\ \A k \in 1..n : k \in 0..n /\ k # 0
    OBVIOUS
  <1>9. up[0] = row /\ \A k \in 1..n : up[k] = NextRow(up[k - 1])
    BY <1>7, <1>8, Zenon
  <1> QED BY <1>1, <1>6, <1>9

\* They are rows, and shrink to one hash.
LEMMA RowsShrink ==
    ASSUME NEW row, IsRow(row)
    PROVE  /\ \A k \in 0..Len(row) : IsRow(Rows(row)[k])
           /\ Len(Rows(row)[Len(row)]) <= 1
  <1>1. PICK n \in Nat : n = Len(row)
    BY RowIs
  <1> DEFINE up == Rows(row)
  <1>2. up[0] = row /\ \A k \in 1..n : up[k] = NextRow(up[k - 1])
    BY <1>1, RowsAre
  <1> HIDE DEF up
  <1> DEFINE S == {k \in 0..n : IsRow(up[k]) /\ (Len(up[k]) <= 1 \/ Len(up[k]) <= n - k)}
  <1>3. 0 \in S
    BY <1>1, <1>2
  <1>4. ASSUME NEW k \in 0..(n - 1), k \in S PROVE k + 1 \in S
    <2>1. k + 1 \in 1..n /\ k + 1 \in 0..n /\ (k + 1) - 1 = k
      OBVIOUS
    <2>2. PICK r : r = up[k] /\ IsRow(r) /\ (Len(r) <= 1 \/ Len(r) <= n - k) /\ up[k + 1] = NextRow(r)
      BY <1>2, <1>4, <2>1
    <2>3. PICK a \in Nat, b \in Nat : a = Len(r) /\ b = Len(NextRow(r)) /\ IsRow(NextRow(r))
      BY <2>2, RowIs, RowUp
    <2>4. b <= 1 \/ b <= n - (k + 1)
      <3>1. CASE a <= 1
        BY <2>2, <2>3, <3>1, RowUp
      <3>2. CASE ~(a <= 1)
        <4>1. b < a /\ a <= n - k
          BY <2>2, <2>3, <3>2, RowUp
        <4> QED BY <4>1
      <3> QED BY <3>1, <3>2
    <2> QED BY <2>1, <2>2, <2>3, <2>4
  <1>5. \A k \in 0..n : k \in S
    <2> HIDE DEF S
    <2> QED BY <1>3, <1>4, NatClimb
  <1>6. \A k \in 0..n : IsRow(up[k])
    BY <1>5
  <1>7. Len(up[n]) <= 1
    <2>1. n \in 0..n /\ n - n = 0
      OBVIOUS
    <2>2. Len(up[n]) \in Nat /\ (Len(up[n]) <= 1 \/ Len(up[n]) <= 0)
      BY <1>5, <1>6, <2>1, RowIs
    <2> QED BY <2>2
  <1> QED BY <1>1, <1>6, <1>7 DEF up

LEMMA HeightIs ==
    ASSUME NEW row, IsRow(row)
    PROVE  /\ Height(row) \in 0..Len(row)
           /\ Len(Rows(row)[Height(row)]) <= 1 /\ \A k \in 0..(Height(row) - 1) : Len(Rows(row)[k]) > 1
  <1>1. PICK n \in Nat : n = Len(row)
    BY RowIs
  <1> DEFINE up == Rows(row)
             short == {k \in 0..n : Len(up[k]) <= 1}
             Top(h) == Len(up[h]) <= 1 /\ \A k \in 0..(h - 1) : Len(up[k]) > 1
  <1>2. n \in short /\ \A k \in 0..n : Len(up[k]) \in Nat
    BY <1>1, RowsShrink, RowIs
  <1>3. PICK h \in short : \A k \in short : h <= k
    <2>1. short \subseteq Nat
      OBVIOUS
    <2> HIDE DEF short
    <2>2. short # {}
      BY <1>2
    <2> QED BY <2>1, <2>2, NatMin
  <1>4. h \in 0..n /\ Top(h)
    <2>1. h \in 0..n /\ Len(up[h]) <= 1
      OBVIOUS
    <2>2. ASSUME NEW k \in 0..(h - 1) PROVE Len(up[k]) > 1
      <3>1. k \in 0..n /\ ~(h <= k)
        BY <2>1
      <3>2. k \notin short
        <4> HIDE DEF short
        <4> QED BY <1>3, <3>1
      <3>3. ~(Len(up[k]) <= 1) /\ Len(up[k]) \in Nat
        BY <1>2, <3>1, <3>2
      <3> QED BY <3>3
    <2> QED BY <2>1, <2>2
  <1>5. Height(row) = CHOOSE k \in 0..n : Top(k)
    BY <1>1, Zenon DEF Height
  <1> HIDE DEF Top
  <1>6. Height(row) \in 0..n /\ Top(Height(row))
    BY <1>4, <1>5
  <1> QED BY <1>1, <1>6 DEF Top

\* Climbing a branch along the first hashes of rows that it pairs.
LEMMA Climbs ==
    ASSUME NEW leaf, NEW branch, NEW n \in Nat, Len(branch) = n,
           NEW g, g[0] = leaf, \A k \in 1..n : g[k] = <<g[k - 1], branch[k]>>
    PROVE  ClimbUp(leaf, branch) = g[n]
  <1> DEFINE Body(f) == [k \in 0..n |-> IF k = 0 THEN leaf ELSE <<f[k - 1], branch[k]>>]
             c == CHOOSE f : f = Body(f)
             d == [k \in 0..n |-> g[k]]
  <1>1. ClimbUp(leaf, branch) = c[n]
    BY Zenon DEF ClimbUp
  <1>2. d = Body(d)
    <2>1. ASSUME NEW k \in 0..n PROVE d[k] = IF k = 0 THEN leaf ELSE <<d[k - 1], branch[k]>>
      <3>1. CASE k = 0
        BY <3>1
      <3>2. CASE k # 0
        <4>1. k \in 1..n /\ k - 1 \in 0..n
          BY <3>2
        <4> QED BY <3>2, <4>1
      <3> QED BY <3>1, <3>2
    <2>2. d = [k \in 0..n |-> d[k]]
      OBVIOUS
    <2> HIDE DEF d
    <2> QED BY <2>1, <2>2, Zenon
  <1>3. c = Body(c)
    <2> HIDE DEF Body, d
    <2> QED BY <1>2
  <1> HIDE DEF c
  <1>4. c = [k \in 0..n |-> IF k = 0 THEN leaf ELSE <<c[k - 1], branch[k]>>]
    BY <1>3
  <1> DEFINE S == {k \in 0..n : c[k] = g[k]}
  <1>5. 0 \in S
    <2>1. 0 \in 0..n
      OBVIOUS
    <2>2. c[0] = leaf
      BY <1>4, <2>1, Zenon
    <2> QED BY <2>1, <2>2
  <1>6. ASSUME NEW k \in 0..(n - 1), k \in S PROVE k + 1 \in S
    <2>1. k + 1 \in 0..n /\ k + 1 # 0 /\ k + 1 \in 1..n /\ (k + 1) - 1 = k
      OBVIOUS
    <2>2. c[k + 1] = <<c[(k + 1) - 1], branch[k + 1]>>
      BY <1>4, <2>1, Zenon
    <2>3. g[k + 1] = <<g[(k + 1) - 1], branch[k + 1]>>
      BY <2>1
    <2> QED BY <1>6, <2>1, <2>2, <2>3
  <1>7. c[n] = g[n]
    <2>1. \A k \in 0..n : k \in S
      <3> HIDE DEF S
      <3> QED BY <1>5, <1>6, NatClimb
    <2>2. n \in 0..n
      OBVIOUS
    <2> QED BY <2>1, <2>2
  <1> QED BY <1>1, <1>7

LEMMA BranchesClimb ==
    ASSUME NEW row, IsRow(row)
    PROVE  ClimbUp(row[1], Branch(row)) = Digest(row)
  <1>1. PICK n \in Nat, h \in Nat : n = Len(row) /\ h = Height(row) /\ h <= n
    BY RowIs, HeightIs
  <1> DEFINE up == Rows(row)
             b == Branch(row)
             g == [k \in 0..h |-> up[k][1]]
  <1>2. up[0] = row /\ \A k \in 1..n : up[k] = NextRow(up[k - 1])
    BY <1>1, RowsAre
  <1>3. \A k \in 0..(h - 1) : IsRow(up[k]) /\ Len(up[k]) > 1
    <2> HIDE DEF up
    <2>1. (\A k \in 0..n : IsRow(up[k])) /\ \A k \in 0..(h - 1) : Len(up[k]) > 1
      BY <1>1, RowsShrink, HeightIs, Zenon DEF up
    <2>2. \A k \in 0..(h - 1) : k \in 0..n
      BY <1>1
    <2> QED BY <2>1, <2>2, Zenon
  <1>4. \A k \in 1..h : b[k] = Pad(up[k - 1])[2]
    BY <1>1, Zenon DEF Branch
  <1>5. Len(b) = h
    <2> DEFINE T == {b[k] : k \in 1..h}
    <2>1. b = [k \in 1..h |-> b[k]]
      BY <1>1, Zenon DEF Branch
    <2> HIDE DEF b
    <2>2. b \in [1..h -> T]
      BY <2>1
    <2> HIDE DEF T
    <2> QED BY <2>2
  <1> HIDE DEF up, b
  <1>6. g[0] = row[1] /\ \A k \in 1..h : g[k] = <<g[k - 1], b[k]>>
    <2>1. g[0] = row[1]
      BY <1>2
    <2>2. ASSUME NEW k \in 1..h PROVE g[k] = <<g[k - 1], b[k]>>
      <3>1. k \in 0..h /\ k - 1 \in 0..h /\ k - 1 \in 0..(h - 1) /\ k \in 1..n
        BY <1>1
      <3>2. PICK r : r = up[k - 1] /\ IsRow(r) /\ Len(r) > 1 /\ up[k] = NextRow(r)
        BY <1>2, <1>3, <3>1
      <3>3. NextRow(r)[1] = <<r[1], Pad(r)[2]>>
        BY <3>2, RowUp
      <3>4. g[k] = up[k][1] /\ g[k - 1] = up[k - 1][1]
        BY <3>1
      <3> QED BY <1>4, <3>2, <3>3, <3>4
    <2> QED BY <2>1, <2>2
  <1>7. g[h] = up[h][1]
    OBVIOUS
  <1> HIDE DEF g
  <1>8. ClimbUp(row[1], b) = g[h]
    BY <1>5, <1>6, Climbs
  <1>9. Digest(row) = up[h][1]
    <2>1. row # <<>>
      BY DEF IsRow
    <2> QED BY <1>1, <2>1, Zenon DEF Digest, up
  <1> QED BY <1>7, <1>8, <1>9 DEF b

LEMMA TreesClimb ==
    (fmt # Empty /\ fmt.kind = "branch" => fmt.n \in Nat) => BranchClimbsToDigest
  <1> SUFFICES ASSUME fmt # Empty, fmt.kind = "branch", fmt.n > 0, fmt.n \in Nat
               PROVE  ClimbUp(<<1>>, Branch(Txs(fmt.n))) = Digest(Txs(fmt.n))
    BY Zenon DEF BranchClimbsToDigest
  <1>1. PICK n \in Nat \ {0} : n = fmt.n
    OBVIOUS
  <1>2. Txs(n) \in [1..n -> {<<i>> : i \in 1..n}] /\ Txs(n)[1] = <<1>>
    BY DEF Txs
  <1>3. IsRow(Txs(n))
    <2> DEFINE T == {<<i>> : i \in 1..n}
    <2>1. Txs(n) \in [1..n -> T]
      BY <1>2
    <2> HIDE DEF T
    <2>2. Txs(n) \in Seq(T) /\ Len(Txs(n)) = n
      BY <2>1, ArrayLength
    <2>3. Txs(n) # <<>>
      BY <2>2
    <2> QED BY <2>2, <2>3 DEF IsRow
  <1> QED BY <1>1, <1>2, <1>3, BranchesClimb

-----------------------------------------------------------------------------
(* Payout addresses.                                                       *)

LEMMA SmallPowers ==
    /\ 2^0 = 1 /\ 2^1 = 2 /\ 2^2 = 4 /\ 2^3 = 8 /\ 2^4 = 16 /\ 2^5 = 32 /\ 2^6 = 64 /\ 2^7 = 128
  <1>1. /\ 2^(0 + 1) = 2 * 2^0 /\ 2^(1 + 1) = 2 * 2^1 /\ 2^(2 + 1) = 2 * 2^2 /\ 2^(3 + 1) = 2 * 2^3
        /\ 2^(4 + 1) = 2 * 2^4 /\ 2^(5 + 1) = 2 * 2^5 /\ 2^(6 + 1) = 2 * 2^6 /\ 2^0 = 1
    BY PoolBase
  <1> QED BY <1>1

Accs == [bits : Nat, n : 0..7, out : Seq(Nat)]

IsAcc(t, b, n, out) == t = [bits |-> b, n |-> n, out |-> out]

\* A group that completes no byte, and one that completes the byte c.
Stays(s, t, b, n, out, g, a, k) ==
    IsAcc(s, b, n, out) /\ t = Shift(s, g) /\ b * 32 + g = a /\ n + 5 = k /\ k < 8
Gives(s, t, b, n, out, g, a, m, k, e, r, c) ==
    /\ IsAcc(s, b, n, out) /\ t = Shift(s, g) /\ b * 32 + g = a
    /\ n + 5 = m /\ ~(m < 8) /\ m - 8 = k /\ 2^k = e
    /\ a % e = r /\ (a \div e) % 256 = c

LEMMA ShiftStays ==
    ASSUME NEW s, NEW t, NEW b, NEW n, NEW out, NEW g, NEW a, NEW k, Stays(s, t, b, n, out, g, a, k)
    PROVE  IsAcc(t, a, k, out)
  <1>1. s = [bits |-> b, n |-> n, out |-> out]
    BY Zenon DEF Stays, IsAcc
  <1>2. s.bits = b /\ s.n = n /\ s.out = out
    BY <1>1
  <1> QED BY <1>2, Zenon DEF Stays, IsAcc, Shift

LEMMA ShiftGives ==
    ASSUME NEW s, NEW t, NEW b, NEW n, NEW out, NEW g, NEW a, NEW m, NEW k, NEW e, NEW r, NEW c,
           Gives(s, t, b, n, out, g, a, m, k, e, r, c)
    PROVE  IsAcc(t, r, k, Append(out, c))
  <1>1. s = [bits |-> b, n |-> n, out |-> out]
    BY Zenon DEF Gives, IsAcc
  <1>2. s.bits = b /\ s.n = n /\ s.out = out
    BY <1>1
  <1> QED BY <1>2, Zenon DEF Gives, IsAcc, Shift

LEMMA ShiftTyped ==
    ASSUME NEW acc \in Accs, NEW g \in 0..31
    PROVE  Shift(acc, g) \in Accs
  <1>1. PICK b \in Nat, n \in 0..7, out \in Seq(Nat) : IsAcc(acc, b, n, out)
    <2>1. /\ acc.bits \in Nat /\ acc.n \in 0..7 /\ acc.out \in Seq(Nat)
          /\ acc = [bits |-> acc.bits, n |-> acc.n, out |-> acc.out]
      BY DEF Accs
    <2> QED BY <2>1 DEF IsAcc
  <1>2. PICK a \in Nat, m \in 5..12 : b * 32 + g = a /\ n + 5 = m
    <2>1. b * 32 + g \in Nat /\ n + 5 \in 5..12
      OBVIOUS
    <2> QED BY <2>1
  <1>3. CASE m < 8
    <2>1. Stays(acc, Shift(acc, g), b, n, out, g, a, m)
      BY <1>1, <1>2, <1>3, Zenon DEF Stays
    <2>2. IsAcc(Shift(acc, g), a, m, out)
      BY <2>1, ShiftStays
    <2> QED BY <1>3, <2>2 DEF IsAcc, Accs
  <1>4. CASE ~(m < 8)
    <2>1. PICK k \in 0..4 : m - 8 = k
      BY <1>4
    <2>2. PICK e \in {1, 2, 4, 8, 16} : 2^k = e
      <3>1. k = 0 \/ k = 1 \/ k = 2 \/ k = 3 \/ k = 4
        OBVIOUS
      <3>2. 2^k = 1 \/ 2^k = 2 \/ 2^k = 4 \/ 2^k = 8 \/ 2^k = 16
        BY <3>1, SmallPowers, ZenonT(60)
      <3> QED BY <3>2
    <2>3. PICK r \in Nat, c \in Nat : a % e = r /\ (a \div e) % 256 = c
      <3>1. a % e \in Nat /\ a \div e \in Nat
        <4>1. e = 1 \/ e = 2 \/ e = 4 \/ e = 8 \/ e = 16
          OBVIOUS
        <4>2. /\ a % 1 \in Nat /\ a % 2 \in Nat /\ a % 4 \in Nat /\ a % 8 \in Nat /\ a % 16 \in Nat
              /\ a \div 1 \in Nat /\ a \div 2 \in Nat /\ a \div 4 \in Nat /\ a \div 8 \in Nat /\ a \div 16 \in Nat
          OBVIOUS
        <4> QED BY <4>1, <4>2, Zenon
      <3>2. \A q \in Nat : q % 256 \in Nat
        OBVIOUS
      <3> QED BY <3>1, <3>2, ZenonT(60)
    <2>4. Gives(acc, Shift(acc, g), b, n, out, g, a, m, k, e, r, c)
      BY <1>1, <1>2, <1>4, <2>1, <2>2, <2>3, Zenon DEF Gives
    <2>5. IsAcc(Shift(acc, g), r, k, Append(out, c))
      BY <2>4, ShiftGives
    <2>6. Append(out, c) \in Seq(Nat) /\ k \in 0..7
      OBVIOUS
    <2> QED BY <2>5, <2>6 DEF IsAcc, Accs
  <1> QED BY <1>3, <1>4

LEMMA GroupSteps ==
    ASSUME NEW groups \in [1..8 -> 0..31]
    PROVE  \E s : /\ s[0] = [bits |-> 0, n |-> 0, out |-> <<>>]
                  /\ \A k \in 1..8 : s[k] = Shift(s[k - 1], groups[k])
                  /\ Regroup(groups) = s[8].out
  <1> DEFINE start == [bits |-> 0, n |-> 0, out |-> <<>>]
             F == [k \in 1..8 |-> [acc \in Accs |-> Shift(acc, groups[k])]]
             Body(f) == [k \in 0..8 |-> IF k = 0 THEN start ELSE Shift(f[k - 1], groups[k])]
             s == CHOOSE f : f = Body(f)
  <1>1. Len(groups) = 8
    OBVIOUS
  <1>2. Regroup(groups) = s[8].out
    BY <1>1, Zenon DEF Regroup
  <1>3. start \in Accs
    BY DEF Accs
  <1>4. F \in [1..8 -> [Accs -> Accs]] /\ \A k \in 1..8 : \A acc \in Accs : F[k][acc] = Shift(acc, groups[k])
    <2>1. ASSUME NEW k \in 1..8, NEW acc \in Accs PROVE Shift(acc, groups[k]) \in Accs
      <3>1. groups[k] \in 0..31
        OBVIOUS
      <3> QED BY <3>1, ShiftTyped
    <2> QED BY <2>1
  <1> HIDE DEF F, start
  <1>5. PICK g \in [0..8 -> Accs] : g[0] = start /\ \A k \in 1..8 : g[k] = F[k][g[k - 1]]
    <2>1. \E g \in [0..8 -> Accs] : Steps(g, 8, start, F)
      BY <1>3, <1>4, Recursion
    <2> QED BY <2>1, Zenon DEF Steps
  <1>6. g = Body(g)
    <2>1. ASSUME NEW k \in 0..8 PROVE g[k] = IF k = 0 THEN start ELSE Shift(g[k - 1], groups[k])
      <3>1. CASE k = 0
        BY <1>5, <3>1
      <3>2. CASE k # 0
        <4>1. k \in 1..8 /\ k - 1 \in 0..8
          BY <3>2
        <4>2. g[k - 1] \in Accs /\ g[k] = F[k][g[k - 1]]
          BY <1>5, <4>1
        <4> QED BY <1>4, <3>2, <4>1, <4>2, Zenon
      <3> QED BY <3>1, <3>2
    <2>2. g = [k \in 0..8 |-> g[k]]
      OBVIOUS
    <2> QED BY <2>1, <2>2, Zenon
  <1>7. s = Body(s)
    <2> HIDE DEF Body
    <2> QED BY <1>6
  <1> HIDE DEF s
  <1>8. s = [k \in 0..8 |-> IF k = 0 THEN start ELSE Shift(s[k - 1], groups[k])]
    BY <1>7
  <1>9. 0 \in 0..8 /\ \A k \in 1..8 : k \in 0..8 /\ k # 0
    OBVIOUS
  <1>10. s[0] = start /\ \A k \in 1..8 : s[k] = Shift(s[k - 1], groups[k])
    BY <1>8, <1>9, Zenon
  <1> QED BY <1>2, <1>10 DEF start

\* Groups two, four, five and seven lie across two bytes.
Across(groups, h2, l2, h4, l4, h5, l5, h7, l7) ==
    /\ groups \in [1..8 -> 0..31]
    /\ h2 \in 0..7 /\ l2 \in 0..3 /\ groups[2] = 4 * h2 + l2
    /\ h4 \in 0..1 /\ l4 \in 0..15 /\ groups[4] = 16 * h4 + l4
    /\ h5 \in 0..15 /\ l5 \in 0..1 /\ groups[5] = 2 * h5 + l5
    /\ h7 \in 0..3 /\ l7 \in 0..7 /\ groups[7] = 8 * h7 + l7

\* The bytes that eight groups make.
LEMMA BytesAre ==
    ASSUME NEW groups, NEW h2, NEW l2, NEW h4, NEW l4, NEW h5, NEW l5, NEW h7, NEW l7,
           Across(groups, h2, l2, h4, l4, h5, l5, h7, l7)
    PROVE  Regroup(groups) =
              <<groups[1] * 8 + h2, l2 * 64 + groups[3] * 2 + h4, l4 * 16 + h5,
                l5 * 128 + groups[6] * 4 + h7, l7 * 32 + groups[8]>>
  <1>1. PICK g1 \in 0..31, g2 \in 0..31, g3 \in 0..31, g4 \in 0..31,
             g5 \in 0..31, g6 \in 0..31, g7 \in 0..31, g8 \in 0..31 :
                /\ groups[1] = g1 /\ groups[2] = g2 /\ groups[3] = g3 /\ groups[4] = g4
                /\ groups[5] = g5 /\ groups[6] = g6 /\ groups[7] = g7 /\ groups[8] = g8
    <2>1. /\ groups[1] \in 0..31 /\ groups[2] \in 0..31 /\ groups[3] \in 0..31 /\ groups[4] \in 0..31
          /\ groups[5] \in 0..31 /\ groups[6] \in 0..31 /\ groups[7] \in 0..31 /\ groups[8] \in 0..31
      BY DEF Across
    <2> QED BY <2>1, Zenon
  <1>2. PICK s : /\ s[0] = [bits |-> 0, n |-> 0, out |-> <<>>]
                 /\ \A k \in 1..8 : s[k] = Shift(s[k - 1], groups[k])
                 /\ Regroup(groups) = s[8].out
    <2>1. groups \in [1..8 -> 0..31]
      BY DEF Across
    <2> QED BY <2>1, GroupSteps
  <1>3. /\ s[1] = Shift(s[0], g1) /\ s[2] = Shift(s[1], g2) /\ s[3] = Shift(s[2], g3) /\ s[4] = Shift(s[3], g4)
        /\ s[5] = Shift(s[4], g5) /\ s[6] = Shift(s[5], g6) /\ s[7] = Shift(s[6], g7) /\ s[8] = Shift(s[7], g8)
    <2>1. /\ s[1] = Shift(s[1 - 1], groups[1]) /\ s[2] = Shift(s[2 - 1], groups[2])
          /\ s[3] = Shift(s[3 - 1], groups[3]) /\ s[4] = Shift(s[4 - 1], groups[4])
          /\ s[5] = Shift(s[5 - 1], groups[5]) /\ s[6] = Shift(s[6 - 1], groups[6])
          /\ s[7] = Shift(s[7 - 1], groups[7]) /\ s[8] = Shift(s[8 - 1], groups[8])
      BY <1>2
    <2>2. 1 - 1 = 0 /\ 2 - 1 = 1 /\ 3 - 1 = 2 /\ 4 - 1 = 3 /\ 5 - 1 = 4 /\ 6 - 1 = 5 /\ 7 - 1 = 6 /\ 8 - 1 = 7
      OBVIOUS
    <2> QED BY <1>1, <2>1, <2>2, Zenon
  <1>4. /\ h2 \in 0..7 /\ l2 \in 0..3 /\ g2 = 4 * h2 + l2 /\ h4 \in 0..1 /\ l4 \in 0..15 /\ g4 = 16 * h4 + l4
        /\ h5 \in 0..15 /\ l5 \in 0..1 /\ g5 = 2 * h5 + l5 /\ h7 \in 0..3 /\ l7 \in 0..7 /\ g7 = 8 * h7 + l7
    BY <1>1, Zenon DEF Across
  <1>5. PICK o1 \in 0..255, o2 \in 0..255, o3 \in 0..255, o4 \in 0..255, o5 \in 0..255 :
            /\ o1 = g1 * 8 + h2 /\ o2 = l2 * 64 + g3 * 2 + h4 /\ o3 = l4 * 16 + h5
            /\ o4 = l5 * 128 + g6 * 4 + h7 /\ o5 = l7 * 32 + g8
    <2>1. g1 * 8 + h2 \in 0..255 /\ l2 * 64 + g3 * 2 + h4 \in 0..255 /\ l4 * 16 + h5 \in 0..255
      BY <1>4
    <2>2. l5 * 128 + g6 * 4 + h7 \in 0..255 /\ l7 * 32 + g8 \in 0..255
      BY <1>4
    <2> QED BY <2>1, <2>2, Zenon
  <1>6. PICK p1, p2, p3, p4, p5 : /\ p1 = Append(<<>>, o1) /\ p2 = Append(p1, o2) /\ p3 = Append(p2, o3)
                                  /\ p4 = Append(p3, o4) /\ p5 = Append(p4, o5)
    OBVIOUS
  <1>7. p5 = <<o1, o2, o3, o4, o5>>
    <2>1. p1 \in Seq(Nat) /\ Len(p1) = 1 /\ p1[1] = o1
      BY <1>6
    <2>2. p2 \in Seq(Nat) /\ Len(p2) = 2 /\ p2[1] = o1 /\ p2[2] = o2
      BY <1>6, <2>1
    <2>3. p3 \in Seq(Nat) /\ Len(p3) = 3 /\ p3[1] = o1 /\ p3[2] = o2 /\ p3[3] = o3
      BY <1>6, <2>2
    <2>4. p4 \in Seq(Nat) /\ Len(p4) = 4 /\ p4[1] = o1 /\ p4[2] = o2 /\ p4[3] = o3 /\ p4[4] = o4
      BY <1>6, <2>3
    <2>5. /\ p5 \in Seq(Nat) /\ Len(p5) = 5
          /\ p5[1] = o1 /\ p5[2] = o2 /\ p5[3] = o3 /\ p5[4] = o4 /\ p5[5] = o5
      BY <1>6, <2>4
    <2> QED BY <2>5
  <1>8. IsAcc(s[0], 0, 0, <<>>)
    BY <1>2, Zenon DEF IsAcc
  <1>9. IsAcc(s[1], g1, 5, <<>>)
    <2>1. 0 * 32 + g1 = g1 /\ 0 + 5 = 5 /\ 5 < 8
      OBVIOUS
    <2>2. Stays(s[0], s[1], 0, 0, <<>>, g1, g1, 5)
      BY <1>3, <1>8, <2>1, Zenon DEF Stays
    <2> QED BY <2>2, ShiftStays
  <1>10. IsAcc(s[2], l2, 2, p1)
    <2>1. PICK a \in Nat : g1 * 32 + g2 = a /\ a = 4 * o1 + l2
      <3>1. g1 * 32 + g2 \in Nat /\ g1 * 32 + g2 = 4 * o1 + l2
        BY <1>4, <1>5
      <3> QED BY <3>1
    <2>2. 5 + 5 = 10 /\ ~(10 < 8) /\ 10 - 8 = 2 /\ a % 4 = l2 /\ (a \div 4) % 256 = o1
      BY <1>4, <2>1
    <2>3. Gives(s[1], s[2], g1, 5, <<>>, g2, a, 10, 2, 4, l2, o1)
      BY <1>3, <1>9, <2>1, <2>2, SmallPowers, Zenon DEF Gives
    <2>4. IsAcc(s[2], l2, 2, Append(<<>>, o1))
      BY <2>3, ShiftGives
    <2> QED BY <1>6, <2>4, Zenon
  <1>11. PICK b \in Nat : l2 * 32 + g3 = b
    <2>1. l2 * 32 + g3 \in Nat
      BY <1>4
    <2> QED BY <2>1
  <1>12. IsAcc(s[3], b, 7, p1)
    <2>1. l2 * 32 + g3 = b /\ 2 + 5 = 7 /\ 7 < 8
      BY <1>11
    <2>2. Stays(s[2], s[3], l2, 2, p1, g3, b, 7)
      BY <1>3, <1>10, <2>1, Zenon DEF Stays
    <2> QED BY <2>2, ShiftStays
  <1>13. IsAcc(s[4], l4, 4, p2)
    <2>1. PICK a \in Nat : b * 32 + g4 = a /\ a = 16 * o2 + l4
      <3>1. b * 32 + g4 \in Nat /\ b * 32 + g4 = 16 * o2 + l4
        BY <1>4, <1>5, <1>11
      <3> QED BY <3>1
    <2>2. 7 + 5 = 12 /\ ~(12 < 8) /\ 12 - 8 = 4 /\ a % 16 = l4 /\ (a \div 16) % 256 = o2
      BY <1>4, <2>1
    <2>3. Gives(s[3], s[4], b, 7, p1, g4, a, 12, 4, 16, l4, o2)
      BY <1>3, <1>12, <2>1, <2>2, SmallPowers, Zenon DEF Gives
    <2>4. IsAcc(s[4], l4, 4, Append(p1, o2))
      BY <2>3, ShiftGives
    <2> QED BY <1>6, <2>4, Zenon
  <1>14. IsAcc(s[5], l5, 1, p3)
    <2>1. PICK a \in Nat : l4 * 32 + g5 = a /\ a = 2 * o3 + l5
      <3>1. l4 * 32 + g5 \in Nat /\ l4 * 32 + g5 = 2 * o3 + l5
        BY <1>4, <1>5
      <3> QED BY <3>1
    <2>2. 4 + 5 = 9 /\ ~(9 < 8) /\ 9 - 8 = 1 /\ a % 2 = l5 /\ (a \div 2) % 256 = o3
      BY <1>4, <2>1
    <2>3. Gives(s[4], s[5], l4, 4, p2, g5, a, 9, 1, 2, l5, o3)
      BY <1>3, <1>13, <2>1, <2>2, SmallPowers, Zenon DEF Gives
    <2>4. IsAcc(s[5], l5, 1, Append(p2, o3))
      BY <2>3, ShiftGives
    <2> QED BY <1>6, <2>4, Zenon
  <1>15. PICK d \in Nat : l5 * 32 + g6 = d
    <2>1. l5 * 32 + g6 \in Nat
      BY <1>4
    <2> QED BY <2>1
  <1>16. IsAcc(s[6], d, 6, p3)
    <2>1. l5 * 32 + g6 = d /\ 1 + 5 = 6 /\ 6 < 8
      BY <1>15
    <2>2. Stays(s[5], s[6], l5, 1, p3, g6, d, 6)
      BY <1>3, <1>14, <2>1, Zenon DEF Stays
    <2> QED BY <2>2, ShiftStays
  <1>17. IsAcc(s[7], l7, 3, p4)
    <2>1. PICK a \in Nat : d * 32 + g7 = a /\ a = 8 * o4 + l7
      <3>1. d * 32 + g7 \in Nat /\ d * 32 + g7 = 8 * o4 + l7
        BY <1>4, <1>5, <1>15
      <3> QED BY <3>1
    <2>2. 6 + 5 = 11 /\ ~(11 < 8) /\ 11 - 8 = 3 /\ a % 8 = l7 /\ (a \div 8) % 256 = o4
      BY <1>4, <2>1
    <2>3. Gives(s[6], s[7], d, 6, p3, g7, a, 11, 3, 8, l7, o4)
      BY <1>3, <1>16, <2>1, <2>2, SmallPowers, Zenon DEF Gives
    <2>4. IsAcc(s[7], l7, 3, Append(p3, o4))
      BY <2>3, ShiftGives
    <2> QED BY <1>6, <2>4, Zenon
  <1>18. IsAcc(s[8], 0, 0, p5)
    <2>1. PICK a \in Nat : l7 * 32 + g8 = a /\ a = 1 * o5 + 0
      <3>1. l7 * 32 + g8 \in Nat /\ l7 * 32 + g8 = 1 * o5 + 0
        BY <1>4, <1>5
      <3> QED BY <3>1
    <2>2. 3 + 5 = 8 /\ ~(8 < 8) /\ 8 - 8 = 0 /\ a % 1 = 0 /\ (a \div 1) % 256 = o5
      BY <1>4, <2>1
    <2>3. Gives(s[7], s[8], l7, 3, p4, g8, a, 8, 0, 1, 0, o5)
      BY <1>3, <1>17, <2>1, <2>2, SmallPowers, Zenon DEF Gives
    <2>4. IsAcc(s[8], 0, 0, Append(p4, o5))
      BY <2>3, ShiftGives
    <2> QED BY <1>6, <2>4, Zenon
  <1>19. s[8].out = p5
    <2>1. s[8] = [bits |-> 0, n |-> 0, out |-> p5]
      BY <1>18, Zenon DEF IsAcc
    <2> QED BY <2>1
  <1> QED BY <1>1, <1>2, <1>5, <1>7, <1>19, Zenon

\* The bits of numbers of five and of eight bits.
LEMMA FiveBits ==
    ASSUME NEW g \in 0..31
    PROVE  \E a \in 0..1, b \in 0..1, c \in 0..1, d \in 0..1, e \in 0..1 :
              /\ g = 16 * a + 8 * b + 4 * c + 2 * d + e
              /\ Bit(g, 4) = a /\ Bit(g, 3) = b /\ Bit(g, 2) = c /\ Bit(g, 1) = d /\ Bit(g, 0) = e
  <1>1. PICK a \in 0..1, x \in 0..15 : g = 16 * a + x
    <2>1. g \div 16 \in 0..1 /\ g % 16 \in 0..15 /\ g = 16 * (g \div 16) + (g % 16)
      OBVIOUS
    <2> QED BY <2>1
  <1>2. PICK b \in 0..1, y \in 0..7 : x = 8 * b + y
    <2>1. x \div 8 \in 0..1 /\ x % 8 \in 0..7 /\ x = 8 * (x \div 8) + (x % 8)
      OBVIOUS
    <2> QED BY <2>1
  <1>3. PICK c \in 0..1, z \in 0..3 : y = 4 * c + z
    <2>1. y \div 4 \in 0..1 /\ y % 4 \in 0..3 /\ y = 4 * (y \div 4) + (y % 4)
      OBVIOUS
    <2> QED BY <2>1
  <1>4. PICK d \in 0..1, e \in 0..1 : z = 2 * d + e
    <2>1. z \div 2 \in 0..1 /\ z % 2 \in 0..1 /\ z = 2 * (z \div 2) + (z % 2)
      OBVIOUS
    <2> QED BY <2>1
  <1>5. g = 16 * a + 8 * b + 4 * c + 2 * d + e
    BY <1>1, <1>2, <1>3, <1>4
  <1>6. /\ (g \div 16) % 2 = a /\ (g \div 8) % 2 = b /\ (g \div 4) % 2 = c /\ (g \div 2) % 2 = d
        /\ (g \div 1) % 2 = e
    BY <1>5
  <1>7. Bit(g, 4) = a /\ Bit(g, 3) = b /\ Bit(g, 2) = c /\ Bit(g, 1) = d /\ Bit(g, 0) = e
    BY <1>6, SmallPowers, Zenon DEF Bit
  <1> QED BY <1>5, <1>7

LEMMA EightBits ==
    ASSUME NEW a \in 0..1, NEW b \in 0..1, NEW c \in 0..1, NEW d \in 0..1,
           NEW e \in 0..1, NEW f \in 0..1, NEW g \in 0..1, NEW h \in 0..1, NEW x,
           x = 128 * a + 64 * b + 32 * c + 16 * d + 8 * e + 4 * f + 2 * g + h
    PROVE  /\ Bit(x, 7) = a /\ Bit(x, 6) = b /\ Bit(x, 5) = c /\ Bit(x, 4) = d
           /\ Bit(x, 3) = e /\ Bit(x, 2) = f /\ Bit(x, 1) = g /\ Bit(x, 0) = h
  <1>1. (x \div 128) % 2 = a
    OBVIOUS
  <1>2. (x \div 64) % 2 = b
    OBVIOUS
  <1>3. (x \div 32) % 2 = c
    OBVIOUS
  <1>4. (x \div 16) % 2 = d
    OBVIOUS
  <1>5. (x \div 8) % 2 = e
    OBVIOUS
  <1>6. (x \div 4) % 2 = f
    OBVIOUS
  <1>7. (x \div 2) % 2 = g
    OBVIOUS
  <1>8. (x \div 1) % 2 = h
    OBVIOUS
  <1> QED BY <1>1, <1>2, <1>3, <1>4, <1>5, <1>6, <1>7, <1>8, SmallPowers, ZenonT(60) DEF Bit

LEMMA BitsInOrder ==
    ASSUME NEW groups \in [1..8 -> 0..31]
    PROVE  LET out == Regroup(groups)
           IN  /\ Len(out) = (5 * Len(groups)) \div 8
               /\ \A k \in 0..(8 * Len(out) - 1) :
                     Bit(out[1 + (k \div 8)], 7 - (k % 8)) = Bit(groups[1 + (k \div 5)], 4 - (k % 5))
  <1>1. PICK g1 \in 0..31, g2 \in 0..31, g3 \in 0..31, g4 \in 0..31,
             g5 \in 0..31, g6 \in 0..31, g7 \in 0..31, g8 \in 0..31 :
                /\ groups[1] = g1 /\ groups[2] = g2 /\ groups[3] = g3 /\ groups[4] = g4
                /\ groups[5] = g5 /\ groups[6] = g6 /\ groups[7] = g7 /\ groups[8] = g8
    <2>1. /\ groups[1] \in 0..31 /\ groups[2] \in 0..31 /\ groups[3] \in 0..31 /\ groups[4] \in 0..31
          /\ groups[5] \in 0..31 /\ groups[6] \in 0..31 /\ groups[7] \in 0..31 /\ groups[8] \in 0..31
      OBVIOUS
    <2> QED BY <2>1, Zenon
  <1>2. PICK a1 \in 0..1, b1 \in 0..1, c1 \in 0..1, d1 \in 0..1, e1 \in 0..1 :
            /\ g1 = 16 * a1 + 8 * b1 + 4 * c1 + 2 * d1 + e1
            /\ Bit(g1, 4) = a1 /\ Bit(g1, 3) = b1 /\ Bit(g1, 2) = c1 /\ Bit(g1, 1) = d1 /\ Bit(g1, 0) = e1
    BY FiveBits
  <1>3. PICK a2 \in 0..1, b2 \in 0..1, c2 \in 0..1, d2 \in 0..1, e2 \in 0..1 :
            /\ g2 = 16 * a2 + 8 * b2 + 4 * c2 + 2 * d2 + e2
            /\ Bit(g2, 4) = a2 /\ Bit(g2, 3) = b2 /\ Bit(g2, 2) = c2 /\ Bit(g2, 1) = d2 /\ Bit(g2, 0) = e2
    BY FiveBits
  <1>4. PICK a3 \in 0..1, b3 \in 0..1, c3 \in 0..1, d3 \in 0..1, e3 \in 0..1 :
            /\ g3 = 16 * a3 + 8 * b3 + 4 * c3 + 2 * d3 + e3
            /\ Bit(g3, 4) = a3 /\ Bit(g3, 3) = b3 /\ Bit(g3, 2) = c3 /\ Bit(g3, 1) = d3 /\ Bit(g3, 0) = e3
    BY FiveBits
  <1>5. PICK a4 \in 0..1, b4 \in 0..1, c4 \in 0..1, d4 \in 0..1, e4 \in 0..1 :
            /\ g4 = 16 * a4 + 8 * b4 + 4 * c4 + 2 * d4 + e4
            /\ Bit(g4, 4) = a4 /\ Bit(g4, 3) = b4 /\ Bit(g4, 2) = c4 /\ Bit(g4, 1) = d4 /\ Bit(g4, 0) = e4
    BY FiveBits
  <1>6. PICK a5 \in 0..1, b5 \in 0..1, c5 \in 0..1, d5 \in 0..1, e5 \in 0..1 :
            /\ g5 = 16 * a5 + 8 * b5 + 4 * c5 + 2 * d5 + e5
            /\ Bit(g5, 4) = a5 /\ Bit(g5, 3) = b5 /\ Bit(g5, 2) = c5 /\ Bit(g5, 1) = d5 /\ Bit(g5, 0) = e5
    BY FiveBits
  <1>7. PICK a6 \in 0..1, b6 \in 0..1, c6 \in 0..1, d6 \in 0..1, e6 \in 0..1 :
            /\ g6 = 16 * a6 + 8 * b6 + 4 * c6 + 2 * d6 + e6
            /\ Bit(g6, 4) = a6 /\ Bit(g6, 3) = b6 /\ Bit(g6, 2) = c6 /\ Bit(g6, 1) = d6 /\ Bit(g6, 0) = e6
    BY FiveBits
  <1>8. PICK a7 \in 0..1, b7 \in 0..1, c7 \in 0..1, d7 \in 0..1, e7 \in 0..1 :
            /\ g7 = 16 * a7 + 8 * b7 + 4 * c7 + 2 * d7 + e7
            /\ Bit(g7, 4) = a7 /\ Bit(g7, 3) = b7 /\ Bit(g7, 2) = c7 /\ Bit(g7, 1) = d7 /\ Bit(g7, 0) = e7
    BY FiveBits
  <1>9. PICK a8 \in 0..1, b8 \in 0..1, c8 \in 0..1, d8 \in 0..1, e8 \in 0..1 :
            /\ g8 = 16 * a8 + 8 * b8 + 4 * c8 + 2 * d8 + e8
            /\ Bit(g8, 4) = a8 /\ Bit(g8, 3) = b8 /\ Bit(g8, 2) = c8 /\ Bit(g8, 1) = d8 /\ Bit(g8, 0) = e8
    BY FiveBits
  <1>10. PICK h2 \in 0..7, l2 \in 0..3, h4 \in 0..1, l4 \in 0..15 :
            /\ h2 = 4 * a2 + 2 * b2 + c2 /\ l2 = 2 * d2 + e2
            /\ h4 = a4 /\ l4 = 8 * b4 + 4 * c4 + 2 * d4 + e4
    OBVIOUS
  <1>23. PICK h5 \in 0..15, l5 \in 0..1, h7 \in 0..3, l7 \in 0..7 :
            /\ h5 = 8 * a5 + 4 * b5 + 2 * c5 + d5 /\ l5 = e5
            /\ h7 = 2 * a7 + b7 /\ l7 = 4 * c7 + 2 * d7 + e7
    OBVIOUS
  <1> DEFINE o1 == g1 * 8 + h2
             o2 == l2 * 64 + g3 * 2 + h4
             o3 == l4 * 16 + h5
             o4 == l5 * 128 + g6 * 4 + h7
             o5 == l7 * 32 + g8
  <1>11. Regroup(groups) = <<o1, o2, o3, o4, o5>>
    <2>1. g2 = 4 * h2 + l2 /\ g4 = 16 * h4 + l4
      BY <1>3, <1>5, <1>10
    <2>2. g5 = 2 * h5 + l5 /\ g7 = 8 * h7 + l7
      BY <1>6, <1>8, <1>23
    <2>3. Across(groups, h2, l2, h4, l4, h5, l5, h7, l7)
      BY <1>1, <2>1, <2>2, Zenon DEF Across
    <2>4. Regroup(groups) =
              <<groups[1] * 8 + h2, l2 * 64 + groups[3] * 2 + h4, l4 * 16 + h5,
                l5 * 128 + groups[6] * 4 + h7, l7 * 32 + groups[8]>>
      BY <2>3, BytesAre, ZenonT(60)
    <2> QED BY <1>1, <2>4, Zenon
  <1>12. /\ o1 = 128 * a1 + 64 * b1 + 32 * c1 + 16 * d1 + 8 * e1 + 4 * a2 + 2 * b2 + c2
         /\ o2 = 128 * d2 + 64 * e2 + 32 * a3 + 16 * b3 + 8 * c3 + 4 * d3 + 2 * e3 + a4
         /\ o3 = 128 * b4 + 64 * c4 + 32 * d4 + 16 * e4 + 8 * a5 + 4 * b5 + 2 * c5 + d5
         /\ o4 = 128 * e5 + 64 * a6 + 32 * b6 + 16 * c6 + 8 * d6 + 4 * e6 + 2 * a7 + b7
         /\ o5 = 128 * c7 + 64 * d7 + 32 * e7 + 16 * a8 + 8 * b8 + 4 * c8 + 2 * d8 + e8
    <2>1. o1 = 128 * a1 + 64 * b1 + 32 * c1 + 16 * d1 + 8 * e1 + 4 * a2 + 2 * b2 + c2
      BY <1>2, <1>10, <1>23
    <2>2. o2 = 128 * d2 + 64 * e2 + 32 * a3 + 16 * b3 + 8 * c3 + 4 * d3 + 2 * e3 + a4
      BY <1>4, <1>10, <1>23
    <2>3. o3 = 128 * b4 + 64 * c4 + 32 * d4 + 16 * e4 + 8 * a5 + 4 * b5 + 2 * c5 + d5
      BY <1>10, <1>23
    <2>4. o4 = 128 * e5 + 64 * a6 + 32 * b6 + 16 * c6 + 8 * d6 + 4 * e6 + 2 * a7 + b7
      BY <1>7, <1>10, <1>23
    <2>5. o5 = 128 * c7 + 64 * d7 + 32 * e7 + 16 * a8 + 8 * b8 + 4 * c8 + 2 * d8 + e8
      BY <1>9, <1>10, <1>23
    <2> QED BY <2>1, <2>2, <2>3, <2>4, <2>5
  <1> HIDE DEF o1, o2, o3, o4, o5
  <1> DEFINE out == <<o1, o2, o3, o4, o5>>
  <1>13. Len(out) = 5 /\ Len(groups) = 8 /\ (5 * 8) \div 8 = 5
    BY <1>1
  <1>14. /\ out[1] = o1 /\ out[2] = o2 /\ out[3] = o3 /\ out[4] = o4 /\ out[5] = o5
         /\ groups[1] = g1 /\ groups[2] = g2 /\ groups[3] = g3 /\ groups[4] = g4
         /\ groups[5] = g5 /\ groups[6] = g6 /\ groups[7] = g7 /\ groups[8] = g8
    BY <1>1
  <1> HIDE DEF out
  <1> DEFINE Same(k) == Bit(out[1 + (k \div 8)], 7 - (k % 8)) = Bit(groups[1 + (k \div 5)], 4 - (k % 5))
             Pair(p, i, q, j) == Bit(out[p], i) = Bit(groups[q], j)
  <1>15. \A k \in 0..7 : Same(k)
    <2>1. /\ Pair(1, 7, 1, 4) /\ Pair(1, 6, 1, 3) /\ Pair(1, 5, 1, 2) /\ Pair(1, 4, 1, 1)
          /\ Pair(1, 3, 1, 0) /\ Pair(1, 2, 2, 4) /\ Pair(1, 1, 2, 3) /\ Pair(1, 0, 2, 2)
      BY <1>2, <1>3, <1>12, <1>14, EightBits
    <2> HIDE DEF Pair
    <2>2. \A k \in 0..7 : Pair(1 + (k \div 8), 7 - (k % 8), 1 + (k \div 5), 4 - (k % 5))
      BY <2>1
    <2> QED BY <2>2 DEF Pair
  <1>16. \A k \in 8..15 : Same(k)
    <2>1. /\ Pair(2, 7, 2, 1) /\ Pair(2, 6, 2, 0) /\ Pair(2, 5, 3, 4) /\ Pair(2, 4, 3, 3)
          /\ Pair(2, 3, 3, 2) /\ Pair(2, 2, 3, 1) /\ Pair(2, 1, 3, 0) /\ Pair(2, 0, 4, 4)
      BY <1>3, <1>4, <1>5, <1>12, <1>14, EightBits
    <2> HIDE DEF Pair
    <2>2. \A k \in 8..15 : Pair(1 + (k \div 8), 7 - (k % 8), 1 + (k \div 5), 4 - (k % 5))
      BY <2>1
    <2> QED BY <2>2 DEF Pair
  <1>17. \A k \in 16..23 : Same(k)
    <2>1. /\ Pair(3, 7, 4, 3) /\ Pair(3, 6, 4, 2) /\ Pair(3, 5, 4, 1) /\ Pair(3, 4, 4, 0)
          /\ Pair(3, 3, 5, 4) /\ Pair(3, 2, 5, 3) /\ Pair(3, 1, 5, 2) /\ Pair(3, 0, 5, 1)
      BY <1>5, <1>6, <1>12, <1>14, EightBits
    <2> HIDE DEF Pair
    <2>2. \A k \in 16..23 : Pair(1 + (k \div 8), 7 - (k % 8), 1 + (k \div 5), 4 - (k % 5))
      BY <2>1
    <2> QED BY <2>2 DEF Pair
  <1>18. \A k \in 24..31 : Same(k)
    <2>1. /\ Pair(4, 7, 5, 0) /\ Pair(4, 6, 6, 4) /\ Pair(4, 5, 6, 3) /\ Pair(4, 4, 6, 2)
          /\ Pair(4, 3, 6, 1) /\ Pair(4, 2, 6, 0) /\ Pair(4, 1, 7, 4) /\ Pair(4, 0, 7, 3)
      BY <1>6, <1>7, <1>8, <1>12, <1>14, EightBits
    <2> HIDE DEF Pair
    <2>2. \A k \in 24..31 : Pair(1 + (k \div 8), 7 - (k % 8), 1 + (k \div 5), 4 - (k % 5))
      BY <2>1
    <2> QED BY <2>2 DEF Pair
  <1>19. \A k \in 32..39 : Same(k)
    <2>1. /\ Pair(5, 7, 7, 2) /\ Pair(5, 6, 7, 1) /\ Pair(5, 5, 7, 0) /\ Pair(5, 4, 8, 4)
          /\ Pair(5, 3, 8, 3) /\ Pair(5, 2, 8, 2) /\ Pair(5, 1, 8, 1) /\ Pair(5, 0, 8, 0)
      BY <1>8, <1>9, <1>12, <1>14, EightBits
    <2> HIDE DEF Pair
    <2>2. \A k \in 32..39 : Pair(1 + (k \div 8), 7 - (k % 8), 1 + (k \div 5), 4 - (k % 5))
      BY <2>1
    <2> QED BY <2>2 DEF Pair
  <1> HIDE DEF Same
  <1>20. \A k \in 0..39 : Same(k)
    <2>1. \A k \in 0..39 : k \in 0..7 \/ k \in 8..15 \/ k \in 16..23 \/ k \in 24..31 \/ k \in 32..39
      OBVIOUS
    <2> QED BY <1>15, <1>16, <1>17, <1>18, <1>19, <2>1
  <1>21. Regroup(groups) = out
    BY <1>11 DEF out
  <1>22. 8 * Len(out) - 1 = 39 /\ Len(out) = (5 * Len(groups)) \div 8
    BY <1>13
  <1> QED BY <1>20, <1>21, <1>22, Zenon DEF Same

LEMMA PayoutsKept ==
    (fmt # Empty /\ fmt.kind = "address" => fmt.groups \in [1..8 -> 0..31]) => PayoutKeepsBits
  BY BitsInOrder, Zenon DEF PayoutKeepsBits, PayoutBytes

-----------------------------------------------------------------------------
\* What the pool encodes is what a node decodes (main.rs:118), for bytes and
\* targets of any size, heights, tags, trees and difficulties of any number.
THEOREM PoolIsDecoded == FormatsSpec => []FormatsRight
  <1> DEFINE Inputs ==
          fmt # Empty =>
              /\ fmt.kind = "script" => fmt.h \in 0..MaxHeight /\ fmt.tag \in Nat
              /\ fmt.kind = "branch" => fmt.n \in Nat
              /\ fmt.kind = "bits" => fmt.exp \in Nat /\ fmt.m \in [1..3 -> 0..(PoolByte - 1)]
              /\ fmt.kind = "hash" => fmt.be \in [1..Width -> 0..(PoolByte - 1)]
              /\ fmt.kind = "diff" => fmt.d \in Nat
              /\ fmt.kind = "address" => fmt.groups \in [1..8 -> 0..31]
  <1>1. FormatsInit => Inputs
    <2>1. {MaxTag, MaxTxs, MaxDiff, Width} \subseteq Nat
      BY PoolConstants
    <2>2. {0, 1, 2, PoolByte \div 2, PoolByte - 1} \subseteq 0..(PoolByte - 1)
      BY PoolBase
    <2>3. {0, 3, 5} \subseteq 0..31
      OBVIOUS
    <2> SUFFICES ASSUME FormatsInit PROVE Inputs
      OBVIOUS
    <2>4. CASE fmt \in [kind : {"script"}, h : 0..MaxHeight, tag : 0..MaxTag]
      BY <2>1, <2>4
    <2>5. CASE fmt \in [kind : {"branch"}, n : 0..MaxTxs]
      BY <2>1, <2>5
    <2>6. CASE fmt \in [kind : {"bits"}, exp : 0..(Width + 2), m : [1..3 -> 0..(PoolByte - 1)]]
      BY <2>1, <2>6
    <2>7. CASE fmt \in [kind : {"hash"}, be : [1..Width -> {0, 1, 2, PoolByte \div 2, PoolByte - 1}]]
      BY <2>2, <2>7
    <2>8. CASE fmt \in [kind : {"diff"}, d : 0..MaxDiff]
      BY <2>1, <2>8
    <2>9. CASE fmt \in [kind : {"address"}, groups : [1..8 -> {0, 3, 5}]]
      BY <2>3, <2>9
    <2> QED BY <2>4, <2>5, <2>6, <2>7, <2>8, <2>9 DEF FormatsInit
  <1>2. Inputs => FormatsRight
    BY CoinbasesRead, TreesClimb, BitsKeep, BestShareFloors, TargetsHard, PayoutsKept, Zenon DEF FormatsRight
  <1>3. Inputs /\ [UNCHANGED fmt]_fmt => Inputs'
    OBVIOUS
  <1> QED BY <1>1, <1>2, <1>3, PTL DEF FormatsSpec
=============================================================================
