----------------------------- MODULE PoolFormats -----------------------------
(***************************************************************************)
(* The encodings of nano-pool (nano-pool/src/main.rs): the height pushed   *)
(* in a coinbase, the layout of its scriptSig, the merkle branch of a      *)
(* template, compact targets, the target of a difficulty, and the decoding *)
(* of payout addresses.  Bytes have PoolByte values (256 in the code),     *)
(* targets Width bytes (32), and a hash is the pair of what is hashed.     *)
(***************************************************************************)
EXTENDS Integers, Sequences

CONSTANTS
    Empty,      \* no input
    PoolByte,   \* values of a byte
    MaxHeight,  \* bound: heights
    MaxTag,     \* bound: bytes of a worker tag
    MaxTxs,     \* bound: transactions of a template
    Width,      \* bytes of a target
    ScriptLen,  \* SCRIPT_SIG_LEN (96)
    Diff1,      \* integer part of the target of difficulty one (65535)
    Fraction,   \* 2^64: the fraction kept below it
    MaxDiff     \* bound: difficulties

\* Bits of a byte.
ByteBits == CHOOSE k \in 1..8 : 2^k = PoolByte

ASSUME PoolConstants ==
    /\ {MaxHeight, MaxTag, MaxTxs, ScriptLen, Diff1, Fraction, MaxDiff} \subseteq Nat
    /\ Width \in Nat \ {0}
    /\ ByteBits \in 4..8 /\ PoolByte = 2^ByteBits /\ MaxHeight < PoolByte^4
    \* Arithmetic, said because the provers know no exponents.
    /\ \A b \in {2, PoolByte} : b^0 = 1
    /\ \A n \in 0..12 \cup 0..(ByteBits * Width) : 2^(n + 1) = 2 * 2^n
    /\ \A n \in 0..3 \cup 0..(Width - 1) : PoolByte^(n + 1) = PoolByte * PoolByte^n

VARIABLE fmt    \* the input at hand: [kind, ...], or Empty

\* The largest height pushed as an opcode (16).
MaxOpcode == PoolByte \div 16
OpBase == (5 * PoolByte) \div 16    \* 0x50

FormatsInit ==
    \/ fmt \in [kind : {"script"}, h : 0..MaxHeight, tag : 0..MaxTag]
    \/ fmt \in [kind : {"branch"}, n : 0..MaxTxs]
    \/ fmt \in [kind : {"bits"}, exp : 0..(Width + 2), m : [1..3 -> 0..(PoolByte - 1)]]
    \/ fmt \in [kind : {"hash"}, be : [1..Width -> {0, 1, 2, PoolByte \div 2, PoolByte - 1}]]
    \/ fmt \in [kind : {"diff"}, d : 0..MaxDiff]
    \/ fmt \in [kind : {"address"}, groups : [1..8 -> {0, 3, 5}]]

\* The conversions keep no state.
FormatsSpec == FormatsInit /\ [][UNCHANGED fmt]_fmt

-----------------------------------------------------------------------------
(* Height.                                                                 *)

NumBytes(h) == CHOOSE n \in 1..4 : PoolByte^(n - 1) <= h /\ h < PoolByte^n
LeDigits(h, n) == [i \in 1..n |-> (h \div PoolByte^(i - 1)) % PoolByte]

\* Bytes up to the last that is not zero.
PushLen(h) == NumBytes(h)

Bip34Push(h) ==
    IF h <= MaxOpcode THEN <<OpBase + h>>
    ELSE <<PushLen(h)>> \o LeDigits(h, PushLen(h))

\* The value a script interpreter reads: the top bit of the last byte is its
\* sign.
ScriptValue(push) ==
    IF push[1] >= OpBase THEN push[1] - OpBase
    ELSE LET n == Len(push) - 1
             byte(i) == push[i + 1]
             sum[i \in 0..n] == IF i = 0 THEN 0 ELSE sum[i - 1] + byte(i) * PoolByte^(i - 1)
         IN  IF byte(n) >= PoolByte \div 2
             THEN -(sum[n] - (PoolByte \div 2) * PoolByte^(n - 1)) ELSE sum[n]

-----------------------------------------------------------------------------
(* The scriptSig: height, tag, padding, then the extranonces.              *)

EnSpace == 10 + 8

PushBytes(h) == IF h <= MaxOpcode THEN 1 ELSE 1 + PushLen(h)

\* usize: too long a tag underflows.
Padding(h, tag) == ScriptLen - (PushBytes(h) + 1 + tag + EnSpace)

\* The height reads back from the coinbase, if the top byte of its push has no
\* sign bit, and with the default prefix of 6 bytes, the channel's tag of 4 and
\* the device's 8 the scriptSig has the length its coinbase declares
\* (main.rs:563, main.rs:580).
CoinbaseWellFormed ==
    (fmt # Empty /\ fmt.kind = "script") =>
        /\ (fmt.h <= MaxOpcode \/ fmt.h \div PoolByte^(NumBytes(fmt.h) - 1) < PoolByte \div 2)
              => ScriptValue(Bip34Push(fmt.h)) = fmt.h
        /\ Padding(fmt.h, fmt.tag) >= 0 =>
              PushBytes(fmt.h) + 1 + fmt.tag + Padding(fmt.h, fmt.tag) + (6 + 4) + 8 = ScriptLen

-----------------------------------------------------------------------------
(* The merkle branch.                                                      *)

Pad(level) == IF Len(level) % 2 = 1 THEN Append(level, level[Len(level)]) ELSE level

Parents(level) == [i \in 1..(Len(level) \div 2) |-> <<level[2 * i - 1], level[2 * i]>>]

NextRow(row) == IF Len(row) <= 1 THEN row ELSE Parents(Pad(row))

\* A row of hashes, and those above it.
Rows(row) ==
    LET up[k \in 0..Len(row)] == IF k = 0 THEN row ELSE NextRow(up[k - 1]) IN up

\* How often `while level.len() > 1' goes round.
Height(row) ==
    CHOOSE h \in 0..Len(row) : Len(Rows(row)[h]) <= 1 /\ \A k \in 0..(h - 1) : Len(Rows(row)[k]) > 1

ClimbUp(leaf, branch) ==
    LET climb[k \in 0..Len(branch)] == IF k = 0 THEN leaf ELSE <<climb[k - 1], branch[k]>>
    IN  climb[Len(branch)]

\* coinbase_merkle_branch: the second hash of every level.
Branch(ids) == [k \in 1..Height(ids) |-> Pad(Rows(ids)[k - 1])[2]]

\* merkle_digest: the fold to one hash.
Digest(ids) == IF ids = <<>> THEN <<>> ELSE Rows(ids)[Height(ids)][1]

Txs(n) == [i \in 1..n |-> <<i>>]
CoinbaseId == <<0>>

\* The branch climbs from the first hash of the row it is given to the root of
\* that row (main.rs:517).
BranchClimbsToDigest ==
    (fmt # Empty /\ fmt.kind = "branch" /\ fmt.n > 0)
    => ClimbUp(<<1>>, Branch(Txs(fmt.n))) = Digest(Txs(fmt.n))

\* fetch_template_std gives it the transactions without the coinbase.
TemplateBranch(n) == Branch(Txs(n))

\* The branch of a template leads from the coinbase to the root of the block
\* that holds coinbase and transactions (main.rs:514).
BranchYieldsRoot ==
    (fmt # Empty /\ fmt.kind = "branch")
    => ClimbUp(CoinbaseId, TemplateBranch(fmt.n)) = Digest(<<CoinbaseId>> \o Txs(fmt.n))

-----------------------------------------------------------------------------
(* Targets.                                                                *)

\* bits_to_target_be: mantissa bytes that fall outside are cut off.
TargetBe(exp, m) ==
    [p \in 1..Width |->
        IF exp <= Width /\ p - 1 - (Width - exp) \in 0..2 THEN m[p - (Width - exp)] ELSE 0]

BeValue(b) ==
    LET sum[i \in 0..Len(b)] == IF i = 0 THEN 0 ELSE sum[i - 1] * PoolByte + b[i] IN sum[Len(b)]

BitsToTarget(exp, m) == TargetBe(exp, m)

\* A compact target decodes to mantissa * PoolByte^(exp - 3), rounded down
\* (main.rs:1816).
BitsDecode ==
    (fmt # Empty /\ fmt.kind = "bits" /\ fmt.exp <= Width) =>
        LET v == BeValue(BitsToTarget(fmt.exp, fmt.m))
            mantissa == BeValue(fmt.m)
        IN  IF fmt.exp >= 3 THEN v = mantissa * PoolByte^(fmt.exp - 3)
            ELSE v = mantissa \div PoolByte^(3 - fmt.exp)

ByteZeros(b) == CHOOSE z \in 0..ByteBits : b < 2^(ByteBits - z) /\ (z = ByteBits \/ b >= 2^(ByteBits - z - 1))

\* leading_zero_bits: whole zero bytes, then the zeros of the first other one.
LeadingZeros(be) ==
    LET nonzero == {i \in DOMAIN be : be[i] # 0}
        first == CHOOSE i \in nonzero : \A j \in nonzero : i <= j
    IN  IF nonzero = {} THEN ByteBits * Len(be)
        ELSE ByteBits * (first - 1) + ByteZeros(be[first])

ShareZeros(be) == LeadingZeros(be)

\* The best share shown is the power of two below the true one: a hash with z
\* zero bits lies in [2^(n-z-1), 2^(n-z)) (main.rs:1333).
BestShareIsFloor ==
    (fmt # Empty /\ fmt.kind = "hash") =>
        LET n == ByteBits * Width
            z == ShareZeros(fmt.be)
            v == BeValue(fmt.be)
        IN  v < 2^(n - z) /\ (z < n => v >= 2^(n - z - 1))

\* diff_to_target_le: integer part and fraction of Diff1 / d, rounded down.
DiffToTarget(d) ==
    LET c == IF d < 1 THEN 1 ELSE d
    IN  (Diff1 \div c) * Fraction + ((Diff1 % c) * Fraction) \div c

DiffRounded(d) == DiffToTarget(d) + 1              \* mutant: rounds up

TargetOf(d) == DiffToTarget(d)

\* The target of a difficulty is never easier than the difficulty, and harder
\* by less than one unit of its fraction (main.rs:108).
TargetNeverEasier ==
    (fmt # Empty /\ fmt.kind = "diff" /\ fmt.d > 0) =>
        TargetOf(fmt.d) * fmt.d <= Diff1 * Fraction /\ (TargetOf(fmt.d) + 1) * fmt.d > Diff1 * Fraction

-----------------------------------------------------------------------------
(* Payout addresses: groups of 5 bits become bytes of 8.                   *)

\* cashaddr_decode's accumulator: bits are shifted in, whole bytes come off
\* the top; what is left over is dropped.
Shift(acc, g) ==
    LET a == acc.bits * 32 + g
        n == acc.n + 5
    IN  IF n < 8 THEN [bits |-> a, n |-> n, out |-> acc.out]
        ELSE [bits |-> a % 2^(n - 8), n |-> n - 8, out |-> Append(acc.out, (a \div 2^(n - 8)) % 256)]

Regroup(groups) ==
    LET acc[k \in 0..Len(groups)] ==
            IF k = 0 THEN [bits |-> 0, n |-> 0, out |-> <<>>] ELSE Shift(acc[k - 1], groups[k])
    IN  acc[Len(groups)].out

PayoutBytes(groups) == Regroup(groups)

Bit(x, i) == (x \div 2^i) % 2

\* The bytes of the payout hash have the bits of the address in their order
\* (main.rs:276).
PayoutKeepsBits ==
    (fmt # Empty /\ fmt.kind = "address") =>
        LET out == PayoutBytes(fmt.groups)
        IN  /\ Len(out) = (5 * Len(fmt.groups)) \div 8
            /\ \A k \in 0..(8 * Len(out) - 1) :
                  Bit(out[1 + (k \div 8)], 7 - (k % 8)) = Bit(fmt.groups[1 + (k \div 5)], 4 - (k % 5))

\* What the pool encodes is what a node decodes, and rounding never turns
\* against it (main.rs:118).
FormatsRight ==
    /\ CoinbaseWellFormed
    /\ BranchClimbsToDigest
    /\ BitsDecode
    /\ BestShareIsFloor
    /\ TargetNeverEasier
    /\ PayoutKeepsBits
=============================================================================
