---------------------------- MODULE ChipProtocol ----------------------------
(***************************************************************************)
(* The BM13xx wire protocol (asic/bm13xx/protocol.rs): the decoder of the  *)
(* response stream under tokio's FramedRead, register and command          *)
(* encodings, the ticket mask, and the PLL ramp of the hash thread         *)
(* (asic/bm13xx/thread.rs).                                                *)
(*                                                                         *)
(* A cell of the stream stands for a byte: byte `at' of frame `n', or      *)
(* noise (n = 0).  Frames are shorter than the code's 11 bytes.  A CRC is  *)
(* taken to tell a frame from anything else.                               *)
(***************************************************************************)
EXTENDS Integers, Sequences, SequencesExt, FiniteSets

CONSTANTS
    FrameLen,   \* bytes of a response (11)
    Segments,   \* bound: frames and noise bytes of a stream
    Nib,        \* values of half a byte (16)
    MaxRawReg,  \* bound: raw register values
    WorkBits,   \* bits of a hash the ticket mask can ask to be zero (32)
    RampFrom, RampTo, RampStep, \* PLL ramp, in quarters of a MHz
    Frequencies \* frequencies between MIN_MHZ and MAX_MHZ, in quarters of a MHz

ASSUME ChipProtocolConstants ==
    /\ {FrameLen, Segments, Nib, WorkBits, RampStep} \subseteq Nat \ {0}
    /\ FrameLen > 2 /\ RampFrom <= RampTo /\ Frequencies \subseteq 200..3200
    /\ Nib > 1 /\ MaxRawReg \in 0..((Nib * Nib)^4 - 1)
    \* Arithmetic, said because the provers know no exponents.
    /\ \A b \in {2, Nib, Nib * Nib} : b^0 = 1
    /\ \A n \in 0..7 : Nib^(n + 1) = Nib * Nib^n
    /\ \A n \in 0..3 : (Nib * Nib)^(n + 1) = Nib * Nib * (Nib * Nib)^n
    /\ \A n \in 0..WorkBits : 2^(n + 1) = 2 * 2^n

VARIABLES
    wire,       \* bytes the chips have yet to send
    rxbuf,      \* the read buffer of FramedRead
    rxReady,    \* FramedRead.is_readable: decode may be called
    sentGood,   \* history: the good frames of the stream
    frames,     \* history: frames delivered
    ramp,       \* frequency of the next PLL step, 0 before and after the ramp
    plls,       \* history: PLL settings sent
    chipIn      \* an input of the encoders

chipVars == <<wire, rxbuf, rxReady, sentGood, frames, ramp, plls, chipIn>>

-----------------------------------------------------------------------------
(* FrameCodec::decode under FramedRead.                                    *)

\* What the chain may send: a frame, one whose CRC is wrong, one with a good
\* CRC that no response has, or a byte of noise, which may look like a preamble.
Segment(n, kind) ==
    IF kind = "noise" THEN <<[n |-> 0, at |-> 1, kind |-> kind]>>
    ELSE [i \in 1..FrameLen |-> [n |-> n, at |-> i, kind |-> kind]]

Streams ==
    UNION {{FlattenSeq([i \in 1..k |-> Segment(i, f[i])]) :
               f \in [1..k -> {"frame", "crc", "unknown", "noise"}]} : k \in 0..Segments}

\* Preamble and CRC of the first FrameLen bytes.
FrameAtHead(b) ==
    /\ Len(b) >= FrameLen /\ b[1].kind # "noise"
    /\ \A i \in 1..FrameLen : b[i] = [b[1] EXCEPT !.at = i]

\* Response::decode fails on an unknown type or register.
Good(b) == FrameAtHead(b) /\ b[1].kind = "frame"

SkipFrame(b) == FrameLen                           \* mutant: a bad frame is skipped whole

\* How far an invalid frame advances the buffer.
Resync(b) == 1

\* One poll of the reader: decode while it yields frames, then read again.
Decode ==
    /\ rxReady
    /\ IF Len(rxbuf) < FrameLen THEN rxReady' = FALSE /\ UNCHANGED <<rxbuf, frames>>
       ELSE IF Good(rxbuf)
       THEN /\ frames' = Append(frames, rxbuf[1].n)
            /\ rxbuf' = SubSeq(rxbuf, FrameLen + 1, Len(rxbuf)) /\ UNCHANGED rxReady
       ELSE /\ rxbuf' = SubSeq(rxbuf, Resync(rxbuf) + 1, Len(rxbuf)) /\ rxReady' = FALSE
            /\ UNCHANGED frames
    /\ UNCHANGED <<wire, sentGood, ramp, plls, chipIn>>

\* Bytes arrive in chunks of any size.
ReadChunk ==
    /\ ~rxReady /\ wire # <<>>
    /\ \E k \in 1..Len(wire) : /\ rxbuf' = rxbuf \o SubSeq(wire, 1, k)
                               /\ wire' = SubSeq(wire, k + 1, Len(wire))
    /\ rxReady' = TRUE
    /\ UNCHANGED <<sentGood, frames, ramp, plls, chipIn>>

-----------------------------------------------------------------------------
(* Registers: four bytes on the wire.                                      *)

ByteBase == Nib * Nib

ToLE(v) == [i \in 1..4 |-> (v \div ByteBase^(i - 1)) % ByteBase]
FromLE(b) == b[1] + ByteBase * b[2] + ByteBase^2 * b[3] + ByteBase^3 * b[4]

\* BaudRate: the value of a rate is written, but another one read, for 1 Mbaud;
\* a custom rate is its value.
BaudValue(r) ==
    CASE r.rate = "115200" -> 2 [] r.rate = "1M" -> 3 [] r.rate = "3M" -> 1
      [] r.rate = "custom" -> r.raw
BaudOf(v) == CASE v = 2 -> "115200" [] v = 0 -> "1M" [] v = 1 -> "3M" [] OTHER -> "custom"

\* Registers whose fields are the bytes: the chip's id, core count and address;
\* flag and dividers of the PLL; the nonce range.
ByteFields == {"chip", "pll", "nonces"}

\* VersionMask: control bits first.
VersionBytes(r) == <<r.control % ByteBase, r.control \div ByteBase,
                     r.mask % ByteBase, r.mask \div ByteBase>>

\* Register::encode_data.
EncodeData(r) ==
    CASE r.kind \in ByteFields -> r.bytes
      [] r.kind = "baud" -> ToLE(BaudValue(r))
      [] r.kind = "core" -> Reverse(ToLE(r.raw))
      [] r.kind = "raw"  -> ToLE(r.raw)
      [] r.kind = "io"   -> [i \in 1..4 |-> r.strengths[2 * i - 1] + Nib * r.strengths[2 * i]]
      [] r.kind = "version" -> VersionBytes(r)

StrengthAt(v, i) == (v \div Nib^(i - 1)) % Nib

\* Register::decode.
DecodeData(kind, b) ==
    LET raw == FromLE(b)
    IN  CASE kind \in ByteFields -> [kind |-> kind, bytes |-> b]
          [] kind = "baud" /\ BaudOf(raw) # "custom" -> [kind |-> kind, rate |-> BaudOf(raw)]
          [] kind = "baud" /\ BaudOf(raw) = "custom" ->
                [kind |-> kind, rate |-> "custom", raw |-> raw]
          [] kind \in {"core", "raw"} -> [kind |-> kind, raw |-> raw]
          [] kind = "io"   -> [kind |-> kind, strengths |-> [i \in 1..8 |-> StrengthAt(raw, i)]]
          [] kind = "version" -> [kind |-> kind, control |-> raw % ByteBase^2,
                                  mask |-> raw \div ByteBase^2]

Registers ==
    LET raws == 0..MaxRawReg
    IN  [kind : ByteFields, bytes : {ToLE(v) : v \in raws}]
        \cup [kind : {"baud"}, rate : {"115200", "1M", "3M"}]
        \cup [kind : {"baud"}, rate : {"custom"}, raw : raws]
        \cup [kind : {"core", "raw"}, raw : raws]
        \cup {[kind |-> "io", strengths |-> [i \in 1..8 |-> (v + i) % Nib]] : v \in raws}
        \cup [kind : {"version"}, control : 0..(ByteBase^2 - 1), mask : 0..(ByteBase^2 - 1)]

-----------------------------------------------------------------------------
(* Commands: how long they are, and the job id that comes back.            *)

\* Widths of what Command::encode writes behind the length byte.
Layout(c) ==
    CASE c.cmd = "write" -> <<1, 1, 4>>
      [] c.cmd \in {"address", "inactive", "read"} -> <<1, 1>>
      [] c.cmd = "full" -> <<1, 1, 4, 4, 4, 32, 32, 4>>
      [] c.cmd = "midstate" -> <<1, 1, 4, 4, 4, 4>> \o [i \in 1..c.midstates |-> 32]

\* FrameCodec::encode: jobs have a CRC16.
CrcLen(c) == IF c.cmd \in {"full", "midstate"} THEN 2 ELSE 1

\* The length byte.
TotalLen(c) ==
    CASE c.cmd = "write" -> 9 [] c.cmd \in {"address", "inactive", "read"} -> 5
      [] c.cmd = "full" -> 82 + 4
      [] c.cmd = "midstate" -> (18 + c.midstates * 32 + 4) % 256

Commands ==
    [cmd : {"address", "inactive", "read", "write"}] \cup [cmd : {"full"}, id : 0..15]
    \cup [cmd : {"midstate"}, id : 0..15, midstates : 1..4]

JobHeader(id) == (id * 8) % 256

\* The chip answers with the id one bit higher, next to its core.
ResultHeader(header, core) == ((header * 2) % 256) + core

ResponseJobId(result) == (result \div 16) % 16

-----------------------------------------------------------------------------
(* The ticket mask.                                                        *)

\* Log2Difficulty::from_difficulty.
Log2Difficulty(d) == CHOOSE e \in 0..WorkBits : 2^e <= d /\ 2^(e + 1) > d

\* TicketMask::to_wire_bytes: wire bits, by byte and bit, of a mask of e bits.
MaskBits(e) == {<<3 - (k \div 8), 7 - (k % 8)>> : k \in 0..(e - 1)}

\* decode_ticket_mask_bytes, and the chip: which bits below the first must be zero.
MaskOf(bits) == {8 * (3 - w[1]) + (7 - w[2]) : w \in bits}

\* The chip's filter on a hash of WorkBits bits.
Passes(h, e) == \A k \in MaskOf(MaskBits(e)) : (h \div 2^(WorkBits - 1 - k)) % 2 = 0

-----------------------------------------------------------------------------
(* The PLL.                                                                *)

Divisors == {d \in {1, 2} \X (1..7) \X (1..7) : d[2] >= d[3]}

Div(d) == d[1] * d[2] * d[3]

\* Round half up of the feedback divider for frequency f; the cast
\* saturates.
FbDiv(f, d) == LET fb == (2 * f * Div(d) + 100) \div 200 IN IF fb > 255 THEN 255 ELSE fb

Abs(x) == IF x < 0 THEN -x ELSE x

WideTolerance(f, d) == \* mutant: 4 MHz off will do
    LET fb == FbDiv(f, d)
    IN  fb \in 160..239 /\ Abs(100 * fb - f * Div(d)) < 16 * Div(d)

\* The divider is in range and the error below 1 MHz.
Usable(f, d) ==
    LET fb == FbDiv(f, d)
    IN  fb \in 160..239 /\ Abs(100 * fb - f * Div(d)) < 4 * Div(d)

\* Order of search: reference divider 2 first, then large post dividers.
Before(d, c) == d[1] > c[1] \/ (d[1] = c[1] /\ (d[2] > c[2] \/ (d[2] = c[2] /\ d[3] > c[3])))

Pll(f, d) == [fb |-> FbDiv(f, d), div |-> Div(d)]

\* calculate_pll_for_frequency takes the first usable divisors, or none.
CalculatePll(f) ==
    LET ok == {d \in Divisors : Usable(f, d)}
    IN  IF ok = {} THEN <<>>
        ELSE <<Pll(f, CHOOSE d \in ok : \A c \in ok : c = d \/ Before(d, c))>>

DefaultPll == [fb |-> 160, div |-> 72]

\* Frequency::calculate_pll takes the usable divisors of least error, the first
\* found of equals, and a default when there are none.
BestPll(f) ==
    LET ok == {d \in Divisors : Usable(f, d)}
        err(d) == Abs(100 * FbDiv(f, d) - f * Div(d))
        best == {d \in ok : \A c \in ok : err(d) * Div(c) <= err(c) * Div(d)}
    IN  IF ok = {} THEN DefaultPll
        ELSE Pll(f, CHOOSE d \in best : \A c \in best : c = d \/ Before(d, c))

\* The ramp of the code, 56.25 to 525 MHz by 6.25 (thread.rs:440): even steps,
\* further apart than a setting may miss them by, and a setting for each.
ASSUME RampReachable ==
    /\ RampFrom \in Nat \ {0} /\ RampTo \in Nat /\ RampStep > 8
    /\ (RampTo - RampFrom) % RampStep = 0
    /\ \A k \in 0..((RampTo - RampFrom) \div RampStep) :
          \E d \in Divisors : Usable(RampFrom + k * RampStep, d)

\* generate_frequency_ramp_steps, one register write each.
RampSend ==
    /\ ramp # 0
    /\ plls' = plls \o CalculatePll(ramp)
    /\ ramp' = IF ramp >= RampTo THEN 0
               ELSE IF ramp + RampStep > RampTo THEN RampTo ELSE ramp + RampStep
    /\ UNCHANGED <<wire, rxbuf, rxReady, sentGood, frames, chipIn>>

-----------------------------------------------------------------------------
ChipInit ==
    /\ rxbuf = <<>> /\ rxReady = FALSE /\ frames = <<>> /\ plls = <<>>
    /\ \/ wire \in Streams /\ ramp = 0 /\ chipIn = [kind |-> "none"]
       \/ wire = <<>> /\ ramp = RampFrom /\ chipIn = [kind |-> "none"]
       \/ /\ wire = <<>> /\ ramp = 0
          /\ \/ \E r \in Registers : chipIn = [kind |-> "register", r |-> r]
             \/ \E c \in Commands : chipIn = [kind |-> "command", c |-> c]
             \/ \E d \in 1..(2^WorkBits - 1) : chipIn = [kind |-> "difficulty", d |-> d]
             \/ \E f \in Frequencies : chipIn = [kind |-> "frequency", f |-> f]
    /\ sentGood = {c.n : c \in {x \in ToSet(wire) : x.kind = "frame"}}

ChipNext == Decode \/ ReadChunk \/ RampSend

ChipSpec == ChipInit /\ [][ChipNext]_chipVars

-----------------------------------------------------------------------------
(* Properties.                                                             *)

\* Whatever noise and broken frames are between them and however the bytes are
\* chunked, the good frames come out in order, none twice and none lost: what
\* is not delivered is still whole in the buffer or on the wire
\* (protocol.rs:1149).
FramesSurvive ==
    LET rest == rxbuf \o wire
    IN  /\ \A i, k \in DOMAIN frames : i < k => frames[i] < frames[k]
        /\ \A n \in sentGood :
              LET left == {i \in DOMAIN rest : rest[i].n = n}
              IN  IF n \in ToSet(frames) THEN left = {} ELSE Cardinality(left) = FrameLen

\* A register read back is the register written.  The core register is not,
\* which is written the other way round, and 1 Mbaud has one value to write and
\* another to read; any other custom rate reads back as itself or as the named
\* rate of the same value (protocol.rs:558).
ReadsBack(r, back) ==
    \/ r.kind = "core" \/ back = r
    \/ r.kind = "baud" /\ r.rate = "1M"
    \/ r.kind = "baud" /\ r.rate = "custom" /\ (back.rate = "1M" \/ BaudValue(back) = r.raw)

RegistersRoundTrip ==
    chipIn.kind = "register" =>
        ReadsBack(chipIn.r, DecodeData(chipIn.r.kind, EncodeData(chipIn.r)))

\* The length byte of a command counts what follows the preamble, and the id of
\* a job comes back from the chip whatever its core (protocol.rs:852).
CommandsWellFormed ==
    chipIn.kind = "command" =>
        /\ TotalLen(chipIn.c) = FoldSeq(+, 2, Layout(chipIn.c)) + CrcLen(chipIn.c)
        /\ chipIn.c.cmd \in {"full", "midstate"} =>
              \A core \in 0..15 :
                 ResponseJobId(ResultHeader(JobHeader(chipIn.c.id), core)) = chipIn.c.id

\* The chip reports every nonce that meets the difficulty the mask is made for,
\* and less than twice as many (protocol.rs:287).
TicketMaskLoses ==
    chipIn.kind = "difficulty" =>
        LET e == Log2Difficulty(chipIn.d)
            all == 2^WorkBits - 1
        IN  /\ \A h \in 0..all : h * chipIn.d <= all => Passes(h, e)
            /\ Cardinality({h \in 0..all : Passes(h, e)}) * chipIn.d < 2 * 2^WorkBits

\* No frequency of the ramp is left out, each is met within 1 MHz, and from one
\* to the next the clock rises, by less than two steps (thread.rs:475).
RampIsSmooth ==
    /\ \A i \in DOMAIN plls :
          LET want == IF RampFrom + (i - 1) * RampStep > RampTo THEN RampTo
                      ELSE RampFrom + (i - 1) * RampStep
          IN  Abs(100 * plls[i].fb - want * plls[i].div) < 4 * plls[i].div
    /\ \A i \in DOMAIN plls : i > 1 =>
          LET a == 100 * plls[i].fb * plls[i - 1].div
              b == 100 * plls[i - 1].fb * plls[i].div
          IN  a > b /\ a - b < 2 * RampStep * plls[i].div * plls[i - 1].div
    /\ ramp > RampFrom => Len(plls) = (ramp - RampFrom + RampStep - 1) \div RampStep

\* The two searches agree: where the thread's finds a setting, that of the
\* protocol is at least as close, and where there is none the thread's skips
\* what the other sets to its default (protocol.rs:67, thread.rs:537).
SearchesAgree ==
    chipIn.kind = "frequency" =>
        LET p == BestPll(chipIn.f)
            first == CalculatePll(chipIn.f)
            off(x) == Abs(100 * x.fb - chipIn.f * x.div)
        IN  IF first = <<>> THEN p = DefaultPll
            ELSE off(p) * first[1].div <= off(first[1]) * p.div /\ off(p) < 4 * p.div

\* The chips are told what was meant: registers, jobs, the ticket mask and the
\* clock (protocol.rs:287, :558, thread.rs:537).
ChipFormatsRight ==
    /\ RegistersRoundTrip
    /\ CommandsWellFormed
    /\ TicketMaskLoses
    /\ RampIsSmooth
    /\ SearchesAgree
=============================================================================
