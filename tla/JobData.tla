------------------------------- MODULE JobData -------------------------------
(***************************************************************************)
(* The data a job is made of (job_source/extranonce2.rs, version.rs,       *)
(* merkle.rs, job.rs): the range of extranonce2 values and the way it is   *)
(* split among threads, the version bits that may roll, and the climb from *)
(* a coinbase to the merkle root.                                          *)
(*                                                                         *)
(* Words have MaxSize bytes of Byte values (8 and 256 in the code), and    *)
(* arithmetic on them wraps, as in a release build; a debug build panics   *)
(* where it would.  A version is the set of its bits that are one.  A hash *)
(* is the pair of what is hashed.                                          *)
(***************************************************************************)
EXTENDS Integers, Sequences, SequencesExt, FiniteSets

CONSTANTS
    NoValue,   \* Err, or Rust's None
    Byte,      \* values of a byte
    MaxSize,   \* bytes of a word
    MaxWays,   \* bound: threads a range is split among
    GpLow,     \* first general purpose bit of a version (13)
    GpWidth,   \* number of those bits (16)
    VersionTop \* highest bit of a version (31)

ASSUME JobDataConstants ==
    /\ {Byte, MaxSize, MaxWays, GpWidth} \subseteq Nat \ {0}
    /\ GpLow \in Nat /\ VersionTop \in Nat /\ GpLow + GpWidth <= VersionTop
    /\ NoValue \notin [min : Nat, max : Nat, size : Nat]
    \* Arithmetic, said because the provers know no exponents.
    /\ \A size \in 0..MaxSize : Byte^size \in Nat \ {0}
    /\ \A a, b \in 0..MaxSize : a + b <= MaxSize => Byte^(a + b) = Byte^a * Byte^b
    /\ Byte^1 = Byte

-----------------------------------------------------------------------------
(* Extranonce2.                                                            *)

WordMax == Byte^MaxSize - 1
Wrap(n) == n % (WordMax + 1)

MaxForSize(size) == IF size >= MaxSize THEN WordMax ELSE Byte^size - 1

ValidSize(size) == size # 0 /\ size <= MaxSize

NewEn2(value, size) ==
    IF ValidSize(size) /\ value <= MaxForSize(size) THEN [value |-> value, size |-> size]
    ELSE NoValue

\* Little-endian, cut to the size.
LeBytes(value, size) == [i \in 1..size |-> (value \div Byte^(i - 1)) % Byte]
En2Bytes(e) == LeBytes(e.value, e.size)

NewRange(min, max, size) ==
    IF ValidSize(size) /\ min <= max /\ max <= MaxForSize(size)
    THEN [min |-> min, max |-> max, size |-> size] ELSE NoValue

\* The count of the whole space does not fit in a word and saturates.
RangeLen(r) == LET d == r.max - r.min IN IF d = WordMax THEN WordMax ELSE d + 1

ChunkEven(total, n, i) == total \div n             \* mutant: remainder dropped

ChunkSize(total, n, i) == (total \div n) + (IF i <= total % n THEN 1 ELSE 0)

SplitStarts(r, n) ==
    LET start[i \in 1..n] == IF i = 1 THEN r.min
                             ELSE Wrap(start[i - 1] + ChunkSize(RangeLen(r), n, i - 1))
    IN  start

Split(r, n) ==
    LET total == RangeLen(r)
        start == SplitStarts(r, n)
    IN  IF n = 0 \/ (n > 1 /\ total < n) THEN NoValue
        ELSE IF n = 1 THEN <<r>>
        ELSE [i \in 1..n |-> NewRange(start[i], Wrap(start[i] + ChunkSize(total, n, i) - 1),
                                      r.size)]

VARIABLES
    range, ways,   \* a range and the number of threads
    current,       \* Extranonce2Iter.current
    seen           \* history: values the iterator has yielded

rangeVars == <<range, ways, current, seen>>

En2Init ==
    /\ \E min, max \in 0..WordMax, size \in 0..(MaxSize + 1) : range = NewRange(min, max, size)
    /\ range # NoValue
    /\ ways \in 0..MaxWays
    /\ current = range.min
    /\ seen = <<>>

IterEnds == current > range.max

IterNext ==
    /\ ~IterEnds /\ Len(seen) < WordMax + 1
    /\ NewEn2(current, range.size) # NoValue
    /\ seen' = Append(seen, current)
    /\ current' = Wrap(current + 1)
    /\ UNCHANGED <<range, ways>>

IterReset ==
    /\ current' = range.min
    /\ seen' = <<>>
    /\ UNCHANGED <<range, ways>>

En2Next == IterNext \/ IterReset

En2Spec == En2Init /\ [][En2Next]_rangeVars

\* Threads that split a range among them never search a value twice and leave
\* none out, except the last value of the whole space, whose count saturates
\* (extranonce2.rs:156); no thread has more than one value above its share.
SplitPartitions ==
    LET parts == Split(range, ways)
        vals(p) == p.min..p.max
        all == range.min..range.max
        lost == IF ways > 1 /\ RangeLen(range) < Cardinality(all) THEN {WordMax} ELSE {}
    IN  (range # NoValue /\ parts # NoValue) =>
            /\ \A i \in DOMAIN parts : parts[i] # NoValue
            /\ UNION {vals(parts[i]) : i \in DOMAIN parts} = all \ lost
            /\ \A i, j \in DOMAIN parts : i # j =>
                  /\ vals(parts[i]) \cap vals(parts[j]) = {}
                  /\ Cardinality(vals(parts[i])) - Cardinality(vals(parts[j])) \in -1..1

\* The iterator yields every value of its range once and then ends, unless the
\* range ends at the largest word, where its position wraps (extranonce2.rs:243).
IteratorCovers ==
    (range # NoValue /\ range.max < WordMax) =>
        /\ seen = [i \in 1..Len(seen) |-> range.min + i - 1]
        /\ IterEnds => Len(seen) = RangeLen(range)

-----------------------------------------------------------------------------
(* Versions.                                                               *)

GpBits == 0..(GpWidth - 1)
Region == GpLow..(GpLow + GpWidth - 1)

\* GeneralPurposeBits::from of a pool's mask; other bits are cut off.
FromMask(mask) == {b - GpLow : b \in mask \cap Region}

\* apply_to_version
ApplyTo(gp, base) == base \cup {b + GpLow : b \in gp}

\* VersionTemplate::new
NewVersion(base, gp) == IF base \cap Region = {} THEN [base |-> base, mask |-> gp] ELSE NoValue

-----------------------------------------------------------------------------
(* Merkle root.                                                            *)

Climb(leaf, branch) == FoldLeft(LAMBDA h, node : <<h, node>>, leaf, branch)

\* The coinbase with its extranonces, climbed to the root.
MerkleRoot(t, en2) == Climb(t.cb1 \o t.en1 \o en2 \o t.cb2, t.branch)

\* Splitting and iterating use every extranonce2 of a range once
\* (extranonce2.rs:186).
RangesExact == SplitPartitions /\ IteratorCovers
=============================================================================
