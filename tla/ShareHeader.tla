----------------------------- MODULE ShareHeader -----------------------------
(***************************************************************************)
(* The way of a share from a chip to the pool: the source turns the pool's *)
(* job into a template, the scheduler gives a thread an extranonce2, a     *)
(* board hashes a header and reports what it rolled, the source submits    *)
(* it, and the pool rebuilds the header from the submission.  Three boards *)
(* (asic/bm13xx/thread.rs, cpu_miner/hasher.rs, board/nano3s.rs) and two   *)
(* sources (stratum_v1.rs, stratum_v2.rs with nano-pool) take part.        *)
(*                                                                         *)
(* A nonce is the sequence of its bytes, least significant first; it has   *)
(* as many bytes as half an extranonce2, as on the Nano 3S.                *)
(***************************************************************************)
EXTENDS JobData

CONSTANTS
    Versions,  \* versions of a pool's jobs
    Masks      \* version masks a pool may grant

ASSUME ShareHeaderConstants ==
    /\ Versions \subseteq SUBSET (0..VersionTop) /\ Masks \subseteq SUBSET (0..VersionTop)
    /\ MaxSize % 2 = 0

VARIABLES
    board,     \* the board that works
    job,       \* the pool's job, with the source it came by
    template,  \* VersionTemplate and range of the JobTemplate, or NoValue
    hashed,    \* the header the board hashed
    share,     \* its Share
    submitted  \* what the source sent

headerVars == <<board, job, template, hashed, share, submitted>>

Half == MaxSize \div 2
Nonces == [1..Half -> 0..(Byte - 1)]
Swap(bytes) == Reverse(bytes)

\* The pool's side of a job: extranonce1 and the coinbase are constant bytes.
Coinbase == [cb1 |-> <<0>>, en1 |-> <<1>>, cb2 |-> <<0>>, branch |-> <<"sibling">>]

HeaderInit ==
    /\ board \in {"bm13xx", "cpu", "nano3s"}
    /\ job \in [src : {"v1", "v2"}, ver : Versions, size : 1..MaxSize,
                mask : Masks \cup {NoValue}]
    /\ template = NoValue /\ hashed = NoValue /\ share = NoValue /\ submitted = NoValue

-----------------------------------------------------------------------------
(* The source makes a template.                                            *)

\* job_to_template: a version that uses general purpose bits is an error.
TemplateV1 ==
    NewVersion(job.ver, IF job.mask = NoValue THEN {} ELSE FromMask(job.mask))

\* merkle_template: those bits are cleared; all may roll, or none.
TemplateV2 == NewVersion(job.ver \ Region, IF job.mask = NoValue THEN {} ELSE GpBits)

MakeTemplate ==
    /\ template = NoValue
    /\ template' = IF job.src = "v1" THEN TemplateV1 ELSE TemplateV2
    /\ template' # NoValue
    /\ UNCHANGED <<board, job, hashed, share, submitted>>

-----------------------------------------------------------------------------
(* The boards.                                                             *)

Header(version, en2, nonce) ==
    [version |-> version, root |-> MerkleRoot(Coinbase, en2), nonce |-> nonce]

Found(version, en2, nonce) == [version |-> version, en2 |-> en2, nonce |-> nonce]

\* The chip rolls the whole region, whatever the template allows, and hashes
\* the nonce as it reports it.
HashBm13xx ==
    /\ board = "bm13xx"
    /\ \E value \in 0..MaxForSize(job.size), gp \in SUBSET GpBits, n \in Nonces :
          LET version == ApplyTo(gp, template.base)
              en2 == NewEn2(value, job.size)
          IN  /\ hashed' = Header(version, En2Bytes(en2), n)
              /\ share' = Found(version, en2, n)

HashCpu ==
    /\ board = "cpu"
    /\ \E value \in 0..MaxForSize(job.size), n \in Nonces :
          LET en2 == NewEn2(value, job.size)
          IN  /\ hashed' = Header(template.base, En2Bytes(en2), n)
              /\ share' = Found(template.base, en2, n)

\* nano3s_vmask_candidates: nothing, the whole mask, then single bits from the
\* third general purpose bit on, as far as there are slots.
Vmasks(gp) ==
    LET raw == {b + GpLow : b \in gp}
    IN  {{}, raw} \cup {{b} : b \in {r \in raw : r >= GpLow + 2}}

SplicedHighFirst(low, high) == high \o low         \* mutant: halves swapped

\* The chip counts the low half of the extranonce2; the high half follows it
\* in the coinbase.
SplicedEn2(low, high) == low \o high

\* verify_and_build_share: the share has the whole width, and the nonce enters
\* the header with its bytes swapped.
HashNano3s ==
    /\ board = "nano3s"
    /\ \E low, high \in 0..(Byte^Half - 1), vmask \in Vmasks(template.mask), n \in Nonces :
          LET version == template.base \cup vmask
          IN  /\ hashed' = Header(version, SplicedEn2(LeBytes(low, Half), LeBytes(high, Half)),
                                  Swap(n))
              /\ share' = Found(version, NewEn2(high * Byte^Half + low, MaxSize), n)

Hash ==
    /\ template # NoValue /\ share = NoValue
    /\ HashBm13xx \/ HashCpu \/ HashNano3s
    /\ UNCHANGED <<board, job, template, submitted>>

-----------------------------------------------------------------------------
(* The source submits and the pool rebuilds.                               *)

SubmittedNonce(s) == Swap(s.nonce)

SubmittedVersion(s) ==
    IF job.mask = NoValue THEN job.ver ELSE (job.ver \ job.mask) \cup (s.version \cap job.mask)

\* share_to_submit_params, read by a Stratum v1 pool: it writes the nonce it
\* is given least significant byte first and replaces the rolled bits.
SubmitV1 ==
    [en2 |-> En2Bytes(share.en2), nonce |-> SubmittedNonce(share),
     version |-> SubmittedVersion(share)]

\* submit_share fits the extranonce to the channel's size; nano-pool writes the
\* nonce most significant byte first.
SubmitV2 ==
    [en2 |-> [i \in 1..job.size |->
                 IF i <= share.en2.size THEN LeBytes(share.en2.value, MaxSize)[i] ELSE 0],
     nonce |-> Swap(share.nonce),
     version |-> share.version]

Submit ==
    /\ share # NoValue /\ submitted = NoValue
    /\ submitted' = IF job.src = "v1" THEN SubmitV1 ELSE SubmitV2
    /\ UNCHANGED <<board, job, template, hashed, share>>

HeaderNext == MakeTemplate \/ Hash \/ Submit

HeaderSpec == HeaderInit /\ [][HeaderNext]_headerVars

Rebuilt == Header(submitted.version, submitted.en2, submitted.nonce)

-----------------------------------------------------------------------------
(* Properties.                                                             *)

\* The pool rebuilds the header a Nano 3S hashed, whichever way the share went,
\* on channels with an extranonce2 of full width (nano3s.rs:818).
Nano3sSharesRebuilt ==
    (board = "nano3s" /\ submitted # NoValue /\ job.size = MaxSize) => Rebuilt = hashed

\* From the other boards it rebuilds root and version too, if it lets the chip
\* roll the whole region; but both ways swap the nonce as a Nano 3S needs it, so
\* the nonce of the header it rebuilds is the one hashed read backwards
\* (stratum_v1.rs:403, nano-pool main.rs:1120).
OtherSharesRebuilt ==
    (board # "nano3s" /\ submitted # NoValue) =>
        /\ Rebuilt.root = hashed.root /\ Rebuilt.nonce = Swap(hashed.nonce)
        /\ (board = "cpu" \/ job.src = "v2" \/ (job.mask # NoValue /\ Region \subseteq job.mask))
              => Rebuilt.version = hashed.version

\* Which header the pool rebuilds from a share: the one that was hashed if a
\* Nano 3S found it, and from another board one that differs in its nonce
\* wherever that does not read the same from both ends (stratum_v1.rs:403).
SharesRebuilt == Nano3sSharesRebuilt /\ OtherSharesRebuilt
=============================================================================
