------------------------------ MODULE JobSource ------------------------------
(***************************************************************************)
(* What a job source promises its scheduler (job_source/mod.rs): while it  *)
(* is up it offers jobs of its present session and of no other, and before *)
(* the jobs of a later session it withdraws those of the earlier ones with *)
(* ClearJobs.  A job is abstracted to the session it belongs to.           *)
(***************************************************************************)
EXTENDS Naturals, Sequences

VARIABLES
    up,      \* session the source is in, 0 for none
    out,     \* events not yet taken: a session, or 0 for ClearJobs
    has,     \* sessions of the jobs the scheduler holds
    stopped  \* the source has given up

jobSourceVars == <<up, out, has, stopped>>

Init == up = 0 /\ out = <<>> /\ has = {} /\ stopped = FALSE

\* Sessions of the jobs the scheduler holds once it has taken every event.
Standing ==
    LET clears == {i \in DOMAIN out : out[i] = 0}
        after  == {i \in DOMAIN out : \A c \in clears : c < i}
    IN  {out[i] : i \in after} \cup (IF clears = {} THEN has ELSE {})

Up ==
    /\ up = 0 /\ ~stopped
    /\ Standing = {}
    /\ up' \in Nat \ {0}
    /\ UNCHANGED <<out, has, stopped>>

Offer ==
    /\ up # 0
    /\ out' = Append(out, up)
    /\ UNCHANGED <<up, has, stopped>>

\* The session ends, or an attempt to begin one fails.
Down ==
    /\ ~stopped
    /\ up' = 0
    /\ out' = Append(out, 0)
    /\ UNCHANGED <<has, stopped>>

GiveUp ==
    /\ up # 0
    /\ up' = 0 /\ stopped' = TRUE
    /\ UNCHANGED <<out, has>>

\* UpdateJob adds to the jobs held, ReplaceJob replaces them.
Take ==
    /\ out # <<>>
    /\ out' = Tail(out)
    /\ has' \in IF Head(out) = 0 THEN {{}} ELSE {has \cup {Head(out)}, {Head(out)}}
    /\ UNCHANGED <<up, stopped>>

Next == Up \/ Offer \/ Down \/ GiveUp \/ Take

Spec == Init /\ [][Next]_jobSourceVars
=============================================================================
