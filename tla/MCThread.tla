------------------------------ MODULE MCThread ------------------------------
(* Instances of BM13xxThread for TLC: the tracker has two or three slots, so *)
(* the ids run round within the bounds on tasks and rolls.                   *)
EXTENDS BM13xxThread
=============================================================================
