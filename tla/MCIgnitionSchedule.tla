------------------------- MODULE MCIgnitionSchedule -------------------------
(***************************************************************************)
(* Instances of IgnitionSchedule for TLC.  A schedule N drives coil N.     *)
(***************************************************************************)
EXTENDS IgnitionSchedule, TLC

OwnCoil == [c \in Channel |-> c]

\* IGN_MODE_SINGLE: every schedule drives coil 1.
SharedCoil == [c \in Channel |-> 1]
=============================================================================
