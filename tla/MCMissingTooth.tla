--------------------------- MODULE MCMissingTooth ---------------------------
(***************************************************************************)
(* Instances of MissingTooth for TLC.                                      *)
(***************************************************************************)
EXTENDS MissingTooth

\* One tooth missing, no cam, the filter at half the gap, no log.
Base == [missing |-> 1, filter |-> 2, camSpeed |-> FALSE,
         sequential |-> FALSE, logging |-> FALSE]

\* A sequential engine; and a wheel on the cam, of which a log is taken.
EveryConfig ==
    {Base,
     [Base EXCEPT !.sequential = TRUE],
     [Base EXCEPT !.missing = 2, !.camSpeed = TRUE, !.logging = TRUE]}

\* The engine of the run turns as it must for its clean signal to be understood.
ASSUME RunAssumption == SteadyAndStaged

\* A narrow filter at speed, for GapNotInFirstHalf.
FastConfig == {[Base EXCEPT !.filter = 1]}
=============================================================================
