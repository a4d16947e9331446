--------------------------- MODULE MCFuelSchedule ---------------------------
(***************************************************************************)
(* Instances of FuelSchedule for TLC.  A schedule N drives injector N.     *)
(***************************************************************************)
EXTENDS FuelSchedule, TLC

\* Schedules 1 and 3 of the AVR's timer 3, in an engine with five cylinders:
\* schedule 3 drives injector 5 as well.
KindTimer3 == 1 :> "first" @@ 3 :> "mid"
OpensTimer3 == 1 :> {1} @@ 3 :> {3, 5}

\* Ask(c, T, D): schedule c with every timeout in T and duration in D.
Ask(c, T, D) == [ch : {c}, timeout : T, duration : D]

CallsTimer3 == Ask(1, {3}, {0, 4}) \cup Ask(3, {3}, {4})

\* Schedules 1 and 2 of the Teensy's first timer.
KindFTM0 == 1 :> "first" @@ 2 :> "mid"
OpensFTM0 == 1 :> {1} @@ 2 :> {2}
CallsFTM0 == Ask(1, {4}, {4}) \cup Ask(2, {4}, {4})

\* Schedule 5 of its second one.
KindFTM3 == 5 :> "high"
OpensFTM3 == 5 :> {5}
CallsFTM3 == Ask(5, {0, 4, 9, 100}, {4, 8})
=============================================================================
