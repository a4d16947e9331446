------------------------- MODULE MCPulseScheduling -------------------------
(***************************************************************************)
(* Instances of PulseScheduling for TLC: engines that the code times as it *)
(* says, and those it does not.                                            *)
(***************************************************************************)
EXTENDS PulseScheduling

Four == [nCylinders |-> 4, fourStroke |-> TRUE, evenFire |-> TRUE, oddfire |-> <<0, 0, 0>>,
         injLayout |-> "paired", injTiming |-> TRUE, squirts |-> 2, staging |-> FALSE,
         sparkMode |-> "wasted", rotaryType |-> "FC",
         advance |-> 10, dwell |-> 60, sparkDur |-> 20, splitDegrees |-> 0,
         injAng |-> 350, PW1 |-> 100, PW3 |-> 0, tick |-> 10]

Engine(n) == [Four EXCEPT !.nCylinders = n]

\* The degrees of five cylinders are multiples of 12.
Five == [Engine(5) EXCEPT !.tick = 12, !.advance = 12, !.sparkDur = 24, !.injAng = 348, !.PW1 = 96]

Sequential == [Four EXCEPT !.sparkMode = "sequential", !.injLayout = "sequential", !.squirts = 1]

Rotary == [Four EXCEPT !.sparkMode = "rotary", !.splitDegrees = 30]

\* Every number of cylinders, layout and mode that is timed as it should be.
EveryEngine ==
    {Engine(1), [Sequential EXCEPT !.nCylinders = 1],
     [Engine(1) EXCEPT !.staging = TRUE, !.PW3 = 250, !.fourStroke = FALSE, !.squirts = 1],
     Engine(2), [Sequential EXCEPT !.nCylinders = 2, !.oddfire = <<270, 0, 0>>, !.evenFire = FALSE],
     [Engine(2) EXCEPT !.staging = TRUE, !.PW3 = 60, !.advance = 30],
     [Engine(3) EXCEPT !.injTiming = FALSE],
     Four, [Four EXCEPT !.PW1 = 330, !.injAng = 20, !.dwell = 200, !.advance = 40],
     [Four EXCEPT !.staging = TRUE, !.PW3 = 340, !.injAng = 300],
     [Four EXCEPT !.sparkMode = "wasted cop", !.injTiming = FALSE, !.dwell = 400, !.sparkDur = 60],
     [Four EXCEPT !.sparkMode = "single", !.dwell = 200],
     Sequential, [Sequential EXCEPT !.injAng = 700, !.PW1 = 600, !.dwell = 300],
     [Sequential EXCEPT !.evenFire = FALSE, !.oddfire = <<90, 180, 270>>],
     Rotary, [Rotary EXCEPT !.rotaryType = "FD"], [Rotary EXCEPT !.rotaryType = "RX8", !.dwell = 300],
     Five, [Five EXCEPT !.sparkMode = "sequential", !.injLayout = "sequential", !.squirts = 1],
     Engine(6), [Engine(6) EXCEPT !.squirts = 3, !.injAng = 230],
     [Engine(6) EXCEPT !.sparkMode = "single"],
     Engine(8), [Engine(8) EXCEPT !.PW1 = 330, !.injAng = 20, !.dwell = 250],
     [Engine(6) EXCEPT !.squirts = 4, !.injAng = 170, !.PW1 = 120]}

ThreeCylinders == {Engine(3)}
FiveCylinders == {[Five EXCEPT !.sparkMode = "sequential"]}
=============================================================================
