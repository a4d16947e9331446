----------------------------- MODULE MCMainLoop -----------------------------
(***************************************************************************)
(* What the main loop works out in a round, one part at a time: the pulses *)
(* it schedules, the maps and curves it looks up, the enrichment of an     *)
(* acceleration and the correction from the oxygen sensor.  The parts have *)
(* no variable in common, so the run explores each on its own and not the  *)
(* product of them: the initial state says which.                          *)
(***************************************************************************)
EXTENDS MCPulseScheduling, MapLookup, CurveLookup, AccelEnrichment, ClosedLoopFuel,
        TLC

VARIABLE part

\* A map of four columns and four rows with steep and flat cells and the
\* greatest values a byte has.  The inputs are a bin of either axis, a point
\* between any two and one beyond either end; the tuner moves an inner bin of either axis
\* and changes a cell between its corners.
MCFirstMap ==
    [axisX |-> 0 :> 5 @@ 1 :> 10 @@ 2 :> 17 @@ 3 :> 30,
     axisY |-> 0 :> 20 @@ 1 :> 14 @@ 2 :> 9 @@ 3 :> 2,
     values |-> [r \in 0 .. 3 |-> [c \in 0 .. 3 |->
                   IF r = 0 THEN 255 - 5 * c ELSE IF r = 3 THEN 7 ELSE 40 * r + 37 * c]]]
MCSpeeds == {4, 8, 13, 17, 23, 31}
MCLoads == {1, 7, 9, 12, 17, 21}
MCTunedCells == {<<1, 2>>}
MCSpeedBins == {10, 12}
MCLoadBins == {9, 13}
MCValues == {114, 255}

\* A curve that rises and falls, asked below, on, between and beyond its bins.
MCAxisX == 0 :> 5 @@ 1 :> 8 @@ 2 :> 15 @@ 3 :> 20
MCFirstCurve == 0 :> 100 @@ 1 :> 255 @@ 2 :> 90 @@ 3 :> 10
MCInputs == {3, 6, 8, 12, 15, 22}
MCTunedBins == {0}
MCCurveValues == {100, 255, 30}

\* Movements that ask for nothing, for less than the threshold and for more.
MCThrottles == {0, 2, 40, 90}
MCAmounts == {0, 30}

loopVars == <<part, vars, mapVars, curveVars, accelVars, egoVars>>

Only(name, Steps, others) == part = name /\ Steps /\ UNCHANGED <<part, others>>

LoopInit ==
    /\ part \in {"pulses", "map", "curve", "enrichment", "closed loop"}
    /\ Init /\ (part # "pulses" => setting = Four /\ crank = 0)
    /\ MapInit
    /\ CurveInit
    /\ AccelInit /\ (part # "enrichment" => throttle.TPS = 0)
    /\ EgoInit

Pulses(Steps) == Only("pulses", Steps, <<mapVars, curveVars, accelVars, egoVars>>)
Maps(Steps) == Only("map", Steps, <<vars, curveVars, accelVars, egoVars>>)
Curves(Steps) == Only("curve", Steps, <<vars, mapVars, accelVars, egoVars>>)
Enrichment(Steps) == Only("enrichment", Steps, <<vars, mapVars, curveVars, egoVars>>)
ClosedLoop(Steps) == Only("closed loop", Steps, <<vars, mapVars, curveVars, accelVars>>)

LoopNext ==
    \/ Pulses(Next)
    \/ Maps(MapNext)
    \/ Curves(CurveNext)
    \/ Enrichment(AccelNext)
    \/ ClosedLoop(EgoNext)

\* EgoFairness, where the part is the closed loop.
LoopFairness ==
    /\ WF_loopVars(ClosedLoop(Spark))
    /\ SF_loopVars(ClosedLoop(StepWhenDue))

LoopSpec == LoopInit /\ [][LoopNext]_loopVars /\ LoopFairness
=============================================================================
