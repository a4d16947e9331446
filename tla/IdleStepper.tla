----------------------------- MODULE IdleStepper ----------------------------
(***************************************************************************)
(* The stepper motor of the idle valve under open loop control: homing,    *)
(* one step at a time, the pause between steps.  A stepper s is a record   *)
(* of the program's variables (completedHomeSteps, curIdleStep,            *)
(* targetIdleStep, stepperStatus, stepStartTime), of the step pin and of   *)
(* where the motor really is, in steps from the seat of the valve.  The    *)
(* start time, which is read in a step and the pause after it only, is 0   *)
(* at other times; the driver is left out, as every step enables it.       *)
(*                                                                         *)
(* An engine's setting c has iacStepHome, iacMaxSteps, iacStepHyster and   *)
(* iacCoolTime, and crankSteps and runSteps, which the tables give.        *)
(***************************************************************************)
EXTENDS Integers

CONSTANTS
    ClockPeriod,        \* micros() wraps at this many ticks
    StepTime,           \* iacStepTime_uS, in ticks
    FullSteps           \* steps from the valve's seat to its stop

ASSUME StepperAssumption ==
    /\ StepTime \in Nat \ {0} /\ FullSteps \in Nat \ {0}
    /\ ClockPeriod \in Nat /\ ClockPeriod > StepTime

SmallerOf(a, b) == IF a < b THEN a ELSE b
LargerOf(a, b) == IF a > b THEN a ELSE b

\* initialiseIdle(): the outputs and the motor stay as they are.
Rehomed(s) ==
    [s EXCEPT !.completedHomeSteps = 0, !.curIdleStep = 0,
              !.stepperStatus = "SOFF", !.stepStartTime = 0]

\* The step pin is raised.  The motor moves when it was low, up to its stops.
Raised(s, steps, now) ==
    [s EXCEPT !.pin = TRUE, !.stepperStatus = "STEPPING", !.stepStartTime = now,
              !.motor = IF s.pin THEN @ ELSE SmallerOf(FullSteps, LargerOf(0, @ + steps))]

----------------------------------------------------------------------------
(* checkForStepping()                                                       *)

Pause(c, s) == IF s.stepperStatus = "STEPPING" THEN StepTime ELSE c.iacCoolTime

\* An unsigned comparison of times of 32 bits.
PauseIsOver(c, s, now) == now > (s.stepStartTime + Pause(c, s)) % ClockPeriod

IsStepping(c, s, now) ==
    \/ s.stepperStatus = "STEPPING"
    \/ s.stepperStatus = "COOLING" /\ ~PauseIsOver(c, s, now)

Checked(c, s, now) ==
    CASE s.stepperStatus = "STEPPING" /\ PauseIsOver(c, s, now) ->
            [s EXCEPT !.pin = FALSE,
                      !.stepStartTime = IF c.iacCoolTime > 0 THEN now ELSE 0,
                      !.stepperStatus = IF c.iacCoolTime > 0 THEN "COOLING" ELSE "SOFF"]
      [] s.stepperStatus = "COOLING" /\ PauseIsOver(c, s, now) ->
            [s EXCEPT !.stepperStatus = "SOFF", !.stepStartTime = 0]
      [] OTHER -> s

----------------------------------------------------------------------------
IsHomed(c, s) == s.completedHomeSteps >= c.iacStepHome

HomingStep(s, now) == [Raised(s, -1, now) EXCEPT !.completedHomeSteps = @ + 1]

\* A target, limited to the steps that are configured.
Limited(c, steps) == SmallerOf(steps, c.iacMaxSteps)

\* Mutant: the step is counted though the motor is not told to make it.
CountsWithinHysteresis(c, s, now) ==
    LET way == IF s.targetIdleStep < s.curIdleStep THEN -1
               ELSE IF s.targetIdleStep > s.curIdleStep THEN 1 ELSE 0
        stepped == [s EXCEPT !.curIdleStep = @ + way]
    IN  IF \/ s.targetIdleStep <= s.curIdleStep - c.iacStepHyster
           \/ s.targetIdleStep >= s.curIdleStep + c.iacStepHyster
        THEN Raised(stepped, way, now) ELSE stepped

doStep(c, s, now) ==
    LET way == IF s.targetIdleStep < s.curIdleStep THEN -1
               ELSE IF s.targetIdleStep > s.curIdleStep THEN 1 ELSE 0
    IN  IF \/ s.targetIdleStep <= s.curIdleStep - c.iacStepHyster
           \/ s.targetIdleStep >= s.curIdleStep + c.iacStepHyster
        THEN [Raised(s, way, now) EXCEPT !.curIdleStep = @ + way] ELSE s

\* Home first; what is done once the stepper is home and idle is s followed by one step.
HomeFirst(c, s, now, homed) == IF IsHomed(c, s) THEN homed ELSE HomingStep(s, now)

\* disableIdle(), while the engine stands still: the target is the one for cranking.
disableIdle(c, s, now) ==
    LET checked == Checked(c, s, now)
    IN  IF IsStepping(c, s, now) THEN checked
        ELSE HomeFirst(c, checked, now,
                       [checked EXCEPT !.targetIdleStep = Limited(c, c.crankSteps)])

\* idleControl(): the target is looked up in every loop while cranking and now and then
\* while running (lookup); a hot engine that runs makes no step.
idleControl(c, s, coolant, cranking, lookup, now) ==
    LET checked == Checked(c, s, now)
        target == IF cranking THEN Limited(c, c.crankSteps)
                  ELSE IF lookup THEN Limited(c, c.runSteps) ELSE checked.targetIdleStep
    IN  IF IsStepping(c, s, now) THEN checked
        ELSE HomeFirst(c, checked, now,
                       IF coolant = "hot" /\ ~cranking THEN checked
                       ELSE doStep(c, [checked EXCEPT !.targetIdleStep = target], now))

\* The end of a step falls on the clock's last tick: no later time compares greater.
EndsAtWrap(c, s) ==
    s.stepperStatus # "SOFF" /\ (s.stepStartTime + Pause(c, s)) % ClockPeriod = ClockPeriod - 1
=============================================================================
