-------------------------- MODULE MCEngineOutputs --------------------------
(***************************************************************************)
(* Instances of EngineOutputs for TLC: each fits one output at a time, as  *)
(* they share nothing but the engine and the loop.                         *)
(***************************************************************************)
EXTENDS EngineOutputs

Plain == [stepper |-> FALSE, iacStepHome |-> 0, iacMaxSteps |-> 0, iacStepHyster |-> 1,
          iacCoolTime |-> 0, crankSteps |-> 0, runSteps |-> 0, fpPrime |-> 0,
          fan |-> FALSE, fanWhenOff |-> FALSE, solenoid |-> "none", reversed |-> FALSE,
          coolants |-> {"cold"}]

Stepper == [Plain EXCEPT !.stepper = TRUE, !.iacStepHome = FullSteps + 1, !.iacMaxSteps = FullSteps,
                         !.crankSteps = FullSteps + 1, !.runSteps = 1]

EverySetting ==
    {[Plain EXCEPT !.fpPrime = 3],
     [Plain EXCEPT !.fan = TRUE, !.fanWhenOff = TRUE, !.coolants = {"cold", "warm", "hot"}],
     Stepper, [Stepper EXCEPT !.iacStepHyster = 2],
     [Stepper EXCEPT !.iacCoolTime = 1, !.coolants = {"hot"}]}
        \cup {[Plain EXCEPT !.solenoid = s] : s \in {"boost", "vvt", "idle"}}
        \cup {[Plain EXCEPT !.solenoid = "idle", !.reversed = TRUE]}
=============================================================================
