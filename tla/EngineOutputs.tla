---------------------------- MODULE EngineOutputs ----------------------------
(***************************************************************************)
(* The slow outputs of the engine: the fuel pump and its priming, the fan, *)
(* the stepper motor of the idle valve, and a solenoid driven by PWM       *)
(* (boost, VVT or idle).  The main loop, the interrupt of the solenoid's   *)
(* timer and the part of the 1 ms interrupt that runs once a second share  *)
(* them; the statements that the loop makes on a solenoid (todo) are taken *)
(* one at a time, with interrupts in between.                              *)
(*                                                                         *)
(* An engine's setting is one of IdleStepper, with stepper (whether there  *)
(* is one), fpPrime, fan (whether there is one), fanWhenOff, solenoid,     *)
(* reversed (iacPWMdir) and coolants, the temperatures that come up        *)
(* ("cold", "warm", "hot").                                                *)
(***************************************************************************)
EXTENDS IdleStepper, Sequences

CONSTANTS
    Settings,
    Seconds,            \* values of the byte secl: 256
    MaxPowerUps         \* bound: how often the 12 V supply comes back

ASSUME OutputsAssumption == Seconds \in Nat \ {0} /\ MaxPowerUps \in Nat

VARIABLES
    setting,
    engine,         \* "stopped", "turning" (no sync yet), "cranking" or "running"
    coolant,
    supply,         \* the 12 V supply, how often it came, and for how many readings battery10 stays low
    now,            \* micros()
    secl,
    status,         \* the engine's speed and state bits, as the loop has them
    pump,           \* the fuel pump: its pin, fpPrimed and fpPrimeTime
    fanOn,
    stepper,
    pwm,            \* the solenoid: its pin, pwm_state, whether its interrupt is enabled, and asked for
    todo,           \* the statements on the solenoid that the loop has still to make
    turn            \* what the loop does next, and whether it came round since the last tick

engineVars == <<engine, coolant, supply>>
vars == <<setting, engineVars, now, secl, status, pump, fanOn, stepper, pwm, todo, turn>>

SolenoidOff == [pin |-> FALSE, state |-> FALSE, enabled |-> FALSE, asked |-> FALSE]

\* The idle solenoid runs, with the interrupt of its timer, before the loop does.
initialiseIdle == [SolenoidOff EXCEPT !.enabled = TRUE, !.asked = TRUE]

\* So does the interrupt of the VVT's timer, with a duty of 0, but not the boost's.
initialiseAuxPWM == [SolenoidOff EXCEPT !.enabled = setting.solenoid = "vvt"]

Init ==
    /\ setting \in Settings
    /\ engine = "stopped"
    /\ coolant \in setting.coolants
    /\ supply = [on |-> FALSE, times |-> 0, low |-> 2]
    /\ now = 0
    /\ secl = 0
    /\ status = [speed |-> "stopped", bit |-> "none"]
    /\ pump = [on |-> setting.fpPrime > 0, primed |-> setting.fpPrime = 0, time |-> 0]
    /\ fanOn = FALSE
    /\ stepper \in [completedHomeSteps : {0}, curIdleStep : {0}, targetIdleStep : {0},
                    stepperStatus : {"SOFF"}, stepStartTime : {0}, pin : {FALSE},
                    motor : IF setting.stepper THEN 0..FullSteps ELSE {0}]
    /\ pwm = IF setting.solenoid = "idle" THEN initialiseIdle ELSE initialiseAuxPWM
    /\ todo = <<>>
    /\ turn = [at |-> "speed", looped |-> FALSE]

\* RPM > 0, and sync
Turning == status.speed \notin {"stopped", "turning"}

\* Between two rounds of the loop, which reads the engine's speed once in each.
Round == turn.at = "speed" /\ todo = <<>>

----------------------------------------------------------------------------
(* What the program does not decide.                                        *)

EngineChanges ==
    /\ Round
    /\ engine' \in {"stopped", "turning", "cranking", "running"} \ {engine}
    /\ engine' # "stopped" => supply.on
    /\ UNCHANGED <<setting, coolant, supply, now, secl, status, pump, fanOn, stepper, pwm, todo, turn>>

CoolantChanges ==
    /\ Round
    /\ coolant' \in setting.coolants \ {coolant}
    /\ UNCHANGED <<setting, engine, supply, now, secl, status, pump, fanOn, stepper, pwm, todo, turn>>

\* The program may run from USB before the ignition is switched on, and after.
SupplyChanges ==
    /\ Round
    /\ \/ ~supply.on /\ supply.times < MaxPowerUps
       \/ supply.on /\ engine = "stopped"
    /\ supply' = [supply EXCEPT !.on = ~@, !.times = IF supply.on THEN @ ELSE @ + 1]
    /\ UNCHANGED <<setting, engine, coolant, now, secl, status, pump, fanOn, stepper, pwm, todo, turn>>

----------------------------------------------------------------------------
(* Interrupts.                                                              *)

\* Whether priming is over, by a clock that wraps and a difference that does not.
PrimingIsOver == secl' - pump.time >= setting.fpPrime

FanOn ==
    LET permit == setting.fanWhenOff \/ status.bit = "running"
    IN  IF permit /\ coolant = "hot" THEN TRUE
        ELSE IF coolant = "cold" \/ ~permit THEN FALSE ELSE fanOn

\* The count of the seconds matters to the pump and the fan only.
OneSecond ==
    /\ setting.fpPrime > 0 \/ setting.fan
    /\ secl' = (secl + 1) % Seconds
    /\ fanOn' = IF setting.fan THEN FanOn ELSE fanOn
    /\ pump' = IF ~pump.primed /\ PrimingIsOver
               THEN [pump EXCEPT !.primed = TRUE, !.on = @ /\ Turning] ELSE pump
    /\ UNCHANGED <<setting, engineVars, now, status, stepper, pwm, todo, turn>>

\* boostInterrupt(), vvtInterrupt()
AuxInterrupt ==
    /\ setting.solenoid \in {"boost", "vvt"}
    /\ pwm.enabled
    /\ pwm' = [pwm EXCEPT !.pin = ~pwm.state, !.state = ~@]
    /\ UNCHANGED <<setting, engineVars, now, secl, status, pump, fanOn, stepper, todo, turn>>

\* A reversed solenoid has its pin low where another's is high, and a second pin is
\* the opposite of the first.
idleInterrupt ==
    /\ setting.solenoid = "idle"
    /\ pwm.enabled
    /\ pwm' = [pwm EXCEPT !.pin = (pwm.state = setting.reversed), !.state = ~@]
    /\ UNCHANGED <<setting, engineVars, now, secl, status, pump, fanOn, stepper, todo, turn>>

----------------------------------------------------------------------------
(* The solenoid.                                                            *)

\* Mutant: the pin is set low before the interrupt is disabled.
LowThenDisable == <<"low", "disable">>

\* boostDisable(), and disableIdle() under PWM
DisableThenLow == <<"disable", "low">>

\* The statements that switch a solenoid off.
SwitchOff == IF setting.solenoid = "vvt" THEN <<"low", "disable">> ELSE DisableThenLow

LoopStatement ==
    /\ todo # <<>>
    /\ todo' = Tail(todo)
    /\ pwm' = CASE Head(todo) = "enable" -> [pwm EXCEPT !.enabled = TRUE]
                [] Head(todo) = "disable" -> [pwm EXCEPT !.enabled = FALSE]
                [] Head(todo) = "low" -> [pwm EXCEPT !.pin = FALSE]
                [] Head(todo) = "high" -> [pwm EXCEPT !.pin = TRUE]
    /\ UNCHANGED <<setting, engineVars, now, secl, status, pump, fanOn, stepper, turn>>

boostControl == \E on \in BOOLEAN :
    /\ todo' = IF on THEN <<"enable">> ELSE DisableThenLow
    /\ pwm' = [pwm EXCEPT !.asked = on]

\* A duty of 0, in between, or of 100 percent.
vvtControl == \E on, full \in BOOLEAN :
    /\ todo' = CASE ~Turning -> <<"disable">>
                 [] Turning /\ ~on -> <<"low", "disable">>
                 [] Turning /\ on -> <<"enable">> \o (IF full THEN <<"high", "disable">> ELSE <<>>)
    /\ pwm' = [pwm EXCEPT !.asked = on /\ Turning]

\* idleControl() under open loop PWM
idlePWM == \E on \in BOOLEAN :
    /\ todo' = (IF Turning THEN <<"enable">> ELSE <<>>) \o (IF on THEN <<>> ELSE DisableThenLow)
    /\ pwm' = [pwm EXCEPT !.asked = on]

----------------------------------------------------------------------------
(* The main loop.                                                           *)

Turns(from, to) ==
    /\ todo = <<>>
    /\ turn.at = from
    /\ turn' = [at |-> to, looped |-> turn.looped \/ to = "speed"]
    /\ UNCHANGED <<setting, engine, coolant, now, secl>>

Running ==
    /\ Turns("speed", "periodic")
    /\ engine # "stopped"
    /\ status' = [status EXCEPT !.speed = engine]
    /\ pump' = [pump EXCEPT !.on = TRUE]
    /\ UNCHANGED <<supply, fanOn, stepper, pwm, todo>>

\* Mutant: the pump is left as it is.
StalledPumpOn ==
    /\ Turns("speed", "periodic")
    /\ engine = "stopped"
    /\ status' = [speed |-> "stopped", bit |-> "none"]
    /\ stepper' = IF setting.stepper THEN disableIdle(setting, stepper, now) ELSE stepper
    /\ todo' = SwitchOff
    /\ pwm' = [pwm EXCEPT !.asked = FALSE]
    /\ UNCHANGED <<supply, fanOn, pump>>

Stalled ==
    /\ Turns("speed", "periodic")
    /\ engine = "stopped"
    /\ status' = [speed |-> "stopped", bit |-> "none"]
    /\ pump' = [pump EXCEPT !.on = @ /\ ~pump.primed]
    /\ stepper' = IF setting.stepper THEN disableIdle(setting, stepper, now) ELSE stepper
    /\ todo' = SwitchOff
    /\ pwm' = [pwm EXCEPT !.asked = FALSE]
    /\ UNCHANGED <<supply, fanOn>>

\* The supply came while battery10 still read low.
SupplyHasCome == supply.on /\ supply.low > 0 /\ ~Turning

\* The reading is filtered: it follows the supply within two readings.
readBat ==
    /\ Turns("periodic", "solenoid")
    /\ \E low \in IF supply.on THEN 0..LargerOf(0, supply.low - 1) ELSE {2} :
          supply' = [supply EXCEPT !.low = low]
    /\ pump' = IF SupplyHasCome THEN [on |-> TRUE, primed |-> FALSE, time |-> secl] ELSE pump
    /\ stepper' = IF SupplyHasCome /\ setting.stepper THEN Rehomed(stepper) ELSE stepper
    /\ UNCHANGED <<status, fanOn, pwm, todo>>

\* Most rounds of the loop are not one of the four in a second.
NotNow ==
    /\ Turns("periodic", "solenoid")
    /\ UNCHANGED <<supply, status, pump, fanOn, stepper, pwm, todo>>

ControlSolenoid ==
    /\ Turns("solenoid", "idle")
    /\ \/ setting.solenoid = "boost" /\ boostControl
       \/ setting.solenoid = "vvt" /\ vvtControl
       \/ setting.solenoid = "idle" /\ idlePWM
       \/ UNCHANGED <<pwm, todo>>
    /\ UNCHANGED <<supply, status, pump, fanOn, stepper>>

\* The stepper, and the engine's state bits at the end of the round.
ControlStepper ==
    /\ Turns("idle", "speed")
    /\ \E lookup \in IF Turning THEN BOOLEAN ELSE {FALSE} :
          stepper' = IF setting.stepper
                     THEN idleControl(setting, stepper, coolant, status.bit = "cranking", lookup, now)
                     ELSE stepper
    /\ status' = [status EXCEPT !.bit = IF Turning THEN status.speed ELSE @]
    /\ UNCHANGED <<supply, pump, fanOn, pwm, todo>>

\* The loop controls the stepper at least once between two ticks of the clock, which
\* only the stepper reads.
Tick ==
    /\ setting.stepper
    /\ turn.looped
    /\ turn' = [turn EXCEPT !.looped = FALSE]
    /\ now' = (now + 1) % ClockPeriod
    /\ UNCHANGED <<setting, engineVars, secl, status, pump, fanOn, stepper, pwm, todo>>

Loop == LoopStatement \/ Running \/ Stalled \/ readBat \/ NotNow \/ ControlSolenoid \/ ControlStepper

Next == EngineChanges \/ CoolantChanges \/ SupplyChanges \/ OneSecond \/ AuxInterrupt \/ idleInterrupt
            \/ Loop \/ Tick

\* The loop goes round, the clocks run; the battery is read again and again.
Fairness == WF_vars(Loop) /\ WF_vars(Tick) /\ WF_vars(OneSecond) /\ SF_vars(readBat)

Spec == Init /\ [][Next]_vars /\ Fairness

----------------------------------------------------------------------------
\* A boost or idle solenoid that the loop has switched off stays off, whenever the
\* interrupt of its timer came between the statements that switch it off.
SolenoidStaysOff ==
    setting.solenoid \in {"boost", "idle"} /\ ~pwm.asked /\ todo = <<>> => ~pwm.pin

\* The fuel pump stops for good after the engine does, however starting and stopping,
\* the supply and the end of priming fall together; but not when the priming began so
\* late in the count of secl that the count wraps before it ends.
PumpStops ==
    setting.fpPrime > 0 /\ <>[](engine = "stopped") =>
        <>[](~pump.on) \/ <>[](~pump.primed /\ pump.time + setting.fpPrime >= Seconds)

\* The motor, and not only the program's count of its steps, comes within the
\* hysteresis of its target and stays there, once the engine's state does: wherever it
\* stood when the program started, and though homing may start again in mid-step.  A
\* hot engine that does not crank is left as it is, and a step that ends on the last
\* tick before micros() wraps never does.
MotorReachesTarget ==
    setting.stepper =>
        \A e \in {"stopped", "cranking", "running"}, c \in {"cold", "hot"} :
            (c # "hot" \/ e = "cranking") /\ <>[](engine = e /\ coolant = c) =>
                \/ <>[](stepper.motor - stepper.targetIdleStep
                            \in (1 - setting.iacStepHyster)..(setting.iacStepHyster - 1))
                \/ <>[]EndsAtWrap(setting, stepper)
=============================================================================
