# A formal model of the Speeduino firmware

Speeduino is the firmware of an open engine control unit. It runs on small
microcontrollers (an Arduino Mega 2560, a Teensy 3.5, STM32 boards): a main loop
computes how much fuel to inject and when to fire, and interrupts that can come
between any two instructions of it do what must be done on time. There is no
operating system, there are no locks, and most of the state is global. What the
program does in its interrupt handlers and what it shares with them is both what
matters most and what is hardest to test; it is what this directory models.

The modules are TLA+ for the TLC model checker, with proofs for TLAPS. All paths
below are in `src/speeduino/`.

## 1. The system

| Component | State | Operations |
|---|---|---|
| Fuel schedules (`scheduler.ino`, `scheduler.h`) | one `FuelSchedule` per channel (Status, duration, compare values, the queued pulse), the timer's counter, compare registers, flags and masks | `setFuelScheduleN()`, the compare interrupts, `ftm0_isr`/`ftm3_isr` |
| Ignition schedules (`scheduler.ino`) | one `Schedule` per channel, the same registers, the coils | `setIgnitionScheduleN()`, `refreshIgnitionSchedule1()`, the compare interrupts |
| Trigger decoders (`decoders.ino`) | tooth count, time stamps, filter, `hasSync`, `startRevolutions`, `revolutionOne`, the cam's count | `triggerSetup`, `triggerPri`, `triggerSec`, `getRPM`, `getCrankAngle`, `triggerSetEndTeeth` for each of some twenty wheels; `checkPerToothTiming` |
| Main loop (`speeduino.ino`, `crankMaths.ino`) | `currentStatus`, angles and pulse widths | stall check, reading sensors, fuel and spark computation, setting the schedules |
| 1 ms interrupt (`timers.ino`) | loop counters, `TIMER_mask`, `secl`, the tachometer's state, the overdwell target | `oneMSInterval()` |
| Tooth and composite loggers (`decoders.ino`, `comms.ino`) | the ring buffers, `toothHistoryIndex`, `toothLogReady`, the attached handlers | `addToothLogEntry`, `loggerPrimaryISR`, commands `H` `h` `J` `j` `T` |
| Serial command protocol (`comms.ino`) | `cmdPending`, `chunkPending`, `currentPage`, `isMap`, offsets | `command()`, `receiveValue`, `getPageValue`, `sendPage`, `receiveCalibration` |
| Settings storage and migration (`storage.ino`, `updates.ino`) | pages in RAM and in EEPROM, `eepromWritesPending`, the version of the data | `writeConfig`, `writeAllConfig`, `loadConfig`, `doUpdates` |
| Idle (`idle.ino`) | stepper position and phase, PWM phase | `idleControl`, `doStep`, `isStepperHomed`, `disableIdle`, `idleInterrupt` |
| Boost, VVT, fan, pump, nitrous (`auxiliaries.ino`, `timers.ino`) | PID state, PWM phase, pins, `fpPrimed`, `fpPrimeTime` | control routines, PWM interrupts, the 1 s task |
| Initialisation (`init.ino`) | channel angles, layouts, squirts, pins | `initialiseAll`, `initialiseTriggers` |
| Corrections (`corrections.ino`) | the end of an enrichment, the closed loop's next cycle and correction, flat shift flags | `correctionsFuel`, `correctionsIgn`, `correctionsDwell` |
| Table lookup (`table.ino`) | the bins and results found last | `get3DTableValue`, `table2D_getValue` |
| Sensors, displays, CAN | readings, pins | I/O |

How they interact:

  - **Main loop -> schedules.** The loop calls `setFuelScheduleN(timeout,
    duration)` and `setIgnitionScheduleN(...)`. These read the Status of a
    schedule that interrupts change, write its fields, program a compare register
    inside `noInterrupts()` and enable the compare interrupt, the last of them
    outside of it.
  - **Timer -> schedules.** A compare match raises a flag. When its interrupt is
    enabled a handler opens or closes an injector, or begins or ends the charging
    of a coil, and programs the next match.
  - **Trigger -> decoder -> loop.** A tooth passes, the decoder's interrupt counts
    it and decides whether it is tooth #1. The loop reads count, sync and time
    stamps, and takes them back when the engine has stalled.
  - **Trigger -> ignition.** With per-tooth timing the trigger interrupt moves the
    end of a dwell.
  - **1 ms interrupt -> ignition.** A dwell that is too long is cut. This handler
    runs with interrupts enabled.
  - **Serial -> loggers, storage.** Commands attach other trigger handlers, and ask
    for pages to be written over many turns of the loop. A command itself may arrive over
    many turns.
  - **Loop, PWM interrupts, 1 s task -> outputs.** The loop sets a target and enables a
    timer's interrupt, which raises and lowers the pin; priming of the pump is ended by
    the 1 s task, everything else about the pump is the loop's.

What is hard here is interleaving: between any two instructions of the main
loop, and of the 1 ms handler, interrupts may change what has just been read. The
second difficulty is arithmetic on counters that wrap: 16 bit timers, 32 bit
microseconds. The third is a signal (teeth) that can lack a pulse or carry one
too many and from which the decoder must recover. `PROJECT.json` lists the hazards
one by one, each at its line.

What makes each component correct:

  - *schedules*: an output that is on is always about to be turned off; a pulse
    begins when it was asked to and lasts as long; there is a pulse for a request
    and none without;
  - *main loop*: whatever the moments at which it comes round, each channel's spark and
    end of injection fall at their crank angle, in every cycle, and two channels that share
    a coil do not charge it together;
  - *decoders*: once the engine fires, tooth count, crank angle and speed are the
    engine's; after any disturbance they become so again and stay so; what per-tooth timing
    is told, and the coils that are released while cranking, fit the tooth that passes;
  - *loggers*: an entry is sent once, in order, with none missing between;
  - *serial protocol*: requests are executed as they were sent however the line cuts them
    up, a page is read as it was written, and a client that checks and repeats gets through;
  - *storage*: a burn that was asked for gets to the EEPROM, however many pages are
    asked for meanwhile; settings of an older version are converted;
  - *lookups and corrections*: a lookup gives what it would give without its memory, or for a
    curve what it would have given a moment ago; an enrichment lasts its time; the closed
    loop gets to its limit while the mixture stays lean;
  - *outputs*: a solenoid that was switched off is not left on by its interrupt, the pump
    stops after the engine, the stepper motor comes to its target.

## 2. Modules

| Module | What it is |
|---|---|
| `PulseRequests` | abstract specification: what the schedules promise the main loop |
| `FuelSchedule` | the fuel schedules of one timer, on the AVR and on the Teensy 3.5 |
| `FuelSchedule_proof` | its theorems |
| `MCFuelSchedule` | its instances for TLC |
| `IgnitionSchedule` | the ignition schedules of one timer with the trigger interrupt and the dwell limiter |
| `IgnitionSchedule_proof` | its theorems |
| `MCIgnitionSchedule` | its instances for TLC |
| `EngineLayout` | what initialisation works out for an engine: the angle of each channel, coils, squirts, layouts |
| `PulseScheduling` | EXTENDS it: the start angles of every channel and the calls of the scheduler by the main loop |
| `MCPulseScheduling` | its engines for TLC |
| `MapLookup` | the lookup in a map of load and speed, with its cache, and the tuner's writes |
| `CurveLookup` | the lookup on a curve, whose result expires |
| `AccelEnrichment` | the enrichment of an acceleration and the throttle's readings |
| `ClosedLoopFuel` | the correction from the oxygen sensor and the count of ignition events |
| `MCMainLoop` | EXTENDS `MCPulseScheduling` and the four: one part of a round of the loop at a time, for TLC |
| `MainLoop_proof` | theorems about `MapLookup`, `CurveLookup` and `AccelEnrichment` |
| `MissingTooth` | the wheel, the missing tooth decoder and the stall check of the main loop |
| `MissingTooth_proof` | its theorems |
| `MCMissingTooth` | its instances for TLC |
| `TriggerWheels` | sixteen other wheels with their teeth, and the decoders' settings |
| `TriggerDecoders` | EXTENDS it: their handlers, speeds and angles |
| `PerToothTiming` | EXTENDS that: the end teeth and the check at each tooth |
| `WheelDecoders` | EXTENDS that: the engine turns and disturbs its signals |
| `MCWheelDecoders` | its instances for TLC |
| `PageLayout` | where every byte of every page is written, read and sent from |
| `ToothLogger` | the loggers' ring, their interrupts and commands |
| `ToothLogger_proof` | its theorems |
| `SerialProtocol` | EXTENDS both: `command()`, the line and the tuning software |
| `SerialProtocol_proof` | EXTENDS it and `ToothLogger_proof`: its theorems |
| `MCSerialProtocol` | its clients for TLC |
| `Storage` | pages of settings in RAM and EEPROM: tuning, burning, migration and power failures |
| `Storage_proof` | its theorems |
| `MCStorage` | its instances for TLC |
| `IdleStepper` | the stepper motor of the idle valve |
| `EngineOutputs` | EXTENDS it: the pump, the fan, solenoids with PWM, and the loop that drives them |
| `EngineOutputs_proof` | its theorem |
| `MCEngineOutputs` | its instances for TLC |

`FuelSchedule` and `IgnitionSchedule` each take `PulseRequests` with `INSTANCE ...
WITH`: the refinement mapping says that a pulse is owed by a schedule that is
PENDING and by one that is queued.

### FuelSchedule

The eight `setFuelScheduleN` and eight handlers are copies that have drifted
apart. The differences are the three values of `Kind`:

| | `"first"` (1) | `"mid"` (2-4) | `"high"` (5-8) |
|---|---|---|---|
| refuses | timeout + duration too long | timeout too long | nothing, clips the timeout |
| queues | duration too, in `noInterrupts()` | start only, interrupts on | start and end, interrupts on |
| a pulse ends | duration after it began | duration after it began | at `endCompare` |
| when OFF | turns its interrupt off | leaves it | leaves it |

| Model | Code |
|---|---|
| `Tick` | the timer counting and its comparators (hardware) |
| `SetFuelSchedule` | the call up to the test of the Status |
| `TearDuration`, `StoreDuration` | the four byte store of `duration`; an interrupt between the bytes sees a torn value |
| `Arm` | the `noInterrupts()` block |
| `ReadMask`, `WriteMask` | `FUELn_TIMER_ENABLE()` on the AVR: `TIMSKx \|= ...` of a register the channels share |
| `EnableChannel` | the same on the Teensy, a register for each channel |
| `QueueNext` | the branch for a RUNNING schedule, channel 1 |
| `QueueNextStart`, `QueueNextEnd` | the same for the others, with interrupts on |
| `StartPulse`, `EndPulse`, `EndPulseAndActivateNext`, `SpuriousInterrupt` | the branches of a handler |

An interrupt handler is one step, because the fuel handlers run with interrupts
off. The main loop's calls are cut where an interrupt can make a difference.
`stale` and `asked` are history variables: no guard reads them.

Two points of detail. `FUELn_TIMER_ENABLE()` on the AVR starts by clearing the
compare flag, after `interrupts()`; the processor executes one instruction after
the one that enables interrupts before it serves any, and the clearing is one
instruction, so it belongs to `Arm`. On the Teensy nothing clears the flag.
And `ftm0_isr` tests the flags of all its channels in turn, without looking at
whether their interrupts are enabled: `Serviceable` is `flag` there.

### IgnitionSchedule

As above for the calls and the handlers, with these additions:

| Model | Code |
|---|---|
| `RefreshIgnitionSchedule`, `RefreshEnd` | `refreshIgnitionSchedule1()`, the test and the block |
| `EndTooth` | `checkPerToothTiming()`: the trigger interrupt at the end tooth |
| `OverdwellBegin` | the 1 ms interrupt computes the overdwell target |
| `OverdwellLook` | its test of one schedule |
| `OverdwellCut` | it calls the end callback |
| `OverdwellClear` | it writes `Status = OFF` |

The 1 ms handler is `ISR_NOBLOCK`. Its steps are actions of their own and compare
and trigger interrupts come between them; the main loop cannot (`MainAt`). The
copies differ in the sets `Queues`, `UseDecoderEnd`, `CatchSpurious`,
`EnabledAtInit`, `Limited` and `PerTooth`. `Drives` gives the coil of a channel; in
single coil mode several channels drive one.

### EngineLayout and PulseScheduling

`EngineLayout` is the switch of `initialiseAll()` on the number of cylinders: for a
setting (cylinders, strokes, odd fire angles, layouts, squirts, staging, spark mode) the
angle of each channel, which injectors are enabled, which coils a channel charges.
`PulseScheduling` runs the part of the loop that uses them.

| Model | Code |
|---|---|
| `injectorStartAngle` | `calculateInjectorNStartAngle()` and the loop's choice between them, with its one or many reductions by `CRANK_ANGLE_MAX_INJ` |
| `ignitionEndAngle`, `ignitionStartAngle` | the ignition angles, one formula per number of cylinders and spark mode |
| `correctionsDwell` | the dwell limit by the fraction of a revolution that a coil has for a channel |
| `ScheduleFuel`, `ScheduleIgnition` | a round of the loop: the crank angle of `getCrankAngle()`, the angle relative to each channel, the tests before `setFuelScheduleN()` and `setIgnitionScheduleN()` |
| `setFuelSchedule`, `setIgnitionSchedule`, `Advanced` | schedules as `FuelSchedule` and `IgnitionSchedule` show them to be, with degrees for ticks |
| `Tick` | the crank turns; the loop comes round at any tick, and at the latest after `RoundTicks` ticks |

`ended` and `since` record when pulses ended; no guard reads them.

### MapLookup, CurveLookup, AccelEnrichment, ClosedLoopFuel

| Model | Code |
|---|---|
| `Lookup` | `get3DTableValue()`: inputs clamped (`Clamp`), the cached result (`Hit`), the bins found last and their neighbours or the search (`FindColumns`, `FindRows`), the weights in 256ths and their sum in an `int` (`Interpolate`) |
| `TuneValue`, `TuneSpeedBin`, `TuneLoadBin` | `receiveValue()` on a map's page, which ends by invalidating the cache |
| `GetKept`, `GetEnd`, `GetBetween` | `table2D_getValue()`: the kept result, the two ends of the curve, the interpolation in 64ths |
| `TuneCurve` | `receiveValue()` on a page of settings: the curve is not told |
| `NextSecond`, `SetBack` | `secl` counted by the 1 ms interrupt, and set to 0 by `S` and the first `A` |
| `StartEnrichment`, `KeepEnrichment`, `NoEnrichment` | `correctionAccel()` |
| `readTPS` | `readTPS()`, 15 times a second |
| `Spark` | `ignitionCount += 1` in the ignition interrupts |
| `Readings`, `Mixed` | what two readings of `ignitionCount` in a row may give: it has two bytes and is read with interrupts on |
| `StepDue`, `StepNotDue`, `OpenLoop` | `correctionAFRClosedLoop()`, simple algorithm |
| `Stall` | the stall branch of `loop()`: count and next cycle set back |

`answer`, `recent` (the curves there were in this second and in the one before) and `history` are
history variables. A map's bins are in strict order, as the tuning software keeps them.

### MissingTooth

The wheel is in the model: `slot` is the position that passed the sensor last, and
`into` the time since. `Turn` moves to the next slot and, when it has a tooth,
calls the handler; `LosePulse` is a tooth with no pulse, `Noise` a pulse with no
tooth, `Stop` an engine that stands still. What the decoder believes can then be
compared with the truth.

| Model | Code |
|---|---|
| `IgnorePulse` | a pulse within `triggerFilterTime` |
| `FirstTeeth` | fewer than two time stamps |
| `RegularTooth` | no gap: count, `setFilter()` |
| `LoseSync` | a gap when the count says there is none |
| `ToothOne` | the gap: tooth #1 |
| `CamTooth` | `triggerSec_missingTooth()`, single cam tooth |
| `UpdateRPM` | `getRPM_missingTooth()`, to one of three bands |
| `FindStalled`, `ForgetTeeth`, `ForgetSync`, `SetUpTrigger` | the stall branch of `loop()`, in its order, with interrupts in between |

Time stamps are kept as differences (`sinceLast`, `lastGap`, or `Never` for 0).

### TriggerWheels, TriggerDecoders, PerToothTiming, WheelDecoders

A wheel is a list of edges, each at its true angle in the 720 degree cycle, of the crank
(`primary`) or the cam (`secondary`), with the levels of both pins there (`CrankHigh`,
`CamHigh`). The decoders share the program's trigger variables, the record `ecu`. Time
stamps are kept as ages, up to `Long`.

| Model | Code |
|---|---|
| `toothAngles` | the tables of the `triggerSetup` functions |
| `Started` | `initialiseTriggers()` and the set-up of the decoder chosen |
| `PrimaryPulse`, `SecondaryPulse` | the `triggerPri`/`triggerSec` handler, `PriHarley` for `triggerPri_Harley()` and so on; filter, count, sync, revolutions, released coils, per-tooth check in their order |
| `Uneven`, `CheckUneven` | the parts that 4G63, Miata and their relatives share: tooth angles that alternate, and their filters |
| `RevolutionTime` | `getRPM` of each decoder, as the time of a revolution |
| `getCrankAngle` | `getCrankAngle` of each decoder |
| `Retimed`, `DegreesLeft`, `EndTeeth` | the end teeth by `triggerSetEndTeeth`, and `checkPerToothTiming()` |
| `Tooth`, `LosePulse`, `NoisePulse` | a tooth with its interrupt, one without, an interrupt without |
| `ChangeSpeed`, `Stop` | the engine gets faster or slower, or stops and the loop's stall branch runs |
| `ReadRPM` | the main loop while the last tooth is younger than `MAX_STALL_TIME`: `currentStatus.RPM = getRPM()`, with the state bits |
| `StallBranch` | the main loop otherwise, between any two teeth and in every round: time stamps, sync and counts set back, `initialiseTriggers()`. `toothLastToothTime` is 0 before a decoder has kept a time, and the age is then the program's |

A handler is one step: trigger interrupts are not interrupted. The stall branch is one step
too, with the loggers off; `MissingTooth` has it one assignment at a time. `Long` stands for
the `MAX_STALL_TIME` of every decoder. `clean`, `steady` and
`trouble` are history variables.

### PageLayout, ToothLogger, SerialProtocol

`PageLayout` gives the cell (a table's value or axis at an index, or a byte of a
structure) of each offset of each page three times, as `receiveValue()`,
`getPageValue()` and `sendPage()` each compute it, with the multipliers of the axes. That
the three agree is a property, not an assumption.

| Model | Code |
|---|---|
| `Logged`, `loggerPrimaryISR`, `loggerSecondaryISR` | `addToothLogEntry()` and the interrupts that call it |
| `StartToothLog` ... `StopCompositeLog`, `SendLog` | the accesses that `H`, `h`, `J`, `j` and `T` make, one by one in `todo` |
| `Access` | the next of them; the interrupts come between any two |
| `WriteBoostCut` | the loop writes `status1` back with another bit changed, after interrupts that set the ready bit |
| `ObeyStart`, `ObeyStop`, `ObeySend` | in `LoggerSpec`, a command that `command()` may take up when the one before is done with |
| `Arrive`, `Lose` | a byte gets to `Serial`, or does not |
| `AwaitParameters` | a command whose parameters are not all there: `cmdPending = true`, and out |
| `Command` | a command with its parameters (`Obey`): `A b d H h J j P p T V W` |
| `StartChunk`, `ContinueChunk` | `w`: its header, and as many of its values as have come |
| `StartCalibration`, `TakeTable`, `TakeCalibration` | `t`, which blocks in `receiveCalibration()` until all is there |
| `SendPlanned`, `SendLogRequest`, `ReadReply`, `Timeout` | the tuning software (external) |

`LoggerSpec` is the logger by itself, with any command at any time, but for a start of a
logger while one runs, which the tuning software does not ask for. `UsesLoggerAsMeant` says
that `SerialProtocol`, with its clients and the bytes they lose, implements it: what is proved of
`LoggerSpec` is true of the logger behind `command()`.

`owed` (the requests sent and not executed) and `sent` (the log as it was sent) are
history variables. What `command()` understands of a request (`Understood`) is compared with the
first of `owed` when it is executed: `InStep` says that they never differ while no byte is lost.

What the software at the other end keeps to is written down as `ClientsAssumption`: a
request has the fields and as many values as its command has (`WellFormed`), only a data logger starts
loggers, and a page is selected with `P` before the requests `W` for it, with no other page selected
in between (`PageSelected`), since `W` sends an offset of two bytes or of one by the page.
TLC evaluates the assumption for the clients of the run.

### Storage

A page is a sequence of bytes, and a byte one of a few values. What matters is which
bytes `writeConfig()` gets to before it stops, and that depends on two things only, which
`Layout` gives for each byte: before which byte the counter of writes was last looked at
(a step of some loops writes one byte of each of three or four tables), and whether
writing it counts (when it has changed; always; never, as with `EEPROM.update()`). The
whole function is then a function of the page in RAM and its copy (`Written`, `Over`).

| Model | Code |
|---|---|
| `ReceiveValue` | `receiveValue()`: the tuning software changes a byte in RAM |
| `BurnPage`, `BurnAll` | the commands `b` (one page) and `B` |
| `ContinueBurn` | the main loop's `if(eepromWritesPending == true) { writeAllConfig(); }` |
| `ConvertSettings` | an update of `doUpdates()` that changes RAM, calls `writeAllConfig()` once and stores the next version |
| `MoveSettings` | an update that moves the pages in the EEPROM and calls `loadConfig()` |
| `FinishUpdates` | the end of `doUpdates()`: new boards, and versions from the future |
| `InitialiseADC` | the check of the filter values, which may write `ignSetPage` |
| `PowerFails`, `PowerFailsInBurn`, `PowerFailsInBurnOfAll`, `PowerFailsInUpdate` | power fails between steps, or between two bytes of a write; `loadConfig()` at the next start |

The main loop runs commands and the continuation one after the other, so that each is one
step unless power fails in it. `asked` (the pages burnt and not changed since) and
`cutOff` (power failed with writes pending) are history variables. `HostWaits` is an
assumption about the tuning software: that it burns a page only when no writes are
pending.

### IdleStepper and EngineOutputs

| Model | Code |
|---|---|
| `doStep`, `HomingStep`, `Checked`, `idleControl`, `disableIdle` | the functions of these names (`isStepperHomed`, `checkForStepping`), on the record `stepper`; `motor` is where the motor really is |
| `EngineChanges`, `CoolantChanges`, `SupplyChanges` | the engine, its temperature and its 12 V supply (external) |
| `OneSecond` | the 1 s task of `oneMSInterval()`: `secl`, `fanControl()`, the end of priming |
| `AuxInterrupt`, `idleInterrupt` | `boostInterrupt`/`vvtInterrupt`, `idleInterrupt` |
| `Running`, `Stalled` | the two branches of the loop on the engine's speed |
| `readBat` | the supply comes: priming and homing begin again |
| `ControlSolenoid` | `boostControl()`, `vvtControl()`, `idleControl()` under PWM: the statements on pin and interrupt they will make, put in `todo` |
| `LoopStatement` | the next of them; interrupts come between any two |
| `ControlStepper` | the stepper's turn, once a round |
| `Tick` | `micros()` |

What the PID controllers ask for is a choice (`on`, `full`).

## 3. Runs

| Run | Question | Result |
|---|---|---|
| `fuel_timer3` | Schedules 1 and 3 of the Mega's timer 3, the latter with two injectors | holds: `OpenInjectorIsTimed`, `NoEarlyStart`, `PulseUsesLatestDuration`, `ImplementsPulseRequests` |
| `fuel_ftm3` | Schedule 5 of the Teensy, with clipped timeouts | holds: `InjectorsEventuallyClose` |
| `ign_timer5` | Schedules 1 and 2 on one coil, dwell limiter on, schedule 1 refreshed | holds: `ChargingIsServed`, `CoilsEventuallyDischarge` |
| `ign_schedule3` | Schedule 3, which queues, per-tooth timing on, limiter off | holds: `ImplementsPulseRequests` |
| `missing_recover` | An 8 tooth wheel in three configurations, with two disturbances | holds: `SyncedCountIsATooth`, `StagedSyncIsTrue`, `TrueSyncLasts`, `EventuallyInSync` |
| `wheels_run` | Fifteen decoders in twenty configurations, on their real wheels | holds: `SyncedAngleIsTrue`, `SpeedIsTrue`, `ToothAngleIsCorrect`, `CheckedToothIsTrue`, `EndToothIsBeforeSpark`, `ReleasedCoilIsDue`, `SyncLasts`, `EventuallyRuns` |
| `wheels_mazda` | The Mazda AU's decoder on a clean signal, at cranking speed | `EventuallySyncs` is violated |
| `main_loop` | Twenty-six engines, the loop coming round at any moment; a map and a curve looked up and tuned in any order; accelerations at any time of the clock; sparks between any two readings of their count | holds: `OtherSparksAreOnTime`, `InjectorClosesOnTime`, `EveryChannelFires`, `OneChargePerCoil`, `LookupHasNoMemory`, `LookupIsOnTheSurface`, `ValueIsOnRecentCurve`, `EnrichmentLastsItsTime`, `LeanIsCorrected` |
| `pulses_three` | An engine of three cylinders | `SparkIsOnTime` is violated |
| `serial_run` | Tuning clients of five kinds, a line that loses a byte, a data logger | holds: `InStep`, `ReplyIsWhatWasWritten`, `SentLogIsConsecutive`, `UsesLoggerAsMeant`, `EventuallyWritten` |
| `storage_burn` | Three pages, from settings of two older versions, a newer one and a new board, a tuning software that waits | holds: `BurnIsComplete`, `UpdatesAreKept`, `BurnEventuallyDone` |
| `outputs_run` | The slow outputs, one at a time, with engine, supply, 1 s task and PWM interrupt in any order | holds: `SolenoidStaysOff`, `PumpStops`, `MotorReachesTarget` |

Two runs end in a violation. Each states what the code says of itself and shows that it
does something else.

  - `wheels_mazda`. The comment at `decoders.ino:2182` says that sync is found by the two close
    teeth of the cam. The handler of the crank keeps no time before sync, so that the main
    loop takes its stall branch in every round and forgets each tooth of the cam before the
    next one comes: sync is never found.
  - `pulses_three`. The comments at the calculation of channel angles say that
    a dwell ends at the advance before top dead centre. The third of
    three cylinders is started without its advance (`speeduino.ino:679`), and its spark comes
    at top dead centre. The other channels are among the engines of `main_loop`.

Type invariants are defined and in no run: those of the schedules, of `MissingTooth`, of
`Storage`, of the logger, of `SerialProtocol` and of the lookups are proved (section 4), as is `ActiveIsEnabled`; that of
`WheelDecoders` was checked once. So are the properties named in section 5, which fail
there where it says.

### Bounds, and why they are enough

*Schedules.* The counter has 65536 values; in the model it has `Period` values, 3
to 6. What the properties tell apart is the order of matches, calls and handlers
within one turn of the counter and whether a turn has passed. With a period of 3
ticks every compare value is ahead of the counter, at it and behind it, and every
sum wraps. `Calls` (or `Timeouts` and `Durations`) hold a short and a long request
each, and 0 where a boundary is at 0; `fuel_ftm3` has a timeout beyond the timer's
range, which is clipped. `TornDurations` has one torn value, different from those
asked for. Two schedules on one timer are the fewest that share a mask register;
more than two do not give a new kind of interference, as a call concerns one
schedule and the mask's other bits are treated alike. (The theorems are for any
number.) `ClockPeriod`, the wrap of `micros()`, is a multiple of `Period`.

*Decoder.* A wheel of 8 teeth, the time of a tooth 4 or 5 units, chosen anew at each
tooth, so that a missing tooth's gap is 8 to 10 and the threshold of 1.5 gaps lies
between. `MaxTrouble = 2` disturbances (lost pulse, spurious pulse at any time between
two teeth, standstill), in any number of revolutions apart: two is the number that can
confuse first the count and then the recovery from it. Times are capped at
`StallTime`, counts at one more than the wheel has (`Count`), `startRevolutions` at
`MaxRevolutions` and `syncLossCounter` at `MaxLosses`: the code compares the first with
`StgCycles` only and never reads the second. The three configurations are a plain
wheel, a sequential engine with a cam tooth, and a wheel on the cam with two missing
teeth during a log.

*Other decoders.* The wheels are whole, with all their teeth at their real angles. `Paces`
are times of a degree, 9 and 10: a speed that changes by a tenth. Ages are taken for
equal from `Long = 15000` on, which is longer than two turns (7200). `MaxTrouble` is one
disturbance, of a kind that the decoder is made to survive (`MCFaultsOf`); those that are not
survived are in section 5. The engine starts from every edge of its wheel, or for the large
wheels from a few (`MCStartsOf`). `startRevolutions` is counted to 3, the largest
`StgCycles` of the configurations, `syncLossCounter` to 1. `Advances` has a value at, below and above each
threshold of the comparisons of `triggerSetEndTeeth`. The speed of the loop
is a band per configuration. 274,010 states.

*Pulses.* A tick is 10 degrees, for five cylinders 12 (their channels are 72 or 144 degrees
apart), and the loop schedules at least every second tick. All angles of an engine are
multiples of its tick, which `GridAssumption` states and TLC evaluates: a start between two
ticks would never be met. The board has four injector channels. Not among the engines
are those of section 5. 38,371 states, of the 210,532 of `main_loop`, whose parts have no
variable in common: each is explored with the others in their first state.

*Lookups.* The map has four columns and rows: an inner bin, and neighbours on either side of
it. The inputs are on a bin, between any two and beyond either end, the tuner moves an inner bin and
changes a cell, and the values reach 255, where the 16 bit sum overflows. `LookupIsOnTheSurface`
allows `Tolerance`, 5 of 255, and the theorem says that this is enough for every map: the two positions
are rounded down in 256ths, which costs less than 1 each; the four weights
are then rounded down, by which two neighbours lose one 256th together or nothing, and the four at most two, which
costs less than 2; and the sum is rounded down, less than 1. A curve's value may be off by one 64th of the rise
between two bins, and 1. `SeclSize = 4` is the smallest
at which a second, the one before and one of long ago differ after `SetBack`, which comes two
seconds after the count was last at 0. The loop looks a curve up in every second (`looked`).

*Corrections.* `aeTime` (5) is longer than the time between two readings (3) and than the loop's
pace (2), and the clock of 16 has starts from which the end wraps, comes just before the
wrap, and does not. `ignitionCount` has two bytes of four values, so that both wrap.

*Serial.* A client that sends all at once writes and reads two bytes at each offset of each page
(and in the legacy way each single byte): the layouts are compared completely. Byte by byte go a
chunk with other requests behind it, calibration tables (of 4 values for 1024), and the
two clients that check what they wrote and repeat. The line may lose one byte. The log
ring has 3 entries (`TOOTH_LOG_SIZE`, the least for which the theorems hold: with fewer, an entry
between the two resets of the indexes would make a log) and the time of an entry is one of five readings. `MayStrike` lets
`AtOnce` pulses come between two accesses of the loop. A client's plan ends, hence no deadlock check.
941,588 states.

*Outputs.* `secl` is counted modulo 6 (`Seconds`) with a priming of 3, so that
the difference can fail to reach it; `micros()` modulo 4 with steps of 1. The motor has
two steps from end to end and homes with three. The supply comes back once. A setting
fits one output at a time, as they share nothing but the engine's state. 275,899 states.

*Storage.* A block is one write (30 in the code): two changed bytes of a page exceed it,
which is the case that matters, and a page of three bytes takes two blocks. The three
pages have the three forms of a loop: byte by byte; several tables in step; bytes that
count always or never. The updates are in the order of `updates.ino`: a conversion
(versions 2 to 4), a move (5 and 6) and two conversions (7 and after). The first two
conversions write more than a block, so that writes are pending at the move and at the
last update; two updates that write are the fewest that can get into each other's way.
Settings start before the first update, after the move, as a newer firmware left them, or
new. The tuning software changes four of the nine bytes. Bytes that an update adds to (as
the one from version 2 does) have a value for "more than once", `Twice`. 26,451 states.

### Fairness

`Spec` has none; the safety properties need none. `FairSpec` adds:

  - weak fairness of `Tick`: the timer is hardware and counts for ever;
  - weak fairness of a call's remaining steps (`Proceed`): the main loop is delayed by
    interrupts and does not stop in the middle of a function;
  - weak fairness of each handler: an interrupt that is pending and enabled is served
    when those of a higher priority are, and no handler loops;
  - weak fairness of the limiter's steps: it is called once in a millisecond and runs
    to its end;
  - in `MissingTooth`, weak fairness of `Turn`, `CamTooth` and the stall branch: the
    properties are about an engine that turns. Strong fairness says that teeth pass
    also while the main loop is outside of its stall branch, in which it spends a
    fraction of the time.
  - in `Storage`, weak fairness of the start-up and of `ContinueBurn`: the main loop
    comes round four times a second and nothing disables the test;
  - in `WheelDecoders`, weak fairness of the wheel's turning, with or without a pulse,
    and of `MainLoop`, whichever branch it takes. `CrankingSpec`, for `wheels_mazda`, lets no
    tooth pass before a stall branch that is due has run: at cranking speed the teeth are
    tens of milliseconds apart and a round of the loop takes a few;
  - in `SerialProtocol`, weak fairness of the poll, of bytes arriving and of a client that
    waits for replies, for clients that verify only: others may stop in their plan;
  - in `EngineOutputs`, weak fairness of the loop, of `micros()` and of the 1 s task, and
    strong fairness of `readBat`, which the loop calls four times a second and
    not in every round;
  - in `MCMainLoop`, where the part is the closed loop, weak fairness of `Spark` (the engine
    keeps firing) and strong fairness of a round that finds a step due: the loop comes
    round more often than the engine fires.

Nothing forces the main loop to ask for a pulse, a disturbance to happen, the
limiter to begin, the tuning software to burn, or the engine to stop. Liveness properties whose promise is conditional say so:
`InjectorsEventuallyClose` and `CoilsEventuallyDischarge` assume that the requests end
(`<>[](pc = "loop")`), `EventuallyInSync` that the engine is
below 2000 rpm in the end, `BurnEventuallyDone` that settings are no longer changed and
power no longer fails, `PumpStops` and `MotorReachesTarget` that the engine's state no longer changes.

## 4. Proofs

The theorems hold for every value of the constants that satisfies the assumptions in
the modules: any number of schedules, any period, any set of requests, any wheel.

| Theorem | Says |
|---|---|
| `FuelSchedule_proof!TypeCorrect` | `Spec => []TypeOK` |
| `FuelSchedule_proof!ActiveSchedulesAreServed` | a schedule that is not OFF has its interrupt enabled, or the main loop is about to enable it |
| `FuelSchedule_proof!InjectorsAreTimed` | an open injector has a schedule in progress whose interrupt is, or is about to be, enabled |
| `FuelSchedule_proof!Implementation` | `Spec => Requests!Spec`: the schedules implement `PulseRequests` |
| `FuelSchedule_proof!NoPulseIsEarly` | `Board = "AVR"` implies `Spec => NoEarlyStart` |
| `FuelSchedule_proof!LatestDurationIsUsed` | `Spec => PulseUsesLatestDuration`: schedule 1 plays the last duration asked for |
| `IgnitionSchedule_proof!TypeCorrect` | `Spec => []TypeOK` |
| `IgnitionSchedule_proof!ActiveSchedulesAreServed` | as for fuel |
| `IgnitionSchedule_proof!CoilsAreServed` | a charging coil has a schedule in progress that will end it, when no schedule queues or the limiter is off |
| `IgnitionSchedule_proof!Implementation` | the ignition schedules implement `PulseRequests`, when each drives coils of its own and the limiter is off (`OwnCoilsNoLimit`) |
| `MainLoop_proof!EnrichmentsLast` | `AccelSpec => EnrichmentLastsItsTime`: for every time, clock and pace of the loop |
| `MissingTooth_proof!TypeCorrect` | `Spec => []TypeOK` |
| `MissingTooth_proof!SyncedCount` | while there is sync the tooth count is one of the wheel's |
| `MissingTooth_proof!StagedSync` | `SteadyAndStaged` implies `Spec => []StagedSyncIsTrue`: staged sync is true once faults are over |
| `MissingTooth_proof!TrueSyncIsKept` | `SteadyAndStaged` implies `Spec => TrueSyncLasts` |
| `MainLoop_proof!MapTypeCorrect` | `MapSpec => []MapTypeOK`: the bins that are remembered are one bin or two neighbours |
| `MainLoop_proof!LookupsHaveNoMemory` | `MapSpec => []LookupHasNoMemory`, for every map and sequence of lookups and writes |
| `MainLoop_proof!LookupsAreOnTheSurface` | `MapSpec => []LookupIsOnTheSurface`, within 5 for every map |
| `MainLoop_proof!ValuesAreRecent` | `0 \notin Inputs` implies `CurveSpec => ValueIsOnRecentCurve` |
| `ToothLogger_proof!LoggerTypeCorrect` | `LoggerSpec => []LoggerTypeOK` |
| `ToothLogger_proof!LogsAreConsecutive` | `LoggerSpec => []SentLogIsConsecutive`, for every size of the ring |
| `SerialProtocol_proof!CommandsAreInStep` | `Spec => []InStep`: each request is executed once, in order and with its own parameters, while no byte is lost |
| `SerialProtocol_proof!LoggerIsUsedAsMeant` | `LossStartsNoLogger` implies `Spec => UsesLoggerAsMeant`: the protocol implements `LoggerSpec` |
| `SerialProtocol_proof!SentLogsAreConsecutive` | `LossStartsNoLogger` implies `Spec => []SentLogIsConsecutive` |
| `SerialProtocol_proof!ProtocolTypeCorrect` | `LossStartsNoLogger` implies `Spec => []TypeOK`, with bytes lost too |
| `EngineOutputs_proof!SolenoidsStayOff` | `Spec => []SolenoidStaysOff`: a boost or idle solenoid that is switched off stays off |
| `Storage_proof!TypeCorrect` | `Spec => []TypeOK`, with the version of the settings once they are in use |
| `Storage_proof!BurnsAreComplete` | `HostWaits` implies `Spec => []BurnIsComplete`, for every layout and block size |
| `Storage_proof!ConversionsAreKept` | `KeptAssumption` implies `Spec => []UpdatesAreKept`: what is converted after the last move is converted and saved, whatever comes before it |

**Fuel.** `OpenInjectorIsTimed` alone is not inductive. A handler that opens an injector
relies on the interrupt being enabled while the schedule was still PENDING, hence
`ActiveIsEnabled`. And a handler that finds nothing more to do clears its bit of the
mask between the main loop's reading the mask and writing it back; the write must not
lose a bit. It does not, because interrupts only ever clear bits, and the bits that are
set now were set when the mask was read: `MaskIsFresh`. (What it can do is set a bit that
was cleared, which costs one interrupt too many.) The invariant is `IInv == TypeOK /\
OpenInjectorIsTimed /\ ActiveIsEnabled /\ MaskIsFresh`. For the refinement a
schedule that is RUNNING must have its injectors open (`RunningIsOpen`), so that a call
whose test of the Status has become stale is still an `Accept`, or no change, of the
abstract specification. `NoPulseIsEarly` rests on `NoFlagIsStale`: on the AVR the flag is
cleared in the block that changes the compare value; on the Teensy it is not, and the
property is violated there (section 5). `LatestDurationIsUsed` rests on `DurationIsAsked`,
which holds except while a call stores the four bytes.

**Ignition.** The dwell limiter adds a third party. While it is between its callback and
its `Status = OFF` the schedule at hand must not be the one that keeps a coil charged
(`CoilHasHolder`) nor be PENDING (`CutIsOver`). This is true when a schedule that ends
does not begin the queued one, and false otherwise (section 5): the theorem
`CoilsAreServed` has the assumption `NoQueueOrNoLimit`, and it is needed. The refinement
needs, as for fuel, that a schedule that is RUNNING is charging its coils
(`RunningIsCharging`); the limiter, and two schedules that share a coil, end dwells that
`PulseRequests` knows nothing of, hence `OwnCoilsNoLimit`.

**Missing tooth.** `SyncedCountIsATooth` needs that sync implies two time stamps
(`SyncHasTimes`) outside of the stall branch, and that inside of it sync is not found
again between `ForgetSync` and the end (`NoSyncInReset`), which holds because a
single pulse at most comes meanwhile and finds no time stamp (`StallForgets`).

`StagedSyncIsTrue` and `TrueSyncLasts` are about the times between teeth, and a signal that a decoder of this
kind can do with: `SteadyAndStaged` says that the times of a slot lie in an interval whose ends are
less than a factor of 4/3 apart (for more missing teeth less, as the gap must be longer than the threshold
and a tooth shorter), above the first filter, and so short that the gap is not
taken for a stall; that the wheel has three teeth at least; and that the engine is not fired before a revolution
in sync. It is an assumption of the two theorems and not of the module, and the run has such constants
(`MCMissingTooth!RunAssumption`, which TLC evaluates). The invariant `CleanInv` says what the decoder can know when no
fault is to come. The last two gaps are of as many slots as the wheel's place says (`LastGapIsKnown`, `SinceLastIsKnown`),
or the gap was ignored by a count that began at the wrong tooth (`Missed`). A wrong sync, which a
start or a fault can leave, lags behind the wheel and has seen no revolution (`WrongSyncIsNew`), so that the
gap comes before its count says so and ends it. A speed, which makes the decoder look for the gap in the
second half of the wheel only, is there with a true sync only (`SpeedIsTrueSync`). `Measures` and
`Compared` then show that each comparison of the handler tells one slot from the gap.

**Storage.** The version is this firmware's when initialisation is over only because every
version that an EEPROM can hold has its update (`VersionKnown`). For a burn, `AllReached`
says that a write which does not exceed its block has reached every byte: the writes
counted before a byte's guard are a subset of all, so that no guard can have stopped it.
Therefore `writeAllConfig()` clears the flag only when all pages are saved (`AllSaved`),
and `BurnInv` is kept by a burn of one page if the flag was clear before. `HostWaits` is
needed (section 5). For the updates, `MayBeOld` says which settings may still be in an older
format: those that an update to come converts, and the filter of a new board until
`initialiseADC()`. `KeptInv` says that no other setting that is converted after the last move
is, in RAM, and in the EEPROM when no writes are pending (`RamKept`, `EepromKept`). A move
loads the EEPROM also when writes are pending; that this brings nothing back is said by
`EepromKept` for as long as a move is to come (`MoveToCome`): what is converted after all moves is
then still to be converted (`LeftToMoves`). Finally `initialiseADC()` finds the filter as it is
saved (`FilterIsSaved`), else its write of one page would clear the flag for all. Nothing is assumed of the
order of conversions and moves. `KeptAssumption` has `HostWaits`; that no update before the
last move converts the filter (`FilterIsNotMoved`; only that from version 9 does,
`updates.ino:156`); and that the address of a new board, which is never
saved, is no setting that is converted (`NewIsNotUpdated`). The run `storage_burn` has such
constants. What is converted before a move may be lost (section 5).

**Acceleration.** The enrichment's age is not a variable of the code, but it can be told from
the clock and the end: `Began`. `AccelInv` says in which of three ways an enrichment is under way:
`Counting` (the clock is `Began`), `BeforeWrap` (it is a turn ahead of it, and the next round ends the
enrichment) or `Missed` (the clock has wrapped between the end and the round that would have noticed).
A tick can lead from the first two on to the third or back to the first, and only `WrapsOnce`, a
lemma on `%`, is needed to see it.

**Lookups.** A lookup in a map has no memory because bins that are found by a short cut give the
value that those of the search give. They need not be the same bins: an input on a bin is in the cell on
either side, or in none. `FoundColumns` and `FoundRows` say what the short cuts find, `ColumnCell` and `RowCell` that an input
on the edge of a cell gets the same byte from either side (`Blend...`), weights and their 16 bit sum
included. `MapInv` adds that the cache holds the byte of the answer (`CacheIsTheAnswer`). That
the search finds a bin is shown by a least counterexample, as there is no induction here; the axes are
strictly ordered for every pair of bins in the assumption, for the same reason. `LookupIsOnTheSurface` follows for the
cell of the search, from the bounds under *Lookups* in section 3. On a curve the result that is kept is one of a
curve there is or was a second ago, or the second it is kept with is not the present one (`KeptExpires`). It can come
back only when `secl` wraps or is set back: to wrap takes more than one second (`SecondsAssumption`), and `SetBack` comes
when `secl` is more than 1. An input of 0 is excluded, as the zeros of static storage are
taken for a result (section 5). `CurveRange` keeps 64 times a difference within 16 bits, as the code must.

**Loggers.** `LoggerInv` follows the main loop's accesses through `todo`, in phases. While nothing is sent
(`Resting`) the ring holds the readings in order up to the last (`Quiet`), or a log is ready and the interrupts leave it alone.
The write of `status1` (`Storing`) can put a stale ready bit back, and one interrupt at most has come since it was
read (`MayStrike`): the one that filled the ring, so that the next one fills the next log from
where this one ended. While a log is sent (`Sending`) the ring stays as it is, and its next entry follows the last one sent.
When the composite log's indexes are set back one after the other, one reading may come before each (`Emptying`, `Emptied`), which makes no log in a
ring of three or more. A start is safe since the handlers are not attached yet
(`Starting`); this is what `LoggerSpec` assumes of the tuning software and `UsesLoggerAsMeant` shows.

**Serial protocol.** The code knows nothing of requests: it has a command byte, flags and bytes
that it polls for. `InStepInv` says that as long as no byte is lost, what it has read of the first request owed, what
has arrived and what is on its way are, put together, the bytes of the requests owed, one behind
the other and cut anywhere. How much has been read of the first can be told from `cmdPending`, `chunkPending`,
`chunkComplete` and `calibrating`, and what has been kept of it are its own parameters. A command that is
taken up is then the first request's (it could not be in the middle of another's values), and
it has its parameters when as many bytes have come as this command takes. The values of `w` come one or
two at a time, over any number of polls, and the count of those still to come is the request's
length less `chunkComplete`. `W` takes its offset from two bytes or one by the page that is selected
when it is executed, so the invariant must also say that each `W` that is owed or planned finds
its page, whatever is executed before it (`PagesReady`).
With recursion out of the prover's reach, a stream of requests is described by the places at which it
is cut, and what is behind the first cut is again such a stream.

For `LoggerSpec`, `UseInv` adds what is true with bytes lost too. `Traffic` says that the bytes
on the line, in the buffer and in what is kept are bytes, and where one has been or may be lost none is that of `H` or
`J`. Once a byte is lost any byte can be taken for a command, and this is the most that can be
said: hence the hypothesis `LossStartsNoLogger`. Without it the theorem is false: two values that happen to be
the codes of `H` and `J` start one logger over another. `Meant` says that a
data logger has one request owed at most, and knows which handlers the logger's program
will have attached when it is through (`Left`). Every step is then one of `LoggerNext`, or leaves the logger
alone, and `LoggerInv`, proved of `LoggerSpec`, holds of the logger behind `command()`. `MCSerialProtocol!RunAssumption` has
TLC evaluate the hypothesis for the run's clients.

**Outputs.** `SolenoidStaysOff` is about the moment when the loop has made its statements.
The invariant follows them through `todo`: when a solenoid is not asked for, either its
interrupt is disabled, or disabling it and lowering the pin are still to come, in this order.
An interrupt that comes before the first can raise the pin, and the second lowers it; none comes
after. With the statements swapped the invariant fails at the interrupt between them, and so does the run.

**Model-checked only.** Everything that is not in the table: the properties of the
other decoders, which are about particular wheels given by tables; those of the pulses, which are about particular engines and
whose modules (`PulseScheduling`, `EngineLayout`) reach a recursive operator; of the serial protocol
`ReplyIsWhatWasWritten`, which is about the layouts of nine particular pages and what all the requests before have left in
them (a fold, which takes an induction); and every liveness property
(`EventuallyInSync`, `LeanIsCorrected` and the others that fairness is needed for), which is out of the prover's
reach.

## 5. Observations

What TLC, or reading the code for a module, showed in the course of the work and no run
keeps. "Violated" names a definition that is in the modules, with the constants for which TLC
finds the counterexample.

Schedules:

  - The Teensy's enable macros do not clear the compare flag (`board_teensy35.h:63`). A
    compare register that still holds an old value matches once in every turn of the
    counter, and a schedule that has been OFF for 139 ms starts as soon as it is set
    instead of after its timeout. `NoEarlyStart` is violated with the constants of
    `fuel_ftm3` but channels and injectors `{1, 2}`, `Kind <- KindFTM0`, `Opens` and `Closes <-
    OpensFTM0`, `Calls <- CallsFTM0`.
  - The dwell limiter finds a schedule RUNNING and calls its end callback. The compare
    interrupts that come before its `Status = OFF` end the dwell and begin a queued one.
    `OFF` is then written to a schedule that has just begun to charge its coil: nothing
    will end this dwell, not the limiter either, which looks at RUNNING schedules only.
    `ChargingIsServed` is violated with the constants of `ign_schedule3` but
    `UseDwellLim = TRUE`, `PerToothIgn = FALSE`, `DwellLimit = 2`, `ClockPeriod = 8`, `Timeouts = {1}`,
    `Durations = {3}` and no teeth.
  - The end the decoder computed for a dwell that was then not started in time is kept
    and used by the dwell that comes next: `DecoderEndIsAhead` is violated for a schedule 2
    with per-tooth timing, `Period = 6`, `Timeouts = {1}`, `Durations = {2}`, `ToothLeads = {3}`.
  - A schedule can be armed again while it is RUNNING: the Status is tested before the
    `noInterrupts()` block and the pulse begins in between. The pulse that has begun is
    then cut into by the new start, and ends late.
  - In the same way a pulse can be queued behind a schedule that has ended meanwhile. It
    is played after the end of some later pulse.
  - Schedules 2 to 4 play a queued pulse with the duration of the one before.
  - A pulse of duration 0 lasts for a turn of the counter: the compare register is set to
    the value that has just been reached. A queued start may have passed when the
    running pulse ends, with the same effect.
  - When `micros()` has wrapped, or in the first moments after a reset, the overdwell
    target is a huge number and the limiter cuts every dwell, however short. A limit of
    66 ms or more overflows `dwellLimit_uS` (`timers.ino:148`).
  - The handler of ignition schedule 7 reads the counter of schedule 4.
    `IGN7_TIMER_ENABLE` and `IGN8_TIMER_ENABLE` of the Mega do not clear the flag, unlike
    the other six. The board is built with five ignition channels.
  - `BIT_CLEAR(TIMER_mask)` in the loop (`speeduino.ino:147`) can lose a bit the 1 ms
    interrupt sets. The tachometer's pulse ends when a byte of the clock equals its end
    (`timers.ino:88`): an interrupt that is late by a millisecond makes it 256 ms long.

Main loop and layouts:

  - Five cylinders on the Mega never open injectors 3 and 5; `calculateInjector5StartAngle()`
    uses `channel4InjDegrees`; channel 5 tests the pulse width of channel 4; five-cylinder
    sequential injection does not double `req_fuel`. The loop never calls
    `setFuelSchedule5` for them.
  - The fifth of five cylinders has its dwell taken off twice (`speeduino.ino:736` and
    `738`), so that its spark comes a whole dwell too early: `SparkIsOnTime` is violated with
    `Settings <- FiveCylinders`.
  - Six-cylinder sequential injection (Teensy): `injLayout` is set back to paired, so that
    injectors 4 to 6 keep the start angle 0. With eight, those of 5 to 8 are never computed.
    Neither looks at the number of strokes.
  - Four squirts on an even firing four-cylinder engine: channel 2's degrees are scaled
    before they are set to 180.
  - Channels 2 and up reduce their start angle once where channel 1 reduces it in a loop:
    with six squirts or more and a closing angle of 355 they never fire.
  - Odd firing four-cylinder engines with wasted spark: the start angles of channels 3 and
    4 stay 0. `ignitionNStartAngle - 5` while cranking with locked timing fires channels
    that are not used.
  - `correctionsDwell()` divides by `nCylinders >> 1`, which is too small a fraction in
    single mode with two, three or five cylinders.
  - The rolling cut lets one round of the loop through in two revolutions; ignition
    channels 6 to 8 all test `curRollingCut != 2`.
  - `flatShiftingHard` does not look at whether the clutch was engaged above `flatSArm`
    (`speeduino.ino:170`), as the soft one does. The rolling cut sets `ignitionOn` without
    regard to `StgCycles` (`speeduino.ino:999`).
  - A start that is within two rounds of the loop after a cylinder's top dead centre can
    be missed. An ignition schedule takes no request while RUNNING, so that a dwell
    limited to a whole revolution may skip a spark.

Lookups and corrections:

  - Where an `int` has 16 bits, an interpolated value of a map of 128 or more is returned 256 too low
    when it is worked out, and as it should be when it comes from the cache, which is a byte. Most callers keep a
    byte. `boostTarget` has 16 bits and is twice the value (`auxiliaries.ino:134`): it jumps by 512
    between one lookup and the next. `LookupHasNoMemory` compares bytes; with `Kept(value) == value`
    it is violated.
  - A curve's cache is zero before the first lookup, and `secl` too: an input of 0 (no ethanol) gives 0
    for the first second. `ValueIsOnRecentCurve` is violated with 0 in `Inputs`. It is violated as
    well without the guard `secl > 1` of `SetBack`, by a client that connects again in every second,
    and for a curve that was last looked up 256 seconds ago.
  - The values of `flexBoostTable` have 16 bits: a difference of 521 or more overflows `yVal`
    (`table.ino:147`).
  - The closed boost loop takes its target from the map in every eighth call and adds the flex
    adder in every call (`auxiliaries.ino:134-140`): the adder is counted up to eight times.
  - "fixed period of time" (`corrections.ino:169`): an enrichment whose end wraps with `micros()` is over at
    once, and begins again while the movement lasts; one that ends in the last round before the wrap
    goes on for 71 minutes. `EnrichmentLastsItsTime` excepts both (`wraps`, `LateInTheClock`).
  - "waits <egoDelta> number of ignition events" (`corrections.ino:390`): when the next cycle wraps,
    and the count has not, every round makes a step. A count read in the middle of a carry does so once,
    or puts the next step off by up to 256 events. "the adjustment cycle starts again at 1%" (line 392) when
    lean turns to rich: it goes on from where it is, by one percent a step.
  - The sum of `correctionsFuel()` can exceed 32 bits with extreme legal settings, although it is
    divided after three factors (`corrections.ino:55`), as factors may be 255 or, for the enrichment, 355.

Missing tooth:

  - Two spurious pulses leave the count off by some teeth, and the gap then passes while
    the decoder does not look for it, in every revolution: `GapNotInFirstHalf` is violated
    for the configuration `FastConfig` (2000 rpm and more).
  - On a wheel with two missing teeth of six and the filter at 50 %, or two of eight and
    75 %, two lost pulses can leave the filter longer than every second tooth for ever.
  - A spurious pulse shortly after the wheel has begun to turn can pass for the gap;
    sync is found at a wrong tooth and corrected a revolution later.

Other decoders:

  - After a lost or spurious pulse or a stop the dual wheel, non-360 and Miata recover with
    `useResync` only; the 24X, Jeep and basic distributor with the filter off; the Harley
    always; the four-cylinder 4G63, once it runs, with `useResync`. The six-cylinder 4G63
    never corrects its count and may find a false sync after a stall; the GM7X never syncs
    if the first tooth it sees is the sync tooth; the Honda D17's first sync after a start
    is wrong, and needs `StgCycles` 3; the Subaru's does not recover, and with `useResync`
    its speed is 0 for ever; the Daihatsu never syncs again.
  - The Harley needs `StgCycles` 3 and counts two revolutions in one. The speed of the GM7X
    and the 4G63 is wrong in the first revolutions, that of the dual wheel with
    `StgCycles` 1. While cranking the 36-2-2-2's is a third after a gap and the basic
    distributor's a quarter, which with the filter on starves it. The Mazda's is ten
    times the engine's.
  - The Mazda AU's decoder never gets sync (`EventuallySyncs` is violated, a finding): it stores
    `toothLastToothTime` with sync only (`decoders.ino:2166`), so that once the program has run for
    0.36 s the stall branch comes round between any two teeth and sets the cam's count and
    time stamp back. Apart from that, line 2198 makes the 2 of line 2195 a 3 before line 2184
    compares it with 2. Nothing else is checked of this decoder.
  - Jeep and Audi with the filter on miscount after a start. The Jeep's angle between the
    cam's edge and the first tooth is 178 instead of 146 degrees, the 24X's is up to 3 off.
    `triggerToothAngleIsCorrect` is set wrongly at first by GM7X, 24X and Jeep.
  - The 24X sets `revolutionOne` back at both edges of the cam, and reads
    `toothAngles[24]` after a lost cam pulse. The Daihatsu releases coil 2 at the tooth at 30
    degrees. The Nissan cannot resync across the end of its count. `stdGetRPM()` divides by
    0 when two time stamps are equal. "61.87 degrees" in a comment of the 4G63 is 30.9.
  - End teeth: the dual wheel limits them by `triggerActualTeeth`, which it never sets, so
    that they are 0, or in sequential mode capped a turn early; but for channel 2's, whose line
    (`decoders.ino:660`) sets channel 3's instead, which is then chosen anew. The Nissan's are 0 or less for an end angle of 5 to 9. The Miata keeps its old ones at
    an advance of 0 or less, and line 1942 has `||` for `&&`. A changed trigger angle
    leaves all of them as they are until the advance changes.

Serial protocol and loggers:

  - There is no checksum and no timeout. A lost byte of `w` can make `chunkSize` 256 or
    more, and the bytes that follow go to another page. `t` and `U` block the main loop
    until their bytes come.
  - `w` sets `currentPage` and not `isMap`; the legacy `W` and `V` that follow use the old
    flag. `sendPage()` counts its 288 bytes in a byte (`comms.ino:1124`), for ever.
    The Y axis of `afrMapPage` has no upper bound.
  - `h` after `J` leaves the composite log's flag set with the normal handlers attached.
    The boost cut's write of `status1` can undo the ready bit, which drops a log. A log
    that is started again without being stopped may be ready when it is not. The test at
    `speeduino.ino:206` is never true.

Storage:

  - There is one `eepromWritesPending` for all pages. Burning a small change of one page
    clears it while a large change of another is half written; the other half is not
    written any more. A tuning software has no way to ask. `BurnIsComplete` is violated
    with `HostWaits = FALSE`.
  - A conversion may need more writes than a block (version 2 to 3 changes 256 cells),
    the rest of which wait in RAM for the main loop. The updates from 5 and 6, in the
    same start, load the pages again and drop them, against `updates.ino:5`:
    `EveryUpdateIsKept`, as an invariant of `storage_burn`, is violated. What is converted
    after the last move is kept (`UpdatesAreKept`).
  - `writeAllConfig()`, called from the main loop to finish a burn, also saves pages that
    were changed and never burnt.
  - The update from version 2 adds 40 to each cell and stores the version afterwards. If
    power fails in between, the cells that were written get 40 added again.
  - The CAN address a new board is given is stored in RAM only, while its version is
    stored in the EEPROM: at the next start it is gone unless something was burnt.
  - "The maximum number of write operations that will be performed in one go" (`storage.h`)
    is exceeded by one in each page, by up to three where tables are written in step, and
    `writeAllConfig()` may write a block in each of several pages.

Outputs:

  - `secl` is a byte, and `(currentStatus.secl - fpPrimeTime) >= fpPrime` (`timers.ino:177`)
    an int: when `fpPrimeTime + fpPrime` is more than 255 the pump that primes again
    (`sensors.ino:478`) does not stop while the engine stands. `PumpStops` excludes it.
  - `micros() > stepStartTime + timeCheck` (`idle.ino:392`) is false until `micros()` wraps
    when the sum wraps. `MotorReachesTarget` excludes it.
  - A hysteresis of 0 steps, which the tuning file allows, pulses the motor at its target
    without counting. The closed loop adds `idleUpAdder` at each call. A hot engine that
    does not crank makes no step, against the comment at `idle.ino:471`.
  - `vvtControl()`, and the stall branch for the VVT, set the pin low before they disable
    the interrupt: one in between leaves the solenoid on until the next round.
    With RPM 0, or boost disabled, the timer is disabled and the pin left.
  - `disableIdle()` sets a reversed solenoid low as well, and leaves the second pin.
    The targets of the PWM interrupts are 32 bit and written in parts.
  - Boost and VVT pins share a port with injectors on board v0.4. The loop's
    read-modify-write of the port can undo what an injector's interrupt has written.

## 6. Not modelled, and why

The Teensy's tick of 2.133 us is taken for the Mega's 4 us. The STM32 and Teensy 4
boards have timer macros of their own. Of the missing tooth decoder the 4-1 cam pattern,
the cam's filter and its end teeth are left out. Of the storage, the
calibration tables, the page checksums and the moving of bytes within the EEPROM by two
updates are left out: a power failure within such a move is not in the model. Of the main
loop, the rolling cut, launch, flat shift and cranking advance are left out: they remove pulses or
replace an angle. Of the 1 ms interrupt, the loop counters with `TIMER_mask` and the tachometer. Of
the serial protocol, `sendValues`, `commandButtons`, the ASCII page, `U`, `z` and the CAN
commands, which format or restart. Closed loop idle, boost and VVT are PID arithmetic;
what they do to pins and interrupts is modelled. Nitrous sets pins from readings without
any state. Of the corrections, those that multiply looked up values, which have no state, and
the PID loop on the oxygen sensor are left out; so are the filters of the sensors, and
displays and the CAN protocol, which format. `PROJECT.json` says so for each component.

## 7. What could come next

1. The counters of the 1 ms interrupt, `TIMER_mask` and the tachometer: a tick is served
   at most once, and a lost bit costs one period.
2. The rolling cut and the nitrous stages in `PulseScheduling` and `EngineOutputs`.
3. Proofs: that the stepper's count stays where the motor is, which is the safety half of
   `MotorReachesTarget`; that a wheel given by any table of angles keeps its sync.
