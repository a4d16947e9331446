--------------------------- MODULE PulseScheduling ---------------------------
(***************************************************************************)
(* The part of loop() that turns angles into schedules: the start angle of *)
(* every injection and ignition channel, and the calls of the scheduler    *)
(* that are made while the crank is before it.  The crank turns at a       *)
(* constant speed, so times are degrees (timePerDegree is 1); the loop     *)
(* comes round at any time, but at least every RoundTicks.                 *)
(*                                                                         *)
(* A schedule does what FuelSchedule and IgnitionSchedule show of          *)
(* scheduler.ino: it waits, runs for its duration and ends, or goes on to  *)
(* the next start that was queued while it ran.                            *)
(***************************************************************************)
EXTENDS EngineLayout, FiniteSets

CONSTANTS
    Settings,       \* the engines, with what the loop has worked out for them
    RoundTicks      \* the loop schedules again at least every so many ticks

ASSUME PulseAssumption == RoundTicks \in Nat \ {0}

VARIABLES
    setting,        \* a setting of EngineLayout, with advance, dwell, sparkDur, splitDegrees,
                    \* injAng (where the channels close), PW1 and PW3, all in degrees,
                    \* and tick, the degrees of a tick
    crank,          \* degrees since the first cylinder's top dead centre
    fuel,           \* the fuel schedules
    ignition,       \* the ignition schedules
    turn,           \* what the loop schedules next
    waited,         \* ticks since the loop last scheduled something
    ended,          \* the channels whose pulse ended with the last tick
    since           \* degrees since the last end of a pulse of each channel

vars == <<setting, crank, fuel, ignition, turn, waited, ended, since>>

Degree == setting.tick

Off == [Status |-> "OFF", startsIn |-> 0, duration |-> 0, hasNextSchedule |-> FALSE,
        nextStartsIn |-> 0, nextDuration |-> 0]

\* The channels that the engine needs.
UsedSparks(c) ==
    1..(CASE c.nCylinders \in {1, 2, 3, 5} -> c.nCylinders
          [] c.nCylinders = 4 -> IF CRANK_ANGLE_MAX_IGN(c) = 720 \/ ~c.evenFire
                                    \/ c.sparkMode = "rotary" THEN 4 ELSE 2
          [] c.nCylinders = 6 -> 3
          [] c.nCylinders = 8 -> 4)

Used(c) == ({"inj"} \X InjEnabled(c)) \cup ({"ign"} \X UsedSparks(c))

Cycle(c, kind) == IF kind = "inj" THEN CRANK_ANGLE_MAX_INJ(c) ELSE CRANK_ANGLE_MAX_IGN(c)

Init ==
    /\ setting \in Settings
    /\ crank \in {0, 360}
    /\ fuel = [i \in Channels |-> Off]
    /\ ignition = [i \in Channels |-> Off]
    /\ turn = "fuel"
    /\ waited = 0
    /\ ended = {}
    /\ since = [ch \in Used(setting) |-> -(Cycle(setting, ch[1]) + 2 * RoundTicks * Degree)]

----------------------------------------------------------------------------
(* Angles of injection.                                                     *)

\* The while loop, for the first channel.
RECURSIVE Reduced(_, _)
Reduced(angle, max) == IF angle > max THEN Reduced(angle - max, max) ELSE angle

Once(angle, max) == IF angle > max THEN angle - max ELSE angle

injector1StartAngle(c) ==
    Reduced(IF c.injAng > c.PW1 THEN c.injAng - c.PW1
            ELSE c.injAng + CRANK_ANGLE_MAX_INJ(c) - c.PW1,
            CRANK_ANGLE_MAX_INJ(c))

\* calculateInjector2StartAngle() to calculateInjector5StartAngle()
calculateInjectorStartAngle(c, i, pw) ==
    LET end == c.injAng + InjDegrees(c)[IF i = 5 THEN 4 ELSE i]
        max == CRANK_ANGLE_MAX_INJ(c)
    IN  Once((IF end < pw THEN end + max ELSE end) - pw, max)

\* Mutant: the second stage starts by the width of the first.
StagedByPW1(c, i) ==
    LET third == calculateInjectorStartAngle(c, 3, c.PW1)
    IN  IF c.PW3 = 0 THEN 0
        ELSE IF i = 3 THEN third
        ELSE Once(third + CRANK_ANGLE_MAX_INJ(c) \div 2, CRANK_ANGLE_MAX_INJ(c))

\* The fourth injector of a staged engine is half a cycle behind the third.
StagedStartAngle(c, i) ==
    LET third == calculateInjectorStartAngle(c, 3, c.PW3)
    IN  IF c.PW3 = 0 THEN 0
        ELSE IF i = 3 THEN third
        ELSE Once(third + CRANK_ANGLE_MAX_INJ(c) \div 2, CRANK_ANGLE_MAX_INJ(c))

\* The channels from 2 on whose start angle the loop works out for an engine;
\* it stays 0 for the others.
TimedInjectors(c) ==
    CASE c.nCylinders \in {2, 3, 6} -> 2..c.nCylinders \ {4, 5, 6}
      [] c.nCylinders = 4 -> IF injLayout(c) = "sequential" THEN 2..4 ELSE {2}
      [] c.nCylinders = 5 -> IF INJ_CHANNELS >= 5 THEN 2..5 ELSE 2..4
      [] c.nCylinders = 8 -> 2..4
      [] OTHER -> {}

injectorStartAngle(c, i) ==
    CASE i = 1 -> injector1StartAngle(c)
      [] i \in TimedInjectors(c) -> calculateInjectorStartAngle(c, i, c.PW1)
      [] i \in {3, 4} \ TimedInjectors(c) /\ c.staging -> StagedStartAngle(c, i)
      [] OTHER -> 0

PulseWidth(c, i) == IF c.staging /\ i \in {3, 4} THEN c.PW3 ELSE c.PW1

----------------------------------------------------------------------------
(* Angles of ignition.                                                      *)

\* Mutant: one pulse of a coil in a revolution, whatever the mode.
OnePulsePerCoil(c) == IF c.dwell + c.sparkDur > 360 THEN 360 - c.sparkDur ELSE c.dwell

\* correctionsDwell(): the dwell and the spark fit between two pulses of a coil.
correctionsDwell(c) ==
    LET pulses == IF c.sparkMode \in {"single", "rotary"} /\ c.nCylinders > 1
                  THEN c.nCylinders \div 2 ELSE 1
    IN  IF (c.dwell + c.sparkDur) * pulses > 360 THEN 360 \div pulses - c.sparkDur ELSE c.dwell

\* A tick is so short that whatever starts or ends does so at the end of one: every
\* start is a sum or difference of these angles, and so is every end.
OnGrid(c) ==
    \A angle \in {c.advance, correctionsDwell(c), c.splitDegrees, c.injAng, c.PW1, c.PW3,
                  360, CRANK_ANGLE_MAX_INJ(c), IF c.staging THEN CRANK_ANGLE_MAX_INJ(c) \div 2 ELSE 0}
                 \cup {IgnDegrees(c)[i] : i \in Channels} \cup {InjDegrees(c)[i] : i \in Channels} :
        angle % c.tick = 0

ASSUME GridAssumption == \A c \in Settings : c.tick \in Nat \ {0} /\ OnGrid(c)

Wrapped(c, angle) == IF angle < 0 THEN angle + CRANK_ANGLE_MAX_IGN(c) ELSE angle

ignitionEndAngle(c, i) ==
    LET max == CRANK_ANGLE_MAX_IGN(c)
    IN  CASE i = 1 -> Once(max - c.advance, max)
          [] i = 5 -> Once(IgnDegrees(c)[5] - c.advance - correctionsDwell(c), max)
          [] OTHER -> Once(IgnDegrees(c)[i] - c.advance, max)

\* The trailing sparks of a rotary come splitDegrees after the leading ones.
TrailingStartAngle(c, i) ==
    Wrapped(c, Once(ignitionEndAngle(c, i - 2) + c.splitDegrees - correctionsDwell(c),
                    CRANK_ANGLE_MAX_IGN(c)))

\* The start angle that follows from the end angle.
DwellBefore(c, i) == Wrapped(c, ignitionEndAngle(c, i) - correctionsDwell(c))

\* The third channel of three cylinders starts from its degrees, not its end angle.
ThreeStartAngle(c, i) ==
    IF i = 3 THEN Wrapped(c, IgnDegrees(c)[3] - correctionsDwell(c)) ELSE DwellBefore(c, i)

FourStartAngle(c, i) ==
    CASE i = 2 \/ c.sparkMode = "sequential" -> DwellBefore(c, i)
      [] i > 2 /\ c.sparkMode = "rotary" -> TrailingStartAngle(c, i)
      [] OTHER -> 0

\* Mutant: the end angles of eight cylinders are taken for their start angles.
StartsAtEnd(c, i) ==
    CASE i = 1 -> DwellBefore(c, 1)
      [] i > 1 /\ c.nCylinders = 4 /\ i <= 4 -> FourStartAngle(c, i)
      [] i > 1 /\ c.nCylinders = 8 /\ i <= 4 -> Wrapped(c, ignitionEndAngle(c, i))
      [] i > 1 /\ c.nCylinders = 3 /\ i <= 3 -> ThreeStartAngle(c, i)
      [] i > 1 /\ c.nCylinders \in {2, 5} /\ i <= c.nCylinders -> DwellBefore(c, i)
      [] i > 1 /\ c.nCylinders = 6 /\ i <= 3 -> DwellBefore(c, i)
      [] OTHER -> 0

ignitionStartAngle(c, i) ==
    CASE i = 1 -> DwellBefore(c, 1)
      [] i > 1 /\ c.nCylinders = 4 /\ i <= 4 -> FourStartAngle(c, i)
      [] i > 1 /\ c.nCylinders = 8 /\ i <= 4 -> DwellBefore(c, i)
      [] i > 1 /\ c.nCylinders = 3 /\ i <= 3 -> ThreeStartAngle(c, i)
      [] i > 1 /\ c.nCylinders \in {2, 5} /\ i <= c.nCylinders -> DwellBefore(c, i)
      [] i > 1 /\ c.nCylinders = 6 /\ i <= 3 -> DwellBefore(c, i)
      [] OTHER -> 0

----------------------------------------------------------------------------
(* The scheduler, with times in degrees.                                    *)

Pending(startsIn, duration) ==
    [Off EXCEPT !.Status = "PENDING", !.startsIn = startsIn, !.duration = duration]

setFuelSchedule(s, timeout, duration) ==
    IF s.Status # "RUNNING" THEN Pending(timeout, duration)
    ELSE [s EXCEPT !.hasNextSchedule = TRUE, !.nextStartsIn = timeout, !.nextDuration = duration]

setIgnitionSchedule(s, timeout, duration) ==
    IF s.Status # "RUNNING" THEN Pending(timeout, duration) ELSE s

\* A pulse ends; a queued start that has passed meanwhile is not found again.
Finished(s) ==
    IF s.hasNextSchedule THEN Pending(s.nextStartsIn - Degree, s.nextDuration) ELSE Off

Ends(s) == s.Status = "RUNNING" /\ s.duration = Degree

\* One tick of a schedule; startsIn 0 is a start that is due now.
Advanced(s) ==
    CASE Ends(s) /\ s.hasNextSchedule /\ s.nextStartsIn = Degree ->
            [Off EXCEPT !.Status = "RUNNING", !.duration = s.nextDuration]
      [] Ends(s) /\ ~(s.hasNextSchedule /\ s.nextStartsIn = Degree) -> Finished(s)
      [] s.Status = "RUNNING" /\ ~Ends(s) ->
            [s EXCEPT !.duration = @ - Degree, !.nextStartsIn = @ - Degree]
      [] s.Status = "PENDING" /\ s.startsIn = Degree ->
            [s EXCEPT !.Status = "RUNNING", !.startsIn = 0]
      [] s.Status = "PENDING" /\ s.startsIn # Degree -> [s EXCEPT !.startsIn = @ - Degree]
      [] OTHER -> s

----------------------------------------------------------------------------
(* The loop.                                                                *)

\* getCrankAngle(): the angle is reduced only when it is beyond the maximum, or 720.
CrankAngles(c) ==
    IF crank % CRANK_ANGLE_MAX(c) = 0 THEN {0} \cup ({CRANK_ANGLE_MAX(c)} \ {720})
    ELSE {crank % CRANK_ANGLE_MAX(c)}

\* An angle as the cylinder of a channel sees it: tempCrankAngle, tempStartAngle
Relative(angle, degrees, max) == IF angle < degrees THEN angle - degrees + max ELSE angle - degrees

\* Mutant: the next squirt is not queued while one is running.
NoneWhileRunning(c, s, i, angle) ==
    LET max == CRANK_ANGLE_MAX_INJ(c)
        from == Relative(angle, InjDegrees(c)[i], max)
        start == Relative(injectorStartAngle(c, i), InjDegrees(c)[i], max)
    IN  IF start > from /\ PulseWidth(c, i) > 0 /\ s.Status # "RUNNING"
        THEN setFuelSchedule(s, start - from, PulseWidth(c, i)) ELSE s

\* One injection channel's part of the loop.
ScheduledFuel(c, s, i, angle) ==
    LET max == CRANK_ANGLE_MAX_INJ(c)
        from == Relative(angle, InjDegrees(c)[i], max)
        start == Relative(injectorStartAngle(c, i), InjDegrees(c)[i], max)
        next == IF start <= from /\ s.Status = "RUNNING" THEN start + max ELSE start
    IN  IF next > from /\ PulseWidth(c, i) > 0
        THEN setFuelSchedule(s, next - from, PulseWidth(c, i)) ELSE s

ScheduleFuel ==
    /\ turn = "fuel"
    /\ \E angle \in CrankAngles(setting) :
          fuel' = [i \in Channels |->
                      IF i \in InjEnabled(setting)
                      THEN ScheduledFuel(setting, fuel[i], i,
                                         Reduced(angle, CRANK_ANGLE_MAX_INJ(setting)))
                      ELSE fuel[i]]
    /\ turn' = "ignition"
    /\ waited' = 0
    /\ UNCHANGED <<setting, crank, ignition, ended, since>>

\* One ignition channel's part of the loop.
ScheduledSpark(c, s, i, angle) ==
    LET max == CRANK_ANGLE_MAX_IGN(c)
        from == Relative(angle, IgnDegrees(c)[i], max)
        start == Relative(ignitionStartAngle(c, i), IgnDegrees(c)[i], max)
    IN  IF start > from THEN setIgnitionSchedule(s, start - from, correctionsDwell(c)) ELSE s

ScheduleIgnition ==
    /\ turn = "ignition"
    /\ \E angle \in CrankAngles(setting) :
          ignition' = [i \in Channels |->
              ScheduledSpark(setting, ignition[i], i,
                             IF angle > CRANK_ANGLE_MAX_IGN(setting) THEN angle - 360 ELSE angle)]
    /\ turn' = "fuel"
    /\ waited' = 0
    /\ UNCHANGED <<setting, crank, fuel, ended, since>>

\* The crank turns on.
Tick ==
    /\ waited < RoundTicks
    /\ waited' = waited + 1
    /\ crank' = (crank + Degree) % 720
    /\ fuel' = [i \in Channels |-> Advanced(fuel[i])]
    /\ ignition' = [i \in Channels |-> Advanced(ignition[i])]
    /\ ended' = {<<"inj", i>> : i \in {j \in Channels : Ends(fuel[j])}}
                    \cup {<<"ign", i>> : i \in {j \in Channels : Ends(ignition[j])}}
    /\ since' = [ch \in DOMAIN since |-> IF ch \in ended' THEN 0 ELSE since[ch] + Degree]
    /\ UNCHANGED <<setting, turn>>

Next == ScheduleFuel \/ ScheduleIgnition \/ Tick

Spec == Init /\ [][Next]_vars

----------------------------------------------------------------------------
\* The degrees from the first cylinder to the one that a channel serves: cylinders
\* are spread evenly over the degrees that are tracked, but two are half a
\* revolution apart; an odd firing engine has its own degrees.
Spread(degrees, i, n) == (i - 1) * (degrees \div n)

CylinderDegrees(c, i) ==
    CASE i = 1 -> 0
      [] i > 1 /\ ~c.evenFire -> c.oddfire[i - 1]
      [] i > 1 /\ c.evenFire /\ c.nCylinders = 2 -> 180
      [] i > 1 /\ c.evenFire /\ c.nCylinders # 2 ->
            IF c.sparkMode = "rotary" THEN ((i - 1) % 2) * 180
            ELSE Spread(CRANK_ANGLE_MAX_IGN(c), i, Cardinality(UsedSparks(c)))

SparksInTime(channels) ==
    \A i \in channels : <<"ign", i>> \in ended =>
        LET trailing == setting.sparkMode = "rotary" /\ i > 2
            due == CylinderDegrees(setting, i) - setting.advance
                      + (IF trailing THEN setting.splitDegrees ELSE 0)
        IN  i \in UsedSparks(setting) /\ (crank - due) % CRANK_ANGLE_MAX_IGN(setting) = 0

\* A coil's charge ends, and its spark comes, exactly advance degrees before the top
\* dead centre of the cylinder the channel serves, a trailing spark splitDegrees
\* later, and never on a channel the engine does not use: wherever the loop is in
\* the cycle when it schedules, and wherever angles pass 0.
SparkIsOnTime == SparksInTime(Channels)

\* As SparkIsOnTime, but for the channels that the code does not time so: the third
\* of three cylinders and the fifth of five.
OtherSparksAreOnTime ==
    SparksInTime(Channels \ (IF setting.nCylinders \in {3, 5} THEN {setting.nCylinders} ELSE {}))

\* The degrees from the first cylinder to the squirt of a channel. Five cylinders'
\* channels 3 and 5 are meant to squirt as one, but not on this board.
SquirtDegrees(c, i) ==
    LET stages == IF c.nCylinders = 5 THEN 5
                  ELSE Cardinality(InjEnabled(c)) \div (IF c.staging THEN 2 ELSE 1)
        first == ((i - 1) % (IF c.staging THEN 2 ELSE 8)) + 1
    IN  CASE ~c.injTiming /\ ~SequentialSquirts(c) -> 0
          [] (c.injTiming \/ SequentialSquirts(c)) /\ c.nCylinders = 2 -> CylinderDegrees(c, first)
          [] OTHER -> IF CRANK_ANGLE_MAX_INJ(c) >= 360 /\ ~SequentialSquirts(c)
                      THEN Spread(360, first, stages)
                      ELSE Spread(CRANK_ANGLE_MAX_INJ(c), first, stages)

\* An injector closes at the angle that is set for it, after the top dead centre of
\* its cylinder: squirts take turns evenly, and the second stage follows the first.
InjectorClosesOnTime ==
    \A ch \in ended : ch[1] = "inj" =>
        (crank - (setting.injAng + SquirtDegrees(setting, ch[2])))
            % CRANK_ANGLE_MAX_INJ(setting) = 0

\* Every channel that is in use gives a pulse in every cycle, however the loop's
\* rounds fall: none is scheduled away before it starts or missed between two rounds.
EveryChannelFires == \A ch \in DOMAIN since : since[ch] <= Cycle(setting, ch[1])

\* Channels that share a coil never charge it at once: the dwell is cut so that a
\* charge and its spark are over before the next.
Charging(i) == ignition[i].Status = "RUNNING"

OneChargePerCoil ==
    \A i, j \in Channels :
        i # j /\ Charging(i) /\ Charging(j) => Coils(setting, i) \cap Coils(setting, j) = {}
=============================================================================
