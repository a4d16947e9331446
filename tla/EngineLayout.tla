---------------------------- MODULE EngineLayout ----------------------------
(***************************************************************************)
(* What initialiseAll() works out once from the engine's settings: the     *)
(* degrees from the top dead centre of the first cylinder to that of every *)
(* channel, the injection channels in use, the degrees that ignition,      *)
(* injection and the decoder are tracked over, and the coils that the      *)
(* ignition channels switch.                                               *)
(*                                                                         *)
(* A setting c is a record: nCylinders, fourStroke, evenFire, oddfire (the *)
(* degrees of the cylinders after the first), injLayout, injTiming (squirts *)
(* take turns), squirts (per cycle, asked for), staging, sparkMode and     *)
(* rotaryType.                                                             *)
(***************************************************************************)
EXTENDS Integers, Sequences

CONSTANT INJ_CHANNELS       \* 4 on the Mega, 8 on the Teensy

ASSUME ChannelsAssumption == INJ_CHANNELS \in {4, 8}

Channels == 1..8

\* Degrees that are not set stay 0.
Padded(degrees) == [i \in Channels |-> IF i <= Len(degrees) THEN degrees[i] ELSE 0]

----------------------------------------------------------------------------
(* Ignition.                                                                *)

SequentialSparks(c) == c.sparkMode = "sequential" /\ c.fourStroke

\* The modes that the degrees of three cylinders are tracked over 720 for.
ThreeOver720(c) == c.sparkMode \in {"sequential", "single"} /\ c.fourStroke

TwoIgnDegrees(c) == IF c.evenFire THEN <<0, 180>> ELSE <<0>> \o SubSeq(c.oddfire, 1, 1)

ThreeIgnDegrees(c) ==
    CASE ~c.evenFire -> <<0>> \o SubSeq(c.oddfire, 1, 2)
      [] c.evenFire /\ ThreeOver720(c) -> <<0, 240, 480>>
      [] OTHER -> <<0, 120, 240>>

FourIgnDegrees(c) ==
    CASE ~c.evenFire -> <<0>> \o c.oddfire
      [] c.evenFire /\ SequentialSparks(c) -> <<0, 180, 360, 540>>
      [] c.evenFire /\ c.sparkMode = "rotary" -> <<0, 180, 0, 180>>
      [] OTHER -> <<0, 180>>

FiveIgnDegrees(c) ==
    IF c.sparkMode = "sequential" THEN <<0, 144, 288, 432, 576>> ELSE <<0, 72, 144, 216, 288>>

IgnDegrees(c) ==
    Padded(CASE c.nCylinders = 1 -> <<0>>
             [] c.nCylinders = 2 -> TwoIgnDegrees(c)
             [] c.nCylinders = 3 -> ThreeIgnDegrees(c)
             [] c.nCylinders = 4 -> FourIgnDegrees(c)
             [] c.nCylinders = 5 -> FiveIgnDegrees(c)
             [] c.nCylinders = 6 -> <<0, 120, 240>>
             [] c.nCylinders = 8 -> <<0, 90, 180, 270>>)

CRANK_ANGLE_MAX_IGN(c) ==
    IF \/ c.nCylinders \in {1, 2} /\ SequentialSparks(c)
       \/ c.nCylinders = 3 /\ c.evenFire /\ ThreeOver720(c)
       \/ c.nCylinders = 4 /\ c.evenFire /\ SequentialSparks(c)
       \/ c.nCylinders = 5 /\ c.sparkMode = "sequential"
    THEN 720 ELSE 360

\* The coils that the callbacks of an ignition channel switch.
WastedCopCoils(i) == CASE i = 1 -> {1, 3} [] i = 2 -> {2, 4} [] OTHER -> {}

RotaryCoils(type, i) ==
    CASE type = "FC" -> IF i <= 2 THEN {1} ELSE {2}
      [] type = "FD" -> IF i <= 2 THEN {1} ELSE {i - 1}
      [] type = "RX8" -> {i}

Coils(c, i) ==
    CASE c.sparkMode = "single" -> {1}
      [] c.sparkMode = "wasted cop" /\ c.nCylinders <= 4 -> WastedCopCoils(i)
      [] c.sparkMode = "rotary" -> RotaryCoils(c.rotaryType, i)
      [] OTHER -> {i}

----------------------------------------------------------------------------
(* Injection.                                                               *)

\* One squirt for each cylinder in 720 degrees.
SequentialSquirts(c) ==
    /\ c.injLayout = "sequential"
    /\ CASE c.nCylinders <= 5 -> c.fourStroke
         [] c.nCylinders = 6 -> INJ_CHANNELS >= 6
         [] c.nCylinders = 8 -> INJ_CHANNELS >= 8

\* The degrees get closer when there are more than two squirts in a cycle.
Closer(c, degrees) ==
    [i \in DOMAIN degrees |-> IF c.squirts > 2 THEN (degrees[i] * 2) \div c.squirts ELSE degrees[i]]

\* Squirts that do not take turns all come with the first.
Timed(c, degrees) == IF c.injTiming THEN degrees ELSE [i \in DOMAIN degrees |-> 0]

Staged(c, degrees) == IF c.staging THEN degrees \o degrees ELSE degrees

OneInjDegrees(c) == IF c.staging THEN <<0, 0, 0>> ELSE <<0>>

TwoInjDegrees(c) == Staged(c, Timed(c, TwoIgnDegrees(c)))

ThreeInjDegrees(c) ==
    IF SequentialSquirts(c) THEN <<0, 240, 480>> ELSE Timed(c, Closer(c, <<0, 120, 240>>))

FourInjDegrees(c) ==
    CASE SequentialSquirts(c) /\ ~c.staging -> <<0, 180, 360, 540>>
      [] SequentialSquirts(c) /\ c.staging -> <<0, 180, 0, 180>>
      [] OTHER -> Staged(c, Timed(c, <<0, 180>>))

FiveInjDegrees(c) ==
    Timed(c, IF SequentialSquirts(c) THEN <<0, 144, 288, 432, 576>> ELSE <<0, 72, 144, 216, 288>>)

SixInjDegrees(c) ==
    IF SequentialSquirts(c) THEN Timed(c, <<0, 120, 240>>) \o <<360, 480, 600>>
    ELSE Timed(c, Closer(c, <<0, 120, 240>>))

EightInjDegrees(c) ==
    IF SequentialSquirts(c) THEN Timed(c, <<0, 90, 180, 270>>) \o <<360, 450, 540, 630>>
    ELSE Timed(c, Closer(c, <<0, 90, 180, 270>>))

InjDegrees(c) ==
    Padded(CASE c.nCylinders = 1 -> OneInjDegrees(c)
             [] c.nCylinders = 2 -> TwoInjDegrees(c)
             [] c.nCylinders = 3 -> ThreeInjDegrees(c)
             [] c.nCylinders = 4 -> FourInjDegrees(c)
             [] c.nCylinders = 5 -> FiveInjDegrees(c)
             [] c.nCylinders = 6 -> SixInjDegrees(c)
             [] c.nCylinders = 8 -> EightInjDegrees(c))

\* The injection channels of the board that are enabled.
InjEnabled(c) ==
    (1..INJ_CHANNELS) \cap
        CASE c.nCylinders = 1 -> IF c.staging THEN {1, 3} ELSE {1}
          [] c.nCylinders = 2 -> IF c.staging THEN 1..4 ELSE {1, 2}
          [] c.nCylinders = 3 -> 1..3
          [] c.nCylinders = 4 -> IF SequentialSquirts(c) \/ c.staging THEN 1..4 ELSE {1, 2}
          [] c.nCylinders = 5 -> {1, 2, 4, 5}
          [] c.nCylinders = 6 -> IF SequentialSquirts(c) THEN 1..6 ELSE 1..3
          [] c.nCylinders = 8 -> IF SequentialSquirts(c) THEN 1..8 ELSE 1..4

nSquirts(c) == IF SequentialSquirts(c) THEN 1 ELSE c.squirts

CRANK_ANGLE_MAX_INJ(c) ==
    IF SequentialSquirts(c) THEN 720
    ELSE (IF c.fourStroke THEN 720 ELSE 360) \div c.squirts

\* Three or five squirts are tracked over 720 degrees on four strokes.
CRANK_ANGLE_MAX(c) ==
    CASE nSquirts(c) \in {3, 5} /\ c.fourStroke -> 720
      [] CRANK_ANGLE_MAX_IGN(c) >= CRANK_ANGLE_MAX_INJ(c) -> CRANK_ANGLE_MAX_IGN(c)
      [] OTHER -> CRANK_ANGLE_MAX_INJ(c)

\* More than four cylinders: the layout is reset to paired.
injLayout(c) == IF c.nCylinders \in {6, 8} THEN "paired" ELSE c.injLayout
=============================================================================
