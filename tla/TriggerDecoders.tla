--------------------------- MODULE TriggerDecoders ---------------------------
(***************************************************************************)
(* The trigger decoders other than the missing tooth one (decoders.ino).   *)
(* Each has a handler for the pulses of the crank and one for those of the *)
(* cam; they share the program's trigger variables, which are the record   *)
(* ecu here.  Time stamps are kept as ages: how long before now they were  *)
(* taken, so that micros() - stamp is the age.                             *)
(*                                                                         *)
(* PrimaryPulse(e) and SecondaryPulse(e) are what a handler does with the  *)
(* state e in which it finds the variables, their ages brought up to now.  *)
(* The trigger angle is 0, per-tooth ignition timing is on and the advance *)
(* is above 0.                                                             *)
(***************************************************************************)
EXTENDS TriggerWheels

CONSTANTS
    Long,           \* MAX_STALL_TIME; ages from here on are taken for equal
    InitialFilter,  \* the shortest time there can be between teeth
    MaxRevolutions, \* bound: startRevolutions stops counting here,
    MaxLosses       \*   and syncLossCounter here

ASSUME TimeAssumption == Long \in Nat /\ InitialFilter \in Nat
ASSUME BoundAssumption == MaxRevolutions \in Nat /\ MaxLosses \in Nat

VARIABLES
    config,  \* the settings, fixed while the program runs
    RPM,     \* "zero", "crank" (below crankRPM), "low" (below 1400) or "high"
    ecu      \* the trigger variables

Never == -1       \* a time stamp of zero
None == <<>>
NoTooth == 99     \* a count that no wheel has; the code uses 99 and 255
MostTeeth == 720  \* bound: tooth counts stop here

Decoder == config.decoder
Cylinders == config.cylinders
Sequential == config.sequential
Angles == toothAngles(config)

Stamps ==
    {"toothLastToothTime", "toothLastMinusOneToothTime", "toothOneTime",
     "toothOneMinusOneTime", "toothLastSecToothTime", "toothSystemLastToothTime"}

Least(a, b) == IF a < b THEN a ELSE b

\* The state some time later, with the pins as the wheel has them when it is at
\* this angle, and nothing released or checked since.
Later(e, time, angle) ==
    [f \in DOMAIN e |->
        CASE f \in Stamps -> IF e[f] = Never THEN Never ELSE Least(e[f] + time, Long)
          [] f = "uptime" -> Least(e[f] + time, Long)
          [] f = "crankHigh" -> CrankHigh(config, angle)
          [] f = "camHigh" -> CamHigh(config, angle)
          [] f = "check" -> None
          [] f = "released" -> {}
          [] OTHER -> e[f]]

\* micros() - stamp, and the difference of the last two teeth's stamps.
Since(e, stamp) == IF e[stamp] = Never THEN e.uptime ELSE e[stamp]

\* The latter is unsigned: below zero it is longer than anything.
LastInterval(e) ==
    LET difference ==
            Since(e, "toothLastMinusOneToothTime") - Since(e, "toothLastToothTime")
    IN  IF difference < 0 THEN Long ELSE difference

-----------------------------------------------------------------------------
(***************************************************************************)
(* What the handlers have in common.                                       *)
(***************************************************************************)

Counted(n) == Least(n + 1, MostTeeth)

Recorded(e) ==
    [e EXCEPT !.toothLastMinusOneToothTime = e.toothLastToothTime,
              !.toothLastToothTime = 0]

\* startRevolutions++
Revolved(e) ==
    [e EXCEPT !.startRevolutions = Least(@ + 1, MaxRevolutions)]

\* Tooth #1 has passed.
ToothOne(e) ==
    [e EXCEPT !.toothCurrentCount = 1,
              !.toothOneMinusOneTime = e.toothOneTime,
              !.toothOneTime = 0]

AtToothOne(e) == Revolved(ToothOne(e))

SyncLost(e) == [e EXCEPT !.syncLossCounter = Least(@ + 1, MaxLosses)]

\* setFilter(curGap)
FilterFor(gap) ==
    CASE config.filter = 0 -> 0
      [] config.filter = 1 -> gap \div 4
      [] config.filter = 2 -> gap \div 2
      [] config.filter = 3 -> (gap * 3) \div 4

SetFilter(e, gap) == [e EXCEPT !.triggerFilterTime = FilterFor(gap)]

Cranking == RPM = "crank"        \* BIT_ENGINE_CRANK
BelowCrankRPM == RPM \in {"zero", "crank"}
LockedCranking == Cranking /\ config.ignCranklock

\* endCoilNCharge() of these coils.
Release(e, coils) == [e EXCEPT !.released = coils]

\* decoderHasFixedCrankingTiming
FixedCrankingTiming == {"BasicDistributor", "4G63", "Miata9905", "MazdaAU"}

\* checkPerToothTiming(crankAngle, currentTooth) looks for schedules that end at
\* this tooth; not while fixedCrankingOverride is set.
CheckTiming(e, crankAngle, currentTooth) ==
    IF RPM = "zero" \/ (LockedCranking /\ Decoder \in FixedCrankingTiming)
    THEN e
    ELSE [e EXCEPT !.check = <<crankAngle, currentTooth>>]

\* ignitionLimits(): into the range from 0 to CRANK_ANGLE_MAX_IGN.
CRANK_ANGLE_MAX == IF Sequential THEN 720 ELSE 360

ignitionLimits(angle) ==
    CASE angle < 0 -> angle + CRANK_ANGLE_MAX
      [] angle >= CRANK_ANGLE_MAX -> angle - CRANK_ANGLE_MAX
      [] OTHER -> angle

-----------------------------------------------------------------------------
(***************************************************************************)
(* Dual wheel, and the non-360 wheel, which uses its handlers: a cam tooth *)
(* says that the next tooth of the crank is #1.                            *)
(***************************************************************************)

PriDualWheel(e) ==
    LET gap == Since(e, "toothLastToothTime")
        count == Counted(e.toothCurrentCount)
        first == e.hasSync /\ (count = 1 \/ count > config.teeth)
        seen == Recorded([e EXCEPT !.toothCurrentCount = count])
        counted == IF first
                   THEN AtToothOne([seen EXCEPT !.revolutionOne = ~@])
                   ELSE seen
        filtered == IF e.hasSync THEN SetFilter(counted, gap) ELSE counted
        angle == (filtered.toothCurrentCount - 1) * e.triggerToothAngle
    IN  CASE gap < e.triggerFilterTime -> e
          [] gap >= e.triggerFilterTime /\ Cranking -> filtered
          [] gap >= e.triggerFilterTime /\ ~Cranking ->
                IF Sequential /\ filtered.revolutionOne
                THEN CheckTiming(filtered, angle + 360, config.teeth + filtered.toothCurrentCount)
                ELSE CheckTiming(filtered, angle, filtered.toothCurrentCount)

\* Until a revolution has passed the last interval is set to that of 10 rpm.
SecDualWheel(e) ==
    LET gap == Since(e, "toothLastSecToothTime")
        seen == [e EXCEPT !.toothLastSecToothTime = 0,
                          !.triggerSecFilterTime = gap \div 4,
                          !.revolutionOne = TRUE]
        lost == IF e.toothCurrentCount # config.teeth THEN SyncLost(seen) ELSE seen
    IN  CASE gap < e.triggerSecFilterTime -> e
          [] gap >= e.triggerSecFilterTime /\ ~e.hasSync ->
                [seen EXCEPT !.toothLastToothTime = 0,
                             !.toothLastMinusOneToothTime = Long,
                             !.toothCurrentCount = config.teeth,
                             !.hasSync = TRUE]
          [] gap >= e.triggerSecFilterTime /\ e.hasSync ->
                IF config.resync
                THEN [lost EXCEPT !.toothCurrentCount = config.teeth]
                ELSE lost

(***************************************************************************)
(* Basic distributor: the first tooth to be seen is taken for #1.          *)
(***************************************************************************)
PriBasicDistributor(e) ==
    LET gap == Since(e, "toothLastToothTime")
        count == e.toothCurrentCount
        counted ==
            CASE count = Cylinders \/ ~e.hasSync ->
                    AtToothOne([e EXCEPT !.hasSync = TRUE])
              [] count < Cylinders /\ e.hasSync ->
                    [e EXCEPT !.toothCurrentCount = Counted(count)]
              [] count > Cylinders /\ e.hasSync ->
                    SyncLost([e EXCEPT !.hasSync = FALSE])
        now == counted.toothCurrentCount
        half == Cylinders \div 2
        released == IF LockedCranking THEN Release(counted, 1 .. 4) ELSE counted
        checked == CheckTiming(released, ignitionLimits((now - 1) * e.triggerToothAngle),
                               IF now > half THEN now - half ELSE now)
    IN  IF gap < e.triggerFilterTime THEN e
        ELSE Recorded(SetFilter(checked, gap))

-----------------------------------------------------------------------------
(***************************************************************************)
(* Wheels with one tooth that follows the one before closely.              *)
(***************************************************************************)

\* GM 7X: six teeth 60 degrees apart and a seventh, which is counted as #3.
PriGM7X(e) ==
    LET gap == Since(e, "toothLastToothTime")
        count == Counted(e.toothCurrentCount)
        seen == [e EXCEPT !.toothCurrentCount = count, !.curGap = gap]
        known == Never \notin {e.toothLastToothTime, e.toothLastMinusOneToothTime}
        counted ==
            CASE ~known -> seen
              [] known /\ count > 7 ->
                    [ToothOne(seen) EXCEPT !.triggerToothAngleIsCorrect = TRUE]
              [] known /\ count <= 7 /\ gap < e.curGap \div 2 ->
                    [Revolved(seen) EXCEPT !.toothCurrentCount = 3,
                                           !.hasSync = TRUE,
                                           !.triggerToothAngleIsCorrect = FALSE]
              [] known /\ count <= 7 /\ gap >= e.curGap \div 2 ->
                    [seen EXCEPT !.triggerToothAngleIsCorrect = TRUE]
        now == counted.toothCurrentCount
        angle == (now - (IF now < 3 THEN 1 ELSE 2)) * e.triggerToothAngle + 42
    IN  Recorded(IF now = 3 THEN counted ELSE CheckTiming(counted, angle, now))

\* Honda D17: twelve teeth and a thirteenth, which counts as 0 and is not timed.
PriHondaD17(e) ==
    LET gap == Since(e, "toothLastToothTime")
        count == Counted(e.toothCurrentCount)
        seen == [e EXCEPT !.toothCurrentCount = count, !.curGap = gap]
    IN  CASE count = 13 /\ e.hasSync -> [seen EXCEPT !.toothCurrentCount = 0]
          [] count = 1 /\ e.hasSync -> Recorded(AtToothOne(seen))
          [] ~(count \in {1, 13} /\ e.hasSync) /\ gap < e.curGap \div 2 ->
                [seen EXCEPT !.toothCurrentCount = 0, !.hasSync = TRUE]
          [] ~(count \in {1, 13} /\ e.hasSync) /\ gap >= e.curGap \div 2 ->
                Recorded(seen)

\* Daihatsu: a tooth for each cylinder and one 30 degrees after the first. The
\* filter is set (its 20 us are nothing here) but not applied.
PriDaihatsu(e) ==
    LET gap == Since(e, "toothLastToothTime")
        target == IF Cylinders = 3 THEN LastInterval(e) \div 4
                  ELSE (LastInterval(e) * 3) \div 8
        seen == [e EXCEPT !.toothSystemCount = Least(@ + 1, 3)]
        counted ==
            IF e.toothCurrentCount = Cylinders + 1
            THEN [AtToothOne(seen) EXCEPT !.triggerFilterTime = 0]
            ELSE SetFilter([seen EXCEPT !.toothCurrentCount = Counted(@)], gap)
        now == counted.toothCurrentCount
    IN  Recorded(
            CASE e.hasSync ->
                    IF LockedCranking /\ now <= 4 THEN Release(counted, {now}) ELSE counted
              [] ~e.hasSync /\ seen.toothSystemCount >= 3 /\ gap < target ->
                    [seen EXCEPT !.toothCurrentCount = 2, !.hasSync = TRUE,
                                 !.triggerFilterTime = target]
              [] ~e.hasSync /\ ~(seen.toothSystemCount >= 3 /\ gap < target) -> seen)

\* Harley: the longer of the two gaps ends at tooth #1.
PriHarley(e) ==
    LET gap == Since(e, "toothLastToothTime")
        seen == SetFilter([e EXCEPT !.curGap = gap], gap)
        known == Revolved(Recorded(
            IF gap > e.curGap
            THEN [ToothOne(seen) EXCEPT !.triggerToothAngle = 0, !.hasSync = TRUE]
            ELSE [seen EXCEPT !.toothCurrentCount = 2, !.triggerToothAngle = 157]))
        bounced == [seen EXCEPT !.hasSync = FALSE, !.toothCurrentCount = 0]
    IN  CASE gap <= seen.triggerFilterTime -> seen
          [] gap > seen.triggerFilterTime /\ e.crankHigh -> known
          [] gap > seen.triggerFilterTime /\ ~e.crankHigh ->
                IF e.hasSync THEN SyncLost(bounced) ELSE bounced

\* 36-2-2-2: two gaps with a tooth between them end at #19, a gap and a tooth at
\* #35. toothSystemCount says that the last interval was a gap.
PriThirtySixMinus222(e) ==
    LET since == Since(e, "toothLastToothTime")
        count == Counted(e.toothCurrentCount)
        target == IF e.toothSystemCount = 0 THEN LastInterval(e) * 2 ELSE e.targetGap
        known == Never \notin {e.toothLastToothTime, e.toothLastMinusOneToothTime}
        gap == IF known THEN since ELSE 0
        seen == [e EXCEPT !.toothCurrentCount = count, !.targetGap = Least(target, Long)]
        afterGap == [seen EXCEPT !.triggerToothAngleIsCorrect = FALSE,
                                 !.triggerFilterTime = 0]
        regular == [SetFilter(seen, gap) EXCEPT !.triggerToothAngleIsCorrect = TRUE,
                                                !.toothSystemCount = 0]
        counted ==
            CASE gap > target /\ e.toothSystemCount = 1 ->
                    [afterGap EXCEPT !.toothCurrentCount = 19, !.toothSystemCount = 0,
                                     !.hasSync = TRUE]
              [] gap > target /\ e.toothSystemCount # 1 ->
                    [afterGap EXCEPT !.toothCurrentCount = count + 2,
                                     !.toothSystemCount = 1]
              [] gap <= target /\ count > 36 ->
                    AtToothOne([regular EXCEPT !.revolutionOne = ~@])
              [] gap <= target /\ count <= 36 /\ e.toothSystemCount = 1 ->
                    [regular EXCEPT !.toothCurrentCount = 35, !.hasSync = TRUE]
              [] gap <= target /\ count <= 36 /\ e.toothSystemCount # 1 -> regular
        now == counted.toothCurrentCount
    IN  IF since < e.triggerFilterTime THEN e
        ELSE CheckTiming(Recorded(counted), (now - 1) * e.triggerToothAngle, now)

-----------------------------------------------------------------------------
(***************************************************************************)
(* Wheels of uneven teeth whose cam tells where in the cycle they are.     *)
(***************************************************************************)

\* Mutant: the filters at the first level reach to within a tenth of the next gap.
TightFilter ==
    [c \in {4, 6} |-> IF c = 4 THEN << <<0, 0>>, <<48, 19>>, <<40, 16>>, <<44, 9>> >>
                               ELSE << <<0, 0>>, <<8, 16>>, <<16, 24>>, <<16, 32>> >>]

\* What the 4G63 and Miata decoders make of the last gap at an odd tooth and at
\* an even one, in 32nds, by the filter's level; the next gap is the other one.
UnevenFilter ==
    [c \in {4, 6} |-> IF c = 4 THEN << <<0, 0>>, <<32, 12>>, <<40, 16>>, <<44, 9>> >>
                               ELSE << <<0, 0>>, <<8, 16>>, <<16, 24>>, <<16, 32>> >>]

\* Mutant: the angles of the two gaps are taken for each other's.
SwappedUneven(e, gap) ==
    [e EXCEPT !.triggerToothAngle =
        IF e.toothCurrentCount % 2 = 0 THEN 70 ELSE IF Cylinders = 4 THEN 110 ELSE 50]

\* The gap that ends at this tooth, and the filter for the next; below 1400 rpm
\* the filter is the lite one.
Uneven(e, gap) ==
    LET parity == IF e.toothCurrentCount % 2 = 1 THEN 1 ELSE 2
        level == IF RPM # "high" THEN 1 ELSE config.filter
    IN  [e EXCEPT
            !.triggerToothAngle =
                IF parity = 1 THEN 70 ELSE IF Cylinders = 4 THEN 110 ELSE 50,
            !.triggerFilterTime =
                (gap * UnevenFilter[Cylinders][level + 1][parity]) \div 32]

\* Mutant: the last tooth of the first revolution counts with the second.
EarlyCheckUneven(e) ==
    LET count == e.toothCurrentCount
    IN  CheckTiming(e, ignitionLimits(Angles[count]),
                    IF ~Sequential /\ count >= Cylinders THEN count - Cylinders ELSE count)

\* These decoders are sequential with teeth for two revolutions; otherwise the
\* second revolution's are checked as the first's.
CheckUneven(e) ==
    LET count == e.toothCurrentCount
    IN  CheckTiming(e, ignitionLimits(Angles[count]),
                    IF ~Sequential /\ count > Cylinders THEN count - Cylinders ELSE count)

\* Mutant: the other revolution's coils.
WrongCoilsAt4G63(count) == IF count % 4 = 1 THEN {2, 4} ELSE {1, 3}

\* The coils that locked cranking timing releases at a tooth.
ReleasedAt4G63(count) ==
    CASE Cylinders = 4 /\ count % 4 = 1 -> {1, 3}
      [] Cylinders = 4 /\ count % 4 = 3 -> {2, 4}
      [] Cylinders = 6 /\ count % 2 = 1 -> {(((count - 1) \div 2) % 3) + 1}
      [] count % 2 = 0 -> {}

\* Without sync: a crank pulse that begins with the cam high ends with it low,
\* or still high.
Seek4G63(e) ==
    LET crank == e.crankHigh    \* READ_PRI_TRIGGER()
        cam == e.camHigh        \* READ_SEC_TRIGGER()
        t == [e EXCEPT !.triggerSecFilterTime = 0]
    IN  CASE crank -> [t EXCEPT !.revolutionOne = cam]
          [] ~crank /\ ~e.revolutionOne -> t
          [] ~crank /\ e.revolutionOne /\ ~cam ->
                IF Cylinders = 4 THEN [t EXCEPT !.toothCurrentCount = 1] ELSE t
          [] ~crank /\ e.revolutionOne /\ cam ->
                IF Cylinders = 4 THEN [t EXCEPT !.toothCurrentCount = 5]
                ELSE [t EXCEPT !.toothCurrentCount = 2, !.hasSync = TRUE]

Pri4G63(e) ==
    LET gap == Since(e, "toothLastToothTime")
        count == Counted(e.toothCurrentCount)
        seen == Recorded([e EXCEPT !.toothCurrentCount = count,
                                   !.triggerFilterTime = gap \div 4])
        counted == IF count = 1 \/ count > Len(Angles) THEN AtToothOne(seen) ELSE seen
        locked == LockedCranking /\ counted.startRevolutions >= config.StgCycles
        released == IF locked
                    THEN Release(counted, ReleasedAt4G63(counted.toothCurrentCount))
                    ELSE counted
        timed == Uneven(released, gap)
    IN  CASE gap < e.triggerFilterTime /\ e.startRevolutions > 0 -> e
          [] ~(gap < e.triggerFilterTime /\ e.startRevolutions > 0) /\ e.hasSync ->
                IF Cylinders = 4 THEN CheckUneven(timed) ELSE timed
          [] ~(gap < e.triggerFilterTime /\ e.startRevolutions > 0) /\ ~e.hasSync ->
                Seek4G63(counted)

\* The cam falls while the crank's signal is high, or while it is low.
Sec4G63(e) ==
    LET gap == Since(e, "toothLastSecToothTime")
        crank == e.crankHigh
        seen == [e EXCEPT !.toothLastSecToothTime = 0, !.triggerSecFilterTime = gap \div 2]
        expected == <<Cylinders, crank, e.toothCurrentCount>>
        found == [seen EXCEPT
                    !.triggerFilterTime = InitialFilter,
                    !.triggerSecFilterTime = @ \div 2,
                    !.hasSync = expected \in {<<4, TRUE, 8>>, <<6, TRUE, 7>>, <<4, FALSE, 5>>}]
        known == IF e.hasSync THEN seen ELSE found
        resync == (BelowCrankRPM \/ config.resync) /\ known.hasSync /\ Cylinders = 4
    IN  CASE gap < e.triggerSecFilterTime -> e
          [] gap >= e.triggerSecFilterTime /\ resync /\ crank /\ e.toothCurrentCount # 8 ->
                SyncLost([known EXCEPT !.hasSync = FALSE])
          [] gap >= e.triggerSecFilterTime /\ ~(resync /\ crank /\ e.toothCurrentCount # 8) ->
                known

\* Miata '99 to '05: two cam teeth since the last tooth of the crank say that
\* this one is #6.
PriMiata9905(e) ==
    LET gap == Since(e, "toothLastToothTime")
        count == Counted(e.toothCurrentCount)
        seen == [e EXCEPT !.toothCurrentCount = count]
        counted ==
            CASE count = 9 -> AtToothOne(seen)
              [] count # 9 /\ e.secondaryToothCount = 2 /\ (~e.hasSync \/ config.resync) ->
                    [seen EXCEPT !.toothCurrentCount = 6, !.hasSync = TRUE]
              [] count # 9 /\ ~(e.secondaryToothCount = 2 /\ (~e.hasSync \/ config.resync)) ->
                    seen
        timed == [Uneven(counted, gap) EXCEPT
                    !.triggerSecFilterTime =
                        IF RPM = "high" /\ config.filter = 0 THEN 0 ELSE @]
        checked == IF counted.hasSync THEN CheckUneven(timed) ELSE counted
        now == counted.toothCurrentCount
        locked == BelowCrankRPM /\ config.ignCranklock
        released == CASE locked /\ now \in {1, 5} -> Release(checked, {1, 3})
                      [] locked /\ now \in {3, 7} -> Release(checked, {2, 4})
                      [] ~(locked /\ now \in {1, 3, 5, 7}) -> checked
    IN  IF gap < e.triggerFilterTime /\ e.startRevolutions > 0 THEN e
        ELSE [Recorded(released) EXCEPT !.secondaryToothCount = 0]

SecMiata9905(e) ==
    LET gap == Since(e, "toothLastSecToothTime")
        relaxed == IF Cranking \/ ~e.hasSync
                   THEN [e EXCEPT !.triggerFilterTime = InitialFilter] ELSE e
    IN  IF gap < e.triggerSecFilterTime THEN relaxed
        ELSE [relaxed EXCEPT
                !.toothLastSecToothTime = 0,
                !.secondaryToothCount = Least(@ + 1, 4),
                !.lastVVTtime = IF e.toothCurrentCount = 1
                                THEN Since(e, "toothLastToothTime") ELSE @]

\* Mazda AU.
PriMazdaAU(e) ==
    LET gap == Since(e, "toothLastToothTime")
        count == Counted(e.toothCurrentCount)
        counted == IF count \in {1, 5}
                   THEN AtToothOne([e EXCEPT !.hasSync = TRUE])
                   ELSE [e EXCEPT !.toothCurrentCount = count]
        now == counted.toothCurrentCount
        released == CASE LockedCranking /\ now = 1 -> Release(counted, {1})
                      [] LockedCranking /\ now = 3 -> Release(counted, {2})
                      [] ~(LockedCranking /\ now \in {1, 3}) -> counted
        odd == now \in {1, 3}
    IN  CASE gap < e.triggerFilterTime -> e
          [] gap >= e.triggerFilterTime /\ ~counted.hasSync -> counted
          [] gap >= e.triggerFilterTime /\ counted.hasSync ->
                Recorded([released EXCEPT
                    !.triggerToothAngle = IF odd THEN 72 ELSE 108,
                    !.triggerFilterTime = IF odd THEN gap ELSE (gap * 3) \div 8])

\* Two cam teeth that are close together are looked for, and a count of 2 at the
\* next. The count stops at 4: from 3 on it is never 2 again but by the stall branch.
SecMazdaAU(e) ==
    LET gap == Since(e, "toothLastSecToothTime")
        seen == [e EXCEPT !.toothLastSecToothTime = 0, !.curGap2 = gap]
        close == gap < e.curGap2 \div 2
    IN  CASE e.hasSync -> seen
          [] ~e.hasSync /\ e.secondaryToothCount = 2 ->
                [seen EXCEPT !.toothCurrentCount = 1, !.hasSync = TRUE,
                             !.secondaryToothCount = 3]
          [] ~e.hasSync /\ e.secondaryToothCount # 2 ->
                [seen EXCEPT !.triggerFilterTime = InitialFilter,
                             !.secondaryToothCount = IF close THEN 3 ELSE Least(@ + 1, 4)]

-----------------------------------------------------------------------------
(***************************************************************************)
(* Wheels whose teeth are counted from an edge of the cam's signal.        *)
(***************************************************************************)

\* GM 24X and Jeep 2000: the cam sets the count to zero.  One more than there
\* are teeth says that the cam has not been seen.
NotSeen == Len(Angles) + 1

\* toothAngles[count-1]. A lost cam pulse lets the count leave the table; what is
\* read there is not modelled, 0 stands for it.
TableAngle(count) == IF count \in DOMAIN Angles THEN Angles[count] ELSE 0

\* toothAngles[toothCurrentCount-1] - toothAngles[toothCurrentCount-2]
ToothGap(count) == TableAngle(count) - TableAngle(count - 1)

Pri24X(e) ==
    LET count == Counted(e.toothCurrentCount)
        first == [AtToothOne(e) EXCEPT !.revolutionOne = ~@, !.hasSync = TRUE,
                                       !.triggerToothAngle = 15]
        later == [e EXCEPT !.toothCurrentCount = count,
                           !.triggerToothAngle = ToothGap(count)]
    IN  IF e.toothCurrentCount = NotSeen THEN [e EXCEPT !.hasSync = FALSE]
        ELSE [IF e.toothCurrentCount = 0 THEN first ELSE later
                EXCEPT !.toothLastToothTime = 0]

Sec24X(e) == [e EXCEPT !.toothCurrentCount = 0, !.revolutionOne = TRUE]

PriJeep2000(e) ==
    LET gap == Since(e, "toothLastToothTime")
        count == Counted(e.toothCurrentCount)
        first == [AtToothOne(e) EXCEPT !.hasSync = TRUE, !.triggerToothAngle = 60]
        later == [e EXCEPT !.toothCurrentCount = count,
                           !.triggerToothAngle = ToothGap(count)]
    IN  CASE e.toothCurrentCount = NotSeen -> [e EXCEPT !.hasSync = FALSE]
          [] e.toothCurrentCount # NotSeen /\ gap < e.triggerFilterTime -> e
          [] e.toothCurrentCount # NotSeen /\ gap >= e.triggerFilterTime ->
                Recorded(SetFilter(IF e.toothCurrentCount = 0 THEN first ELSE later, gap))

\* Mutant: the cam's edge does not set the count to zero.
UncountedSecJeep2000(e) == e

SecJeep2000(e) == [e EXCEPT !.toothCurrentCount = 0]

\* Audi 135: every third tooth counts.
PriAudi135(e) ==
    LET gap == Since(e, "toothSystemLastToothTime")
        system == [e EXCEPT !.toothSystemCount = Least(@ + 1, 4)]
        count == Counted(e.toothCurrentCount)
        third == [system EXCEPT !.toothSystemLastToothTime = 0,
                                !.toothSystemCount = 0,
                                !.toothCurrentCount = count]
        counted == IF count = 1 \/ count > 45
                   THEN AtToothOne([third EXCEPT !.revolutionOne = ~@])
                   ELSE third
    IN  CASE gap <= e.triggerFilterTime /\ e.startRevolutions > 0 -> e
          [] ~(gap <= e.triggerFilterTime /\ e.startRevolutions > 0) /\ ~e.hasSync ->
                [system EXCEPT !.toothLastToothTime = 0]
          [] ~(gap <= e.triggerFilterTime /\ e.startRevolutions > 0) /\ e.hasSync ->
                IF system.toothSystemCount >= 3 THEN Recorded(SetFilter(counted, gap))
                ELSE system

\* The first hundred revolutions are corrected whether useResync is set or not;
\* MaxRevolutions stands for them.
SecAudi135(e) ==
    LET start == [e EXCEPT !.revolutionOne = TRUE, !.toothCurrentCount = 0]
    IN  CASE ~e.hasSync \/ config.resync ->
                [start EXCEPT !.hasSync = TRUE, !.toothSystemCount = 3]
          [] e.hasSync /\ ~config.resync /\ e.toothCurrentCount # 45 -> start
          [] e.hasSync /\ ~config.resync /\ e.toothCurrentCount = 45 ->
                [e EXCEPT !.revolutionOne = TRUE]

\* Nissan 360: 360 teeth in a cycle, and windows of the cam that are told apart
\* by how many teeth pass in them.
PriNissan360(e) ==
    LET gap == Since(e, "toothLastToothTime")
        count == Counted(e.toothCurrentCount)
        seen == Recorded([e EXCEPT !.toothCurrentCount = count])
        counted == IF count = 361 THEN AtToothOne(seen) ELSE seen
        now == counted.toothCurrentCount
        angle == (now - 1) * 2
    IN  CASE ~e.hasSync -> seen
          [] e.hasSync /\ angle > CRANK_ANGLE_MAX ->
                CheckTiming(counted, angle - CRANK_ANGLE_MAX, now \div 2)
          [] e.hasSync /\ angle <= CRANK_ANGLE_MAX -> CheckTiming(counted, angle, now)

\* Mutant: windows are taken to end a tooth later.
LateWindowEnds ==
    [c \in {4, 6} |->
        IF c = 4 THEN {<<15 .. 17, 17>>, <<11 .. 13, 103>>, <<7 .. 9, 189>>, <<3 .. 5, 275>>}
        ELSE {<<3 .. 5, 125>>}]

\* The count at the end of a window of this many teeth, by the cylinders.
WindowEnds ==
    [c \in {4, 6} |->
        IF c = 4 THEN {<<15 .. 17, 16>>, <<11 .. 13, 102>>, <<7 .. 9, 188>>, <<3 .. 5, 274>>}
        ELSE {<<3 .. 5, 124>>}]

\* The length of a window is a byte.  A window begins when the signal gets low.
SecNissan360(e) ==
    LET seen == [e EXCEPT !.toothLastSecToothTime = 0]
        begins == e.secondaryToothCount = 0 \/ ~e.camHigh
        duration == (e.toothCurrentCount - e.secondaryToothCount) % 256
        known == {w \in WindowEnds[Cylinders] : duration \in w[1]}
    IN  CASE begins -> [seen EXCEPT !.secondaryToothCount = e.toothCurrentCount]
          [] ~begins /\ ~e.hasSync /\ known # {} ->
                [seen EXCEPT !.hasSync = TRUE,
                             !.toothCurrentCount = (CHOOSE w \in known : TRUE)[2]]
          [] ~begins /\ ~e.hasSync /\ known = {} ->
                IF Cylinders = 4 THEN SyncLost(seen) ELSE seen
          [] ~begins /\ e.hasSync ->
                IF config.resync /\ Cylinders = 4 /\ duration \in 15 .. 17
                THEN [seen EXCEPT !.toothCurrentCount = 16] ELSE seen

\* Subaru 6/7: groups of cam teeth between every three of the crank.
GroupSubaru67(e) ==
    LET count == IF e.toothCurrentCount > 12
                 THEN e.toothCurrentCount % 12 ELSE e.toothCurrentCount
        t == [e EXCEPT !.toothCurrentCount = count, !.secondaryToothCount = 0]
    IN  CASE e.secondaryToothCount \in {0, 1} -> t
          [] e.secondaryToothCount = 2 -> [t EXCEPT !.toothCurrentCount = 8]
          [] e.secondaryToothCount = 3 ->
                IF count = 2 THEN [t EXCEPT !.hasSync = TRUE] ELSE t
          [] e.secondaryToothCount > 3 ->
                SyncLost([t EXCEPT !.hasSync = FALSE,
                                   !.triggerToothAngleIsCorrect = FALSE])

PriSubaru67(e) ==
    LET seen == Recorded([e EXCEPT !.toothCurrentCount = Counted(@),
                                   !.toothSystemCount = Least(@ + 1, 4)])
        grouped == IF ~e.hasSync \/ config.resync THEN GroupSubaru67(seen) ELSE seen
        before == grouped.toothCurrentCount
        released == CASE LockedCranking /\ before \in {1, 7} -> Release(grouped, {1, 3})
                      [] LockedCranking /\ before \in {4, 10} -> Release(grouped, {2, 4})
                      [] ~(LockedCranking /\ before \in {1, 4, 7, 10}) -> grouped
        counted == IF before > 12 THEN AtToothOne(released) ELSE released
        count == counted.toothCurrentCount
        timed == [counted EXCEPT
                    !.triggerToothAngleIsCorrect = TRUE,
                    !.triggerToothAngle = CASE count = 1 -> 55
                                            [] count = 2 -> 93
                                            [] count > 2 -> ToothGap(count)]
    IN  CASE ~grouped.hasSync -> grouped
          [] grouped.hasSync /\ Cranking -> timed
          [] grouped.hasSync /\ ~Cranking ->
                IF Sequential THEN CheckTiming(timed, Angles[count], count)
                ELSE CheckTiming(timed, ignitionLimits(Angles[count]),
                                 IF count > 6 THEN count - 6 ELSE count)

SecSubaru67(e) ==
    LET gap == Since(e, "toothLastSecToothTime")
        pulses == Least(e.secondaryToothCount + 1, 4)
    IN  CASE e.toothSystemCount \in {0, 3} /\ gap > e.triggerSecFilterTime ->
                [e EXCEPT !.toothLastSecToothTime = 0, !.secondaryToothCount = pulses,
                          !.toothSystemCount = 0,
                          !.triggerSecFilterTime = IF pulses > 1 THEN gap \div 4 ELSE 0]
          [] e.toothSystemCount \in {0, 3} /\ gap <= e.triggerSecFilterTime -> e
          [] e.toothSystemCount \in {1, 2} -> e
          [] e.toothSystemCount > 3 ->
                [e EXCEPT !.toothSystemCount = 0, !.secondaryToothCount = 1]

-----------------------------------------------------------------------------
(***************************************************************************)
(* The handlers that initialiseTriggers() attaches.                        *)
(***************************************************************************)

PrimaryPulse(e) ==
    CASE Decoder \in {"DualWheel", "non360"} -> PriDualWheel(e)
      [] Decoder = "BasicDistributor" -> PriBasicDistributor(e)
      [] Decoder = "GM7X" -> PriGM7X(e)
      [] Decoder = "4G63" -> Pri4G63(e)
      [] Decoder = "24X" -> Pri24X(e)
      [] Decoder = "Jeep2000" -> PriJeep2000(e)
      [] Decoder = "Audi135" -> PriAudi135(e)
      [] Decoder = "HondaD17" -> PriHondaD17(e)
      [] Decoder = "Miata9905" -> PriMiata9905(e)
      [] Decoder = "MazdaAU" -> PriMazdaAU(e)
      [] Decoder = "Nissan360" -> PriNissan360(e)
      [] Decoder = "Subaru67" -> PriSubaru67(e)
      [] Decoder = "Daihatsu" -> PriDaihatsu(e)
      [] Decoder = "Harley" -> PriHarley(e)
      [] Decoder = "ThirtySixMinus222" -> PriThirtySixMinus222(e)

SecondaryPulse(e) ==
    CASE Decoder \in {"DualWheel", "non360"} -> SecDualWheel(e)
      [] Decoder = "4G63" -> Sec4G63(e)
      [] Decoder = "24X" -> Sec24X(e)
      [] Decoder = "Jeep2000" -> SecJeep2000(e)
      [] Decoder = "Audi135" -> SecAudi135(e)
      [] Decoder = "Miata9905" -> SecMiata9905(e)
      [] Decoder = "MazdaAU" -> SecMazdaAU(e)
      [] Decoder = "Nissan360" -> SecNissan360(e)
      [] Decoder = "Subaru67" -> SecSubaru67(e)
      [] OTHER -> e

\* triggerSetup_...(): what each of them assigns.  It runs when the program
\* starts and whenever the engine has stalled.
ToothAngle(a) == [triggerToothAngle |-> a]
ToothCount(n) == [toothCurrentCount |-> n]
AngleCorrect == [triggerToothAngleIsCorrect |-> TRUE]
Filter == [triggerFilterTime |-> InitialFilter]
SecFilter == [triggerSecFilterTime |-> InitialFilter]
NoCam == [secondaryToothCount |-> 0]

triggerSetup_DualWheel ==
    ToothAngle(360 \div config.teeth) @@ ToothCount(NoTooth) @@ AngleCorrect @@ Filter @@ SecFilter
triggerSetup_non360 ==
    ToothAngle((360 * config.multiplier) \div config.teeth) @@ ToothCount(NoTooth) @@ Filter @@ SecFilter
triggerSetup_BasicDistributor ==
    ToothAngle(720 \div Cylinders) @@ ToothCount(0) @@ AngleCorrect @@ [triggerFilterTime |-> 0]
triggerSetup_GM7X == ToothAngle(60)
triggerSetup_4G63 == ToothAngle(180) @@ ToothCount(NoTooth) @@ AngleCorrect @@ Filter @@ SecFilter
triggerSetup_24X == ToothAngle(15) @@ AngleCorrect
triggerSetup_Jeep2000 == ToothAngle(0) @@ AngleCorrect
triggerSetup_Audi135 ==
    ToothAngle(8) @@ ToothCount(NoTooth) @@ AngleCorrect @@ Filter @@ SecFilter @@ [toothSystemCount |-> 0]
triggerSetup_HondaD17 == ToothAngle(30)
triggerSetup_Miata9905 ==
    ToothAngle(90) @@ ToothCount(NoTooth) @@ AngleCorrect @@ Filter
    @@ [triggerSecFilterTime |-> 0, toothLastMinusOneToothTime |-> Never]
triggerSetup_MazdaAU == ToothAngle(108) @@ ToothCount(NoTooth) @@ NoCam @@ Filter @@ SecFilter
triggerSetup_Nissan360 == ToothAngle(2) @@ ToothCount(1) @@ NoCam @@ Filter @@ SecFilter
triggerSetup_Subaru67 ==
    ToothAngle(2) @@ ToothCount(1) @@ NoCam @@ Filter
    @@ [triggerSecFilterTime |-> 0, toothSystemCount |-> 0, triggerToothAngleIsCorrect |-> FALSE]
triggerSetup_Daihatsu == ToothAngle(720 \div (Cylinders + 1)) @@ Filter
triggerSetup_Harley == ToothAngle(0) @@ Filter
triggerSetup_ThirtySixMinus222 ==
    ToothAngle(10) @@ ToothCount(0) @@ Filter
    @@ [toothLastMinusOneToothTime |-> Never, toothOneTime |-> Never,
        toothOneMinusOneTime |-> Never]

SetupValues ==
    CASE Decoder = "DualWheel" -> triggerSetup_DualWheel
      [] Decoder = "non360" -> triggerSetup_non360
      [] Decoder = "BasicDistributor" -> triggerSetup_BasicDistributor
      [] Decoder = "GM7X" -> triggerSetup_GM7X
      [] Decoder = "4G63" -> triggerSetup_4G63
      [] Decoder = "24X" -> triggerSetup_24X
      [] Decoder = "Jeep2000" -> triggerSetup_Jeep2000
      [] Decoder = "Audi135" -> triggerSetup_Audi135
      [] Decoder = "HondaD17" -> triggerSetup_HondaD17
      [] Decoder = "Miata9905" -> triggerSetup_Miata9905
      [] Decoder = "MazdaAU" -> triggerSetup_MazdaAU
      [] Decoder = "Nissan360" -> triggerSetup_Nissan360
      [] Decoder = "Subaru67" -> triggerSetup_Subaru67
      [] Decoder = "Daihatsu" -> triggerSetup_Daihatsu
      [] Decoder = "Harley" -> triggerSetup_Harley
      [] Decoder = "ThirtySixMinus222" -> triggerSetup_ThirtySixMinus222

\* The variables as the program defines them.
Zeroed ==
    [f \in Stamps |-> Never] @@
    [toothCurrentCount |-> 0, secondaryToothCount |-> 0, toothSystemCount |-> 0,
     hasSync |-> FALSE, revolutionOne |-> FALSE, startRevolutions |-> 0,
     syncLossCounter |-> 0, triggerFilterTime |-> 0, triggerSecFilterTime |-> 0,
     curGap |-> 0, curGap2 |-> 0, targetGap |-> 0, lastVVTtime |-> 0,
     triggerToothAngle |-> 0, triggerToothAngleIsCorrect |-> FALSE,
     uptime |-> config.uptime, crankHigh |-> FALSE, camHigh |-> FALSE,
     check |-> None, released |-> {}]

\* Once, when the program starts, some decoders take the time, which is taken
\* back when no tooth has come by the stall time, and two set a count that says
\* that the cam has not been seen.
Started ==
    LET clock == IF Decoder \in {"4G63", "24X", "Jeep2000", "Miata9905", "Harley"}
                    /\ config.uptime < Long
                 THEN [toothLastToothTime |-> config.uptime] ELSE <<>>
        count == IF Decoder \in {"24X", "Jeep2000"}
                 THEN [toothCurrentCount |-> NotSeen] ELSE <<>>
    IN  clock @@ count @@ SetupValues @@ Zeroed

\* The main loop finds that the last tooth is MAX_STALL_TIME old.  A decoder that
\* keeps no time before it has sync leaves it at 0, and the age is the program's.
TeethAreOld(e) == Since(e, "toothLastToothTime") >= Long

\* What it then assigns, and initialiseTriggers().
Stalled(e) ==
    SetupValues @@
    [e EXCEPT !.toothLastToothTime = Never, !.toothLastSecToothTime = Never,
              !.hasSync = FALSE, !.startRevolutions = 0,
              !.toothSystemCount = 0, !.secondaryToothCount = 0]

-----------------------------------------------------------------------------
(***************************************************************************)
(* getRPM(): how long a revolution takes at the speed that is returned, or *)
(* 0 when that is 0.                                                       *)
(***************************************************************************)

\* Mutant: the time between two teeth #1 is that of a revolution on every wheel.
OneRevolutionGetRPM(e, degreesOver) ==
    IF ~e.hasSync \/ Never \in {e.toothOneTime, e.toothOneMinusOneTime}
    THEN 0 ELSE e.toothOneMinusOneTime - e.toothOneTime

stdGetRPM(e, degreesOver) ==
    IF \/ ~e.hasSync
       \/ BelowCrankRPM /\ e.startRevolutions = 0
       \/ Never \in {e.toothOneTime, e.toothOneMinusOneTime}
    THEN 0
    ELSE (e.toothOneMinusOneTime - e.toothOneTime) \div (degreesOver \div 360)

TeethKnown(e) == Never \notin {e.toothLastToothTime, e.toothLastMinusOneToothTime}

crankingGetRPM(e, totalTeeth) ==
    IF e.startRevolutions >= config.StgCycles /\ e.hasSync /\ TeethKnown(e)
    THEN LastInterval(e) * totalTeeth ELSE 0

\* From the last interval and the angle it is thought to cover.
UnevenGetRPM(e, degrees) ==
    IF TeethKnown(e) /\ e.triggerToothAngle > 0
    THEN (LastInterval(e) * degrees) \div e.triggerToothAngle ELSE 0

getRPM_DualWheel(e) ==
    IF BelowCrankRPM THEN crankingGetRPM(e, config.teeth) ELSE stdGetRPM(e, 360)

getRPM_non360(e) ==
    IF ~e.hasSync \/ e.toothCurrentCount = 0 THEN 0 ELSE getRPM_DualWheel(e)

\* Half of the speed, where half of the number of teeth was meant.
getRPM_BasicDistributor(e) ==
    IF BelowCrankRPM THEN crankingGetRPM(e, Cylinders) * 2 ELSE stdGetRPM(e, 720)

getRPM_4G63(e) ==
    IF BelowCrankRPM /\ e.hasSync THEN UnevenGetRPM(e, 360) ELSE stdGetRPM(e, 720)

getRPM_Miata9905(e) ==
    IF BelowCrankRPM /\ e.hasSync THEN UnevenGetRPM(e, 360) ELSE stdGetRPM(e, 720)

\* The factor is 60000000 where others have 6000000.
getRPM_MazdaAU(e) ==
    IF BelowCrankRPM /\ e.hasSync THEN UnevenGetRPM(e, 36) ELSE stdGetRPM(e, 360)

getRPM_Nissan360(e) ==
    IF ~e.hasSync \/ ~TeethKnown(e) THEN 0
    ELSE IF e.startRevolutions < 2 THEN LastInterval(e) * 180
    ELSE (e.toothOneMinusOneTime - e.toothOneTime) \div 2

getRPM_Subaru67(e) == IF e.startRevolutions > 0 THEN stdGetRPM(e, 720) ELSE 0

getRPM_Harley(e) ==
    IF BelowCrankRPM /\ e.hasSync THEN UnevenGetRPM(e, 360) ELSE stdGetRPM(e, 360)

\* At tooth #1 a cranking speed is kept; after the other gaps it is a third.
getRPM_ThirtySixMinus222(e) ==
    IF ~BelowCrankRPM THEN stdGetRPM(e, 360)
    ELSE IF e.toothCurrentCount = 1 THEN 0 ELSE crankingGetRPM(e, config.teeth)

RevolutionTime(e) ==
    CASE Decoder = "DualWheel" -> getRPM_DualWheel(e)
      [] Decoder = "non360" -> getRPM_non360(e)
      [] Decoder = "BasicDistributor" -> getRPM_BasicDistributor(e)
      [] Decoder \in {"GM7X", "24X", "Jeep2000", "Audi135", "HondaD17"} -> stdGetRPM(e, 360)
      [] Decoder = "4G63" -> getRPM_4G63(e)
      [] Decoder = "Miata9905" -> getRPM_Miata9905(e)
      [] Decoder = "MazdaAU" -> getRPM_MazdaAU(e)
      [] Decoder = "Nissan360" -> getRPM_Nissan360(e)
      [] Decoder = "Subaru67" -> getRPM_Subaru67(e)
      [] Decoder = "Daihatsu" -> stdGetRPM(e, 720)
      [] Decoder = "Harley" -> getRPM_Harley(e)
      [] Decoder = "ThirtySixMinus222" -> getRPM_ThirtySixMinus222(e)

-----------------------------------------------------------------------------
(***************************************************************************)
(* getCrankAngle(): the angle of the last tooth and what the crank has     *)
(* turned since.  pace is the time per degree.                             *)
(***************************************************************************)

\* timeToAngle() by the time of a revolution, and by that of the last interval
\* when the angle it covers is known.
ByRevolution(e, pace) == Since(e, "toothLastToothTime") \div pace

ByTooth(e, pace) ==
    IF e.triggerToothAngleIsCorrect
    THEN (Since(e, "toothLastToothTime") * e.triggerToothAngle) \div LastInterval(e)
    ELSE ByRevolution(e, pace)

Second(e) == IF e.revolutionOne THEN 360 ELSE 0

\* The angle of a tooth of an even wheel; the one before #1 is the last
\* of this many.
EvenTooth(e, teeth) ==
    ((IF e.toothCurrentCount = 0 THEN teeth ELSE e.toothCurrentCount) - 1)
        * e.triggerToothAngle

getCrankAngle_DualWheel(e, pace) ==
    EvenTooth(e, config.teeth) + Second(e) + ByRevolution(e, pace)
getCrankAngle_non360(e, pace) ==
    EvenTooth(e, config.teeth) \div config.multiplier + ByRevolution(e, pace)
getCrankAngle_BasicDistributor(e, pace) == EvenTooth(e, 0) + ByTooth(e, pace)
getCrankAngle_GM7X(e, pace) ==
    LET n == e.toothCurrentCount
        last == IF n = 3 THEN 112
                ELSE (n - (IF n < 3 THEN 1 ELSE 2)) * e.triggerToothAngle + 42
    IN  last + ByRevolution(e, pace)
getCrankAngle_4G63(e, pace) == TableAngle(e.toothCurrentCount) + ByTooth(e, pace)

\* After an edge of the cam the time since is still that since a tooth.
getCrankAngle_24X(e, pace) ==
    (IF e.toothCurrentCount = 0 THEN 0 ELSE TableAngle(e.toothCurrentCount))
    + Second(e) + ByRevolution(e, pace)
getCrankAngle_Jeep2000(e, pace) ==
    (IF e.toothCurrentCount = 0 THEN 146 ELSE TableAngle(e.toothCurrentCount))
    + ByRevolution(e, pace)
getCrankAngle_Audi135(e, pace) == EvenTooth(e, 45) + Second(e) + ByRevolution(e, pace)
getCrankAngle_HondaD17(e, pace) == EvenTooth(e, 12) + ByRevolution(e, pace)
getCrankAngle_Miata9905(e, pace) == TableAngle(e.toothCurrentCount) + ByRevolution(e, pace)
getCrankAngle_MazdaAU(e, pace) == TableAngle(e.toothCurrentCount) + ByRevolution(e, pace)

\* A degree is added after half a tooth, the teeth are that close.
getCrankAngle_Nissan360(e) == (e.toothCurrentCount - 1) * 2
getCrankAngle_Subaru67(e, pace) == TableAngle(e.toothCurrentCount) + ByTooth(e, pace)
getCrankAngle_Daihatsu(e, pace) == TableAngle(e.toothCurrentCount) + ByRevolution(e, pace)
getCrankAngle_Harley(e, pace) ==
    (IF e.toothCurrentCount \in {1, 3} THEN 0 ELSE 157) + ByRevolution(e, pace)
getCrankAngle_ThirtySixMinus222(e, pace) ==
    EvenTooth(e, 0) + Second(e) + ByRevolution(e, pace)

DecoderAngle(e, pace) ==
    CASE Decoder = "DualWheel" -> getCrankAngle_DualWheel(e, pace)
      [] Decoder = "non360" -> getCrankAngle_non360(e, pace)
      [] Decoder = "BasicDistributor" -> getCrankAngle_BasicDistributor(e, pace)
      [] Decoder = "GM7X" -> getCrankAngle_GM7X(e, pace)
      [] Decoder = "4G63" -> getCrankAngle_4G63(e, pace)
      [] Decoder = "24X" -> getCrankAngle_24X(e, pace)
      [] Decoder = "Jeep2000" -> getCrankAngle_Jeep2000(e, pace)
      [] Decoder = "Audi135" -> getCrankAngle_Audi135(e, pace)
      [] Decoder = "HondaD17" -> getCrankAngle_HondaD17(e, pace)
      [] Decoder = "Miata9905" -> getCrankAngle_Miata9905(e, pace)
      [] Decoder = "MazdaAU" -> getCrankAngle_MazdaAU(e, pace)
      [] Decoder = "Nissan360" -> getCrankAngle_Nissan360(e)
      [] Decoder = "Subaru67" -> getCrankAngle_Subaru67(e, pace)
      [] Decoder = "Daihatsu" -> getCrankAngle_Daihatsu(e, pace)
      [] Decoder = "Harley" -> getCrankAngle_Harley(e, pace)
      [] Decoder = "ThirtySixMinus222" -> getCrankAngle_ThirtySixMinus222(e, pace)

\* All end by taking the angle back into a cycle.
getCrankAngle(e, pace) ==
    LET turned == DecoderAngle(e, pace)
        cycle == IF turned >= 720 THEN turned - 720 ELSE turned
    IN  IF cycle > CRANK_ANGLE_MAX THEN cycle - CRANK_ANGLE_MAX ELSE cycle
=============================================================================
