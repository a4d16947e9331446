------------------------- MODULE MissingTooth_proof -------------------------
(***************************************************************************)
(* Proofs about MissingTooth for every wheel, filter, speed and kind of    *)
(* trouble: type correctness, and that a decoder in sync never counts a    *)
(* tooth the wheel does not have.                                          *)
(***************************************************************************)
EXTENDS MissingTooth, TLAPS

USE WheelAssumption, TimeAssumption, BoundAssumption
USE DEF Never, Times, wheel, primary, status, secondary, mainLoop

\* There is a tooth.
LEMMA ATooth ==
  ASSUME config \in Configs PROVE triggerActualTeeth \in Nat \ {0}
  <1>1. config.missing \in 1 .. Teeth - 1
    BY DEF Config
  <1> QED
    BY <1>1 DEF triggerActualTeeth, Missing

\* The wheel does not change.
LEMMA SameWheel ==
  ASSUME config' = config
  PROVE  triggerActualTeeth' = triggerActualTeeth /\ Slots' = Slots
  BY DEF triggerActualTeeth, Missing, Slots, Sequential

LEMMA SameConfig == [Next]_vars => config' = config
  BY DEF Next, Turn, NotePulse, LosePulse, Noise, Stop, CamTooth, UpdateRPM,
         StallBranch, FindStalled, ForgetTeeth, ForgetSync, SetUpTrigger, vars

\* A filter time is a length of time.
LEMMA FilterType ==
  ASSUME NEW gap \in Nat, config \in Configs PROVE FilterFor(gap) \in Nat
  <1>1. /\ gap \div 4 \in Nat
        /\ gap \div 2 \in Nat
        /\ (gap * 3) \div 4 \in Nat
    OBVIOUS
  <1>2. config.filter \in 0 .. 3
    BY DEF Config
  <1> QED
    BY <1>1, <1>2 DEF FilterFor

\* A gap is unknown exactly as long as no tooth was recorded.
LEMMA GapType ==
  ASSUME TypeOK, NEW t \in Nat
  PROVE  /\ GapAfter(t) \in Times \cup {Never}
         /\ GapAfter(t) = Never <=> sinceLast = Never
  BY DEF TypeOK, GapAfter, Capped

\* The count stays within its bound.
LEMMA CountType == ASSUME TypeOK PROVE Count \in 1 .. triggerActualTeeth + 1
  BY ATooth DEF TypeOK, Count

\* The types of the variables that a pulse changes.
PulseTypes ==
    /\ sinceLast \in Times \cup {Never}
    /\ lastGap \in Times \cup {Never}
    /\ toothCurrentCount \in 0 .. triggerActualTeeth + 1
    /\ triggerFilterTime \in Nat
    /\ hasSync \in BOOLEAN
    /\ startRevolutions \in 0 .. MaxRevolutions
    /\ syncLossCounter \in 0 .. MaxLosses
    /\ revolutionOne \in BOOLEAN
    /\ secondarySeen \in BOOLEAN

\* A pulse keeps them.
LEMMA PulseType ==
  ASSUME TypeOK, NEW gap \in Times \cup {Never},
         gap = Never <=> sinceLast = Never,
         PrimaryPulse(gap), config' = config
  PROVE  PulseTypes'
  <1> USE SameWheel DEF TypeOK, PulseTypes
  <1>1. CASE IgnorePulse(gap)
    BY <1>1 DEF IgnorePulse, Filtered
  <1>2. CASE FirstTeeth(gap)
    BY <1>2, CountType DEF FirstTeeth, RecordTooth
  <1>3. CASE RegularTooth(gap)
    <2>1. gap \in Nat
      BY <1>3 DEF RegularTooth, EnoughTeeth
    <2>2. FilterFor(gap) \in Nat
      BY <2>1, FilterType
    <2> QED
      BY <1>3, <2>2, CountType DEF RegularTooth, RecordTooth
  <1>4. CASE LoseSync(gap)
    <2>1. /\ toothCurrentCount' \in 0 .. triggerActualTeeth + 1
          /\ syncLossCounter' \in 0 .. MaxLosses
      BY <1>4, CountType DEF LoseSync
    <2>2. sinceLast' \in Times
      BY <1>4 DEF LoseSync, EnoughTeeth
    <2> QED
      BY <1>4, <2>1, <2>2 DEF LoseSync
  <1>5. CASE ToothOne(gap)
    <2>1. RevolutionsAfter \in 0 .. MaxRevolutions
      BY DEF RevolutionsAfter
    <2>2. /\ sinceLast' \in Times
          /\ lastGap' \in Times \cup {Never}
          /\ toothCurrentCount' \in 0 .. triggerActualTeeth + 1
          /\ triggerFilterTime' \in Nat
      BY <1>5, ATooth DEF ToothOne, RecordTooth
    <2>3. /\ startRevolutions' \in 0 .. MaxRevolutions
          /\ syncLossCounter' \in 0 .. MaxLosses
      BY <1>5, <2>1 DEF ToothOne
    <2>4. revolutionOne' \in BOOLEAN
      BY <1>5 DEF ToothOne
    <2>5. secondarySeen' \in BOOLEAN
      BY <1>5 DEF ToothOne
    <2>6. hasSync' \in BOOLEAN
      BY <1>5 DEF ToothOne
    <2> QED
      BY <2>2, <2>3, <2>4, <2>5, <2>6
  <1> QED
    <2> HIDE DEF TypeOK, Times, Never
    <2> QED
      BY <1>1, <1>2, <1>3, <1>4, <1>5 DEF PrimaryPulse

-----------------------------------------------------------------------------
(***************************************************************************)
(* TypeOK in two halves, for the provers' sake: flags and values.          *)
(***************************************************************************)
FlagsOK ==
    /\ camPassed \in BOOLEAN /\ hasSync \in BOOLEAN
    /\ revolutionOne \in BOOLEAN
    /\ secondarySeen \in BOOLEAN /\ secondaryKnown \in BOOLEAN
    /\ hit \in BOOLEAN

ValuesOK ==
    /\ config \in Configs
    /\ slot \in Slots
    /\ into \in Nat /\ \A t \in ToothTimes : into <= t
    /\ faults \in Nat /\ stops \in Nat /\ faults + stops <= MaxTrouble
    /\ sinceLast \in Times \cup {Never}
    /\ lastGap \in Times \cup {Never}
    /\ toothCurrentCount \in 0 .. triggerActualTeeth + 1
    /\ triggerFilterTime \in Nat
    /\ startRevolutions \in 0 .. MaxRevolutions
    /\ syncLossCounter \in 0 .. MaxLosses
    /\ RPM \in {"crank", "run", "fast"}
    /\ pc \in {"running", "stalled", "forgot", "reset"}

LEMMA TypeHalves == TypeOK <=> FlagsOK /\ ValuesOK
  BY Zenon DEF TypeOK, FlagsOK, ValuesOK

LEMMA TypeInit == Init => TypeOK
  <1> SUFFICES ASSUME Init PROVE TypeOK
    OBVIOUS
  <1>1. FlagsOK
    BY Zenon DEF Init, FlagsOK
  <1>2. ValuesOK
    BY ATooth DEF Init, ValuesOK
  <1> QED
    BY <1>1, <1>2, TypeHalves

\* The wheel moves to a slot it has.
LEMMA MoveType ==
  ASSUME TypeOK, MoveOn
  PROVE  slot' \in Slots /\ into' = 0 /\ camPassed' = FALSE
  BY DEF TypeOK, MoveOn, Slots

LEMMA TypeStep == TypeOK /\ [Next]_vars => TypeOK'
  <1> SUFFICES ASSUME TypeOK, [Next]_vars PROVE TypeOK'
    OBVIOUS
  <1>0. FlagsOK
    BY TypeHalves
  <1>c. /\ config' = config /\ config' \in Configs
        /\ triggerActualTeeth' = triggerActualTeeth /\ Slots' = Slots
    BY SameConfig, SameWheel DEF TypeOK
  <1> USE <1>c
  <1>1. ASSUME NEW t \in ToothTimes, Turn(t) PROVE TypeOK'
    <2>1. t - into \in Nat
      BY DEF TypeOK
    <2>2. slot' \in Slots /\ into' = 0 /\ camPassed' = FALSE
      BY <1>1, MoveType DEF Turn
    <2>3. CASE IsTooth(slot')
      <3>1. PrimaryPulse(GapAfter(t - into))
        BY <1>1, <2>3 DEF Turn
      <3> DEFINE gap == GapAfter(t - into)
      <3>2. gap \in Times \cup {Never} /\ (gap = Never <=> sinceLast = Never)
        BY <2>1, GapType
      <3> HIDE DEF Times, Never, gap
      <3>3. PulseTypes'
        BY <3>1, <3>2, PulseType DEF gap
      <3>4. FlagsOK'
        <4>1. hit' = (pc # "running") /\ secondaryKnown' = secondaryKnown
          BY <1>1 DEF Turn, NotePulse
        <4> QED
          BY <1>0, <2>2, <3>3, <4>1, Zenon DEF FlagsOK, PulseTypes
      <3>5. ValuesOK'
        BY <1>1, <2>2, <3>3 DEF TypeOK, ValuesOK, Turn, NotePulse, PulseTypes
      <3> QED
        BY <3>4, <3>5, Zenon DEF TypeOK, FlagsOK, ValuesOK
    <2>4. CASE ~IsTooth(slot')
      <3>1. sinceLast' \in Times \cup {Never}
        BY <1>1, <2>1, <2>4, GapType DEF Turn
      <3>2. FlagsOK'
        <4>1. /\ hit' = (pc # "running")
              /\ UNCHANGED <<hasSync, revolutionOne, secondarySeen, secondaryKnown>>
          BY <1>1, <2>4 DEF Turn, NotePulse
        <4> QED
          BY <1>0, <2>2, <4>1, Zenon DEF FlagsOK
      <3>3. ValuesOK'
        BY <1>1, <2>2, <2>4, <3>1 DEF TypeOK, ValuesOK, Turn, NotePulse
      <3> QED
        BY <3>2, <3>3, Zenon DEF TypeOK, FlagsOK, ValuesOK
    <2> QED
      BY <2>3, <2>4
  <1>2. ASSUME NEW t \in ToothTimes, LosePulse(t) PROVE TypeOK'
    <2>1. t - into \in Nat
      BY DEF TypeOK
    <2>2. slot' \in Slots /\ into' = 0 /\ camPassed' = FALSE
      BY <1>2, MoveType DEF LosePulse
    <2>3. sinceLast' \in Times \cup {Never}
      BY <1>2, <2>1, GapType DEF LosePulse
    <2>4. FlagsOK'
      <3>1. UNCHANGED <<hasSync, revolutionOne, secondarySeen, secondaryKnown, hit>>
        BY <1>2 DEF LosePulse
      <3> QED
        BY <1>0, <2>2, <3>1, Zenon DEF FlagsOK
    <2>5. ValuesOK'
      BY <1>2, <2>2, <2>3 DEF TypeOK, ValuesOK, LosePulse, Fault
    <2> QED
      BY <2>4, <2>5, Zenon DEF TypeOK, FlagsOK, ValuesOK
  <1>3. ASSUME NEW t \in 1 .. StallTime, Noise(t) PROVE TypeOK'
    <2>1. into' \in Nat /\ \A u \in ToothTimes : into' <= u
      BY <1>3 DEF TypeOK, Noise
    <2>2. /\ faults' \in Nat /\ stops' \in Nat /\ faults' + stops' <= MaxTrouble
          /\ config' = config
      BY <1>3 DEF TypeOK, Noise, NotePulse, Fault
    <2>3. PrimaryPulse(GapAfter(t))
      BY <1>3 DEF Noise
    <2> DEFINE gap == GapAfter(t)
    <2>4. gap \in Times \cup {Never} /\ (gap = Never <=> sinceLast = Never)
      BY GapType
    <2> HIDE DEF Times, Never, gap
    <2>5. PulseTypes'
      BY <2>3, <2>4, PulseType DEF gap
    <2> QED
      BY <1>3, <2>1, <2>2, <2>5 DEF TypeOK, Noise, NotePulse, PulseTypes
  <1>4. CASE Stop
    BY <1>4 DEF TypeOK, Stop, Fault
  <1>5. CASE CamTooth
    BY <1>5, ZenonT(60) DEF TypeOK, CamTooth
  <1>6. CASE UpdateRPM
    BY <1>6 DEF TypeOK, UpdateRPM
  <1>7. CASE StallBranch
    <2>1. CASE FindStalled
      BY <2>1 DEF TypeOK, FindStalled
    <2>2. CASE ForgetTeeth
      BY <2>2 DEF TypeOK, ForgetTeeth
    <2>3. CASE ForgetSync
      <3>1. FlagsOK'
        <4>1. /\ UNCHANGED <<camPassed, revolutionOne, secondaryKnown, hit>>
              /\ hasSync' = FALSE /\ secondarySeen' = FALSE
          BY <2>3 DEF ForgetSync
        <4> QED
          BY <1>0, <4>1, Zenon DEF FlagsOK
      <3>2. ValuesOK'
        BY <2>3 DEF TypeOK, ValuesOK, ForgetSync
      <3> QED
        BY <3>1, <3>2, Zenon DEF TypeOK, FlagsOK, ValuesOK
    <2>4. CASE SetUpTrigger
      <3>1. FlagsOK'
        <4>1. /\ UNCHANGED <<camPassed, hasSync, revolutionOne, secondaryKnown>>
              /\ hit' = FALSE
              /\ secondarySeen' = secondarySeen \/ secondarySeen' = FALSE
          BY <2>4 DEF SetUpTrigger
        <4> QED
          BY <1>0, <4>1, Zenon DEF FlagsOK
      <3>2. ValuesOK'
        BY <2>4, ATooth DEF TypeOK, ValuesOK, SetUpTrigger
      <3> QED
        BY <3>1, <3>2, Zenon DEF TypeOK, FlagsOK, ValuesOK
    <2> QED
      BY <1>7, <2>1, <2>2, <2>3, <2>4 DEF StallBranch
  <1>8. CASE UNCHANGED vars
    BY <1>8 DEF TypeOK, vars
  <1> QED
    BY <1>1, <1>2, <1>3, <1>4, <1>5, <1>6, <1>7, <1>8 DEF Next

\* Every state is one of the types given, for every wheel.
THEOREM TypeCorrect == Spec => []TypeOK
  BY TypeInit, TypeStep, PTL DEF Spec

-----------------------------------------------------------------------------
(***************************************************************************)
(* That the count of a decoder in sync is a tooth of the wheel rests on    *)
(* the time stamps: with sync there are two of them, so that the count is  *)
(* looked at on every pulse; and while the stall branch runs there are not *)
(* two of them any more, so that no pulse gives sync to a count that is    *)
(* about to be set to zero.                                                *)
(***************************************************************************)
SyncHasTimes ==
    hasSync /\ pc \in {"running", "stalled"} => EnoughTeeth

NoSyncInReset == pc = "reset" => ~hasSync

StallForgets ==
    pc \in {"forgot", "reset"} =>
        sinceLast = Never \/ (lastGap = Never /\ hit)

SyncInv ==
    /\ TypeOK
    /\ SyncedCountIsATooth
    /\ SyncHasTimes
    /\ NoSyncInReset
    /\ StallForgets

\* What a pulse does to a count that is right.
LEMMA PulseSync ==
  ASSUME SyncInv, NEW gap \in Times \cup {Never},
         gap = Never <=> sinceLast = Never,
         MayPulse, PrimaryPulse(gap), NotePulse
  PROVE  /\ SyncedCountIsATooth' /\ SyncHasTimes'
         /\ NoSyncInReset' /\ StallForgets'
  <1>c. config' = config /\ triggerActualTeeth' = triggerActualTeeth
    BY SameWheel DEF NotePulse
  <1> USE <1>c
  <1> USE DEF SyncInv, TypeOK, SyncedCountIsATooth, SyncHasTimes,
              NoSyncInReset, StallForgets, EnoughTeeth, MayPulse, NotePulse
  <1>1. CASE IgnorePulse(gap)
    BY <1>1 DEF IgnorePulse, Filtered
  <1>2. CASE FirstTeeth(gap)
    BY <1>2 DEF FirstTeeth, RecordTooth
  <1>3. CASE RegularTooth(gap)
    <2>1. hasSync => Count <= triggerActualTeeth
      <3>n. triggerActualTeeth \in Nat \ {0}
        BY ATooth
      <3>1. CASE Detecting
        <4>1. ~(Count > triggerActualTeeth)
          BY <1>3, <3>1 DEF RegularTooth, AfterMissing
        <4>2. Count \in Nat
          BY <3>n, CountType
        <4> QED
          BY <3>n, <4>1, <4>2
      <3>2. CASE ~Detecting
        <4>1. Count < triggerActualTeeth \div 2
          BY <3>2, <3>n, CountType DEF Detecting
        <4> QED
          BY <4>1, <3>n, CountType
      <3> QED
        BY <3>1, <3>2
    <2> QED
      BY <1>3, <2>1, CountType DEF RegularTooth, RecordTooth
  <1>4. CASE LoseSync(gap)
    BY <1>4 DEF LoseSync
  <1>5. CASE ToothOne(gap)
    BY <1>5, ATooth DEF ToothOne, RecordTooth
  <1> QED
    BY <1>1, <1>2, <1>3, <1>4, <1>5 DEF PrimaryPulse

LEMMA SyncInit == Init => SyncInv
  BY TypeInit
  DEF Init, SyncInv, SyncedCountIsATooth, SyncHasTimes, NoSyncInReset, StallForgets

LEMMA SyncStep == SyncInv /\ [Next]_vars => SyncInv'
  <1> SUFFICES ASSUME SyncInv, [Next]_vars PROVE SyncInv'
    OBVIOUS
  <1>0. TypeOK /\ TypeOK'
    BY TypeStep DEF SyncInv
  <1>c. config' = config /\ triggerActualTeeth' = triggerActualTeeth
    BY SameConfig, SameWheel
  <1> USE <1>c
  <1> USE DEF SyncInv
  <1> DEFINE Rest == /\ SyncedCountIsATooth /\ SyncHasTimes
                     /\ NoSyncInReset /\ StallForgets
  <1>1. ASSUME NEW t \in ToothTimes, Turn(t) PROVE Rest'
    <2>1. /\ GapAfter(t - into) \in Times \cup {Never}
          /\ GapAfter(t - into) = Never <=> sinceLast = Never
      BY <1>0, GapType DEF TypeOK
    <2>2. CASE IsTooth(slot')
      BY <1>1, <2>1, <2>2, PulseSync DEF Turn
    <2>3. CASE ~IsTooth(slot')
      BY <1>0, <1>1, <2>1, <2>3
      DEF Turn, MayPulse, NotePulse, SyncedCountIsATooth, SyncHasTimes,
          NoSyncInReset, StallForgets, EnoughTeeth
    <2> QED
      BY <2>2, <2>3
  <1>2. ASSUME NEW t \in ToothTimes, LosePulse(t) PROVE Rest'
    <2>1. /\ GapAfter(t - into) \in Times \cup {Never}
          /\ GapAfter(t - into) = Never <=> sinceLast = Never
      BY <1>0, GapType DEF TypeOK
    <2> QED
      BY <1>0, <1>2, <2>1
      DEF LosePulse, SyncedCountIsATooth, SyncHasTimes,
          NoSyncInReset, StallForgets, EnoughTeeth
  <1>3. ASSUME NEW t \in 1 .. StallTime, Noise(t) PROVE Rest'
    <2>1. /\ GapAfter(t) \in Times \cup {Never}
          /\ GapAfter(t) = Never <=> sinceLast = Never
      BY <1>0, GapType
    <2> QED
      BY <1>3, <2>1, PulseSync DEF Noise
  <1> USE DEF SyncedCountIsATooth, SyncHasTimes, NoSyncInReset, StallForgets,
              EnoughTeeth
  <1>4. ASSUME Stop PROVE Rest'
    BY <1>0, <1>4 DEF Stop, TypeOK
  <1>5. ASSUME CamTooth PROVE Rest'
    BY <1>5 DEF CamTooth
  <1>6. ASSUME UpdateRPM PROVE Rest'
    BY <1>6 DEF UpdateRPM
  <1>7. ASSUME StallBranch PROVE Rest'
    BY <1>7 DEF StallBranch, FindStalled, ForgetTeeth, ForgetSync, SetUpTrigger
  <1>8. ASSUME UNCHANGED vars PROVE Rest'
    BY <1>8 DEF vars
  <1> QED
    BY <1>0, <1>1, <1>2, <1>3, <1>4, <1>5, <1>6, <1>7, <1>8 DEF Next

\* A decoder in sync counts only teeth the wheel has, whatever pulses come and
\* whatever the main loop does in between, with or without a log being taken.
THEOREM SyncedCount == Spec => []SyncedCountIsATooth
  <1>1. SyncInv => SyncedCountIsATooth
    BY DEF SyncInv
  <1> QED
    BY <1>1, SyncInit, SyncStep, PTL DEF Spec
-----------------------------------------------------------------------------
(***************************************************************************)
(* A clean signal.  As long as no pulse was lost and none was noise, the   *)
(* times the decoder compares can be told from where the wheel is.         *)
(***************************************************************************)
Fastest == CHOOSE lo \in 0 .. StallTime : \E hi \in 0 .. StallTime : SteadyBetween(lo, hi)
Slowest == CHOOSE hi \in 0 .. StallTime : SteadyBetween(Fastest, hi)

\* n slots take between n times the fastest and n times the slowest.
Took(n, t) == n * Fastest <= t /\ t <= n * Slowest

At == slot % Teeth

\* How many slots have passed since the last tooth.
Behind == IF At < triggerActualTeeth THEN 0 ELSE At - triggerActualTeeth + 1

LEMMA Pace ==
  ASSUME SteadyAndStaged
  PROVE  /\ Fastest \in Nat /\ Slowest \in Nat
         /\ SteadyBetween(Fastest, Slowest) /\ StgCycles >= 1
  <1>1. \E lo \in 0 .. StallTime : \E hi \in 0 .. StallTime : SteadyBetween(lo, hi)
    BY DEF SteadyAndStaged
  <1>2. Fastest \in 0 .. StallTime /\ \E hi \in 0 .. StallTime : SteadyBetween(Fastest, hi)
    BY <1>1, Zenon DEF Fastest
  <1>3. Slowest \in 0 .. StallTime /\ SteadyBetween(Fastest, Slowest)
    BY <1>2, Zenon DEF Slowest
  <1> QED
    BY <1>2, <1>3 DEF SteadyAndStaged

\* What is known of the wheel in use.
LEMMA Margins ==
  ASSUME SteadyAndStaged, config \in Configs
  PROVE  /\ Missing \in Nat /\ Missing >= 1 /\ triggerActualTeeth \in Nat
         /\ triggerActualTeeth >= 3 /\ Teeth = triggerActualTeeth + Missing
         /\ Missing * Slowest < (Missing + 1) * Fastest
         /\ (Missing + 2) * Slowest < StallTime
         /\ 3 * Slowest < 4 * Fastest /\ InitialFilter <= Fastest
         /\ \A t \in ToothTimes : t \in Nat /\ Fastest <= t /\ t <= Slowest
  <1>1. config.missing \in 1 .. Teeth - 1
    BY DEF Config
  <1>2. SteadyBetween(Fastest, Slowest) /\ Fastest \in Nat /\ Slowest \in Nat
    BY Pace
  <1>3. /\ config.missing * Slowest < (config.missing + 1) * Fastest
        /\ (config.missing + 2) * Slowest < StallTime
        /\ Teeth - config.missing >= 3
    BY <1>2 DEF SteadyBetween
  <1>4. \A t \in ToothTimes : t \in Fastest .. Slowest
    BY <1>2 DEF SteadyBetween
  <1> QED
    BY <1>1, <1>2, <1>3, <1>4 DEF SteadyBetween, Missing, triggerActualTeeth

\* The target separates one slot from the gap.
LEMMA TargetSeparates ==
  ASSUME SteadyAndStaged, config \in Configs, lastGap \in Nat
  PROVE  /\ TargetGap \in Nat
         /\ lastGap >= Fastest => TargetGap >= Slowest
         /\ lastGap <= Slowest => TargetGap < (Missing + 1) * Fastest
  <1>1. /\ Missing \in Nat /\ Missing >= 1 /\ Fastest \in Nat /\ Slowest \in Nat
        /\ Missing * Slowest < (Missing + 1) * Fastest
        /\ 3 * Slowest < 4 * Fastest
    BY Margins, Pace
  <1>2. CASE Missing = 1
    <2>1. TargetGap = (3 * lastGap) \div 2 /\ (Missing + 1) * Fastest = 2 * Fastest
      BY <1>1, <1>2 DEF TargetGap
    <2> QED
      BY <1>1, <2>1
  <1>3. CASE Missing # 1
    <2> DEFINE m == Missing
    <2>1. TargetGap = lastGap * m /\ m \in Nat /\ m >= 2
      BY <1>1, <1>3 DEF TargetGap
    <2>2. lastGap * m \in Nat /\ lastGap * m >= 2 * lastGap
      <3> HIDE DEF m
      <3>1. \A j \in Nat : lastGap * j \in Nat
        OBVIOUS
      <3>2. lastGap * m = 2 * lastGap + lastGap * (m - 2) /\ m - 2 \in Nat
        BY <2>1
      <3> QED
        BY <2>1, <3>1, <3>2
    <2>3. lastGap <= Slowest => lastGap * m <= m * Slowest
      <3> HIDE DEF m
      <3> SUFFICES ASSUME lastGap <= Slowest PROVE lastGap * m <= m * Slowest
        OBVIOUS
      <3>1. Slowest - lastGap \in Nat
        BY <1>1
      <3>2. m * Slowest = lastGap * m + m * (Slowest - lastGap) /\ m * (Slowest - lastGap) \in Nat
        BY <1>1, <2>1, <3>1
      <3> QED
        BY <1>1, <2>1, <2>2, <3>2
    <2>4. m * Slowest \in Nat /\ (m + 1) * Fastest \in Nat /\ m * Slowest < (m + 1) * Fastest
      BY <1>1
    <2> HIDE DEF m
    <2> QED
      BY <1>1, <2>1, <2>2, <2>3, <2>4 DEF m
  <1> QED
    BY <1>2, <1>3

\* No tooth is filtered after one that took a slot.
LEMMA FilterIsNarrow ==
  ASSUME SteadyAndStaged, config \in Configs, NEW gap \in Nat, gap <= Slowest
  PROVE  FilterFor(gap) <= Fastest
  <1>1. 3 * Slowest < 4 * Fastest /\ Fastest \in Nat /\ Slowest \in Nat
    BY Margins, Pace
  <1>2. gap \div 4 <= Fastest /\ gap \div 2 <= Fastest /\ (gap * 3) \div 4 <= Fastest
    BY <1>1
  <1>3. config.filter \in 0 .. 3
    BY DEF Config
  <1> QED
    BY <1>1, <1>2, <1>3 DEF FilterFor

\* Times of some slots.
LEMMA TookSome ==
  ASSUME SteadyAndStaged, NEW n \in Nat, NEW t \in Nat, Took(n, t)
  PROVE  /\ n >= 1 => t >= Fastest
         /\ \A j \in Nat : j <= n => t >= j * Fastest
         /\ \A u \in Nat : Fastest <= u /\ u <= Slowest => Took(n + 1, t + u)
  <1>1. Fastest \in Nat /\ Slowest \in Nat
    BY Pace
  <1>2. n * Fastest <= t /\ t <= n * Slowest
    BY DEF Took
  <1>3. \A i, j \in Nat : i * j \in Nat
    OBVIOUS
  <1>4. \A j \in Nat : j <= n => t >= j * Fastest
    <2> SUFFICES ASSUME NEW j \in Nat, j <= n PROVE t >= j * Fastest
      OBVIOUS
    <2>1. n * Fastest = j * Fastest + (n - j) * Fastest /\ n - j \in Nat
      BY <1>1
    <2>2. (n - j) * Fastest \in Nat /\ j * Fastest \in Nat
      BY <1>1, <1>3, <2>1
    <2> QED
      BY <1>2, <2>1, <2>2
  <1>5. n >= 1 => t >= Fastest
    <2>1. 1 * Fastest = Fastest
      BY <1>1
    <2> QED
      BY <1>4, <2>1
  <1>6. \A u \in Nat : Fastest <= u /\ u <= Slowest => Took(n + 1, t + u)
    <2>1. (n + 1) * Fastest = n * Fastest + Fastest /\ (n + 1) * Slowest = n * Slowest + Slowest
      BY <1>1
    <2>2. n * Fastest \in Nat /\ n * Slowest \in Nat
      BY <1>1, <1>3
    <2> QED
      BY <1>1, <1>2, <2>1, <2>2 DEF Took
  <1> QED
    BY <1>4, <1>5, <1>6

\* Where the wheel moves to.
LEMMA Turned ==
  ASSUME SteadyAndStaged, TypeOK
  PROVE  /\ At \in 0 .. Teeth - 1
         /\ IsTooth(slot) <=> At < triggerActualTeeth
         /\ TrueCount = IF At < triggerActualTeeth THEN At + 1 ELSE triggerActualTeeth
         /\ MoveOn => At' = IF At = Teeth - 1 THEN 0 ELSE At + 1
  <1>0. Teeth \in Nat /\ Teeth >= 1 /\ config \in Configs
    BY Margins DEF TypeOK
  <1>1. \A s \in 0 .. 2 * Teeth - 1 : s % Teeth = IF s < Teeth THEN s ELSE s - Teeth
    <2> SUFFICES ASSUME NEW s \in 0 .. 2 * Teeth - 1
                 PROVE  s % Teeth = IF s < Teeth THEN s ELSE s - Teeth
      OBVIOUS
    <2>1. /\ s = Teeth * (s \div Teeth) + (s % Teeth)
          /\ s % Teeth \in 0 .. Teeth - 1
          /\ s \div Teeth \in Int
      BY <1>0, SMTT(20)
    <2> QED
      BY <1>0, <2>1, SMTT(20)
  <1>2. slot \in 0 .. 2 * Teeth - 1 /\ slot \in Slots
    BY <1>0 DEF TypeOK, Slots
  <1>3. At = IF slot < Teeth THEN slot ELSE slot - Teeth
    BY <1>1, <1>2 DEF At
  <1>4. ASSUME MoveOn PROVE At' = IF At = Teeth - 1 THEN 0 ELSE At + 1
    <2>1. slot' = IF slot + 1 \in Slots THEN slot + 1 ELSE 0
      BY <1>4 DEF MoveOn
    <2>2. Slots = 0 .. Teeth - 1 \/ Slots = 0 .. 2 * Teeth - 1
      BY DEF Slots
    <2>3. slot' \in 0 .. 2 * Teeth - 1
      BY <1>0, <1>2, <2>1, <2>2
    <2>4. At' = IF slot' < Teeth THEN slot' ELSE slot' - Teeth
      BY <1>1, <2>3 DEF At
    <2> QED
      BY <1>0, <1>2, <1>3, <2>1, <2>2, <2>4
  <1>5. IsTooth(slot) <=> At < triggerActualTeeth
    BY DEF IsTooth, At
  <1>6. TrueCount = IF At < triggerActualTeeth THEN At + 1 ELSE triggerActualTeeth
    BY <1>5 DEF TrueCount, At
  <1> QED
    BY <1>0, <1>2, <1>3, <1>4, <1>5, <1>6

(***************************************************************************)
(* The gap passed and was not recorded: it came too early for a count that *)
(* began at the wrong tooth, and sync was lost.                            *)
(***************************************************************************)
Missed ==
    /\ At = 0 /\ ~ hasSync /\ sinceLast # Never /\ lastGap # Never
    /\ Took(1, lastGap) /\ Took(Missing + 1, sinceLast)

\* The last gap was one slot long, but after the missing teeth.
LastGapIsKnown ==
    sinceLast # Never /\ lastGap # Never =>
        \/ Took(1, lastGap)
        \/ At = 0 /\ Took(Missing + 1, lastGap)
        \/ At = 1 /\ Took(Missing + 2, lastGap)

SinceLastIsKnown ==
    sinceLast \in {Never, StallTime} \/ Took(Behind, sinceLast) \/ Missed

\* A sync that is wrong is behind the wheel, so that the gap ends it, and it has
\* seen no revolution.
WrongSyncIsNew ==
    hasSync /\ pc \in {"running", "stalled"} =>
        /\ toothCurrentCount \in 1 .. TrueCount
        /\ toothCurrentCount < TrueCount => startRevolutions = 0

\* There is a speed only while the count is true: at speed the gap is not looked
\* for in the first half of the wheel.
SpeedIsTrueSync ==
    RPM # "crank" => pc = "running" /\ TrueSync

\* The stall branch finds the wheel standing, or at its first tooth.
StalledStands ==
    pc = "stalled" => sinceLast \in {Never, StallTime} \/ (hit /\ lastGap = Never)

Known ==
    /\ into = 0 /\ triggerFilterTime <= Fastest
    /\ LastGapIsKnown /\ SinceLastIsKnown
    /\ WrongSyncIsNew /\ SpeedIsTrueSync /\ StalledStands

CleanInv == SyncInv /\ (faults = 0 => Known)

\* What the decoder measures when the wheel has moved on: one slot, or the gap,
\* or the gap and one slot when it missed the tooth between.
Measured(gap) ==
    \/ At' > 0 /\ At' < triggerActualTeeth /\ Took(1, gap) /\ ~ Missed
    \/ At' = 0 /\ Took(Missing + 1, gap) /\ ~ Missed
    \/ At' = 1 /\ Took(Missing + 2, gap) /\ Missed
    \/ At' >= triggerActualTeeth /\ Took(Behind', gap) /\ ~ Missed

LEMMA Measures ==
  ASSUME SteadyAndStaged, SyncInv, Known, NEW t \in ToothTimes, MoveOn, config' = config,
         sinceLast < StallTime, NEW gap, gap = GapAfter(t - into)
  PROVE  /\ gap \in Times \cup {Never} /\ (gap = Never <=> sinceLast = Never)
         /\ sinceLast # Never => Measured(gap)
  <1>0. TypeOK /\ config \in Configs /\ triggerActualTeeth' = triggerActualTeeth
    BY SameWheel DEF SyncInv, TypeOK
  <1>1. /\ Missing \in Nat /\ Missing >= 1 /\ triggerActualTeeth \in Nat
        /\ triggerActualTeeth >= 3 /\ Teeth = triggerActualTeeth + Missing
        /\ (Missing + 2) * Slowest < StallTime
        /\ t \in Nat /\ Fastest <= t /\ t <= Slowest
        /\ Fastest \in Nat /\ Slowest \in Nat
    BY <1>0, Margins, Pace
  <1>2. into = 0 /\ t - into = t
    BY <1>1 DEF Known
  <1>3. /\ At \in 0 .. Teeth - 1 /\ At' = IF At = Teeth - 1 THEN 0 ELSE At + 1
    BY <1>0, Turned
  <1>4. gap \in Times \cup {Never} /\ (gap = Never <=> sinceLast = Never)
    BY <1>0, <1>1, <1>2, GapType
  <1>5. ASSUME sinceLast # Never PROVE Measured(gap)
    <2>1. sinceLast \in Nat /\ sinceLast < StallTime /\ gap = Capped(sinceLast + t)
      BY <1>0, <1>2, <1>5 DEF GapAfter, TypeOK
    <2>2. ASSUME NEW n \in Nat, n <= Missing + 2, Took(n, sinceLast + t)
          PROVE  gap = sinceLast + t
      <3>1. sinceLast + t <= n * Slowest
        BY <2>2 DEF Took
      <3>2. (Missing + 2) * Slowest = n * Slowest + (Missing + 2 - n) * Slowest
        BY <1>1, <2>2
      <3>3. Missing + 2 - n \in Nat /\ (Missing + 2 - n) * Slowest \in Nat /\ n * Slowest \in Nat
        <4>1. \A i, j \in Nat : i * j \in Nat
          OBVIOUS
        <4> QED
          BY <1>1, <2>2, <4>1
      <3> QED
        BY <1>1, <2>1, <3>1, <3>2, <3>3 DEF Capped
    <2>3. CASE Missed
      <3>1. At = 0 /\ Took(Missing + 1, sinceLast)
        BY <2>3 DEF Missed
      <3>2. Took(Missing + 2, sinceLast + t)
        <4>1. Missing + 1 \in Nat /\ (Missing + 1) + 1 = Missing + 2
          BY <1>1
        <4> QED
          BY <1>1, <2>1, <3>1, <4>1, TookSome
      <3>3. gap = sinceLast + t
        BY <1>1, <2>2, <3>2
      <3>4. At' = 1
        BY <1>1, <1>3, <3>1
      <3> QED
        BY <2>3, <3>2, <3>3, <3>4 DEF Measured
    <2>4. CASE ~ Missed
      <3>1. Took(Behind, sinceLast)
        BY <1>1, <1>5, <2>1, <2>4 DEF Known, SinceLastIsKnown
      <3>2. Behind \in Nat /\ Behind <= Missing
        BY <1>1, <1>3 DEF Behind
      <3>3. Took(Behind + 1, sinceLast + t)
        BY <1>1, <2>1, <3>1, <3>2, TookSome
      <3>4. gap = sinceLast + t
        <4>1. Behind + 1 \in Nat /\ Behind + 1 <= Missing + 2
          BY <1>1, <3>2
        <4> QED
          BY <2>2, <3>3, <4>1
      <3>5. CASE At' = 0
        <4>1. Behind = Missing
          BY <1>1, <1>3, <3>5 DEF Behind
        <4> QED
          BY <2>4, <3>3, <3>4, <3>5, <4>1 DEF Measured
      <3>6. CASE At' > 0 /\ At' < triggerActualTeeth
        <4>1. Behind + 1 = 1
          BY <1>1, <1>3, <3>6 DEF Behind
        <4> QED
          BY <2>4, <3>3, <3>4, <3>6, <4>1 DEF Measured
      <3>7. CASE At' >= triggerActualTeeth
        <4>1. Behind' = Behind + 1
          BY <1>0, <1>1, <1>3, <3>7 DEF Behind
        <4> QED
          BY <2>4, <3>3, <3>4, <3>7, <4>1 DEF Measured
      <3> QED
        BY <1>1, <1>3, <3>5, <3>6, <3>7
    <2> QED
      BY <2>3, <2>4
  <1> QED
    BY <1>4, <1>5

\* What a pulse is compared with.
LEMMA Compared ==
  ASSUME SteadyAndStaged, SyncInv, Known, MoveOn, EnoughTeeth,
         NEW gap \in Times, At' < triggerActualTeeth, Measured(gap)
  PROVE  /\ ~ Filtered(gap) /\ TargetGap \in Nat
         /\ At' > 0 /\ ~ Missed => gap <= TargetGap /\ gap <= Slowest
         /\ At' = 0 \/ Missed => gap > TargetGap
         /\ At' = 0 => Took(1, lastGap)
  <1>0. TypeOK /\ config \in Configs /\ gap \in Nat
    BY DEF SyncInv, TypeOK
  <1>1. /\ Missing \in Nat /\ Missing >= 1 /\ triggerActualTeeth \in Nat
        /\ triggerActualTeeth >= 3 /\ Teeth = triggerActualTeeth + Missing
        /\ Fastest \in Nat /\ Slowest \in Nat
    BY <1>0, Margins, Pace
  <1>2. At \in 0 .. Teeth - 1 /\ At' = IF At = Teeth - 1 THEN 0 ELSE At + 1
    BY <1>0, Turned
  <1>3. lastGap \in Nat /\ sinceLast # Never /\ lastGap # Never
    BY <1>0 DEF EnoughTeeth, TypeOK
  <1>4. /\ 1 \in Nat /\ Missing + 1 \in Nat /\ Missing + 2 \in Nat
        /\ Missing + 1 >= 1 /\ Missing + 2 >= 1
    BY <1>1
  <1>5. lastGap >= Fastest
    BY <1>3, <1>4, TookSome DEF Known, LastGapIsKnown
  <1>6. gap >= Fastest
    <2>1. Took(1, gap) \/ Took(Missing + 1, gap) \/ Took(Missing + 2, gap)
      BY <1>1, <1>2 DEF Measured
    <2> QED
      BY <1>0, <1>4, <2>1, TookSome
  <1>7. ~ Filtered(gap)
    BY <1>0, <1>1, <1>6 DEF Filtered, Known, TypeOK
  <1>8. /\ TargetGap \in Nat /\ TargetGap >= Slowest
        /\ lastGap <= Slowest => TargetGap < (Missing + 1) * Fastest
    BY <1>0, <1>3, <1>5, TargetSeparates
  <1>9. ASSUME At' > 0, ~ Missed PROVE gap <= TargetGap /\ gap <= Slowest
    <2>1. Took(1, gap)
      BY <1>9, <1>1, <1>2 DEF Measured
    <2>2. gap <= Slowest
      BY <2>1, <1>1 DEF Took
    <2> QED
      BY <1>0, <1>1, <1>8, <2>2
  <1>10. At' = 0 => Took(1, lastGap)
    BY <1>1, <1>2, <1>3 DEF Known, LastGapIsKnown
  <1>11. ASSUME At' = 0 \/ Missed PROVE gap > TargetGap
    <2>1. Took(1, lastGap)
      BY <1>10, <1>11 DEF Missed
    <2>2. lastGap <= Slowest
      BY <1>1, <2>1 DEF Took
    <2>3. Took(Missing + 1, gap) \/ Took(Missing + 2, gap)
      BY <1>11, <1>1, <1>2 DEF Measured
    <2>4. gap >= (Missing + 1) * Fastest /\ (Missing + 1) * Fastest \in Nat
      <3>1. Missing + 1 <= Missing + 2
        BY <1>1
      <3>2. gap >= (Missing + 1) * Fastest
        BY <1>0, <1>1, <1>4, <2>3, <3>1, TookSome
      <3>3. \A i, j \in Nat : i * j \in Nat
        OBVIOUS
      <3> QED
        BY <1>1, <1>4, <3>2, <3>3
    <2> DEFINE wide == (Missing + 1) * Fastest
    <2> HIDE DEF wide
    <2>5. gap >= wide /\ wide \in Nat /\ TargetGap < wide
      BY <1>8, <2>2, <2>4 DEF wide
    <2> QED
      BY <1>0, <1>8, <2>5
  <1> QED
    BY <1>7, <1>8, <1>9, <1>10, <1>11

\* A pulse of a clean signal.
LEMMA PulseKnown ==
  ASSUME SteadyAndStaged, SyncInv, SyncInv', Known, MoveOn, MayPulse, NotePulse,
         NEW gap \in Times \cup {Never}, gap = Never <=> sinceLast = Never,
         sinceLast # Never => Measured(gap), At' < triggerActualTeeth, PrimaryPulse(gap)
  PROVE  Known' /\ (TrueSync /\ pc = "running" => TrueSync')
  <1>0. /\ TypeOK /\ TypeOK' /\ config \in Configs /\ config' = config
        /\ pc' = pc /\ RPM' = RPM /\ hit' = (pc # "running") /\ into' = 0
        /\ Missing' = Missing
    BY DEF SyncInv, TypeOK, NotePulse, MoveOn, Missing
  <1>1. /\ Missing \in Nat /\ Missing >= 1 /\ triggerActualTeeth \in Nat
        /\ triggerActualTeeth >= 3 /\ Teeth = triggerActualTeeth + Missing
        /\ Fastest \in Nat /\ Slowest \in Nat /\ triggerActualTeeth' = triggerActualTeeth
    BY <1>0, Margins, Pace, SameWheel
  <1>2. At \in 0 .. Teeth - 1 /\ At' = IF At = Teeth - 1 THEN 0 ELSE At + 1
    BY <1>0, Turned
  <1>3. TrueCount = (IF At < triggerActualTeeth THEN At + 1 ELSE triggerActualTeeth)
        /\ TrueCount' = At' + 1
    <2>1. TrueCount' = At' + 1
      BY <1>1 DEF TrueCount, IsTooth, At
    <2> QED
      BY <1>0, <2>1, Turned
  <1>4. Behind' = 0 /\ Took(0, 0)
    BY <1>1 DEF Behind, Took
  <1>5. CASE ~ EnoughTeeth
    <2>1. FirstTeeth(gap)
      <3>1. ~ Filtered(gap)
        <4>1. CASE gap = Never
          BY <4>1 DEF Filtered
        <4>2. CASE gap # Never
          <5>1. gap \in Nat /\ Measured(gap)
            BY <4>2
          <5>2. gap >= Fastest
            <6>1. Took(1, gap) \/ Took(Missing + 1, gap) \/ Took(Missing + 2, gap)
              BY <1>1, <1>2, <5>1 DEF Measured
            <6>2. /\ 1 \in Nat /\ Missing + 1 \in Nat /\ Missing + 2 \in Nat
                  /\ Missing + 1 >= 1 /\ Missing + 2 >= 1
              BY <1>1
            <6> QED
              BY <5>1, <6>1, <6>2, TookSome
          <5> QED
            BY <1>0, <1>1, <5>1, <5>2 DEF Filtered, Known, TypeOK
        <4> QED
          BY <4>1, <4>2
      <3> QED
        BY <1>5, <3>1 DEF PrimaryPulse, IgnorePulse, RegularTooth, LoseSync, ToothOne
    <2>2. /\ sinceLast' = 0 /\ lastGap' = gap /\ triggerFilterTime' = triggerFilterTime
          /\ hasSync' = hasSync /\ startRevolutions' = startRevolutions
      BY <2>1 DEF FirstTeeth, RecordTooth
    <2>3. pc \in {"running", "stalled"} => ~ hasSync
      BY <1>5 DEF SyncInv, SyncHasTimes
    <2>4. RPM = "crank"
      BY <2>3 DEF Known, SpeedIsTrueSync, TrueSync
    <2>5. LastGapIsKnown'
      <3> SUFFICES ASSUME gap # Never
                   PROVE  \/ Took(1, gap)
                          \/ At' = 0 /\ Took(Missing + 1, gap)
                          \/ At' = 1 /\ Took(Missing + 2, gap)
        BY <1>0, <2>2 DEF LastGapIsKnown, Took
      <3> QED
        BY <1>1, <1>2 DEF Measured
    <2>6. SinceLastIsKnown'
      BY <1>4, <2>2 DEF SinceLastIsKnown, Took
    <2>7. StalledStands'
      <3> SUFFICES ASSUME pc = "stalled" PROVE gap = Never
        BY <1>0, <2>2 DEF StalledStands
      <3> QED
        BY DEF Known, StalledStands, MayPulse
    <2> QED
      BY <1>0, <2>2, <2>3, <2>4, <2>5, <2>6, <2>7
      DEF Known, WrongSyncIsNew, SpeedIsTrueSync, TrueSync
  <1>6. CASE EnoughTeeth
    <2>1. gap \in Times /\ gap \in Nat /\ Measured(gap) /\ lastGap # Never /\ sinceLast # Never
      BY <1>6 DEF EnoughTeeth
    <2>2. pc = "running"
      <3>1. pc # "stalled"
        BY <2>1 DEF Known, StalledStands, MayPulse
      <3>2. pc \notin {"forgot", "reset"}
        BY <2>1 DEF SyncInv, StallForgets
      <3> QED
        BY <1>0, <3>1, <3>2 DEF TypeOK
    <2>3. /\ ~ Filtered(gap) /\ TargetGap \in Nat
          /\ At' > 0 /\ ~ Missed => gap <= TargetGap /\ gap <= Slowest
          /\ At' = 0 \/ Missed => gap > TargetGap
          /\ At' = 0 => Took(1, lastGap)
      BY <1>6, <2>1, Compared
    <2>4. /\ RPM # "crank" => hasSync /\ toothCurrentCount = TrueCount
          /\ hasSync => /\ toothCurrentCount \in 1 .. TrueCount
                        /\ toothCurrentCount < TrueCount => startRevolutions = 0
      BY <2>2 DEF Known, SpeedIsTrueSync, WrongSyncIsNew, TrueSync
    <2>5. Count = IF toothCurrentCount > triggerActualTeeth
                  THEN toothCurrentCount ELSE toothCurrentCount + 1
      BY DEF Count
    <2>6. toothCurrentCount \in 0 .. triggerActualTeeth + 1 /\ startRevolutions \in Nat
      BY <1>0 DEF TypeOK
    <2>7. /\ LastGapIsKnown' <=>
                (sinceLast' # Never /\ lastGap' # Never =>
                    \/ Took(1, lastGap')
                    \/ At' = 0 /\ Took(Missing + 1, lastGap')
                    \/ At' = 1 /\ Took(Missing + 2, lastGap'))
          /\ Took(0, sinceLast') \/ Missed' => SinceLastIsKnown'
          /\ WrongSyncIsNew' <=>
                (hasSync' => /\ toothCurrentCount' \in 1 .. TrueCount'
                             /\ toothCurrentCount' < TrueCount' => startRevolutions' = 0)
          /\ SpeedIsTrueSync' <=> (RPM # "crank" => hasSync' /\ toothCurrentCount' = TrueCount')
          /\ StalledStands'
      BY <1>0, <1>4, <2>2
      DEF LastGapIsKnown, SinceLastIsKnown, WrongSyncIsNew, SpeedIsTrueSync, TrueSync,
          StalledStands, Took
    \* Tooth number 1 as the decoder sees it.
    <2>8. ASSUME ToothOne(gap), hasSync => At' = 0 PROVE Known' /\ (TrueSync => TrueSync')
      <3>1. /\ sinceLast' = 0 /\ lastGap' = gap /\ triggerFilterTime' = 0
            /\ toothCurrentCount' = 1
            /\ hasSync => hasSync'
            /\ ~ hasSync => startRevolutions' = 0
        BY <2>8 DEF ToothOne, RecordTooth
      <3>2. LastGapIsKnown'
        BY <1>1, <1>2, <2>1, <2>7, <3>1 DEF Measured
      <3>3. SinceLastIsKnown'
        BY <1>4, <2>7, <3>1
      <3>4. WrongSyncIsNew'
        BY <1>1, <1>2, <1>3, <2>7, <2>8, <3>1
      <3>5. SpeedIsTrueSync'
        BY <1>3, <2>4, <2>7, <2>8, <3>1
      <3>6. TrueSync => TrueSync'
        BY <1>3, <2>8, <3>1 DEF TrueSync
      <3> QED
        BY <1>0, <1>1, <2>7, <3>1, <3>2, <3>3, <3>4, <3>5, <3>6 DEF Known
    <2>9. CASE At' > 0 /\ ~ Missed
      <3>1. At' = At + 1 /\ At < triggerActualTeeth /\ gap <= TargetGap /\ gap <= Slowest
        BY <1>1, <1>2, <2>3, <2>9
      <3>2. hasSync => Count = toothCurrentCount + 1 /\ Count <= triggerActualTeeth
        BY <1>1, <1>2, <1>3, <2>4, <2>5, <3>1
      <3>3. AfterMissing(gap) => ~ hasSync
        BY <1>1, <2>1, <2>3, <2>5, <2>6, <3>1, <3>2 DEF AfterMissing
      <3>4. CASE RegularTooth(gap)
        <4>1. /\ sinceLast' = 0 /\ lastGap' = gap /\ triggerFilterTime' = FilterFor(gap)
              /\ toothCurrentCount' = Count /\ hasSync' = hasSync
              /\ startRevolutions' = startRevolutions
          BY <3>4 DEF RegularTooth, RecordTooth
        <4>2. triggerFilterTime' <= Fastest
          BY <1>0, <2>1, <3>1, <4>1, FilterIsNarrow
        <4>3. LastGapIsKnown'
          BY <1>1, <1>2, <2>1, <2>7, <2>9, <4>1 DEF Measured
        <4>4. SinceLastIsKnown'
          BY <1>4, <2>7, <4>1
        <4>5. WrongSyncIsNew'
          BY <1>1, <1>2, <1>3, <2>4, <2>6, <2>7, <3>1, <3>2, <4>1
        <4>6. hasSync /\ toothCurrentCount = TrueCount =>
                 hasSync' /\ toothCurrentCount' = TrueCount'
          BY <1>1, <1>2, <1>3, <2>6, <3>1, <3>2, <4>1
        <4> QED
          BY <1>0, <2>4, <2>7, <4>2, <4>3, <4>4, <4>5, <4>6 DEF Known, TrueSync
      <3>5. CASE LoseSync(gap)
        BY <3>3, <3>5 DEF LoseSync
      <3>6. CASE ToothOne(gap)
        BY <2>8, <3>3, <3>6 DEF ToothOne
      <3> QED
        BY <1>6, <2>3, <3>4, <3>5, <3>6 DEF PrimaryPulse, IgnorePulse, FirstTeeth
    <2>10. CASE At' = 0
      <3>1. At = Teeth - 1 /\ TrueCount = triggerActualTeeth /\ gap > TargetGap /\ Took(1, lastGap)
        BY <1>1, <1>2, <1>3, <2>3, <2>10
      <3>2. hasSync /\ toothCurrentCount = TrueCount => Count = triggerActualTeeth + 1
        BY <1>1, <2>5, <3>1
      <3>3. Detecting
        <4>1. triggerActualTeeth + 1 >= triggerActualTeeth \div 2
          BY <1>1
        <4>2. RPM = "fast" => Count = triggerActualTeeth + 1
          BY <2>4, <3>2
        <4> QED
          BY <4>1, <4>2 DEF Detecting
      <3>4. AfterMissing(gap)
        BY <3>1, <3>3 DEF AfterMissing
      <3>5. CASE LoseSync(gap)
        <4>1. /\ sinceLast' = gap /\ lastGap' = lastGap /\ triggerFilterTime' = triggerFilterTime
              /\ hasSync' = FALSE /\ hasSync /\ Count < triggerActualTeeth
          BY <3>5 DEF LoseSync
        <4>2. ~ (hasSync /\ toothCurrentCount = TrueCount)
          BY <1>1, <3>2, <4>1
        <4>3. Missed'
          BY <1>0, <2>1, <2>10, <3>1, <4>1, <1>1, <1>2 DEF Missed, Measured, Took
        <4>4. LastGapIsKnown'
          BY <2>7, <3>1, <4>1
        <4> QED
          BY <1>0, <2>4, <2>7, <4>1, <4>2, <4>3, <4>4 DEF Known, TrueSync
      <3>6. CASE ToothOne(gap)
        BY <2>8, <2>10, <3>6
      <3> QED
        BY <1>6, <2>3, <3>4, <3>5, <3>6 DEF PrimaryPulse, IgnorePulse, FirstTeeth, RegularTooth
    <2>11. CASE Missed
      <3>1. gap > TargetGap /\ ~ hasSync
        BY <2>3, <2>11 DEF Missed
      <3>2. AfterMissing(gap)
        BY <3>1 DEF AfterMissing, Detecting
      <3>3. ToothOne(gap)
        BY <1>6, <2>3, <3>1, <3>2
        DEF PrimaryPulse, IgnorePulse, FirstTeeth, RegularTooth, LoseSync
      <3> QED
        BY <2>8, <3>1, <3>3
    <2> QED
      BY <1>1, <1>2, <2>9, <2>10, <2>11
  <1> QED
    BY <1>5, <1>6

\* The wheel moves on, with a tooth or without.
LEMMA TurnKnown ==
  ASSUME SteadyAndStaged, SyncInv, SyncInv', Known, NEW t \in ToothTimes, Turn(t)
  PROVE  Known' /\ (TrueSync /\ pc = "running" => TrueSync')
  <1> DEFINE gap == GapAfter(t - into)
  <1>0. /\ TypeOK /\ TypeOK' /\ config \in Configs /\ config' = config /\ MoveOn
        /\ MayPulse /\ NotePulse /\ sinceLast < StallTime /\ Missing' = Missing
    BY DEF Turn, NotePulse, MayPulse, SyncInv, TypeOK, Missing
  <1>1. /\ triggerActualTeeth \in Nat /\ triggerActualTeeth >= 3
        /\ Teeth = triggerActualTeeth + Missing /\ Missing \in Nat /\ Missing >= 1
        /\ triggerActualTeeth' = triggerActualTeeth
    BY <1>0, Margins, SameWheel
  <1>2. At \in 0 .. Teeth - 1 /\ At' = IF At = Teeth - 1 THEN 0 ELSE At + 1
    BY <1>0, Turned
  <1>3. /\ gap \in Times \cup {Never} /\ (gap = Never <=> sinceLast = Never)
        /\ sinceLast # Never => Measured(gap)
    BY <1>0, Measures
  <1>4. IsTooth(slot') <=> At' < triggerActualTeeth
    BY DEF IsTooth, At
  <1> HIDE DEF gap
  <1>5. CASE IsTooth(slot')
    <2>1. PrimaryPulse(gap)
      BY <1>5 DEF Turn, gap
    <2> QED
      BY <1>0, <1>3, <1>4, <1>5, <2>1, PulseKnown
  <1>6. CASE ~ IsTooth(slot')
    <2>1. /\ sinceLast' = gap /\ into' = 0 /\ pc' = pc /\ RPM' = RPM
          /\ UNCHANGED <<lastGap, toothCurrentCount, triggerFilterTime, status>>
      BY <1>0, <1>6 DEF Turn, MoveOn, NotePulse, gap
    <2>2. At' >= triggerActualTeeth /\ At >= 2
      BY <1>1, <1>2, <1>4, <1>6
    <2>3. TrueCount' = triggerActualTeeth /\ TrueCount = triggerActualTeeth
      <3>1. TrueCount' = triggerActualTeeth
        BY <1>1, <1>6 DEF TrueCount, IsTooth
      <3> QED
        BY <1>0, <1>1, <1>2, <2>2, <3>1, Turned
    <2>4. LastGapIsKnown'
      BY <1>3, <2>1, <2>2 DEF Known, LastGapIsKnown, Took
    <2>5. SinceLastIsKnown'
      <3>1. sinceLast # Never => Took(Behind', gap)
        BY <1>1, <1>2, <1>3, <2>2 DEF Measured
      <3> QED
        BY <1>3, <2>1, <3>1 DEF SinceLastIsKnown, Took
    <2>6. WrongSyncIsNew' /\ SpeedIsTrueSync' /\ (TrueSync => TrueSync')
      BY <2>1, <2>3 DEF Known, WrongSyncIsNew, SpeedIsTrueSync, TrueSync
    <2>7. StalledStands'
      BY <1>0, <1>3, <2>1 DEF Known, StalledStands, MayPulse
    <2> QED
      BY <2>1, <2>4, <2>5, <2>6, <2>7 DEF Known
  <1> QED
    BY <1>5, <1>6

LEMMA CleanInit == ASSUME SteadyAndStaged, Init PROVE CleanInv
  <1>1. SyncInv
    BY SyncInit
  <1>2. InitialFilter <= Fastest /\ Fastest \in Nat
    BY <1>1, Margins, Pace DEF SyncInv, TypeOK
  <1> QED
    BY <1>1, <1>2
    DEF Init, CleanInv, Known, LastGapIsKnown, SinceLastIsKnown, WrongSyncIsNew,
        SpeedIsTrueSync, StalledStands

\* What the engine and the main loop do else.
LEMMA StandKnown ==
  ASSUME SteadyAndStaged, SyncInv, SyncInv', Known,
         Stop \/ CamTooth \/ UpdateRPM \/ StallBranch \/ UNCHANGED vars
  PROVE  Known' /\ (TrueSync /\ pc = "running" => TrueSync' \/ pc' # "running")
  <1>0. /\ TypeOK /\ config \in Configs /\ config' = config
    BY SameConfig DEF SyncInv, TypeOK, Next
  <1>1. /\ triggerActualTeeth' = triggerActualTeeth /\ Missing' = Missing
    BY <1>0, SameWheel DEF Missing
  <1>2. CASE UNCHANGED <<slot, into, primary, hasSync, startRevolutions, RPM, pc, hit>>
    BY <1>1, <1>2
    DEF Known, LastGapIsKnown, SinceLastIsKnown, WrongSyncIsNew, SpeedIsTrueSync,
        StalledStands, TrueSync, TrueCount, IsTooth, Missed, At, Behind, Took
  <1>3. CASE slot' = slot
    <2>1. At' = At /\ Behind' = Behind /\ TrueCount' = TrueCount
      BY <1>1, <1>3 DEF At, Behind, TrueCount, IsTooth
    <2>2. CASE Stop
      <3>1. /\ sinceLast' \in {Never, StallTime} /\ (sinceLast' = Never <=> sinceLast = Never)
            /\ UNCHANGED <<into, lastGap, toothCurrentCount, triggerFilterTime, status, mainLoop>>
        BY <1>0, <2>2 DEF Stop, TypeOK
      <3> QED
        BY <1>1, <2>1, <3>1
        DEF Known, LastGapIsKnown, SinceLastIsKnown, WrongSyncIsNew, SpeedIsTrueSync,
            StalledStands, TrueSync, Took
    <2>3. CASE UpdateRPM
      <3>1. /\ UNCHANGED <<into, primary, status>> /\ pc = "running" /\ pc' = pc
            /\ RPM' # "crank" => SpeedKnown
        BY <2>3 DEF UpdateRPM
      <3>2. SpeedKnown => TrueSync
        <4>1. startRevolutions \in Nat /\ StgCycles >= 1
          BY <1>0, Pace DEF TypeOK
        <4>2. RPM = "crank" /\ SpeedKnown => hasSync /\ startRevolutions # 0
          BY <4>1 DEF SpeedKnown
        <4>3. TrueCount \in Nat
          BY <1>0, Turned, Margins
        <4> QED
          BY <3>1, <4>2, <4>3 DEF Known, WrongSyncIsNew, SpeedIsTrueSync, TrueSync
      <3>3. /\ LastGapIsKnown' /\ WrongSyncIsNew' /\ StalledStands'
            /\ TrueSync => TrueSync'
        BY <1>1, <2>1, <3>1
        DEF Known, LastGapIsKnown, WrongSyncIsNew, StalledStands, TrueSync, Took
      <3>4. SinceLastIsKnown'
        BY <1>1, <2>1, <3>1 DEF Known, SinceLastIsKnown, Missed, Took
      <3>5. SpeedIsTrueSync'
        BY <3>1, <3>2, <3>3 DEF SpeedIsTrueSync
      <3> QED
        BY <3>1, <3>3, <3>4, <3>5 DEF Known
    <2>4. CASE FindStalled
      <3>1. /\ UNCHANGED <<into, primary, status>> /\ pc = "running" /\ pc' = "stalled"
            /\ RPM' = "crank"
        BY <2>4 DEF FindStalled
      <3>2. sinceLast \in {Never, StallTime}
        BY <1>0, <2>4 DEF FindStalled, Stalled, TypeOK
      <3> QED
        BY <1>1, <2>1, <3>1, <3>2
        DEF Known, LastGapIsKnown, SinceLastIsKnown, WrongSyncIsNew, SpeedIsTrueSync,
            StalledStands, TrueSync, Took
    <2>5. CASE ForgetTeeth
      <3>1. /\ UNCHANGED <<into, triggerFilterTime, RPM>> /\ pc = "stalled" /\ pc' = "forgot"
            /\ sinceLast' = Never
        BY <2>5 DEF ForgetTeeth
      <3> QED
        BY <3>1
        DEF Known, LastGapIsKnown, SinceLastIsKnown, WrongSyncIsNew, SpeedIsTrueSync,
            StalledStands
    <2>6. CASE ForgetSync
      <3>1. /\ UNCHANGED <<into, primary, RPM>> /\ pc = "forgot" /\ pc' = "reset"
            /\ hasSync' = FALSE
        BY <2>6 DEF ForgetSync
      <3> QED
        BY <1>1, <2>1, <3>1
        DEF Known, LastGapIsKnown, SinceLastIsKnown, WrongSyncIsNew, SpeedIsTrueSync,
            StalledStands, Missed, Took
    <2>7. CASE SetUpTrigger
      <3>1. /\ UNCHANGED <<into, sinceLast, status, RPM>> /\ pc = "reset" /\ pc' = "running"
            /\ lastGap' \in {lastGap, Never}
            /\ triggerFilterTime' \in {triggerFilterTime, InitialFilter}
        BY <2>7 DEF SetUpTrigger
      <3>2. ~ hasSync /\ ~ Missed
        BY <3>1 DEF SyncInv, NoSyncInReset, StallForgets, Missed, Known, SinceLastIsKnown, Took
      <3>3. triggerFilterTime' <= Fastest
        BY <1>0, <3>1, Margins DEF Known
      <3> QED
        BY <1>1, <2>1, <3>1, <3>2, <3>3
        DEF Known, LastGapIsKnown, SinceLastIsKnown, WrongSyncIsNew, SpeedIsTrueSync,
            StalledStands, Took
    <2>8. CASE CamTooth \/ UNCHANGED vars
      BY <1>2, <2>8 DEF CamTooth, vars
    <2> QED
      BY <2>2, <2>3, <2>4, <2>5, <2>6, <2>7, <2>8 DEF StallBranch
  <1>4. slot' = slot
    BY DEF Stop, CamTooth, UpdateRPM, StallBranch, FindStalled, ForgetTeeth, ForgetSync,
           SetUpTrigger, vars
  <1> QED
    BY <1>3, <1>4

LEMMA CleanStep ==
  ASSUME SteadyAndStaged, CleanInv, [Next]_vars
  PROVE  /\ CleanInv'
         /\ faults' = 0 /\ TrueSync /\ pc = "running" => TrueSync' \/ pc' # "running"
  <1>1. SyncInv /\ SyncInv' /\ faults \in Nat
    BY SyncStep DEF CleanInv, SyncInv, TypeOK
  <1>2. ASSUME NEW t \in ToothTimes, LosePulse(t) PROVE faults' # 0
    BY <1>1, <1>2 DEF LosePulse, Fault
  <1>3. ASSUME NEW t \in 1 .. StallTime, Noise(t) PROVE faults' # 0
    BY <1>1, <1>3 DEF Noise, Fault
  <1>4. ASSUME NEW t \in ToothTimes, Turn(t) PROVE faults' = faults
    BY <1>4 DEF Turn
  <1>5. Stop \/ CamTooth \/ UpdateRPM \/ StallBranch \/ UNCHANGED vars => faults' = faults
    BY DEF Stop, CamTooth, UpdateRPM, StallBranch, FindStalled, ForgetTeeth, ForgetSync,
           SetUpTrigger, vars
  <1>6. faults' = 0 => Known' /\ (TrueSync /\ pc = "running" => TrueSync' \/ pc' # "running")
    <2> SUFFICES ASSUME faults' = 0
                 PROVE  Known' /\ (TrueSync /\ pc = "running" => TrueSync' \/ pc' # "running")
      OBVIOUS
    <2>1. ASSUME NEW t \in ToothTimes, Turn(t)
          PROVE  Known' /\ (TrueSync /\ pc = "running" => TrueSync' \/ pc' # "running")
      <3>1. Known
        BY <1>4, <2>1 DEF CleanInv
      <3> QED
        BY <1>1, <2>1, <3>1, TurnKnown
    <2>2. ASSUME Stop \/ CamTooth \/ UpdateRPM \/ StallBranch \/ UNCHANGED vars
          PROVE  Known' /\ (TrueSync /\ pc = "running" => TrueSync' \/ pc' # "running")
      <3>1. Known
        BY <1>5, <2>2 DEF CleanInv
      <3> QED
        BY <1>1, <2>2, <3>1, StandKnown
    <2> QED
      BY <1>2, <1>3, <2>1, <2>2 DEF Next
  <1> QED
    BY <1>1, <1>6 DEF CleanInv

\* On a clean signal the engine is never fired on a wrong tooth count, whichever
\* slot it starts from and whenever it stops, for every wheel of three teeth or
\* more and any number of missing ones: a wrong sync that triggerPri_missingTooth()
\* finds while it starts ends at the next gap, before the staging is over.
THEOREM StagedSync == SteadyAndStaged => (Spec => []StagedSyncIsTrue)
  <1> SUFFICES ASSUME SteadyAndStaged PROVE Spec => []StagedSyncIsTrue
    OBVIOUS
  <1>1. Init => CleanInv
    BY CleanInit
  <1>2. CleanInv /\ [Next]_vars => CleanInv'
    BY CleanStep
  <1>3. CleanInv => StagedSyncIsTrue
    <2> SUFFICES ASSUME CleanInv, faults = 0, hasSync, startRevolutions >= StgCycles,
                        pc = "running"
                 PROVE  toothCurrentCount = TrueCount
      BY DEF StagedSyncIsTrue
    <2>1. startRevolutions \in Nat /\ StgCycles >= 1 /\ TypeOK
      BY Pace DEF CleanInv, SyncInv, TypeOK
    <2>2. TrueCount \in Nat
      BY <2>1, Turned, Margins DEF TypeOK
    <2> QED
      BY <2>1, <2>2 DEF CleanInv, Known, WrongSyncIsNew
  <1> QED
    BY <1>1, <1>2, <1>3, PTL DEF Spec

\* And it does not lose a sync that is true, at any speed, until it stands.
THEOREM TrueSyncIsKept == SteadyAndStaged => (Spec => TrueSyncLasts)
  <1> SUFFICES ASSUME SteadyAndStaged PROVE Spec => TrueSyncLasts
    OBVIOUS
  <1>1. Init => CleanInv
    BY CleanInit
  <1>2. CleanInv /\ [Next]_vars => CleanInv'
    BY CleanStep
  <1>3. CleanInv /\ [Next]_vars =>
          [faults' = 0 /\ TrueSync /\ startRevolutions >= StgCycles /\ pc = "running"
              => TrueSync' \/ pc' # "running"]_vars
    BY CleanStep
  <1> QED
    BY <1>1, <1>2, <1>3, PTL DEF Spec, TrueSyncLasts

=============================================================================
