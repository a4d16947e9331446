---------------------------- MODULE MissingTooth ----------------------------
(***************************************************************************)
(* The missing tooth decoder (decoders.ino): the trigger interrupts that   *)
(* tell from the time between pulses which tooth of the wheel passed, and  *)
(* the main loop's stall check (speeduino.ino), which resets them.         *)
(*                                                                         *)
(* The wheel is part of the model, so that what the decoder believes can   *)
(* be compared with where the wheel is.  Times are in units in which a     *)
(* tooth takes a few; only differences of the code's time stamps matter,   *)
(* and whether one is zero ("never").  The cam is a single tooth; its      *)
(* filter refuses only the first pulse, whose gap it takes to be zero.     *)
(***************************************************************************)
EXTENDS Integers

CONSTANTS
    Teeth,         \* configPage4.triggerTeeth, the missing ones included
    Configs,       \* what configPage2 and configPage4 may hold, see Config
    CamSlot,       \* where the cam tooth is
    InitialFilter, \* the filter time before any tooth was seen
    StallTime,     \* MAX_STALL_TIME; gaps that are longer are taken for equal
    ToothTimes,    \* the time the wheel may take from one slot to the next
    StgCycles,     \* configPage4.StgCycles: revolutions before the engine fires
    Speeds,        \* what currentStatus.RPM may be, see RPM
    Faults,        \* what may be wrong with the signal: "lost" or "noise" pulses
    MaxTrouble,    \* bound: how often it is, or the engine stops;
    MaxRevolutions,\*   startRevolutions stops counting here,
    MaxLosses      \*   and syncLossCounter here

\* triggerMissingTeeth, triggerFilter, TrigSpeed == CAM_SPEED, sequential
\* ignition or injection, and whether a tooth or composite log is being taken.
Config ==
    [missing : 1 .. Teeth - 1, filter : 0 .. 3,
     camSpeed : BOOLEAN, sequential : BOOLEAN, logging : BOOLEAN]

ASSUME WheelAssumption ==
    /\ Teeth \in Nat
    /\ Configs \subseteq Config
    /\ CamSlot \in 0 .. 2 * Teeth - 1
ASSUME TimeAssumption ==
    /\ InitialFilter \in Nat /\ StallTime \in Nat /\ ToothTimes \subseteq Nat
    /\ StgCycles \in Nat
    /\ Speeds \subseteq {"crank", "run", "fast"}
ASSUME BoundAssumption ==
    /\ MaxTrouble \in Nat
    /\ MaxRevolutions \in Nat \ {0}
    /\ MaxLosses \in Nat \ {0}

VARIABLES
    config,            \* fixed while the engine runs
    slot,              \* the wheel: the slot that passed last,
    into,              \*   the time since,
    camPassed,         \*   whether the cam tooth at this slot passed as well,
    faults, stops      \*   and how often its signal was wrong or it stopped
VARIABLES
    sinceLast,         \* the time since toothLastToothTime
    lastGap,           \* from toothLastMinusOneToothTime to toothLastToothTime
    toothCurrentCount,
    triggerFilterTime,
    hasSync,
    startRevolutions,
    syncLossCounter,
    revolutionOne,
    secondarySeen,     \* secondaryToothCount > 0
    secondaryKnown,    \* toothLastSecToothTime # 0
    RPM,               \* "crank" below crankRPM, "run" below 2000, or "fast"
    pc,                \* the main loop: "running", or inside the stall branch
    hit                \* a pulse has come while it is there

wheel == <<slot, into, camPassed, faults, stops>>
primary == <<sinceLast, lastGap, toothCurrentCount, triggerFilterTime>>
status == <<hasSync, startRevolutions, syncLossCounter>>
secondary == <<secondarySeen, secondaryKnown>>
mainLoop == <<RPM, pc, hit>>
vars == <<config, wheel, primary, status, revolutionOne, secondary, mainLoop>>

Missing == config.missing
CamSpeed == config.camSpeed
Sequential == config.sequential
Logging == config.logging

triggerActualTeeth == Teeth - Missing

\* The slots of an engine cycle, in the order in which they pass the sensor;
\* the missing teeth come last in each revolution.
Slots == 0 .. (IF Sequential THEN 2 * Teeth ELSE Teeth) - 1

Never == -1     \* the time stamp is zero
Times == 0 .. StallTime

Capped(t) == IF t > StallTime THEN StallTime ELSE t

IsTooth(s) == s % Teeth < triggerActualTeeth

Init ==
    /\ config \in Configs
    /\ slot \in Slots /\ into = 0 /\ camPassed = TRUE
    /\ faults = 0 /\ stops = 0
    /\ sinceLast = Never /\ lastGap = Never
    /\ toothCurrentCount = 0
    /\ triggerFilterTime = InitialFilter
    /\ hasSync = FALSE /\ startRevolutions = 0 /\ syncLossCounter = 0
    /\ revolutionOne = FALSE
    /\ secondarySeen = FALSE /\ secondaryKnown = FALSE
    /\ RPM = "crank" /\ pc = "running" /\ hit = FALSE

-----------------------------------------------------------------------------
(***************************************************************************)
(* triggerPri_missingTooth(): a pulse comes when the last tooth that was   *)
(* recorded is gap ago.                                                    *)
(***************************************************************************)

\* Bound: beyond one more than the wheel has, counts are taken for equal.
Count ==
    IF toothCurrentCount > triggerActualTeeth
    THEN toothCurrentCount ELSE toothCurrentCount + 1

Filtered(gap) == gap # Never /\ gap < triggerFilterTime

EnoughTeeth == sinceLast # Never /\ lastGap # Never

\* Mutant of TargetGap: the factor is forgotten.
TargetGapOnce == lastGap

TargetGap ==
    IF Missing = 1 THEN (3 * lastGap) \div 2 ELSE lastGap * Missing

\* The gap is not looked for in the first half of the wheel, at speed.
Detecting == ~hasSync \/ RPM # "fast" \/ Count >= triggerActualTeeth \div 2

AfterMissing(gap) ==
    Detecting /\ (gap > TargetGap \/ Count > triggerActualTeeth)

\* setFilter(curGap)
FilterFor(gap) ==
    CASE config.filter = 0 -> 0
      [] config.filter = 1 -> gap \div 4
      [] config.filter = 2 -> gap \div 2
      [] config.filter = 3 -> (gap * 3) \div 4

RecordTooth(gap) == lastGap' = gap /\ sinceLast' = 0

\* A pulse that comes too soon is noise.
IgnorePulse(gap) ==
    /\ Filtered(gap)
    /\ sinceLast' = gap
    /\ UNCHANGED <<lastGap, toothCurrentCount, triggerFilterTime, status,
                   revolutionOne, secondarySeen>>

\* Two time stamps are needed before anything can be compared.
FirstTeeth(gap) ==
    /\ ~Filtered(gap) /\ ~EnoughTeeth
    /\ toothCurrentCount' = Count
    /\ RecordTooth(gap)
    /\ UNCHANGED <<triggerFilterTime, status, revolutionOne, secondarySeen>>

RegularTooth(gap) ==
    /\ ~Filtered(gap) /\ EnoughTeeth /\ ~AfterMissing(gap)
    /\ toothCurrentCount' = Count
    /\ triggerFilterTime' = FilterFor(gap)
    /\ RecordTooth(gap)
    /\ UNCHANGED <<status, revolutionOne, secondarySeen>>

\* The gap came too early.  The tooth is not recorded.
LoseSync(gap) ==
    /\ ~Filtered(gap) /\ EnoughTeeth /\ AfterMissing(gap)
    /\ Count < triggerActualTeeth /\ hasSync
    /\ hasSync' = FALSE
    /\ syncLossCounter' = (IF syncLossCounter < MaxLosses
                             THEN syncLossCounter + 1 ELSE MaxLosses)
    /\ toothCurrentCount' = Count
    /\ sinceLast' = gap
    /\ UNCHANGED <<lastGap, triggerFilterTime, startRevolutions, revolutionOne,
                   secondarySeen>>

RevolutionsAfter ==
    LET n == startRevolutions + (IF CamSpeed THEN 2 ELSE 1)
    IN IF n > MaxRevolutions THEN MaxRevolutions ELSE n

\* Mutant of ToothOne: the revolutions go on counting when sync is regained.
ToothOneKeepsRevolutions(gap) ==
    /\ ~Filtered(gap) /\ EnoughTeeth /\ AfterMissing(gap)
    /\ ~(Count < triggerActualTeeth /\ hasSync)
    /\ startRevolutions' = RevolutionsAfter
    /\ toothCurrentCount' = 1
    /\ revolutionOne' = ~revolutionOne
    /\ IF ~Sequential \/ secondarySeen \/ CamSpeed
       THEN hasSync' = TRUE
       ELSE UNCHANGED hasSync
    /\ secondarySeen' = (secondarySeen /\ ~Sequential)
    /\ triggerFilterTime' = 0
    /\ RecordTooth(gap)
    /\ UNCHANGED syncLossCounter

\* Tooth number 1.  Sequential operation waits for the cam tooth as well.
ToothOne(gap) ==
    /\ ~Filtered(gap) /\ EnoughTeeth /\ AfterMissing(gap)
    /\ ~(Count < triggerActualTeeth /\ hasSync)
    /\ startRevolutions' = IF hasSync THEN RevolutionsAfter ELSE 0
    /\ toothCurrentCount' = 1
    /\ revolutionOne' = ~revolutionOne
    /\ IF ~Sequential \/ secondarySeen \/ CamSpeed
       THEN hasSync' = TRUE
       ELSE UNCHANGED hasSync
    /\ secondarySeen' = (secondarySeen /\ ~Sequential)
    /\ triggerFilterTime' = 0
    /\ RecordTooth(gap)
    /\ UNCHANGED syncLossCounter

PrimaryPulse(gap) ==
    \/ IgnorePulse(gap)
    \/ FirstTeeth(gap)
    \/ RegularTooth(gap)
    \/ LoseSync(gap)
    \/ ToothOne(gap)

-----------------------------------------------------------------------------
(***************************************************************************)
(* The engine.  A pulse may come while the main loop is in its stall       *)
(* branch, but no more than one: the branch is much shorter than the time  *)
(* between two teeth.  For the same reason the main loop has noticed that  *)
(* the wheel stands before it turns again.                                 *)
(***************************************************************************)
MayPulse == (pc = "running" \/ ~hit) /\ sinceLast < StallTime
NotePulse ==
    /\ hit' = (pc # "running")
    /\ UNCHANGED <<config, stops, secondaryKnown, RPM, pc>>

GapAfter(t) == IF sinceLast = Never THEN Never ELSE Capped(sinceLast + t)

MoveOn ==
    /\ (Sequential /\ slot = CamSlot) => camPassed
    /\ slot' = (IF slot + 1 \in Slots THEN slot + 1 ELSE 0)
    /\ into' = 0
    /\ camPassed' = FALSE

\* The next slot passes the sensor, with a tooth or without.
Turn(t) ==
    /\ MayPulse
    /\ MoveOn
    /\ LET gap == GapAfter(t - into)
       IN IF IsTooth(slot')
          THEN PrimaryPulse(gap)
          ELSE /\ sinceLast' = gap
               /\ UNCHANGED <<lastGap, toothCurrentCount, triggerFilterTime,
                              status, revolutionOne, secondarySeen>>
    /\ NotePulse
    /\ UNCHANGED faults

Fault(kind) ==
    kind \in Faults /\ faults + stops < MaxTrouble /\ faults' = faults + 1

\* A tooth passes and no pulse comes of it.
LosePulse(t) ==
    /\ Fault("lost")
    /\ sinceLast < StallTime
    /\ MoveOn /\ IsTooth(slot')
    /\ sinceLast' = GapAfter(t - into)
    /\ UNCHANGED <<lastGap, toothCurrentCount, triggerFilterTime, status,
                   revolutionOne, secondary, mainLoop, config, stops>>

\* A pulse comes between two slots.
Noise(t) ==
    /\ Fault("noise")
    /\ MayPulse
    /\ \A u \in ToothTimes : into + t < u
    /\ into' = into + t
    /\ PrimaryPulse(GapAfter(t))
    /\ NotePulse
    /\ UNCHANGED <<slot, camPassed>>

\* The engine stands still for a long time.
Stop ==
    /\ faults + stops < MaxTrouble /\ stops' = stops + 1
    /\ sinceLast' = IF sinceLast = Never THEN Never ELSE StallTime
    /\ UNCHANGED <<slot, into, camPassed, faults, lastGap, toothCurrentCount,
                   triggerFilterTime, status, revolutionOne, secondary, mainLoop,
                   config>>

\* Mutant of CamTooth: the revolution is left as it is.
CamToothKeepsRevolution ==
    /\ Sequential /\ slot = CamSlot /\ ~camPassed
    /\ camPassed' = TRUE
    /\ secondaryKnown' = TRUE
    /\ secondarySeen' = (secondarySeen \/ secondaryKnown)
    /\ UNCHANGED <<slot, into, faults, stops, primary, status, revolutionOne,
                   mainLoop, config>>

\* triggerSec_missingTooth(), single cam tooth.  The first pulse is only timed.
CamTooth ==
    /\ Sequential /\ slot = CamSlot /\ ~camPassed
    /\ camPassed' = TRUE
    /\ secondaryKnown' = TRUE
    /\ IF secondaryKnown
       THEN revolutionOne' = TRUE /\ secondarySeen' = TRUE
       ELSE UNCHANGED <<revolutionOne, secondarySeen>>
    /\ UNCHANGED <<slot, into, faults, stops, primary, status, mainLoop, config>>

-----------------------------------------------------------------------------
(***************************************************************************)
(* The main loop.                                                          *)
(***************************************************************************)
Stalled == sinceLast = Never \/ sinceLast >= StallTime

\* getRPM_missingTooth(): while cranking, the speed comes from the time between
\* two teeth, and not before the staging revolutions are over; after that from
\* the time a revolution took.  Without sync it is 0.
SpeedKnown ==
    /\ hasSync
    /\ RPM = "crank" => toothCurrentCount # 1 /\ startRevolutions >= StgCycles

UpdateRPM ==
    /\ pc = "running" /\ ~Stalled
    /\ IF SpeedKnown THEN RPM' \in Speeds ELSE RPM' = "crank"
    /\ UNCHANGED <<config, wheel, primary, status, revolutionOne, secondary, pc, hit>>

FindStalled ==
    /\ pc = "running" /\ Stalled
    /\ RPM' = "crank"
    /\ pc' = "stalled"
    /\ UNCHANGED <<config, wheel, primary, status, revolutionOne, secondary, hit>>

\* toothLastToothTime = 0; toothLastSecToothTime = 0
ForgetTeeth ==
    /\ pc = "stalled"
    /\ sinceLast' = Never
    /\ secondaryKnown' = FALSE
    /\ pc' = "forgot"
    /\ UNCHANGED <<config, wheel, lastGap, toothCurrentCount, triggerFilterTime, status,
                   revolutionOne, secondarySeen, RPM, hit>>

\* Mutant of ForgetSync: the flag stays up.
ForgetSyncNot ==
    /\ pc = "forgot"
    /\ startRevolutions' = 0
    /\ secondarySeen' = FALSE
    /\ pc' = "reset"
    /\ UNCHANGED <<config, wheel, primary, hasSync, syncLossCounter, revolutionOne,
                   secondaryKnown, RPM, hit>>

ForgetSync ==
    /\ pc = "forgot"
    /\ hasSync' = FALSE /\ startRevolutions' = 0
    /\ secondarySeen' = FALSE
    /\ pc' = "reset"
    /\ UNCHANGED <<config, wheel, primary, syncLossCounter, revolutionOne,
                   secondaryKnown, RPM, hit>>

\* initialiseTriggers(), unless a log is being taken: triggerSetup_missingTooth().
SetUpTrigger ==
    /\ pc = "reset"
    /\ IF Logging
       THEN UNCHANGED <<lastGap, toothCurrentCount, triggerFilterTime, secondarySeen>>
       ELSE /\ lastGap' = Never
            /\ toothCurrentCount' = 0
            /\ triggerFilterTime' = InitialFilter
            /\ secondarySeen' = FALSE
    /\ pc' = "running"
    /\ hit' = FALSE
    /\ UNCHANGED <<config, wheel, sinceLast, status, revolutionOne, secondaryKnown, RPM>>

StallBranch == FindStalled \/ ForgetTeeth \/ ForgetSync \/ SetUpTrigger

-----------------------------------------------------------------------------
Next ==
    \/ \E t \in ToothTimes : Turn(t) \/ LosePulse(t)
    \/ \E t \in 1 .. StallTime : Noise(t)
    \/ Stop
    \/ CamTooth
    \/ UpdateRPM
    \/ StallBranch

\* The engine turns and the main loop runs.  The stall branch is a small part
\* of the main loop's time, so that not every tooth passes during it.
Fairness ==
    /\ WF_vars(\E t \in ToothTimes : Turn(t))
    /\ SF_vars(pc = "running" /\ \E t \in ToothTimes : Turn(t) /\ IsTooth(slot'))
    /\ WF_vars(CamTooth)
    /\ WF_vars(StallBranch)

Spec == Init /\ [][Next]_vars

FairSpec == Spec /\ Fairness

-----------------------------------------------------------------------------
(***************************************************************************)
(* A signal the decoder can do with: a slot takes between lo and hi, which *)
(* are near enough that a gap is told from a tooth (TargetGap) and a tooth *)
(* from noise (FilterFor), and a gap is not taken for the engine standing. *)
(***************************************************************************)
SteadyBetween(lo, hi) ==
    /\ ToothTimes \subseteq lo .. hi
    /\ 3 * hi < 4 * lo /\ InitialFilter <= lo
    /\ \A c \in Configs :
          /\ c.missing * hi < (c.missing + 1) * lo
          /\ (c.missing + 2) * hi < StallTime
          /\ Teeth - c.missing >= 3

\* And the engine fires after a revolution in sync at the earliest.
SteadyAndStaged ==
    /\ \E lo, hi \in 0 .. StallTime : SteadyBetween(lo, hi)
    /\ StgCycles >= 1

\* The type invariant.
TypeOK ==
    /\ config \in Configs
    /\ slot \in Slots /\ camPassed \in BOOLEAN
    /\ into \in Nat /\ \A t \in ToothTimes : into <= t
    /\ faults \in Nat /\ stops \in Nat /\ faults + stops <= MaxTrouble
    /\ sinceLast \in Times \cup {Never}
    /\ lastGap \in Times \cup {Never}
    /\ toothCurrentCount \in 0 .. triggerActualTeeth + 1
    /\ triggerFilterTime \in Nat
    /\ hasSync \in BOOLEAN /\ startRevolutions \in 0 .. MaxRevolutions
    /\ syncLossCounter \in 0 .. MaxLosses
    /\ revolutionOne \in BOOLEAN
    /\ secondarySeen \in BOOLEAN /\ secondaryKnown \in BOOLEAN
    /\ RPM \in {"crank", "run", "fast"} /\ hit \in BOOLEAN
    /\ pc \in {"running", "stalled", "forgot", "reset"}

\* The tooth the wheel is at: the last one in a revolution while the gap passes.
TrueCount ==
    IF IsTooth(slot) THEN (slot % Teeth) + 1 ELSE triggerActualTeeth

\* What the decoder believes is so.
TrueSync == hasSync /\ toothCurrentCount = TrueCount

\* And it knows which of the cycle's two revolutions this is: the one with the
\* cam tooth is "one", from the cam tooth on and all along the next time.
TrueRevolution ==
    (Sequential /\ ~CamSpeed /\ (slot # CamSlot \/ camPassed))
        => revolutionOne = (slot \div Teeth = CamSlot \div Teeth)

\* While there is sync, the tooth count is one the wheel has, so that the crank
\* angle is one of a revolution.  ("Onec sync has been achieved, this can never
\* actually be 0", decoders.h:156.)  The stall branch takes back the sync after
\* the time stamps; a pulse in between is counted without being looked at.
SyncedCountIsATooth ==
    hasSync /\ pc # "forgot" => toothCurrentCount \in 1 .. triggerActualTeeth

\* The engine is never fired on a wrong tooth count when the signal is clean,
\* whatever slot it started from: the staging revolutions (speeduino.ino:376)
\* outlast a sync that is wrong.
StagedSyncIsTrue ==
    faults = 0 /\ hasSync /\ startRevolutions >= StgCycles /\ pc = "running"
        => toothCurrentCount = TrueCount

\* With a clean signal, sync that is true is not lost again while the engine
\* turns.
TrueSyncLasts ==
    [][faults' = 0 /\ TrueSync /\ startRevolutions >= StgCycles /\ pc = "running"
          => TrueSync' \/ pc' # "running"]_vars

\* Once the signal stays clean, the gap is not in the first half of the wheel as
\* the decoder counts it.  ("Missing tooth will/should never occur in the first
\* have", decoders.ino:300, which is why it is not looked for there at speed.)
GapNotInFirstHalf ==
    <>[](hasSync /\ ~IsTooth(slot) => Count >= triggerActualTeeth \div 2)

\* The filter lets every tooth pass.
FilterIsOpen == \A t \in ToothTimes : triggerFilterTime <= t

\* Once the signal stays clean and the engine below 2000 rpm, the decoder finds the
\* true tooth and keeps it, and the true revolution of the cycle with it; and the
\* filter opens again.  ("This is used to prevent a condition where serious
\* intermitent signals ... can leave the filter in an unrecoverable state",
\* decoders.ino:350.)
EventuallyInSync ==
    <>[](RPM # "fast") => <>[](TrueSync /\ TrueRevolution /\ FilterIsOpen)
=============================================================================
