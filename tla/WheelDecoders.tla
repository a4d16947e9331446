---------------------------- MODULE WheelDecoders ----------------------------
(***************************************************************************)
(* The trigger decoders on an engine: its teeth pass under the sensors,    *)
(* the handlers run, and the main loop takes the speed or finds that the   *)
(* engine stands.  A pulse may be lost, noise may add one, the speed may   *)
(* change and the engine may stop.                                         *)
(***************************************************************************)
EXTENDS PerToothTiming

CONSTANTS
    Configs,     \* the settings
    Paces,       \* how long a degree takes, at each speed of the engine
    FaultsOf(_), \* what may go wrong with these settings
    StartsOf(_), \* the positions in which the engine may be at first
    MaxTrouble   \* bound: of all that may go wrong

ASSUME ConfigAssumption ==
    \A c \in Configs : /\ c \in Config
                       /\ FaultsOf(c) \subseteq {"lost", "noise", "speed", "stop"}
                       /\ StartsOf(c) \subseteq 1 .. Len(Wheel(c))
ASSUME PaceAssumption == Paces \subseteq Nat \ {0} /\ MaxTrouble \in Nat

VARIABLES
    slot,     \* what passed last, in Wheel(config)
    halfway,  \* noise has come since, midway to the next
    pace,
    trouble,  \* what has gone wrong so far
    clean,    \* since the engine started no pulse was lost or added,
    steady    \*   and its speed has not changed

turning == <<slot, halfway, pace>>
quality == <<trouble, clean, steady>>
vars == <<config, RPM, ecu, turning, quality>>

Wheels == [c \in Configs |-> Wheel(c)]
TheWheel == Wheels[config]
TrueAngle == TheWheel[slot].at
Next1(s) == IF s = Len(TheWheel) THEN 1 ELSE s + 1
Gap(s) == (TheWheel[Next1(s)].at - TheWheel[s].at) % 720
Halfway(s) == Gap(s) \div 2

\* The time to the next tooth.
TimeLeft == pace * (IF halfway THEN Gap(slot) - Halfway(slot) ELSE Gap(slot))

Init ==
    /\ config \in Configs
    /\ RPM = "zero"
    /\ ecu = Started
    /\ slot \in StartsOf(config)
    /\ halfway = FALSE
    /\ pace \in Paces
    /\ trouble = 0
    /\ clean = TRUE
    /\ steady = TRUE

-----------------------------------------------------------------------------
Handled(e, signal) == IF signal = "primary" THEN PrimaryPulse(e) ELSE SecondaryPulse(e)

Turned ==
    /\ slot' = Next1(slot)
    /\ halfway' = FALSE

\* The next tooth of the crank or the cam passes, and its interrupt is served.
Tooth ==
    LET next == TheWheel[Next1(slot)]
    IN  /\ ecu' = Handled(Later(ecu, TimeLeft, next.at), next.signal)
        /\ Turned
        /\ UNCHANGED <<config, RPM, pace, quality>>

Trouble(kind) ==
    /\ kind \in FaultsOf(config)
    /\ trouble < MaxTrouble
    /\ trouble' = trouble + 1

\* The next tooth passes and raises no interrupt.
LosePulse ==
    /\ Trouble("lost")
    /\ ecu' = Later(ecu, TimeLeft, TheWheel[Next1(slot)].at)
    /\ Turned
    /\ clean' = FALSE
    /\ UNCHANGED <<config, RPM, pace, steady>>

\* A pulse where there is no tooth; it may be over before its handler reads the pin.
NoisePulse ==
    /\ Trouble("noise")
    /\ ~halfway
    /\ halfway' = TRUE
    /\ clean' = FALSE
    /\ LET angle == TheWheel[slot].at + Halfway(slot)
           e == Later(ecu, pace * Halfway(slot), angle)
       IN  \E signal \in {"primary", "secondary"}, noisy \in {e, [e EXCEPT !.crankHigh = FALSE]} :
                ecu' = Handled(noisy, signal)
    /\ UNCHANGED <<config, RPM, slot, pace, steady>>

\* The engine gets faster or slower.
ChangeSpeed ==
    /\ Trouble("speed")
    /\ pace' \in Paces \ {pace}
    /\ steady' = FALSE
    /\ UNCHANGED <<config, RPM, ecu, slot, halfway, clean>>

\* The engine stops, the main loop sees it, and the engine starts again.
Stop ==
    /\ Trouble("stop")
    /\ ecu' = Stalled(Later(ecu, Long, TrueAngle))
    /\ RPM' = "zero"
    /\ clean' = TRUE
    /\ steady' = TRUE
    /\ UNCHANGED <<config, turning>>

\* The main loop while teeth come: currentStatus.RPM = getRPM(), and the crank
\* and run bits.
ReadRPM ==
    /\ ~TeethAreOld(ecu)
    /\ RPM' = IF RevolutionTime(ecu) = 0 THEN "zero" ELSE config.speed
    /\ UNCHANGED <<config, ecu, turning, quality>>

\* The main loop otherwise, in every round of it, whether the engine stands or
\* turns and no tooth's time has been kept yet.
StallBranch ==
    /\ TeethAreOld(ecu)
    /\ ecu' = Stalled(ecu)
    /\ RPM' = "zero"
    /\ UNCHANGED <<config, turning, quality>>

MainLoop == ReadRPM \/ StallBranch

Next ==
    \/ Tooth
    \/ LosePulse
    \/ NoisePulse
    \/ ChangeSpeed
    \/ Stop
    \/ MainLoop

Spec == Init /\ [][Next]_vars

\* The engine turns, and the main loop runs.
Fairness == WF_turning(Turned /\ UNCHANGED pace) /\ WF_vars(MainLoop)

FairSpec == Spec /\ Fairness

\* The teeth of an engine that is cranked are tens of milliseconds apart, many
\* rounds of the main loop: none passes before a stall that is due is dealt with.
LoopIsDone == TeethAreOld(ecu) => ecu = Stalled(ecu) /\ RPM = "zero"

CrankingSpec == Init /\ [][(Tooth /\ LoopIsDone) \/ MainLoop]_vars /\ Fairness

-----------------------------------------------------------------------------
(***************************************************************************)
(* Properties.                                                             *)
(***************************************************************************)

\* The variables have their types.
TypeOK ==
    /\ config \in Configs
    /\ RPM \in {"zero", "crank", "low", "high"}
    /\ DOMAIN ecu = DOMAIN Zeroed
    /\ \A f \in Stamps : ecu[f] \in Never .. Long
    /\ ecu.toothCurrentCount \in 0 .. MostTeeth + 2
    /\ ecu.startRevolutions \in 0 .. MaxRevolutions
    /\ ecu.syncLossCounter \in 0 .. MaxLosses
    /\ ecu.hasSync \in BOOLEAN
    /\ slot \in 1 .. Len(TheWheel)
    /\ trouble \in 0 .. MaxTrouble

\* The angle at which a decoder's knowledge of the position repeats: the basic
\* distributor's teeth are all alike.
Period == IF Decoder = "BasicDistributor" THEN 720 \div Cylinders ELSE CRANK_ANGLE_MAX

SameAngle(a, b) == (a - b) % Period = 0

AtCrankTooth == TheWheel[slot].signal = "primary" /\ ~halfway

\* Outputs are scheduled from here on.
Staged == ecu.hasSync /\ ecu.startRevolutions >= config.StgCycles

InStep == Staged /\ SameAngle(getCrankAngle(ecu, pace), TrueAngle)

\* However the engine stood when it started: once a decoder that has seen every
\* pulse has sync and its revolutions, getCrankAngle() returns at each tooth of
\* the crank the angle at which the crank is.
SyncedAngleIsTrue == clean /\ steady /\ Staged /\ AtCrankTooth => InStep

\* Then getRPM() returns the engine's speed, to a twentieth, or 0 until it is known.
\* Not so for two decoders while the engine is cranked, nor for the Harley's.
SpeedIsTrue ==
    clean /\ steady /\ Staged
    /\ Decoder \notin {"BasicDistributor", "ThirtySixMinus222", "Harley"}
        => RevolutionTime(ecu) \in {0} \cup 342 * pace .. 378 * pace

\* triggerToothAngleIsCorrect says that triggerToothAngle is the angle between the
\* last two teeth; their time is then that angle's. Decoders that do not keep the
\* last tooth's time, or set the flag for good, are left out.
ToothAngleIsCorrect ==
    clean /\ steady /\ Staged /\ ecu.triggerToothAngleIsCorrect
    /\ Decoder \notin {"GM7X", "24X"}
        => LastInterval(ecu) = ecu.triggerToothAngle * pace

\* What per-tooth timing compares the ends of the ignition schedules with when a
\* tooth passes, an angle and a tooth's number, are both this tooth's.
CheckedToothIsTrue ==
    clean /\ Staged /\ ecu.check # None =>
        LET before == ecu.check[2] - 1
            angle == Angles[(before % Len(Angles)) + 1] + 360 * (before \div Len(Angles))
        IN  /\ before >= 0
            /\ SameAngle(ecu.check[1], TrueAngle)
            /\ SameAngle(angle, TrueAngle)

\* The tooth at which per-tooth timing sets the end of a channel's dwell again comes
\* before its spark, whatever the advance, and by half a revolution at most: at the
\* spark itself the end would be set to the timer's present count, after it to a whole
\* revolution later.  The dual wheel's, whose limit is not set, may be a turn earlier.
EndToothIsBeforeSpark ==
    clean /\ Staged /\ ecu.check # None =>
        \A advance \in Advances : \A i \in Retimed(advance, ecu.check[2]) :
            DegreesLeft(i, advance, ecu.check[1])
                \in 1 .. (IF Decoder = "DualWheel" THEN 540 ELSE 180)

\* A coil that locked cranking timing fires is one whose cylinder, or the one it
\* shares its revolution with, has 12 degrees or less to its top dead centre.
ReleasedCoilIsDue ==
    clean /\ Staged /\ Decoder # "Daihatsu" =>
        \A coil \in ecu.released :
            (((coil - 1) * 720) \div Cylinders - TrueAngle) % 360 <= 12

\* A change of speed of a tenth, and starting and stopping, never cost a decoder
\* that has seen every pulse its sync: its filters let every tooth pass.
SyncLasts == [][clean /\ Staged => Staged' \/ trouble' # trouble]_vars

\* From any start, and whatever of FaultsOf went wrong, the decoder gets to where
\* it knows the angle at every tooth, and stays there.
EventuallyRuns == <>[](AtCrankTooth => InStep)

\* "we find sync by looking for the 2 teeth that are close together" (decoders.ino,
\* triggerSec_MazdaAU): an engine that is cranked gets sync.
EventuallySyncs == <>(ecu.hasSync)
=============================================================================
