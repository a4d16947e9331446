--------------------------- MODULE ClosedLoopFuel ---------------------------
(***************************************************************************)
(* The correction of the mixture from the oxygen sensor by the simple      *)
(* algorithm (correctionAFRClosedLoop() of corrections.ino): a step of one *)
(* percent every egoCount ignition events, up to egoLimit either way.      *)
(*                                                                         *)
(* The events are counted by the ignition interrupts in a variable of two  *)
(* bytes (ignitionCount), which the loop of an 8 bit board reads one byte  *)
(* after the other, twice; the stall branch of the loop sets it back.      *)
(***************************************************************************)
EXTENDS Integers

CONSTANTS
    egoCount,       \* events between two steps
    egoLimit,       \* percent, either way
    ByteSize        \* values of a byte of ignitionCount, 256 in the code

ASSUME ClosedLoopAssumption ==
    /\ egoLimit \in 0 .. 99
    /\ ByteSize \in Nat /\ egoCount \in 0 .. ByteSize - 1

CountSize == ByteSize * ByteSize

VARIABLES
    ignitionCount,
    AFRnextCycle,       \* the count at which the next step is due
    egoCorrection,      \* percent
    mixture,            \* O2 against afrTarget
    closedLoop          \* coolant, RPM, TPS, O2 and run time allow corrections

egoVars == <<ignitionCount, AFRnextCycle, egoCorrection, mixture, closedLoop>>

EgoInit ==
    /\ ignitionCount = 0 /\ AFRnextCycle = 0
    /\ egoCorrection = 100
    /\ mixture = "on target" /\ closedLoop = FALSE

----------------------------------------------------------------------------
NextCount(count) == (count + 1) % CountSize

\* The low byte of one count and the high byte of the next.
Mixed(low, high) == (high \div ByteSize) * ByteSize + (low % ByteSize)

\* The interrupts of the ignition schedules.
Spark ==
    /\ ignitionCount' = NextCount(ignitionCount)
    /\ UNCHANGED <<AFRnextCycle, egoCorrection, mixture, closedLoop>>

\* Sensors: what the mixture is, and whether the conditions are met.
readO2 ==
    /\ mixture' \in {"lean", "on target", "rich"} /\ closedLoop' \in BOOLEAN
    /\ UNCHANGED <<ignitionCount, AFRnextCycle, egoCorrection>>

\* One percent more for a lean mixture and one less for a rich one, as far
\* as the limits allow.
Step(correction) ==
    CASE mixture = "lean" /\ correction < 100 + egoLimit -> correction + 1
      [] mixture = "rich" /\ correction > 100 - egoLimit -> correction - 1
      [] OTHER -> correction

\* How the loop reads the count twice, to compare it and to set the next
\* cycle from it: before a spark, after one, or with one in between, also
\* between the bytes.
Readings ==
    LET now == ignitionCount
        next == NextCount(now)
    IN  {[seen |-> now, from |-> now, count |-> now],
         [seen |-> now, from |-> next, count |-> next],
         [seen |-> Mixed(now, next), from |-> next, count |-> next],
         [seen |-> now, from |-> Mixed(now, next), count |-> next]}

\* A step is due when the count has reached the next cycle.
StepDue(r) ==
    /\ closedLoop /\ r.seen >= AFRnextCycle
    /\ AFRnextCycle' = (r.from + egoCount) % CountSize
    /\ egoCorrection' = Step(egoCorrection)

\* Mutant of StepNotDue: a round without a step has no correction.
StepNotDueIsNone(r) ==
    /\ closedLoop /\ r.seen < AFRnextCycle
    /\ egoCorrection' = 100
    /\ UNCHANGED AFRnextCycle

\* The correction stays on until the next step.
StepNotDue(r) ==
    /\ closedLoop /\ r.seen < AFRnextCycle
    /\ UNCHANGED <<AFRnextCycle, egoCorrection>>

OpenLoop == ~closedLoop /\ egoCorrection' = 100 /\ UNCHANGED AFRnextCycle

Corrects(r) ==
    /\ ignitionCount' = r.count
    /\ UNCHANGED <<mixture, closedLoop>>

correctionAFRClosedLoop ==
    \E r \in Readings : (StepDue(r) \/ StepNotDue(r) \/ OpenLoop) /\ Corrects(r)

\* The engine stops: the count and the next cycle are set back, the
\* correction is kept until the loop computes it again.
Stall ==
    /\ ignitionCount' = 0 /\ AFRnextCycle' = 0 /\ closedLoop' = FALSE
    /\ UNCHANGED <<egoCorrection, mixture>>

EgoNext == Spark \/ readO2 \/ correctionAFRClosedLoop \/ Stall

\* The engine keeps firing, and the loop comes round more often than it
\* fires: it does not miss for ever that a step is due.
StepWhenDue == \E r \in Readings : StepDue(r) /\ Corrects(r)

EgoFairness == WF_egoVars(Spark) /\ SF_egoVars(StepWhenDue)

EgoSpec == EgoInit /\ [][EgoNext]_egoVars /\ EgoFairness

(***************************************************************************)
(* Properties                                                              *)
(***************************************************************************)
\* A mixture that stays lean is corrected as far as the limit allows, and
\* stays so: whatever the count was when the loop closed, and although it is
\* read in two bytes, wraps at 16 bits and the next cycle with it.
LeanIsCorrected ==
    <>[](closedLoop /\ mixture = "lean") => <>[](egoCorrection = 100 + egoLimit)
=============================================================================
