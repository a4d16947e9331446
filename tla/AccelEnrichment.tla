--------------------------- MODULE AccelEnrichment ---------------------------
(***************************************************************************)
(* The enrichment of an acceleration (correctionAccel() of corrections.ino *)
(* with the throttle; with the manifold's pressure it is the same) and the *)
(* readings it is made from (readTPS() of sensors.ino).                    *)
(*                                                                         *)
(* The throttle is read 15 times a second; the loop comes round many times *)
(* between two readings and finds the same movement every time.  An        *)
(* enrichment ends when micros() has reached its end, both of 32 bits: the *)
(* clock wraps after 71 minutes.                                           *)
(***************************************************************************)
EXTENDS Integers

CONSTANTS
    Throttles,      \* positions, in percent
    taeThresh,      \* the rate that asks for enrichment, in percent a tick
    Amounts,        \* what may be added: a lookup of the rate, less the taper of the speed
    aeTime,         \* how long an enrichment lasts, in ticks
    Reading,        \* ticks between two readings of the throttle
    LoopTicks,      \* the loop comes round again within so many ticks
    ClockSize       \* micros() counts modulo this, 2^32 in the code

ASSUME AccelAssumption ==
    /\ Throttles \subseteq 0 .. 100 /\ Amounts \subseteq Nat
    /\ aeTime \in Nat /\ Reading \in Nat \ {0} /\ LoopTicks \in Nat \ {0}
    /\ ClockSize \in Nat /\ ClockSize > aeTime + LoopTicks

VARIABLES
    micros,         \* the clock
    throttle,       \* TPS, TPSlast, and the age of the reading in ticks
    accel,          \* BIT_ENGINE_ACC, AEEndTime and AEamount
    waiting,        \* ticks since the loop came round
    history         \* of the enrichment: ticks it has lasted, whether its end is beyond the
                    \* clock's wrap

accelVars == <<micros, throttle, accel, waiting, history>>

AccelInit ==
    /\ micros = 0
    /\ \E t \in Throttles : throttle = [TPS |-> t, TPSlast |-> t, age |-> 0]
    /\ accel = [on |-> FALSE, AEEndTime |-> 0, AEamount |-> 100]
    /\ waiting = 0
    /\ history = [lasted |-> 0, wraps |-> FALSE]

----------------------------------------------------------------------------
\* A movement of 2 percent or less, or backwards, is none.
TPS_change == throttle.TPS - throttle.TPSlast
AsksForMore == TPS_change > 2 /\ TPS_change > taeThresh * Reading

\* The end has the clock's own width.
EndTime == (micros + aeTime) % ClockSize

\* Mutant of HasEnded: a test for the end itself.
HasEndedAt(end) == micros = end

HasEnded(end) == micros >= end

\* The amount stays what it was when the enrichment began.
StartEnrichment ==
    /\ ~accel.on /\ AsksForMore
    /\ \E amount \in Amounts :
          accel' = [on |-> TRUE, AEEndTime |-> EndTime, AEamount |-> 100 + amount]
    /\ history' = [lasted |-> 0, wraps |-> EndTime < micros]

KeepEnrichment == accel.on /\ ~HasEnded(accel.AEEndTime) /\ UNCHANGED <<accel, history>>

\* It is over, or there is none and no reason for one.
NoEnrichment ==
    /\ IF accel.on THEN HasEnded(accel.AEEndTime) ELSE ~AsksForMore
    /\ accel' = [accel EXCEPT !.on = FALSE, !.AEamount = 100]
    /\ UNCHANGED history

correctionAccel ==
    /\ StartEnrichment \/ KeepEnrichment \/ NoEnrichment
    /\ waiting' = 0
    /\ UNCHANGED <<micros, throttle>>

\* The 15 Hz part of the loop, when its time has come.
readTPS ==
    /\ throttle.age >= Reading
    /\ \E t \in Throttles : throttle' = [TPS |-> t, TPSlast |-> throttle.TPS, age |-> 0]
    /\ UNCHANGED <<micros, accel, waiting, history>>

\* History: an enrichment has lasted a tick longer.
OneMore(lasted) == IF accel.on /\ lasted <= aeTime + LoopTicks THEN lasted + 1 ELSE lasted

ClockTick ==
    /\ waiting < LoopTicks /\ throttle.age < Reading
    /\ micros' = (micros + 1) % ClockSize
    /\ throttle' = [throttle EXCEPT !.age = @ + 1]
    /\ waiting' = waiting + 1
    /\ history' = [history EXCEPT !.lasted = OneMore(@)]
    /\ UNCHANGED accel

AccelNext == correctionAccel \/ readTPS \/ ClockTick

AccelSpec == AccelInit /\ [][AccelNext]_accelVars

(***************************************************************************)
(* Properties                                                              *)
(***************************************************************************)
\* An enrichment lasts its time, and ends when the loop comes round next: but
\* one whose end wraps is cut short, and one that ends in the last round
\* before the clock wraps may be missed and last until the clock has come
\* there again (micros_safe() >= AEEndTime, in 32 bits).
LateInTheClock == accel.AEEndTime + LoopTicks >= ClockSize
EnrichmentLastsItsTime ==
    [][/\ accel.on /\ ~accel'.on => history.lasted >= aeTime \/ history.wraps
       /\ accel'.on => history'.lasted <= aeTime + LoopTicks \/ LateInTheClock]_accelVars
=============================================================================
