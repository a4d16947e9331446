---------------------------- MODULE PerToothTiming ----------------------------
(***************************************************************************)
(* Per-tooth ignition timing (decoders.ino): each time the advance changes *)
(* triggerSetEndTeeth() chooses for each ignition channel the tooth at     *)
(* which the end of its dwell is set again, from the newest speed of the   *)
(* engine; the handlers do so when that tooth passes.  The trigger angle   *)
(* is 0 and the advance above 0, as in TriggerDecoders; of the channels    *)
(* that a decoder sets, those that the engine has are kept.                *)
(***************************************************************************)
EXTENDS TriggerDecoders

CONSTANT Advances

ASSUME AdvanceAssumption == Advances \subseteq 1 .. 60

\* The degrees of the channels' top dead centres, channel 1's at the end of the cycle.
IgnDegrees ==
    CASE Sequential /\ Cylinders = 4 -> <<720, 180, 360, 540>>
      [] ~Sequential /\ Cylinders = 4 -> <<360, 180>>
      [] OTHER -> <<360, 120, 240>>

\* ignitionNEndAngle: where channel i's spark is due.
EndAngle(i, advance) == IgnDegrees[i] - advance

\* An even wheel.  The dual wheel does not set triggerActualTeeth.  Channel 2 is not
\* limited: its line sets channel 3's tooth, which is then chosen anew.
DualWheelEndTooth(i, end) ==
    LET toothAdder == IF Sequential THEN config.teeth ELSE 0
        before == end \div (360 \div config.teeth) - 1
        wrapped == IF before > config.teeth + toothAdder
                   THEN before - config.teeth - toothAdder ELSE before
        positive == IF wrapped <= 0 THEN wrapped + config.teeth ELSE wrapped
        triggerActualTeeth == 0
    IN  IF i = 2 THEN positive ELSE Least(positive, triggerActualTeeth + toothAdder)

BasicDistributorEndTeeth(advance) ==
    LET end == ignitionLimits(EndAngle(1, advance))
    IN  IF end > 180 \/ end <= 0 THEN <<2, 1>> ELSE <<1, 2>>

GM7XEndTeeth(advance) == IF advance < 18 THEN <<7, 2, 5>> ELSE <<6, 1, 4>>

EndTeeth4G63 ==
    CASE Cylinders = 4 /\ ~Sequential -> <<4, 2, 4, 2>>
      [] Cylinders = 6 /\ ~Sequential -> <<6, 2, 4, 2>>
      [] OTHER -> <<8, 2, 4, 6>>

Miata9905EndTeeth(advance) ==
    CASE Sequential /\ advance >= 10 -> <<8, 2, 4, 6>>
      [] Sequential /\ advance < 10 -> <<1, 3, 5, 7>>
      [] ~Sequential /\ advance >= 10 -> <<4, 2, 4, 2>>
      [] OTHER -> <<1, 3, 1, 3>>

\* Four teeth, of two degrees each, before the one at the spark.
Nissan360EndTooth(end) ==
    (IF end - 4 > 0 THEN end \div 2 ELSE (end + 720) \div 2) - 4

\* Mutant: the tooth at the spark itself is kept when there are 10 degrees of advance.
LateSubaru67EndTeeth(advance) ==
    CASE Sequential /\ advance > 10 -> <<12, 3, 6, 9>>
      [] Sequential /\ advance <= 10 -> <<1, 4, 7, 10>>
      [] ~Sequential /\ advance > 10 -> <<6, 3>>
      [] OTHER -> <<1, 4>>

Subaru67EndTeeth(advance) ==
    CASE Sequential /\ advance >= 10 -> <<12, 3, 6, 9>>
      [] Sequential /\ advance < 10 -> <<1, 4, 7, 10>>
      [] ~Sequential /\ advance >= 10 -> <<6, 3>>
      [] OTHER -> <<1, 4>>

\* Teeth 32 and 33, and 14 and 15, are missing.
ThirtySixMinus222EndTeeth(advance) ==
    <<CASE advance < 10 -> 36
        [] advance \in 10 .. 19 -> 35
        [] advance \in 20 .. 29 -> 34
        [] OTHER -> 31,
      IF advance < 30 THEN 16 ELSE 13>>

\* triggerSetEndTeeth(); the other decoders choose no teeth.
EndTeeth(advance) ==
    CASE Decoder = "DualWheel" ->
            [i \in DOMAIN IgnDegrees |-> DualWheelEndTooth(i, EndAngle(i, advance))]
      [] Decoder = "BasicDistributor" -> BasicDistributorEndTeeth(advance)
      [] Decoder = "GM7X" -> GM7XEndTeeth(advance)
      [] Decoder = "4G63" -> EndTeeth4G63
      [] Decoder = "Miata9905" -> Miata9905EndTeeth(advance)
      [] Decoder = "Nissan360" ->
            [i \in DOMAIN IgnDegrees |-> Nissan360EndTooth(EndAngle(i, advance))]
      [] Decoder = "Subaru67" -> Subaru67EndTeeth(advance)
      [] Decoder = "ThirtySixMinus222" -> ThirtySixMinus222EndTeeth(advance)
      [] OTHER -> <<>>

\* The channel that checkPerToothTiming() sets when this tooth passes, if any: the
\* first whose tooth it is.
Retimed(advance, tooth) ==
    LET teeth == EndTeeth(advance)
        here == {i \in DOMAIN teeth : teeth[i] = tooth}
    IN  {i \in here \cap DOMAIN IgnDegrees : \A j \in here : i <= j}

\* How far the engine is to turn from here to the spark, as the end is set.
DegreesLeft(i, advance, crankAngle) == ignitionLimits(EndAngle(i, advance) - crankAngle)
=============================================================================
