--------------------------- MODULE MCWheelDecoders ---------------------------
(***************************************************************************)
(* Instances of WheelDecoders for TLC.                                     *)
(***************************************************************************)
EXTENDS WheelDecoders

\* The program has run for a while when the engine starts.
Base == [decoder |-> "DualWheel", cylinders |-> 4, teeth |-> 0, multiplier |-> 1,
         filter |-> 0, resync |-> FALSE, sequential |-> FALSE, StgCycles |-> 2,
         ignCranklock |-> TRUE, speed |-> "crank", uptime |-> Long]

Of(d) == [Base EXCEPT !.decoder = d]

DualWheel == [Of("DualWheel") EXCEPT !.teeth = 6, !.filter = 2, !.resync = TRUE,
                                     !.sequential = TRUE]
Non360 == [Of("non360") EXCEPT !.teeth = 7, !.multiplier = 7, !.resync = TRUE]

EveryConfig ==
    {DualWheel, [DualWheel EXCEPT !.speed = "high"],
     Non360,
     [Of("BasicDistributor") EXCEPT !.speed = "low"],
     [Of("GM7X") EXCEPT !.cylinders = 6, !.StgCycles = 3],
     [Of("4G63") EXCEPT !.filter = 2, !.StgCycles = 3],
     [Of("4G63") EXCEPT !.filter = 1, !.StgCycles = 3, !.speed = "high", !.sequential = TRUE,
                         !.resync = TRUE],
     [Of("4G63") EXCEPT !.cylinders = 6, !.StgCycles = 3],
     Of("24X"),
     [Of("Jeep2000") EXCEPT !.cylinders = 6],
     Of("Audi135"),
     [Of("HondaD17") EXCEPT !.StgCycles = 3],
     [Of("Miata9905") EXCEPT !.resync = TRUE, !.filter = 2, !.speed = "low"],
     [Of("Miata9905") EXCEPT !.resync = TRUE, !.filter = 1, !.speed = "high", !.sequential = TRUE],
     [Of("Nissan360") EXCEPT !.sequential = TRUE, !.speed = "low"],
     [Of("Subaru67") EXCEPT !.sequential = TRUE, !.speed = "low"],
     [Of("Subaru67") EXCEPT !.speed = "low"],
     [Of("Daihatsu") EXCEPT !.cylinders = 3],
     [Of("Harley") EXCEPT !.StgCycles = 3, !.filter = 1],
     [Of("ThirtySixMinus222") EXCEPT !.teeth = 36, !.filter = 1]}

\* Which of them recover from what.
AllFaults == {"lost", "noise", "speed", "stop"}

MCFaultsOf(c) ==
    CASE c.decoder \in {"DualWheel", "non360", "BasicDistributor", "24X", "Jeep2000",
                        "Miata9905", "Harley"} -> AllFaults
      [] c.decoder = "4G63" ->
            IF c.cylinders = 4 THEN AllFaults ELSE {"speed"}
      [] c.decoder \in {"GM7X", "Subaru67", "Daihatsu", "ThirtySixMinus222"} ->
            IF c.decoder = "GM7X" THEN {"speed"} ELSE {"speed", "stop"}
      [] OTHER -> {}

\* The engine may have stopped anywhere; of large wheels a few positions are taken.
MCStartsOf(c) ==
    CASE c.decoder \in {"Audi135", "Nissan360"} -> {1, 100}
      [] c.decoder \in {"24X", "ThirtySixMinus222"} -> {1, 10, 30}
      [] c.decoder = "HondaD17" -> (1 .. 26) \ {10, 23}
      [] c.decoder = "GM7X" -> (1 .. 14) \ {2, 9}
      [] OTHER -> 1 .. Len(Wheel(c))

MazdaConfig == {Of("MazdaAU")}
Nothing(c) == {}
=============================================================================
