---------------------------- MODULE TriggerWheels ----------------------------
(***************************************************************************)
(* The trigger wheels that the decoders other than the missing tooth one   *)
(* are written for (decoders.ino): where their teeth are.                  *)
(*                                                                         *)
(* toothAngles is the table that a decoder's set-up fills, or what its     *)
(* getCrankAngle computes instead of one: the crank angle of tooth #1, #2, *)
(* and so on, with a trigger angle of 0.  A wheel is the sequence in which *)
(* teeth and cam edges pass in an engine cycle of 720 degrees.  It is not  *)
(* part of the program: the crank teeth are where the table says they are, *)
(* the cam teeth where the handlers' comments say.                         *)
(***************************************************************************)
EXTENDS Integers, Sequences, FiniteSets, TLC

Decoders ==
    {"DualWheel", "BasicDistributor", "GM7X", "4G63", "24X", "Jeep2000",
     "Audi135", "HondaD17", "Miata9905", "MazdaAU", "non360", "Nissan360",
     "Subaru67", "Daihatsu", "Harley", "ThirtySixMinus222"}

\* What configPage2, configPage4 and configPage10 hold, and the speed.
Config ==
    [decoder : Decoders,
     cylinders : {3, 4, 6},       \* nCylinders
     teeth : Nat,                 \* triggerTeeth
     multiplier : Nat,            \* TrigAngMul
     filter : 0 .. 3,             \* triggerFilter
     resync : BOOLEAN,            \* useResync
     sequential : BOOLEAN,        \* sparkMode; CRANK_ANGLE_MAX is 720, or 360
     StgCycles : Nat,
     ignCranklock : BOOLEAN,
     speed : {"crank", "low", "high"},  \* what RPM is once it is known
     uptime : Nat]                \* the age of the program at the first tooth

Even(n, angle) == [i \in 1 .. n |-> (i - 1) * angle]

\* Slots of the 36-2-2-2 wheel that have no tooth.
MissingSlots == {14, 15, 17, 18, 32, 33}

\* The angle of each tooth, by its count.
toothAngles(c) ==
    CASE c.decoder = "DualWheel" -> Even(c.teeth, 360 \div c.teeth)
      [] c.decoder = "non360" ->
            [i \in 1 .. c.teeth |->
                ((i - 1) * ((360 * c.multiplier) \div c.teeth)) \div c.multiplier]
      [] c.decoder = "BasicDistributor" -> Even(c.cylinders, 720 \div c.cylinders)
      [] c.decoder = "GM7X" -> <<42, 102, 112, 162, 222, 282, 342>>
      [] c.decoder = "4G63" /\ c.cylinders = 4 ->
            <<715, 105, 175, 285, 355, 465, 535, 645>>
      [] c.decoder = "4G63" /\ c.cylinders = 6 ->
            <<715, 45, 115, 165, 235, 285, 355, 405, 475, 525, 595, 645>>
      [] c.decoder = "24X" ->
            <<12, 18, 33, 48, 63, 78, 102, 108, 123, 138, 162, 177, 183, 198,
              222, 237, 252, 258, 282, 288, 312, 327, 342, 357>>
      [] c.decoder = "Jeep2000" ->
            <<174, 194, 214, 234, 294, 314, 334, 354, 414, 434, 454, 474>>
      [] c.decoder = "Audi135" -> Even(45, 8)
      [] c.decoder = "HondaD17" -> Even(12, 30)
      [] c.decoder = "Miata9905" -> <<710, 100, 170, 280, 350, 460, 530, 640>>
      [] c.decoder = "MazdaAU" -> <<348, 96, 168, 276>>
      [] c.decoder = "Nissan360" -> Even(360, 2)
      [] c.decoder = "Subaru67" ->
            <<710, 83, 115, 170, 263, 295, 350, 443, 475, 530, 623, 655>>
      [] c.decoder = "Daihatsu" /\ c.cylinders = 3 -> <<0, 30, 240, 480>>
      [] c.decoder = "Daihatsu" /\ c.cylinders = 4 -> <<0, 30, 180, 360, 540>>
      [] c.decoder = "Harley" -> <<0, 157>>
      [] c.decoder = "ThirtySixMinus222" -> Even(36, 10)

\* The decoders that tell the two revolutions of a cycle apart.
CycleDecoders ==
    {"BasicDistributor", "4G63", "Miata9905", "Nissan360", "Subaru67", "Daihatsu"}

-----------------------------------------------------------------------------
(***************************************************************************)
(* The wheel and the cam.                                                  *)
(***************************************************************************)

\* Teeth that are there but that the table does not list: of the Audi's, of
\* which two in three are not counted, and the Honda's thirteenth.
ExtraTeeth(c) ==
    CASE c.decoder = "Audi135" -> {8 * i + 3 : i \in 0 .. 44} \cup {8 * i + 5 : i \in 0 .. 44}
      [] c.decoder = "HondaD17" -> {340}
      [] OTHER -> {}

ListedTeeth(c) ==
    {toothAngles(c)[i] : i \in DOMAIN toothAngles(c)
        \ (IF c.decoder = "ThirtySixMinus222" THEN MissingSlots ELSE {})}

CrankTeeth(c) ==
    LET teeth == ListedTeeth(c) \cup ExtraTeeth(c)
    IN  IF c.decoder \in CycleDecoders
        THEN teeth
        ELSE {a % 720 : a \in teeth} \cup {(a + 360) % 720 : a \in teeth}

\* Angles between which the cam's signal is of one level and then of the other.
CamWindows(c) ==
    CASE c.decoder = "4G63" /\ c.cylinders = 4 -> {<<260, 400>>, <<600, 680>>}
      [] c.decoder = "4G63" /\ c.cylinders = 6 -> {<<340, 380>>, <<690, 60>>}
      [] c.decoder = "24X" -> {<<0, 360>>}
      [] c.decoder = "Jeep2000" -> {<<146, 506>>}
      [] c.decoder = "Nissan360" /\ c.cylinders = 4 ->
            {<<719, 31>>, <<179, 203>>, <<359, 375>>, <<539, 547>>}
      [] c.decoder = "Nissan360" /\ c.cylinders = 6 ->
            {<<719, 23>>, <<119, 135>>, <<239, 247>>, <<359, 407>>, <<479, 519>>,
             <<599, 631>>}
      [] OTHER -> {}

Within(a, w) == IF w[1] < w[2] THEN a >= w[1] /\ a < w[2] ELSE a >= w[1] \/ a < w[2]

CamInWindow(c, a) == \E w \in CamWindows(c) : Within(a, w)

\* The edges or teeth of the cam that raise the secondary interrupt: either
\* edge, the falling one only, or a tooth that is too short for the difference.
CamEvents(c) ==
    CASE c.decoder \in {"24X", "Jeep2000", "Nissan360"} ->
            {w[1] : w \in CamWindows(c)} \cup {w[2] : w \in CamWindows(c)}
      [] c.decoder = "4G63" -> {w[2] : w \in CamWindows(c)}
      [] c.decoder \in {"DualWheel", "non360"} -> {700}
      [] c.decoder = "Audi135" -> {719}
      [] c.decoder = "Miata9905" -> {40, 390, 420}
      [] c.decoder = "MazdaAU" -> {31, 391, 421}
      [] c.decoder = "Subaru67" -> {0, 20, 40, 220, 380, 410, 580}
      [] OTHER -> {}

\* What passes in a cycle, in this order.
Wheel(c) ==
    LET teeth == {[at |-> a, signal |-> "primary"] : a \in CrankTeeth(c)}
                 \cup {[at |-> a, signal |-> "secondary"] : a \in CamEvents(c)}
        place == [t \in teeth |-> Cardinality({s \in teeth : s.at <= t.at})]
    IN  [i \in 1 .. Cardinality(teeth) |-> CHOOSE t \in teeth : place[t] = i]

\* READ_PRI_TRIGGER() and READ_SEC_TRIGGER() when the wheel is at this angle. On
\* the 4G63 every other edge of the crank's signal, from the last in the table on,
\* is a rising one; elsewhere the interrupt is for rising edges. The Nissan's cam
\* signal is low in its windows.
CrankHigh(c, a) ==
    \/ c.decoder # "4G63"
    \/ \E i \in DOMAIN toothAngles(c) :
        LET rising == IF c.cylinders = 4 THEN i % 2 = 0 ELSE i % 2 = 1
            next == IF i = Len(toothAngles(c)) THEN 1 ELSE i + 1
        IN  rising /\ Within(a, <<toothAngles(c)[i], toothAngles(c)[next]>>)

CamHigh(c, a) == IF c.decoder = "Nissan360" THEN ~CamInWindow(c, a) ELSE CamInWindow(c, a)
=============================================================================
