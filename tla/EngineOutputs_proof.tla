------------------------- MODULE EngineOutputs_proof ------------------------
(***************************************************************************)
(* Theorems about EngineOutputs: a solenoid that the main loop has         *)
(* switched off stays off, for every setting and however the interrupt of  *)
(* its timer falls between the loop's statements.                          *)
(***************************************************************************)
EXTENDS EngineOutputs, SequenceTheorems, TLAPS

Solenoid == [pin : BOOLEAN, state : BOOLEAN, enabled : BOOLEAN, asked : BOOLEAN]

\* A solenoid that is asked for is at most about to be enabled.
OnIsEnabled == todo = <<>> \/ todo = <<"enable">>

\* One that is not has its interrupt disabled before its pin is set low, for then
\* nothing raises the pin again.
OffIsDisabledFirst ==
    \/ todo = <<>> /\ ~pwm.enabled /\ ~pwm.pin
    \/ todo = <<"low">> /\ ~pwm.enabled
    \/ todo = <<"disable", "low">>
    \/ todo = <<"enable", "disable", "low">>

\* The inductive invariant.
SolenoidInv ==
    setting.solenoid \in {"boost", "idle"} =>
        /\ pwm \in Solenoid
        /\ pwm.asked => OnIsEnabled
        /\ ~pwm.asked => OffIsDisabledFirst

\* At first the solenoids are off and nothing is left to do.
LEMMA InitSolenoid == ASSUME Init PROVE SolenoidInv
BY DEF Init, SolenoidInv, Solenoid, OnIsEnabled, OffIsDisabledFirst, initialiseIdle,
       initialiseAuxPWM, SolenoidOff

\* A statement of the loop.
LEMMA LoopStatementKeeps ==
    ASSUME SolenoidInv, LoopStatement PROVE SolenoidInv'
<1> SUFFICES ASSUME setting.solenoid \in {"boost", "idle"}
             PROVE  /\ pwm' \in Solenoid
                    /\ pwm'.asked => OnIsEnabled'
                    /\ ~pwm'.asked => OffIsDisabledFirst'
    BY DEF SolenoidInv, LoopStatement
<1>1. pwm \in Solenoid BY DEF SolenoidInv
<1>2. todo # <<>> /\ todo' = Tail(todo) BY DEF LoopStatement
<1>3. CASE todo = <<"enable">>
    <2>1. Head(todo) = "enable" /\ Tail(todo) = <<>> BY <1>3
    <2> QED BY <1>1, <1>2, <1>3, <2>1
            DEF LoopStatement, SolenoidInv, Solenoid, OnIsEnabled, OffIsDisabledFirst
<1>4. CASE todo = <<"low">>
    <2>1. Head(todo) = "low" /\ Tail(todo) = <<>> BY <1>4
    <2> QED BY <1>1, <1>2, <1>4, <2>1
            DEF LoopStatement, SolenoidInv, Solenoid, OnIsEnabled, OffIsDisabledFirst
<1>5. CASE todo = <<"disable", "low">>
    <2>1. Head(todo) = "disable" /\ Tail(todo) = <<"low">> BY <1>5
    <2> QED BY <1>1, <1>2, <1>5, <2>1
            DEF LoopStatement, SolenoidInv, Solenoid, OnIsEnabled, OffIsDisabledFirst
<1>6. CASE todo = <<"enable", "disable", "low">>
    <2>1. Head(todo) = "enable" /\ Tail(todo) = <<"disable", "low">> BY <1>6
    <2> QED BY <1>1, <1>2, <1>6, <2>1
            DEF LoopStatement, SolenoidInv, Solenoid, OnIsEnabled, OffIsDisabledFirst
<1> QED BY <1>2, <1>3, <1>4, <1>5, <1>6 DEF SolenoidInv, OnIsEnabled, OffIsDisabledFirst

\* The interrupts raise the pin only while they are enabled.
LEMMA InterruptKeeps ==
    ASSUME SolenoidInv, AuxInterrupt \/ idleInterrupt PROVE SolenoidInv'
BY DEF SolenoidInv, Solenoid, OnIsEnabled, OffIsDisabledFirst, AuxInterrupt, idleInterrupt

\* The stall branch and the control routines begin when the loop has no statement left.
LEMMA StalledKeeps == ASSUME SolenoidInv, Stalled PROVE SolenoidInv'
BY DEF SolenoidInv, Solenoid, OnIsEnabled, OffIsDisabledFirst, Stalled, Turns, SwitchOff,
       DisableThenLow

\* The statements that idlePWM puts together.
LEMMA SwitchedStatements ==
    /\ <<>> \o <<>> = <<>>
    /\ <<"enable">> \o <<>> = <<"enable">>
    /\ <<>> \o <<"disable", "low">> = <<"disable", "low">>
    /\ <<"enable">> \o <<"disable", "low">> = <<"enable", "disable", "low">>
<1> DEFINE S == {"enable", "disable", "low"}
           one == <<"enable">>
           two == <<"disable", "low">>
           three == <<"enable", "disable", "low">>
<1>1. one \in Seq(S) /\ two \in Seq(S) /\ three \in Seq(S) OBVIOUS
<1>2. <<>> \in Seq(S) BY EmptySeq
<1>3. /\ one \o two \in Seq(S)
      /\ Len(one \o two) = 3
      /\ \A i \in 1..3 : (one \o two)[i] = IF i <= 1 THEN one[i] ELSE two[i - 1]
    <2>1. Len(one) = 1 /\ Len(two) = 2 OBVIOUS
    <2>2. /\ one \o two \in Seq(S)
          /\ Len(one \o two) = Len(one) + Len(two)
          /\ \A i \in 1..Len(one) + Len(two) :
                (one \o two)[i] = IF i <= Len(one) THEN one[i] ELSE two[i - Len(one)]
        <3> HIDE DEF one, two, S
        <3> QED BY <1>1, ConcatProperties, Zenon
    <2> HIDE DEF one, two, S
    <2> QED BY <2>1, <2>2
<1>4. \A i \in 1..3 : (one \o two)[i] = three[i]
    <2>1. 1..3 = {1, 2, 3} OBVIOUS
    <2> QED BY <1>3, <2>1
<1>5. one \o two = three
    <2>1. Len(three) = 3 OBVIOUS
    <2> HIDE DEF one, two, three, S
    <2> QED BY <1>1, <1>3, <1>4, <2>1, SeqEqual
<1>6. one \o <<>> = one /\ <<>> \o two = two /\ <<>> \o <<>> = <<>>
    <2> HIDE DEF one, two, S
    <2> QED BY <1>1, <1>2, ConcatEmptySeq
<1> QED BY <1>5, <1>6

\* boostControl and idlePWM leave a solenoid they switch off with its statements to come.
LEMMA ControlKeeps == ASSUME SolenoidInv, ControlSolenoid PROVE SolenoidInv'
<1> USE DEF SolenoidInv, Solenoid, OnIsEnabled, OffIsDisabledFirst, DisableThenLow
<1> SUFFICES ASSUME setting.solenoid \in {"boost", "idle"}
             PROVE  /\ pwm' \in Solenoid
                    /\ pwm'.asked => OnIsEnabled'
                    /\ ~pwm'.asked => OffIsDisabledFirst'
    BY DEF ControlSolenoid, Turns
<1>1. CASE boostControl BY <1>1 DEF boostControl
<1>2. CASE idlePWM
    <2>1. PICK on \in BOOLEAN :
            /\ todo' = (IF Turning THEN <<"enable">> ELSE <<>>)
                         \o (IF on THEN <<>> ELSE <<"disable", "low">>)
            /\ pwm' = [pwm EXCEPT !.asked = on]
        BY <1>2 DEF idlePWM
    <2>2. CASE on
        <3>1. todo' = <<>> \/ todo' = <<"enable">> BY <2>1, <2>2, SwitchedStatements
        <3> QED BY <2>1, <2>2, <3>1
    <2>3. CASE ~on
        <3>1. todo' = <<"disable", "low">> \/ todo' = <<"enable", "disable", "low">>
            BY <2>1, <2>3, SwitchedStatements
        <3> QED BY <2>1, <2>3, <3>1
    <2> QED BY <2>2, <2>3
<1>3. CASE UNCHANGED <<pwm, todo>> BY <1>3
<1> QED BY <1>1, <1>2, <1>3 DEF ControlSolenoid

\* Every step keeps the invariant.
LEMMA NextSolenoid == ASSUME SolenoidInv, [Next]_vars PROVE SolenoidInv'
<1> USE DEF SolenoidInv, OnIsEnabled, OffIsDisabledFirst
<1>1. CASE EngineChanges BY <1>1 DEF EngineChanges
<1>2. CASE CoolantChanges BY <1>2 DEF CoolantChanges
<1>3. CASE SupplyChanges BY <1>3 DEF SupplyChanges
<1>4. CASE OneSecond BY <1>4 DEF OneSecond
<1>5. CASE AuxInterrupt \/ idleInterrupt BY <1>5, InterruptKeeps
<1>6. CASE LoopStatement BY <1>6, LoopStatementKeeps
<1>7. CASE Running BY <1>7 DEF Running, Turns
<1>8. CASE Stalled BY <1>8, StalledKeeps
<1>9. CASE readBat BY <1>9 DEF readBat, Turns
<1>10. CASE NotNow BY <1>10 DEF NotNow, Turns
<1>11. CASE ControlSolenoid BY <1>11, ControlKeeps
<1>12. CASE ControlStepper BY <1>12 DEF ControlStepper, Turns
<1>13. CASE Tick BY <1>13 DEF Tick
<1>14. CASE UNCHANGED vars BY <1>14 DEF vars
<1> QED BY <1>1, <1>2, <1>3, <1>4, <1>5, <1>6, <1>7, <1>8, <1>9, <1>10, <1>11, <1>12, <1>13,
           <1>14 DEF Next, Loop

\* A boost or idle solenoid that the loop has switched off stays off, whenever the
\* interrupt of its timer came between the statements that switch it off
\* (boostDisable(), disableIdle()): for every setting, normal or reversed.
THEOREM SolenoidsStayOff == Spec => []SolenoidStaysOff
<1>1. Init => SolenoidInv BY InitSolenoid
<1>2. SolenoidInv /\ [Next]_vars => SolenoidInv' BY NextSolenoid
<1>3. SolenoidInv => SolenoidStaysOff
    BY DEF SolenoidInv, SolenoidStaysOff, OffIsDisabledFirst
<1> QED BY <1>1, <1>2, <1>3, PTL DEF Spec
=============================================================================
