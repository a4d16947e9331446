----------------------- MODULE IgnitionSchedule_proof -----------------------
(***************************************************************************)
(* Proofs about IgnitionSchedule for every set of schedules, coils, timer  *)
(* and clock widths, dwell limit and configuration.                        *)
(***************************************************************************)
EXTENDS IgnitionSchedule, TLAPS

USE DEF Ticks, Clock, NoEnd, timer, schedule, mainLoop, oneMS

\* The 16 bit sum of the counter and a number of ticks is a counter value.
LEMMA AfterInTicks == ASSUME now \in Clock, NEW ticks \in Nat
                      PROVE  After(ticks) \in Ticks
  <1>1. Counter \in Nat
    BY PeriodAssumption DEF Counter
  <1> QED
    BY <1>1, PeriodAssumption DEF After

-----------------------------------------------------------------------------
(***************************************************************************)
(* Type correctness is inductive by itself.                                *)
(***************************************************************************)
LEMMA TypeInit == Init => TypeOK
  BY PeriodAssumption DEF Init, TypeOK, EnabledAtInit

LEMMA TypeStep == TypeOK /\ [Next]_vars => TypeOK'
  <1> SUFFICES ASSUME TypeOK, [Next]_vars PROVE TypeOK'
    OBVIOUS
  <1> USE DEF TypeOK
  <1>1. CASE Tick
    BY <1>1, PeriodAssumption DEF Tick
  <1>2. CASE OverdwellBegin
    BY <1>2, PeriodAssumption, ConfigAssumption DEF OverdwellBegin
  <1>3. ASSUME NEW c \in Channel, NEW t \in Timeouts, NEW d \in Durations,
              SetIgnitionSchedule(c, t, d)
       PROVE  TypeOK'
    BY <1>3 DEF SetIgnitionSchedule
  <1>4. ASSUME NEW c \in Channel, StoreDuration(c)
       PROVE  TypeOK'
    BY <1>4, RequestAssumption DEF StoreDuration, MainAt
  <1>5. ASSUME NEW c \in Channel, Arm(c)
       PROVE  TypeOK'
    <2>1. Clipped(req.timeout) \in Nat
      <3>1. req.timeout \in Nat
        BY <1>5, RequestAssumption DEF Arm, MainAt
      <3> QED
        BY <3>1, PeriodAssumption DEF Clipped
    <2>2. After(Clipped(req.timeout)) \in Ticks
      BY <2>1, AfterInTicks
    <2> QED
      BY <1>5, <2>2 DEF Arm, MainAt
  <1>6. ASSUME NEW c \in Channel, ReadMask(c)
       PROVE  TypeOK'
    BY <1>6 DEF ReadMask, MainAt
  <1>7. ASSUME NEW c \in Channel, WriteMask(c)
       PROVE  TypeOK'
    BY <1>7 DEF WriteMask, MainAt
  <1>8. ASSUME NEW c \in Channel, QueueNextStart(c)
       PROVE  TypeOK'
    <2>1. After(req.timeout) \in Ticks
      BY <1>8, AfterInTicks, RequestAssumption DEF QueueNextStart, MainAt
    <2>2. PICK start \in {After(req.timeout)} \cup TornTicks :
             nextStartCompare' = [nextStartCompare EXCEPT ![c] = start]
      BY <1>8 DEF QueueNextStart
    <2>3. start \in Ticks
      BY <2>1, <2>2, RequestAssumption
    <2> QED
      BY <1>8, <2>2, <2>3 DEF QueueNextStart, MainAt
  <1>9. ASSUME NEW c \in Channel, QueueNext(c)
       PROVE  TypeOK'
    BY <1>9 DEF QueueNext, MainAt
  <1>10. ASSUME NEW c \in Channel, NEW t \in Timeouts, RefreshIgnitionSchedule(c, t)
        PROVE  TypeOK'
    BY <1>10 DEF RefreshIgnitionSchedule
  <1>11. ASSUME NEW c \in Channel, RefreshEnd(c)
        PROVE  TypeOK'
    <2>1. After(req.timeout) \in Ticks
      BY <1>11, AfterInTicks, RequestAssumption DEF RefreshEnd, MainAt
    <2> QED
      BY <1>11, <2>1 DEF RefreshEnd, MainAt
  <1>12. ASSUME NEW c \in Channel, NEW lead \in ToothLeads, EndTooth(c, lead)
        PROVE  TypeOK'
    <2>1. After(lead) \in Ticks
      BY AfterInTicks, RequestAssumption
    <2> QED
      BY <1>12, <2>1 DEF EndTooth
  <1>13. ASSUME NEW c \in Channel, StartDwell(c)
        PROVE  TypeOK'
    <2>1. EndOfDwell(c) \in Ticks
      BY AfterInTicks DEF EndOfDwell
    <2> QED
      BY <1>13, <2>1, DrivesAssumption DEF StartDwell, Acknowledge
  <1>14. ASSUME NEW c \in Channel, EndDwell(c)
        PROVE  TypeOK'
    BY <1>14 DEF EndDwell, Acknowledge
  <1>15. ASSUME NEW c \in Channel, EndDwellAndActivateNext(c)
        PROVE  TypeOK'
    BY <1>15 DEF EndDwellAndActivateNext, Acknowledge
  <1>16. ASSUME NEW c \in Channel, SpuriousInterrupt(c)
        PROVE  TypeOK'
    BY <1>16 DEF SpuriousInterrupt, Acknowledge
  <1>17. ASSUME NEW c \in Channel, OverdwellLook(c)
        PROVE  TypeOK'
    BY <1>17 DEF OverdwellLook, DoneWith
  <1>18. ASSUME NEW c \in Channel, OverdwellCut(c)
        PROVE  TypeOK'
    BY <1>18 DEF OverdwellCut
  <1>19. ASSUME NEW c \in Channel, OverdwellClear(c)
        PROVE  TypeOK'
    BY <1>19 DEF OverdwellClear, DoneWith
  <1>20. CASE UNCHANGED vars
    BY <1>20 DEF vars
  <1> QED
    BY <1>1, <1>2, <1>3, <1>4, <1>5, <1>6, <1>7, <1>8, <1>9, <1>10,
       <1>11, <1>12, <1>13, <1>14, <1>15, <1>16, <1>17, <1>18, <1>19,
       <1>20
    DEF Next, Proceed, IgnitionScheduleInterrupt, OverdwellStep

\* Every register and every field keeps its type, whoever interrupts whom.
THEOREM TypeCorrect == Spec => []TypeOK
  BY TypeInit, TypeStep, PTL DEF Spec

-----------------------------------------------------------------------------
(***************************************************************************)
(* A schedule in progress is never left without its interrupt.             *)
(***************************************************************************)
LEMMA MaskStep ==
  TypeOK /\ ActiveIsEnabled /\ MaskIsFresh /\ [Next]_vars
  => ActiveIsEnabled' /\ MaskIsFresh'
  <1> SUFFICES ASSUME TypeOK, ActiveIsEnabled, MaskIsFresh, [Next]_vars
               PROVE  ActiveIsEnabled' /\ MaskIsFresh'
    OBVIOUS
  <1> USE DEF TypeOK, ActiveIsEnabled, MaskIsFresh, Enabling
  <1>1. CASE Tick
    BY <1>1 DEF Tick
  <1>2. CASE OverdwellBegin
    BY <1>2 DEF OverdwellBegin
  <1>3. ASSUME NEW c \in Channel, NEW t \in Timeouts, NEW d \in Durations,
              SetIgnitionSchedule(c, t, d)
       PROVE  ActiveIsEnabled' /\ MaskIsFresh'
    BY <1>3 DEF SetIgnitionSchedule
  <1>4. ASSUME NEW c \in Channel, StoreDuration(c)
       PROVE  ActiveIsEnabled' /\ MaskIsFresh'
    BY <1>4 DEF StoreDuration, MainAt
  <1>5. ASSUME NEW c \in Channel, Arm(c)
       PROVE  ActiveIsEnabled' /\ MaskIsFresh'
    BY <1>5 DEF Arm, MainAt
  <1>6. ASSUME NEW c \in Channel, ReadMask(c)
       PROVE  ActiveIsEnabled' /\ MaskIsFresh'
    BY <1>6 DEF ReadMask, MainAt
  <1>7. ASSUME NEW c \in Channel, WriteMask(c)
       PROVE  ActiveIsEnabled' /\ MaskIsFresh'
    BY <1>7 DEF WriteMask, MainAt
  <1>8. ASSUME NEW c \in Channel, QueueNextStart(c)
       PROVE  ActiveIsEnabled' /\ MaskIsFresh'
    BY <1>8 DEF QueueNextStart, MainAt
  <1>9. ASSUME NEW c \in Channel, QueueNext(c)
       PROVE  ActiveIsEnabled' /\ MaskIsFresh'
    BY <1>9 DEF QueueNext, MainAt
  <1>10. ASSUME NEW c \in Channel, NEW t \in Timeouts, RefreshIgnitionSchedule(c, t)
        PROVE  ActiveIsEnabled' /\ MaskIsFresh'
    BY <1>10 DEF RefreshIgnitionSchedule
  <1>11. ASSUME NEW c \in Channel, RefreshEnd(c)
        PROVE  ActiveIsEnabled' /\ MaskIsFresh'
    BY <1>11 DEF RefreshEnd, MainAt
  <1>12. ASSUME NEW c \in Channel, NEW lead \in ToothLeads, EndTooth(c, lead)
        PROVE  ActiveIsEnabled' /\ MaskIsFresh'
    BY <1>12 DEF EndTooth
  <1>13. ASSUME NEW c \in Channel, StartDwell(c)
        PROVE  ActiveIsEnabled' /\ MaskIsFresh'
    BY <1>13 DEF StartDwell, Acknowledge
  <1>14. ASSUME NEW c \in Channel, EndDwell(c)
        PROVE  ActiveIsEnabled' /\ MaskIsFresh'
    BY <1>14 DEF EndDwell, Acknowledge
  <1>15. ASSUME NEW c \in Channel, EndDwellAndActivateNext(c)
        PROVE  ActiveIsEnabled' /\ MaskIsFresh'
    BY <1>15 DEF EndDwellAndActivateNext, Acknowledge
  <1>16. ASSUME NEW c \in Channel, SpuriousInterrupt(c)
        PROVE  ActiveIsEnabled' /\ MaskIsFresh'
    BY <1>16 DEF SpuriousInterrupt, Acknowledge
  <1>17. ASSUME NEW c \in Channel, OverdwellLook(c)
        PROVE  ActiveIsEnabled' /\ MaskIsFresh'
    BY <1>17 DEF OverdwellLook, DoneWith
  <1>18. ASSUME NEW c \in Channel, OverdwellCut(c)
        PROVE  ActiveIsEnabled' /\ MaskIsFresh'
    BY <1>18 DEF OverdwellCut
  <1>19. ASSUME NEW c \in Channel, OverdwellClear(c)
        PROVE  ActiveIsEnabled' /\ MaskIsFresh'
    BY <1>19 DEF OverdwellClear, DoneWith
  <1>20. CASE UNCHANGED vars
    BY <1>20 DEF vars
  <1> QED
    BY <1>1, <1>2, <1>3, <1>4, <1>5, <1>6, <1>7, <1>8, <1>9, <1>10,
       <1>11, <1>12, <1>13, <1>14, <1>15, <1>16, <1>17, <1>18, <1>19,
       <1>20
    DEF Next, Proceed, IgnitionScheduleInterrupt, OverdwellStep

-----------------------------------------------------------------------------
(***************************************************************************)
(* A coil being charged always has a schedule that will end it, provided   *)
(* that no schedule queues a next one or that the dwell limiter is off.    *)
(* (With both, it is false: see the run that TLC refutes.)  The limiter is *)
(* the difficulty.  It cuts in two steps, and between them another         *)
(* schedule may charge the same coil; the invariant says that the schedule *)
(* being cut cannot.                                                       *)
(***************************************************************************)
NoQueueOrNoLimit == Queues = {} \/ ~UseDwellLim

LimiterIsOff == ~UseDwellLim => limiter = "idle"

IInv == /\ TypeOK /\ ActiveIsEnabled /\ MaskIsFresh
        /\ LimiterIsOff /\ CutIsOver /\ CoilHasHolder

LEMMA InvInit == Init => IInv
  BY TypeInit
  DEF Init, IInv, ActiveIsEnabled, MaskIsFresh, LimiterIsOff, CutIsOver,
      BeingCut, CoilHasHolder

\* The limiter looks at one schedule at a time.
LEMMA OneLookedAt ==
  ASSUME NEW c \in Channel, NEW k \in Channel, LookingAt(c), LookingAt(k)
  PROVE  c = k
  <1>1. c \in Int /\ k \in Int
    BY ChannelAssumption
  <1> QED
    BY <1>1 DEF LookingAt

\* A schedule that is being cut does not become PENDING.
LEMMA CutStep ==
  ASSUME NoQueueOrNoLimit, IInv, [Next]_vars
  PROVE  CutIsOver' /\ LimiterIsOff'
  <1> USE DEF IInv, LimiterIsOff, CutIsOver, BeingCut, LookingAt
  <1>1. ASSUME UNCHANGED oneMS,
               \A c \in Channel : Status'[c] = "PENDING"
                                   => Status[c] = "PENDING" \/ limiter = "idle"
        PROVE  CutIsOver' /\ LimiterIsOff'
    BY <1>1
  <1>2. CASE OverdwellBegin
    BY <1>2 DEF OverdwellBegin
  <1>3. ASSUME NEW c \in Channel, OverdwellLook(c)
        PROVE  CutIsOver' /\ LimiterIsOff'
    <2>1. CASE Status[c] = "RUNNING" /\ Overdwelling(c)
      <3>1. \A k \in Channel : LookingAt(k) => k = c
        BY <1>3, OneLookedAt DEF OverdwellLook
      <3> QED
        BY <1>3, <2>1, <3>1 DEF OverdwellLook
    <2>2. CASE ~(Status[c] = "RUNNING" /\ Overdwelling(c))
      BY <1>3, <2>2 DEF OverdwellLook, DoneWith
    <2> QED
      BY <2>1, <2>2
  <1>4. ASSUME NEW c \in Channel, OverdwellCut(c)
        PROVE  CutIsOver' /\ LimiterIsOff'
    BY <1>4 DEF OverdwellCut
  <1>5. ASSUME NEW c \in Channel, OverdwellClear(c)
        PROVE  CutIsOver' /\ LimiterIsOff'
    BY <1>5 DEF OverdwellClear, DoneWith
  <1>6. ASSUME NEW c \in Channel, Arm(c)
        PROVE  CutIsOver' /\ LimiterIsOff'
    BY <1>1, <1>6 DEF Arm, MainAt
  <1>7. ASSUME NEW c \in Channel, StartDwell(c) \/ EndDwell(c)
        PROVE  CutIsOver' /\ LimiterIsOff'
    BY <1>1, <1>7 DEF StartDwell, EndDwell, Acknowledge, TypeOK
  <1>8. ASSUME NEW c \in Channel, EndDwellAndActivateNext(c)
        PROVE  CutIsOver' /\ LimiterIsOff'
    <2>1. limiter = "idle"
      BY <1>8 DEF EndDwellAndActivateNext, TypeOK, NoQueueOrNoLimit
    <2> QED
      BY <1>1, <1>8, <2>1 DEF EndDwellAndActivateNext, Acknowledge
  <1>9. ASSUME UNCHANGED <<Status, oneMS>> PROVE CutIsOver' /\ LimiterIsOff'
    BY <1>1, <1>9
  <1>10. \/ UNCHANGED <<Status, oneMS>>
         \/ OverdwellBegin
         \/ \E c \in Channel :
               \/ OverdwellLook(c) \/ OverdwellCut(c) \/ OverdwellClear(c)
               \/ Arm(c) \/ StartDwell(c) \/ EndDwell(c)
               \/ EndDwellAndActivateNext(c)
    BY DEF Next, Tick, SetIgnitionSchedule, Proceed, StoreDuration, ReadMask,
       WriteMask, QueueNextStart, QueueNext, RefreshIgnitionSchedule,
       RefreshEnd, EndTooth, IgnitionScheduleInterrupt, SpuriousInterrupt,
       Acknowledge, OverdwellStep, vars
  <1> QED
    BY <1>2, <1>3, <1>4, <1>5, <1>6, <1>7, <1>8, <1>9, <1>10

\* A coil that stays charged keeps its holder, and one that starts has one.
LEMMA HolderStep ==
  ASSUME IInv, [Next]_vars
  PROVE  CoilHasHolder'
  <1> USE DEF IInv, CoilHasHolder
  <1>1. ASSUME charging' \subseteq charging,
               \A c \in Channel :
                  Drives[c] \in charging' /\ Status[c] # "OFF"
                  /\ ~(limiter = "clear" /\ LookingAt(c))
                  => Status'[c] # "OFF" /\ ~(limiter = "clear" /\ LookingAt(c))'
        PROVE  CoilHasHolder'
    BY <1>1
  <1>2. ASSUME UNCHANGED <<Status, charging, oneMS>> PROVE CoilHasHolder'
    BY <1>2 DEF LookingAt
  <1>3. CASE OverdwellBegin
    BY <1>1, <1>3 DEF OverdwellBegin
  <1>4. ASSUME NEW c \in Channel, OverdwellLook(c) PROVE CoilHasHolder'
    BY <1>1, <1>4 DEF OverdwellLook, DoneWith
  <1>5. ASSUME NEW c \in Channel, OverdwellCut(c) PROVE CoilHasHolder'
    <2>1. \A k \in Channel : LookingAt(k)' => k = c
      BY <1>5, OneLookedAt DEF OverdwellCut, LookingAt
    <2> QED
      BY <1>1, <1>5, <2>1 DEF OverdwellCut
  <1>6. ASSUME NEW c \in Channel, OverdwellClear(c) PROVE CoilHasHolder'
    BY <1>1, <1>6 DEF OverdwellClear, DoneWith, TypeOK
  <1>7. ASSUME NEW c \in Channel, Arm(c) PROVE CoilHasHolder'
    BY <1>1, <1>7 DEF Arm, MainAt, LookingAt, TypeOK
  <1>8. ASSUME NEW c \in Channel, StartDwell(c) PROVE CoilHasHolder'
    <2>1. ~(limiter = "clear" /\ LookingAt(c))
      BY <1>8 DEF StartDwell, CutIsOver, BeingCut
    <2>2. /\ Status[c] = "PENDING" /\ charging' = charging \cup {Drives[c]}
          /\ Status' = [Status EXCEPT ![c] = "RUNNING"]
          /\ limiter' = limiter /\ unchecked' = unchecked
      BY <1>8 DEF StartDwell, Acknowledge
    <2>3. \A k \in Channel : Status[k] # "OFF" => Status'[k] # "OFF"
      BY <2>2 DEF TypeOK
    <2>4. Status'[c] # "OFF"
      BY <2>2 DEF TypeOK
    <2>5. \A k \in Channel : LookingAt(k)' <=> LookingAt(k)
      BY <2>2 DEF LookingAt
    <2> QED
      BY <2>1, <2>2, <2>3, <2>4, <2>5
  <1>9. ASSUME NEW c \in Channel, EndDwell(c) \/ EndDwellAndActivateNext(c)
        PROVE  CoilHasHolder'
    <2>1. /\ charging' = charging \ {Drives[c]}
          /\ \A k \in Channel \ {c} : Status'[k] = Status[k]
          /\ limiter' = limiter /\ unchecked' = unchecked
      BY <1>9 DEF EndDwell, EndDwellAndActivateNext, Acknowledge, TypeOK
    <2>2. \A k \in Channel : LookingAt(k)' <=> LookingAt(k)
      BY <2>1 DEF LookingAt
    <2> QED
      BY <1>1, <2>1, <2>2
  <1>10. \/ UNCHANGED <<Status, charging, oneMS>>
         \/ OverdwellBegin
         \/ \E c \in Channel :
               \/ OverdwellLook(c) \/ OverdwellCut(c) \/ OverdwellClear(c)
               \/ Arm(c) \/ StartDwell(c)
               \/ EndDwell(c) \/ EndDwellAndActivateNext(c)
    BY DEF Next, Tick, SetIgnitionSchedule, Proceed, StoreDuration, ReadMask,
       WriteMask, QueueNextStart, QueueNext, RefreshIgnitionSchedule,
       RefreshEnd, EndTooth, IgnitionScheduleInterrupt, SpuriousInterrupt,
       Acknowledge, OverdwellStep, vars
  <1> QED
    BY <1>2, <1>3, <1>4, <1>5, <1>6, <1>7, <1>8, <1>9, <1>10

LEMMA InvStep == NoQueueOrNoLimit /\ IInv /\ [Next]_vars => IInv'
  BY TypeStep, MaskStep, CutStep, HolderStep DEF IInv

\* No coil is left charging by schedules that queue nothing, whatever the
\* limiter does, nor by any schedule when the limiter is off.
THEOREM CoilsAreServed ==
  ASSUME NoQueueOrNoLimit
  PROVE  Spec => []ChargingIsServed
  <1>1. IInv => ChargingIsServed
    BY DEF IInv, CoilHasHolder, ActiveIsEnabled, ChargingIsServed
  <1>2. IInv /\ [Next]_vars => IInv'
    BY InvStep
  <1> QED
    BY InvInit, <1>1, <1>2, PTL DEF Spec

\* The interrupt of a schedule that is set or running is enabled, or the main
\* loop is about to enable it: without any assumption on the configuration.
THEOREM ActiveSchedulesAreServed == Spec => []ActiveIsEnabled
  <1>1. Init => TypeOK /\ ActiveIsEnabled /\ MaskIsFresh
    BY TypeInit DEF Init, ActiveIsEnabled, MaskIsFresh
  <1>2. TypeOK /\ ActiveIsEnabled /\ MaskIsFresh /\ [Next]_vars
        => (TypeOK /\ ActiveIsEnabled /\ MaskIsFresh)'
    BY TypeStep, MaskStep
  <1> QED
    BY <1>1, <1>2, PTL DEF Spec

-----------------------------------------------------------------------------
(***************************************************************************)
(* The schedules implement PulseRequests when each drives a coil of its    *)
(* own and the dwell limiter is off, as for the fuel schedules.            *)
(***************************************************************************)
OwnCoilsNoLimit ==
    /\ ~UseDwellLim
    /\ \A c, k \in Channel : Drives[c] = Drives[k] => c = k

RunningIsCharging == \A c \in Channel : Status[c] = "RUNNING" => Drives[c] \in charging

RInv == TypeOK /\ limiter = "idle" /\ RunningIsCharging

\* The dwell limiter never runs, and a schedule that is RUNNING charges its coil.
LEMMA RunningStep ==
  ASSUME OwnCoilsNoLimit, RInv, [Next]_vars
  PROVE  limiter' = "idle" /\ RunningIsCharging'
  <1> USE DEF RInv, TypeOK, RunningIsCharging
  <1>1. ASSUME UNCHANGED <<Status, charging, limiter>>
        PROVE  limiter' = "idle" /\ RunningIsCharging'
    BY <1>1
  <1>2. ASSUME NEW c \in Channel, Arm(c)
        PROVE  limiter' = "idle" /\ RunningIsCharging'
    BY <1>2 DEF Arm
  <1>3. ASSUME NEW c \in Channel, StartDwell(c)
        PROVE  limiter' = "idle" /\ RunningIsCharging'
    BY <1>3 DEF StartDwell, Acknowledge
  <1>4. ASSUME NEW c \in Channel, EndDwell(c) \/ EndDwellAndActivateNext(c)
        PROVE  limiter' = "idle" /\ RunningIsCharging'
    <2>1. \A k \in Channel \ {c} : Drives[k] # Drives[c]
      BY DEF OwnCoilsNoLimit
    <2>2. /\ charging' = charging \ {Drives[c]} /\ limiter' = limiter
          /\ \A k \in Channel \ {c} : Status'[k] = Status[k]
          /\ Status'[c] # "RUNNING"
      BY <1>4 DEF EndDwell, EndDwellAndActivateNext, Acknowledge
    <2> QED
      BY <2>1, <2>2
  <1>5. \/ UNCHANGED <<Status, charging, limiter>>
        \/ \E c \in Channel :
              Arm(c) \/ StartDwell(c) \/ EndDwell(c) \/ EndDwellAndActivateNext(c)
    BY DEF Next, Tick, SetIgnitionSchedule, Proceed, StoreDuration, ReadMask,
       WriteMask, QueueNextStart, QueueNext, RefreshIgnitionSchedule,
       RefreshEnd, EndTooth, IgnitionScheduleInterrupt, SpuriousInterrupt,
       Acknowledge, OverdwellBegin, OverdwellStep, OverdwellLook,
       OverdwellCut, OverdwellClear, OwnCoilsNoLimit, vars
  <1> QED
    BY <1>1, <1>2, <1>3, <1>4, <1>5

\* The two abstract variables.
OwedNow == [c \in Channel |-> Owed(c)]
ChargingNow == {c \in Channel : Drives[c] \in charging}

\* A schedule owes two dwells only if it is PENDING with another queued.
LEMMA OwedBound ==
  ASSUME NEW c \in Channel
  PROVE  /\ Owed(c) \in 0 .. 2
         /\ (Status[c] # "PENDING" \/ c \notin hasNextSchedule) => Owed(c) < 2
  BY DEF Owed

\* A step that changes what is owed for c alone, and how.
LEMMA OwedChanges ==
  ASSUME NEW c \in Channel, NEW n \in Nat, Owed(c)' = n,
         \A k \in Channel \ {c} : Owed(k)' = Owed(k)
  PROVE  OwedNow' = [OwedNow EXCEPT ![c] = n]
  BY DEF OwedNow

\* Nothing is owed and no coil charges at first.
LEMMA AbstractInit == Init => Requests!Init
  <1> SUFFICES ASSUME Init PROVE Requests!Init
    OBVIOUS
  <1>1. \A c \in Channel : Owed(c) = 0
    BY DEF Init, Owed
  <1>2. ChargingNow = {}
    BY DEF Init, ChargingNow
  <1> QED
    BY <1>1, <1>2 DEF Requests!Init, ChargingNow

\* A step that accepts a request, or replaces one, and charges nothing.
LEMMA AcceptStep ==
  ASSUME NEW c \in Channel, charging' = charging,
         \A k \in Channel \ {c} : Owed(k)' = Owed(k),
         Owed(c)' = Owed(c) \/ (Owed(c) < 2 /\ Owed(c)' = Owed(c) + 1)
  PROVE  [Requests!Next]_<<OwedNow, ChargingNow>>
  <1>1. ChargingNow' = ChargingNow
    BY DEF ChargingNow
  <1>2. CASE Owed(c)' = Owed(c)
    BY <1>1, <1>2 DEF OwedNow
  <1>3. CASE Owed(c) < 2 /\ Owed(c)' = Owed(c) + 1
    <2>1. OwedNow' = [OwedNow EXCEPT ![c] = Owed(c) + 1]
      BY <1>3, OwedBound, OwedChanges
    <2>2. Requests!Accept(c)
      BY <1>1, <1>3, <2>1 DEF Requests!Accept, OwedNow, ChargingNow
    <2> QED
      BY <2>2 DEF Requests!Next
  <1> QED
    BY <1>2, <1>3

\* Every step is one of PulseRequests, or changes nothing there.
LEMMA AbstractStep ==
  ASSUME OwnCoilsNoLimit, RInv, [Next]_vars
  PROVE  [Requests!Next]_<<OwedNow, ChargingNow>>
  <1> USE DEF RInv, TypeOK
  <1>1. ASSUME UNCHANGED <<charging, Status, hasNextSchedule>>
        PROVE  [Requests!Next]_<<OwedNow, ChargingNow>>
    BY <1>1 DEF OwedNow, ChargingNow, Owed
  <1>2. ASSUME NEW c \in Channel, Arm(c)
        PROVE  [Requests!Next]_<<OwedNow, ChargingNow>>
    <2>1. charging' = charging /\ hasNextSchedule' = hasNextSchedule
          /\ Status' = [Status EXCEPT ![c] = "PENDING"]
      BY <1>2 DEF Arm
    <2> QED
      BY <2>1, AcceptStep DEF Owed
  <1>3. ASSUME NEW c \in Channel, QueueNext(c)
        PROVE  [Requests!Next]_<<OwedNow, ChargingNow>>
    <2>1. charging' = charging /\ Status' = Status
          /\ hasNextSchedule' = hasNextSchedule \cup {c}
      BY <1>3 DEF QueueNext
    <2> QED
      BY <2>1, AcceptStep DEF Owed
  <1>4. ASSUME NEW c \in Channel, StartDwell(c)
        PROVE  [Requests!Next]_<<OwedNow, ChargingNow>>
    <2>1. /\ Status[c] = "PENDING" /\ charging' = charging \cup {Drives[c]}
          /\ Status' = [Status EXCEPT ![c] = "RUNNING"]
          /\ hasNextSchedule' = hasNextSchedule
      BY <1>4 DEF StartDwell
    <2>2. Owed(c) > 0 /\ Owed(c)' = Owed(c) - 1 /\ Owed(c) - 1 \in Nat
      BY <2>1 DEF Owed
    <2>3. \A k \in Channel \ {c} : Owed(k)' = Owed(k)
      BY <2>1 DEF Owed
    <2>4. OwedNow' = [OwedNow EXCEPT ![c] = Owed(c) - 1]
      BY <2>2, <2>3, OwedChanges
    <2>5. ChargingNow' = ChargingNow \cup {c}
      BY <2>1 DEF ChargingNow, OwnCoilsNoLimit
    <2>6. Requests!Open(c)
      BY <2>2, <2>4, <2>5 DEF Requests!Open, OwedNow, ChargingNow
    <2> QED
      BY <2>6 DEF Requests!Next
  <1>5. ASSUME NEW c \in Channel, EndDwell(c) \/ EndDwellAndActivateNext(c)
        PROVE  [Requests!Next]_<<OwedNow, ChargingNow>>
    <2>1. Status[c] = "RUNNING" /\ charging' = charging \ {Drives[c]}
      BY <1>5 DEF EndDwell, EndDwellAndActivateNext
    <2>2. \A k \in Channel : Owed(k)' = Owed(k)
      BY <1>5 DEF EndDwell, EndDwellAndActivateNext, Owed
    <2>3. c \in ChargingNow
      BY <2>1 DEF RunningIsCharging, ChargingNow
    <2>4. ChargingNow' = ChargingNow \ {c}
      BY <2>1 DEF ChargingNow, OwnCoilsNoLimit
    <2>5. OwedNow' = OwedNow
      BY <2>2 DEF OwedNow
    <2>6. Requests!Close(c)
      BY <2>3, <2>4, <2>5 DEF Requests!Close, OwedNow, ChargingNow
    <2> QED
      BY <2>6 DEF Requests!Next
  <1>6. \/ UNCHANGED <<charging, Status, hasNextSchedule>>
        \/ \E c \in Channel : \/ Arm(c) \/ StartDwell(c) \/ QueueNext(c)
                               \/ EndDwell(c) \/ EndDwellAndActivateNext(c)
    BY DEF Next, Tick, SetIgnitionSchedule, Proceed, StoreDuration, ReadMask,
       WriteMask, QueueNextStart, RefreshIgnitionSchedule,
       RefreshEnd, EndTooth, IgnitionScheduleInterrupt, SpuriousInterrupt,
       OverdwellBegin, OverdwellStep, OverdwellLook,
       OverdwellCut, OverdwellClear, OwnCoilsNoLimit, vars
  <1> QED
    BY <1>1, <1>2, <1>3, <1>4, <1>5, <1>6

\* Every dwell answers a request of its own, also those that schedules 3 and 4
\* queue, whatever interrupts setIgnitionScheduleN().
THEOREM Implementation ==
  ASSUME OwnCoilsNoLimit
  PROVE  Spec => ImplementsPulseRequests
  <1>1. Init => RInv
    BY TypeInit DEF Init, RInv, RunningIsCharging
  <1>2. RInv /\ [Next]_vars => RInv'
    BY TypeStep, RunningStep DEF RInv
  <1>3. RInv /\ [Next]_vars
          => [Requests!Next]_<<[c \in Channel |-> Owed(c)],
                               {c \in Channel : Drives[c] \in charging}>>
    BY AbstractStep DEF OwedNow, ChargingNow
  <1> QED
    BY <1>1, <1>2, <1>3, AbstractInit, PTL DEF Spec, ImplementsPulseRequests, Requests!Spec
=============================================================================
