------------------------- MODULE FuelSchedule_proof -------------------------
(***************************************************************************)
(* Proofs about FuelSchedule for every set of schedules, every assignment  *)
(* of variants and injectors, every timer width and both boards.           *)
(***************************************************************************)
EXTENDS FuelSchedule, TLAPS

USE DEF Ticks, UsPerTick, timer, schedule

\* The 16 bit sum of two non-negative numbers is a value of the counter.
LEMMA AfterInTicks == ASSUME NEW base \in Nat, NEW ticks \in Nat
                      PROVE  After(base, ticks) \in Ticks
  BY PeriodAssumption DEF After

\* A time in microseconds is a number of ticks.
LEMMA TicksOfTime == ASSUME NEW us \in Nat
                     PROVE  uS_TO_TIMER_COMPARE(us) \in Nat
  BY DEF uS_TO_TIMER_COMPARE

\* A counter value plus a time is a value of the counter.
LEMMA AfterTime == ASSUME NEW base \in Ticks, NEW us \in Nat
                   PROVE  After(base, uS_TO_TIMER_COMPARE(us)) \in Ticks
  <1>1. base \in Nat
    BY PeriodAssumption
  <1>2. uS_TO_TIMER_COMPARE(us) \in Nat
    BY TicksOfTime
  <1> QED
    BY <1>1, <1>2, AfterInTicks

\* The timeout that arms a schedule is a number of ticks, clipped or not.
LEMMA ClippedInNat == ASSUME NEW t \in Nat
                      PROVE  ClippedTimeout(t) \in Nat
  <1>1. MAX_TIMER_PERIOD - 1 \in Nat
    BY PeriodAssumption DEF MAX_TIMER_PERIOD
  <1> QED
    BY <1>1, TicksOfTime DEF ClippedTimeout

\* What a call stores as the end of its pulse is a value of the counter.
LEMMA SetEndType ==
  ASSUME NEW ends \in [Channel -> Ticks], NEW c \in Channel,
         NEW start \in Ticks, req \in Request
  PROVE  SetEnd(ends, c, start) \in [Channel -> Ticks]
  <1>1. req.duration \in Nat
    BY RequestAssumption DEF Request
  <1>2. After(start, uS_TO_TIMER_COMPARE(req.duration)) \in Ticks
    BY <1>1, AfterTime
  <1> QED
    BY <1>2 DEF SetEnd

-----------------------------------------------------------------------------
(***************************************************************************)
(* Type correctness is inductive by itself.                                *)
(***************************************************************************)
LEMMA TypeInit == Init => TypeOK
  BY PeriodAssumption DEF Init, TypeOK

LEMMA TypeStep == TypeOK /\ [Next]_vars => TypeOK'
  <1> SUFFICES ASSUME TypeOK, [Next]_vars PROVE TypeOK'
    OBVIOUS
  <1> USE DEF TypeOK
  <1>1. CASE Tick
    <2>1. counter' \in Ticks
      BY <1>1, AfterInTicks, PeriodAssumption DEF Tick
    <2> QED
      BY <1>1, <2>1 DEF Tick, Matching
  <1>2. ASSUME NEW r \in Calls,
               SetFuelSchedule(r.ch, r.timeout, r.duration)
        PROVE  TypeOK'
    BY <1>2, RequestAssumption DEF SetFuelSchedule, Request
  <1>3. ASSUME NEW c \in Channel, TearDuration(c) PROVE TypeOK'
    BY <1>3, RequestAssumption DEF TearDuration
  <1>4. ASSUME NEW c \in Channel, StoreDuration(c) PROVE TypeOK'
    BY <1>4, RequestAssumption DEF StoreDuration, Request
  <1>5. ASSUME NEW c \in Channel, Arm(c) PROVE TypeOK'
    <2> DEFINE start == After(counter, ClippedTimeout(req.timeout))
    <2>1. req \in Request /\ req.timeout \in Nat
      BY <1>5, RequestAssumption DEF Arm, Request
    <2>2. start \in Ticks
      <3>1. counter \in Nat /\ ClippedTimeout(req.timeout) \in Nat
        BY <2>1, ClippedInNat, PeriodAssumption
      <3> QED
        BY <3>1, AfterInTicks
    <2>3. SetEnd(endCompare, c, start) \in [Channel -> Ticks]
      BY <2>1, <2>2, SetEndType
    <2>4. flag' \subseteq flag
      BY <1>5 DEF Arm, FlagsAfterArm
    <2> HIDE DEF start
    <2>5. /\ compare' = [compare EXCEPT ![c] = start]
          /\ endCompare' = SetEnd(endCompare, c, start)
      BY <1>5 DEF Arm, start
    <2>6. /\ compare' \in [Channel -> Ticks]
          /\ endCompare' \in [Channel -> Ticks]
      BY <2>2, <2>3, <2>5
    <2>7. /\ Status' \in [Channel -> {"OFF", "PENDING", "RUNNING"}]
          /\ pc' \in {"readMask", "enable"}
          /\ stale' \subseteq flag' /\ flag' \subseteq Channel
      BY <1>5, <2>4 DEF Arm
    <2> QED
      BY <1>5, <2>1, <2>6, <2>7 DEF Arm
  <1>6. ASSUME NEW c \in Channel, ReadMask(c) PROVE TypeOK'
    BY <1>6 DEF ReadMask
  <1>7. ASSUME NEW c \in Channel, WriteMask(c) PROVE TypeOK'
    BY <1>7 DEF WriteMask
  <1>8. ASSUME NEW c \in Channel, EnableChannel(c) PROVE TypeOK'
    BY <1>8 DEF EnableChannel
  <1>9. ASSUME NEW c \in Channel, QueueNext(c) PROVE TypeOK'
    <2> DEFINE start == After(counter, uS_TO_TIMER_COMPARE(req.timeout))
    <2>1. req \in Request /\ req.timeout \in Nat /\ req.duration \in Nat
      BY <1>9, RequestAssumption DEF QueueNext, Request
    <2>2. start \in Ticks
      BY <2>1, AfterTime
    <2>3. SetEnd(nextEndCompare, c, start) \in [Channel -> Ticks]
      BY <2>1, <2>2, SetEndType
    <2> HIDE DEF start
    <2>4. /\ nextStartCompare' = [nextStartCompare EXCEPT ![c] = start]
          /\ nextEndCompare' = SetEnd(nextEndCompare, c, start)
      BY <1>9 DEF QueueNext, start
    <2>5. /\ nextStartCompare' \in [Channel -> Ticks]
          /\ nextEndCompare' \in [Channel -> Ticks]
      BY <2>2, <2>3, <2>4
    <2> QED
      BY <1>9, <2>1, <2>5 DEF QueueNext
  <1>10. ASSUME NEW c \in Channel, QueueNextStart(c) PROVE TypeOK'
    <2>1. req.timeout \in Nat
      BY <1>10, RequestAssumption DEF QueueNextStart, Request
    <2>2. After(counter, uS_TO_TIMER_COMPARE(req.timeout)) \in Ticks
      BY <2>1, AfterTime
    <2>3. nextStartCompare' \in [Channel -> Ticks]
      BY <1>10, <2>2, RequestAssumption DEF QueueNextStart
    <2> QED
      BY <1>10, <2>3 DEF QueueNextStart
  <1>11. ASSUME NEW c \in Channel, QueueNextEnd(c) PROVE TypeOK'
    <2>1. req \in Request /\ req.duration \in Nat
      BY <1>11, RequestAssumption DEF QueueNextEnd, Request
    <2>2. SetEnd(nextEndCompare, c, nextStartCompare[c]) \in [Channel -> Ticks]
      BY <2>1, SetEndType
    <2> QED
      BY <1>11, <2>1, <2>2 DEF QueueNextEnd
  <1>12. ASSUME NEW c \in Channel, StartPulse(c) PROVE TypeOK'
    <2>1. EndOfPulse(c) \in Ticks
      BY AfterTime DEF EndOfPulse
    <2> QED
      BY <1>12, <2>1, InjectorAssumption DEF StartPulse, Acknowledge
  <1>13. ASSUME NEW c \in Channel, EndPulse(c) PROVE TypeOK'
    BY <1>13 DEF EndPulse, Acknowledge
  <1>14. ASSUME NEW c \in Channel, EndPulseAndActivateNext(c) PROVE TypeOK'
    BY <1>14 DEF EndPulseAndActivateNext, Acknowledge
  <1>15. ASSUME NEW c \in Channel, SpuriousInterrupt(c) PROVE TypeOK'
    BY <1>15 DEF SpuriousInterrupt, Acknowledge
  <1>16. CASE UNCHANGED vars
    BY <1>16 DEF vars
  <1> QED
    BY <1>1, <1>2, <1>3, <1>4, <1>5, <1>6, <1>7, <1>8, <1>9, <1>10, <1>11,
       <1>12, <1>13, <1>14, <1>15, <1>16
    DEF Next, Proceed, FuelScheduleInterrupt

\* Every register and every field keeps its type: in particular the sums that
\* setFuelScheduleN() and the interrupts compute never leave the 16 bit range.
THEOREM TypeCorrect == Spec => []TypeOK
  BY TypeInit, TypeStep, PTL DEF Spec

-----------------------------------------------------------------------------
(***************************************************************************)
(* An open injector is always on its way to being closed.  By itself this  *)
(* is not inductive: a PENDING schedule may open an injector, so that it   *)
(* must be served too, and the mask that the main loop is about to write   *)
(* back must not switch off what was enabled when it was read.             *)
(***************************************************************************)
IInv == TypeOK /\ OpenInjectorIsTimed /\ ActiveIsEnabled /\ MaskIsFresh

LEMMA InvInit == Init => IInv
  BY TypeInit DEF Init, IInv, OpenInjectorIsTimed, ActiveIsEnabled, MaskIsFresh

\* Nothing that is served is dropped by a step...
LEMMA MaskStep ==
  IInv /\ [Next]_vars => ActiveIsEnabled' /\ MaskIsFresh'
  <1> SUFFICES ASSUME IInv, [Next]_vars
               PROVE  ActiveIsEnabled' /\ MaskIsFresh'
    OBVIOUS
  <1> USE DEF IInv, TypeOK, ActiveIsEnabled, MaskIsFresh, Enabling
  <1>1. CASE Tick
    BY <1>1 DEF Tick
  <1>2. ASSUME NEW r \in Calls,
               SetFuelSchedule(r.ch, r.timeout, r.duration)
        PROVE  ActiveIsEnabled' /\ MaskIsFresh'
    BY <1>2, RequestAssumption DEF SetFuelSchedule, Request
  <1>3. ASSUME NEW c \in Channel, TearDuration(c)
        PROVE  ActiveIsEnabled' /\ MaskIsFresh'
    BY <1>3 DEF TearDuration
  <1>4. ASSUME NEW c \in Channel, StoreDuration(c)
        PROVE  ActiveIsEnabled' /\ MaskIsFresh'
    BY <1>4 DEF StoreDuration
  <1>5. ASSUME NEW c \in Channel, Arm(c)
        PROVE  ActiveIsEnabled' /\ MaskIsFresh'
    BY <1>5 DEF Arm
  <1>6. ASSUME NEW c \in Channel, ReadMask(c)
        PROVE  ActiveIsEnabled' /\ MaskIsFresh'
    BY <1>6 DEF ReadMask
  <1>7. ASSUME NEW c \in Channel, WriteMask(c)
        PROVE  ActiveIsEnabled' /\ MaskIsFresh'
    BY <1>7 DEF WriteMask
  <1>8. ASSUME NEW c \in Channel, EnableChannel(c)
        PROVE  ActiveIsEnabled' /\ MaskIsFresh'
    BY <1>8 DEF EnableChannel
  <1>9. ASSUME NEW c \in Channel, QueueNext(c)
        PROVE  ActiveIsEnabled' /\ MaskIsFresh'
    BY <1>9 DEF QueueNext
  <1>10. ASSUME NEW c \in Channel, QueueNextStart(c)
         PROVE  ActiveIsEnabled' /\ MaskIsFresh'
    BY <1>10 DEF QueueNextStart
  <1>11. ASSUME NEW c \in Channel, QueueNextEnd(c)
         PROVE  ActiveIsEnabled' /\ MaskIsFresh'
    BY <1>11 DEF QueueNextEnd
  <1>12. ASSUME NEW c \in Channel, StartPulse(c)
         PROVE  ActiveIsEnabled' /\ MaskIsFresh'
    BY <1>12 DEF StartPulse, Acknowledge
  <1>13. ASSUME NEW c \in Channel, EndPulse(c)
         PROVE  ActiveIsEnabled' /\ MaskIsFresh'
    BY <1>13 DEF EndPulse, Acknowledge
  <1>14. ASSUME NEW c \in Channel, EndPulseAndActivateNext(c)
         PROVE  ActiveIsEnabled' /\ MaskIsFresh'
    BY <1>14 DEF EndPulseAndActivateNext, Acknowledge
  <1>15. ASSUME NEW c \in Channel, SpuriousInterrupt(c)
         PROVE  ActiveIsEnabled' /\ MaskIsFresh'
    BY <1>15 DEF SpuriousInterrupt, Acknowledge
  <1>16. CASE UNCHANGED vars
    BY <1>16 DEF vars
  <1> QED
    BY <1>1, <1>2, <1>3, <1>4, <1>5, <1>6, <1>7, <1>8, <1>9, <1>10, <1>11,
       <1>12, <1>13, <1>14, <1>15, <1>16
    DEF Next, Proceed, FuelScheduleInterrupt

\* ...and an injector that stays open after a step is held by the schedule
\* that held it before.
LEMMA HolderStep ==
  IInv /\ [Next]_vars => OpenInjectorIsTimed'
  <1> SUFFICES ASSUME IInv, [Next]_vars PROVE OpenInjectorIsTimed'
    OBVIOUS
  \* It is enough that the holder stays active: it is then served, by MaskStep.
  <1>1. \A c \in Channel : Status'[c] \in {"PENDING", "RUNNING"}
                             => c \in enabled' \/ Enabling(c)'
    BY MaskStep DEF ActiveIsEnabled
  <1>2. ASSUME open' \subseteq open,
               \A c \in Channel, i \in open' :
                  i \in Opens[c] /\ Status[c] \in {"PENDING", "RUNNING"}
                  => Status'[c] \in {"PENDING", "RUNNING"}
        PROVE  OpenInjectorIsTimed'
    BY <1>1, <1>2 DEF OpenInjectorIsTimed, IInv
  <1>3. ASSUME open' = open, Status' = Status
        PROVE  OpenInjectorIsTimed'
    BY <1>2, <1>3
  <1>4. ASSUME NEW c \in Channel, Arm(c) PROVE OpenInjectorIsTimed'
    BY <1>2, <1>4 DEF Arm, IInv, TypeOK
  <1>5. ASSUME NEW c \in Channel, StartPulse(c) PROVE OpenInjectorIsTimed'
    <2>1. \A k \in Channel : Status[k] \in {"PENDING", "RUNNING"}
                                => Status'[k] \in {"PENDING", "RUNNING"}
      BY <1>5 DEF StartPulse, IInv, TypeOK
    <2>2. Status'[c] = "RUNNING"
      BY <1>5 DEF StartPulse, IInv, TypeOK
    <2>3. ASSUME NEW i \in open'
          PROVE  \E k \in Channel : i \in Opens[k]
                                      /\ Status'[k] \in {"PENDING", "RUNNING"}
      <3>1. CASE i \in Opens[c]
        BY <2>2, <3>1
      <3>2. CASE i \in open
        BY <2>1, <3>2 DEF IInv, OpenInjectorIsTimed
      <3> QED
        BY <1>5, <3>1, <3>2 DEF StartPulse
    <2> QED
      BY <1>1, <2>3 DEF OpenInjectorIsTimed
  <1>6. ASSUME NEW c \in Channel, EndPulse(c) PROVE OpenInjectorIsTimed'
    <2>1. \A i \in open' : i \notin Opens[c]
      BY <1>6, InjectorAssumption DEF EndPulse
    <2> QED
      BY <1>2, <1>6, <2>1 DEF EndPulse, IInv, TypeOK
  <1>7. ASSUME NEW c \in Channel, EndPulseAndActivateNext(c)
        PROVE  OpenInjectorIsTimed'
    BY <1>2, <1>7 DEF EndPulseAndActivateNext, IInv, TypeOK
  <1>8. \/ open' = open /\ Status' = Status
        \/ \E c \in Channel : Arm(c) \/ StartPulse(c) \/ EndPulse(c)
                               \/ EndPulseAndActivateNext(c)
    BY DEF Next, Tick, SetFuelSchedule, TearDuration, Proceed, StoreDuration,
       ReadMask, WriteMask, EnableChannel, QueueNext, QueueNextStart,
       QueueNextEnd, FuelScheduleInterrupt, SpuriousInterrupt, vars
  <1> QED
    BY <1>3, <1>4, <1>5, <1>6, <1>7, <1>8

LEMMA InvStep == IInv /\ [Next]_vars => IInv'
  BY TypeStep, MaskStep, HolderStep DEF IInv

\* Whatever the interleaving of the main loop with the interrupts, an injector
\* that is open has a schedule in progress whose interrupt will close it.
THEOREM InjectorsAreTimed == Spec => []OpenInjectorIsTimed
  <1>1. IInv => OpenInjectorIsTimed
    BY DEF IInv
  <1> QED
    BY InvInit, InvStep, <1>1, PTL DEF Spec

\* A schedule that is set or running is never left without its interrupt.
THEOREM ActiveSchedulesAreServed == Spec => []ActiveIsEnabled
  <1>1. IInv => ActiveIsEnabled
    BY DEF IInv
  <1> QED
    BY InvInit, InvStep, <1>1, PTL DEF Spec

-----------------------------------------------------------------------------
(***************************************************************************)
(* The schedules implement PulseRequests.                                  *)
(***************************************************************************)
RInv == TypeOK /\ RunningIsOpen

LEMMA RunningStep == RInv /\ [Next]_vars => RunningIsOpen'
  <1> SUFFICES ASSUME RInv, [Next]_vars PROVE RunningIsOpen'
    OBVIOUS
  <1> USE DEF RInv, TypeOK, RunningIsOpen
  <1>1. ASSUME open' = open, Status' = Status PROVE RunningIsOpen'
    BY <1>1
  <1>2. ASSUME NEW c \in Channel, Arm(c) PROVE RunningIsOpen'
    BY <1>2 DEF Arm
  <1>3. ASSUME NEW c \in Channel, StartPulse(c) PROVE RunningIsOpen'
    BY <1>3 DEF StartPulse
  <1>4. ASSUME NEW c \in Channel, EndPulse(c) PROVE RunningIsOpen'
    <2>1. \A k \in Channel \ {c} : Closes[c] \cap Opens[k] = {}
      BY InjectorAssumption
    <2> QED
      BY <1>4, <2>1 DEF EndPulse
  <1>5. ASSUME NEW c \in Channel, EndPulseAndActivateNext(c)
        PROVE  RunningIsOpen'
    <2>1. \A k \in Channel \ {c} : Closes[c] \cap Opens[k] = {}
      BY InjectorAssumption
    <2> QED
      BY <1>5, <2>1 DEF EndPulseAndActivateNext
  <1>6. \/ open' = open /\ Status' = Status
        \/ \E c \in Channel : Arm(c) \/ StartPulse(c) \/ EndPulse(c)
                               \/ EndPulseAndActivateNext(c)
    BY DEF Next, Tick, SetFuelSchedule, TearDuration, Proceed, StoreDuration,
       ReadMask, WriteMask, EnableChannel, QueueNext, QueueNextStart,
       QueueNextEnd, FuelScheduleInterrupt, SpuriousInterrupt, vars
  <1> QED
    BY <1>1, <1>2, <1>3, <1>4, <1>5, <1>6

\* The two abstract variables.
OwedNow == [c \in Channel |-> Owed(c)]
InjectingNow == {c \in Channel : Opens[c] \subseteq open}

LEMMA OwedBound ==
  ASSUME NEW c \in Channel
  PROVE  /\ Owed(c) \in 0 .. 2
         /\ (Status[c] # "PENDING" \/ c \notin hasNextSchedule) => Owed(c) < 2
  BY DEF Owed

\* A step that changes what is owed for c alone, and how.
LEMMA OwedChanges ==
  ASSUME NEW c \in Channel, NEW n \in Nat, Owed(c)' = n,
         \A k \in Channel \ {c} : Owed(k)' = Owed(k)
  PROVE  OwedNow' = [OwedNow EXCEPT ![c] = n]
  BY DEF OwedNow

LEMMA AbstractInit == Init => Requests!Init
  <1> SUFFICES ASSUME Init PROVE Requests!Init
    OBVIOUS
  <1>1. \A c \in Channel : Owed(c) = 0
    BY DEF Init, Owed
  <1>2. InjectingNow = {}
    BY InjectorAssumption DEF Init, InjectingNow
  <1> QED
    BY <1>1, <1>2 DEF Requests!Init, InjectingNow

\* A step that accepts a request, or replaces one, and opens nothing.
LEMMA AcceptStep ==
  ASSUME NEW c \in Channel, open' = open,
         \A k \in Channel \ {c} : Owed(k)' = Owed(k),
         Owed(c)' = Owed(c) \/ (Owed(c) < 2 /\ Owed(c)' = Owed(c) + 1)
  PROVE  [Requests!Next]_<<OwedNow, InjectingNow>>
  <1>1. InjectingNow' = InjectingNow
    BY DEF InjectingNow
  <1>2. CASE Owed(c)' = Owed(c)
    BY <1>1, <1>2 DEF OwedNow
  <1>3. CASE Owed(c) < 2 /\ Owed(c)' = Owed(c) + 1
    <2>1. OwedNow' = [OwedNow EXCEPT ![c] = Owed(c) + 1]
      BY <1>3, OwedBound, OwedChanges
    <2>2. Requests!Accept(c)
      BY <1>1, <1>3, <2>1 DEF Requests!Accept, OwedNow, InjectingNow
    <2> QED
      BY <2>2 DEF Requests!Next
  <1> QED
    BY <1>2, <1>3

LEMMA AbstractStep ==
  RInv /\ [Next]_vars => [Requests!Next]_<<OwedNow, InjectingNow>>
  <1> SUFFICES ASSUME RInv, [Next]_vars
               PROVE  [Requests!Next]_<<OwedNow, InjectingNow>>
    OBVIOUS
  <1> USE DEF RInv, TypeOK
  <1>1. ASSUME open' = open, Status' = Status, hasNextSchedule' = hasNextSchedule
        PROVE  [Requests!Next]_<<OwedNow, InjectingNow>>
    BY <1>1 DEF OwedNow, InjectingNow, Owed
  <1>2. ASSUME NEW c \in Channel, Arm(c)
        PROVE  [Requests!Next]_<<OwedNow, InjectingNow>>
    <2>1. open' = open /\ hasNextSchedule' = hasNextSchedule
          /\ Status' = [Status EXCEPT ![c] = "PENDING"]
      BY <1>2 DEF Arm
    <2> QED
      BY <2>1, AcceptStep DEF Owed
  <1>3. ASSUME NEW c \in Channel, QueueNext(c) \/ QueueNextEnd(c)
        PROVE  [Requests!Next]_<<OwedNow, InjectingNow>>
    <2>1. open' = open /\ Status' = Status
          /\ hasNextSchedule' = hasNextSchedule \cup {c}
      BY <1>3 DEF QueueNext, QueueNextEnd
    <2> QED
      BY <2>1, AcceptStep DEF Owed
  <1>4. ASSUME NEW c \in Channel, StartPulse(c)
        PROVE  [Requests!Next]_<<OwedNow, InjectingNow>>
    <2>1. /\ Status[c] = "PENDING" /\ open' = open \cup Opens[c]
          /\ Status' = [Status EXCEPT ![c] = "RUNNING"]
          /\ hasNextSchedule' = hasNextSchedule
      BY <1>4 DEF StartPulse
    <2>2. Owed(c) > 0 /\ Owed(c)' = Owed(c) - 1 /\ Owed(c) - 1 \in Nat
      BY <2>1 DEF Owed
    <2>3. \A k \in Channel \ {c} : Owed(k)' = Owed(k)
      BY <2>1 DEF Owed
    <2>4. OwedNow' = [OwedNow EXCEPT ![c] = Owed(c) - 1]
      BY <2>2, <2>3, OwedChanges
    <2>5. \A k \in Channel \ {c} : Opens[k] \cap Opens[c] = {}
      BY InjectorAssumption
    <2>6. InjectingNow' = InjectingNow \cup {c}
      BY <2>1, <2>5 DEF InjectingNow
    <2>7. Requests!Open(c)
      BY <2>2, <2>4, <2>6 DEF Requests!Open, OwedNow, InjectingNow
    <2> QED
      BY <2>7 DEF Requests!Next
  <1>5. ASSUME NEW c \in Channel, EndPulse(c) \/ EndPulseAndActivateNext(c)
        PROVE  [Requests!Next]_<<OwedNow, InjectingNow>>
    <2>1. Status[c] = "RUNNING" /\ open' = open \ Closes[c]
      BY <1>5 DEF EndPulse, EndPulseAndActivateNext
    <2>2. \A k \in Channel : Owed(k)' = Owed(k)
      BY <1>5 DEF EndPulse, EndPulseAndActivateNext, Owed
    <2>3. c \in InjectingNow
      BY <2>1 DEF RunningIsOpen, InjectingNow
    <2>4. /\ \A k \in Channel \ {c} : Closes[c] \cap Opens[k] = {}
          /\ Opens[c] # {} /\ Opens[c] \subseteq Closes[c]
      BY InjectorAssumption
    <2>5. InjectingNow' = InjectingNow \ {c}
      BY <2>1, <2>4 DEF InjectingNow
    <2>6. OwedNow' = OwedNow
      BY <2>2 DEF OwedNow
    <2>7. Requests!Close(c)
      BY <2>3, <2>5, <2>6 DEF Requests!Close, OwedNow, InjectingNow
    <2> QED
      BY <2>7 DEF Requests!Next
  <1>6. \/ open' = open /\ Status' = Status /\ hasNextSchedule' = hasNextSchedule
        \/ \E c \in Channel :
              \/ Arm(c) \/ StartPulse(c) \/ EndPulse(c)
              \/ EndPulseAndActivateNext(c) \/ QueueNext(c) \/ QueueNextEnd(c)
    BY DEF Next, Tick, SetFuelSchedule, TearDuration, Proceed, StoreDuration,
       ReadMask, WriteMask, EnableChannel, QueueNextStart,
       FuelScheduleInterrupt, SpuriousInterrupt, vars
  <1> QED
    BY <1>1, <1>2, <1>3, <1>4, <1>5, <1>6

\* Every pulse answers a request of its own: none is invented, none is played
\* twice, whatever interrupts setFuelScheduleN().
THEOREM Implementation == Spec => ImplementsPulseRequests
  <1>1. Init => RInv
    BY TypeInit DEF Init, RInv, RunningIsOpen
  <1>2. RInv /\ [Next]_vars => RInv'
    BY TypeStep, RunningStep DEF RInv
  <1>3. RInv /\ [Next]_vars
          => [Requests!Next]_<<[c \in Channel |-> Owed(c)],
                               {c \in Channel : Opens[c] \subseteq open}>>
    BY AbstractStep DEF OwedNow, InjectingNow
  <1> QED
    BY <1>1, <1>2, <1>3, AbstractInit, PTL
    DEF Spec, ImplementsPulseRequests, Requests!Spec

-----------------------------------------------------------------------------
(***************************************************************************)
(* When a pulse starts, and how long it lasts.                             *)
(***************************************************************************)

\* On the AVR no flag survives the compare value that raised it: arming a schedule
\* clears the flag in the block that changes the value.
NoFlagIsStale == stale = {}

LEMMA StaleStep ==
  ASSUME Board = "AVR", TypeOK, NoFlagIsStale, [Next]_vars PROVE NoFlagIsStale'
  <1> USE DEF NoFlagIsStale
  <1>1. ASSUME NEW c \in Channel, Arm(c) PROVE NoFlagIsStale'
    BY <1>1 DEF Arm, FlagsAfterArm
  <1>2. ASSUME NEW c \in Channel, FuelScheduleInterrupt(c) PROVE NoFlagIsStale'
    BY <1>2 DEF FuelScheduleInterrupt, StartPulse, EndPulse, EndPulseAndActivateNext,
                SpuriousInterrupt, Acknowledge
  <1>3. \/ stale' = stale \/ stale' = stale \ Matching(counter')
        \/ \E c \in Channel : Arm(c) \/ FuelScheduleInterrupt(c)
    BY DEF Next, Tick, SetFuelSchedule, TearDuration, Proceed, StoreDuration,
       ReadMask, WriteMask, EnableChannel, QueueNext, QueueNextStart, QueueNextEnd, vars
  <1> QED
    BY <1>1, <1>2, <1>3

\* On the AVR no injector opens before the time that was last set for it, for any
\* number of schedules on the timer and any sequence of calls (scheduler.ino:63).
THEOREM NoPulseIsEarly == ASSUME Board = "AVR" PROVE Spec => NoEarlyStart
  <1>1. Init => TypeOK /\ NoFlagIsStale
    BY TypeInit DEF Init, NoFlagIsStale
  <1>2. TypeOK /\ NoFlagIsStale /\ [Next]_vars => TypeOK' /\ NoFlagIsStale'
    BY TypeStep, StaleStep
  <1>3. NoFlagIsStale /\ [Next]_vars
          => [\A c \in Channel : Status[c] = "PENDING" /\ Status'[c] = "RUNNING"
                                    => c \notin stale]_vars
    BY DEF NoFlagIsStale
  <1> QED
    BY <1>1, <1>2, <1>3, PTL DEF Spec, NoEarlyStart

\* Schedule 1 has the duration last asked for, except while a call stores a new one
\* byte by byte.
DurationIsAsked ==
    \A c \in Channel :
        Kind[c] = "first" /\ (pc # "store" \/ req.ch # c) => duration[c] = asked[c]

LEMMA DurationStep ==
  ASSUME TypeOK, DurationIsAsked, [Next]_vars PROVE DurationIsAsked'
  <1> USE DEF TypeOK, DurationIsAsked
  <1>1. ASSUME UNCHANGED <<duration, asked>>, pc # "store" \/ UNCHANGED <<pc, req>>
        PROVE  DurationIsAsked'
    BY <1>1
  <1>2. ASSUME NEW c \in Channel, TearDuration(c) PROVE DurationIsAsked'
    BY <1>2 DEF TearDuration
  <1>3. ASSUME NEW c \in Channel, StoreDuration(c) PROVE DurationIsAsked'
    BY <1>3 DEF StoreDuration
  <1>4. ASSUME NEW c \in Channel, QueueNext(c) PROVE DurationIsAsked'
    BY <1>4 DEF QueueNext
  <1>5. \/ /\ UNCHANGED <<duration, asked>>
           /\ pc # "store" \/ UNCHANGED <<pc, req>>
        \/ \E c \in Channel : TearDuration(c) \/ StoreDuration(c) \/ QueueNext(c)
    BY DEF Next, Tick, SetFuelSchedule, Proceed, Arm, ReadMask, WriteMask,
       EnableChannel, QueueNextStart, QueueNextEnd, FuelScheduleInterrupt, StartPulse,
       EndPulse, EndPulseAndActivateNext, SpuriousInterrupt, Acknowledge, vars
  <1> QED
    BY <1>1, <1>2, <1>3, <1>4, <1>5

\* Only StartPulse() sets a schedule RUNNING.
LEMMA StartsByInterrupt ==
  ASSUME TypeOK, Next, NEW c \in Channel, Status[c] = "PENDING", Status'[c] = "RUNNING"
  PROVE  compare'[c] = EndOfPulse(c)
  <1> USE DEF TypeOK
  <1>1. ASSUME NEW k \in Channel, StartPulse(k) PROVE k = c
    BY <1>1 DEF StartPulse
  <1>2. \E k \in Channel : StartPulse(k)
    BY DEF Next, Tick, SetFuelSchedule, TearDuration, Proceed, StoreDuration, Arm,
       ReadMask, WriteMask, EnableChannel, QueueNext, QueueNextStart, QueueNextEnd,
       FuelScheduleInterrupt, EndPulse, EndPulseAndActivateNext, SpuriousInterrupt
  <1> QED
    BY <1>1, <1>2 DEF StartPulse

\* A pulse of schedule 1 lasts as long as the last request that was accepted asked
\* for, whatever was running or queued before.
THEOREM LatestDurationIsUsed == Spec => PulseUsesLatestDuration
  <1>1. Init => TypeOK /\ DurationIsAsked
    BY TypeInit DEF Init, DurationIsAsked
  <1>2. TypeOK /\ DurationIsAsked /\ [Next]_vars => TypeOK' /\ DurationIsAsked'
    BY TypeStep, DurationStep
  <1>3. TypeOK /\ DurationIsAsked /\ [Next]_vars
          => [\A c \in Channel :
                (/\ Kind[c] = "first"
                 /\ Status[c] = "PENDING" /\ Status'[c] = "RUNNING"
                 /\ (pc = "loop" \/ req.ch # c))
                => compare'[c] = After(counter, uS_TO_TIMER_COMPARE(asked[c]))]_vars
    BY StartsByInterrupt DEF DurationIsAsked, EndOfPulse
  <1> QED
    BY <1>1, <1>2, <1>3, PTL DEF Spec, PulseUsesLatestDuration
=============================================================================
