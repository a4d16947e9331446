-------------------------- MODULE IgnitionSchedule --------------------------
(***************************************************************************)
(* The ignition schedules of one timer on the AVR boards (scheduler.ino),  *)
(* and the three other parties that change them while they run:            *)
(*                                                                         *)
(*   - the compare interrupts that begin and end the charging of a coil;   *)
(*   - the decoder's trigger interrupt, which moves the end of the dwell   *)
(*     when per-tooth ignition timing is on (decoders.ino);                *)
(*   - the 1 ms interrupt, which cuts a dwell that is too long             *)
(*     (timers.ino).  It is declared ISR_NOBLOCK: the other interrupts     *)
(*     can come between any two of its steps, the main loop cannot.        *)
(*                                                                         *)
(* Left out, being written and never read: startCompare, schedulesSet, the *)
(* hasNextSchedule of every schedule but 3 and 4, and endCompare unless    *)
(* endScheduleSetByDecoder is set.                                         *)
(***************************************************************************)
EXTENDS Integers, FiniteSets

CONSTANTS
    Channel,       \* the schedules, numbered as in the code
    Coil, Drives,  \* the coils, and which one a schedule's callbacks drive
    Period,        \* the timers count modulo Period (65536)...
    ClockPeriod,   \* ...and micros(), in timer ticks, modulo ClockPeriod
    Timeouts, Durations,   \* what the main loop may ask for, in ticks
    ToothLeads,    \* ticks from an end tooth to the end of the dwell
    TornTicks,     \* what an interrupted 16 bit access may yield
    DwellLimit,    \* the longest dwell, in ticks
    UseDwellLim,   \* configPage4.useDwellLim
    PerToothIgn    \* configPage2.perToothIgn

ASSUME ChannelAssumption == Channel \subseteq 1 .. 8
ASSUME DrivesAssumption == Drives \in [Channel -> Coil]
ASSUME PeriodAssumption ==
    /\ Period \in Nat \ {0, 1}
    /\ ClockPeriod \in Nat \ {0}
    /\ ClockPeriod % Period = 0
ASSUME RequestAssumption ==
    /\ Timeouts \subseteq Nat
    /\ Durations \subseteq Nat
    /\ ToothLeads \subseteq Nat
    /\ TornTicks \subseteq 0 .. Period - 1
ASSUME ConfigAssumption ==
    /\ DwellLimit \in Nat
    /\ UseDwellLim \in BOOLEAN
    /\ PerToothIgn \in BOOLEAN

\* How the eight copies of the code differ.
Queues          == Channel \cap {3, 4}    \* play a schedule queued while RUNNING
UseDecoderEnd   == Channel \cap 1 .. 3    \* end a dwell where the decoder said
CatchSpurious   == Channel \cap 1 .. 4    \* turn themselves off when OFF
EnabledAtInit   == Channel \cap 1 .. 4    \* initialiseSchedulers()
Limited         == Channel \cap 1 .. 5    \* looked at by the dwell limiter
PerTooth        == Channel \cap 1 .. 4    \* adjusted by checkPerToothTiming()

VARIABLES
    now,               \* micros() in ticks; the counters are now % Period
    compare, flag, enabled,    \* the timer's registers
    Status,
    duration,
    decoderEnd,        \* endCompare when endScheduleSetByDecoder, else NoEnd
    nextStartCompare,
    hasNextSchedule,
    startTime,
    charging,          \* the coils that are being charged
    pc, req, saved,    \* the main loop, inside setIgnitionScheduleN()
    limiter, target, unchecked,  \* the 1 ms interrupt: where it is, its target
                       \*   time and the schedules it has still to look at
    passed             \* history: the decoder's end is behind the counter

timer == <<now, compare, flag, enabled>>
schedule == <<Status, duration, decoderEnd, nextStartCompare,
              hasNextSchedule, startTime>>
mainLoop == <<pc, req, saved>>
oneMS == <<limiter, target, unchecked>>
vars == <<timer, schedule, charging, mainLoop, oneMS, passed>>

Ticks == 0 .. Period - 1
Clock == 0 .. ClockPeriod - 1
NoEnd == -1

Counter == now % Period

After(ticks) == (Counter + ticks) % Period

NoRequest == [ch |-> 0, timeout |-> 0, duration |-> 0]
Request == [ch : Channel, timeout : Timeouts, duration : Durations]

Init ==
    /\ now = 0
    /\ compare = [c \in Channel |-> 0]
    /\ flag = {}
    /\ enabled = EnabledAtInit
    /\ Status = [c \in Channel |-> "OFF"]
    /\ duration = [c \in Channel |-> 0]
    /\ decoderEnd = [c \in Channel |-> NoEnd]
    /\ nextStartCompare = [c \in Channel |-> 0]
    /\ hasNextSchedule = {}
    /\ startTime = [c \in Channel |-> 0]
    /\ charging = {}
    /\ pc = "loop" /\ req = NoRequest /\ saved = {}
    /\ limiter = "idle" /\ target = 0 /\ unchecked = {}
    /\ passed = {}

-----------------------------------------------------------------------------
\* The clock and the counters; a compare match raises the flag.
Tick ==
    /\ now' = (now + 1) % ClockPeriod
    /\ flag' = flag \cup {c \in Channel : compare[c] = now' % Period}
    /\ passed' = passed \cup {c \in Channel : /\ decoderEnd[c] = now' % Period
                                              /\ Status[c] # "RUNNING"}
    /\ UNCHANGED <<compare, enabled, schedule, charging, mainLoop, oneMS>>

-----------------------------------------------------------------------------
(***************************************************************************)
(* The main loop.  It runs only while the 1 ms interrupt does not.         *)
(***************************************************************************)
MainAt(c, where) == limiter = "idle" /\ pc = where /\ req.ch = c

\* setIgnitionScheduleN(): the Status is looked at with interrupts enabled.
SetIgnitionSchedule(c, t, d) ==
    /\ limiter = "idle" /\ pc = "loop"
    /\ \/ Status[c] # "RUNNING" /\ pc' = "store"
       \/ Status[c] = "RUNNING" /\ c \in Queues /\ pc' = "queue"
    /\ req' = [ch |-> c, timeout |-> t, duration |-> d]
    /\ UNCHANGED <<timer, schedule, charging, saved, oneMS, passed>>

StoreDuration(c) ==
    /\ MainAt(c, "store")
    /\ duration' = [duration EXCEPT ![c] = req.duration]
    /\ pc' = "arm"
    /\ UNCHANGED <<timer, Status, decoderEnd, nextStartCompare, hasNextSchedule,
                   startTime, charging, req, saved, oneMS, passed>>

\* A timeout beyond the timer's range becomes the longest one.
Clipped(t) == IF t > Period - 1 THEN Period - 2 ELSE t

\* The noInterrupts() block, and the instruction after it that clears the
\* compare flag.
Arm(c) ==
    /\ MainAt(c, "arm")
    /\ compare' = [compare EXCEPT ![c] = After(Clipped(req.timeout))]
    /\ Status' = [Status EXCEPT ![c] = "PENDING"]
    /\ flag' = flag \ {c}
    /\ pc' = "readMask"
    /\ UNCHANGED <<now, enabled, duration, decoderEnd, nextStartCompare,
                   hasNextSchedule, startTime, charging, req, saved, oneMS, passed>>

\* IGNn_TIMER_ENABLE() on the mask register the timer's channels share.
ReadMask(c) ==
    /\ MainAt(c, "readMask")
    /\ saved' = enabled
    /\ pc' = "writeMask"
    /\ UNCHANGED <<timer, schedule, charging, req, oneMS, passed>>

WriteMask(c) ==
    /\ MainAt(c, "writeMask")
    /\ enabled' = saved \cup {c}
    /\ pc' = "loop" /\ req' = NoRequest /\ saved' = {}
    /\ UNCHANGED <<now, compare, flag, schedule, charging, oneMS, passed>>

\* The next dwell is queued with interrupts enabled; the counter read may be
\* spoilt by an interrupt, and the duration is not taken.
QueueNextStart(c) ==
    /\ MainAt(c, "queue")
    /\ \E start \in {After(req.timeout)} \cup TornTicks :
          nextStartCompare' = [nextStartCompare EXCEPT ![c] = start]
    /\ pc' = "queued"
    /\ UNCHANGED <<timer, Status, duration, decoderEnd, hasNextSchedule,
                   startTime, charging, req, saved, oneMS, passed>>

QueueNext(c) ==
    /\ MainAt(c, "queued")
    /\ hasNextSchedule' = hasNextSchedule \cup {c}
    /\ pc' = "loop" /\ req' = NoRequest
    /\ UNCHANGED <<timer, Status, duration, decoderEnd, nextStartCompare,
                   startTime, charging, saved, oneMS, passed>>

\* refreshIgnitionSchedule1(timeToEnd): the test, then the noInterrupts() block.
RefreshIgnitionSchedule(c, t) ==
    /\ limiter = "idle" /\ pc = "loop" /\ c = 1 /\ ~PerToothIgn
    /\ Status[c] = "RUNNING" /\ t < duration[c]
    /\ req' = [ch |-> c, timeout |-> t, duration |-> duration[c]]
    /\ pc' = "refresh"
    /\ UNCHANGED <<timer, schedule, charging, saved, oneMS, passed>>

RefreshEnd(c) ==
    /\ MainAt(c, "refresh")
    /\ compare' = [compare EXCEPT ![c] = After(req.timeout)]
    /\ pc' = "loop" /\ req' = NoRequest
    /\ UNCHANGED <<now, flag, enabled, schedule, charging, saved, oneMS, passed>>

-----------------------------------------------------------------------------
(***************************************************************************)
(* checkPerToothTiming(), in the decoder's trigger interrupt at the end    *)
(* tooth of schedule c.  Until the engine has turned often enough it       *)
(* leaves alone a schedule that is not running.                            *)
(***************************************************************************)
EndTooth(c, lead) ==
    /\ PerToothIgn /\ c \in PerTooth
    /\ \/ /\ Status[c] = "RUNNING"
          /\ compare' = [compare EXCEPT ![c] = After(lead)]
          /\ UNCHANGED <<decoderEnd, passed>>
       \/ /\ Status[c] # "RUNNING"
          /\ decoderEnd' = [decoderEnd EXCEPT ![c] = After(lead)]
          /\ passed' = passed \ {c}
          /\ UNCHANGED compare
    /\ UNCHANGED <<now, flag, enabled, Status, duration, nextStartCompare,
                   hasNextSchedule, startTime, charging, mainLoop, oneMS>>

-----------------------------------------------------------------------------
(***************************************************************************)
(* The compare interrupts, lowest vector first.                            *)
(***************************************************************************)
Serviced(c) ==
    /\ c \in flag \cap enabled
    /\ \A k \in flag \cap enabled : c <= k

Acknowledge(c) == flag' = flag \ {c} /\ UNCHANGED <<now, mainLoop, oneMS>>

\* Where the dwell that starts now will end.
EndOfDwell(c) ==
    IF c \in UseDecoderEnd /\ decoderEnd[c] # NoEnd
    THEN decoderEnd[c]
    ELSE After(duration[c])

\* Mutant of StartDwell: a schedule that is OFF starts as well.
StartDwellWhenOff(c) ==
    /\ Serviced(c) /\ Status[c] # "RUNNING"
    /\ charging' = charging \cup {Drives[c]}
    /\ Status' = [Status EXCEPT ![c] = "RUNNING"]
    /\ startTime' = [startTime EXCEPT ![c] = now]
    /\ compare' = [compare EXCEPT ![c] = EndOfDwell(c)]
    /\ Acknowledge(c)
    /\ UNCHANGED <<enabled, duration, decoderEnd, nextStartCompare,
                   hasNextSchedule, passed>>

StartDwell(c) ==
    /\ Serviced(c) /\ Status[c] = "PENDING"
    /\ charging' = charging \cup {Drives[c]}
    /\ Status' = [Status EXCEPT ![c] = "RUNNING"]
    /\ startTime' = [startTime EXCEPT ![c] = now]
    /\ compare' = [compare EXCEPT ![c] = EndOfDwell(c)]
    /\ Acknowledge(c)
    /\ UNCHANGED <<enabled, duration, decoderEnd, nextStartCompare,
                   hasNextSchedule, passed>>

\* Mutant of EndDwell: the end callback is not called.
EndDwellKeepsCharging(c) ==
    /\ Serviced(c) /\ Status[c] = "RUNNING" /\ c \notin hasNextSchedule
    /\ Status' = [Status EXCEPT ![c] = "OFF"]
    /\ decoderEnd' = [decoderEnd EXCEPT ![c] = NoEnd]
    /\ passed' = passed \ {c}
    /\ enabled' = enabled \ {c}
    /\ Acknowledge(c)
    /\ UNCHANGED <<compare, duration, nextStartCompare, hasNextSchedule,
                   startTime, charging>>

EndDwell(c) ==
    /\ Serviced(c) /\ Status[c] = "RUNNING" /\ c \notin hasNextSchedule
    /\ charging' = charging \ {Drives[c]}
    /\ Status' = [Status EXCEPT ![c] = "OFF"]
    /\ decoderEnd' = [decoderEnd EXCEPT ![c] = NoEnd]
    /\ passed' = passed \ {c}
    /\ enabled' = enabled \ {c}
    /\ Acknowledge(c)
    /\ UNCHANGED <<compare, duration, nextStartCompare, hasNextSchedule, startTime>>

\* Mutant of EndDwellAndActivateNext: the queued schedule stays queued.
ActivateNextKeepsQueue(c) ==
    /\ Serviced(c) /\ Status[c] = "RUNNING" /\ c \in hasNextSchedule
    /\ charging' = charging \ {Drives[c]}
    /\ decoderEnd' = [decoderEnd EXCEPT ![c] = NoEnd]
    /\ passed' = passed \ {c}
    /\ compare' = [compare EXCEPT ![c] = nextStartCompare[c]]
    /\ Status' = [Status EXCEPT ![c] = "PENDING"]
    /\ Acknowledge(c)
    /\ UNCHANGED <<enabled, duration, nextStartCompare, hasNextSchedule, startTime>>

EndDwellAndActivateNext(c) ==
    /\ Serviced(c) /\ Status[c] = "RUNNING" /\ c \in hasNextSchedule
    /\ charging' = charging \ {Drives[c]}
    /\ decoderEnd' = [decoderEnd EXCEPT ![c] = NoEnd]
    /\ passed' = passed \ {c}
    /\ compare' = [compare EXCEPT ![c] = nextStartCompare[c]]
    /\ Status' = [Status EXCEPT ![c] = "PENDING"]
    /\ hasNextSchedule' = hasNextSchedule \ {c}
    /\ Acknowledge(c)
    /\ UNCHANGED <<enabled, duration, nextStartCompare, startTime>>

SpuriousInterrupt(c) ==
    /\ Serviced(c) /\ Status[c] = "OFF"
    /\ enabled' = IF c \in CatchSpurious THEN enabled \ {c} ELSE enabled
    /\ Acknowledge(c)
    /\ UNCHANGED <<compare, schedule, charging, passed>>

IgnitionScheduleInterrupt(c) ==
    \/ StartDwell(c)
    \/ EndDwell(c)
    \/ EndDwellAndActivateNext(c)
    \/ SpuriousInterrupt(c)

-----------------------------------------------------------------------------
(***************************************************************************)
(* The overdwell check of the 1 ms interrupt.  It looks at schedules 1 to  *)
(* 5 in turn, unless cranking with locked timing, when it looks at none.   *)
(***************************************************************************)
OverdwellBegin ==
    /\ UseDwellLim /\ limiter = "idle"
    /\ target' = (now - DwellLimit) % ClockPeriod
    /\ unchecked' = Limited
    /\ limiter' = "look"
    /\ UNCHANGED <<timer, schedule, charging, mainLoop, passed>>

LookingAt(c) == c \in unchecked /\ \A k \in unchecked : c <= k

\* startTime < targetOverdwellTime, both 32 bit unsigned.
Overdwelling(c) == startTime[c] < target

DoneWith(c) ==
    /\ unchecked' = unchecked \ {c}
    /\ limiter' = IF unchecked = {c} THEN "idle" ELSE "look"
    /\ UNCHANGED target

OverdwellLook(c) ==
    /\ limiter = "look" /\ LookingAt(c)
    /\ IF Status[c] = "RUNNING" /\ Overdwelling(c)
       THEN limiter' = "cut" /\ UNCHANGED <<target, unchecked>>
       ELSE DoneWith(c)
    /\ UNCHANGED <<timer, schedule, charging, mainLoop, passed>>

\* ignNEndFunction()
OverdwellCut(c) ==
    /\ limiter = "cut" /\ LookingAt(c)
    /\ charging' = charging \ {Drives[c]}
    /\ limiter' = "clear"
    /\ UNCHANGED <<timer, schedule, mainLoop, target, unchecked, passed>>

\* Status = OFF
OverdwellClear(c) ==
    /\ limiter = "clear" /\ LookingAt(c)
    /\ Status' = [Status EXCEPT ![c] = "OFF"]
    /\ DoneWith(c)
    /\ UNCHANGED <<timer, duration, decoderEnd, nextStartCompare,
                   hasNextSchedule, startTime, charging, mainLoop, passed>>

OverdwellStep(c) == OverdwellLook(c) \/ OverdwellCut(c) \/ OverdwellClear(c)

-----------------------------------------------------------------------------
Proceed(c) ==
    \/ StoreDuration(c) \/ Arm(c) \/ ReadMask(c) \/ WriteMask(c)
    \/ QueueNextStart(c) \/ QueueNext(c)
    \/ RefreshEnd(c)

Next ==
    \/ Tick
    \/ OverdwellBegin
    \/ \E c \in Channel :
          \/ \E t \in Timeouts, d \in Durations : SetIgnitionSchedule(c, t, d)
          \/ \E t \in Timeouts : RefreshIgnitionSchedule(c, t)
          \/ \E lead \in ToothLeads : EndTooth(c, lead)
          \/ Proceed(c)
          \/ IgnitionScheduleInterrupt(c)
          \/ OverdwellStep(c)

Fairness ==
    /\ WF_vars(Tick)
    /\ \A c \in Channel : /\ WF_vars(Proceed(c))
                          /\ WF_vars(IgnitionScheduleInterrupt(c))
                          /\ WF_vars(OverdwellStep(c))

Spec == Init /\ [][Next]_vars

FairSpec == Spec /\ Fairness

-----------------------------------------------------------------------------
\* The type invariant.
TypeOK ==
    /\ now \in Clock
    /\ compare \in [Channel -> Ticks]
    /\ flag \subseteq Channel
    /\ enabled \subseteq Channel
    /\ Status \in [Channel -> {"OFF", "PENDING", "RUNNING"}]
    /\ duration \in [Channel -> Nat]
    /\ decoderEnd \in [Channel -> Ticks \cup {NoEnd}]
    /\ nextStartCompare \in [Channel -> Ticks]
    /\ hasNextSchedule \subseteq Queues
    /\ startTime \in [Channel -> Clock]
    /\ charging \subseteq Coil
    /\ pc \in {"loop", "store", "arm", "readMask", "writeMask", "queue",
               "queued", "refresh"}
    /\ pc # "loop" => req.ch \in Channel /\ req.timeout \in Timeouts
    /\ pc \in {"queue", "queued"} => req.ch \in Queues
    /\ pc \in {"store", "arm"} => req.duration \in Durations
    /\ saved \subseteq Channel
    /\ limiter \in {"idle", "look", "cut", "clear"}
    /\ target \in Clock
    /\ unchecked \subseteq Limited
    /\ passed \subseteq Channel

\* The main loop is on its way to enabling the interrupt of schedule c.
Enabling(c) == pc \in {"readMask", "writeMask"} /\ req.ch = c

\* A coil that is being charged is never forgotten: a schedule that charges it
\* is in progress, and the interrupt that will end it is enabled or about to
\* be.  (A coil left charging burns out: the reason for the dwell limiter.)
ChargingIsServed ==
    \A k \in charging :
        \E c \in Channel :
            /\ Drives[c] = k
            /\ Status[c] # "OFF"
            /\ c \in enabled \/ Enabling(c)

\* No schedule that is set or running is forgotten, whatever coil it drives: its
\* interrupt is enabled or about to be.  Schedules of one timer share the mask
\* register, which the interrupts change behind the main loop's back; a spark
\* that is not served never comes.
ActiveIsEnabled ==
    \A c \in Channel : Status[c] # "OFF" => c \in enabled \/ Enabling(c)

(***************************************************************************)
(* The other conjuncts of the inductive invariant.  The mask about to be   *)
(* written back covers the mask as it is; and the schedule that the        *)
(* limiter is cutting is not the one that keeps its coil charged, nor      *)
(* about to become it.                                                     *)
(***************************************************************************)
MaskIsFresh == pc = "writeMask" => enabled \subseteq saved

BeingCut(c) == limiter \in {"cut", "clear"} /\ LookingAt(c)

CutIsOver == \A c \in Channel : BeingCut(c) => Status[c] # "PENDING"

CoilHasHolder ==
    \A k \in charging :
        \E c \in Channel :
            /\ Drives[c] = k
            /\ Status[c] # "OFF"
            /\ ~(limiter = "clear" /\ LookingAt(c))

\* A dwell whose end was set by the decoder starts before that end.  ("This
\* situation occurs when both the start and end of the ignition pulse happen
\* after the end tooth, but before the next tooth", decoders.ino:214.)
DecoderEndIsAhead ==
    [][\A c \in UseDecoderEnd :
          Status[c] = "PENDING" /\ Status'[c] = "RUNNING" => c \notin passed]_vars

\* When the main loop and the trigger fall silent, every coil is discharged.
CoilsEventuallyDischarge ==
    (<>[](pc = "loop") /\ <>[][~\E c \in Channel, lead \in ToothLeads :
                                    EndTooth(c, lead)]_vars)
       => <>[](charging = {})

(***************************************************************************)
(* A dwell, too, answers a request of its own (module PulseRequests).      *)
(***************************************************************************)
Owed(c) == (IF Status[c] = "PENDING" THEN 1 ELSE 0)
           + (IF c \in hasNextSchedule THEN 1 ELSE 0)

Requests == INSTANCE PulseRequests WITH
    owed <- [c \in Channel |-> Owed(c)],
    injecting <- {c \in Channel : Drives[c] \in charging}

\* No dwell without a request for it, none twice for one request.
ImplementsPulseRequests == Requests!Spec
=============================================================================
