---------------------------- MODULE FuelSchedule ----------------------------
(***************************************************************************)
(* The fuel schedules of scheduler.ino that share one hardware timer: the  *)
(* main loop's setFuelScheduleN(), the compare-match interrupts that open  *)
(* and close the injectors, and the timer in between.                      *)
(*                                                                         *)
(* Interrupts are enabled in setFuelScheduleN() except inside its          *)
(* noInterrupts() block, so that the function is split into one step per   *)
(* stretch of code an interrupt can separate.  An interrupt handler is one *)
(* step: the fuel handlers run with interrupts disabled.                   *)
(*                                                                         *)
(* Left out, being written and never read: startCompare, schedulesSet, and *)
(* endCompare and nextEndCompare of schedules 1 to 4, whose pulses end a   *)
(* duration after they began.  The fuel schedules do not use callbacks.    *)
(***************************************************************************)
EXTENDS Integers, FiniteSets

CONSTANTS
    Channel,        \* the schedules of the timer, numbered as in the code
    Kind,           \* which variant of the code a schedule has, see KindOK
    Injector,       \* the injectors the schedules drive
    Opens,          \* the injectors a schedule's start opens...
    Closes,         \* ...and those its end closes
    Board,          \* "AVR" or "TEENSY"
    Period,         \* the counter counts modulo Period (65536 in the code)
    Calls,          \* what the main loop may ask for: the schedule, and the
                    \*   timeout and the duration in microseconds
    TornDurations,  \* what an interrupted 32 bit store may leave behind
    TornTicks       \* what an interrupted 16 bit access may yield

(***************************************************************************)
(* Schedule 1 is "first", schedules 2 to 4 are "mid", 5 to 8 are "high".   *)
(* Every injector that a schedule opens, it also closes, and no other      *)
(* schedule of the same timer that is in use opens or closes it.           *)
(***************************************************************************)
ASSUME ChannelAssumption == Channel \subseteq Nat /\ IsFiniteSet(Channel)
ASSUME KindAssumption == Kind \in [Channel -> {"first", "mid", "high"}]
ASSUME InjectorAssumption ==
    /\ Opens \in [Channel -> SUBSET Injector]
    /\ Closes \in [Channel -> SUBSET Injector]
    /\ \A c \in Channel : Opens[c] # {} /\ Opens[c] \subseteq Closes[c]
    /\ \A c, k \in Channel : c # k => Closes[c] \cap Opens[k] = {}
ASSUME BoardAssumption == Board \in {"AVR", "TEENSY"}
ASSUME PeriodAssumption == Period \in Nat \ {0, 1}

Request == [ch : Channel, timeout : Nat, duration : Nat]

ASSUME RequestAssumption ==
    /\ Calls \subseteq Request
    /\ TornDurations \subseteq Nat
    /\ TornTicks \subseteq 0 .. Period - 1

VARIABLES
    counter,           \* the timer's free running counter
    compare,           \* the compare register of each schedule
    flag,              \* the schedules whose compare match flag is set
    enabled,           \* the schedules whose compare interrupt is enabled
    Status,            \* OFF, PENDING or RUNNING
    duration,          \* microseconds
    endCompare,
    nextStartCompare,
    nextEndCompare,
    hasNextSchedule,   \* the schedules that have one queued
    open,              \* the injectors that are open
    pc, req, saved,    \* the main loop: where it is in setFuelScheduleN(),
                       \*   the call's arguments, the interrupt mask it read
    stale,             \* history: flags raised by a compare value that has
                       \*   been overwritten since
    asked              \* history: the duration last asked for and taken (a
                       \*   call that queues takes it for schedule 1 only)

timer == <<counter, compare, flag, enabled>>
schedule == <<Status, duration, endCompare, nextStartCompare,
              nextEndCompare, hasNextSchedule>>
vars == <<timer, schedule, open, pc, req, saved, stale, asked>>

Ticks == 0 .. Period - 1
UsPerTick == 4

\* The longest time, in microseconds, that the timer can be asked for.
MAX_TIMER_PERIOD == (Period - 1) * UsPerTick

uS_TO_TIMER_COMPARE(us) == us \div UsPerTick

\* The 16 bit sum of a counter value and a number of ticks.
After(base, ticks) == (base + ticks) % Period

NoRequest == [ch |-> 0, timeout |-> 0, duration |-> 0]

Init ==
    /\ counter = 0
    /\ compare = [c \in Channel |-> 0]
    /\ flag = {}
    /\ enabled = {}
    /\ Status = [c \in Channel |-> "OFF"]
    /\ duration = [c \in Channel |-> 0]
    /\ endCompare = [c \in Channel |-> 0]
    /\ nextStartCompare = [c \in Channel |-> 0]
    /\ nextEndCompare = [c \in Channel |-> 0]
    /\ hasNextSchedule = {}
    /\ open = {}
    /\ pc = "loop"
    /\ req = NoRequest
    /\ saved = {}
    /\ stale = {}
    /\ asked = [c \in Channel |-> 0]

-----------------------------------------------------------------------------
(***************************************************************************)
(* The timer counts.  A compare register that equals the new count raises  *)
(* its flag, whether or not its interrupt is enabled.                      *)
(***************************************************************************)
Matching(n) == {c \in Channel : compare[c] = n}

Tick ==
    /\ counter' = After(counter, 1)
    /\ flag' = flag \cup Matching(counter')
    /\ stale' = stale \ Matching(counter')
    /\ UNCHANGED <<compare, enabled, schedule, open, pc, req, saved, asked>>

-----------------------------------------------------------------------------
(***************************************************************************)
(* setFuelScheduleN(timeout, duration), from the main loop.                *)
(***************************************************************************)

\* Schedule 1 refuses what would wrap around, schedules 2 to 4 a timeout that
\* would, schedules 5 to 8 refuse nothing.  A refused call changes nothing.
Accepts(c, t, d) ==
    CASE Kind[c] = "first" -> t + d < MAX_TIMER_PERIOD
      [] Kind[c] = "mid"   -> t < MAX_TIMER_PERIOD
      [] Kind[c] = "high"  -> TRUE

\* The timeout in ticks; the queueing branch does not clip it.
ClippedTimeout(t) ==
    uS_TO_TIMER_COMPARE(IF t > MAX_TIMER_PERIOD THEN MAX_TIMER_PERIOD - 1 ELSE t)

\* The Status is looked at with interrupts enabled.
SetFuelSchedule(c, t, d) ==
    /\ pc = "loop"
    /\ Accepts(c, t, d)
    /\ req' = [ch |-> c, timeout |-> t, duration |-> d]
    /\ pc' = IF Status[c] # "RUNNING" THEN "store" ELSE "queue"
    /\ UNCHANGED <<timer, schedule, open, saved, stale, asked>>

\* schedule.duration = duration, four bytes with interrupts enabled.
TearDuration(c) ==
    /\ pc = "store" /\ req.ch = c
    /\ \E torn \in TornDurations : duration' = [duration EXCEPT ![c] = torn]
    /\ UNCHANGED <<timer, Status, endCompare, nextStartCompare, nextEndCompare,
                   hasNextSchedule, open, pc, req, saved, stale, asked>>

StoreDuration(c) ==
    /\ pc = "store" /\ req.ch = c
    /\ duration' = [duration EXCEPT ![c] = req.duration]
    /\ asked' = [asked EXCEPT ![c] = req.duration]
    /\ pc' = "arm"
    /\ UNCHANGED <<timer, Status, endCompare, nextStartCompare, nextEndCompare,
                   hasNextSchedule, open, req, saved, stale>>

\* Mutant of FlagsAfterArm: an old flag is left up on every board.
FlagsKept(c) == flag

\* FUELn_TIMER_ENABLE() first clears the compare flag on the AVR only.  There
\* it is the instruction after the one that enables interrupts, which the
\* processor executes before it serves any interrupt: it belongs to the block.
FlagsAfterArm(c) ==
    IF Board = "AVR" THEN flag \ {c} ELSE flag

\* The end of a pulse that begins at start.
SetEnd(ends, c, start) ==
    IF Kind[c] = "high"
    THEN [ends EXCEPT ![c] = After(start, uS_TO_TIMER_COMPARE(req.duration))]
    ELSE ends

\* The noInterrupts() block.
Arm(c) ==
    /\ pc = "arm" /\ req.ch = c
    /\ LET start == After(counter, ClippedTimeout(req.timeout))
       IN /\ compare' = [compare EXCEPT ![c] = start]
          /\ endCompare' = SetEnd(endCompare, c, start)
    /\ Status' = [Status EXCEPT ![c] = "PENDING"]
    /\ flag' = FlagsAfterArm(c)
    /\ stale' = (stale \cup {c}) \cap flag'
    /\ pc' = IF Board = "AVR" THEN "readMask" ELSE "enable"
    /\ UNCHANGED <<counter, enabled, duration, nextStartCompare, nextEndCompare,
                   hasNextSchedule, open, req, saved, asked>>

\* FUELn_TIMER_ENABLE(): on the AVR the mask register is shared by the timer's
\* channels and is read, changed and written back in separate instructions.
ReadMask(c) ==
    /\ pc = "readMask" /\ req.ch = c
    /\ saved' = enabled
    /\ pc' = "writeMask"
    /\ UNCHANGED <<timer, schedule, open, req, stale, asked>>

\* Mutant of WriteMask: the mask is assigned instead of or-ed.
WriteMaskOverwrites(c) ==
    /\ pc = "writeMask" /\ req.ch = c
    /\ enabled' = {c}
    /\ saved' = {}
    /\ pc' = "loop"
    /\ req' = NoRequest
    /\ UNCHANGED <<counter, compare, flag, schedule, open, stale, asked>>

WriteMask(c) ==
    /\ pc = "writeMask" /\ req.ch = c
    /\ enabled' = saved \cup {c}
    /\ saved' = {}
    /\ pc' = "loop"
    /\ req' = NoRequest
    /\ UNCHANGED <<counter, compare, flag, schedule, open, stale, asked>>

\* On the Teensy every channel has an enable bit in a register of its own.
EnableChannel(c) ==
    /\ pc = "enable" /\ req.ch = c
    /\ enabled' = enabled \cup {c}
    /\ pc' = "loop"
    /\ req' = NoRequest
    /\ UNCHANGED <<counter, compare, flag, schedule, open, saved, stale, asked>>

\* Mutant of QueueNext: schedule 1 forgets the duration as the others do.
QueueNextKeepsDuration(c) ==
    /\ pc = "queue" /\ req.ch = c /\ Kind[c] = "first"
    /\ LET start == After(counter, uS_TO_TIMER_COMPARE(req.timeout))
       IN /\ nextStartCompare' = [nextStartCompare EXCEPT ![c] = start]
          /\ nextEndCompare' = SetEnd(nextEndCompare, c, start)
    /\ hasNextSchedule' = hasNextSchedule \cup {c}
    /\ asked' = [asked EXCEPT ![c] = req.duration]
    /\ pc' = "loop"
    /\ req' = NoRequest
    /\ UNCHANGED <<timer, Status, duration, endCompare, open, saved, stale>>

\* The schedule was RUNNING.  Schedule 1 queues the next one in a
\* noInterrupts() block and takes its duration.
QueueNext(c) ==
    /\ pc = "queue" /\ req.ch = c /\ Kind[c] = "first"
    /\ LET start == After(counter, uS_TO_TIMER_COMPARE(req.timeout))
       IN /\ nextStartCompare' = [nextStartCompare EXCEPT ![c] = start]
          /\ nextEndCompare' = SetEnd(nextEndCompare, c, start)
    /\ duration' = [duration EXCEPT ![c] = req.duration]
    /\ hasNextSchedule' = hasNextSchedule \cup {c}
    /\ asked' = [asked EXCEPT ![c] = req.duration]
    /\ pc' = "loop"
    /\ req' = NoRequest
    /\ UNCHANGED <<timer, Status, endCompare, open, saved, stale>>

\* The others queue it with interrupts enabled and keep the old duration.  An
\* interrupt between the two bytes of a counter read may spoil the second one.
QueueNextStart(c) ==
    /\ pc = "queue" /\ req.ch = c /\ Kind[c] # "first"
    /\ \E start \in {After(counter, uS_TO_TIMER_COMPARE(req.timeout))}
                      \cup TornTicks :
          nextStartCompare' = [nextStartCompare EXCEPT ![c] = start]
    /\ pc' = "queueEnd"
    /\ UNCHANGED <<timer, Status, duration, endCompare, nextEndCompare,
                   hasNextSchedule, open, req, saved, stale, asked>>

QueueNextEnd(c) ==
    /\ pc = "queueEnd" /\ req.ch = c
    /\ nextEndCompare' = SetEnd(nextEndCompare, c, nextStartCompare[c])
    /\ hasNextSchedule' = hasNextSchedule \cup {c}
    /\ pc' = "loop"
    /\ req' = NoRequest
    /\ UNCHANGED <<timer, Status, duration, endCompare, nextStartCompare,
                   open, saved, stale, asked>>

-----------------------------------------------------------------------------
(***************************************************************************)
(* The compare interrupts.  The AVR serves the enabled channel with the    *)
(* lowest vector.  The Teensy's ftm0_isr() is entered for an enabled       *)
(* channel too, but serves the lowest channel whose flag is up, enabled or *)
(* not.  Either way the flag of the channel served is cleared first.       *)
(* (ftm3_isr() serves all its flagged channels in turn; with one channel   *)
(* that is the same.)                                                      *)
(***************************************************************************)
Serviceable == IF Board = "AVR" THEN flag \cap enabled ELSE flag

Serviced(c) ==
    /\ flag \cap enabled # {}
    /\ c \in Serviceable
    /\ \A k \in Serviceable : c <= k

\* What a starting schedule writes to its compare register.
EndOfPulse(c) ==
    IF Kind[c] = "high" THEN endCompare[c]
                        ELSE After(counter, uS_TO_TIMER_COMPARE(duration[c]))

Acknowledge(c) ==
    /\ flag' = flag \ {c}
    /\ stale' = stale \ {c}
    /\ UNCHANGED <<counter, pc, req, saved, asked>>

StartPulse(c) ==
    /\ Serviced(c) /\ Status[c] = "PENDING"
    /\ open' = open \cup Opens[c]
    /\ Status' = [Status EXCEPT ![c] = "RUNNING"]
    /\ compare' = [compare EXCEPT ![c] = EndOfPulse(c)]
    /\ Acknowledge(c)
    /\ UNCHANGED <<enabled, duration, endCompare, nextStartCompare,
                   nextEndCompare, hasNextSchedule>>

\* Mutant of EndPulse: the next schedule is activated though none is queued.
EndPulseRestarts(c) ==
    /\ Serviced(c) /\ Status[c] = "RUNNING" /\ c \notin hasNextSchedule
    /\ open' = open \ Closes[c]
    /\ Status' = [Status EXCEPT ![c] = "PENDING"]
    /\ compare' = [compare EXCEPT ![c] = nextStartCompare[c]]
    /\ Acknowledge(c)
    /\ UNCHANGED <<enabled, duration, endCompare, nextStartCompare,
                   nextEndCompare, hasNextSchedule>>

EndPulse(c) ==
    /\ Serviced(c) /\ Status[c] = "RUNNING" /\ c \notin hasNextSchedule
    /\ open' = open \ Closes[c]
    /\ Status' = [Status EXCEPT ![c] = "OFF"]
    /\ enabled' = enabled \ {c}
    /\ Acknowledge(c)
    /\ UNCHANGED <<compare, duration, endCompare, nextStartCompare,
                   nextEndCompare, hasNextSchedule>>

\* Mutant of EndPulseAndActivateNext: the queued schedule stays queued.
ActivateNextKeepsQueue(c) ==
    /\ Serviced(c) /\ Status[c] = "RUNNING" /\ c \in hasNextSchedule
    /\ open' = open \ Closes[c]
    /\ compare' = [compare EXCEPT ![c] = nextStartCompare[c]]
    /\ endCompare' = [endCompare EXCEPT ![c] = nextEndCompare[c]]
    /\ Status' = [Status EXCEPT ![c] = "PENDING"]
    /\ Acknowledge(c)
    /\ UNCHANGED <<enabled, duration, nextStartCompare, nextEndCompare,
                   hasNextSchedule>>

EndPulseAndActivateNext(c) ==
    /\ Serviced(c) /\ Status[c] = "RUNNING" /\ c \in hasNextSchedule
    /\ open' = open \ Closes[c]
    /\ compare' = [compare EXCEPT ![c] = nextStartCompare[c]]
    /\ endCompare' = [endCompare EXCEPT ![c] = nextEndCompare[c]]
    /\ Status' = [Status EXCEPT ![c] = "PENDING"]
    /\ hasNextSchedule' = hasNextSchedule \ {c}
    /\ Acknowledge(c)
    /\ UNCHANGED <<enabled, duration, nextStartCompare, nextEndCompare>>

\* Only schedule 1 turns its interrupt off when it finds itself OFF.
SpuriousInterrupt(c) ==
    /\ Serviced(c) /\ Status[c] = "OFF"
    /\ enabled' = IF Kind[c] = "first" THEN enabled \ {c} ELSE enabled
    /\ Acknowledge(c)
    /\ UNCHANGED <<compare, schedule, open>>

FuelScheduleInterrupt(c) ==
    \/ StartPulse(c)
    \/ EndPulse(c)
    \/ EndPulseAndActivateNext(c)
    \/ SpuriousInterrupt(c)

-----------------------------------------------------------------------------
\* The steps that carry an accepted call on to its return.
Proceed(c) ==
    \/ StoreDuration(c)
    \/ Arm(c)
    \/ ReadMask(c) \/ WriteMask(c) \/ EnableChannel(c)
    \/ QueueNext(c)
    \/ QueueNextStart(c) \/ QueueNextEnd(c)

Next ==
    \/ Tick
    \/ \E r \in Calls : SetFuelSchedule(r.ch, r.timeout, r.duration)
    \/ \E c \in Channel :
          \/ TearDuration(c)
          \/ Proceed(c)
          \/ FuelScheduleInterrupt(c)

\* The timer counts for ever, a pending interrupt is served, and a call
\* returns.  Nothing forces the main loop to ask for another pulse.
Fairness ==
    /\ WF_vars(Tick)
    /\ \A c \in Channel : WF_vars(Proceed(c)) /\ WF_vars(FuelScheduleInterrupt(c))

Spec == Init /\ [][Next]_vars

FairSpec == Spec /\ Fairness

-----------------------------------------------------------------------------
\* The type invariant.
TypeOK ==
    /\ counter \in Ticks
    /\ compare \in [Channel -> Ticks]
    /\ flag \subseteq Channel
    /\ enabled \subseteq Channel
    /\ Status \in [Channel -> {"OFF", "PENDING", "RUNNING"}]
    /\ duration \in [Channel -> Nat]
    /\ endCompare \in [Channel -> Ticks]
    /\ nextStartCompare \in [Channel -> Ticks]
    /\ nextEndCompare \in [Channel -> Ticks]
    /\ hasNextSchedule \subseteq Channel
    /\ open \subseteq Injector
    /\ pc \in {"loop", "store", "arm", "readMask", "writeMask", "enable",
               "queue", "queueEnd"}
    /\ pc # "loop" => req \in Request
    /\ saved \subseteq Channel
    /\ stale \subseteq flag
    /\ asked \in [Channel -> Nat]

\* The main loop is on its way to enabling the interrupt of schedule c.
Enabling(c) == pc \in {"readMask", "writeMask", "enable"} /\ req.ch = c

\* An open injector is never forgotten: some schedule that opened it is still
\* in progress and its compare interrupt, which is what will close it, is
\* enabled or about to be.  The interrupts that turn their own enable bit off
\* race with the main loop's read-modify-write of the shared mask.
OpenInjectorIsTimed ==
    \A i \in open :
        \E c \in Channel :
            /\ i \in Opens[c]
            /\ Status[c] \in {"PENDING", "RUNNING"}
            /\ c \in enabled \/ Enabling(c)

\* A schedule that is set or running is served: its interrupt is enabled or
\* about to be.  (A conjunct of the inductive invariant: a schedule that is
\* PENDING may open its injectors at any time.)
ActiveIsEnabled ==
    \A c \in Channel : Status[c] # "OFF" => c \in enabled \/ Enabling(c)

\* A schedule that is running has its injectors open.
RunningIsOpen ==
    \A c \in Channel : Status[c] = "RUNNING" => Opens[c] \subseteq open

\* The mask the main loop is about to write back has every bit that is set now:
\* interrupts only ever clear bits.  (A conjunct of the inductive invariant.)
MaskIsFresh == pc = "writeMask" => enabled \subseteq saved

\* A pulse starts only when the counter has reached the start that was last
\* set for it: an interrupt flag left over from an older compare value never
\* opens an injector.  ("timeout: The number of uS in the future that the
\* startCallback should be triggered", scheduler.ino:63.)
NoEarlyStart ==
    [][\A c \in Channel :
          Status[c] = "PENDING" /\ Status'[c] = "RUNNING" => c \notin stale]_vars

\* A pulse of schedule 1 that starts while no call for it is under way lasts as
\* long as the last request that was accepted asked for, queued or not.  (The
\* other schedules play a queued pulse with the duration of the one before.)
PulseUsesLatestDuration ==
    [][\A c \in Channel :
          (/\ Kind[c] = "first"
           /\ Status[c] = "PENDING" /\ Status'[c] = "RUNNING"
           /\ (pc = "loop" \/ req.ch # c))
          => compare'[c] = After(counter, uS_TO_TIMER_COMPARE(asked[c]))]_vars

\* When the main loop stops asking, every injector is closed for good.
InjectorsEventuallyClose ==
    <>[](pc = "loop") => <>[](open = {})

(***************************************************************************)
(* The schedules implement PulseRequests: a pulse is owed for a schedule   *)
(* that is PENDING and for the one queued behind it.                       *)
(***************************************************************************)
Owed(c) == (IF Status[c] = "PENDING" THEN 1 ELSE 0)
           + (IF c \in hasNextSchedule THEN 1 ELSE 0)

Requests == INSTANCE PulseRequests WITH
    owed <- [c \in Channel |-> Owed(c)],
    injecting <- {c \in Channel : Opens[c] \subseteq open}

\* No pulse without a request for it, none twice for one request.
ImplementsPulseRequests == Requests!Spec
=============================================================================
