----------------------------- MODULE CurveLookup -----------------------------
(***************************************************************************)
(* The lookup of a value on a curve (table2D_getValue() of table.ino), as  *)
(* the corrections, the idle and the boost adder make it in every loop.    *)
(*                                                                         *)
(* Unlike a map a curve is not told when the tuner writes: the result is   *)
(* kept for the input it was asked for, together with the second it was    *)
(* worked out in (secl, a byte), so that it expires.  The second is noted  *)
(* only where the result is interpolated; the two ends of the curve are    *)
(* read directly.                                                          *)
(***************************************************************************)
EXTENDS Integers, FiniteSetsExt

CONSTANTS
    Inputs,         \* what the curve is asked for
    AxisX,          \* its bins, ascending: a function from 0 .. n
    FirstCurve,     \* its values when the board is switched on
    TunedBins,      \* the bins whose values the tuner changes
    CurveValues,    \* ... to one of these
    SeclSize        \* secl counts modulo this, 256 in the code

VARIABLES
    curve,          \* the values
    lastBins,       \* lastXMin, lastXMax
    kept,           \* lastInput, lastOutput, cacheTime: also what was returned last
    secl,           \* currentStatus.secl
    looked,         \* the loop has looked the curve up in this second
    recent          \* history: the curves there were in this second, and in the one before

curveVars == <<curve, lastBins, kept, secl, looked, recent>>

LastBin == Max(DOMAIN AxisX)

\* Bytes, or the adders of flexBoostTable: of 16 bits, but less than 512 apart,
\* so that 64 times their difference is an int16_t.
CurveRange == 0 .. 511

\* The bins are bytes, in order.
ASSUME CurveAssumption ==
    /\ LastBin \in Nat \ {0} /\ AxisX \in [0 .. LastBin -> 0 .. 255]
    /\ \A i, j \in 0 .. LastBin : i < j => AxisX[i] < AxisX[j]
    /\ FirstCurve \in [0 .. LastBin -> CurveRange]
    /\ TunedBins \subseteq 0 .. LastBin /\ CurveValues \subseteq CurveRange
ASSUME SecondsAssumption == Inputs \subseteq Int /\ SeclSize \in Nat /\ SeclSize > 1

\* Static storage starts as zeros, and so does the clock.
CurveInit ==
    /\ curve = FirstCurve
    /\ lastBins = [min |-> 0, max |-> 0]
    /\ kept = [input |-> 0, output |-> 0, time |-> 0]
    /\ secl = 0
    /\ looked = FALSE
    /\ recent = [now |-> {FirstCurve}, before |-> {FirstCurve}]

----------------------------------------------------------------------------
Holds(bins, x) == x <= AxisX[bins.max] /\ x > AxisX[bins.min]

\* The bins an input within the curve lies between: those of the lookup
\* before, or else what the loop from the end finds.
Between(x) ==
    IF Holds(lastBins, x) THEN lastBins
    ELSE LET found == Min({i \in 1 .. LastBin : x <= AxisX[i]})
         IN  [min |-> found - 1, max |-> found]

\* An int16_t keeps 16 bits.
Int16(n) == ((n + 32768) % 65536) - 32768

Absolute(n) == IF n < 0 THEN -n ELSE n

\* The share of the way in 64ths, times the difference, added to the value
\* of the lower bin, or taken from it when the curve falls.
InterpolatedAt(x, bins) ==
    LET yMin == curve[bins.min]
        yMax == curve[bins.max]
        share == (64 * (x - AxisX[bins.min])) \div (AxisX[bins.max] - AxisX[bins.min])
        yVal == Int16(share * Absolute(yMax - yMin)) \div 64
    IN  IF yMax > yMin THEN yMin + yVal ELSE yMin - yVal

\* Mutant of IsKept: a result does not expire.
IsKeptForGood(x) == kept.input = x

\* The kept result is of this input and of this second.
IsKept(x) == kept.input = x /\ kept.time = secl

GetKept(x) == IsKept(x) /\ UNCHANGED <<kept, lastBins>>

\* The result is kept, but not the second.
GetEnd(x) ==
    /\ ~IsKept(x)
    /\ x >= AxisX[LastBin] \/ x <= AxisX[0]
    /\ kept' = [kept EXCEPT !.input = x,
                            !.output = IF x <= AxisX[0] THEN curve[0] ELSE curve[LastBin]]
    /\ UNCHANGED lastBins

\* A bin that the loop over the axis hits exactly is read, and the bins of
\* the lookup before are not replaced.
GetBetween(x) ==
    /\ ~IsKept(x)
    /\ x > AxisX[0] /\ x < AxisX[LastBin]
    /\ LET bins == Between(x)
           exact == x = AxisX[bins.max] /\ bins # lastBins
       IN  /\ kept' = [input |-> x, time |-> secl,
                       output |-> IF exact THEN curve[bins.max] ELSE InterpolatedAt(x, bins)]
           /\ lastBins' = IF exact THEN lastBins ELSE bins

\* Every loop looks the curve up.
GetValue(x) ==
    /\ looked' = TRUE
    /\ GetKept(x) \/ GetEnd(x) \/ GetBetween(x)
    /\ UNCHANGED <<curve, secl, recent>>

\* The tuner writes a value of the curve: nothing is told to the lookup.
TuneCurve(bin, value) ==
    /\ curve' = [curve EXCEPT ![bin] = value]
    /\ recent' = [recent EXCEPT !.now = @ \cup {curve'}]
    /\ UNCHANGED <<lastBins, kept, secl, looked>>

\* The 1 ms interrupt counts another second, in which many loops have gone by.
NextSecond ==
    /\ looked
    /\ secl' = (secl + 1) % SeclSize
    /\ looked' = FALSE
    /\ recent' = [now |-> {curve}, before |-> recent.now]
    /\ UNCHANGED <<curve, lastBins, kept>>

\* The tuning software that connects has the count set back, within a second.
\* It connects again after two seconds at the earliest.
SetBack ==
    /\ looked
    /\ secl > 1
    /\ secl' = 0
    /\ UNCHANGED <<curve, lastBins, kept, looked, recent>>

CurveNext ==
    \/ \E x \in Inputs : GetValue(x)
    \/ \E bin \in TunedBins, value \in CurveValues : TuneCurve(bin, value)
    \/ NextSecond
    \/ SetBack

CurveSpec == CurveInit /\ [][CurveNext]_curveVars

(***************************************************************************)
(* Properties                                                              *)
(***************************************************************************)
\* The value is that of the curve c at x, but for rounding: the share of the way
\* loses up to one of 64 parts of the rise, the product up to one.
IsOnCurve(value, c, x) ==
    IF x <= AxisX[0] THEN value = c[0]
    ELSE IF x >= AxisX[LastBin] THEN value = c[LastBin]
    ELSE \E i \in 1 .. LastBin :
            /\ AxisX[i - 1] <= x /\ x <= AxisX[i]
            /\ LET n == AxisX[i] - AxisX[i - 1]
                   rise == c[i] - c[i - 1]
               IN  64 * Absolute((value - c[i - 1]) * n - (x - AxisX[i - 1]) * rise)
                      < n * (Absolute(rise) + 64)

\* A lookup returns a value on a curve there was in this second or in the one
\* before, whatever was looked up and tuned in between: the kept result of
\* table2D_getValue() expires with the byte secl, although it is kept without
\* its second at the ends of the curve, secl wraps and is set back to zero.
ValueIsOnRecentCurve ==
    [][\A x \in Inputs : GetValue(x) =>
          \E c \in recent.now \cup recent.before : IsOnCurve(kept'.output, c, x)]_curveVars

\* The type invariant: the bins found last follow each other, but for the first
\* lookup, which finds the zeros of static storage.
CurveTypeOK ==
    /\ curve \in [0 .. LastBin -> CurveRange]
    /\ lastBins \in [min : 0 .. LastBin, max : 0 .. LastBin]
    /\ lastBins.max = lastBins.min + 1 \/ lastBins = [min |-> 0, max |-> 0]
    /\ kept \in [input : Inputs \cup {0}, output : Int, time : 0 .. SeclSize - 1]
    /\ secl \in 0 .. SeclSize - 1 /\ looked \in BOOLEAN
    /\ recent \in [now : SUBSET [0 .. LastBin -> CurveRange],
                   before : SUBSET [0 .. LastBin -> CurveRange]]
    /\ curve \in recent.now
=============================================================================
