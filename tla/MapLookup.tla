------------------------------ MODULE MapLookup ------------------------------
(***************************************************************************)
(* The lookup of a value in a map of load and speed (get3DTableValue() of  *)
(* table.ino): fuel, ignition, target AFR, boost, VVT, staging and trims.  *)
(*                                                                         *)
(* Every loop looks the maps up, and a lookup remembers what the next one  *)
(* may use: the bins it found and its result.  The tuner changes bins and  *)
(* values between two lookups (receiveValue() of comms.ino).  Speeds are   *)
(* the X axis, ascending; loads are the Y axis, descending, as the map's   *)
(* first row is its top.  Speeds and loads are small here: nothing of the  *)
(* interpolation depends on their unit.                                    *)
(*                                                                         *)
(* The arithmetic is the code's: positions in 256ths, four weights each    *)
(* rounded down, and their sum in an int, of 16 bits on the AVR boards.    *)
(* Of the result the cache keeps a byte, as most callers do.               *)
(***************************************************************************)
EXTENDS Integers, FiniteSetsExt

CONSTANTS
    Speeds, Loads,     \* the inputs of lookups
    FirstMap,          \* the map that was loaded: axisX, axisY and values
    SpeedBins,         \* what the tuner may write in a bin of the X axis
    LoadBins,          \* ... and of the Y axis
    TunedCells,        \* the cells whose values the tuner changes
    Values,            \* ... to one of these, at most 255
    IntSize            \* how many values an int has: 65536 on AVR boards

VARIABLES
    map,         \* axisX, axisY, values[row][column]
    lastX,       \* lastXMin and lastXMax: the columns found last
    lastY,       \* lastYMin and lastYMax: the rows found last
    cache,       \* lastXInput, lastYInput, lastOutput, cacheIsValid
    answer       \* what the last lookup was asked and returned

mapVars == <<map, lastX, lastY, cache, answer>>

Columns == DOMAIN FirstMap.axisX
Rows == DOMAIN FirstMap.axisY
LastColumn == Max(Columns)
LastRow == Max(Rows)

\* The settings the tuning software lets through: bins in order.
Ascending(axis) == \A i, j \in DOMAIN axis : i < j => axis[i] < axis[j]
Descending(axis) == \A i, j \in DOMAIN axis : i < j => axis[i] > axis[j]

Byte == 0 .. 255
Map == [axisX : [Columns -> Int], axisY : [Rows -> Int], values : [Rows -> [Columns -> Byte]]]

ASSUME MapAssumption ==
    /\ LastColumn \in Nat \ {0} /\ Columns = 0 .. LastColumn
    /\ LastRow \in Nat \ {0} /\ Rows = 0 .. LastRow
    /\ FirstMap \in Map /\ Ascending(FirstMap.axisX) /\ Descending(FirstMap.axisY)
ASSUME TunerAssumption ==
    /\ Speeds \subseteq Int /\ Loads \subseteq Int
    /\ SpeedBins \subseteq Int /\ LoadBins \subseteq Int
    /\ TunedCells \subseteq Rows \X Columns /\ Values \subseteq Byte
\* An int has 16 bits or more.
ASSUME IntAssumption == IntSize \in Nat \ {0} /\ IntSize % 65536 = 0

(***************************************************************************)
(* The bins                                                                *)
(***************************************************************************)
\* An input beyond the axis is its first or last bin.
Clamp(v, low, high) == IF v < low THEN low ELSE IF v > high THEN high ELSE v

Moved(bins, by) == [min |-> bins.min + by, max |-> bins.max + by]

\* Each axis's test that the input lies between two of its bins.
InColumns(x, bins) == x <= map.axisX[bins.max] /\ x > map.axisX[bins.min]
InRows(y, bins) == y >= map.axisY[bins.max] /\ y < map.axisY[bins.min]

\* The end of the loop over an axis: one bin if it is the input, or the two
\* the input lies between.
BinsAt(axis, v, found) ==
    [min |-> IF v = axis[found] \/ found = 0 THEN found ELSE found - 1, max |-> found]

\* The loop over the axis, from its end, when the bins found last and their
\* neighbours do not hold the input.
SearchColumns(x) ==
    BinsAt(map.axisX, x,
           Max({i \in Columns : x = map.axisX[i] \/ i = 0
                                \/ InColumns(x, [min |-> i - 1, max |-> i])}))

SearchRows(y) ==
    BinsAt(map.axisY, y,
           Max({i \in Rows : y = map.axisY[i] \/ i = 0
                             \/ InRows(y, [min |-> i - 1, max |-> i])}))

FindColumns(x) ==
    IF InColumns(x, lastX) THEN lastX
    ELSE IF lastX.max + 1 \in Columns /\ InColumns(x, Moved(lastX, 1)) THEN Moved(lastX, 1)
    ELSE IF lastX.min > 0 /\ InColumns(x, Moved(lastX, -1)) THEN Moved(lastX, -1)
    ELSE SearchColumns(x)

\* The neighbours of the rows found last are tested the other way round.
FindRows(y) ==
    LET Neighbours(bins) == y <= map.axisY[bins.min] /\ y > map.axisY[bins.max]
    IN  IF InRows(y, lastY) THEN lastY
        ELSE IF lastY.min > 0 /\ Neighbours(Moved(lastY, -1)) THEN Moved(lastY, -1)
        ELSE IF lastY.max + 1 \in Rows /\ Neighbours(Moved(lastY, 1)) THEN Moved(lastY, 1)
        ELSE SearchRows(y)

(***************************************************************************)
(* The interpolation between the four corners                              *)
(***************************************************************************)
\* An int keeps what fits in it.
AsInt(n) == ((n + IntSize \div 2) % IntSize) - IntSize \div 2

\* How far the input is from the first of its two bins, in 256ths.
Along(v, from, to) ==
    IF from = to THEN 256 * (v - from) ELSE (256 * (v - from)) \div (to - from)
\* Mutant of Down: measured from the other end.
DownFromBottom(v, top, bottom) ==
    IF top = bottom THEN 256 * (v - top) ELSE (256 * (v - bottom)) \div (top - bottom)

Down(v, top, bottom) ==
    IF top = bottom THEN 256 * (v - top) ELSE 256 - (256 * (v - bottom)) \div (top - bottom)

Weight(a, b) == (a * b) \div 256

\* The four corners, weighted, unless they are all the same.
Blend(A, B, C, D, p, q) ==
    IF A = B /\ A = C /\ A = D THEN A
    ELSE AsInt(A * Weight(256 - p, 256 - q) + B * Weight(p, 256 - q)
               + C * Weight(256 - p, q) + D * Weight(p, q)) \div 256

Interpolate(x, y, columns, rows) ==
    Blend(map.values[rows.min][columns.min], map.values[rows.min][columns.max],
          map.values[rows.max][columns.min], map.values[rows.max][columns.max],
          Along(x, map.axisX[columns.min], map.axisX[columns.max]),
          Down(y, map.axisY[rows.min], map.axisY[rows.max]))

(***************************************************************************)
(* A lookup, and a byte from the tuner                                     *)
(***************************************************************************)
Hit(x, y) == cache.valid /\ cache.x = x /\ cache.y = y

\* The inputs as the map can answer them.
Speed(x) == Clamp(x, map.axisX[0], map.axisX[LastColumn])
Load(y) == Clamp(y, map.axisY[LastRow], map.axisY[0])

Lookup(x, y) ==
    LET columns == FindColumns(Speed(x))
        rows == FindRows(Load(y))
        result == Interpolate(Speed(x), Load(y), columns, rows)
    IN  IF Hit(x, y)
        THEN /\ answer' = [x |-> x, y |-> y, value |-> cache.output]
             /\ UNCHANGED <<map, lastX, lastY, cache>>
        ELSE /\ lastX' = columns /\ lastY' = rows
             /\ cache' = [x |-> x, y |-> y, output |-> result % 256, valid |-> TRUE]
             /\ answer' = [x |-> x, y |-> y, value |-> result]
             /\ UNCHANGED map

\* Mutant of TuneValue: the cached result stays valid.
TuneValueKeepsCache(row, column, value) ==
    /\ map' = [map EXCEPT !.values[row][column] = value]
    /\ UNCHANGED <<lastX, lastY, cache, answer>>

TuneValue(row, column, value) ==
    /\ map' = [map EXCEPT !.values[row][column] = value]
    /\ cache' = [cache EXCEPT !.valid = FALSE]
    /\ UNCHANGED <<lastX, lastY, answer>>

TuneSpeedBin(column, bin) ==
    /\ Ascending([map.axisX EXCEPT ![column] = bin])
    /\ map' = [map EXCEPT !.axisX[column] = bin]
    /\ cache' = [cache EXCEPT !.valid = FALSE]
    /\ UNCHANGED <<lastX, lastY, answer>>

TuneLoadBin(row, bin) ==
    /\ Descending([map.axisY EXCEPT ![row] = bin])
    /\ map' = [map EXCEPT !.axisY[row] = bin]
    /\ cache' = [cache EXCEPT !.valid = FALSE]
    /\ UNCHANGED <<lastX, lastY, answer>>

\* The lookup's memory is in static storage: it starts as zeros.
MapInit ==
    /\ map = FirstMap
    /\ lastX = [min |-> 0, max |-> 0] /\ lastY = [min |-> 0, max |-> 0]
    /\ cache = [x |-> 0, y |-> 0, output |-> 0, valid |-> FALSE]
    /\ answer = [x |-> 0, y |-> 0, value |-> FirstMap.values[LastRow][0]]

LookupSome == \E x \in Speeds, y \in Loads : Lookup(x, y)
Tune ==
    \/ \E cell \in TunedCells, value \in Values : TuneValue(cell[1], cell[2], value)
    \/ \E column \in Columns, bin \in SpeedBins : TuneSpeedBin(column, bin)
    \/ \E row \in Rows, bin \in LoadBins : TuneLoadBin(row, bin)

MapNext == LookupSome \/ Tune

MapSpec == MapInit /\ [][MapNext]_mapVars

(***************************************************************************)
(* Properties                                                              *)
(***************************************************************************)
\* What a caller keeps of a result: most keep a byte.
Kept(value) == value % 256

\* The lookup with no memory at all.
Fresh(x, y) ==
    Interpolate(Speed(x), Load(y), SearchColumns(Speed(x)), SearchRows(Load(y)))

\* The bins found last are one bin or two that follow each other.
Adjacent(bins, indexes) ==
    /\ bins \in [min : indexes, max : indexes]
    /\ bins.max \in {bins.min, bins.min + 1}

\* What the cache holds is the byte that was answered, to the same question.
CacheIsTheAnswer ==
    cache.valid =>
        cache.x = answer.x /\ cache.y = answer.y /\ cache.output = Kept(answer.value)

\* The type invariant.
MapTypeOK ==
    /\ map \in Map /\ Ascending(map.axisX) /\ Descending(map.axisY)
    /\ Adjacent(lastX, Columns) /\ Adjacent(lastY, Rows)
    /\ cache \in [x : Int, y : Int, output : Byte, valid : BOOLEAN]
    /\ answer \in [x : Int, y : Int, value : Int]

\* A lookup returns what it would return without its memory: neither the
\* lookups before it nor what the tuner did before it, to the bins or to the
\* values, changes the byte that is read from the map (the short cuts over
\* the bins found last and the cached result of get3DTableValue()).  The
\* cache is valid from a lookup until the tuner writes.
LookupHasNoMemory ==
    cache.valid => Kept(answer.value) = Kept(Fresh(answer.x, answer.y))

\* The bilinear surface through the four entries around an input, as a
\* fraction of the area between the bins: the definition, without rounding.
Surface(x, y) ==
    LET speed == Speed(x)
        load == Load(y)
        c == CHOOSE i \in Columns \ {0} : map.axisX[i - 1] <= speed /\ speed <= map.axisX[i]
        r == CHOOSE i \in Rows \ {0} : map.axisY[i - 1] >= load /\ load >= map.axisY[i]
        right == speed - map.axisX[c - 1]    left == map.axisX[c] - speed
        above == load - map.axisY[r]         below == map.axisY[r - 1] - load
    IN  [num |-> map.values[r - 1][c - 1] * left * above + map.values[r - 1][c] * right * above
                 + map.values[r][c - 1] * left * below + map.values[r][c] * right * below,
         den |-> (left + right) * (above + below)]

\* A lookup is close to the surface through the map's entries: all the
\* rounding of positions and weights moves it by at most Tolerance, wherever
\* the bins of the lookup before left it.
Tolerance == 5
LookupIsOnTheSurface ==
    cache.valid =>
        LET s == Surface(answer.x, answer.y)
            got == Kept(answer.value) * s.den
        IN  got <= s.num + Tolerance * s.den /\ got >= s.num - Tolerance * s.den
=============================================================================
