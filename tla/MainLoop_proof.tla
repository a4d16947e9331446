--------------------------- MODULE MainLoop_proof ---------------------------
(***************************************************************************)
(* Proofs about the parts of a round of the main loop that MCMainLoop puts *)
(* together: the lookups, for every map and curve, everything that is      *)
(* asked of them and everything the tuner writes, and the enrichment of an *)
(* acceleration, for every time, threshold, width of the clock and pace of *)
(* the loop.                                                               *)
(***************************************************************************)
EXTENDS MapLookup, CurveLookup, AccelEnrichment, TLAPS, WellFoundedInduction

\* A set of natural numbers has a least element.
LEMMA Least ==
  ASSUME NEW T \in SUBSET Nat, T # {}
  PROVE  \E k \in T : \A i \in T : k <= i
  <1>1. PICK k \in T : \A i \in T : ~ (<<i, k>> \in OpToRel(<, Nat))
    BY NatLessThanWellFounded, WFMin
  <1>2. \A i \in T : ~ (i < k)
    BY <1>1 DEF OpToRel
  <1> QED
    BY <1>2

\* What div leaves over.
LEMMA DivRest ==
  ASSUME NEW a \in Nat, NEW n \in Nat \ {0}
  PROVE  a \div n \in Nat /\ n * (a \div n) <= a /\ a < n * (a \div n) + n
  OBVIOUS

LEMMA DivRest64 ==
  ASSUME NEW a \in Int, 0 <= a
  PROVE  a \div 64 \in Nat /\ 64 * (a \div 64) <= a /\ a < 64 * (a \div 64) + 64
  OBVIOUS

(***************************************************************************)
(* The search of an axis                                                   *)
(***************************************************************************)
\* Where an input lies: on the bin at k, or between it and the one before.
OnColumn(axis, x, k) == x = axis[k]
PastColumn(axis, x, k) == k > 0 /\ axis[k - 1] < x /\ x < axis[k]

OnRow(axis, y, k) == y = axis[k]
PastRow(axis, y, k) == k > 0 /\ axis[k] < y /\ y < axis[k - 1]

\* An input within the axis lies somewhere on it.
LEMMA ColumnExists ==
  ASSUME NEW n \in Nat, NEW axis \in [0 .. n -> Int], NEW x \in Int,
         axis[0] <= x, x <= axis[n]
  PROVE  \E k \in 0 .. n : OnColumn(axis, x, k) \/ PastColumn(axis, x, k)
  <1> DEFINE T == {i \in 0 .. n : x <= axis[i]}
  <1>1. n \in T /\ T \in SUBSET Nat
    OBVIOUS
  <1>2. PICK k \in T : \A i \in T : k <= i
    BY <1>1, Least
  <1>3. CASE k = 0
    BY <1>2, <1>3 DEF OnColumn
  <1>4. CASE k > 0
    <2>1. k - 1 \in 0 .. n /\ k - 1 \notin T
      BY <1>2, <1>4
    <2>2. axis[k - 1] < x
      BY <2>1
    <2> QED
      BY <2>2, <1>4 DEF OnColumn, PastColumn
  <1> QED
    BY <1>3, <1>4

LEMMA RowExists ==
  ASSUME NEW n \in Nat, NEW axis \in [0 .. n -> Int], NEW y \in Int,
         axis[n] <= y, y <= axis[0]
  PROVE  \E k \in 0 .. n : OnRow(axis, y, k) \/ PastRow(axis, y, k)
  <1> DEFINE T == {i \in 0 .. n : y >= axis[i]}
  <1>1. n \in T /\ T \in SUBSET Nat
    OBVIOUS
  <1>2. PICK k \in T : \A i \in T : k <= i
    BY <1>1, Least
  <1>3. CASE k = 0
    BY <1>2, <1>3 DEF OnRow
  <1>4. CASE k > 0
    <2>1. k - 1 \in 0 .. n /\ k - 1 \notin T
      BY <1>2, <1>4
    <2>2. axis[k - 1] > y
      BY <2>1
    <2> QED
      BY <2>2, <1>4 DEF OnRow, PastRow
  <1> QED
    BY <1>3, <1>4

\* An input lies between two bins only where it was found to.
LEMMA ColumnBetween ==
  ASSUME NEW n \in Nat, NEW axis \in [0 .. n -> Int],
         \A i, j \in 0 .. n : i < j => axis[i] < axis[j],
         NEW x \in Int, NEW k \in 0 .. n, OnColumn(axis, x, k) \/ PastColumn(axis, x, k),
         NEW m \in 0 .. n, m + 1 \in 0 .. n, x <= axis[m + 1], axis[m] < x
  PROVE  k = m + 1
  <1>1. x <= axis[k]
    BY DEF OnColumn, PastColumn
  <1>2. m < k
    BY <1>1
  <1>3. CASE k > m + 1
    <2>1. axis[m + 1] < axis[k]
      BY <1>3
    <2>2. k - 1 \in 0 .. n /\ (m + 1 = k - 1 \/ m + 1 < k - 1)
      BY <1>3
    <2>3. axis[m + 1] <= axis[k - 1]
      BY <2>2
    <2> QED
      BY <2>1, <2>2, <2>3 DEF OnColumn, PastColumn
  <1> QED
    BY <1>2, <1>3

LEMMA RowBetween ==
  ASSUME NEW n \in Nat, NEW axis \in [0 .. n -> Int],
         \A i, j \in 0 .. n : i < j => axis[i] > axis[j],
         NEW y \in Int, NEW k \in 0 .. n, OnRow(axis, y, k) \/ PastRow(axis, y, k),
         NEW m \in 0 .. n, m + 1 \in 0 .. n, y >= axis[m + 1], axis[m] > y
  PROVE  k = m + 1
  <1>1. y >= axis[k]
    BY DEF OnRow, PastRow
  <1>2. m < k
    <2>1. axis[m] \in Int /\ axis[k] \in Int
      OBVIOUS
    <2>2. axis[k] < axis[m]
      BY <1>1, <2>1
    <2>3. k < m => axis[k] > axis[m]
      OBVIOUS
    <2> QED
      BY <2>1, <2>2, <2>3
  <1>3. CASE k > m + 1
    <2>1. axis[m + 1] > axis[k]
      BY <1>3
    <2>2. k - 1 \in 0 .. n /\ (m + 1 = k - 1 \/ m + 1 < k - 1)
      BY <1>3
    <2>3. axis[m + 1] >= axis[k - 1]
      BY <2>2
    <2> QED
      BY <2>1, <2>2, <2>3 DEF OnRow, PastRow
  <1> QED
    BY <1>2, <1>3

\* The test of a neighbour of the rows found last.
LEMMA RowBetweenNext ==
  ASSUME NEW n \in Nat, NEW axis \in [0 .. n -> Int],
         \A i, j \in 0 .. n : i < j => axis[i] > axis[j],
         NEW y \in Int, NEW k \in 0 .. n, OnRow(axis, y, k) \/ PastRow(axis, y, k),
         NEW m \in 0 .. n, m + 1 \in 0 .. n, y > axis[m + 1], axis[m] >= y
  PROVE  k = m + 1 \/ (k = m /\ OnRow(axis, y, k))
  <1>1. CASE axis[m] > y
    <2>1. y >= axis[m + 1]
      OBVIOUS
    <2> QED
      BY <1>1, <2>1, RowBetween
  <1>2. CASE axis[m] = y
    <2>1. CASE OnRow(axis, y, k)
      BY <1>2, <2>1 DEF OnRow
    <2>2. CASE PastRow(axis, y, k)
      <3>1. k - 1 \in 0 .. n /\ axis[k] < axis[m] /\ axis[m] < axis[k - 1]
        BY <1>2, <2>2 DEF PastRow
      <3>2. k - 1 < m /\ m < k
        BY <3>1
      <3> QED
        BY <3>2
    <2> QED
      BY <2>1, <2>2
  <1> QED
    BY <1>1, <1>2

\* A greatest element is what Max gives.
LEMMA MaxIs ==
  ASSUME NEW S \in SUBSET Int, NEW k \in S, \A i \in S : i <= k
  PROVE  Max(S) = k
  <1>1. k \in S /\ \A y \in S : k >= y
    OBVIOUS
  <1>2. Max(S) \in S /\ \A y \in S : Max(S) >= y
    BY <1>1, Zenon DEF Max
  <1>3. k >= Max(S) /\ Max(S) >= k
    BY <1>1, <1>2, Zenon
  <1>4. Max(S) \in Int /\ k \in Int
    BY <1>1, <1>2, Zenon
  <1> HIDE DEF Max
  <1> QED
    BY <1>3, <1>4

(***************************************************************************)
(* The weights at the edges of a cell                                      *)
(***************************************************************************)
\* What is read of a 256th of an int does not depend on the width of the int.
LEMMA KeptAsInt ==
  ASSUME NEW s \in Int
  PROVE  Kept(AsInt(s) \div 256) = Kept(s \div 256)
  <1> DEFINE h == IntSize \div 2
             m == s + h
             j == m \div IntSize
             k == IntSize \div 65536
             t == j * k
  <1>1. IntSize \in Nat \ {0} /\ h \in Int /\ m \in Int /\ j \in Int /\ k \in Int
    BY IntAssumption
  <1>2. IntSize = 65536 * k
    BY IntAssumption
  <1>3. m = IntSize * j + (m % IntSize)
    BY <1>1
  <1>4. t \in Int /\ IntSize * j = 65536 * t
    BY <1>1, <1>2
  <1>5. AsInt(s) = s - 65536 * t
    <2>1. AsInt(s) = (m % IntSize) - h
      BY DEF AsInt
    <2>2. m % IntSize \in Int
      BY <1>1
    <2> HIDE DEF j, t, k
    <2>3. m % IntSize = m - 65536 * t
      BY <1>1, <1>3, <1>4, <2>2
    <2> QED
      BY <1>1, <1>4, <2>1, <2>3
  <1> HIDE DEF t
  <1>6. (s - 65536 * t) \div 256 = (s \div 256) - 256 * t
    BY <1>4
  <1>7. ((s \div 256) - 256 * t) % 256 = (s \div 256) % 256
    BY <1>4
  <1> QED
    BY <1>5, <1>6, <1>7 DEF Kept

LEMMA KeptInt ==
  ASSUME NEW b \in Int
  PROVE  Kept(AsInt(b * 256) \div 256) = Kept(b)
  <1>1. b * 256 \in Int /\ (b * 256) \div 256 = b
    OBVIOUS
  <1> QED
    BY <1>1, KeptAsInt

\* The whole of it, if the sum fits a byte 256 times.
LEMMA KeptSum ==
  ASSUME NEW s \in Int, 0 <= s, s <= 65280
  PROVE  Kept(AsInt(s) \div 256) = s \div 256
  <1>1. (s \div 256) % 256 = s \div 256
    OBVIOUS
  <1> QED
    BY <1>1, KeptAsInt DEF Kept

LEMMA FullWeight ==
  ASSUME NEW n \in Int
  PROVE  /\ Weight(256, n) = n /\ Weight(n, 256) = n
         /\ Weight(0, n) = 0 /\ Weight(n, 0) = 0
  BY DEF Weight

\* What four weights come to.
LEMMA BlendOf ==
  ASSUME NEW A, NEW B, NEW C, NEW D, NEW p, NEW q, NEW w1, NEW w2, NEW w3, NEW w4,
         Weight(256 - p, 256 - q) = w1, Weight(p, 256 - q) = w2,
         Weight(256 - p, q) = w3, Weight(p, q) = w4
  PROVE  Blend(A, B, C, D, p, q) =
            IF A = B /\ A = C /\ A = D THEN A
            ELSE AsInt(A * w1 + B * w2 + C * w3 + D * w4) \div 256
  BY SMTT(60) DEF Blend

\* The weights on the edges of a cell.
LEMMA EdgeWeights ==
  ASSUME NEW n \in Int
  PROVE  /\ Weight(256 - 256, n) = 0 /\ Weight(n, 256 - 256) = 0
         /\ Weight(256 - 0, n) = n /\ Weight(n, 256 - 0) = n
  BY DEF Weight

\* On the last column of a cell, only that column counts.
LEMMA BlendColumn ==
  ASSUME NEW A \in Int, NEW B \in Int, NEW C \in Int, NEW D \in Int, NEW q \in Int
  PROVE  Kept(Blend(A, B, C, D, 256, q)) = Kept(Blend(B, B, D, D, 0, q))
  <1> DEFINE sum == B * (256 - q) + D * q
  <1>1. /\ A * 0 + B * (256 - q) + C * 0 + D * q = sum
        /\ B * (256 - q) + B * 0 + D * q + D * 0 = sum
    OBVIOUS
  <1>2. Blend(A, B, C, D, 256, q) =
            IF A = B /\ A = C /\ A = D THEN A ELSE AsInt(sum) \div 256
    BY <1>1, BlendOf, FullWeight, EdgeWeights
  <1>3. Blend(B, B, D, D, 0, q) = IF B = D THEN B ELSE AsInt(sum) \div 256
    BY <1>1, BlendOf, FullWeight, EdgeWeights
  <1>4. B = D => Kept(AsInt(sum) \div 256) = Kept(B)
    <2>1. B = D => sum = B * 256
      OBVIOUS
    <2> QED
      BY <2>1, KeptInt
  <1> HIDE DEF sum
  <1> QED
    BY <1>2, <1>3, <1>4

\* On the first column of a cell, only that column counts.
LEMMA BlendFirstColumn ==
  ASSUME NEW A \in Int, NEW B \in Int, NEW C \in Int, NEW D \in Int, NEW q \in Int
  PROVE  Kept(Blend(A, B, C, D, 0, q)) = Kept(Blend(A, A, C, C, 0, q))
  <1> DEFINE sum == A * (256 - q) + C * q
  <1>1. /\ A * (256 - q) + B * 0 + C * q + D * 0 = sum
        /\ A * (256 - q) + A * 0 + C * q + C * 0 = sum
    OBVIOUS
  <1>2. Blend(A, B, C, D, 0, q) =
            IF A = B /\ A = C /\ A = D THEN A ELSE AsInt(sum) \div 256
    BY <1>1, BlendOf, FullWeight, EdgeWeights
  <1>3. Blend(A, A, C, C, 0, q) = IF A = C THEN A ELSE AsInt(sum) \div 256
    BY <1>1, BlendOf, FullWeight, EdgeWeights
  <1>4. A = C => Kept(AsInt(sum) \div 256) = Kept(A)
    <2>1. A = C => sum = A * 256
      OBVIOUS
    <2> QED
      BY <2>1, KeptInt
  <1> HIDE DEF sum
  <1> QED
    BY <1>2, <1>3, <1>4

\* On the first row of a cell, only that row counts, and so for the last.
LEMMA BlendFirstRow ==
  ASSUME NEW A \in Int, NEW B \in Int, NEW C \in Int, NEW D \in Int, NEW p \in Int
  PROVE  Kept(Blend(A, B, C, D, p, 0)) = Kept(Blend(A, B, A, B, p, 0))
  <1> DEFINE sum == A * (256 - p) + B * p
  <1>1. /\ A * (256 - p) + B * p + C * 0 + D * 0 = sum
        /\ A * (256 - p) + B * p + A * 0 + B * 0 = sum
    OBVIOUS
  <1>2. Blend(A, B, C, D, p, 0) =
            IF A = B /\ A = C /\ A = D THEN A ELSE AsInt(sum) \div 256
    BY <1>1, BlendOf, FullWeight, EdgeWeights
  <1>3. Blend(A, B, A, B, p, 0) = IF A = B THEN A ELSE AsInt(sum) \div 256
    BY <1>1, BlendOf, FullWeight, EdgeWeights
  <1>4. A = B => Kept(AsInt(sum) \div 256) = Kept(A)
    <2>1. A = B => sum = A * 256
      OBVIOUS
    <2> QED
      BY <2>1, KeptInt
  <1> HIDE DEF sum
  <1> QED
    BY <1>2, <1>3, <1>4

LEMMA BlendLastRow ==
  ASSUME NEW A \in Int, NEW B \in Int, NEW C \in Int, NEW D \in Int, NEW p \in Int
  PROVE  Kept(Blend(A, B, C, D, p, 256)) = Kept(Blend(C, D, C, D, p, 0))
  <1> DEFINE sum == C * (256 - p) + D * p
  <1>1. /\ A * 0 + B * 0 + C * (256 - p) + D * p = sum
        /\ C * (256 - p) + D * p + C * 0 + D * 0 = sum
    OBVIOUS
  <1>2. Blend(A, B, C, D, p, 256) =
            IF A = B /\ A = C /\ A = D THEN A ELSE AsInt(sum) \div 256
    BY <1>1, BlendOf, FullWeight, EdgeWeights
  <1>3. Blend(C, D, C, D, p, 0) = IF C = D THEN C ELSE AsInt(sum) \div 256
    BY <1>1, BlendOf, FullWeight, EdgeWeights
  <1>4. C = D => Kept(AsInt(sum) \div 256) = Kept(C)
    <2>1. C = D => sum = C * 256
      OBVIOUS
    <2> QED
      BY <2>1, KeptInt
  <1> HIDE DEF sum
  <1> QED
    BY <1>2, <1>3, <1>4

\* How far an input on a bin is from the first of two bins.
LEMMA AlongEnds ==
  ASSUME NEW a \in Int, NEW b \in Int
  PROVE  /\ Along(a, a, a) = 0
         /\ a < b => Along(b, a, b) = 256
  <1>1. ASSUME a < b PROVE (256 * (b - a)) \div (b - a) = 256
    BY <1>1
  <1> QED
    BY <1>1 DEF Along

LEMMA DownEnds ==
  ASSUME NEW a \in Int, NEW b \in Int
  PROVE  /\ Down(a, a, a) = 0
         /\ a > b => Down(a, a, b) = 0 /\ Down(b, a, b) = 256
  <1>1. ASSUME a > b PROVE (256 * (a - b)) \div (a - b) = 256 /\ (256 * (b - b)) \div (a - b) = 0
    BY <1>1
  <1> QED
    BY <1>1 DEF Down

(***************************************************************************)
(* The bins of a lookup                                                    *)
(***************************************************************************)
\* What is known of the two axes.
LEMMA Axes ==
  ASSUME MapTypeOK
  PROVE  /\ LastColumn \in Nat /\ Columns = 0 .. LastColumn
         /\ LastRow \in Nat /\ Rows = 0 .. LastRow
         /\ map.axisX \in [Columns -> Int] /\ map.axisY \in [Rows -> Int]
         /\ map.values \in [Rows -> [Columns -> Byte]]
         /\ \A i, j \in Columns : i < j => map.axisX[i] < map.axisX[j]
         /\ \A i, j \in Rows : i < j => map.axisY[i] > map.axisY[j]
         /\ Adjacent(lastX, Columns) /\ Adjacent(lastY, Rows)
  <1>1. map \in Map /\ Ascending(map.axisX) /\ Descending(map.axisY)
    BY DEF MapTypeOK
  <1>2. map.axisX \in [Columns -> Int] /\ map.axisY \in [Rows -> Int]
    BY <1>1 DEF Map
  <1>3. DOMAIN map.axisX = Columns /\ DOMAIN map.axisY = Rows
    BY <1>2
  <1>4. map.values \in [Rows -> [Columns -> Byte]]
    BY <1>1 DEF Map
  <1> QED
    BY <1>1, <1>2, <1>3, <1>4, MapAssumption, Zenon DEF MapTypeOK, Ascending, Descending

\* The column and the row of an input: the bin it is on, or the second of
\* the two it lies between.
AtColumn(x, k) ==
    k \in Columns /\ (OnColumn(map.axisX, x, k) \/ PastColumn(map.axisX, x, k))
AtRow(y, k) ==
    k \in Rows /\ (OnRow(map.axisY, y, k) \/ PastRow(map.axisY, y, k))

LEMMA SearchedColumns ==
  ASSUME MapTypeOK, NEW x \in Int, NEW k, AtColumn(x, k)
  PROVE  SearchColumns(x) = BinsAt(map.axisX, x, k)
  <1> DEFINE S == {i \in Columns : x = map.axisX[i] \/ i = 0
                                   \/ InColumns(x, [min |-> i - 1, max |-> i])}
  <1>1. S \in SUBSET Int
    BY Axes
  <1>2. k \in S
    BY Axes DEF AtColumn, OnColumn, PastColumn, InColumns
  <1>3. ASSUME NEW i \in S PROVE i <= k
    <2>1. i \in Columns /\ k \in Columns /\ (i = 0 \/ i - 1 \in Columns)
      BY Axes DEF AtColumn
    <2>2. i = 0 \/ x = map.axisX[i] \/ map.axisX[i - 1] < x
      BY Axes, <2>1 DEF InColumns
    <2>3. x <= map.axisX[k]
      BY Axes DEF AtColumn, OnColumn, PastColumn
    <2> HIDE DEF S
    <2>4. CASE i = 0 \/ x = map.axisX[i]
      <3> SUFFICES ASSUME ~ (i <= k) PROVE FALSE
        OBVIOUS
      <3>1. k < i /\ i # 0
        BY Axes, <2>1
      <3>2. map.axisX[k] < map.axisX[i] /\ map.axisX[k] \in Int
        BY Axes, <2>1, <3>1
      <3> QED
        BY <2>3, <2>4, <3>1, <3>2
    <2>5. CASE i # 0 /\ map.axisX[i - 1] < x
      <3> SUFFICES ASSUME ~ (i <= k) PROVE FALSE
        OBVIOUS
      <3>1. i - 1 \in Columns /\ (k = i - 1 \/ k < i - 1)
        BY Axes, <2>1, <2>5
      <3>2. map.axisX[k] <= map.axisX[i - 1] /\ map.axisX[k] \in Int /\ map.axisX[i - 1] \in Int
        BY Axes, <2>1, <3>1
      <3> QED
        BY <2>3, <2>5, <3>2
    <2> QED
      BY <2>2, <2>4, <2>5
  <1>4. Max(S) = k
    BY <1>1, <1>2, <1>3, MaxIs
  <1> QED
    BY <1>4, Zenon DEF SearchColumns

LEMMA SearchedRows ==
  ASSUME MapTypeOK, NEW y \in Int, NEW k, AtRow(y, k)
  PROVE  SearchRows(y) = BinsAt(map.axisY, y, k)
  <1> DEFINE S == {i \in Rows : y = map.axisY[i] \/ i = 0
                                \/ InRows(y, [min |-> i - 1, max |-> i])}
  <1>1. S \in SUBSET Int
    BY Axes
  <1>2. k \in S
    BY Axes DEF AtRow, OnRow, PastRow, InRows
  <1>3. ASSUME NEW i \in S PROVE i <= k
    <2>1. i \in Rows /\ k \in Rows /\ (i = 0 \/ i - 1 \in Rows)
      BY Axes DEF AtRow
    <2>2. i = 0 \/ y = map.axisY[i] \/ map.axisY[i - 1] > y
      BY Axes, <2>1 DEF InRows
    <2>3. y >= map.axisY[k]
      BY Axes DEF AtRow, OnRow, PastRow
    <2>4. k < i => map.axisY[k] > map.axisY[i]
      BY Axes, <2>1
    <2>5. k < i - 1 => map.axisY[k] > map.axisY[i - 1]
      BY Axes, <2>1
    <2>6. map.axisY[i] \in Int /\ map.axisY[k] \in Int /\ (i > 0 => map.axisY[i - 1] \in Int)
      BY Axes, <2>1
    <2> HIDE DEF S
    <2>7. i \in Nat /\ k \in Nat
      BY Axes, <2>1
    <2> QED
      BY <2>1, <2>2, <2>3, <2>4, <2>5, <2>6, <2>7
  <1>4. Max(S) = k
    BY <1>1, <1>2, <1>3, MaxIs
  <1> QED
    BY <1>4, Zenon DEF SearchRows

\* Two columns that pass the lookup's test are the two the search would find,
\* or the input's and the one before it.
LEMMA TestedColumns ==
  ASSUME MapTypeOK, NEW x \in Int, NEW k, AtColumn(x, k),
         NEW bins, Adjacent(bins, Columns), InColumns(x, bins)
  PROVE  k > 0 /\ bins = [min |-> k - 1, max |-> k]
  <1>1. bins \in [min : Columns, max : Columns] /\ bins = [min |-> bins.min, max |-> bins.max]
    BY DEF Adjacent
  <1>2. bins.max = bins.min + 1
    BY Axes, <1>1 DEF Adjacent, InColumns
  <1>3. bins.min \in Columns /\ bins.min + 1 \in Columns
    BY <1>1, <1>2
  <1>4. x <= map.axisX[bins.min + 1] /\ map.axisX[bins.min] < x
    BY Axes, <1>1, <1>2, <1>3 DEF InColumns
  <1>5. k = bins.min + 1
    <2> DEFINE m == bins.min
    <2>1. m \in Columns /\ m + 1 \in Columns /\ x <= map.axisX[m + 1] /\ map.axisX[m] < x
      BY <1>3, <1>4
    <2> HIDE DEF m
    <2>2. k = m + 1
      BY <2>1, Axes, ColumnBetween DEF AtColumn
    <2> QED
      BY <2>2 DEF m
  <1> QED
    BY Axes, <1>1, <1>2, <1>3, <1>5

LEMMA FoundColumns ==
  ASSUME MapTypeOK, NEW x \in Int, NEW k, AtColumn(x, k)
  PROVE  FindColumns(x) \in {SearchColumns(x)} \union
            {b \in {[min |-> k - 1, max |-> k]} : k > 0}
  <1>1. Adjacent(lastX, Columns)
    BY Axes
  <1>2. lastX.max + 1 \in Columns => Adjacent(Moved(lastX, 1), Columns)
    BY Axes DEF Adjacent, Moved
  <1>3. lastX.min > 0 => Adjacent(Moved(lastX, -1), Columns)
    BY Axes DEF Adjacent, Moved
  <1> QED
    BY <1>1, <1>2, <1>3, TestedColumns DEF FindColumns

\* The same for the rows, whose neighbours are tested the other way round:
\* they may also be the row of the input and the next.
LEMMA TestedRows ==
  ASSUME MapTypeOK, NEW y \in Int, NEW k, AtRow(y, k),
         NEW bins, Adjacent(bins, Rows)
  PROVE  /\ InRows(y, bins) => k > 0 /\ bins = [min |-> k - 1, max |-> k]
         /\ y <= map.axisY[bins.min] /\ y > map.axisY[bins.max] =>
                \/ k > 0 /\ bins = [min |-> k - 1, max |-> k]
                \/ OnRow(map.axisY, y, k) /\ k + 1 \in Rows /\ bins = [min |-> k, max |-> k + 1]
  <1>1. bins \in [min : Rows, max : Rows] /\ bins = [min |-> bins.min, max |-> bins.max]
    BY DEF Adjacent
  <1> DEFINE m == bins.min
  <1>2. m \in Rows /\ (bins.max = m \/ bins.max = m + 1)
    BY <1>1 DEF Adjacent
  <1>3. ASSUME InRows(y, bins) PROVE bins.max = m + 1 /\ k = m + 1
    <2>1. y >= map.axisY[bins.max] /\ y < map.axisY[m]
      BY <1>3 DEF InRows
    <2>2. bins.max = m + 1 /\ m + 1 \in Rows
      BY Axes, <1>1, <1>2, <2>1
    <2>3. y >= map.axisY[m + 1]
      BY <2>1, <2>2
    <2>4. m \in Rows
      BY <1>2
    <2>5. y < map.axisY[m]
      BY <2>1
    <2> HIDE DEF m
    <2>6. map.axisY[m] > y
      BY Axes, <2>4, <2>5
    <2>7. k = m + 1
      <3>1. LastRow \in Nat /\ Rows = 0 .. LastRow /\ map.axisY \in [0 .. LastRow -> Int]
            /\ \A i, j \in 0 .. LastRow : i < j => map.axisY[i] > map.axisY[j]
        BY Axes
      <3>2. k \in 0 .. LastRow /\ (OnRow(map.axisY, y, k) \/ PastRow(map.axisY, y, k))
        BY <3>1 DEF AtRow
      <3>3. m \in 0 .. LastRow /\ m + 1 \in 0 .. LastRow
        BY <2>2, <2>4, <3>1
      <3> QED
        BY <2>3, <2>6, <3>1, <3>2, <3>3, RowBetween
    <2> QED
      BY <2>2, <2>7
  <1>4. ASSUME y <= map.axisY[m], y > map.axisY[bins.max]
        PROVE  bins.max = m + 1 /\ m + 1 \in Rows
               /\ (k = m + 1 \/ (k = m /\ OnRow(map.axisY, y, k)))
    <2>1. bins.max = m + 1 /\ m + 1 \in Rows
      BY Axes, <1>1, <1>2, <1>4
    <2> HIDE DEF m
    <2>2. k = m + 1 \/ (k = m /\ OnRow(map.axisY, y, k))
      BY Axes, <1>2, <1>4, <2>1, RowBetweenNext DEF AtRow
    <2> QED
      BY <2>1, <2>2
  <1>5. m \in Nat
    BY Axes, <1>2
  <1> QED
    BY <1>1, <1>3, <1>4, <1>5

LEMMA FoundRows ==
  ASSUME MapTypeOK, NEW y \in Int, NEW k, AtRow(y, k)
  PROVE  \/ FindRows(y) = SearchRows(y)
         \/ k > 0 /\ FindRows(y) = [min |-> k - 1, max |-> k]
         \/ OnRow(map.axisY, y, k) /\ k + 1 \in Rows /\ FindRows(y) = [min |-> k, max |-> k + 1]
  <1>1. Adjacent(lastY, Rows)
    BY Axes
  <1>2. lastY.max + 1 \in Rows => Adjacent(Moved(lastY, 1), Rows)
    BY Axes DEF Adjacent, Moved
  <1>3. lastY.min > 0 => Adjacent(Moved(lastY, -1), Rows)
    BY Axes DEF Adjacent, Moved
  <1> QED
    BY <1>1, <1>2, <1>3, TestedRows DEF FindRows

(***************************************************************************)
(* The value of a lookup                                                   *)
(***************************************************************************)
LEMMA SpeedOnAxis ==
  ASSUME MapTypeOK, NEW x \in Int
  PROVE  Speed(x) \in Int /\ \E k : AtColumn(Speed(x), k)
  <1>0. /\ LastColumn \in Nat /\ Columns = 0 .. LastColumn
        /\ map.axisX \in [0 .. LastColumn -> Int]
        /\ \A i, j \in Columns : i < j => map.axisX[i] < map.axisX[j]
    BY Axes
  <1>1. /\ LastColumn \in Nat /\ Columns = 0 .. LastColumn
        /\ map.axisX \in [0 .. LastColumn -> Int]
        /\ map.axisX[0] <= map.axisX[LastColumn]
    BY <1>0
  <1>2. /\ Speed(x) \in Int
        /\ map.axisX[0] <= Speed(x) /\ Speed(x) <= map.axisX[LastColumn]
    BY <1>1 DEF Speed, Clamp
  <1> QED
    BY <1>1, <1>2, ColumnExists DEF AtColumn

LEMMA LoadOnAxis ==
  ASSUME MapTypeOK, NEW y \in Int
  PROVE  Load(y) \in Int /\ \E k : AtRow(Load(y), k)
  <1>0. /\ LastRow \in Nat /\ Rows = 0 .. LastRow
        /\ map.axisY \in [0 .. LastRow -> Int]
        /\ \A i, j \in Rows : i < j => map.axisY[i] > map.axisY[j]
    BY Axes
  <1>1. /\ LastRow \in Nat /\ Rows = 0 .. LastRow
        /\ map.axisY \in [0 .. LastRow -> Int]
        /\ map.axisY[LastRow] <= map.axisY[0]
    BY <1>0
  <1>2. /\ Load(y) \in Int
        /\ map.axisY[LastRow] <= Load(y) /\ Load(y) <= map.axisY[0]
    BY <1>1 DEF Load, Clamp
  <1> QED
    BY <1>1, <1>2, RowExists DEF AtRow

\* Positions are whole numbers: two bins that differ are in order.
LEMMA AlongInt ==
  ASSUME NEW v \in Int, NEW a \in Int, NEW b \in Int, a <= b
  PROVE  Along(v, a, b) \in Int
  <1>1. CASE a = b
    BY <1>1 DEF Along
  <1>2. CASE a < b
    <2>1. b - a \in Nat \ {0} /\ 256 * (v - a) \in Int
      BY <1>2
    <2>2. (256 * (v - a)) \div (b - a) \in Int
      BY <2>1
    <2> QED
      BY <1>2, <2>2 DEF Along
  <1> QED
    BY <1>1, <1>2

LEMMA DownInt ==
  ASSUME NEW v \in Int, NEW a \in Int, NEW b \in Int, a >= b
  PROVE  Down(v, a, b) \in Int
  <1>1. CASE a = b
    BY <1>1 DEF Down
  <1>2. CASE a > b
    <2>1. a - b \in Nat \ {0} /\ 256 * (v - b) \in Int
      BY <1>2
    <2>2. (256 * (v - b)) \div (a - b) \in Int
      BY <2>1
    <2> QED
      BY <1>2, <2>2 DEF Down
  <1> QED
    BY <1>1, <1>2

LEMMA BlendInt ==
  ASSUME NEW A \in Int, NEW B \in Int, NEW C \in Int, NEW D \in Int,
         NEW p \in Int, NEW q \in Int
  PROVE  Blend(A, B, C, D, p, q) \in Int
  <1>1. \A a, b \in Int : Weight(a, b) \in Int
    BY DEF Weight
  <1>2. \A n \in Int : AsInt(n) \in Int
    BY IntAssumption DEF AsInt
  <1> DEFINE sum == A * Weight(256 - p, 256 - q) + B * Weight(p, 256 - q)
                    + C * Weight(256 - p, q) + D * Weight(p, q)
  <1>3. sum \in Int
    <2>0. 256 - p \in Int /\ 256 - q \in Int
      OBVIOUS
    <2>1. Weight(256 - p, 256 - q) \in Int /\ Weight(p, 256 - q) \in Int
          /\ Weight(256 - p, q) \in Int /\ Weight(p, q) \in Int
      BY <1>1, <2>0, ZenonT(60)
    <2> QED
      BY <2>1
  <1>4. AsInt(sum) \div 256 \in Int
    BY <1>2, <1>3
  <1>5. Blend(A, B, C, D, p, q) = A \/ Blend(A, B, C, D, p, q) = AsInt(sum) \div 256
    BY Zenon DEF Blend
  <1> HIDE DEF sum
  <1> QED
    BY <1>4, <1>5

LEMMA CellInt ==
  ASSUME MapTypeOK, NEW r \in Rows, NEW c \in Columns
  PROVE  map.values[r][c] \in Int
  <1>1. map.values \in [Rows -> [Columns -> Byte]]
    BY Axes
  <1>2. map.values[r][c] \in Byte
    BY <1>1
  <1> QED
    BY <1>2 DEF Byte

\* The bins of a lookup are in the order of their axis.
LEMMA ColumnsInOrder ==
  ASSUME MapTypeOK, NEW columns, Adjacent(columns, Columns)
  PROVE  /\ columns.min \in Columns /\ columns.max \in Columns
         /\ map.axisX[columns.min] \in Int /\ map.axisX[columns.max] \in Int
         /\ map.axisX[columns.min] <= map.axisX[columns.max]
  <1>1. columns.min \in Columns /\ columns.max \in Columns
    BY DEF Adjacent
  <1>2. map.axisX[columns.min] \in Int /\ map.axisX[columns.max] \in Int
    BY <1>1, Axes
  <1>3. columns.max = columns.min \/ columns.max = columns.min + 1
    BY DEF Adjacent
  <1>4. columns.min \in Int
    BY <1>1, Axes
  <1>5. columns.max = columns.min \/ columns.min < columns.max
    BY <1>3, <1>4
  <1>6. columns.max = columns.min \/ map.axisX[columns.min] < map.axisX[columns.max]
    BY <1>1, <1>5, Axes, Zenon
  <1> QED
    BY <1>1, <1>2, <1>6

LEMMA RowsInOrder ==
  ASSUME MapTypeOK, NEW rows, Adjacent(rows, Rows)
  PROVE  /\ rows.min \in Rows /\ rows.max \in Rows
         /\ map.axisY[rows.min] \in Int /\ map.axisY[rows.max] \in Int
         /\ map.axisY[rows.min] >= map.axisY[rows.max]
  <1>1. rows.min \in Rows /\ rows.max \in Rows
    BY DEF Adjacent
  <1>2. map.axisY[rows.min] \in Int /\ map.axisY[rows.max] \in Int
    BY <1>1, Axes
  <1>3. rows.max = rows.min \/ rows.max = rows.min + 1
    BY DEF Adjacent
  <1>4. rows.min \in Int
    BY <1>1, Axes
  <1>5. rows.max = rows.min \/ rows.min < rows.max
    BY <1>3, <1>4
  <1>6. rows.max = rows.min \/ map.axisY[rows.min] > map.axisY[rows.max]
    BY <1>1, <1>5, Axes, Zenon
  <1> QED
    BY <1>1, <1>2, <1>6

\* A lookup between any two columns and any two rows has an answer.
LEMMA InterpolateInt ==
  ASSUME MapTypeOK, NEW x \in Int, NEW y \in Int,
         NEW columns, Adjacent(columns, Columns), NEW rows, Adjacent(rows, Rows)
  PROVE  Interpolate(x, y, columns, rows) \in Int
  BY ColumnsInOrder, RowsInOrder, CellInt, AlongInt, DownInt, BlendInt DEF Interpolate

LEMMA SearchIsAdjacent ==
  ASSUME MapTypeOK, NEW x \in Int, NEW y \in Int,
         NEW k, AtColumn(x, k), NEW r, AtRow(y, r)
  PROVE  /\ Adjacent(SearchColumns(x), Columns) /\ Adjacent(FindColumns(x), Columns)
         /\ Adjacent(SearchRows(y), Rows) /\ Adjacent(FindRows(y), Rows)
  <1>1. k \in Columns /\ (k > 0 => k - 1 \in Columns) /\ k \in Nat
    BY Axes DEF AtColumn
  <1>2. r \in Rows /\ (r > 0 => r - 1 \in Rows) /\ r \in Nat
    BY Axes DEF AtRow
  <1>3. Adjacent(SearchColumns(x), Columns)
    BY <1>1, SearchedColumns DEF BinsAt, Adjacent
  <1>4. Adjacent(SearchRows(y), Rows)
    BY <1>2, SearchedRows DEF BinsAt, Adjacent
  <1>5. k > 0 => Adjacent([min |-> k - 1, max |-> k], Columns)
    BY <1>1 DEF Adjacent
  <1>6. /\ r > 0 => Adjacent([min |-> r - 1, max |-> r], Rows)
        /\ r + 1 \in Rows => Adjacent([min |-> r, max |-> r + 1], Rows)
    BY <1>2 DEF Adjacent
  <1> QED
    BY <1>3, <1>4, <1>5, <1>6, FoundColumns, FoundRows

\* A cell that an input lies in, or on the edge of, gives what the search's
\* bins give.
InCell(x, c) ==
  /\ c \in Columns \ {0}
  /\ map.axisX[c - 1] <= x /\ x <= map.axisX[c]
BetweenRows(y, r) ==
  /\ r \in Rows \ {0}
  /\ map.axisY[r - 1] >= y /\ y >= map.axisY[r]

LEMMA ColumnCell ==
  ASSUME MapTypeOK, NEW x \in Int, NEW y \in Int, NEW c, InCell(x, c),
         NEW rows, Adjacent(rows, Rows)
  PROVE  Kept(Interpolate(x, y, [min |-> c - 1, max |-> c], rows)) =
            Kept(Interpolate(x, y, SearchColumns(x), rows))
  <1> DEFINE two == [min |-> c - 1, max |-> c]
             one(k) == [min |-> k, max |-> k]
             A == map.values[rows.min][c - 1]
             B == map.values[rows.min][c]
             C == map.values[rows.max][c - 1]
             D == map.values[rows.max][c]
             q == Down(y, map.axisY[rows.min], map.axisY[rows.max])
  <1>1. c \in Columns /\ c - 1 \in Columns /\ c - 1 < c /\ c > 0
    BY Axes DEF InCell
  <1>2. /\ map.axisX[c - 1] \in Int /\ map.axisX[c] \in Int /\ map.axisX[c - 1] < map.axisX[c]
        /\ map.axisX[c - 1] <= x /\ x <= map.axisX[c]
    BY Axes, <1>1 DEF InCell
  <1>3. A \in Int /\ B \in Int /\ C \in Int /\ D \in Int /\ q \in Int
    BY <1>1, RowsInOrder, CellInt, DownInt
  <1>4. CASE x = map.axisX[c]
    <2>1. SearchColumns(x) = one(c)
      BY <1>1, <1>4, SearchedColumns DEF AtColumn, OnColumn, BinsAt
    <2>2. Interpolate(x, y, two, rows) = Blend(A, B, C, D, 256, q)
      BY <1>2, <1>4, AlongEnds DEF Interpolate
    <2>3. Interpolate(x, y, one(c), rows) = Blend(B, B, D, D, 0, q)
      BY <1>2, <1>4, AlongEnds DEF Interpolate
    <2> HIDE DEF A, B, C, D, q
    <2> QED
      BY <1>3, <2>1, <2>2, <2>3, BlendColumn
  <1>5. CASE x = map.axisX[c - 1]
    <2>1. SearchColumns(x) = one(c - 1)
      BY <1>1, <1>5, SearchedColumns DEF AtColumn, OnColumn, BinsAt
    <2>2. Along(x, map.axisX[c - 1], map.axisX[c]) = 0
      <3>1. \A n \in Int : n > 0 => (256 * 0) \div n = 0
        OBVIOUS
      <3> QED
        BY <1>2, <1>5, <3>1 DEF Along
    <2>3. Interpolate(x, y, two, rows) = Blend(A, B, C, D, 0, q)
      BY <2>2 DEF Interpolate
    <2>4. Interpolate(x, y, one(c - 1), rows) = Blend(A, A, C, C, 0, q)
      BY <1>2, <1>5, AlongEnds DEF Interpolate
    <2> HIDE DEF A, B, C, D, q
    <2> QED
      BY <1>3, <2>1, <2>3, <2>4, BlendFirstColumn
  <1>6. CASE x # map.axisX[c] /\ x # map.axisX[c - 1]
    <2>1. PastColumn(map.axisX, x, c)
      BY <1>1, <1>2, <1>6 DEF PastColumn
    <2>2. SearchColumns(x) = two
      BY <1>1, <1>6, <2>1, SearchedColumns DEF AtColumn, BinsAt
    <2> QED
      BY <2>2
  <1> QED
    BY <1>4, <1>5, <1>6

LEMMA RowCell ==
  ASSUME MapTypeOK, NEW x \in Int, NEW y \in Int, NEW r, BetweenRows(y, r),
         NEW columns, Adjacent(columns, Columns)
  PROVE  Kept(Interpolate(x, y, columns, [min |-> r - 1, max |-> r])) =
            Kept(Interpolate(x, y, columns, SearchRows(y)))
  <1> DEFINE two == [min |-> r - 1, max |-> r]
             one(k) == [min |-> k, max |-> k]
             p == Along(x, map.axisX[columns.min], map.axisX[columns.max])
             A == map.values[r - 1][columns.min]
             B == map.values[r - 1][columns.max]
             C == map.values[r][columns.min]
             D == map.values[r][columns.max]
  <1>1. r \in Rows /\ r - 1 \in Rows /\ r - 1 < r /\ r > 0
    BY Axes DEF BetweenRows
  <1>2. /\ map.axisY[r - 1] \in Int /\ map.axisY[r] \in Int /\ map.axisY[r - 1] > map.axisY[r]
        /\ map.axisY[r - 1] >= y /\ y >= map.axisY[r]
    BY Axes, <1>1 DEF BetweenRows
  <1>3. A \in Int /\ B \in Int /\ C \in Int /\ D \in Int /\ p \in Int
    BY <1>1, ColumnsInOrder, CellInt, AlongInt
  <1>4. CASE y = map.axisY[r]
    <2>1. SearchRows(y) = one(r)
      BY <1>1, <1>4, SearchedRows DEF AtRow, OnRow, BinsAt
    <2>2. Interpolate(x, y, columns, two) = Blend(A, B, C, D, p, 256)
      BY <1>2, <1>4, DownEnds DEF Interpolate
    <2>3. Interpolate(x, y, columns, one(r)) = Blend(C, D, C, D, p, 0)
      BY <1>2, <1>4, DownEnds DEF Interpolate
    <2> HIDE DEF A, B, C, D, p
    <2> QED
      BY <1>3, <2>1, <2>2, <2>3, BlendLastRow
  <1>5. CASE y = map.axisY[r - 1]
    <2>1. SearchRows(y) = one(r - 1)
      BY <1>1, <1>5, SearchedRows DEF AtRow, OnRow, BinsAt
    <2>2. Interpolate(x, y, columns, two) = Blend(A, B, C, D, p, 0)
      BY <1>2, <1>5, DownEnds DEF Interpolate
    <2>3. Interpolate(x, y, columns, one(r - 1)) = Blend(A, B, A, B, p, 0)
      BY <1>2, <1>5, DownEnds DEF Interpolate
    <2> HIDE DEF A, B, C, D, p
    <2> QED
      BY <1>3, <2>1, <2>2, <2>3, BlendFirstRow
  <1>6. CASE y # map.axisY[r] /\ y # map.axisY[r - 1]
    <2>1. PastRow(map.axisY, y, r)
      BY <1>1, <1>2, <1>6 DEF PastRow
    <2>2. SearchRows(y) = two
      BY <1>1, <1>6, <2>1, SearchedRows DEF AtRow, BinsAt
    <2> QED
      BY <2>2
  <1> QED
    BY <1>4, <1>5, <1>6

\* Whichever columns a lookup found, it reads what the search would read.
LEMMA SameColumns ==
  ASSUME MapTypeOK, NEW x \in Int, NEW y \in Int, NEW k, AtColumn(x, k),
         NEW rows, Adjacent(rows, Rows)
  PROVE  Kept(Interpolate(x, y, FindColumns(x), rows)) =
            Kept(Interpolate(x, y, SearchColumns(x), rows))
  <1>1. ASSUME k > 0 PROVE InCell(x, k)
    <2>1. k \in Columns \ {0} /\ k - 1 \in Columns /\ k - 1 < k
      BY Axes, <1>1 DEF AtColumn
    <2>2. map.axisX[k - 1] \in Int /\ map.axisX[k] \in Int /\ map.axisX[k - 1] < map.axisX[k]
      BY Axes, <2>1
    <2> QED
      BY <2>1, <2>2 DEF InCell, AtColumn, OnColumn, PastColumn
  <1> QED
    BY <1>1, FoundColumns, ColumnCell

LEMMA SameRows ==
  ASSUME MapTypeOK, NEW x \in Int, NEW y \in Int, NEW k, AtRow(y, k),
         NEW columns, Adjacent(columns, Columns)
  PROVE  Kept(Interpolate(x, y, columns, FindRows(y))) =
            Kept(Interpolate(x, y, columns, SearchRows(y)))
  <1>1. k \in Rows /\ k \in Nat /\ (k > 0 => k - 1 \in Rows /\ k - 1 < k) /\ k < k + 1
    BY Axes DEF AtRow
  <1>2. ASSUME k > 0 PROVE BetweenRows(y, k)
    <2>1. /\ map.axisY[k - 1] \in Int /\ map.axisY[k] \in Int
          /\ map.axisY[k - 1] > map.axisY[k]
      BY Axes, <1>1, <1>2
    <2> QED
      BY <1>1, <1>2, <2>1 DEF BetweenRows, AtRow, OnRow, PastRow
  <1>3. ASSUME NEW j, j = k + 1, j \in Rows, OnRow(map.axisY, y, k)
        PROVE  j - 1 = k /\ BetweenRows(y, j)
    <2>1. j - 1 = k /\ j \in Rows \ {0}
      BY <1>1, <1>3
    <2>2. /\ map.axisY[j] \in Int /\ map.axisY[j - 1] \in Int
          /\ map.axisY[j - 1] > map.axisY[j]
      <3>1. k < j
        BY <1>1, <1>3
      <3> QED
        BY Axes, <1>1, <1>3, <2>1, <3>1
    <2>3. map.axisY[j - 1] = y
      BY <1>3, <2>1 DEF OnRow
    <2>4. map.axisY[j - 1] >= y /\ y >= map.axisY[j]
      BY <2>2, <2>3
    <2> QED
      BY <2>1, <2>4 DEF BetweenRows
  <1>4. CASE FindRows(y) = SearchRows(y)
    BY <1>4
  <1>5. CASE k > 0 /\ FindRows(y) = [min |-> k - 1, max |-> k]
    BY <1>2, <1>5, RowCell
  <1>6. CASE OnRow(map.axisY, y, k) /\ k + 1 \in Rows /\ FindRows(y) = [min |-> k, max |-> k + 1]
    <2>1. PICK j : j = k + 1
      OBVIOUS
    <2>2. j \in Rows /\ FindRows(y) = [min |-> k, max |-> j]
      BY <1>6, <2>1
    <2>3. j - 1 = k /\ BetweenRows(y, j)
      BY <1>3, <1>6, <2>1, <2>2
    <2>4. Kept(Interpolate(x, y, columns, [min |-> j - 1, max |-> j])) =
            Kept(Interpolate(x, y, columns, SearchRows(y)))
      BY <2>3, RowCell
    <2> QED
      BY <2>2, <2>3, <2>4
  <1> QED
    BY <1>4, <1>5, <1>6, FoundRows

\* A lookup that misses the cache returns what it would return without the
\* bins it remembers.
LEMMA Recall ==
  ASSUME MapTypeOK, NEW x \in Int, NEW y \in Int
  PROVE  Kept(Interpolate(Speed(x), Load(y), FindColumns(Speed(x)), FindRows(Load(y)))) =
            Kept(Fresh(x, y))
  <1>1. PICK k : AtColumn(Speed(x), k)
    BY SpeedOnAxis
  <1>2. PICK r : AtRow(Load(y), r)
    BY LoadOnAxis
  <1>3. Speed(x) \in Int /\ Load(y) \in Int
    BY SpeedOnAxis, LoadOnAxis
  <1>4. /\ Adjacent(FindColumns(Speed(x)), Columns)
        /\ Adjacent(SearchRows(Load(y)), Rows)
    BY <1>1, <1>2, <1>3, SearchIsAdjacent
  <1> QED
    BY <1>1, <1>2, <1>3, <1>4, SameColumns, SameRows DEF Fresh

(***************************************************************************)
(* The steps of MapSpec                                                    *)
(***************************************************************************)
\* Beside the property, what the cache and the bins hold: a hit answers what
\* was answered before, which must be the byte of the answer that is judged.
MapInv == MapTypeOK /\ CacheIsTheAnswer /\ LookupHasNoMemory

LEMMA MapInitInv == MapInit => MapInv
  <1> SUFFICES ASSUME MapInit PROVE MapInv
    OBVIOUS
  <1>1. 0 \in Columns /\ 0 \in Rows /\ LastRow \in Rows
    BY MapAssumption
  <1>2. FirstMap.values[LastRow][0] \in Int
    <2>1. FirstMap.values \in [Rows -> [Columns -> Byte]]
      BY MapAssumption DEF Map
    <2>2. FirstMap.values[LastRow][0] \in Byte
      BY <1>1, <2>1
    <2> QED
      BY <2>2 DEF Byte
  <1>3. Adjacent(lastX, Columns) /\ Adjacent(lastY, Rows)
    BY <1>1 DEF MapInit, Adjacent
  <1>4. cache \in [x : Int, y : Int, output : Byte, valid : BOOLEAN] /\ ~ cache.valid
    BY DEF MapInit, Byte
  <1>5. answer \in [x : Int, y : Int, value : Int]
    BY <1>2 DEF MapInit
  <1> QED
    BY <1>3, <1>4, <1>5, MapAssumption
    DEF MapInv, MapInit, MapTypeOK, CacheIsTheAnswer, LookupHasNoMemory

LEMMA KeptKept ==
  ASSUME NEW v \in Int
  PROVE  Kept(v) \in Byte /\ Kept(Kept(v)) = Kept(v)
  BY DEF Kept, Byte

\* A lookup leaves the map, and with it what the map holds for an input.
LEMMA FreshStays ==
  ASSUME map' = map, NEW x, NEW y, answer'.x = x, answer'.y = y
  PROVE  Fresh(answer.x, answer.y)' = Fresh(x, y)
  BY Zenon DEF Fresh, Speed, Load, SearchColumns, SearchRows, InColumns, InRows, Interpolate

LEMMA LookupStep ==
  ASSUME MapInv, NEW x \in Speeds, NEW y \in Loads, Lookup(x, y)
  PROVE  MapInv'
  <1> DEFINE columns == FindColumns(Speed(x))
             rows == FindRows(Load(y))
             result == Interpolate(Speed(x), Load(y), columns, rows)
  <1>1. x \in Int /\ y \in Int
    BY TunerAssumption
  <1>2. MapTypeOK /\ CacheIsTheAnswer /\ LookupHasNoMemory
    BY DEF MapInv
  <1>3. map' = map
    BY DEF Lookup
  <1>4. CASE Hit(x, y)
    <2>1. /\ answer' = [x |-> x, y |-> y, value |-> cache.output]
          /\ UNCHANGED <<map, lastX, lastY, cache>>
      BY <1>4 DEF Lookup
    <2>2. /\ cache.x = x /\ cache.y = y /\ cache.valid
          /\ answer.x = x /\ answer.y = y /\ cache.output = Kept(answer.value)
          /\ answer.value \in Int /\ cache.output \in Byte
      BY <1>2, <1>4 DEF Hit, CacheIsTheAnswer, MapTypeOK
    <2>3. Kept(cache.output) = cache.output
      BY <2>2, KeptKept
    <2>4. MapTypeOK'
      BY <1>1, <1>2, <2>1, <2>2 DEF MapTypeOK, Byte
    <2>5. CacheIsTheAnswer'
      BY <2>1, <2>2, <2>3 DEF CacheIsTheAnswer, Kept
    <2>6. Kept(answer'.value) = Kept(Fresh(x, y))
      BY <1>2, <2>1, <2>2, <2>3 DEF LookupHasNoMemory
    <2>7. Fresh(answer.x, answer.y)' = Fresh(x, y)
      BY <1>3, <2>1, FreshStays
    <2>8. LookupHasNoMemory'
      BY <2>6, <2>7, Zenon DEF LookupHasNoMemory, Kept
    <2> QED
      BY <2>4, <2>5, <2>8 DEF MapInv
  <1>5. CASE ~ Hit(x, y)
    <2>1. /\ lastX' = columns /\ lastY' = rows
          /\ cache' = [x |-> x, y |-> y, output |-> result % 256, valid |-> TRUE]
          /\ answer' = [x |-> x, y |-> y, value |-> result]
      BY <1>5, Zenon DEF Lookup
    <2>2. PICK k : AtColumn(Speed(x), k)
      BY <1>1, <1>2, SpeedOnAxis
    <2>3. PICK r : AtRow(Load(y), r)
      BY <1>1, <1>2, LoadOnAxis
    <2>4. Speed(x) \in Int /\ Load(y) \in Int
      BY <1>1, <1>2, SpeedOnAxis, LoadOnAxis
    <2>5. Adjacent(columns, Columns) /\ Adjacent(rows, Rows)
      BY <1>2, <2>2, <2>3, <2>4, SearchIsAdjacent
    <2>6. result \in Int
      BY <1>2, <2>4, <2>5, InterpolateInt
    <2>7. Kept(result) = Kept(Fresh(x, y))
      BY <1>1, <1>2, Recall
    <2> HIDE DEF columns, rows, result
    <2>8. MapTypeOK'
      BY <1>1, <1>2, <1>3, <2>1, <2>5, <2>6, KeptKept DEF MapTypeOK, Kept, Adjacent
    <2>9. CacheIsTheAnswer'
      BY <2>1 DEF CacheIsTheAnswer, Kept
    <2>10. Fresh(answer.x, answer.y)' = Fresh(x, y)
      BY <1>3, <2>1, FreshStays
    <2>11. LookupHasNoMemory'
      BY <2>1, <2>7, <2>10, Zenon DEF LookupHasNoMemory, Kept
    <2> QED
      BY <2>8, <2>9, <2>11 DEF MapInv
  <1> QED
    BY <1>4, <1>5

\* Whatever the tuner writes, the cache is no longer valid.
LEMMA TuneStep ==
  ASSUME MapInv, Tune
  PROVE  MapInv'
  <1>1. MapTypeOK
    BY DEF MapInv
  <1>2. map \in Map /\ Ascending(map.axisX) /\ Descending(map.axisY)
    BY <1>1 DEF MapTypeOK
  <1>3. /\ map.axisX \in [Columns -> Int] /\ map.axisY \in [Rows -> Int]
        /\ map.values \in [Rows -> [Columns -> Byte]]
    BY <1>2 DEF Map
  <1>4. UNCHANGED <<lastX, lastY, answer>> /\ cache' = [cache EXCEPT !.valid = FALSE]
    BY DEF Tune, TuneValue, TuneSpeedBin, TuneLoadBin
  <1>5. /\ cache' \in [x : Int, y : Int, output : Byte, valid : BOOLEAN]
        /\ ~ cache'.valid
    BY <1>1, <1>4 DEF MapTypeOK
  <1>6. map' \in Map /\ Ascending(map'.axisX) /\ Descending(map'.axisY)
    <2>1. ASSUME NEW cell \in TunedCells, NEW value \in Values,
                 TuneValue(cell[1], cell[2], value)
          PROVE  map' \in Map /\ Ascending(map'.axisX) /\ Descending(map'.axisY)
      <3>1. cell[1] \in Rows /\ cell[2] \in Columns /\ value \in Byte
        BY TunerAssumption
      <3>2. map' = [map EXCEPT !.values[cell[1]][cell[2]] = value]
        BY <2>1 DEF TuneValue
      <3>3. map'.axisX = map.axisX /\ map'.axisY = map.axisY
        BY <1>2, <3>2 DEF Map
      <3>4. map' \in Map
        BY <1>2, <3>1, <3>2 DEF Map
      <3> QED
        BY <1>2, <3>3, <3>4
    <2>2. ASSUME NEW column \in Columns, NEW bin \in SpeedBins, TuneSpeedBin(column, bin)
          PROVE  map' \in Map /\ Ascending(map'.axisX) /\ Descending(map'.axisY)
      <3>1. bin \in Int
        BY TunerAssumption
      <3>2. /\ map' = [map EXCEPT !.axisX[column] = bin]
            /\ Ascending([map.axisX EXCEPT ![column] = bin])
        BY <2>2 DEF TuneSpeedBin
      <3>3. map'.axisX = [map.axisX EXCEPT ![column] = bin] /\ map'.axisY = map.axisY
        BY <1>2, <3>2 DEF Map
      <3>4. map' \in Map
        BY <1>2, <3>1, <3>2 DEF Map
      <3> QED
        BY <1>2, <3>2, <3>3, <3>4
    <2>3. ASSUME NEW row \in Rows, NEW bin \in LoadBins, TuneLoadBin(row, bin)
          PROVE  map' \in Map /\ Ascending(map'.axisX) /\ Descending(map'.axisY)
      <3>1. bin \in Int
        BY TunerAssumption
      <3>2. /\ map' = [map EXCEPT !.axisY[row] = bin]
            /\ Descending([map.axisY EXCEPT ![row] = bin])
        BY <2>3 DEF TuneLoadBin
      <3>3. map'.axisY = [map.axisY EXCEPT ![row] = bin] /\ map'.axisX = map.axisX
        BY <1>2, <3>2 DEF Map
      <3>4. map' \in Map
        BY <1>2, <3>1, <3>2 DEF Map
      <3> QED
        BY <1>2, <3>2, <3>3, <3>4
    <2> QED
      BY <2>1, <2>2, <2>3 DEF Tune
  <1>7. MapTypeOK'
    BY <1>1, <1>4, <1>5, <1>6 DEF MapTypeOK, Adjacent
  <1>8. CacheIsTheAnswer' /\ LookupHasNoMemory'
    BY <1>5 DEF CacheIsTheAnswer, LookupHasNoMemory
  <1> QED
    BY <1>7, <1>8 DEF MapInv

LEMMA MapStutter ==
  ASSUME MapInv, UNCHANGED mapVars
  PROVE  MapInv'
  <1>1. map' = map /\ lastX' = lastX /\ lastY' = lastY /\ cache' = cache /\ answer' = answer
    BY DEF mapVars
  <1>2. MapTypeOK' /\ CacheIsTheAnswer'
    BY <1>1 DEF MapInv, MapTypeOK, CacheIsTheAnswer, Adjacent
  <1>3. Fresh(answer.x, answer.y)' = Fresh(answer.x, answer.y)
    BY <1>1, Zenon
    DEF Fresh, Speed, Load, SearchColumns, SearchRows, InColumns, InRows, Interpolate
  <1>4. LookupHasNoMemory'
    BY <1>1, <1>3, Zenon DEF MapInv, LookupHasNoMemory, Kept
  <1> QED
    BY <1>2, <1>4 DEF MapInv

LEMMA MapStep == MapInv /\ [MapNext]_mapVars => MapInv'
  BY LookupStep, TuneStep, MapStutter DEF MapNext, LookupSome

\* The bins a lookup remembers are always one bin of the axis or two that
\* follow each other, and the tables keep their bins in order: no short cut
\* of get3DTableValue() reads beyond its table.
THEOREM MapTypeCorrect == MapSpec => []MapTypeOK
  <1>1. MapInv => MapTypeOK
    BY DEF MapInv
  <1> QED
    BY <1>1, MapInitInv, MapStep, PTL DEF MapSpec

\* A lookup returns the byte that the map's bins and values alone determine:
\* neither the bins found by the lookups before it nor the cached result nor
\* what the tuner wrote in between changes it (get3DTableValue()), for every
\* map, every sequence of lookups and writes, and both widths of an int.
THEOREM LookupsHaveNoMemory == MapSpec => []LookupHasNoMemory
  <1>1. MapInv => LookupHasNoMemory
    BY DEF MapInv
  <1> QED
    BY <1>1, MapInitInv, MapStep, PTL DEF MapSpec

(***************************************************************************)
(* How far a lookup is from the surface                                    *)
(***************************************************************************)
\* The four weights lose less than a 256th each, and two in all: opposite
\* corners lose the same, and neighbours nothing or one together.
AllLose(u, v, p, q, e, f) ==
  /\ 256 * Weight(u, v) = u * v - e
  /\ 256 * Weight(p, v) = p * v - f
  /\ 256 * Weight(u, q) = u * q - f
  /\ 256 * Weight(p, q) = p * q - e
  /\ e + f <= 256

LEMMA WeightsLose ==
  ASSUME NEW u \in Int, NEW p \in Int, u + p = 256, NEW v \in Int, NEW q \in Int, v + q = 256
  PROVE  \E e, f \in Nat : AllLose(u, v, p, q, e, f)
  <1> DEFINE z == p * q
             z1 == u * v
             z2 == p * v
             z3 == u * q
             e == z % 256
             f == (256 * p - z) % 256
  <1>1. z \in Int
    OBVIOUS
  <1>2. z1 = 65536 - 256 * p - 256 * q + z /\ z2 = 256 * p - z /\ z3 = 256 * q - z
    <2>1. u = 256 - p /\ v = 256 - q
      OBVIOUS
    <2> QED
      BY <2>1
  <1>3. /\ Weight(u, v) = z1 \div 256 /\ Weight(p, v) = z2 \div 256
        /\ Weight(u, q) = z3 \div 256 /\ Weight(p, q) = z \div 256
    BY Zenon DEF Weight
  <1> HIDE DEF z, z1, z2, z3
  <1>4. e \in Nat /\ f \in Nat /\ e + f <= 256
    BY <1>1
  <1>5. /\ 256 * (z1 \div 256) = z1 - e /\ 256 * (z2 \div 256) = z2 - f
        /\ 256 * (z3 \div 256) = z3 - f /\ 256 * (z \div 256) = z - e
    BY <1>1, <1>2
  <1> HIDE DEF e, f
  <1>6. /\ 256 * Weight(u, v) = z1 - e
        /\ 256 * Weight(p, v) = z2 - f
        /\ 256 * Weight(u, q) = z3 - f
        /\ 256 * Weight(p, q) = z - e
    BY <1>3, <1>5, SMTT(60)
  <1> QED
    BY <1>4, <1>6, Zenon DEF z, z1, z2, z3, AllLose

\* A mixture of two bytes is between them.
LEMMA Mixture ==
  ASSUME NEW A \in Byte, NEW B \in Byte, NEW u \in Nat, NEW v \in Nat
  PROVE  /\ A * u + B * v \in Int
         /\ 0 <= A * u + B * v /\ A * u + B * v <= 255 * (u + v)
  <1> DEFINE x == A * u
             y == B * v
  <1>1. x \in Int /\ 0 <= x /\ x <= 255 * u
    BY DEF Byte
  <1>2. y \in Int /\ 0 <= y /\ y <= 255 * v
    BY DEF Byte
  <1> HIDE DEF x, y
  <1>3. x + y \in Int /\ 0 <= x + y /\ x + y <= 255 * (u + v)
    BY <1>1, <1>2
  <1> QED
    BY <1>3 DEF x, y

\* A position on an axis, rounded down: what is lost of both parts.
LEMMA RoundedPosition ==
  ASSUME NEW a \in Nat, NEW b \in Nat, a + b > 0, NEW p, p = (256 * b) \div (a + b)
  PROVE  /\ p \in 0 .. 256
         /\ \E s \in 0 .. a + b - 1 :
               256 * b = (a + b) * p + s /\ 256 * a = (a + b) * (256 - p) - s
  <1> DEFINE n == a + b
             s == 256 * b - n * p
  <1>1. n \in Nat \ {0} /\ b <= n /\ 256 * b \in Nat
    OBVIOUS
  <1>2. p = (256 * b) \div n
    OBVIOUS
  <1>3. a = n - b
    OBVIOUS
  <1> HIDE DEF n
  <1>4. p \in Nat /\ n * p <= 256 * b /\ 256 * b < n * p + n
    BY <1>1, <1>2, DivRest
  <1>5. p <= 256
    <2>1. ASSUME p > 256 PROVE FALSE
      <3>1. n * p >= n * 257
        BY <1>1, <1>4, <2>1
      <3>2. n * 257 > 256 * b
        BY <1>1
      <3> QED
        BY <1>1, <1>4, <3>1, <3>2
    <2> QED
      BY <1>4, <2>1
  <1>6. s \in 0 .. n - 1 /\ 256 * b = n * p + s
    <2>1. n * p \in Int
      BY <1>1, <1>4
    <2> QED
      BY <1>1, <1>4, <2>1
  <1>7. 256 * a = n * (256 - p) - s
    <2>1. n * (256 - p) = n * 256 - n * p /\ n * p \in Int
      BY <1>1, <1>4
    <2> QED
      BY <1>1, <1>3, <1>6, <2>1
  <1> HIDE DEF s
  <1>8. p \in 0 .. 256
    BY <1>4, <1>5
  <1> QED
    BY <1>6, <1>7, <1>8 DEF n

\* A mixture by parts of n, and the one by 256ths that stands for it.
LEMMA RoundedMixture ==
  ASSUME NEW A \in Int, NEW B \in Int, NEW n \in Int, NEW u \in Int, NEW v \in Int,
         NEW s \in Int, NEW a \in Int, NEW b \in Int,
         256 * a = n * u - s, 256 * b = n * v + s
  PROVE  256 * (A * a + B * b) = n * (A * u + B * v) + s * (B - A)
  <1>1. 256 * (A * a + B * b) = A * (256 * a) + B * (256 * b)
    OBVIOUS
  <1>2. A * (256 * a) = A * (n * u) - A * s
    <2>1. A * (n * u - s) = A * (n * u) - A * s
      OBVIOUS
    <2> QED
      BY <2>1
  <1>3. B * (256 * b) = B * (n * v) + B * s
    <2>1. B * (n * v + s) = B * (n * v) + B * s
      OBVIOUS
    <2> QED
      BY <2>1
  <1>4. n * (A * u + B * v) = A * (n * u) + B * (n * v)
    OBVIOUS
  <1>5. s * (B - A) = B * s - A * s
    OBVIOUS
  <1>6. A * (n * u) \in Int /\ B * (n * v) \in Int /\ A * s \in Int /\ B * s \in Int
    OBVIOUS
  <1> QED
    BY <1>1, <1>2, <1>3, <1>4, <1>5, <1>6

\* A difference of two bytes, by parts of n.
LEMMA SmallPart ==
  ASSUME NEW n \in Nat, NEW s \in 0 .. n, NEW d \in Int, NEW most \in Nat, -most <= d, d <= most
  PROVE  s * d \in Int /\ -(n * most) <= s * d /\ s * d <= n * most
  <1>1. s * d <= s * most /\ -(s * most) <= s * d
    OBVIOUS
  <1>2. s * most <= n * most
    OBVIOUS
  <1> QED
    BY <1>1, <1>2

\* The mixture of four corners, as the surface has it and as the lookup does.
Mixed(A, B, C, D, a, b, c, d) == (A * a + B * b) * c + (C * a + D * b) * d
Summed(A, B, C, D, u, p, v, q) ==
  A * Weight(u, v) + B * Weight(p, v) + C * Weight(u, q) + D * Weight(p, q)

\* Shares of a position, in 256ths.
Shares(u, p) == u \in Nat /\ p \in Nat /\ u + p = 256

\* The sum of the four corners loses what its weights lose, which is less than
\* twice a byte.
SumLoses(A, B, C, D, u, p, v, q) ==
  /\ Summed(A, B, C, D, u, p, v, q) \in Int
  /\ 0 <= Summed(A, B, C, D, u, p, v, q) /\ Summed(A, B, C, D, u, p, v, q) <= 65280
  /\ \E lost \in Nat :
        /\ lost <= 130560
        /\ 256 * Summed(A, B, C, D, u, p, v, q) = Mixed(A, B, C, D, u, p, v, q) - lost

LEMMA SumIsClose ==
  ASSUME NEW A \in Byte, NEW B \in Byte, NEW C \in Byte, NEW D \in Byte,
         NEW u, NEW p, Shares(u, p), NEW v, NEW q, Shares(v, q)
  PROVE  SumLoses(A, B, C, D, u, p, v, q)
  <1>0. u \in Nat /\ p \in Nat /\ v \in Nat /\ q \in Nat
    BY DEF Shares
  <1>1. p \in Int /\ q \in Int /\ u + p = 256 /\ v + q = 256
    BY DEF Shares
  <1>2. PICK e, f \in Nat : AllLose(u, v, p, q, e, f)
    <2>1. u \in Int /\ v \in Int
      BY <1>0
    <2> QED
      BY <1>1, <2>1, WeightsLose
  <1> DEFINE w1 == Weight(u, v)
             w2 == Weight(p, v)
             w3 == Weight(u, q)
             w4 == Weight(p, q)
             sum == Summed(A, B, C, D, u, p, v, q)
             full == Mixed(A, B, C, D, u, p, v, q)
  <1>3. w1 \in Nat /\ w2 \in Nat /\ w3 \in Nat /\ w4 \in Nat
    <2>1. ASSUME NEW a \in Nat, NEW b \in Nat PROVE Weight(a, b) \in Nat
      <3>1. a * b \in Nat
        OBVIOUS
      <3> QED
        BY <3>1 DEF Weight
    <2> QED
      BY <1>0, <2>1
  <1>4. sum = A * w1 + B * w2 + C * w3 + D * w4
    BY DEF Summed
  <1>5. /\ 256 * w1 = u * v - e /\ 256 * w2 = p * v - f
        /\ 256 * w3 = u * q - f /\ 256 * w4 = p * q - e
    BY <1>2 DEF AllLose
  <1>6. A \in Nat /\ B \in Nat /\ C \in Nat /\ D \in Nat
    BY DEF Byte
  <1> HIDE DEF w1, w2, w3, w4, sum
  <1> DEFINE a1 == A * w1  a2 == B * w2  a3 == C * w3  a4 == D * w4
             b1 == A * (u * v)  b2 == B * (p * v)  b3 == C * (u * q)  b4 == D * (p * q)
             c1 == A * e  c2 == B * f  c3 == C * f  c4 == D * e
  <1>7. /\ a1 \in Nat /\ a2 \in Nat /\ a3 \in Nat /\ a4 \in Nat
        /\ b1 \in Nat /\ b2 \in Nat /\ b3 \in Nat /\ b4 \in Nat
        /\ c1 \in Nat /\ c2 \in Nat /\ c3 \in Nat /\ c4 \in Nat
    BY <1>0, <1>3, <1>6
  <1>8. 256 * a1 = b1 - c1
    BY <1>0, <1>3, <1>5, <1>6
  <1>9. 256 * a2 = b2 - c2
    BY <1>0, <1>3, <1>5, <1>6
  <1>10. 256 * a3 = b3 - c3
    BY <1>0, <1>3, <1>5, <1>6
  <1>11. 256 * a4 = b4 - c4
    BY <1>0, <1>3, <1>5, <1>6
  <1> DEFINE x == A * u + B * p
             y == C * u + D * p
  <1>12. x * v = b1 + b2 /\ y * q = b3 + b4
    BY <1>0, <1>6
  <1>13. /\ x \in Int /\ 0 <= x /\ x <= 255 * (u + p)
         /\ y \in Int /\ 0 <= y /\ y <= 255 * (u + p)
    <2>1. x \in Int /\ 0 <= x /\ x <= 255 * (u + p)
      BY <1>0, Mixture
    <2>2. y \in Int /\ 0 <= y /\ y <= 255 * (u + p)
      BY <1>0, Mixture
    <2> QED
      BY <2>1, <2>2, Zenon
  <1>14. c1 + c2 \in Int /\ 0 <= c1 + c2 /\ c1 + c2 <= 255 * (e + f)
    BY Mixture, SMTT(60)
  <1>15. c4 + c3 \in Int /\ 0 <= c4 + c3 /\ c4 + c3 <= 255 * (e + f)
    BY Mixture, SMTT(60)
  <1>16. sum = a1 + a2 + a3 + a4
    BY <1>4
  <1> HIDE DEF x, y, a1, a2, a3, a4, b1, b2, b3, b4, c1, c2, c3, c4
  <1>17. x * v \in Int /\ x * v <= 65280 * v /\ y * q \in Int /\ y * q <= 65280 * q
    <2>1. x <= 65280 /\ y <= 65280
      BY <1>0, <1>1, <1>13
    <2> QED
      BY <1>0, <1>13, <2>1
  <1> DEFINE lost == c1 + c2 + c3 + c4
  <1>18. lost \in Nat /\ lost <= 130560
    BY <1>2, <1>7, <1>14, <1>15 DEF AllLose
  <1>19. 256 * sum = x * v + y * q - lost
    <2>1. 256 * sum = 256 * a1 + 256 * a2 + 256 * a3 + 256 * a4
      BY <1>7, <1>16
    <2>2. 256 * sum = (b1 - c1) + (b2 - c2) + (b3 - c3) + (b4 - c4)
      BY <1>8, <1>9, <1>10, <1>11, <2>1
    <2>3. (b1 - c1) + (b2 - c2) + (b3 - c3) + (b4 - c4) = (b1 + b2) + (b3 + b4) - lost
      BY <1>7
    <2> QED
      BY <1>12, <2>2, <2>3
  <1>20. sum \in Int /\ 0 <= sum
    BY <1>7, <1>16
  <1> HIDE DEF lost
  <1>21. sum <= 65280
    <2>1. x * v + y * q <= 65280 * 256
      BY <1>0, <1>1, <1>17
    <2> QED
      BY <1>17, <1>18, <1>19, <1>20, <2>1
  <1> QED
    <2>1. full = x * v + y * q
      BY DEF Mixed, x, y
    <2> HIDE DEF full
    <2>2. 256 * sum = full - lost
      BY <1>17, <1>18, <1>19, <2>1
    <2>3. \E l \in Nat : l <= 130560 /\ 256 * sum = full - l
      BY <1>18, <2>2
    <2> QED
      BY <1>20, <1>21, <2>3 DEF sum, full, SumLoses

\* What a value and the surface are to each other, times the size of the cell.
IsClose(got, num, den) ==
  got * den <= num + Tolerance * den /\ got * den >= num - Tolerance * den

\* What rounding the position loses of a mixture of corners: less than a byte
\* along each axis.
Part(n, u, p, a, b) ==
  /\ a \in Nat /\ b \in Nat /\ a + b = n
  /\ \E s \in 0 .. n : 256 * b = n * p + s /\ 256 * a = n * u - s

PositionsLose(A, B, C, D, left, right, above, below, u, p, v, q, den) ==
  /\ Mixed(A, B, C, D, left, right, above, below) \in Int
  /\ Mixed(A, B, C, D, u, p, v, q) \in Int
  /\ 65536 * Mixed(A, B, C, D, left, right, above, below)
        - den * Mixed(A, B, C, D, u, p, v, q) <= 130560 * den
  /\ -(130560 * den) <= 65536 * Mixed(A, B, C, D, left, right, above, below)
                             - den * Mixed(A, B, C, D, u, p, v, q)

LEMMA PositionIsClose ==
  ASSUME NEW A \in Byte, NEW B \in Byte, NEW C \in Byte, NEW D \in Byte,
         NEW left, NEW right, NEW above, NEW below, NEW n \in Nat, NEW m \in Nat,
         NEW u, NEW p, Shares(u, p), NEW v, NEW q, Shares(v, q),
         Part(n, u, p, left, right), Part(m, q, v, below, above)
  PROVE  PositionsLose(A, B, C, D, left, right, above, below, u, p, v, q, n * m)
  <1>a. /\ left \in Nat /\ right \in Nat /\ left + right = n
        /\ above \in Nat /\ below \in Nat /\ above + below = m
    BY DEF Part
  <1>b. /\ u \in Nat /\ p \in Nat /\ u + p = 256
        /\ v \in Nat /\ q \in Nat /\ v + q = 256
    BY DEF Shares
  <1>c. PICK s \in 0 .. n : 256 * right = n * p + s /\ 256 * left = n * u - s
    BY DEF Part
  <1>d. PICK t \in 0 .. m : 256 * above = m * v + t /\ 256 * below = m * q - t
    BY DEF Part
  <1> DEFINE T == A * left + B * right
             L == C * left + D * right
             x == A * u + B * p
             y == C * u + D * p
             num == Mixed(A, B, C, D, left, right, above, below)
             sum == Mixed(A, B, C, D, u, p, v, q)
             part == (B - A) * v + (D - C) * q
  <1>1. A \in Int /\ B \in Int /\ C \in Int /\ D \in Int
        /\ B - A \in Int /\ -255 <= B - A /\ B - A <= 255
        /\ D - C \in Int /\ -255 <= D - C /\ D - C <= 255
    BY DEF Byte
  <1>2. /\ T \in Int /\ 0 <= T /\ T <= 255 * (left + right)
        /\ L \in Int /\ 0 <= L /\ L <= 255 * (left + right)
    BY <1>a, <1>b, Mixture
  <1>3. x \in Int /\ y \in Int
    BY <1>a, <1>b, <1>c, <1>d, <1>1
  <1>4. 256 * T = n * x + s * (B - A)
    BY <1>a, <1>b, <1>c, <1>d, <1>1, RoundedMixture
  <1>5. 256 * L = n * y + s * (D - C)
    BY <1>a, <1>b, <1>c, <1>d, <1>1, RoundedMixture
  <1>0. num = T * above + L * below /\ sum = x * v + y * q
    BY DEF Mixed
  <1> HIDE DEF T, L, x, y, num, sum
  <1>6. 256 * (L * below + T * above) = m * (L * q + T * v) + t * (T - L)
    BY <1>a, <1>b, <1>c, <1>d, <1>2, RoundedMixture
  <1>7. num \in Int /\ sum \in Int /\ part \in Int
    BY <1>a, <1>b, <1>c, <1>d, <1>0, <1>1, <1>2, <1>3
  <1>8. 256 * (L * q + T * v) = n * sum + s * part
    <2>1. 256 * (L * q) = (n * y + s * (D - C)) * q
      BY <1>a, <1>b, <1>c, <1>d, <1>2, <1>5
    <2>2. 256 * (T * v) = (n * x + s * (B - A)) * v
      BY <1>a, <1>b, <1>c, <1>d, <1>2, <1>4
    <2>3. (n * y + s * (D - C)) * q = n * (y * q) + s * ((D - C) * q)
      BY <1>a, <1>b, <1>c, <1>d, <1>1, <1>3
    <2>4. (n * x + s * (B - A)) * v = n * (x * v) + s * ((B - A) * v)
      BY <1>a, <1>b, <1>c, <1>d, <1>1, <1>3
    <2>5. n * sum = n * (x * v) + n * (y * q)
      BY <1>a, <1>b, <1>c, <1>d, <1>0, <1>3
    <2>6. s * part = s * ((B - A) * v) + s * ((D - C) * q)
      BY <1>a, <1>b, <1>c, <1>d, <1>1
    <2>7. /\ n * (y * q) \in Int /\ s * ((D - C) * q) \in Int
          /\ n * (x * v) \in Int /\ s * ((B - A) * v) \in Int
          /\ L * q \in Int /\ T * v \in Int
      BY <1>a, <1>b, <1>c, <1>d, <1>1, <1>2, <1>3
    <2> DEFINE yq == n * (y * q)
               xv == n * (x * v)
               dq == s * ((D - C) * q)
               bv == s * ((B - A) * v)
               lq == L * q
               tv == T * v
    <2>8. 256 * lq = yq + dq /\ 256 * tv = xv + bv
      BY <1>a, <1>b, <1>c, <1>d, <2>1, <2>2, <2>3, <2>4
    <2>9. n * sum = xv + yq /\ s * part = bv + dq
      BY <1>a, <1>b, <1>c, <1>d, <2>5, <2>6
    <2>10. yq \in Int /\ xv \in Int /\ dq \in Int /\ bv \in Int /\ lq \in Int /\ tv \in Int
      BY <1>a, <1>b, <1>c, <1>d, <2>7
    <2> HIDE DEF yq, xv, dq, bv, lq, tv, part
    <2>11. 256 * (lq + tv) = n * sum + s * part
      BY <1>a, <1>b, <1>c, <1>d, <2>8, <2>9, <2>10
    <2> QED
      BY <1>a, <1>b, <1>c, <1>d, <2>11 DEF lq, tv
  <1>9. -65280 <= part /\ part <= 65280
    <2>1. (B - A) * v \in Int /\ -(255 * v) <= (B - A) * v /\ (B - A) * v <= 255 * v
      BY <1>a, <1>b, <1>c, <1>d, <1>1
    <2>2. (D - C) * q \in Int /\ -(255 * q) <= (D - C) * q /\ (D - C) * q <= 255 * q
      BY <1>a, <1>b, <1>c, <1>d, <1>1
    <2> QED
      BY <1>a, <1>b, <1>c, <1>d, <2>1, <2>2
  <1> HIDE DEF part
  <1>10. s * part \in Int /\ -(n * 65280) <= s * part /\ s * part <= n * 65280
    BY <1>a, <1>b, <1>c, <1>d, <1>7, <1>9, SmallPart
  <1>11. t * (T - L) \in Int /\ -(m * (255 * n)) <= t * (T - L) /\ t * (T - L) <= m * (255 * n)
    <2>1. T - L \in Int /\ -(255 * n) <= T - L /\ T - L <= 255 * n /\ 255 * n \in Nat
      BY <1>a, <1>b, <1>c, <1>d, <1>2
    <2> QED
      BY <1>a, <1>b, <1>c, <1>d, <2>1, SmallPart
  <1> DEFINE den == n * m
             a == m * (s * part)
             b == t * (T - L)
  <1>12. 65536 * num = den * sum + a + 256 * b
    <2>1. num = L * below + T * above /\ L * q + T * v \in Int
      BY <1>a, <1>b, <1>c, <1>d, <1>0, <1>2
    <2>2. 256 * (m * (L * q + T * v)) = m * (n * sum + s * part)
      BY <1>a, <1>b, <1>c, <1>d, <1>8, <2>1
    <2>3. m * (n * sum + s * part) = den * sum + a
      BY <1>a, <1>b, <1>c, <1>d, <1>7, <1>10
    <2>4. 65536 * num = 256 * (m * (L * q + T * v)) + 256 * b
      <3>1. 256 * num = m * (L * q + T * v) + b
        BY <1>a, <1>b, <1>c, <1>d, <1>6, <2>1
      <3> DEFINE k == m * (L * q + T * v)
      <3>2. k \in Int /\ b \in Int
        BY <1>a, <1>b, <1>c, <1>d, <1>11, <2>1
      <3> HIDE DEF b, k
      <3>3. 256 * num = k + b => 65536 * num = 256 * k + 256 * b
        BY <1>a, <1>b, <1>c, <1>d, <1>7, <3>2
      <3> QED
        BY <1>a, <1>b, <1>c, <1>d, <3>1, <3>3 DEF k
    <2> QED
      BY <1>a, <1>b, <1>c, <1>d, <2>2, <2>3, <2>4
  <1>13. a \in Int /\ -(65280 * den) <= a /\ a <= 65280 * den
    <2>1. m * (s * part) <= m * (n * 65280) /\ m * (-(n * 65280)) <= m * (s * part)
      BY <1>a, <1>b, <1>c, <1>d, <1>10
    <2>2. m * (n * 65280) = 65280 * den /\ m * (-(n * 65280)) = -(65280 * den)
      OBVIOUS
    <2> QED
      BY <1>a, <1>b, <1>c, <1>d, <1>10, <2>1, <2>2
  <1>14. b \in Int /\ -(255 * den) <= b /\ b <= 255 * den
    <2>1. m * (255 * n) = 255 * den
      OBVIOUS
    <2> QED
      BY <1>a, <1>b, <1>c, <1>d, <1>11, <2>1
  <1> HIDE DEF a, b
  <1>15. den * sum \in Int /\ den \in Int
    BY <1>a, <1>b, <1>c, <1>d, <1>7
  <1> HIDE DEF den
  <1>16. /\ 65536 * num - den * sum <= 130560 * den
         /\ -(130560 * den) <= 65536 * num - den * sum
    BY <1>a, <1>b, <1>c, <1>d, <1>7, <1>12, <1>13, <1>14, <1>15
  <1> QED
    BY <1>a, <1>b, <1>c, <1>d, <1>7, <1>16 DEF num, sum, den, PositionsLose

\* What the interpolation in a cell gives is close to the surface.
CellIsClose(A, B, C, D, left, right, above, below, p, q) ==
  IsClose(Kept(Blend(A, B, C, D, p, q)),
          A * left * above + B * right * above + C * left * below + D * right * below,
          (left + right) * (above + below))

LEMMA CellOnSurface ==
  ASSUME NEW A \in Byte, NEW B \in Byte, NEW C \in Byte, NEW D \in Byte,
         NEW left \in Nat, NEW right \in Nat, left + right > 0,
         NEW above \in Nat, NEW below \in Nat, above + below > 0,
         NEW p, p = (256 * right) \div (left + right),
         NEW q, q = 256 - (256 * above) \div (above + below)
  PROVE  CellIsClose(A, B, C, D, left, right, above, below, p, q)
  <1> DEFINE n == left + right
             m == above + below
             v == (256 * above) \div m
             u == 256 - p
             num == Mixed(A, B, C, D, left, right, above, below)
             full == Mixed(A, B, C, D, u, p, v, q)
             sum == Summed(A, B, C, D, u, p, v, q)
             den == n * m
             got == Kept(Blend(A, B, C, D, p, q))
  <1>1. /\ p \in 0 .. 256
        /\ \E s \in 0 .. n - 1 : 256 * right = n * p + s /\ 256 * left = n * (256 - p) - s
    BY RoundedPosition
  <1>2. /\ v \in 0 .. 256
        /\ \E t \in 0 .. m - 1 : 256 * above = m * v + t /\ 256 * below = m * (256 - v) - t
    <2>1. below + above = m
      OBVIOUS
    <2> QED
      BY <2>1, RoundedPosition
  <1>3. q = 256 - v /\ q \in Nat /\ v \in Nat /\ v + q = 256 /\ p \in Nat /\ u \in Nat /\ u + p = 256
        /\ v = 256 - q /\ Shares(u, p) /\ Shares(v, q)
    BY <1>1, <1>2 DEF Shares
  <1>4. PICK s \in 0 .. n : 256 * right = n * p + s /\ 256 * left = n * u - s
    BY <1>1
  <1>5. PICK t \in 0 .. m : 256 * above = m * v + t /\ 256 * below = m * q - t
    BY <1>2, <1>3
  <1>6. n \in Nat /\ m \in Nat /\ n > 0 /\ m > 0
    OBVIOUS
  <1>7. A \in Int /\ B \in Int /\ C \in Int /\ D \in Int /\ 0 <= A /\ A <= 255
    BY DEF Byte
  <1> HIDE DEF u, v, n, m
  <1>8. /\ num \in Int /\ full \in Int
        /\ 65536 * num - den * full <= 130560 * den
        /\ -(130560 * den) <= 65536 * num - den * full
    <2>1. Part(n, u, p, left, right)
      BY <1>4 DEF Part, n
    <2>2. Part(m, q, v, below, above)
      BY <1>5 DEF Part, m
    <2>3. PositionsLose(A, B, C, D, left, right, above, below, u, p, v, q, n * m)
      BY <1>3, <1>6, <2>1, <2>2, PositionIsClose
    <2> QED
      BY <2>3 DEF PositionsLose
  <1>9. /\ sum \in Int /\ 0 <= sum /\ sum <= 65280
        /\ \E lost \in Nat : lost <= 130560 /\ 256 * sum = full - lost
    BY <1>3, SumIsClose DEF SumLoses
  <1>10. den \in Nat
    BY <1>6
  <1>11. num = A * left * above + B * right * above + C * left * below + D * right * below
    BY <1>7 DEF Mixed
  <1>12. Blend(A, B, C, D, p, q) =
            IF A = B /\ A = C /\ A = D THEN A ELSE AsInt(sum) \div 256
    <2>1. 256 - p = u /\ 256 - q = v
      BY <1>3 DEF u
    <2> QED
      BY <2>1 DEF Blend, Summed
  <1> HIDE DEF num, full, sum, den
  <1>13. CASE A = B /\ A = C /\ A = D
    <2>1. got = A
      <3>1. Blend(A, B, C, D, p, q) = A
        BY <1>12, <1>13
      <3>2. A % 256 = A
        BY <1>7
      <3> QED
        BY <3>1, <3>2 DEF Kept
    <2>2. num = A * den
      <3>1. num = (A * left + A * right) * above + (A * left + A * right) * below
        BY <1>13 DEF num, Mixed
      <3>2. A * left + A * right = A * n
        BY <1>7 DEF n
      <3>3. (A * n) * above + (A * n) * below = (A * n) * m
        BY <1>6, <1>7 DEF m
      <3> QED
        BY <1>6, <1>7, <3>1, <3>2, <3>3 DEF den
    <2> QED
      BY <1>7, <1>10, <1>11, <2>1, <2>2 DEF CellIsClose, IsClose, Tolerance, den, n, m
  <1>14. CASE ~ (A = B /\ A = C /\ A = D)
    <2>1. got = sum \div 256
      <3>1. Blend(A, B, C, D, p, q) = AsInt(sum) \div 256
        BY <1>12, <1>14
      <3> QED
        BY <1>9, <3>1, KeptSum
    <2> HIDE DEF got
    <2>2. got \in Int /\ 256 * got <= sum /\ sum <= 256 * got + 255
      BY <1>9, <2>1
    <2>3. PICK lost \in Nat : lost <= 130560 /\ 256 * sum = full - lost
      BY <1>9
    <2>4. 65536 * got <= full /\ full <= 65536 * got + 195840
      BY <1>8, <1>9, <2>2, <2>3
    <2>5. den * (65536 * got) <= den * full /\ den * full <= den * (65536 * got + 195840)
      BY <1>8, <1>10, <2>2, <2>4
    <2>6. den * (65536 * got) = 65536 * (got * den)
          /\ den * (65536 * got + 195840) = 65536 * (got * den) + 195840 * den
          /\ got * den \in Int /\ den * full \in Int
      BY <1>8, <1>10, <2>2
    <2>7. got * den <= num + 5 * den /\ got * den >= num - 5 * den
      <3> DEFINE g == got * den
                 f == den * full
      <3>1. 65536 * g <= f /\ f <= 65536 * g + 195840 * den /\ g \in Int /\ f \in Int
        BY <2>5, <2>6
      <3>2. 65536 * num - f <= 130560 * den /\ -(130560 * den) <= 65536 * num - f
        BY <1>8
      <3> HIDE DEF g, f
      <3>3. g <= num + 5 * den /\ g >= num - 5 * den
        BY <1>8, <1>10, <3>1, <3>2
      <3> QED
        BY <3>3 DEF g
    <2> QED
      BY <1>11, <2>7 DEF CellIsClose, IsClose, Tolerance, den, n, m, got
  <1> QED
    BY <1>13, <1>14

\* The cell the surface is taken from.
LEMMA CellsExist ==
  ASSUME MapTypeOK, NEW x \in Int, NEW y \in Int
  PROVE  /\ \E c \in Columns \ {0} :
               map.axisX[c - 1] <= Speed(x) /\ Speed(x) <= map.axisX[c]
         /\ \E r \in Rows \ {0} :
               map.axisY[r - 1] >= Load(y) /\ Load(y) >= map.axisY[r]
  <1>1. PICK k : AtColumn(Speed(x), k)
    BY SpeedOnAxis
  <1>2. PICK r : AtRow(Load(y), r)
    BY LoadOnAxis
  <1>3. 0 \in Columns /\ 1 \in Columns \ {0} /\ 0 \in Rows /\ 1 \in Rows \ {0}
    BY MapAssumption
  <1>4. map.axisX[0] < map.axisX[1] /\ map.axisY[0] > map.axisY[1]
    BY Axes, <1>3
  <1>5. /\ k \in Columns /\ k \in Nat /\ (k > 0 => k - 1 \in Columns)
        /\ r \in Rows /\ r \in Nat /\ (r > 0 => r - 1 \in Rows)
    BY Axes, <1>1, <1>2 DEF AtColumn, AtRow
  <1>6. /\ map.axisX[0] \in Int /\ map.axisX[1] \in Int /\ map.axisX[k] \in Int
        /\ map.axisY[0] \in Int /\ map.axisY[1] \in Int /\ map.axisY[r] \in Int
        /\ (k > 0 => map.axisX[k - 1] \in Int /\ map.axisX[k - 1] < map.axisX[k])
        /\ (r > 0 => map.axisY[r - 1] \in Int /\ map.axisY[r - 1] > map.axisY[r])
    <2>1. /\ \A i \in Columns : map.axisX[i] \in Int
          /\ \A i \in Rows : map.axisY[i] \in Int
          /\ \A i, j \in Columns : i < j => map.axisX[i] < map.axisX[j]
          /\ \A i, j \in Rows : i < j => map.axisY[i] > map.axisY[j]
      BY Axes
    <2>2. (k > 0 => k - 1 < k) /\ (r > 0 => r - 1 < r)
      BY <1>5
    <2> QED
      BY <1>3, <1>5, <2>1, <2>2
  <1>7. \E c \in Columns \ {0} : map.axisX[c - 1] <= Speed(x) /\ Speed(x) <= map.axisX[c]
    <2>1. CASE k = 0
      <3>1. Speed(x) = map.axisX[0]
        BY <1>1, <2>1 DEF AtColumn, OnColumn, PastColumn
      <3>2. map.axisX[1 - 1] <= Speed(x) /\ Speed(x) <= map.axisX[1]
        BY <1>4, <1>6, <3>1
      <3> QED
        BY <1>3, <3>2
    <2>2. CASE k > 0
      <3>1. \/ Speed(x) = map.axisX[k]
            \/ map.axisX[k - 1] < Speed(x) /\ Speed(x) < map.axisX[k]
        BY <1>1 DEF AtColumn, OnColumn, PastColumn
      <3>2. Speed(x) \in Int
        BY SpeedOnAxis
      <3>3. map.axisX[k - 1] <= Speed(x) /\ Speed(x) <= map.axisX[k]
        BY <1>6, <2>2, <3>1, <3>2
      <3>4. k \in Columns \ {0}
        BY <1>5, <2>2
      <3> QED
        BY <3>3, <3>4
    <2> QED
      BY <1>5, <2>1, <2>2
  <1>8. \E i \in Rows \ {0} : map.axisY[i - 1] >= Load(y) /\ Load(y) >= map.axisY[i]
    <2>1. CASE r = 0
      <3>1. Load(y) = map.axisY[0]
        BY <1>2, <2>1 DEF AtRow, OnRow, PastRow
      <3>2. map.axisY[1 - 1] >= Load(y) /\ Load(y) >= map.axisY[1]
        BY <1>4, <1>6, <3>1
      <3> QED
        BY <1>3, <3>2
    <2>2. CASE r > 0
      <3>1. \/ Load(y) = map.axisY[r]
            \/ map.axisY[r - 1] > Load(y) /\ Load(y) > map.axisY[r]
        BY <1>2 DEF AtRow, OnRow, PastRow
      <3>2. Load(y) \in Int
        BY LoadOnAxis
      <3>3. map.axisY[r - 1] >= Load(y) /\ Load(y) >= map.axisY[r]
        BY <1>6, <2>2, <3>1, <3>2
      <3>4. r \in Rows \ {0}
        BY <1>5, <2>2
      <3> QED
        BY <3>3, <3>4
    <2> QED
      BY <1>5, <2>1, <2>2
  <1> QED
    BY <1>7, <1>8

\* A lookup with no memory is close to the surface.
LEMMA FreshOnSurface ==
  ASSUME MapTypeOK, NEW x \in Int, NEW y \in Int
  PROVE  IsClose(Kept(Fresh(x, y)), Surface(x, y).num, Surface(x, y).den)
  <1> DEFINE c == CHOOSE i \in Columns \ {0} :
                     map.axisX[i - 1] <= Speed(x) /\ Speed(x) <= map.axisX[i]
             r == CHOOSE i \in Rows \ {0} :
                     map.axisY[i - 1] >= Load(y) /\ Load(y) >= map.axisY[i]
             columns == [min |-> c - 1, max |-> c]
             rows == [min |-> r - 1, max |-> r]
             A == map.values[r - 1][c - 1]
             B == map.values[r - 1][c]
             C == map.values[r][c - 1]
             D == map.values[r][c]
             right == Speed(x) - map.axisX[c - 1]
             left == map.axisX[c] - Speed(x)
             above == Load(y) - map.axisY[r]
             below == map.axisY[r - 1] - Load(y)
             p == Along(Speed(x), map.axisX[c - 1], map.axisX[c])
             q == Down(Load(y), map.axisY[r - 1], map.axisY[r])
             num == A * left * above + B * right * above + C * left * below + D * right * below
             den == (left + right) * (above + below)
  <1>1. Surface(x, y).num = num /\ Surface(x, y).den = den
    BY DEF Surface
  <1>2. InCell(Speed(x), c) /\ BetweenRows(Load(y), r)
    <2>1. /\ c \in Columns \ {0}
          /\ map.axisX[c - 1] <= Speed(x) /\ Speed(x) <= map.axisX[c]
      BY CellsExist, Zenon
    <2>2. /\ r \in Rows \ {0}
          /\ map.axisY[r - 1] >= Load(y) /\ Load(y) >= map.axisY[r]
      BY CellsExist, Zenon
    <2> HIDE DEF c, r
    <2> QED
      BY <2>1, <2>2 DEF InCell, BetweenRows
  <1> HIDE DEF c, r
  <1>3. /\ c \in Columns /\ c - 1 \in Columns /\ c - 1 < c /\ c > 0
        /\ r \in Rows /\ r - 1 \in Rows /\ r - 1 < r /\ r > 0
    <2>1. c \in Columns \ {0} /\ r \in Rows \ {0}
      BY <1>2 DEF InCell, BetweenRows
    <2> QED
      BY Axes, <2>1
  <1>4. Adjacent(columns, Columns) /\ Adjacent(rows, Rows)
    BY Axes, <1>3, SMTT(60) DEF Adjacent
  <1>5. Speed(x) \in Int /\ Load(y) \in Int
    BY SpeedOnAxis, LoadOnAxis
  <1>6. PICK k : AtColumn(Speed(x), k)
    BY SpeedOnAxis
  <1>7. PICK i : AtRow(Load(y), i)
    BY LoadOnAxis
  <1>8. Adjacent(SearchRows(Load(y)), Rows)
    BY <1>5, <1>6, <1>7, SearchIsAdjacent
  <1>9. Kept(Fresh(x, y)) = Kept(Interpolate(Speed(x), Load(y), columns, rows))
    <2>1. Kept(Fresh(x, y)) = Kept(Interpolate(Speed(x), Load(y), columns, SearchRows(Load(y))))
      BY <1>2, <1>5, <1>8, ColumnCell DEF Fresh
    <2>2. Kept(Interpolate(Speed(x), Load(y), columns, SearchRows(Load(y)))) =
            Kept(Interpolate(Speed(x), Load(y), columns, rows))
      BY <1>2, <1>4, <1>5, RowCell
    <2> QED
      BY <2>1, <2>2
  <1>10. Interpolate(Speed(x), Load(y), columns, rows) = Blend(A, B, C, D, p, q)
    BY DEF Interpolate
  <1>11. /\ map.axisX[c - 1] \in Int /\ map.axisX[c] \in Int /\ map.axisX[c - 1] < map.axisX[c]
         /\ map.axisY[r - 1] \in Int /\ map.axisY[r] \in Int /\ map.axisY[r - 1] > map.axisY[r]
         /\ map.axisX[c - 1] <= Speed(x) /\ Speed(x) <= map.axisX[c]
         /\ map.axisY[r - 1] >= Load(y) /\ Load(y) >= map.axisY[r]
    BY Axes, <1>2, <1>3 DEF InCell, BetweenRows
  <1>12. /\ left \in Nat /\ right \in Nat /\ above \in Nat /\ below \in Nat
         /\ left + right = map.axisX[c] - map.axisX[c - 1]
         /\ above + below = map.axisY[r - 1] - map.axisY[r]
         /\ left + right > 0 /\ above + below > 0
    BY <1>5, <1>11
  <1>13. p = (256 * right) \div (left + right)
    BY <1>11, <1>12 DEF Along
  <1>14. q = 256 - (256 * above) \div (above + below)
    BY <1>11, <1>12 DEF Down
  <1>15. A \in Byte /\ B \in Byte /\ C \in Byte /\ D \in Byte
    BY Axes, <1>3
  <1> HIDE DEF A, B, C, D, left, right, above, below, p, q
  <1>16. IsClose(Kept(Blend(A, B, C, D, p, q)), num, den)
    <2>1. CellIsClose(A, B, C, D, left, right, above, below, p, q)
      BY <1>12, <1>13, <1>14, <1>15, CellOnSurface, SMTT(60)
    <2> QED
      BY <2>1 DEF CellIsClose
  <1> QED
    BY <1>1, <1>9, <1>10, <1>16

\* For every map with bins in order and every sequence of lookups and writes of the
\* tuner, the byte that is read differs from the surface through the map's entries
\* by at most 5: less than one for the rounding of each of the two positions, of the
\* sum, and twice one for the weights (get3DTableValue()).
THEOREM LookupsAreOnTheSurface == MapSpec => []LookupIsOnTheSurface
  <1>1. MapInv => LookupIsOnTheSurface
    <2> SUFFICES ASSUME MapInv, cache.valid
                 PROVE  LET s == Surface(answer.x, answer.y)
                            got == Kept(answer.value) * s.den
                        IN  got <= s.num + Tolerance * s.den /\ got >= s.num - Tolerance * s.den
      BY DEF LookupIsOnTheSurface
    <2>1. MapTypeOK /\ answer.x \in Int /\ answer.y \in Int
      BY DEF MapInv, MapTypeOK
    <2>2. Kept(answer.value) = Kept(Fresh(answer.x, answer.y))
      BY DEF MapInv, LookupHasNoMemory
    <2> QED
      BY <2>1, <2>2, FreshOnSurface DEF IsClose
  <1> QED
    BY <1>1, MapInitInv, MapStep, PTL DEF MapSpec

(***************************************************************************)
(* Curves                                                                  *)
(***************************************************************************)
\* The bins of the axis.
LEMMA Bins ==
  /\ LastBin \in Nat \ {0} /\ 0 \in 0 .. LastBin /\ LastBin \in 0 .. LastBin
  /\ \A i \in 0 .. LastBin : AxisX[i] \in Int
  /\ \A i, j \in 0 .. LastBin : i < j => AxisX[i] < AxisX[j]
  /\ AxisX[0] < AxisX[LastBin]
  <1>1. LastBin \in Nat \ {0} /\ AxisX \in [0 .. LastBin -> 0 .. 255]
    BY CurveAssumption
  <1>2. \A i, j \in 0 .. LastBin : i < j => AxisX[i] < AxisX[j]
    BY CurveAssumption, Zenon
  <1>3. \A i \in 0 .. LastBin : AxisX[i] \in 0 .. 255
    BY <1>1
  <1>4. 0 \in 0 .. LastBin /\ LastBin \in 0 .. LastBin /\ 0 < LastBin
    BY <1>1
  <1>5. AxisX[0] < AxisX[LastBin]
    BY <1>2, <1>4
  <1>6. \A i \in 0 .. LastBin : AxisX[i] \in Int
    BY <1>3
  <1> QED
    BY <1>1, <1>2, <1>4, <1>5, <1>6, Zenon

\* The values of the curve.
LEMMA CurveValuesRange ==
  ASSUME CurveTypeOK, NEW i \in 0 .. LastBin
  PROVE  curve[i] \in Int /\ 0 <= curve[i] /\ curve[i] <= 511
  <1>1. curve \in [0 .. LastBin -> CurveRange]
    BY Zenon DEF CurveTypeOK
  <1>2. curve[i] \in CurveRange
    BY <1>1, Zenon
  <1> QED
    BY <1>2 DEF CurveRange

LEMMA Int16Is ==
  ASSUME NEW p \in Int, 0 <= p, p <= 32704
  PROVE  Int16(p) = p
  <1>1. (p + 32768) % 65536 = p + 32768
    OBVIOUS
  <1> QED
    BY <1>1 DEF Int16

\* The product of two numbers that are small enough.
LEMMA SmallProduct ==
  ASSUME NEW share \in 0 .. 64, NEW rise \in 0 .. 511
  PROVE  share * rise \in Int /\ 0 <= share * rise /\ share * rise <= 32704
  OBVIOUS

\* Two roundings, in 64ths: m of n parts of the way along a curve that rises
\* or falls by rise.
LEMMA TwoRoundings ==
  ASSUME NEW n \in Nat \ {0}, NEW m \in 0 .. n, NEW rise \in 0 .. 511,
         NEW share, NEW y,
         share = (64 * m) \div n,
         y = Int16(share * rise) \div 64
  PROVE  /\ y \in Nat
         /\ 0 <= m * rise - y * n
         /\ 64 * (m * rise - y * n) < n * (rise + 64)
  <1>1. share \in Nat /\ n * share <= 64 * m /\ 64 * m < n * share + n
    BY DivRest, 64 * m \in Nat
  <1>2. share \in 0 .. 64
    <2>1. ASSUME share > 64 PROVE FALSE
      <3>1. n * share >= n * 65
        BY <1>1, <2>1
      <3> QED
        BY <1>1, <3>1
    <2> QED
      BY <1>1, <2>1
  <1> DEFINE p == share * rise
  <1>3. p \in Int /\ 0 <= p /\ p <= 32704
    BY <1>2, SmallProduct
  <1>4. Int16(p) = p
    <2> HIDE DEF p
    <2> QED
      BY <1>3, Int16Is
  <1>5. y \in Nat /\ 64 * y <= p /\ p < 64 * y + 64
    <2>1. y = p \div 64
      BY <1>4, Zenon
    <2> HIDE DEF p
    <2> QED
      BY <1>3, <2>1, DivRest64
  <1> DEFINE lost == 64 * m - n * share
             rest == p - 64 * y
  <1>6. lost \in 0 .. n - 1 /\ rest \in Int /\ 0 <= rest /\ rest <= 63
    <2> HIDE DEF p
    <2>1. n * share \in Int
      BY <1>1
    <2>2. lost \in 0 .. n - 1
      BY <1>1, <2>1
    <2>3. rest \in Int /\ 0 <= rest /\ rest <= 63
      BY <1>3, <1>5
    <2> QED
      BY <2>2, <2>3
  <1>7. 64 * (m * rise - y * n) = lost * rise + rest * n
    <2>1. lost * rise = 64 * (m * rise) - n * p
      <3>1. (64 * m - n * share) * rise = (64 * m) * rise - (n * share) * rise
        BY <1>1
      <3>2. (n * share) * rise = n * p
        BY <1>1
      <3> QED
        BY <3>1, <3>2
    <2>2. rest * n = p * n - 64 * (y * n)
      <3> HIDE DEF p
      <3> QED
        BY <1>3, <1>5
    <2>3. m * rise \in Int /\ y * n \in Int /\ n * p \in Int /\ n * p = p * n
      <3> HIDE DEF p
      <3> QED
        BY <1>3, <1>5
    <2> HIDE DEF lost, rest, p
    <2> QED
      BY <2>1, <2>2, <2>3
  <1>8. lost * rise >= 0 /\ lost * rise <= n * rise
    BY <1>6
  <1>9. rest * n >= 0 /\ rest * n < n * 64
    BY <1>6
  <1>10. n * (rise + 64) = n * rise + n * 64
    OBVIOUS
  <1>11. m * rise \in Int /\ y * n \in Int /\ lost * rise \in Int /\ rest * n \in Int
    BY <1>5, <1>6
  <1> HIDE DEF lost, rest
  <1> QED
    BY <1>5, <1>7, <1>8, <1>9, <1>10, <1>11

\* What is interpolated is on the curve, rising or falling.
LEMMA InterpolatedIsOnCurve ==
  ASSUME CurveTypeOK, NEW x \in Int, AxisX[0] < x, x < AxisX[LastBin],
         NEW bins, bins.min \in 0 .. LastBin, bins.max \in 0 .. LastBin,
         bins.max = bins.min + 1, Holds(bins, x)
  PROVE  /\ InterpolatedAt(x, bins) \in Int
         /\ IsOnCurve(InterpolatedAt(x, bins), curve, x)
  <1> DEFINE i == bins.max
             n == AxisX[i] - AxisX[i - 1]
             m == x - AxisX[i - 1]
             up == curve[i] - curve[i - 1]
             rise == Absolute(up)
             share == (64 * m) \div n
             y == Int16(share * rise) \div 64
             value == InterpolatedAt(x, bins)
  <1>1. i \in 1 .. LastBin /\ i - 1 = bins.min /\ i - 1 \in 0 .. LastBin
    BY Bins
  <1>2. AxisX[i] \in Int /\ AxisX[i - 1] \in Int /\ AxisX[i - 1] < x /\ x <= AxisX[i]
    BY <1>1, Bins DEF Holds
  <1>3. n \in Nat \ {0} /\ m \in 0 .. n
    BY <1>2
  <1>4. /\ curve[i] \in Int /\ 0 <= curve[i] /\ curve[i] <= 511
        /\ curve[i - 1] \in Int /\ 0 <= curve[i - 1] /\ curve[i - 1] <= 511
    BY <1>1, Bins, CurveValuesRange
  <1>5. rise \in 0 .. 511 /\ up \in Int /\ (rise = up \/ rise = -up) /\ (up > 0 <=> curve[i] > curve[i - 1])
        /\ (up > 0 => rise = up) /\ (~ (up > 0) => rise = -up)
    <2>1. up \in Int /\ up <= 511 /\ -511 <= up /\ (up > 0 <=> curve[i] > curve[i - 1])
      BY <1>4
    <2>2. up < 0 => -up \in 0 .. 511
      BY <2>1
    <2>3. up = 0 => up = -up
      OBVIOUS
    <2> HIDE DEF up
    <2> QED
      BY <2>1, <2>2, <2>3 DEF Absolute
  <1>6. /\ y \in Nat
        /\ 0 <= m * rise - y * n
        /\ 64 * (m * rise - y * n) < n * (rise + 64)
    <2> HIDE DEF n, m, rise
    <2> QED
      BY <1>3, <1>5, TwoRoundings, ZenonT(60)
  <1>7. value = IF up > 0 THEN curve[i - 1] + y ELSE curve[i - 1] - y
    BY <1>1, <1>5 DEF InterpolatedAt
  <1>8. 64 * Absolute((value - curve[i - 1]) * n - m * up) < n * (rise + 64)
    <2> HIDE DEF n, m, rise, y, up, value, i
    <2>1. m * rise \in Int /\ y * n \in Int
      BY <1>3, <1>5, <1>6
    <2>2. CASE up > 0
      <3>1. value - curve[i - 1] = y /\ up = rise
        BY <1>4, <1>5, <1>6, <1>7, <2>2
      <3>2. Absolute(y * n - m * rise) = m * rise - y * n
        BY <1>6, <2>1 DEF Absolute
      <3> QED
        BY <1>6, <3>1, <3>2
    <2>3. CASE ~ (up > 0)
      <3>1. value - curve[i - 1] = -y /\ up = -rise
        BY <1>4, <1>5, <1>6, <1>7, <2>3
      <3>2. (-y) * n = -(y * n) /\ m * (-rise) = -(m * rise)
        BY <1>3, <1>5, <1>6
      <3>3. Absolute(-(y * n) + m * rise) = m * rise - y * n
        BY <1>6, <2>1 DEF Absolute
      <3>4. (value - curve[i - 1]) * n - m * up = -(y * n) + m * rise
        BY <2>1, <3>1, <3>2
      <3> QED
        BY <1>6, <3>3, <3>4
    <2> QED
      BY <2>2, <2>3
  <1>9. value \in Int
    <2> HIDE DEF y, up, value, i
    <2> QED
      BY <1>4, <1>6, <1>7
  <1>10. ~ (x <= AxisX[0]) /\ ~ (x >= AxisX[LastBin])
    BY Bins
  <1> QED
    BY <1>1, <1>2, <1>8, <1>9, <1>10 DEF IsOnCurve

\* The bins of an input within the curve.
LEMMA BetweenHolds ==
  ASSUME CurveTypeOK, NEW x \in Int, AxisX[0] < x, x < AxisX[LastBin]
  PROVE  /\ Between(x) \in [min : 0 .. LastBin, max : 0 .. LastBin]
         /\ Between(x).max = Between(x).min + 1
         /\ Holds(Between(x), x)
  <1>1. CASE Holds(lastBins, x)
    <2>1. lastBins # [min |-> 0, max |-> 0]
      BY <1>1, Bins DEF Holds
    <2> QED
      BY <1>1, <2>1 DEF Between, CurveTypeOK
  <1>2. CASE ~Holds(lastBins, x)
    <2> DEFINE T == {i \in 1 .. LastBin : x <= AxisX[i]}
               found == Min(T)
    <2>1. T \in SUBSET Nat /\ LastBin \in T
      BY Bins
    <2>2. \E k \in T : \A i \in T : k <= i
      BY <2>1, Least
    <2>3. found \in T /\ \A i \in T : found <= i
      BY <2>2 DEF Min
    <2> HIDE DEF found
    <2>4. AxisX[found - 1] < x
      <3>1. CASE found = 1
        BY <3>1
      <3>2. CASE found > 1
        <4>1. found - 1 \in 1 .. LastBin /\ found - 1 \notin T
          BY <2>3, <3>2, Bins
        <4>2. AxisX[found - 1] \in Int
          BY <4>1, Bins
        <4> QED
          BY <4>1, <4>2
      <3> QED
        BY <2>3, <3>1, <3>2
    <2>5. Between(x) = [min |-> found - 1, max |-> found]
      BY <1>2 DEF Between, found
    <2>6. found \in 1 .. LastBin /\ x <= AxisX[found]
      BY <2>3
    <2> QED
      BY <2>4, <2>5, <2>6, Bins DEF Holds
  <1> QED
    BY <1>1, <1>2

\* The kept result is of a curve there is or was a moment ago; or it is of no
\* use any more, by its time or because nothing has been asked yet.
OnOneOf(curves) == \E c \in curves : IsOnCurve(kept.output, c, kept.input)

KeptExpires ==
    IF looked
    THEN /\ kept.input \in Inputs
         /\ \/ OnOneOf(recent.now)
            \/ /\ OnOneOf(recent.before)
               /\ kept.time = secl \/ (secl = 0 /\ kept.time > 1)
    ELSE kept.input \in Inputs /\ kept.time = secl => OnOneOf(recent.before)

CurveInv == CurveTypeOK /\ KeptExpires

LEMMA CurveInitInv == 0 \notin Inputs /\ CurveInit => CurveInv
  <1> SUFFICES ASSUME 0 \notin Inputs, CurveInit PROVE CurveInv
    OBVIOUS
  <1>1. CurveTypeOK
    <2>1. LastBin \in Nat \ {0} /\ FirstCurve \in [0 .. LastBin -> CurveRange]
      BY CurveAssumption
    <2>2. SeclSize \in Nat /\ SeclSize > 1
      BY SecondsAssumption
    <2> QED
      <3>1. curve \in [0 .. LastBin -> CurveRange] /\ curve \in recent.now
            /\ recent \in [now : SUBSET [0 .. LastBin -> CurveRange],
                            before : SUBSET [0 .. LastBin -> CurveRange]]
        BY <2>1 DEF CurveInit
      <3>2. /\ lastBins \in [min : 0 .. LastBin, max : 0 .. LastBin]
            /\ lastBins = [min |-> 0, max |-> 0]
        BY <2>1 DEF CurveInit
      <3>3. 0 \in 0 .. SeclSize - 1
        BY <2>2
      <3>4. kept \in [input : Inputs \cup {0}, output : Int, time : 0 .. SeclSize - 1]
            /\ secl \in 0 .. SeclSize - 1 /\ looked \in BOOLEAN
        <4> DEFINE T == 0 .. SeclSize - 1
        <4> HIDE DEF T
        <4>1. 0 \in T
          BY <3>3 DEF T
        <4>2. kept = [input |-> 0, output |-> 0, time |-> 0] /\ secl = 0 /\ looked = FALSE
          BY DEF CurveInit
        <4>3. kept \in [input : Inputs \cup {0}, output : Int, time : T]
          BY <4>1, <4>2
        <4> QED
          BY <4>1, <4>2, <4>3 DEF T
      <3> QED
        BY <3>1, <3>2, <3>4 DEF CurveTypeOK
  <1>2. KeptExpires
    BY DEF CurveInit, KeptExpires
  <1> QED
    BY <1>1, <1>2 DEF CurveInv

\* A result that is worked out is on the curve there is.
LEMMA FreshIsOnCurve ==
  ASSUME CurveTypeOK, NEW x \in Inputs, GetEnd(x) \/ GetBetween(x)
  PROVE  /\ kept' \in [input : Inputs \cup {0}, output : Int, time : 0 .. SeclSize - 1]
         /\ kept'.input = x /\ IsOnCurve(kept'.output, curve, x)
         /\ lastBins' \in [min : 0 .. LastBin, max : 0 .. LastBin]
         /\ lastBins'.max = lastBins'.min + 1 \/ lastBins' = [min |-> 0, max |-> 0]
  <1>1. x \in Int
    BY SecondsAssumption
  <1>2. CASE GetEnd(x)
    <2>1. AxisX[0] < AxisX[LastBin] /\ AxisX[0] \in Int /\ AxisX[LastBin] \in Int
      BY Bins
    <2>2. curve[0] \in Int /\ curve[LastBin] \in Int
      BY Bins, CurveValuesRange
    <2>3. kept' = [kept EXCEPT !.input = x,
                     !.output = IF x <= AxisX[0] THEN curve[0] ELSE curve[LastBin]]
          /\ (x >= AxisX[LastBin] \/ x <= AxisX[0]) /\ lastBins' = lastBins
      BY <1>2 DEF GetEnd
    <2>4. kept'.input = x /\ kept'.time = kept.time
          /\ kept'.output = IF x <= AxisX[0] THEN curve[0] ELSE curve[LastBin]
      BY <2>3 DEF CurveTypeOK
    <2>5. IsOnCurve(kept'.output, curve, x)
      BY <1>1, <2>1, <2>3, <2>4 DEF IsOnCurve
    <2>6. kept' \in [input : Inputs \cup {0}, output : Int, time : 0 .. SeclSize - 1]
      BY <2>2, <2>3 DEF CurveTypeOK
    <2> QED
      BY <2>3, <2>4, <2>5, <2>6 DEF CurveTypeOK
  <1>3. CASE GetBetween(x)
    <2> DEFINE bins == Between(x)
               exact == x = AxisX[bins.max] /\ bins # lastBins
    <2>1. AxisX[0] < x /\ x < AxisX[LastBin]
      BY <1>1, <1>3, Bins DEF GetBetween
    <2>2. /\ bins \in [min : 0 .. LastBin, max : 0 .. LastBin]
          /\ bins.max = bins.min + 1 /\ Holds(bins, x)
      BY <1>1, <2>1, BetweenHolds
    <2>3. /\ kept' = [input |-> x, time |-> secl,
                      output |-> IF exact THEN curve[bins.max] ELSE InterpolatedAt(x, bins)]
          /\ lastBins' = IF exact THEN lastBins ELSE bins
      BY <1>3 DEF GetBetween
    <2> HIDE DEF bins
    <2>4. InterpolatedAt(x, bins) \in Int /\ IsOnCurve(InterpolatedAt(x, bins), curve, x)
      BY <1>1, <2>1, <2>2, InterpolatedIsOnCurve
    <2>5. CASE exact
      <3> DEFINE i == bins.max
                 n == AxisX[i] - AxisX[i - 1]
                 rise == curve[i] - curve[i - 1]
      <3>1. i \in 1 .. LastBin /\ i - 1 \in 0 .. LastBin /\ i \in 0 .. LastBin
        BY <2>2, Bins
      <3>2. AxisX[i] \in Int /\ AxisX[i - 1] \in Int /\ AxisX[i - 1] < AxisX[i]
        BY <3>1, Bins
      <3>3. curve[i] \in Int /\ curve[i - 1] \in Int
        BY <3>1, CurveValuesRange
      <3>4. rise \in Int /\ n \in Nat \ {0} /\ Absolute(rise) \in Nat
        BY <3>2, <3>3 DEF Absolute
      <3>5. (curve[i] - curve[i - 1]) * n - (x - AxisX[i - 1]) * rise = 0
        <4>1. rise * n = n * rise /\ rise * n \in Int
          BY <3>4
        <4> QED
          BY <2>5, <4>1
      <3>6. n * (Absolute(rise) + 64) > 0
        <4> HIDE DEF n, rise
        <4> QED
          BY <3>4
      <3>7. IsOnCurve(curve[i], curve, x)
        <4>1. ~ (x <= AxisX[0]) /\ ~ (x >= AxisX[LastBin])
          BY <1>1, <2>1, Bins
        <4>2. 64 * Absolute((curve[i] - curve[i - 1]) * n - (x - AxisX[i - 1]) * rise) = 0
          BY <3>5 DEF Absolute
        <4>3. AxisX[i - 1] <= x /\ x <= AxisX[i]
          BY <2>5, <3>2
        <4> HIDE DEF i
        <4> QED
          BY <3>1, <3>6, <4>1, <4>2, <4>3 DEF IsOnCurve
      <3> QED
        BY <2>3, <2>5, <3>3, <3>7 DEF CurveTypeOK
    <2>6. CASE ~exact
      BY <2>2, <2>3, <2>4, <2>6 DEF CurveTypeOK
    <2> QED
      BY <2>5, <2>6
  <1> QED
    BY <1>2, <1>3

\* What a lookup returns, and what it leaves behind.
LEMMA CurveLookupStep ==
  ASSUME CurveInv, NEW x \in Inputs, GetValue(x)
  PROVE  /\ CurveInv'
         /\ \E c \in recent.now \cup recent.before : IsOnCurve(kept'.output, c, x)
  <1>1. looked' = TRUE /\ curve' = curve /\ secl' = secl /\ recent' = recent
    BY DEF GetValue
  <1>2. CASE GetKept(x)
    <2>1. kept.input = x /\ kept.time = secl /\ kept' = kept /\ lastBins' = lastBins
      BY <1>2 DEF GetKept, IsKept
    <2>2. OnOneOf(recent.now) \/ OnOneOf(recent.before)
      BY <2>1 DEF CurveInv, KeptExpires
    <2>3. CurveTypeOK'
      BY <1>1, <2>1 DEF CurveInv, CurveTypeOK
    <2>4. KeptExpires'
      BY <1>1, <2>1, <2>2 DEF KeptExpires, OnOneOf, IsOnCurve
    <2> QED
      BY <2>1, <2>2, <2>3, <2>4 DEF CurveInv, OnOneOf
  <1>3. CASE GetEnd(x) \/ GetBetween(x)
    <2>1. CurveTypeOK /\ curve \in recent.now
      BY DEF CurveInv, CurveTypeOK
    <2>2. CurveTypeOK'
      BY <1>1, <1>3, <2>1, FreshIsOnCurve DEF CurveTypeOK
    <2>3. kept'.input = x /\ IsOnCurve(kept'.output, curve, x)
      BY <1>3, <2>1, FreshIsOnCurve
    <2>4. OnOneOf(recent.now)'
      BY <1>1, <2>1, <2>3 DEF OnOneOf, IsOnCurve
    <2> QED
      BY <1>1, <2>1, <2>2, <2>3, <2>4 DEF CurveInv, KeptExpires
  <1> QED
    BY <1>2, <1>3 DEF GetValue

LEMMA TuneCurveStep ==
  ASSUME CurveInv, NEW bin \in TunedBins, NEW value \in CurveValues, TuneCurve(bin, value)
  PROVE  CurveInv'
  <1>1. /\ curve' = [curve EXCEPT ![bin] = value]
        /\ recent' = [recent EXCEPT !.now = @ \cup {curve'}]
        /\ lastBins' = lastBins /\ kept' = kept /\ secl' = secl /\ looked' = looked
    BY DEF TuneCurve
  <1>2. curve' \in [0 .. LastBin -> CurveRange]
    BY <1>1, CurveAssumption DEF CurveInv, CurveTypeOK
  <1>3. recent'.now = recent.now \cup {curve'} /\ recent'.before = recent.before
    BY <1>1
  <1>4. CurveTypeOK'
    BY <1>1, <1>2, <1>3 DEF CurveInv, CurveTypeOK
  <1>5. KeptExpires'
    BY <1>1, <1>3 DEF CurveInv, KeptExpires, OnOneOf, IsOnCurve
  <1> QED
    BY <1>4, <1>5 DEF CurveInv

LEMMA SecondStep ==
  ASSUME CurveInv, NextSecond
  PROVE  CurveInv'
  <1>1. /\ looked /\ looked' = FALSE /\ secl' = (secl + 1) % SeclSize
        /\ recent'.now = {curve} /\ recent'.before = recent.now
        /\ recent' = [now |-> {curve}, before |-> recent.now]
        /\ lastBins' = lastBins /\ kept' = kept /\ curve' = curve
    BY DEF NextSecond
  <1>2. secl' \in 0 .. SeclSize - 1 /\ secl' # secl /\ (secl = 0 => secl' = 1)
    BY <1>1, SecondsAssumption DEF CurveInv, CurveTypeOK
  <1>3. CurveTypeOK'
    BY <1>1, <1>2 DEF CurveInv, CurveTypeOK
  <1>4. OnOneOf(recent.now) => OnOneOf(recent.before)'
    BY <1>1 DEF OnOneOf, IsOnCurve
  <1>5. OnOneOf(recent.now) \/ kept'.time # secl'
    BY <1>1, <1>2 DEF CurveInv, KeptExpires
  <1> QED
    BY <1>1, <1>3, <1>4, <1>5 DEF CurveInv, KeptExpires

LEMMA SetBackStep ==
  ASSUME CurveInv, SetBack
  PROVE  CurveInv'
  <1>1. /\ looked /\ secl > 1 /\ secl' = 0
        /\ UNCHANGED <<curve, lastBins, kept, looked, recent>>
    BY DEF SetBack
  <1>2. CurveTypeOK'
    BY <1>1, SecondsAssumption DEF CurveInv, CurveTypeOK
  <1>3. KeptExpires'
    BY <1>1 DEF CurveInv, KeptExpires, OnOneOf, IsOnCurve
  <1> QED
    BY <1>2, <1>3 DEF CurveInv

LEMMA CurveStep == CurveInv /\ [CurveNext]_curveVars => CurveInv'
  <1> SUFFICES ASSUME CurveInv, [CurveNext]_curveVars PROVE CurveInv'
    OBVIOUS
  <1>1. CASE UNCHANGED curveVars
    BY <1>1 DEF CurveInv, CurveTypeOK, KeptExpires, OnOneOf, IsOnCurve, curveVars
  <1>2. CASE CurveNext
    BY <1>2, CurveLookupStep, TuneCurveStep, SecondStep, SetBackStep DEF CurveNext
  <1> QED
    BY <1>1, <1>2

\* table2D_getValue() returns a value on a curve there was in this second or the
\* one before, for every curve, every sequence of lookups, writes, seconds and
\* connections, if nothing asks for 0: in the first second that finds the zeros of
\* static storage and returns them.
THEOREM ValuesAreRecent == 0 \notin Inputs => (CurveSpec => ValueIsOnRecentCurve)
  <1>1. ASSUME CurveInv, [CurveNext]_curveVars
        PROVE  [\A x \in Inputs : GetValue(x) =>
                  \E c \in recent.now \cup recent.before :
                     IsOnCurve(kept'.output, c, x)]_curveVars
    BY <1>1, CurveLookupStep
  <1> QED
    BY <1>1, CurveInitInv, CurveStep, PTL DEF CurveSpec, ValueIsOnRecentCurve

(***************************************************************************)
(* The enrichment of an acceleration lasts its time, but for the ones that *)
(* the wrap of the clock cuts short or prolongs                            *)
(***************************************************************************)
Count == 0 .. ClockSize - 1

AccelTypeOK ==
    /\ micros \in Count
    /\ accel \in [on : BOOLEAN, AEEndTime : Count, AEamount : Nat]
    /\ waiting \in 0 .. LoopTicks
    /\ history \in [lasted : Nat, wraps : BOOLEAN]

\* The clock when an enrichment began, as its end and its age tell.
Began == accel.AEEndTime - aeTime + history.lasted

\* The clock is on its way to the end, which the round after it will notice.
Counting == micros = Began /\ history.lasted <= aeTime + waiting

\* The end is beyond the wrap and the clock is not: the next round ends it.
BeforeWrap == history.wraps /\ micros = Began + ClockSize /\ history.lasted <= waiting

\* The clock has wrapped between the end and the round after it.
Missed == LateInTheClock /\ history.lasted >= aeTime

\* The inductive invariant.
AccelInv == AccelTypeOK /\ (accel.on => Counting \/ BeforeWrap \/ Missed)

\* A sum of two counts has wrapped at most once.
LEMMA WrapsOnce ==
    ASSUME NEW a \in Count, NEW b \in Count
    PROVE  (a + b) % ClockSize = IF a + b < ClockSize THEN a + b ELSE a + b - ClockSize
<1> DEFINE sum == a + b
<1>1. ClockSize \in Nat /\ ClockSize > 0 BY AccelAssumption
<1>2. sum \in Int /\ 0 <= sum /\ sum < 2 * ClockSize BY <1>1 DEF Count
<1> HIDE DEF sum
<1>3. /\ sum = ClockSize * (sum \div ClockSize) + (sum % ClockSize)
      /\ sum % ClockSize \in Count
      /\ sum \div ClockSize \in Int
    BY <1>1, <1>2, SMTT(20) DEF Count
<1>4. sum % ClockSize = IF sum < ClockSize THEN sum ELSE sum - ClockSize
    BY <1>1, <1>2, <1>3, SMTT(20) DEF Count
<1> QED BY <1>1, <1>4 DEF sum, Count

\* No enrichment has begun at first.
LEMMA InitAccel == ASSUME AccelInit PROVE AccelInv
<1>1. accel = [on |-> FALSE, AEEndTime |-> 0, AEamount |-> 100] BY DEF AccelInit
<1> QED BY <1>1, AccelAssumption DEF AccelInit, AccelInv, AccelTypeOK, Count

\* An enrichment begins counting, or before the wrap.
LEMMA StartKeeps ==
    ASSUME AccelInv, StartEnrichment, waiting' = 0, micros' = micros
    PROVE  AccelInv'
<1>1. PICK amount \in Amounts :
          accel' = [on |-> TRUE, AEEndTime |-> EndTime, AEamount |-> 100 + amount]
    BY DEF StartEnrichment
<1>2. history' = [lasted |-> 0, wraps |-> EndTime < micros] BY DEF StartEnrichment
<1>3. EndTime = IF micros + aeTime < ClockSize THEN micros + aeTime
                ELSE micros + aeTime - ClockSize
    <2>1. micros \in Count /\ aeTime \in Count
        BY AccelAssumption DEF AccelInv, AccelTypeOK, Count
    <2> QED BY <2>1, WrapsOnce DEF EndTime
<1>4. AccelTypeOK'
    <2>1. EndTime \in Count BY <1>3, AccelAssumption DEF AccelInv, AccelTypeOK, Count
    <2>2. 100 + amount \in Nat BY AccelAssumption
    <2> QED BY <1>1, <1>2, <2>1, <2>2, AccelAssumption DEF AccelInv, AccelTypeOK
<1>5. Counting' \/ BeforeWrap'
    <2>1. /\ accel'.AEEndTime = EndTime /\ history'.lasted = 0
          /\ history'.wraps = (EndTime < micros)
        BY <1>1, <1>2
    <2>2. micros \in Count /\ aeTime \in Nat /\ ClockSize \in Nat /\ aeTime < ClockSize
        BY AccelAssumption DEF AccelInv, AccelTypeOK
    <2>3. CASE micros + aeTime < ClockSize
        BY <1>3, <2>1, <2>2, <2>3 DEF Counting, Began, Count
    <2>4. CASE ~(micros + aeTime < ClockSize)
        <3>1. EndTime < micros BY <1>3, <2>2, <2>4 DEF Count
        <3>2. history'.wraps BY <2>1, <3>1, Zenon
        <3>3. micros' = Began' + ClockSize
            BY <1>3, <2>1, <2>2, <2>4 DEF Began, Count
        <3>4. history'.lasted <= waiting' BY <2>1
        <3> QED BY <3>2, <3>3, <3>4 DEF BeforeWrap
    <2> QED BY <2>3, <2>4
<1> QED BY <1>4, <1>5 DEF AccelInv

\* A round that leaves an enrichment on has come before its end.
LEMMA KeepKeeps ==
    ASSUME AccelInv, KeepEnrichment, waiting' = 0, micros' = micros
    PROVE  AccelInv'
<1>1. accel' = accel /\ history' = history /\ accel.on /\ ~(micros >= accel.AEEndTime)
    BY DEF KeepEnrichment, HasEnded
<1>2. AccelTypeOK' BY <1>1, AccelAssumption DEF AccelInv, AccelTypeOK
<1>3. Counting \/ BeforeWrap \/ Missed BY <1>1 DEF AccelInv
<1>4. ~BeforeWrap
    BY <1>1, AccelAssumption DEF BeforeWrap, Began, AccelInv, AccelTypeOK, Count
<1>5. ASSUME Counting PROVE Counting'
    BY <1>1, <1>5, AccelAssumption DEF Counting, Began, AccelInv, AccelTypeOK, Count
<1>6. ASSUME Missed PROVE Missed' BY <1>1, <1>6 DEF Missed, LateInTheClock
<1> QED BY <1>2, <1>3, <1>4, <1>5, <1>6 DEF AccelInv

\* The clock goes on, or wraps.
LEMMA TickKeeps == ASSUME AccelInv, ClockTick PROVE AccelInv'
<1>1. /\ accel' = accel /\ waiting' = waiting + 1 /\ waiting < LoopTicks
      /\ history' = [history EXCEPT !.lasted = OneMore(@)]
    BY DEF ClockTick
<1>2. micros' = IF micros + 1 < ClockSize THEN micros + 1 ELSE micros + 1 - ClockSize
    <2>1. micros \in Count /\ 1 \in Count
        BY AccelAssumption DEF AccelInv, AccelTypeOK, Count
    <2> QED BY <2>1, WrapsOnce DEF ClockTick
<1>3. /\ history'.lasted = OneMore(history.lasted) /\ history'.wraps = history.wraps
      /\ history' \in [lasted : Nat, wraps : BOOLEAN]
    BY <1>1, AccelAssumption DEF OneMore, AccelInv, AccelTypeOK
<1>4. AccelTypeOK'
    BY <1>1, <1>2, <1>3, AccelAssumption DEF AccelInv, AccelTypeOK, Count
<1>5. ASSUME accel'.on PROVE Counting' \/ BeforeWrap' \/ Missed'
    <2>1. Counting \/ BeforeWrap \/ Missed BY <1>1, <1>5 DEF AccelInv
    <2>2. CASE Missed
        BY <1>1, <1>3, <1>5, <2>2, AccelAssumption
        DEF Missed, LateInTheClock, OneMore, AccelInv, AccelTypeOK
    <2>3. CASE ~Missed
        <3>1. history'.lasted = history.lasted + 1
            BY <1>1, <1>3, <1>5, <2>1, <2>3, AccelAssumption
            DEF OneMore, Counting, BeforeWrap, AccelInv, AccelTypeOK
        <3>2. CASE Counting
            BY <1>1, <1>2, <1>3, <3>1, <3>2, AccelAssumption
            DEF Counting, Missed, LateInTheClock, Began, AccelInv, AccelTypeOK, Count
        <3>3. CASE BeforeWrap
            BY <1>1, <1>2, <1>3, <3>1, <3>3, AccelAssumption
            DEF BeforeWrap, Counting, Began, AccelInv, AccelTypeOK, Count
        <3> QED BY <2>1, <2>3, <3>2, <3>3
    <2> QED BY <2>2, <2>3
<1> QED BY <1>4, <1>5 DEF AccelInv

\* Every step keeps the invariant.
LEMMA StepKeeps == ASSUME AccelInv, [AccelNext]_accelVars PROVE AccelInv'
<1>1. CASE correctionAccel
    <2>1. CASE StartEnrichment BY <1>1, <2>1, StartKeeps DEF correctionAccel
    <2>2. CASE KeepEnrichment BY <1>1, <2>2, KeepKeeps DEF correctionAccel
    <2>3. CASE NoEnrichment
        <3>1. /\ accel' = [accel EXCEPT !.on = FALSE, !.AEamount = 100]
              /\ history' = history /\ micros' = micros /\ waiting' = 0
            BY <1>1, <2>3 DEF correctionAccel, NoEnrichment
        <3>2. ~accel'.on /\ accel' \in [on : BOOLEAN, AEEndTime : Count, AEamount : Nat]
            BY <3>1 DEF AccelInv, AccelTypeOK
        <3> QED BY <3>1, <3>2, AccelAssumption DEF AccelInv, AccelTypeOK
    <2> QED BY <1>1, <2>1, <2>2, <2>3 DEF correctionAccel
<1>2. CASE readTPS
    BY <1>2 DEF readTPS, AccelInv, AccelTypeOK, Counting, BeforeWrap, Missed, Began,
                LateInTheClock
<1>3. CASE ClockTick BY <1>3, TickKeeps
<1>4. CASE UNCHANGED accelVars
    BY <1>4 DEF accelVars, AccelInv, AccelTypeOK, Counting, BeforeWrap, Missed, Began,
                LateInTheClock
<1> QED BY <1>1, <1>2, <1>3, <1>4 DEF AccelNext

\* What a step may do to an enrichment: the action of EnrichmentLastsItsTime.
LastsItsTime ==
    /\ accel.on /\ ~accel'.on => history.lasted >= aeTime \/ history.wraps
    /\ accel'.on => history'.lasted <= aeTime + LoopTicks \/ LateInTheClock

LEMMA StepLasts == ASSUME AccelInv, AccelInv', [AccelNext]_accelVars PROVE LastsItsTime
<1>1. ASSUME accel.on, ~accel'.on PROVE history.lasted >= aeTime \/ history.wraps
    <2>1. NoEnrichment
        BY <1>1 DEF AccelNext, accelVars, correctionAccel, StartEnrichment, KeepEnrichment,
                    readTPS, ClockTick
    <2>2. micros >= accel.AEEndTime BY <1>1, <2>1 DEF NoEnrichment, HasEnded
    <2> QED BY <1>1, <2>2, AccelAssumption
            DEF AccelInv, AccelTypeOK, Counting, BeforeWrap, Missed, Began, Count
<1>2. ASSUME accel'.on PROVE history'.lasted <= aeTime + LoopTicks \/ LateInTheClock
    <2>1. Counting' \/ BeforeWrap' \/ Missed' BY <1>2 DEF AccelInv
    <2>2. waiting' \in 0 .. LoopTicks /\ history'.lasted \in Nat
        BY DEF AccelInv, AccelTypeOK
    <2>3. CASE Counting' \/ BeforeWrap'
        BY <2>2, <2>3, AccelAssumption DEF Counting, BeforeWrap
    <2>4. CASE Missed'
        <3>1. CASE StartEnrichment
            BY <3>1, <2>2, AccelAssumption DEF StartEnrichment
        <3>2. CASE ~StartEnrichment
            <4>1. accel' = accel
                BY <1>2, <3>2 DEF AccelNext, accelVars, correctionAccel, KeepEnrichment,
                    NoEnrichment, readTPS, ClockTick, AccelInv, AccelTypeOK
            <4> QED BY <2>4, <4>1 DEF Missed, LateInTheClock
        <3> QED BY <3>1, <3>2
    <2> QED BY <2>1, <2>3, <2>4
<1> QED BY <1>1, <1>2 DEF LastsItsTime

\* An enrichment is not ended before its time, unless its end was beyond the
\* wrap of the clock, and goes on for no more than a round after it, unless
\* the wrap came in that round (correctionAccel()).
THEOREM EnrichmentsLast == AccelSpec => EnrichmentLastsItsTime
<1>1. AccelInit => AccelInv BY InitAccel
<1>2. AccelInv /\ [AccelNext]_accelVars => AccelInv' BY StepKeeps
<1>3. AccelInv /\ AccelInv' /\ [AccelNext]_accelVars => [LastsItsTime]_accelVars
    BY StepLasts
<1>4. AccelSpec => [][LastsItsTime]_accelVars BY <1>1, <1>2, <1>3, PTL DEF AccelSpec
<1> QED BY <1>4 DEF EnrichmentLastsItsTime, LastsItsTime
=============================================================================
