----------------------------- MODULE PageLayout -----------------------------
(***************************************************************************)
(* The pages of settings as the tuning software sees them, and the tables  *)
(* and structures of the firmware they are views of.  receiveValue() lays  *)
(* out what is written, getPageValue() and sendPage() what is read; each   *)
(* has arithmetic of its own.  A cell is a place in memory: a byte of a    *)
(* structure, a value of a table, or an entry of one of its axes, where    *)
(* numbers are kept multiplied.                                            *)
(***************************************************************************)
EXTENDS Integers, Sequences, FiniteSets, TLC

TABLE_RPM_MULTIPLIER == 100
TABLE_LOAD_MULTIPLIER == 2

veSetPage == 1
veMapPage == 2
ignMapPage == 3
ignSetPage == 4
afrMapPage == 5
afrSetPage == 6
boostvvtPage == 7
seqFuelPage == 8
canbusPage == 9
warmupPage == 10
fuelMap2Page == 11

Pages == 1..11

npage_size == <<128, 288, 288, 128, 288, 128, 240, 192, 192, 192, 288>>

MapTable == (veMapPage :> "fuelTable") @@ (ignMapPage :> "ignitionTable") @@
            (afrMapPage :> "afrTable") @@ (fuelMap2Page :> "fuelTable2")

\* isMap as the command P sets it.
IsMapPage(page) == page \in DOMAIN MapTable

ConfigPage == (veSetPage :> "configPage2") @@ (ignSetPage :> "configPage4") @@
              (afrSetPage :> "configPage6") @@ (canbusPage :> "configPage9") @@
              (warmupPage :> "configPage10")

\* The tables of 8 by 8 and of 6 by 6 in the order of their pages.
SmallTables == (boostvvtPage :> <<"boostTable", "vvtTable", "stagingTable">>) @@
               (seqFuelPage :> <<"trim1Table", "trim2Table", "trim3Table", "trim4Table">>)

TableSize(t) ==
    CASE t \in {"boostTable", "vvtTable", "stagingTable"} -> 8
      [] t \in {"trim1Table", "trim2Table", "trim3Table", "trim4Table"} -> 6
      [] OTHER -> 16

\* Boost and VVT have the throttle on the Y axis, which is not multiplied.
LoadFactor(t) == IF t \in {"boostTable", "vvtTable"} THEN 1 ELSE TABLE_LOAD_MULTIPLIER

----------------------------------------------------------------------------
(* The places: rows are stored from the top, the software counts them from *)
(* the bottom.                                                              *)

ValueCell(t, a) == <<t, "values", TableSize(t) - 1 - a \div TableSize(t), a % TableSize(t)>>

AxisXCell(t, a) == <<t, "axisX", a, 0>>

AxisYCell(t, a) == <<t, "axisY", TableSize(t) - 1 - a, 0>>

ConfigCell(page, a) == <<ConfigPage[page], "byte", a, 0>>

\* What a byte of the software is multiplied by in the cell.
Factor(cell) ==
    CASE cell[2] = "axisX" -> TABLE_RPM_MULTIPLIER
      [] cell[2] = "axisY" -> LoadFactor(cell[1])
      [] OTHER -> 1

----------------------------------------------------------------------------
(* receiveValue(): the offsets of a page fall in regions, each of one part  *)
(* of a table.                                                              *)

Region(below, from, table, part) ==
    [below |-> below, from |-> from, table |-> table, part |-> part]

MapRegions(t, end) ==
    <<Region(256, 0, t, "values"), Region(272, 256, t, "axisX"), Region(end, 272, t, "axisY")>>

ReceivedRegions ==
    (veMapPage :> MapRegions("fuelTable", 288)) @@
    (ignMapPage :> MapRegions("ignitionTable", 288)) @@
    (afrMapPage :> MapRegions("afrTable", 65536)) @@
    (fuelMap2Page :> MapRegions("fuelTable2", 288)) @@
    (boostvvtPage :> <<
        Region(64, 0, "boostTable", "values"), Region(72, 64, "boostTable", "axisX"),
        Region(80, 72, "boostTable", "axisY"),
        Region(144, 80, "vvtTable", "values"), Region(152, 144, "vvtTable", "axisX"),
        Region(160, 152, "vvtTable", "axisY"),
        Region(224, 160, "stagingTable", "values"), Region(232, 224, "stagingTable", "axisX"),
        Region(240, 232, "stagingTable", "axisY")>>) @@
    (seqFuelPage :> <<
        Region(36, 0, "trim1Table", "values"), Region(42, 36, "trim1Table", "axisX"),
        Region(48, 42, "trim1Table", "axisY"),
        Region(84, 48, "trim2Table", "values"), Region(90, 84, "trim2Table", "axisX"),
        Region(96, 90, "trim2Table", "axisY"),
        Region(132, 96, "trim3Table", "values"), Region(138, 132, "trim3Table", "axisX"),
        Region(144, 138, "trim3Table", "axisY"),
        Region(180, 144, "trim4Table", "values"), Region(186, 180, "trim4Table", "axisX"),
        Region(192, 186, "trim4Table", "axisY")>>)

PartCell(t, part, a) ==
    CASE part = "values" -> ValueCell(t, a)
      [] part = "axisX" -> AxisXCell(t, a)
      [] part = "axisY" -> AxisYCell(t, a)

\* Mutant: the columns of the trim tables are counted from the page's start.
TrimsFromStart(page, offset) ==
    LET regions == ReceivedRegions[page]
        within == {i \in DOMAIN regions : offset < regions[i].below}
        r == regions[CHOOSE i \in within : \A j \in within : i <= j]
    IN  IF within = {} THEN {}
        ELSE {PartCell(r.table, r.part,
                       IF page = seqFuelPage /\ r.part = "values" THEN offset % 36
                       ELSE offset - r.from)}

\* The first region that ends beyond the offset.
TableCells(page, offset) ==
    LET regions == ReceivedRegions[page]
        within == {i \in DOMAIN regions : offset < regions[i].below}
        r == regions[CHOOSE i \in within : \A j \in within : i <= j]
    IN  IF within = {} THEN {} ELSE {PartCell(r.table, r.part, offset - r.from)}

\* The cell that receiveValue() writes, if any.
ReceivedCells(page, offset) ==
    CASE page \in DOMAIN ConfigPage ->
            IF offset < npage_size[page] THEN {ConfigCell(page, offset % 256)} ELSE {}
      [] page \in DOMAIN ReceivedRegions -> TableCells(page, offset)
      [] OTHER -> {}

----------------------------------------------------------------------------
(* getPageValue(): first the table, then the part of it.                    *)

AddressedCells(t, a) ==
    LET n == TableSize(t)
    IN  CASE a < n * n -> {ValueCell(t, a)}
          [] a >= n * n /\ a < n * n + n -> {AxisXCell(t, a - n * n)}
          [] a >= n * n + n /\ a < n * n + 2 * n -> {AxisYCell(t, a - (n * n + n))}
          [] a >= n * n + 2 * n -> {}

SmallTableCells(page, a) ==
    LET tables == SmallTables[page]
        size == npage_size[page] \div Len(tables)
        last == Len(tables) - 1
        i == IF a \div size > last THEN last ELSE a \div size
    IN  AddressedCells(tables[i + 1], a - i * size)

\* The cell getPageValue() reads; 0 is returned where there is none.
ReadCells(page, a) ==
    CASE page \in DOMAIN MapTable -> AddressedCells(MapTable[page], a)
      [] page \in DOMAIN ConfigPage -> {ConfigCell(page, a)}
      [] page \in DOMAIN SmallTables -> SmallTableCells(page, a)
      [] OTHER -> {}

\* The cells sendPage() sends, one after the other; it goes by isMap for the
\* pages that are a map or a structure.
SentCells(page, isMap) ==
    CASE page \in DOMAIN SmallTables ->
            [a \in 1..npage_size[page] |-> SmallTableCells(page, a - 1)]
      [] page \in DOMAIN ConfigPage /\ ~isMap ->
            [a \in 1..npage_size[page] |-> {ConfigCell(page, a - 1)}]
      [] page \in DOMAIN MapTable /\ isMap ->
            [a \in 1..288 |-> AddressedCells(MapTable[page], a - 1)]
      [] OTHER -> <<>>

----------------------------------------------------------------------------
(* The memory: what the cells that were written hold; the others hold 0.    *)

Held(ram, cells) ==
    IF \E c \in cells : c \in DOMAIN ram THEN ram[CHOOSE c \in cells : TRUE] ELSE 0

\* A byte as the software reads it.
ByteAt(ram, cells) ==
    IF cells = {} THEN 0
    ELSE (Held(ram, cells) \div Factor(CHOOSE c \in cells : TRUE)) % 256

receiveValue(ram, page, offset, newValue) ==
    [c \in ReceivedCells(page, offset) |-> newValue * Factor(c)] @@ ram

getPageValue(ram, page, a) == ByteAt(ram, ReadCells(page, a))

sendPage(ram, page, isMap) ==
    LET cells == SentCells(page, isMap)
    IN  [a \in DOMAIN cells |-> ByteAt(ram, cells[a])]
=============================================================================
