------------------------------ MODULE Storage ------------------------------
(***************************************************************************)
(* The settings and where they are kept (storage.ino, updates.ino): pages  *)
(* in RAM, which the tuning software changes byte by byte, and their       *)
(* copies in the EEPROM, which are written when it asks for a burn.        *)
(*                                                                         *)
(* Writing a byte takes the EEPROM milliseconds, so that writeConfig()     *)
(* stops after a block of them and leaves the rest to the main loop, which *)
(* goes on four times a second while eepromWritesPending.  At start the    *)
(* pages are loaded, and settings that an older firmware has saved are     *)
(* converted version by version.  Power may fail between any two bytes.    *)
(*                                                                         *)
(* Where a page lies in the EEPROM, and how its axes are scaled there, is  *)
(* left out: byte i of a page is byte i of its copy.                       *)
(***************************************************************************)
EXTENDS Naturals, Sequences, FiniteSets

CONSTANTS
    Page,
    Order,          \* how early writeAllConfig() writes each page
    Layout,         \* how writeConfig() writes each page, byte by byte
    EEPROM_MAX_WRITE_BLOCK,
    CURRENT_DATA_VERSION,
    Update,         \* what doUpdates() does to settings of an older version
    InitialVersions,    \* the versions that the EEPROM may hold at first
    Filter,         \* a byte of ignSetPage that initialiseADC() checks
    Address,        \* the byte that doUpdates() sets on a new board only
    Tunings,        \* what the tuning software may change: page, byte, value
    HostWaits       \* whether it burns a page only when no writes are pending

(***************************************************************************)
(* guard: the byte before which writeCounter was last looked at, which is  *)
(* the first byte of a step of a loop (of one byte, or of one from each of *)
(* several tables), or 0 if it was not.                                    *)
(* counts: whether writing the byte increments writeCounter: when it is    *)
(* "changed"; "always", as the sizes of fuelTable2 do; or "never", as the  *)
(* axes that are written with EEPROM.update().                             *)
(***************************************************************************)
LayoutEntry == [guard : Nat, counts : {"changed", "always", "never"}]

Byte == {c \in Page \X Nat : c[2] \in DOMAIN Layout[c[1]]}

\* Some updates convert settings, by adding to them or by setting them; others
\* move the pages in the EEPROM.
UpdateStep ==
    [kind : {"adds", "sets"}, converts : SUBSET Byte]
        \cup [kind : {"moves"}, converts : {{}}]

\* What doUpdates() takes for a board that was never used.
New == {0, 255}

ASSUME PageAssumption ==
    /\ IsFiniteSet(Page)
    /\ Order \in [Page -> Nat]
    /\ \A p, q \in Page : Order[p] = Order[q] => p = q
    /\ Layout \in [Page -> Seq(LayoutEntry)]
    /\ \A p \in Page : \A i \in DOMAIN Layout[p] : Layout[p][i].guard <= i
ASSUME BlockAssumption == EEPROM_MAX_WRITE_BLOCK \in Nat
ASSUME VersionAssumption ==
    /\ CURRENT_DATA_VERSION \in Nat
    /\ DOMAIN Update \subseteq 1 .. CURRENT_DATA_VERSION - 1
    /\ \A v \in DOMAIN Update : Update[v] \in UpdateStep
    /\ \A v \in DOMAIN Update : v + 1 \in DOMAIN Update \cup {CURRENT_DATA_VERSION}
    /\ InitialVersions \subseteq Nat
    /\ \A v \in InitialVersions :
          v \in DOMAIN Update \cup New \/ v >= CURRENT_DATA_VERSION
    /\ {Filter, Address} \subseteq Byte
ASSUME HostAssumption ==
    /\ Tunings \subseteq Byte \X (Nat \ {0})
    /\ HostWaits \in BOOLEAN

VARIABLES
    ram, eeprom,    \* the pages, and their copies
    version,        \* the byte EEPROM_DATA_VERSION
    eepromWritesPending,
    pc,             \* where the main program is: in doUpdates(), then in
                    \* initialiseADC(), then in its loop
    asked,          \* history: the pages burnt and not changed since
    cutOff          \* history: power failed with writes pending

vars == <<ram, eeprom, version, eepromWritesPending, pc, asked, cutOff>>

Bytes(p) == DOMAIN Layout[p]

\* A byte is Old if it is not what this firmware can use: in an older format, or
\* never set.  One that has been added to again and again is Twice.
Old == 0
Twice == 2

\* What the EEPROM holds at first: the bytes that updates will convert are Old.
InitialImage(v) ==
    [p \in Page |-> [i \in Bytes(p) |->
        IF IF v \in New
           THEN <<p, i>> \in {Filter, Address}
           ELSE \E u \in DOMAIN Update : u >= v /\ <<p, i>> \in Update[u].converts
        THEN Old ELSE 1]]

Init ==
    /\ version \in InitialVersions
    /\ eeprom = InitialImage(version)
    /\ ram = eeprom
    /\ eepromWritesPending = FALSE
    /\ pc = "update"
    /\ asked = {}
    /\ cutOff = FALSE

-----------------------------------------------------------------------------
(***************************************************************************)
(* writeConfig(), with the pages r in RAM.                                 *)
(***************************************************************************)

\* Mutant of Counts: a byte that is the same is counted as well.
CountsUnchanged(r, p, i) == Layout[p][i].counts # "never"

Counts(r, p, i) ==
    \/ Layout[p][i].counts = "always"
    \/ Layout[p][i].counts = "changed" /\ r[p][i] # eeprom[p][i]

\* The value of writeCounter before byte i.
WriteCounter(r, p, i) == Cardinality({j \in Bytes(p) : j < i /\ Counts(r, p, j)})

Reached(r, p, i) ==
    WriteCounter(r, p, Layout[p][i].guard) <= EEPROM_MAX_WRITE_BLOCK

\* The copy of page p when the writing has come as far as byte n.
Written(r, p, n) ==
    [i \in Bytes(p) |->
        IF i <= n /\ Reached(r, p, i) THEN r[p][i] ELSE eeprom[p][i]]

\* Mutant of Over: one write too many is taken for the last one.
OverByTwo(r, p) ==
    WriteCounter(r, p, Len(Layout[p]) + 1) > EEPROM_MAX_WRITE_BLOCK + 1

\* There is more to write than a block.
Over(r, p) == WriteCounter(r, p, Len(Layout[p]) + 1) > EEPROM_MAX_WRITE_BLOCK

WriteConfig(r, p) ==
    /\ eeprom' = [eeprom EXCEPT ![p] = Written(r, p, Len(Layout[p]))]
    /\ eepromWritesPending' = Over(r, p)

\* writeAllConfig() goes on to the next page if nothing is left of the last.
Visited(r, p) == \A q \in Page : Order[q] < Order[p] => ~Over(r, q)

WriteAllConfig(r) ==
    /\ eeprom' = [p \in Page |-> IF Visited(r, p)
                                 THEN Written(r, p, Len(Layout[p]))
                                 ELSE eeprom[p]]
    /\ eepromWritesPending' = \E p \in Page : Over(r, p)

\* Power fails when writeAllConfig() has come as far as byte n of page p.
WritePartOfAll(r, p, n) ==
    /\ Visited(r, p)
    /\ eeprom' = [q \in Page |->
                    CASE Order[q] < Order[p] -> Written(r, q, Len(Layout[q]))
                      [] q = p               -> Written(r, p, n)
                      [] Order[q] > Order[p] -> eeprom[q]]

-----------------------------------------------------------------------------
(***************************************************************************)
(* The tuning software: receiveValue(), and the commands b and B.          *)
(***************************************************************************)
ReceiveValue(p, i, value) ==
    /\ pc = "run" /\ ram[p][i] # value
    /\ ram' = [ram EXCEPT ![p][i] = value]
    /\ asked' = asked \ {p}
    /\ UNCHANGED <<eeprom, version, eepromWritesPending, pc, cutOff>>

MayBurnPage == pc = "run" /\ (HostWaits => ~eepromWritesPending)

BurnPage(p) ==
    /\ MayBurnPage
    /\ WriteConfig(ram, p)
    /\ asked' = asked \cup {p}
    /\ UNCHANGED <<ram, version, pc, cutOff>>

BurnAll ==
    /\ pc = "run"
    /\ WriteAllConfig(ram)
    /\ asked' = Page
    /\ UNCHANGED <<ram, version, pc, cutOff>>

\* The main loop, four times a second.
ContinueBurn ==
    /\ pc = "run" /\ eepromWritesPending
    /\ WriteAllConfig(ram)
    /\ UNCHANGED <<ram, version, pc, asked, cutOff>>

-----------------------------------------------------------------------------
(***************************************************************************)
(* doUpdates(), after loadConfig().  A conversion changes the pages in RAM *)
(* and calls writeAllConfig() once; a move changes the EEPROM and loads    *)
(* the pages again.  The version is stored last.  A new board gets no      *)
(* conversion, but its address, which is not saved.                       *)
(***************************************************************************)
Converted(v) ==
    [p \in Page |-> [i \in Bytes(p) |->
        IF <<p, i>> \notin Update[v].converts THEN ram[p][i]
        ELSE IF Update[v].kind = "adds" /\ ram[p][i] # Old THEN Twice ELSE 1]]

Updating == pc = "update" /\ version \in DOMAIN Update

\* Mutant of ConvertSettings: the version is stored, the settings are not.
ConvertSettingsInRam ==
    /\ Updating /\ Update[version].kind # "moves"
    /\ ram' = Converted(version)
    /\ version' = version + 1
    /\ UNCHANGED <<eeprom, eepromWritesPending, pc, asked, cutOff>>

ConvertSettings ==
    /\ Updating /\ Update[version].kind # "moves"
    /\ ram' = Converted(version)
    /\ WriteAllConfig(Converted(version))
    /\ version' = version + 1
    /\ UNCHANGED <<pc, asked, cutOff>>

MoveSettings ==
    /\ Updating /\ Update[version].kind = "moves"
    /\ ram' = eeprom
    /\ version' = version + 1
    /\ UNCHANGED <<eeprom, eepromWritesPending, pc, asked, cutOff>>

SetAddress == [ram EXCEPT ![Address[1]][Address[2]] = 1]

\* A new EEPROM, and one that a newer firmware has written, get this version.
FinishUpdates ==
    /\ pc = "update" /\ version \notin DOMAIN Update
    /\ ram' = IF version \in New THEN SetAddress ELSE ram
    /\ version' = IF version \in New \/ version > CURRENT_DATA_VERSION
                  THEN CURRENT_DATA_VERSION ELSE version
    /\ pc' = "adc"
    /\ UNCHANGED <<eeprom, eepromWritesPending, asked, cutOff>>

\* initialiseADC() gives a filter value that is out of range its default, and
\* writes the page.
InitialiseADC ==
    /\ pc = "adc"
    /\ pc' = "run"
    /\ LET p == Filter[1]
           i == Filter[2]
           r == [ram EXCEPT ![p][i] = 1]
       IN  IF ram[p][i] = Old
           THEN ram' = r /\ WriteConfig(r, p)
           ELSE UNCHANGED <<ram, eeprom, eepromWritesPending>>
    /\ UNCHANGED <<version, asked, cutOff>>

-----------------------------------------------------------------------------
(***************************************************************************)
(* Power fails, in between or while bytes are written, and comes back:     *)
(* loadConfig() takes the pages from the EEPROM as it is then.             *)
(***************************************************************************)
Restart ==
    /\ ram' = eeprom'
    /\ eepromWritesPending' = FALSE
    /\ pc' = "update"
    /\ asked' = {}
    /\ cutOff' = (cutOff \/ eepromWritesPending)
    /\ UNCHANGED version

PowerFails == UNCHANGED eeprom /\ Restart

PowerFailsInBurn(p, n) ==
    /\ MayBurnPage
    /\ eeprom' = [eeprom EXCEPT ![p] = Written(ram, p, n)]
    /\ Restart

PowerFailsInBurnOfAll(p, n) ==
    /\ pc = "run"
    /\ WritePartOfAll(ram, p, n)
    /\ Restart

PowerFailsInUpdate(p, n) ==
    /\ Updating /\ Update[version].kind # "moves"
    /\ WritePartOfAll(Converted(version), p, n)
    /\ Restart

-----------------------------------------------------------------------------
Power ==
    \/ PowerFails
    \/ \E p \in Page : \E n \in Bytes(p) :
          \/ PowerFailsInBurn(p, n)
          \/ PowerFailsInBurnOfAll(p, n)
          \/ PowerFailsInUpdate(p, n)

Start == ConvertSettings \/ MoveSettings \/ FinishUpdates \/ InitialiseADC

Tune == \E t \in Tunings : ReceiveValue(t[1][1], t[1][2], t[2])

Next ==
    \/ Tune
    \/ \E p \in Page : BurnPage(p)
    \/ BurnAll
    \/ ContinueBurn
    \/ Start
    \/ Power

\* The firmware starts and its main loop comes round.
Fairness == WF_vars(Start) /\ WF_vars(ContinueBurn)

Spec == Init /\ [][Next]_vars

FairSpec == Spec /\ Fairness

-----------------------------------------------------------------------------
IsImage(f) ==
    /\ DOMAIN f = Page
    /\ \A p \in Page : f[p] \in [Bytes(p) -> Nat]

\* The type invariant.  When initialisation is over, the EEPROM has the version of
\* this firmware, whatever version the settings had (updates.ino:310).
TypeOK ==
    /\ IsImage(ram) /\ IsImage(eeprom)
    /\ version \in Nat
    /\ eepromWritesPending \in BOOLEAN
    /\ pc \in {"update", "adc", "run"}
    /\ pc # "update" => version = CURRENT_DATA_VERSION
    /\ asked \subseteq Page
    /\ cutOff \in BOOLEAN

Saved(p) == eeprom[p] = ram[p]

\* When no writes are pending, every page that was burnt and not changed since is
\* in the EEPROM to its last byte: what a burn could not write in one block is
\* written later.  ("Check for any outstanding EEPROM writes", speeduino.ino:228.)
BurnIsComplete ==
    pc = "run" /\ ~eepromWritesPending => \A p \in asked : Saved(p)

UpdatesAreDone == pc = "run" /\ ~eepromWritesPending /\ ~cutOff

IsKept(v) ==
    \A c \in Update[v].converts : ram[c[1]][c[2]] # Old /\ eeprom[c[1]][c[2]] # Old

MovesAreOver(v) == \A u \in DOMAIN Update : Update[u].kind = "moves" => u < v

\* When the firmware runs and no writes are pending, every setting that the updates
\* after the last move were to convert is converted, in RAM and in the EEPROM,
\* whatever was pending at a move before them, unless power failed before the
\* writes were done (updates.ino:108 and after, where the moves are over).
UpdatesAreKept ==
    UpdatesAreDone =>
        \A v \in DOMAIN Update : MovesAreOver(v) => IsKept(v)

\* The same of all updates.  ("When a user skips multiple firmware versions at a
\* time, this will roll through the updates 1 at a time", updates.ino:5.)
EveryUpdateIsKept == UpdatesAreDone => \A v \in DOMAIN Update : IsKept(v)

\* When the tuning software changes nothing any more and power does not fail
\* again, what was burnt is in the EEPROM in the end and stays there.
BurnEventuallyDone ==
    <>[][pc = "run" => UNCHANGED <<ram, pc>>]_vars
        => <>[](\A p \in asked : Saved(p))
=============================================================================
