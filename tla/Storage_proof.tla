---------------------------- MODULE Storage_proof ----------------------------
(***************************************************************************)
(* Proofs about Storage for every layout of the pages, every block size    *)
(* and every sequence of updates: type correctness, that a burn is         *)
(* complete when no writes are pending, and that updates are kept.         *)
(***************************************************************************)
EXTENDS Storage, FiniteSetTheorems, TLAPS

USE PageAssumption, BlockAssumption, VersionAssumption, HostAssumption

-----------------------------------------------------------------------------
(***************************************************************************)
(* What writeConfig() and writeAllConfig() do.                             *)
(***************************************************************************)
LEMMA BytesType ==
  ASSUME NEW p \in Page
  PROVE  /\ Len(Layout[p]) \in Nat
         /\ Bytes(p) = 1 .. Len(Layout[p])
         /\ \A i \in Bytes(p) : Layout[p][i] \in LayoutEntry
  <1>1. Layout[p] \in Seq(LayoutEntry)
    OBVIOUS
  <1> QED
    BY <1>1 DEF Bytes

LEMMA ImageType == ASSUME NEW f, IsImage(f), NEW p \in Page PROVE f[p] \in [Bytes(p) -> Nat]
  BY DEF IsImage

\* Changing a byte of an image leaves an image.
LEMMA ImageExcept ==
  ASSUME NEW f, IsImage(f), NEW c \in Byte, NEW value \in Nat
  PROVE  /\ IsImage([f EXCEPT ![c[1]][c[2]] = value])
         /\ \A p \in Page : p # c[1] => [f EXCEPT ![c[1]][c[2]] = value][p] = f[p]
  <1>1. c[1] \in Page /\ c[2] \in Bytes(c[1])
    BY DEF Byte, Bytes
  <1> DEFINE g == [f EXCEPT ![c[1]] = [f[c[1]] EXCEPT ![c[2]] = value]]
  <1>2. [f[c[1]] EXCEPT ![c[2]] = value] \in [Bytes(c[1]) -> Nat]
    BY <1>1, ImageType
  <1>3. DOMAIN g = Page /\ \A p \in Page : g[p] = IF p = c[1] THEN [f[c[1]] EXCEPT ![c[2]] = value] ELSE f[p]
    BY DEF IsImage
  <1> QED
    BY <1>2, <1>3 DEF IsImage

LEMMA WrittenType ==
  ASSUME IsImage(eeprom), NEW r, IsImage(r), NEW p \in Page, NEW n
  PROVE  Written(r, p, n) \in [Bytes(p) -> Nat]
  BY ImageType DEF Written

LEMMA WriteConfigType ==
  ASSUME IsImage(eeprom), NEW r, IsImage(r), NEW p \in Page, WriteConfig(r, p)
  PROVE  IsImage(eeprom') /\ eepromWritesPending' \in BOOLEAN
  <1>1. Written(r, p, Len(Layout[p])) \in [Bytes(p) -> Nat]
    BY WrittenType
  <1>2. IsImage(eeprom')
    BY <1>1 DEF WriteConfig, IsImage
  <1> QED
    BY <1>2 DEF WriteConfig, Over

LEMMA WriteAllConfigType ==
  ASSUME IsImage(eeprom), NEW r, IsImage(r), WriteAllConfig(r)
  PROVE  IsImage(eeprom') /\ eepromWritesPending' \in BOOLEAN
  <1>1. ASSUME NEW p \in Page PROVE eeprom'[p] \in [Bytes(p) -> Nat]
    <2>1. eeprom'[p] = IF Visited(r, p) THEN Written(r, p, Len(Layout[p])) ELSE eeprom[p]
      BY DEF WriteAllConfig
    <2> QED
      BY <2>1, WrittenType, ImageType
  <1> QED
    BY <1>1 DEF WriteAllConfig, IsImage

LEMMA WritePartOfAllType ==
  ASSUME IsImage(eeprom), NEW r, IsImage(r), NEW p \in Page, NEW n, WritePartOfAll(r, p, n)
  PROVE  IsImage(eeprom')
  <1>1. ASSUME NEW q \in Page PROVE eeprom'[q] \in [Bytes(q) -> Nat]
    <2>1. eeprom'[q] = CASE Order[q] < Order[p] -> Written(r, q, Len(Layout[q]))
                         [] q = p               -> Written(r, p, n)
                         [] Order[q] > Order[p] -> eeprom[q]
      BY DEF WritePartOfAll
    <2>2. Order[q] < Order[p] \/ q = p \/ Order[q] > Order[p]
      OBVIOUS
    <2>3. CASE Order[q] < Order[p]
      BY <2>1, <2>3, WrittenType
    <2>4. CASE q = p
      BY <2>1, <2>4, WrittenType
    <2>5. CASE Order[q] > Order[p]
      BY <2>1, <2>5, ImageType
    <2> QED
      BY <2>2, <2>3, <2>4, <2>5
  <1> QED
    BY <1>1 DEF WritePartOfAll, IsImage

\* If a page has no more to write than a block, writeConfig() comes to its end.
LEMMA AllReached ==
  ASSUME NEW r, NEW p \in Page, ~Over(r, p), NEW i \in Bytes(p)
  PROVE  Reached(r, p, i)
  <1> DEFINE g == Layout[p][i].guard
             Until(k) == {j \in Bytes(p) : j < k /\ Counts(r, p, j)}
  <1>1. g \in Nat /\ g <= i
    BY BytesType DEF Bytes, LayoutEntry
  <1>2. Until(g) \in SUBSET Until(Len(Layout[p]) + 1)
    BY <1>1, BytesType
  <1>3. IsFiniteSet(Until(Len(Layout[p]) + 1))
    <2>1. IsFiniteSet(Bytes(p))
      BY BytesType, FS_Interval
    <2>2. Until(Len(Layout[p]) + 1) \in SUBSET Bytes(p)
      OBVIOUS
    <2> QED
      BY <2>1, <2>2, FS_Subset
  <1>4. /\ Cardinality(Until(g)) <= Cardinality(Until(Len(Layout[p]) + 1))
        /\ Cardinality(Until(Len(Layout[p]) + 1)) \in Nat
        /\ Cardinality(Until(g)) \in Nat
    BY <1>2, <1>3, FS_Subset, FS_CardinalityType
  <1>5. Cardinality(Until(Len(Layout[p]) + 1)) <= EEPROM_MAX_WRITE_BLOCK
    BY <1>4 DEF Over, WriteCounter
  <1>6. Cardinality(Until(g)) <= EEPROM_MAX_WRITE_BLOCK
    BY <1>4, <1>5
  <1> QED
    BY <1>6 DEF Reached, WriteCounter

LEMMA AllWritten ==
  ASSUME NEW r, IsImage(r), NEW p \in Page, ~Over(r, p)
  PROVE  Written(r, p, Len(Layout[p])) = r[p]
  <1>1. r[p] \in [Bytes(p) -> Nat]
    BY ImageType
  <1>2. \A i \in Bytes(p) : i <= Len(Layout[p]) /\ Reached(r, p, i)
    BY AllReached, BytesType
  <1> QED
    BY <1>1, <1>2 DEF Written

\* writeAllConfig() is done only when every page has been saved.
LEMMA AllSaved ==
  ASSUME NEW r, IsImage(r), WriteAllConfig(r), ~eepromWritesPending'
  PROVE  \A p \in Page : eeprom'[p] = r[p]
  <1>1. \A p \in Page : ~Over(r, p)
    BY DEF WriteAllConfig
  <1>2. \A p \in Page : Visited(r, p)
    BY <1>1 DEF Visited
  <1> QED
    BY <1>1, <1>2, AllWritten DEF WriteAllConfig

-----------------------------------------------------------------------------
(***************************************************************************)
(* Type correctness.  The last update leads to the version of this         *)
(* firmware, since every version that an EEPROM can hold has its update,   *)
(* up to this one: VersionKnown is what makes the invariant inductive.     *)
(***************************************************************************)
VersionKnown ==
    version \in DOMAIN Update \cup New \/ version >= CURRENT_DATA_VERSION

TypeInv == TypeOK /\ VersionKnown

LEMMA ConvertedType ==
  ASSUME IsImage(ram), NEW v PROVE IsImage(Converted(v))
  BY ImageType DEF Converted, IsImage, Twice

\* After an update the settings are of a known version again.
LEMMA NextVersion ==
  ASSUME version \in DOMAIN Update
  PROVE  /\ version + 1 \in Nat
         /\ version + 1 \in DOMAIN Update \/ version + 1 >= CURRENT_DATA_VERSION
  OBVIOUS

LEMMA InitialType == Init => TypeInv
  <1> SUFFICES ASSUME Init PROVE TypeInv
    OBVIOUS
  <1>1. IsImage(eeprom)
    BY DEF Init, InitialImage, IsImage, Old
  <1> QED
    BY <1>1 DEF Init, TypeInv, TypeOK, VersionKnown

LEMMA RestartType ==
  ASSUME TypeInv, Restart, IsImage(eeprom') PROVE TypeInv'
  <1>1. IsImage(ram')
    BY DEF Restart, IsImage
  <1> QED
    BY <1>1 DEF TypeInv, TypeOK, VersionKnown, Restart

LEMMA NextType == TypeInv /\ [Next]_vars => TypeInv'
  <1> SUFFICES ASSUME TypeInv, [Next]_vars PROVE TypeInv'
    OBVIOUS
  <1>0. IsImage(ram) /\ IsImage(eeprom)
    BY DEF TypeInv, TypeOK
  <1>1. CASE Tune
    <2>1. PICK t \in Tunings : ReceiveValue(t[1][1], t[1][2], t[2])
      BY <1>1 DEF Tune
    <2>2. t[1] \in Byte /\ t[2] \in Nat
      OBVIOUS
    <2>3. IsImage(ram')
      BY <1>0, <2>1, <2>2, ImageExcept DEF ReceiveValue
    <2> QED
      BY <2>1, <2>3 DEF TypeInv, TypeOK, VersionKnown, ReceiveValue, IsImage
  <1>2. ASSUME NEW p \in Page, BurnPage(p) PROVE TypeInv'
    <2>1. IsImage(eeprom') /\ eepromWritesPending' \in BOOLEAN
      BY <1>0, <1>2, WriteConfigType DEF BurnPage
    <2>2. IsImage(ram')
      BY <1>0, <1>2 DEF BurnPage, IsImage
    <2> QED
      BY <1>2, <2>1, <2>2 DEF TypeInv, TypeOK, VersionKnown, BurnPage
  <1>3. CASE BurnAll \/ ContinueBurn
    <2>1. IsImage(eeprom') /\ eepromWritesPending' \in BOOLEAN
      BY <1>0, <1>3, WriteAllConfigType DEF BurnAll, ContinueBurn
    <2>2. IsImage(ram')
      BY <1>0, <1>3 DEF BurnAll, ContinueBurn, IsImage
    <2> QED
      BY <1>3, <2>1, <2>2 DEF TypeInv, TypeOK, VersionKnown, BurnAll, ContinueBurn
  <1>4. CASE ConvertSettings
    <2>1. IsImage(Converted(version))
      BY <1>0, ConvertedType
    <2>2. IsImage(eeprom') /\ eepromWritesPending' \in BOOLEAN
      BY <1>0, <1>4, <2>1, WriteAllConfigType DEF ConvertSettings
    <2>3. IsImage(ram')
      BY <1>4, <2>1 DEF ConvertSettings, IsImage
    <2> QED
      BY <1>4, <2>2, <2>3, NextVersion
         DEF TypeInv, TypeOK, VersionKnown, ConvertSettings, Updating
  <1>5. CASE MoveSettings
    <2>1. IsImage(ram') /\ IsImage(eeprom')
      BY <1>0, <1>5 DEF MoveSettings, IsImage
    <2> QED
      BY <1>5, <2>1, NextVersion DEF TypeInv, TypeOK, VersionKnown, MoveSettings, Updating
  <1>6. CASE FinishUpdates
    <2>1. IsImage(SetAddress)
      BY <1>0, ImageExcept DEF SetAddress
    <2>2. IsImage(ram') /\ IsImage(eeprom')
      BY <1>0, <1>6, <2>1 DEF FinishUpdates, IsImage
    <2>3. version' = CURRENT_DATA_VERSION
      BY <1>6 DEF TypeInv, TypeOK, VersionKnown, FinishUpdates
    <2> QED
      BY <1>6, <2>2, <2>3 DEF TypeInv, TypeOK, VersionKnown, FinishUpdates
  <1>7. CASE InitialiseADC
    <2> DEFINE r == [ram EXCEPT ![Filter[1]][Filter[2]] = 1]
    <2>1. IsImage(r) /\ Filter[1] \in Page
      BY <1>0, ImageExcept DEF Byte
    <2>2. \/ ram' = r /\ WriteConfig(r, Filter[1])
          \/ UNCHANGED <<ram, eeprom, eepromWritesPending>>
      BY <1>7 DEF InitialiseADC
    <2>3. IsImage(ram') /\ IsImage(eeprom') /\ eepromWritesPending' \in BOOLEAN
      <3>1. CASE ram' = r /\ WriteConfig(r, Filter[1])
        BY <1>0, <2>1, <3>1, WriteConfigType DEF IsImage
      <3>2. CASE UNCHANGED <<ram, eeprom, eepromWritesPending>>
        BY <1>0, <3>2 DEF IsImage, TypeInv, TypeOK
      <3> QED
        BY <2>2, <3>1, <3>2
    <2> QED
      BY <1>7, <2>3 DEF TypeInv, TypeOK, VersionKnown, InitialiseADC
  <1>8. CASE Power
    <2>1. CASE PowerFails
      <3>1. IsImage(eeprom')
        BY <1>0, <2>1 DEF PowerFails, IsImage
      <3> QED
        BY <2>1, <3>1, RestartType DEF PowerFails
    <2>2. ASSUME NEW p \in Page, NEW n \in Bytes(p), PowerFailsInBurn(p, n) PROVE TypeInv'
      <3>1. IsImage(eeprom')
        BY <1>0, <2>2, WrittenType DEF PowerFailsInBurn, IsImage
      <3> QED
        BY <2>2, <3>1, RestartType DEF PowerFailsInBurn
    <2>3. ASSUME NEW p \in Page, NEW n \in Bytes(p), PowerFailsInBurnOfAll(p, n)
          PROVE  TypeInv'
      <3>1. IsImage(eeprom')
        BY <1>0, <2>3, WritePartOfAllType DEF PowerFailsInBurnOfAll
      <3> QED
        BY <2>3, <3>1, RestartType DEF PowerFailsInBurnOfAll
    <2>4. ASSUME NEW p \in Page, NEW n \in Bytes(p), PowerFailsInUpdate(p, n)
          PROVE  TypeInv'
      <3>1. IsImage(eeprom')
        BY <1>0, <2>4, ConvertedType, WritePartOfAllType DEF PowerFailsInUpdate
      <3> QED
        BY <2>4, <3>1, RestartType DEF PowerFailsInUpdate
    <2> QED
      BY <1>8, <2>1, <2>2, <2>3, <2>4 DEF Power
  <1>9. CASE UNCHANGED vars
    BY <1>9 DEF vars, TypeInv, TypeOK, VersionKnown, IsImage
  <1> QED
    BY <1>1, <1>2, <1>3, <1>4, <1>5, <1>6, <1>7, <1>8, <1>9 DEF Next, Start

\* The variables have their types, and when initialisation is over the settings are
\* of the version of this firmware (updates.ino:310).
THEOREM TypeCorrect == Spec => []TypeOK
  <1>1. TypeInv => TypeOK
    BY DEF TypeInv
  <1> QED
    BY <1>1, InitialType, NextType, PTL DEF Spec

-----------------------------------------------------------------------------
(***************************************************************************)
(* A burn is complete.  BurnInv adds to BurnIsComplete that nothing is     *)
(* taken for burnt before the main loop runs.                              *)
(***************************************************************************)
BurnInv ==
    /\ pc # "run" => asked = {}
    /\ ~eepromWritesPending => \A p \in asked : Saved(p)

LEMMA BurnPageSaves ==
  ASSUME TypeOK, BurnInv, HostWaits, NEW p \in Page, BurnPage(p) PROVE BurnInv'
  <1>1. pc = "run" /\ pc' = "run" /\ ~eepromWritesPending /\ WriteConfig(ram, p)
    BY DEF BurnPage, MayBurnPage
  <1>2. ASSUME ~eepromWritesPending', NEW q \in asked' PROVE Saved(q)'
    <2>1. eeprom' = [eeprom EXCEPT ![p] = Written(ram, p, Len(Layout[p]))] /\ ~Over(ram, p)
      BY <1>1, <1>2 DEF WriteConfig
    <2>2. CASE q = p
      <3>1. Written(ram, p, Len(Layout[p])) = ram[p]
        BY <2>1, AllWritten DEF TypeOK
      <3> QED
        BY <2>1, <2>2, <3>1 DEF Saved, BurnPage, TypeOK, IsImage
    <2>3. CASE q # p
      <3>1. q \in asked /\ Saved(q)
        BY <1>1, <1>2, <2>3 DEF BurnPage, BurnInv
      <3> QED
        BY <2>1, <2>3, <3>1 DEF Saved, BurnPage, TypeOK, IsImage
    <2> QED
      BY <2>2, <2>3
  <1> QED
    BY <1>1, <1>2 DEF BurnInv

LEMMA BurnAllSaves ==
  ASSUME TypeOK, BurnInv, BurnAll \/ ContinueBurn PROVE BurnInv'
  <1>1. pc = "run" /\ pc' = "run" /\ WriteAllConfig(ram) /\ ram' = ram
    BY DEF BurnAll, ContinueBurn
  <1>2. asked' \subseteq Page
    BY DEF BurnAll, ContinueBurn, TypeOK
  <1>3. ~eepromWritesPending' => \A p \in Page : eeprom'[p] = ram[p]
    BY <1>1, AllSaved DEF TypeOK
  <1> QED
    BY <1>1, <1>2, <1>3 DEF BurnInv, Saved

LEMMA TuneKeepsBurnt ==
  ASSUME TypeOK, BurnInv, Tune PROVE BurnInv'
  <1>1. PICK t \in Tunings : ReceiveValue(t[1][1], t[1][2], t[2])
    BY DEF Tune
  <1>2. t[1] \in Byte /\ t[2] \in Nat
    OBVIOUS
  <1>3. \A q \in Page : q # t[1][1] => ram'[q] = ram[q]
    BY <1>1, <1>2, ImageExcept DEF ReceiveValue, TypeOK
  <1> QED
    BY <1>1, <1>3 DEF BurnInv, Saved, ReceiveValue, TypeOK

LEMMA NextBurnt ==
  ASSUME HostWaits PROVE TypeOK /\ BurnInv /\ [Next]_vars => BurnInv'
  <1> SUFFICES ASSUME TypeOK, BurnInv, [Next]_vars PROVE BurnInv'
    OBVIOUS
  <1>1. CASE Start
    <2>1. pc # "run" /\ asked' = {}
      BY <1>1 DEF Start, ConvertSettings, MoveSettings, FinishUpdates, InitialiseADC,
                  Updating, BurnInv
    <2> QED
      BY <2>1 DEF BurnInv
  <1>2. CASE Power
    <2>1. Restart
      BY <1>2 DEF Power, PowerFails, PowerFailsInBurn, PowerFailsInBurnOfAll,
                  PowerFailsInUpdate
    <2> QED
      BY <2>1 DEF Restart, BurnInv
  <1>3. CASE UNCHANGED vars
    BY <1>3 DEF vars, BurnInv, Saved
  <1> QED
    BY <1>1, <1>2, <1>3, BurnPageSaves, BurnAllSaves, TuneKeepsBurnt DEF Next

\* If the tuning software burns a page only when no writes are pending, then
\* whatever the layout of the pages and the size of a block, a burnt page is in the
\* EEPROM to its last byte as soon as no writes are pending (speeduino.ino:228).
THEOREM BurnsAreComplete ==
  ASSUME HostWaits PROVE Spec => []BurnIsComplete
  <1>1. Init => BurnInv
    BY DEF Init, BurnInv
  <1>2. TypeOK /\ BurnInv /\ [Next]_vars => BurnInv'
    BY NextBurnt
  <1>3. BurnInv => BurnIsComplete
    BY DEF BurnInv, BurnIsComplete
  <1> QED
    BY <1>1, <1>2, <1>3, TypeCorrect, PTL DEF Spec

-----------------------------------------------------------------------------
(***************************************************************************)
(* What is converted after the last move is kept, whatever was pending     *)
(* when the pages were moved.  The filter, which initialiseADC() repairs,  *)
(* is converted after the last move or not at all (updates.ino:156), the   *)
(* address of a new board is no setting that updates convert, and the      *)
(* tuning software waits.                                                  *)
(***************************************************************************)
FilterIsNotMoved ==
    \A v \in DOMAIN Update : Filter \in Update[v].converts => MovesAreOver(v)

NewIsNotUpdated ==
    /\ New \cap DOMAIN Update = {}
    /\ Address # Filter
    /\ \A v \in DOMAIN Update : Address \notin Update[v].converts

KeptAssumption == HostWaits /\ FilterIsNotMoved /\ NewIsNotUpdated

\* The bytes that must not stay Old.
Needed ==
    {Filter} \cup UNION {Update[v].converts : v \in {u \in DOMAIN Update : MovesAreOver(u)}}

\* A byte may be Old while an update that converts it is still to come, and the
\* filter of a new board until initialiseADC() looks at it.
MayBeOld(c) ==
    IF version \in DOMAIN Update
    THEN \E v \in DOMAIN Update : v >= version /\ c \in Update[v].converts
    ELSE c = Filter /\ pc # "run" /\ ~eepromWritesPending

\* The pages will be loaded from the EEPROM again.
MoveToCome ==
    /\ version \in DOMAIN Update
    /\ \E v \in DOMAIN Update : v >= version /\ Update[v].kind = "moves"

RamKept == \A c \in Needed : ram[c[1]][c[2]] = Old => MayBeOld(c)

\* What is pending may be Old in the EEPROM, but not what a move will load.
EepromKept ==
    ~eepromWritesPending \/ MoveToCome =>
        \A c \in Needed : eeprom[c[1]][c[2]] = Old => MayBeOld(c)

FilterIsSaved ==
    pc # "run" /\ ~eepromWritesPending =>
        ram[Filter[1]][Filter[2]] = eeprom[Filter[1]][Filter[2]]

KeptInv ==
    /\ FilterIsSaved
    /\ ~cutOff => RamKept /\ EepromKept

\* The settings that matter are bytes of the pages.
LEMMA NeededBytes ==
  ASSUME NEW c \in Needed PROVE c \in Byte /\ c[1] \in Page /\ c[2] \in Bytes(c[1])
  <1>1. \A v \in DOMAIN Update : Update[v].converts \subseteq Byte
    BY DEF UpdateStep
  <1>2. c \in Byte
    BY <1>1 DEF Needed
  <1> QED
    BY <1>2 DEF Byte, Bytes

\* Once the firmware runs there is no update left, and nothing may be Old.
LEMMA RunningIsUpdated ==
  ASSUME TypeOK, pc # "update"
  PROVE  /\ version = CURRENT_DATA_VERSION /\ version \notin DOMAIN Update
         /\ pc = "run" => \A c : ~MayBeOld(c)
  BY DEF TypeOK, MayBeOld

\* An image that differs from the EEPROM in bytes written from r only.
LEMMA WrittenByte ==
  ASSUME NEW r, NEW p \in Page, NEW n, NEW i \in Bytes(p)
  PROVE  Written(r, p, n)[i] \in {r[p][i], eeprom[p][i]}
  BY DEF Written

\* The bytes that writeAllConfig() was writing when power failed.
LEMMA PartlyWrittenByte ==
  ASSUME NEW r, NEW p \in Page, NEW n, WritePartOfAll(r, p, n),
         NEW q \in Page, NEW i \in Bytes(q)
  PROVE  eeprom'[q][i] \in {r[q][i], eeprom[q][i]}
  <1>1. eeprom'[q] = CASE Order[q] < Order[p] -> Written(r, q, Len(Layout[q]))
                       [] q = p               -> Written(r, p, n)
                       [] Order[q] > Order[p] -> eeprom[q]
    BY DEF WritePartOfAll
  <1>2. CASE Order[q] < Order[p]
    BY <1>1, <1>2, WrittenByte
  <1>3. CASE q = p
    BY <1>1, <1>3, WrittenByte
  <1>4. CASE Order[q] > Order[p]
    BY <1>1, <1>4
  <1> QED
    BY <1>2, <1>3, <1>4

\* A conversion makes no byte Old and leaves none that it converts.
LEMMA ConvertedByte ==
  ASSUME NEW v \in DOMAIN Update, NEW c \in Needed,
         Converted(v)[c[1]][c[2]] = Old
  PROVE  ram[c[1]][c[2]] = Old /\ c \notin Update[v].converts
  <1>1. c = <<c[1], c[2]>>
    BY NeededBytes DEF Byte
  <1> QED
    BY <1>1, NeededBytes DEF Converted, Old, Twice

\* What an update leaves to later ones may still be Old after it.
LEMMA LeftToLater ==
  ASSUME NEW v \in DOMAIN Update, NEW c, version = v, version' = v + 1,
         MayBeOld(c), c \notin Update[v].converts
  PROVE  MayBeOld(c)'
  <1>1. PICK u \in DOMAIN Update : u >= v /\ c \in Update[u].converts
    BY DEF MayBeOld
  <1>2. u # v /\ u \in Nat /\ v \in Nat
    BY <1>1
  <1>3. u >= v + 1
    BY <1>1, <1>2
  <1>4. v + 1 \in DOMAIN Update
    BY <1>3
  <1> QED
    BY <1>1, <1>3, <1>4 DEF MayBeOld

\* A setting that an update converts, and that matters, is converted after all moves.
LEMMA ConvertedAfterMoves ==
  ASSUME KeptAssumption, NEW c \in Needed,
         NEW v \in DOMAIN Update, c \in Update[v].converts
  PROVE  \E u \in DOMAIN Update : MovesAreOver(u) /\ c \in Update[u].converts
  <1>1. CASE c = Filter
    BY <1>1 DEF KeptAssumption, FilterIsNotMoved
  <1>2. CASE c # Filter
    BY <1>2 DEF Needed
  <1> QED
    BY <1>1, <1>2

\* What may be Old before an update may be so after it while a move is to come.
LEMMA LeftToMoves ==
  ASSUME KeptAssumption, NEW c \in Needed, NEW v \in DOMAIN Update,
         version = v, version' = v + 1, MayBeOld(c), MoveToCome'
  PROVE  MayBeOld(c)'
  <1>1. PICK u \in DOMAIN Update : MovesAreOver(u) /\ c \in Update[u].converts
    BY ConvertedAfterMoves DEF MayBeOld
  <1>2. PICK m \in DOMAIN Update : m >= v + 1 /\ Update[m].kind = "moves"
    BY DEF MoveToCome
  <1>3. m < u /\ u \in Nat /\ v \in Nat /\ m \in Nat
    BY <1>1, <1>2 DEF MovesAreOver
  <1>4. u >= v + 1
    BY <1>2, <1>3
  <1> QED
    BY <1>1, <1>4 DEF MayBeOld, MoveToCome

\* What an EEPROM holds at first is new, or of a version whose updates come.
LEMMA KeptInit ==
  ASSUME KeptAssumption, Init PROVE KeptInv
  <1>1. ram = eeprom /\ ~eepromWritesPending /\ pc = "update" /\ eeprom = InitialImage(version)
    BY DEF Init
  <1>2. ASSUME NEW c \in Needed, eeprom[c[1]][c[2]] = Old PROVE MayBeOld(c)
    <2>1. c = <<c[1], c[2]>> /\ c[1] \in Page /\ c[2] \in Bytes(c[1])
      BY NeededBytes DEF Byte
    <2>2. InitialImage(version)[c[1]][c[2]] = 0
      BY <1>1, <1>2 DEF Old
    <2>3. CASE version \in New
      <3>1. InitialImage(version)[c[1]][c[2]] =
               IF <<c[1], c[2]>> \in {Filter, Address} THEN 0 ELSE 1
        BY <2>1, <2>3 DEF InitialImage, Old
      <3>2. c \in {Filter, Address}
        BY <2>1, <2>2, <3>1, SMTT(60)
      <3>3. c # Address
        BY DEF KeptAssumption, NewIsNotUpdated, Needed
      <3> QED
        BY <1>1, <2>3, <3>2, <3>3 DEF MayBeOld, KeptAssumption, NewIsNotUpdated
    <2>4. CASE version \notin New
      <3> DEFINE ToConvert == \E u \in DOMAIN Update :
                                 u >= version /\ <<c[1], c[2]>> \in Update[u].converts
      <3>1. InitialImage(version)[c[1]][c[2]] = IF ToConvert THEN 0 ELSE 1
        BY <2>1, <2>4 DEF InitialImage, Old
      <3> HIDE DEF ToConvert
      <3>2. ToConvert
        BY <2>2, <3>1
      <3>3. PICK u \in DOMAIN Update :
               u >= version /\ <<c[1], c[2]>> \in Update[u].converts
        BY <3>2 DEF ToConvert
      <3>4. c \in Update[u].converts
        BY <2>1, <3>3
      <3>5. version \in DOMAIN Update
        BY <2>4, <3>3 DEF Init
      <3> QED
        BY <3>3, <3>4, <3>5 DEF MayBeOld
    <2> QED
      BY <2>3, <2>4
  <1> QED
    BY <1>1, <1>2 DEF KeptInv, FilterIsSaved, RamKept, EepromKept

\* The tuning software changes and burns settings.
LEMMA KeptRunning ==
  ASSUME KeptAssumption, TypeOK, KeptInv,
         Tune \/ (\E p \in Page : BurnPage(p)) \/ BurnAll \/ ContinueBurn
  PROVE  KeptInv'
  <1>1. pc = "run" /\ pc' = "run" /\ version' = version /\ cutOff' = cutOff
    BY DEF Tune, ReceiveValue, BurnPage, MayBurnPage, BurnAll, ContinueBurn
  <1>2. ~cutOff => \A c \in Needed : ram[c[1]][c[2]] # Old
    BY <1>1, RunningIsUpdated DEF KeptInv, RamKept
  <1>3. ~cutOff /\ ~eepromWritesPending => \A c \in Needed : eeprom[c[1]][c[2]] # Old
    BY <1>1, RunningIsUpdated DEF KeptInv, EepromKept
  <1>4. SUFFICES ASSUME ~cutOff PROVE RamKept' /\ EepromKept'
    BY <1>1 DEF KeptInv, FilterIsSaved
  <1>5. ~MoveToCome /\ ~MoveToCome'
    BY <1>1, RunningIsUpdated DEF MoveToCome
  <1>6. CASE Tune
    <2>1. PICK t \in Tunings : ReceiveValue(t[1][1], t[1][2], t[2])
      BY <1>6 DEF Tune
    <2>2. t[1] \in Byte /\ t[2] \in Nat \ {0} /\ IsImage(ram)
      BY DEF TypeOK
    <2>3. \A p \in Page : \A i \in Bytes(p) : ram'[p][i] \in {ram[p][i], t[2]}
      BY <2>1, <2>2 DEF ReceiveValue, IsImage
    <2>4. \A c \in Needed : ram'[c[1]][c[2]] # Old
      BY <1>2, <1>4, <2>2, <2>3, NeededBytes DEF Old
    <2>5. UNCHANGED <<eeprom, eepromWritesPending>>
      BY <2>1 DEF ReceiveValue
    <2> QED
      BY <1>3, <1>4, <1>5, <2>4, <2>5 DEF RamKept, EepromKept
  <1>7. ASSUME NEW p \in Page, BurnPage(p) PROVE RamKept' /\ EepromKept'
    <2>1. /\ ram' = ram /\ ~eepromWritesPending
          /\ eeprom' = [eeprom EXCEPT ![p] = Written(ram, p, Len(Layout[p]))]
      BY <1>7 DEF BurnPage, MayBurnPage, WriteConfig, KeptAssumption
    <2>2. \A q \in Page : \A i \in Bytes(q) : eeprom'[q][i] \in {ram[q][i], eeprom[q][i]}
      BY <2>1, WrittenByte DEF TypeOK, IsImage
    <2>3. \A c \in Needed : eeprom'[c[1]][c[2]] # Old
      BY <1>2, <1>3, <1>4, <2>1, <2>2, NeededBytes
    <2> QED
      BY <1>2, <1>4, <1>5, <2>1, <2>3 DEF RamKept, EepromKept
  <1>8. CASE BurnAll \/ ContinueBurn
    <2>1. ram' = ram /\ WriteAllConfig(ram)
      BY <1>8 DEF BurnAll, ContinueBurn
    <2>2. ~eepromWritesPending' => \A c \in Needed : eeprom'[c[1]][c[2]] = ram[c[1]][c[2]]
      BY <2>1, AllSaved, NeededBytes DEF TypeOK
    <2> QED
      BY <1>2, <1>4, <1>5, <2>1, <2>2 DEF RamKept, EepromKept
  <1> QED
    BY <1>6, <1>7, <1>8

\* An update converts what it should, and what it has not written is pending; a move
\* loads nothing Old but what is still to be converted.
LEMMA KeptByUpdates ==
  ASSUME KeptAssumption, TypeOK, KeptInv, ConvertSettings \/ MoveSettings PROVE KeptInv'
  <1>1. /\ pc = "update" /\ pc' = "update" /\ version \in DOMAIN Update
        /\ version' = version + 1 /\ cutOff' = cutOff
    BY DEF ConvertSettings, MoveSettings, Updating
  <1>2. MoveToCome' => MoveToCome
    <2> SUFFICES ASSUME MoveToCome' PROVE MoveToCome
      OBVIOUS
    <2>1. PICK v \in DOMAIN Update : v >= version + 1 /\ Update[v].kind = "moves"
      BY <1>1 DEF MoveToCome
    <2>2. v >= version
      BY <2>1 DEF TypeOK
    <2> QED
      BY <1>1, <2>1, <2>2 DEF MoveToCome
  <1>3. CASE ConvertSettings
    <2>1. /\ ram' = Converted(version) /\ WriteAllConfig(Converted(version))
          /\ IsImage(Converted(version))
      BY <1>3, ConvertedType DEF ConvertSettings, TypeOK
    <2>2. ~eepromWritesPending' => \A c \in Needed : eeprom'[c[1]][c[2]] = ram'[c[1]][c[2]]
      BY <2>1, AllSaved, NeededBytes
    <2>3. FilterIsSaved'
      BY <2>2 DEF FilterIsSaved, Needed
    <2>4. ~cutOff => RamKept'
      <3> SUFFICES ASSUME ~cutOff, NEW c \in Needed, Converted(version)[c[1]][c[2]] = Old
                   PROVE  MayBeOld(c)'
        BY <2>1 DEF RamKept
      <3>1. ram[c[1]][c[2]] = Old /\ c \notin Update[version].converts
        BY <1>1, ConvertedByte
      <3>2. MayBeOld(c)
        BY <3>1 DEF KeptInv, RamKept
      <3> QED
        BY <1>1, <3>1, <3>2, LeftToLater
    <2>5. ASSUME ~cutOff, MoveToCome', NEW c \in Needed, eeprom'[c[1]][c[2]] = Old
          PROVE  MayBeOld(c)'
      <3>1. eeprom'[c[1]][c[2]] \in {Converted(version)[c[1]][c[2]], eeprom[c[1]][c[2]]}
        BY <2>1, NeededBytes, WrittenByte DEF WriteAllConfig
      <3>2. CASE Converted(version)[c[1]][c[2]] = Old
        BY <2>1, <2>4, <2>5, <3>2 DEF RamKept
      <3>3. CASE eeprom[c[1]][c[2]] = Old
        <4>1. MayBeOld(c)
          BY <1>2, <2>5, <3>3 DEF KeptInv, EepromKept
        <4> QED
          BY <1>1, <2>5, <4>1, LeftToMoves
      <3> QED
        BY <2>5, <3>1, <3>2, <3>3
    <2> QED
      BY <1>1, <2>2, <2>3, <2>4, <2>5 DEF KeptInv, RamKept, EepromKept
  <1>4. CASE MoveSettings
    <2>1. /\ ram' = eeprom /\ eeprom' = eeprom /\ Update[version].kind = "moves"
      BY <1>4 DEF MoveSettings
    <2>2. MoveToCome
      BY <1>1, <2>1 DEF MoveToCome, TypeOK
    <2>3. Update[version].converts = {}
      BY <1>1, <2>1 DEF UpdateStep
    <2>4. ~cutOff => \A c \in Needed : eeprom[c[1]][c[2]] = Old => MayBeOld(c)'
      <3> SUFFICES ASSUME ~cutOff, NEW c \in Needed, eeprom[c[1]][c[2]] = Old
                   PROVE  MayBeOld(c)'
        OBVIOUS
      <3>1. MayBeOld(c)
        BY <2>2 DEF KeptInv, EepromKept
      <3> QED
        BY <1>1, <2>3, <3>1, LeftToLater
    <2> QED
      BY <1>1, <2>1, <2>4 DEF KeptInv, FilterIsSaved, RamKept, EepromKept
  <1> QED
    BY <1>3, <1>4

\* Initialisation comes to its end, and gives the filter its default.
LEMMA KeptByStart ==
  ASSUME KeptAssumption, TypeOK, KeptInv, FinishUpdates \/ InitialiseADC PROVE KeptInv'
  <1>0. Filter \in Byte /\ Address \in Byte /\ Filter[1] \in Page /\ Filter \in Needed
        /\ Filter = <<Filter[1], Filter[2]>> /\ Address = <<Address[1], Address[2]>>
    BY DEF Byte, Needed
  <1>1. CASE FinishUpdates
    <2>1. /\ pc' = "adc" /\ pc = "update" /\ version \notin DOMAIN Update
          /\ version' \in {version, CURRENT_DATA_VERSION}
          /\ UNCHANGED <<eeprom, eepromWritesPending, cutOff>>
      BY <1>1 DEF FinishUpdates
    <2>2. version' \notin DOMAIN Update
      BY <2>1
    <2>3. ~MoveToCome' /\ \A c \in Needed : MayBeOld(c) => MayBeOld(c)'
      BY <2>1, <2>2 DEF MayBeOld, MoveToCome
    <2>4. \A c \in Needed : ram'[c[1]][c[2]] = ram[c[1]][c[2]]
      <3> SUFFICES ASSUME NEW c \in Needed PROVE ram'[c[1]][c[2]] = ram[c[1]][c[2]]
        OBVIOUS
      <3>1. c # Address /\ c = <<c[1], c[2]>> /\ c[1] \in Page
        BY NeededBytes DEF KeptAssumption, NewIsNotUpdated, Needed, Byte
      <3>2. c[1] # Address[1] \/ c[2] # Address[2]
        BY <1>0, <3>1
      <3>3. SetAddress[c[1]][c[2]] = ram[c[1]][c[2]]
        <4>1. IsImage(ram)
          BY DEF TypeOK
        <4> QED
          BY <3>1, <3>2, <4>1, NeededBytes DEF SetAddress, IsImage
      <3> QED
        BY <1>1, <3>3 DEF FinishUpdates
    <2> QED
      BY <1>0, <2>1, <2>3, <2>4
         DEF KeptInv, FilterIsSaved, RamKept, EepromKept
  <1>2. CASE InitialiseADC
    <2> DEFINE p == Filter[1]
               r == [ram EXCEPT ![p][Filter[2]] = 1]
    <2>1. /\ pc = "adc" /\ pc' = "run" /\ version' = version /\ cutOff' = cutOff
          /\ IF ram[p][Filter[2]] = Old THEN ram' = r /\ WriteConfig(r, p)
             ELSE UNCHANGED <<ram, eeprom, eepromWritesPending>>
      BY <1>2 DEF InitialiseADC
    <2>2. version \notin DOMAIN Update /\ ~MoveToCome'
      BY <2>1, RunningIsUpdated DEF MoveToCome
    <2>3. SUFFICES ASSUME ~cutOff PROVE RamKept' /\ EepromKept'
      BY <2>1 DEF KeptInv, FilterIsSaved
    <2>4. \A c \in Needed : ram[c[1]][c[2]] = Old => c = Filter /\ ~eepromWritesPending
      BY <2>2, <2>3 DEF KeptInv, RamKept, MayBeOld
    <2>5. ~eepromWritesPending => \A c \in Needed : eeprom[c[1]][c[2]] = Old => c = Filter
      BY <2>2, <2>3 DEF KeptInv, EepromKept, MayBeOld
    <2>6. CASE ram[p][Filter[2]] = Old
      <3>1. /\ ram' = r /\ ~eepromWritesPending
            /\ eeprom' = [eeprom EXCEPT ![p] = Written(r, p, Len(Layout[p]))]
            /\ eepromWritesPending' = Over(r, p)
        BY <1>0, <2>1, <2>4, <2>6 DEF WriteConfig
      <3>2. IsImage(ram) /\ IsImage(eeprom) /\ IsImage(r)
        BY <1>0, ImageExcept DEF TypeOK
      <3>3. \A c \in Needed : r[c[1]][c[2]] # Old
        <4> SUFFICES ASSUME NEW c \in Needed PROVE r[c[1]][c[2]] # Old
          OBVIOUS
        <4>1. c = <<c[1], c[2]>> /\ c[1] \in Page /\ c[2] \in Bytes(c[1])
          BY NeededBytes DEF Byte
        <4>2. CASE c = Filter
          BY <3>2, <4>1, <4>2 DEF IsImage, Old
        <4>3. CASE c # Filter
          <5>1. ram[c[1]][c[2]] # Old
            BY <2>4, <4>3
          <5>2. r[c[1]][c[2]] \in {ram[c[1]][c[2]], 1}
            BY <3>2, <4>1 DEF IsImage
          <5> QED
            BY <5>1, <5>2 DEF Old
        <4> QED
          BY <4>2, <4>3
      <3>4. ASSUME ~eepromWritesPending', NEW c \in Needed PROVE eeprom'[c[1]][c[2]] # Old
        <4>1. c[1] \in Page
          BY NeededBytes
        <4>2. CASE c[1] = p
          <5>1. eeprom'[p] = r[p]
            BY <1>0, <3>1, <3>2, <3>4, AllWritten DEF IsImage
          <5> QED
            BY <3>3, <4>2, <5>1
        <4>3. CASE c[1] # p
          BY <2>5, <3>1, <3>2, <4>1, <4>3 DEF IsImage
        <4> QED
          BY <4>2, <4>3
      <3> QED
        BY <2>2, <3>1, <3>3, <3>4 DEF RamKept, EepromKept
    <2>7. CASE ram[p][Filter[2]] # Old
      <3>1. UNCHANGED <<ram, eeprom, eepromWritesPending>>
        BY <2>1, <2>7
      <3>2. ~eepromWritesPending => eeprom[p][Filter[2]] # Old
        BY <2>1, <2>7 DEF KeptInv, FilterIsSaved
      <3> QED
        BY <2>2, <2>4, <2>5, <2>7, <3>1, <3>2 DEF RamKept, EepromKept
    <2> QED
      BY <2>6, <2>7
  <1> QED
    BY <1>1, <1>2

\* Power fails: what was written meanwhile is Old only if it was in RAM.
LEMMA KeptByRestart ==
  ASSUME KeptInv, Restart,
         \A c \in Needed : eeprom'[c[1]][c[2]] = Old =>
            eeprom[c[1]][c[2]] = Old \/ ram[c[1]][c[2]] = Old
  PROVE  KeptInv'
  <1>1. /\ ram' = eeprom' /\ ~eepromWritesPending' /\ pc' = "update"
        /\ version' = version /\ cutOff' = (cutOff \/ eepromWritesPending)
    BY DEF Restart
  <1>2. ASSUME ~cutOff', NEW c \in Needed, eeprom'[c[1]][c[2]] = Old PROVE MayBeOld(c)'
    <2>1. ~cutOff /\ ~eepromWritesPending
      BY <1>1, <1>2
    <2>2. MayBeOld(c)
      BY <1>2, <2>1 DEF KeptInv, RamKept, EepromKept
    <2> QED
      BY <1>1, <2>2 DEF MayBeOld
  <1> QED
    BY <1>1, <1>2 DEF KeptInv, FilterIsSaved, RamKept, EepromKept

\* Power may fail at any byte that is written.
LEMMA KeptByPower ==
  ASSUME TypeOK, KeptInv, Power PROVE KeptInv'
  <1>1. CASE PowerFails
    BY <1>1, KeptByRestart DEF PowerFails
  <1>2. ASSUME NEW p \in Page, NEW n \in Bytes(p), PowerFailsInBurn(p, n) PROVE KeptInv'
    <2>1. Restart /\ eeprom' = [eeprom EXCEPT ![p] = Written(ram, p, n)]
      BY <1>2 DEF PowerFailsInBurn
    <2>2. \A q \in Page : \A i \in Bytes(q) : eeprom'[q][i] \in {ram[q][i], eeprom[q][i]}
      BY <2>1, WrittenByte DEF TypeOK, IsImage
    <2> QED
      BY <2>1, <2>2, NeededBytes, KeptByRestart
  <1>3. ASSUME NEW p \in Page, NEW n \in Bytes(p), PowerFailsInBurnOfAll(p, n) PROVE KeptInv'
    <2>1. Restart /\ WritePartOfAll(ram, p, n)
      BY <1>3 DEF PowerFailsInBurnOfAll
    <2>2. \A q \in Page : \A i \in Bytes(q) : eeprom'[q][i] \in {ram[q][i], eeprom[q][i]}
      BY <2>1, PartlyWrittenByte
    <2> QED
      BY <2>1, <2>2, NeededBytes, KeptByRestart
  <1>4. ASSUME NEW p \in Page, NEW n \in Bytes(p), PowerFailsInUpdate(p, n) PROVE KeptInv'
    <2>1. /\ Restart /\ WritePartOfAll(Converted(version), p, n)
          /\ version \in DOMAIN Update
      BY <1>4 DEF PowerFailsInUpdate, Updating
    <2>2. \A q \in Page : \A i \in Bytes(q) :
             eeprom'[q][i] \in {Converted(version)[q][i], eeprom[q][i]}
      BY <2>1, PartlyWrittenByte
    <2>3. \A c \in Needed : eeprom'[c[1]][c[2]] = Old =>
             eeprom[c[1]][c[2]] = Old \/ ram[c[1]][c[2]] = Old
      <3> SUFFICES ASSUME NEW c \in Needed, eeprom'[c[1]][c[2]] = Old
                   PROVE  eeprom[c[1]][c[2]] = Old \/ ram[c[1]][c[2]] = Old
        OBVIOUS
      <3>1. CASE Converted(version)[c[1]][c[2]] = Old
        BY <2>1, <3>1, ConvertedByte
      <3>2. CASE Converted(version)[c[1]][c[2]] # Old
        BY <2>2, <3>2, NeededBytes
      <3> QED
        BY <3>1, <3>2
    <2> QED
      BY <2>1, <2>3, KeptByRestart
  <1> QED
    BY <1>1, <1>2, <1>3, <1>4 DEF Power

\* Every step keeps the invariant.
LEMMA NextKept ==
  ASSUME KeptAssumption PROVE TypeOK /\ KeptInv /\ [Next]_vars => KeptInv'
  <1> SUFFICES ASSUME TypeOK, KeptInv, [Next]_vars PROVE KeptInv'
    OBVIOUS
  <1>1. CASE UNCHANGED vars
    BY <1>1 DEF vars, KeptInv, FilterIsSaved, RamKept, EepromKept, MayBeOld, MoveToCome
  <1> QED
    BY <1>1, KeptRunning, KeptByUpdates, KeptByStart, KeptByPower DEF Next, Start

\* Whatever the updates convert and move, in whatever order (as in updates.ino, where
\* conversions come before the moves and after them), however many blocks that takes
\* and wherever power fails: every setting that is converted after the last move is
\* converted, in RAM and in the EEPROM, when no writes are pending and none were cut
\* off.
THEOREM ConversionsAreKept ==
  ASSUME KeptAssumption PROVE Spec => []UpdatesAreKept
  <1>1. Init => KeptInv
    BY KeptInit
  <1>2. TypeOK /\ KeptInv /\ [Next]_vars => KeptInv'
    BY NextKept
  <1>3. ASSUME TypeOK, KeptInv PROVE UpdatesAreKept
    <2> SUFFICES ASSUME UpdatesAreDone, NEW v \in DOMAIN Update, MovesAreOver(v)
                 PROVE  IsKept(v)
      BY DEF UpdatesAreKept
    <2>1. Update[v].converts \subseteq Needed
      BY DEF Needed
    <2> QED
      BY <1>3, <2>1, RunningIsUpdated DEF KeptInv, RamKept, EepromKept, UpdatesAreDone, IsKept
  <1> QED
    BY <1>1, <1>2, <1>3, TypeCorrect, PTL DEF Spec
=============================================================================
