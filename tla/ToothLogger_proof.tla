-------------------------- MODULE ToothLogger_proof --------------------------
(***************************************************************************)
(* Proofs about the tooth and the composite logger, for every length of    *)
(* the log.                                                                *)
(***************************************************************************)
EXTENDS ToothLogger, TLAPS, SequenceTheorems

N == TOOTH_LOG_SIZE

LoggerType ==
    [toothLogEnabled : BOOLEAN, compositeLogEnabled : BOOLEAN,
     ready : BOOLEAN, held : BOOLEAN, struck : BOOLEAN,
     toothHistoryIndex : 0 .. N, toothHistorySerialIndex : 0 .. N,
     toothHistory : [0 .. N -> 0 .. Readings - 1],
     attached : {"normal", "logger"}]

LEMMA Sizes ==
  /\ N \in Nat /\ N >= 3 /\ TOOTH_LOG_SIZE = N /\ TOOTH_LOG_BUFFER = N + 1
  /\ Readings \in Nat /\ Readings > 1
  BY LoggerAssumption DEF N, TOOTH_LOG_BUFFER

(***************************************************************************)
(* The ring                                                                *)
(***************************************************************************)
\* How many entries wait to be sent, where the one after j others is, and
\* what it records.
Entries(l) ==
    IF l.toothHistoryIndex < l.toothHistorySerialIndex
    THEN l.toothHistoryIndex + N + 1 - l.toothHistorySerialIndex
    ELSE l.toothHistoryIndex - l.toothHistorySerialIndex

Slot(l, j) ==
    IF l.toothHistorySerialIndex + j > N
    THEN l.toothHistorySerialIndex + j - N - 1
    ELSE l.toothHistorySerialIndex + j

Entry(l, j) == l.toothHistory[Slot(l, j)]

Following(r) == (r + 1) % Readings

\* The entries are consecutive, and the last is the reading before r.
InOrder(l) ==
    \A j \in 0 .. N : j + 1 < Entries(l) => Entry(l, j + 1) = Following(Entry(l, j))

UpTo(l, r) == Entries(l) > 0 => Following(Entry(l, Entries(l) - 1)) = r

LEMMA EntriesInRing ==
  ASSUME NEW l \in LoggerType
  PROVE  /\ Entries(l) \in 0 .. N
         /\ \A j \in 0 .. N : Slot(l, j) \in 0 .. N
         /\ Slot(l, Entries(l)) = l.toothHistoryIndex
         /\ \A i, j \in 0 .. N : Slot(l, i) = Slot(l, j) => i = j
  <1> DEFINE at == l.toothHistoryIndex
             from == l.toothHistorySerialIndex
  <1>1. at \in 0 .. N /\ from \in 0 .. N
    BY DEF LoggerType
  <1>2. Entries(l) = IF at < from THEN at + N + 1 - from ELSE at - from
    BY DEF Entries
  <1>3. \A j \in 0 .. N : Slot(l, j) = IF from + j > N THEN from + j - N - 1 ELSE from + j
    BY DEF Slot
  <1>4. Entries(l) \in 0 .. N
    BY <1>1, <1>2, Sizes
  <1> HIDE DEF at, from
  <1>5. Slot(l, Entries(l)) = at
    BY <1>1, <1>2, <1>3, <1>4, Sizes
  <1>6. \A j \in 0 .. N : Slot(l, j) \in 0 .. N
    BY <1>1, <1>3, Sizes
  <1>7. \A i, j \in 0 .. N : Slot(l, i) = Slot(l, j) => i = j
    BY <1>1, <1>3, Sizes
  <1> QED
    BY <1>4, <1>5, <1>6, <1>7 DEF at

LEMMA FollowingIsReading ==
  ASSUME NEW r \in 0 .. Readings - 1
  PROVE  Following(r) \in 0 .. Readings - 1
  BY Sizes DEF Following

\* Whether an entry more makes the log ready.
LEMMA ReadyIsFull ==
  ASSUME NEW l \in LoggerType, NEW m \in LoggerType,
         m.toothHistoryIndex = Around(l.toothHistoryIndex),
         m.toothHistorySerialIndex = l.toothHistorySerialIndex
  PROVE  /\ IsReady(l, Around(l.toothHistoryIndex)) <=> Entries(m) = N
         /\ Entries(m) = IF Entries(l) = N THEN 0 ELSE Entries(l) + 1
  <1> DEFINE at == l.toothHistoryIndex
             next == Around(at)
             from == l.toothHistorySerialIndex
  <1>1. at \in 0 .. N /\ from \in 0 .. N
    BY DEF LoggerType
  <1>2. next = IF at = N THEN 0 ELSE at + 1
    BY Sizes DEF Around
  <1>3. /\ Entries(l) = IF at < from THEN at + N + 1 - from ELSE at - from
        /\ Entries(m) = IF next < from THEN next + N + 1 - from ELSE next - from
    BY DEF Entries
  <1>4. IsReady(l, next) <=> (IF next < from THEN next + N + 1 ELSE next) - from >= N
    <2>1. next \in 0 .. N
      BY <1>1, <1>2, Sizes
    <2> HIDE DEF next
    <2> QED
      BY <1>1, <2>1, Sizes DEF IsReady
  <1> HIDE DEF at, next, from
  <1>5. Entries(m) = IF Entries(l) = N THEN 0 ELSE Entries(l) + 1
    BY <1>1, <1>2, <1>3, Sizes
  <1>6. IsReady(l, next) <=> Entries(m) = N
    BY <1>1, <1>2, <1>3, <1>4, Sizes
  <1> QED
    BY <1>5, <1>6 DEF next, at

LEMMA LoggedIs ==
  ASSUME LoggerTypeOK, NEW l \in LoggerType
  PROVE  /\ Logged(l) \in LoggerType
         /\ Logged(l).toothHistory = [l.toothHistory EXCEPT ![l.toothHistoryIndex] = reading]
         /\ Logged(l).toothHistoryIndex = Around(l.toothHistoryIndex)
         /\ Logged(l).toothHistorySerialIndex = l.toothHistorySerialIndex
         /\ Logged(l).ready = IsReady(l, Around(l.toothHistoryIndex))
         /\ Logged(l).toothLogEnabled = l.toothLogEnabled
         /\ Logged(l).compositeLogEnabled = l.compositeLogEnabled
         /\ Logged(l).attached = l.attached
         /\ Logged(l).held = l.held
  <1> DEFINE m == Logged(l)
             at == l.toothHistoryIndex
  <1>1. reading \in 0 .. Readings - 1 /\ at \in 0 .. N /\ Around(at) \in 0 .. N
        /\ IsReady(l, Around(at)) \in BOOLEAN
    <2>1. reading \in 0 .. Readings - 1
      BY DEF LoggerTypeOK
    <2>2. at \in 0 .. N
      BY DEF LoggerType
    <2>3. Around(at) \in 0 .. N
      BY <2>2, Sizes DEF Around
    <2>4. IsReady(l, Around(at)) \in BOOLEAN
      BY DEF IsReady
    <2> QED
      BY <2>1, <2>2, <2>3, <2>4
  <1>2. m = [l EXCEPT !.toothHistory = [l.toothHistory EXCEPT ![at] = reading],
                      !.toothHistoryIndex = Around(at),
                      !.ready = IsReady(l, Around(at))]
    BY DEF Logged, LoggerType
  <1> HIDE DEF m
  <1>3. m \in LoggerType
    BY <1>1, <1>2 DEF LoggerType
  <1>4. /\ m.toothHistory = [l.toothHistory EXCEPT ![at] = reading]
        /\ m.toothHistoryIndex = Around(at)
        /\ m.toothHistorySerialIndex = l.toothHistorySerialIndex
        /\ m.ready = IsReady(l, Around(at))
        /\ m.toothLogEnabled = l.toothLogEnabled
        /\ m.compositeLogEnabled = l.compositeLogEnabled
        /\ m.attached = l.attached /\ m.held = l.held
    BY <1>2 DEF LoggerType
  <1> QED
    BY <1>3, <1>4 DEF m

\* A reading is added behind the entries; a ring that is full is emptied by it.
LEMMA LoggedInOrder ==
  ASSUME LoggerTypeOK, NEW l \in LoggerType, InOrder(l), UpTo(l, reading)
  PROVE  /\ InOrder(Logged(l)) /\ UpTo(Logged(l), Following(reading))
         /\ Logged(l).ready <=> Entries(Logged(l)) = N
         /\ Entries(Logged(l)) = IF Entries(l) = N THEN 0 ELSE Entries(l) + 1
  <1> DEFINE m == Logged(l)
             at == l.toothHistoryIndex
  <1>1. reading \in 0 .. Readings - 1 /\ at \in 0 .. N
    BY DEF LoggerTypeOK, LoggerType
  <1>3. m \in LoggerType
    BY LoggedIs
  <1>4. /\ m.toothHistory = [l.toothHistory EXCEPT ![at] = reading]
        /\ m.toothHistoryIndex = Around(at)
        /\ m.toothHistorySerialIndex = l.toothHistorySerialIndex
        /\ m.ready = IsReady(l, Around(at))
    BY LoggedIs
  <1> HIDE DEF m
  <1>5. /\ m.ready <=> Entries(m) = N
        /\ Entries(m) = IF Entries(l) = N THEN 0 ELSE Entries(l) + 1
    BY <1>3, <1>4, ReadyIsFull
  <1>6. \A j \in 0 .. N : Slot(m, j) = Slot(l, j)
    BY <1>4 DEF Slot
  <1>7. \A j \in 0 .. N : j # Entries(l) => Entry(m, j) = Entry(l, j)
    <2> TAKE j \in 0 .. N
    <2>1. j # Entries(l) => Slot(l, j) # at
      BY EntriesInRing
    <2>2. l.toothHistory \in [0 .. N -> 0 .. Readings - 1] /\ Slot(l, j) \in 0 .. N
      BY EntriesInRing DEF LoggerType
    <2> QED
      BY <1>4, <1>6, <2>1, <2>2 DEF Entry
  <1>8. Entry(m, Entries(l)) = reading
    <2>1. Entries(l) \in 0 .. N /\ Slot(l, Entries(l)) = at
      BY EntriesInRing
    <2>2. l.toothHistory \in [0 .. N -> 0 .. Readings - 1]
      BY DEF LoggerType
    <2> QED
      BY <1>1, <1>4, <1>6, <2>1, <2>2, ZenonT(60) DEF Entry
  <1>9. Entries(l) \in 0 .. N
    BY EntriesInRing
  <1>10. InOrder(m)
    <2> SUFFICES ASSUME NEW j \in 0 .. N, j + 1 < Entries(m)
                 PROVE  Entry(m, j + 1) = Following(Entry(m, j))
      BY DEF InOrder
    <2>1. Entries(m) = Entries(l) + 1 /\ j + 1 \in 0 .. N
      BY <1>5, <1>9, Sizes
    <2>2. CASE j + 1 < Entries(l)
      BY <1>7, <1>9, <2>1, <2>2 DEF InOrder
    <2>3. CASE j + 1 = Entries(l)
      <3>1. Entry(m, j + 1) = reading
        BY <1>8, <2>3
      <3>2. Entry(m, j) = Entry(l, j) /\ j = Entries(l) - 1
        BY <1>7, <1>9, <2>3
      <3> QED
        BY <3>1, <3>2, <2>3, <1>9 DEF UpTo
    <2> QED
      BY <1>9, <2>1, <2>2, <2>3
  <1>11. UpTo(m, Following(reading))
    BY <1>5, <1>8, <1>9, Sizes DEF UpTo
  <1> QED
    BY <1>5, <1>10, <1>11 DEF m

\* An entry that is sent leaves the others as they were.
LEMMA SentInOrder ==
  ASSUME NEW l \in LoggerType, Entries(l) > 0, InOrder(l), NEW m \in LoggerType,
         m.toothHistory = l.toothHistory,
         m.toothHistoryIndex = l.toothHistoryIndex,
         m.toothHistorySerialIndex = Around(l.toothHistorySerialIndex)
  PROVE  /\ Entries(m) = Entries(l) - 1 /\ InOrder(m)
         /\ Entry(l, 0) = l.toothHistory[l.toothHistorySerialIndex]
         /\ Entries(m) > 0 => Entry(m, 0) = Following(Entry(l, 0))
  <1>1. Entries(m) = Entries(l) - 1
    BY Sizes, SMTT(60) DEF Entries, Around, LoggerType
  <1>2. \A j \in 0 .. N : j + 1 <= N => Slot(m, j) = Slot(l, j + 1)
    <2> DEFINE from == l.toothHistorySerialIndex
    <2>1. from \in 0 .. N /\ m.toothHistorySerialIndex = IF from = N THEN 0 ELSE from + 1
      BY Sizes DEF LoggerType, Around
    <2> TAKE j \in 0 .. N
    <2> HAVE j + 1 <= N
    <2>2. Slot(l, j + 1) = IF from + (j + 1) > N THEN from + (j + 1) - N - 1 ELSE from + (j + 1)
      BY DEF Slot
    <2> DEFINE next == m.toothHistorySerialIndex
    <2>3. Slot(m, j) = IF next + j > N THEN next + j - N - 1 ELSE next + j
      BY DEF Slot
    <2> HIDE DEF from, next
    <2>4. next = IF from = N THEN 0 ELSE from + 1
      BY <2>1 DEF next
    <2> QED
      BY <2>1, <2>2, <2>3, <2>4, Sizes
  <1>3. Entries(l) \in 0 .. N
    BY EntriesInRing
  <1>4. \A j \in 0 .. N : j + 1 <= N => Entry(m, j) = Entry(l, j + 1)
    BY <1>2 DEF Entry
  <1>5. InOrder(m)
    <2> SUFFICES ASSUME NEW j \in 0 .. N, j + 1 < Entries(m)
                 PROVE  Entry(m, j + 1) = Following(Entry(m, j))
      BY DEF InOrder
    <2>1. j + 1 \in 0 .. N /\ (j + 1) + 1 < Entries(l) /\ (j + 1) + 1 <= N
      BY <1>1, <1>3, Sizes
    <2>2. Entry(m, j + 1) = Entry(l, (j + 1) + 1) /\ Entry(m, j) = Entry(l, j + 1)
      BY <1>4, <2>1
    <2> QED
      BY <2>1, <2>2 DEF InOrder
  <1>6. Entry(l, 0) = l.toothHistory[l.toothHistorySerialIndex]
    BY Sizes DEF Entry, Slot, LoggerType
  <1>7. Entries(m) > 0 => Entry(m, 0) = Following(Entry(l, 0))
    <2>1. Entries(m) > 0 => 0 + 1 < Entries(l) /\ 0 \in 0 .. N /\ 0 + 1 <= N
      BY <1>1, <1>3, Sizes
    <2>2. 0 + 1 < Entries(l) => Entry(l, 0 + 1) = Following(Entry(l, 0))
      BY Sizes DEF InOrder
    <2> QED
      BY <1>4, <2>1, <2>2
  <1> QED
    BY <1>1, <1>5, <1>6, <1>7

\* What is said of the ring depends on the ring and its indexes only.
LEMMA SameRing ==
  ASSUME NEW l, NEW m, NEW r,
         m.toothHistory = l.toothHistory, m.toothHistoryIndex = l.toothHistoryIndex,
         m.toothHistorySerialIndex = l.toothHistorySerialIndex
  PROVE  /\ Entries(m) = Entries(l) /\ \A j : Entry(m, j) = Entry(l, j)
         /\ InOrder(m) <=> InOrder(l)
         /\ UpTo(m, r) <=> UpTo(l, r)
  <1>1. Entries(m) = Entries(l) /\ \A j : Entry(m, j) = Entry(l, j)
    BY Zenon DEF Entries, Entry, Slot
  <1> QED
    BY <1>1, Zenon DEF InOrder, UpTo

(***************************************************************************)
(* The main loop's programs                                                *)
(***************************************************************************)
\* The accesses of a log of which n entries are still to be sent.
Sends(n, tail) == [i \in 1 .. n |-> "send"] \o tail

SendingOnly == <<"not ready">>
SendingAndEmptying == <<"not ready", "index", "serial index">>

LEMMA SendsSeq ==
  ASSUME NEW n \in Nat, NEW tail \in Seq(Accesses)
  PROVE  /\ Sends(n, tail) \in Seq(Accesses)
         /\ Len(Sends(n, tail)) = n + Len(tail)
         /\ \A i \in 1 .. n + Len(tail) :
                Sends(n, tail)[i] = IF i <= n THEN "send" ELSE tail[i - n]
  <1> DEFINE s == [i \in 1 .. n |-> "send"]
  <1>1. s \in Seq(Accesses)
    <2>1. s \in [1 .. n -> Accesses]
      BY DEF Accesses
    <2> QED
      BY <2>1, SeqDef
  <1>2. Len(s) = n
    BY <1>1, LenProperties
  <1> QED
    BY <1>1, <1>2, ConcatProperties DEF Sends

LEMMA SendsTail ==
  ASSUME NEW n \in Nat, NEW tail \in Seq(Accesses)
  PROVE  /\ Sends(n + 1, tail) # <<>>
         /\ Head(Sends(n + 1, tail)) = "send"
         /\ Tail(Sends(n + 1, tail)) = Sends(n, tail)
  <1> DEFINE s == Sends(n + 1, tail)
             t == Sends(n, tail)
  <1>1. n + 1 \in Nat /\ Len(tail) \in Nat
    BY LenProperties
  <1>2. /\ s \in Seq(Accesses) /\ Len(s) = n + 1 + Len(tail)
        /\ \A i \in 1 .. n + 1 + Len(tail) : s[i] = IF i <= n + 1 THEN "send" ELSE tail[i - (n + 1)]
    BY <1>1, SendsSeq
  <1>3. /\ t \in Seq(Accesses) /\ Len(t) = n + Len(tail)
        /\ \A i \in 1 .. n + Len(tail) : t[i] = IF i <= n THEN "send" ELSE tail[i - n]
    BY SendsSeq
  <1> HIDE DEF s, t
  <1>4. s # <<>>
    BY <1>1, <1>2, EmptySeq
  <1>5. /\ Tail(s) \in Seq(Accesses) /\ Len(Tail(s)) = Len(t)
        /\ \A i \in 1 .. Len(t) : Tail(s)[i] = s[i + 1]
    BY <1>1, <1>2, <1>3, <1>4, HeadTailProperties
  <1>6. ASSUME NEW i \in 1 .. Len(t) PROVE Tail(s)[i] = t[i]
    <2>1. i \in 1 .. n + Len(tail) /\ i + 1 \in 1 .. n + 1 + Len(tail) /\ i \in Int
      BY <1>1, <1>3
    <2>2. s[i + 1] = IF i + 1 <= n + 1 THEN "send" ELSE tail[(i + 1) - (n + 1)]
      BY <1>2, <2>1
    <2>3. (i + 1) - (n + 1) = i - n /\ (i + 1 <= n + 1 <=> i <= n)
      BY <2>1
    <2>4. Tail(s)[i] = s[i + 1]
      BY <1>5
    <2> QED
      BY <1>3, <2>1, <2>2, <2>3, <2>4
  <1>7. Tail(s) = t
    BY <1>3, <1>5, <1>6, SeqEqual
  <1>8. Head(s) = "send"
    BY <1>1, <1>2, <1>4
  <1> QED
    BY <1>4, <1>7, <1>8 DEF s, t

LEMMA SendsNone ==
  ASSUME NEW tail \in Seq(Accesses)
  PROVE  Sends(0, tail) = tail
  <1>1. 0 \in Nat /\ Len(tail) \in Nat
    BY LenProperties
  <1>2. Sends(0, tail) \in Seq(Accesses) /\ Len(Sends(0, tail)) = Len(tail)
    BY <1>1, SendsSeq
  <1>3. \A i \in 1 .. Len(tail) : Sends(0, tail)[i] = tail[i]
    BY <1>1, SendsSeq
  <1> QED
    BY <1>2, <1>3, SeqEqual

LEMMA Programs ==
  /\ SendingOnly \in Seq(Accesses) /\ SendingAndEmptying \in Seq(Accesses)
  /\ StartToothLog \in Seq(Accesses) /\ StartCompositeLog \in Seq(Accesses)
  /\ StopToothLog \in Seq(Accesses) /\ StopCompositeLog \in Seq(Accesses)
  /\ BoostCutBit \in Seq(Accesses) /\ <<"zeros">> \in Seq(Accesses) /\ <<>> \in Seq(Accesses)
  BY DEF SendingOnly, SendingAndEmptying, StartToothLog, StartCompositeLog, StopToothLog,
         StopCompositeLog, BoostCutBit, Accesses

\* What a program of n accesses begins with, and what is left of it.
LEMMA Program1 ==
  ASSUME NEW a
  PROVE  /\ <<a>> # <<>> /\ Len(<<a>>) = 1
         /\ Head(<<a>>) = a /\ Tail(<<a>>) = <<>>
  <1>1. <<a>> # <<>> /\ Len(<<a>>) = 1
    OBVIOUS
  <1>2. Head(<<a>>) = a
    OBVIOUS
  <1>3. Tail(<<a>>) = <<>>
    OBVIOUS
  <1> QED
    BY <1>1, <1>2, <1>3

LEMMA Program2 ==
  ASSUME NEW a, NEW b
  PROVE  /\ <<a, b>> # <<>> /\ Len(<<a, b>>) = 2
         /\ Head(<<a, b>>) = a /\ Tail(<<a, b>>) = <<b>>
  <1>1. <<a, b>> # <<>> /\ Len(<<a, b>>) = 2
    OBVIOUS
  <1>2. Head(<<a, b>>) = a
    OBVIOUS
  <1>3. Tail(<<a, b>>) = <<b>>
    OBVIOUS
  <1> QED
    BY <1>1, <1>2, <1>3

LEMMA Program3 ==
  ASSUME NEW a, NEW b, NEW c
  PROVE  /\ <<a, b, c>> # <<>> /\ Len(<<a, b, c>>) = 3
         /\ Head(<<a, b, c>>) = a /\ Tail(<<a, b, c>>) = <<b, c>>
  <1>1. <<a, b, c>> # <<>> /\ Len(<<a, b, c>>) = 3
    OBVIOUS
  <1>2. Head(<<a, b, c>>) = a
    OBVIOUS
  <1>3. Tail(<<a, b, c>>) = <<b, c>>
    OBVIOUS
  <1> QED
    BY <1>1, <1>2, <1>3

\* The programs that start a logger, access by access.
LEMMA StartPrograms ==
  ASSUME NEW P \in {StartToothLog, StartCompositeLog}
  PROVE  /\ P \in Seq(Accesses) /\ Len(P) = 6
         /\ P[1] \in {"tooth on", "composite on"}
         /\ P[2] \in {"tooth off", "composite off"}
         /\ P[3] = "not ready" /\ P[4] = "index" /\ P[5] = "serial index" /\ P[6] = "attach"
  <1>1. P \in Seq(Accesses)
    BY Programs
  <1>2. CASE P = StartToothLog
    BY <1>1, <1>2 DEF StartToothLog
  <1>3. CASE P = StartCompositeLog
    BY <1>1, <1>3 DEF StartCompositeLog
  <1> QED
    BY <1>2, <1>3

LEMMA StartProgramsTail ==
  ASSUME NEW P \in {StartToothLog, StartCompositeLog}, NEW i \in 1 .. 6
  PROVE  /\ Head(SubSeq(P, i, 6)) = P[i]
         /\ Tail(SubSeq(P, i, 6)) = SubSeq(P, i + 1, 6)
         /\ SubSeq(P, 1, 6) = P /\ SubSeq(P, 7, 6) = <<>>
  <1>1. P \in Seq(Accesses) /\ Len(P) = 6
    BY StartPrograms
  <1>2. i \in 1 .. Len(P) /\ 6 \in i .. Len(P)
    BY <1>1
  <1>3. /\ Head(SubSeq(P, i, 6)) = P[i]
        /\ Tail(SubSeq(P, i, 6)) = SubSeq(P, i + 1, 6)
    BY <1>1, <1>2, HeadTailOfSubSeq
  <1>4. SubSeq(P, 1, 6) = P
    BY <1>1, SubSeqFull
  <1>5. SubSeq(P, 7, 6) = <<>>
    BY SubSeqEmpty
  <1> QED
    BY <1>3, <1>4, <1>5

\* Sending a log: what SendLog puts before the main loop.
LEMMA SendLogIs ==
  ASSUME LoggerTypeOK
  PROVE  \/ SendLog \in {<<>>, <<"zeros">>}
         \/ logger.ready /\ logger.toothLogEnabled /\ SendLog = Sends(N, SendingOnly)
         \/ /\ logger.ready /\ ~ logger.toothLogEnabled /\ logger.compositeLogEnabled
            /\ SendLog = Sends(N, SendingAndEmptying)
  <1>1. logger.toothLogEnabled \in BOOLEAN /\ logger.compositeLogEnabled \in BOOLEAN
    BY DEF LoggerTypeOK
  <1> QED
    BY <1>1, Sizes, Zenon
    DEF SendLog, sendToothLog, sendCompositeLog, SendEntries, Sends, SendingOnly, SendingAndEmptying

(***************************************************************************)
(* The inductive invariant                                                 *)
(***************************************************************************)
\* The ring holds a whole log, or what was read since the last one was sent;
\* the composite logger's logs begin at the ring's start.
Quiet(l, r) ==
    /\ InOrder(l)
    /\ IF l.ready THEN Entries(l) = N ELSE UpTo(l, r)
    /\ ~ (l.toothLogEnabled /\ l.compositeLogEnabled)
    /\ l.compositeLogEnabled => l.toothHistorySerialIndex = 0

\* No log is being sent and no index reset: the programs that only set flags.
Resting ==
    /\ todo \in {<<>>, BoostCutBit, StopToothLog, StopCompositeLog, <<"attach normal">>, <<"zeros">>}
    /\ Quiet(logger, reading) /\ sent = <<>>

\* The ready bit that the main loop will write back is stale by one interrupt
\* at most, which filled the ring.
Storing ==
    /\ todo = <<"store status1">>
    /\ Quiet(logger, reading) /\ sent = <<>>
    /\ logger.held => logger.ready
    /\ logger.ready /\ ~ logger.held => logger.struck /\ UpTo(logger, reading)

\* A logger is started while no interrupt reaches it: each access adds to what
\* is known of the logger that will be attached.
OneLogger(l) == ~ (l.toothLogEnabled /\ l.compositeLogEnabled)

Starting ==
    /\ logger.attached = "normal" /\ sent = <<>>
    /\ \E P \in {StartToothLog, StartCompositeLog}, i \in 1 .. 6 :
          /\ todo = SubSeq(P, i, 6)
          /\ i > 2 => OneLogger(logger)
          /\ i > 3 => ~ logger.ready
          /\ i > 4 => logger.toothHistoryIndex = 0
          /\ i > 5 => logger.toothHistorySerialIndex = 0

\* n entries of a log are still to be sent: the interrupts leave the ring.
Sending(n) ==
    /\ \/ todo = Sends(n, SendingOnly) /\ ~ logger.compositeLogEnabled
       \/ /\ todo = Sends(n, SendingAndEmptying) /\ ~ logger.toothLogEnabled
          /\ logger.toothHistorySerialIndex = N - n
    /\ logger.ready /\ Entries(logger) = n /\ Len(sent) = N - n
    /\ InOrder(logger)
    /\ n > 0 /\ sent # <<>> => Entry(logger, 0) = Following(sent[Len(sent)])

\* The composite log was sent and its indexes are reset, one after the other:
\* the one interrupt that comes before each makes no log ready.
Emptying ==
    /\ todo = <<"index", "serial index">>
    /\ sent = <<>> /\ ~ logger.ready /\ ~ logger.toothLogEnabled
    /\ logger.toothHistorySerialIndex = N
    /\ logger.toothHistoryIndex \in IF logger.struck THEN {0, N} ELSE {N}

Emptied ==
    /\ todo = <<"serial index">>
    /\ sent = <<>> /\ ~ logger.ready /\ ~ logger.toothLogEnabled
    /\ logger.toothHistorySerialIndex = N
    /\ logger.toothHistoryIndex \in IF logger.struck THEN {0, 1} ELSE {0}
    /\ logger.toothHistoryIndex = 1 => Following(logger.toothHistory[0]) = reading

Phase ==
    Resting \/ Storing \/ Starting \/ (\E n \in 0 .. N : Sending(n)) \/ Emptying \/ Emptied

LoggerInv == LoggerTypeOK /\ SentLogIsConsecutive /\ Phase

LEMMA LoggerInitInv == LoggerInit => LoggerInv
  <1> SUFFICES ASSUME LoggerInit PROVE LoggerInv
    OBVIOUS
  <1>1. logger \in LoggerType
    BY Sizes DEF LoggerInit, LoggerType
  <1>2. LoggerTypeOK
    <2>1. sent \in Seq(0 .. Readings - 1) /\ Len(sent) = 0
      BY DEF LoggerInit
    <2>2. reading \in 0 .. Readings - 1 /\ todo \in Seq(Accesses)
      BY Sizes, Programs DEF LoggerInit
    <2> QED
      BY <1>1, <2>1, <2>2, Sizes DEF LoggerTypeOK, LoggerType, N
  <1>3. SentLogIsConsecutive
    BY DEF LoggerInit, SentLogIsConsecutive
  <1>4. Resting
    <2>1. Entries(logger) = 0 /\ ~ logger.ready /\ ~ logger.compositeLogEnabled
      BY DEF LoggerInit, Entries
    <2>2. InOrder(logger) /\ UpTo(logger, reading)
      BY <2>1, Sizes DEF InOrder, UpTo
    <2> QED
      BY <2>1, <2>2 DEF Resting, Quiet, LoggerInit
  <1> QED
    BY <1>2, <1>3, <1>4 DEF LoggerInv, Phase

(***************************************************************************)
(* The interrupts                                                          *)
(***************************************************************************)
\* What both interrupts do, with a reading that the logger takes or not.
Strike(takes) ==
    /\ logger.attached = "logger" /\ MayStrike
    /\ logger' = Struck(IF takes THEN Added(logger) ELSE logger)
    /\ reading' = IF takes THEN Following(reading) ELSE reading
    /\ UNCHANGED <<todo, sent>>

LEMMA Strikes ==
  ASSUME LoggerTypeOK, loggerPrimaryISR \/ loggerSecondaryISR
  PROVE  \E takes \in BOOLEAN : Strike(takes)
  <1>1. CASE loggerPrimaryISR
    <2>1. logger.compositeLogEnabled \in BOOLEAN
      BY DEF LoggerTypeOK
    <2> QED
      BY <1>1, <2>1 DEF loggerPrimaryISR, Strike, Following
  <1>2. CASE loggerSecondaryISR
    BY <1>2 DEF loggerSecondaryISR, Strike, Following
  <1> QED
    BY <1>1, <1>2

\* An interrupt may fill the ring, and changes nothing else of the logger.
LEMMA AddedIs ==
  ASSUME LoggerTypeOK
  PROVE  /\ Added(logger) \in LoggerType
         /\ logger.ready => Added(logger) = logger
         /\ Added(logger).toothHistorySerialIndex = logger.toothHistorySerialIndex
         /\ Added(logger).toothLogEnabled = logger.toothLogEnabled
         /\ Added(logger).compositeLogEnabled = logger.compositeLogEnabled
         /\ Added(logger).attached = logger.attached
         /\ Added(logger).held = logger.held
  <1>1. logger \in LoggerType
    BY DEF LoggerTypeOK, LoggerType, N
  <1>2. Added(logger) = IF logger.ready THEN logger ELSE Logged(logger)
    BY DEF Added
  <1> QED
    BY <1>1, <1>2, LoggedIs

LEMMA StrikeIs ==
  ASSUME LoggerTypeOK, NEW takes \in BOOLEAN, Strike(takes),
         NEW l, l = IF takes THEN Added(logger) ELSE logger
  PROVE  /\ LoggerTypeOK'
         /\ logger'.toothHistory = l.toothHistory
         /\ logger'.toothHistoryIndex = l.toothHistoryIndex
         /\ logger'.toothHistorySerialIndex = logger.toothHistorySerialIndex
         /\ logger'.ready = l.ready
         /\ logger'.toothLogEnabled = logger.toothLogEnabled
         /\ logger'.compositeLogEnabled = logger.compositeLogEnabled
         /\ logger'.held = logger.held
         /\ logger'.attached = logger.attached
         /\ logger'.struck = (todo # <<>> /\ Head(todo) \in AtOnce)
  <1>1. logger \in LoggerType
    BY DEF LoggerTypeOK, LoggerType, N
  <1>2. /\ l \in LoggerType
        /\ l.toothHistorySerialIndex = logger.toothHistorySerialIndex
        /\ l.toothLogEnabled = logger.toothLogEnabled
        /\ l.compositeLogEnabled = logger.compositeLogEnabled
        /\ l.held = logger.held
        /\ l.attached = logger.attached
    BY <1>1, AddedIs
  <1>3. logger' = [l EXCEPT !.struck = (todo # <<>> /\ Head(todo) \in AtOnce)]
    BY DEF Strike, Struck
  <1> DEFINE b == todo # <<>> /\ Head(todo) \in AtOnce
  <1>4. b \in BOOLEAN
    OBVIOUS
  <1> HIDE DEF b
  <1>5. logger' = [l EXCEPT !.struck = b]
    BY <1>3 DEF b
  <1>6. logger' \in LoggerType
    BY <1>2, <1>4, <1>5 DEF LoggerType
  <1>7. /\ logger'.toothHistory = l.toothHistory
        /\ logger'.toothHistoryIndex = l.toothHistoryIndex
        /\ logger'.toothHistorySerialIndex = l.toothHistorySerialIndex
        /\ logger'.ready = l.ready
        /\ logger'.toothLogEnabled = l.toothLogEnabled
        /\ logger'.compositeLogEnabled = l.compositeLogEnabled
        /\ logger'.held = l.held
        /\ logger'.attached = l.attached
        /\ logger'.struck = b
    BY <1>2, <1>5 DEF LoggerType
  <1>8. reading' \in 0 .. Readings - 1 /\ todo' = todo /\ sent' = sent
    BY FollowingIsReading DEF Strike, LoggerTypeOK
  <1>9. LoggerTypeOK'
    BY <1>6, <1>8 DEF LoggerTypeOK, LoggerType, N
  <1> QED
    BY <1>2, <1>7, <1>9 DEF b

\* Whatever is read, the ring stays in order.
LEMMA StrikeQuiet ==
  ASSUME LoggerTypeOK, Quiet(logger, reading), NEW takes \in BOOLEAN, Strike(takes)
  PROVE  /\ Quiet(logger', reading')
         /\ logger.ready => logger'.ready /\ Entries(logger') = Entries(logger)
         /\ ~ logger.ready => UpTo(logger', reading')
  <1> DEFINE l == IF takes THEN Added(logger) ELSE logger
  <1>1. logger \in LoggerType
    BY DEF LoggerTypeOK, LoggerType, N
  <1>2. /\ logger'.toothHistory = l.toothHistory
        /\ logger'.toothHistoryIndex = l.toothHistoryIndex
        /\ logger'.toothHistorySerialIndex = l.toothHistorySerialIndex
        /\ logger'.ready = l.ready
        /\ logger'.toothHistorySerialIndex = logger.toothHistorySerialIndex
        /\ logger'.toothLogEnabled = logger.toothLogEnabled
        /\ logger'.compositeLogEnabled = logger.compositeLogEnabled
    BY StrikeIs, AddedIs
  <1>3. /\ Entries(logger') = Entries(l) /\ (InOrder(logger') <=> InOrder(l))
        /\ UpTo(logger', reading') <=> UpTo(l, reading')
    BY <1>2, SameRing
  <1>4. CASE logger.ready
    <2>1. l = logger
      BY <1>4, AddedIs
    <2> QED
      BY <1>2, <1>3, <1>4, <2>1 DEF Quiet
  <1>5. CASE ~ logger.ready
    <2>1. InOrder(logger) /\ UpTo(logger, reading)
      BY <1>5 DEF Quiet
    <2>2. CASE ~ takes
      <3>1. l = logger /\ reading' = reading
        BY <2>2 DEF Strike
      <3> QED
        BY <1>2, <1>3, <1>5, <2>1, <3>1 DEF Quiet
    <2>3. CASE takes
      <3>1. l = Logged(logger) /\ reading' = Following(reading)
        BY <1>5, <2>3 DEF Strike, Added
      <3>2. /\ InOrder(l) /\ UpTo(l, reading')
            /\ l.ready <=> Entries(l) = N
        BY <1>1, <2>1, <3>1, LoggedInOrder
      <3> HIDE DEF l
      <3> QED
        BY <1>2, <1>3, <1>5, <3>2 DEF Quiet
    <2> QED
      BY <2>2, <2>3
  <1> QED
    BY <1>4, <1>5, <1>1 DEF LoggerType

LEMMA StrikeStep ==
  ASSUME LoggerInv, NEW takes \in BOOLEAN, Strike(takes)
  PROVE  LoggerInv'
  <1> DEFINE l == IF takes THEN Added(logger) ELSE logger
  <1>1. LoggerTypeOK /\ SentLogIsConsecutive /\ Phase
    BY DEF LoggerInv
  <1>2. LoggerTypeOK' /\ todo' = todo /\ sent' = sent
    BY <1>1, StrikeIs DEF Strike
  <1>3. SentLogIsConsecutive'
    BY <1>1, <1>2 DEF SentLogIsConsecutive
  <1>4. /\ logger'.toothHistory = l.toothHistory
        /\ logger'.toothHistoryIndex = l.toothHistoryIndex
        /\ logger'.toothHistorySerialIndex = logger.toothHistorySerialIndex
        /\ logger'.ready = l.ready
        /\ logger'.toothLogEnabled = logger.toothLogEnabled
        /\ logger'.compositeLogEnabled = logger.compositeLogEnabled
        /\ logger'.held = logger.held
        /\ logger'.struck = (todo # <<>> /\ Head(todo) \in AtOnce)
    BY <1>1, StrikeIs
  <1>5. /\ logger \in LoggerType /\ logger.ready \in BOOLEAN
        /\ logger.ready => l = logger
    BY <1>1, AddedIs DEF LoggerTypeOK, LoggerType, N
  <1>6. ASSUME Resting PROVE Resting'
    BY <1>1, <1>2, <1>6, StrikeQuiet DEF Resting
  <1>7. ASSUME Storing PROVE Storing'
    <2>1. ~ logger.struck /\ logger'.struck
      <3>1. todo # <<>> /\ Head(todo) = "store status1"
        BY <1>7, Program1, Zenon DEF Storing
      <3> QED
        BY <1>4, <3>1, Zenon DEF Strike, MayStrike, AtOnce
    <2>2. logger.ready <=> logger.held
      BY <2>1, <1>7 DEF Storing
    <2>3. logger'.held => logger'.ready
      BY <1>4, <1>5, <2>2
    <2>4. /\ Quiet(logger', reading')
          /\ ~ logger.ready => UpTo(logger', reading')
      BY <1>1, <1>7, StrikeQuiet DEF Storing
    <2> QED
      BY <1>2, <1>4, <1>7, <2>1, <2>2, <2>3, <2>4 DEF Storing
  <1>8. ~ Starting
    BY DEF Starting, Strike
  <1>9. ASSUME NEW n \in 0 .. N, Sending(n) PROVE Sending(n)'
    <2>1. l = logger
      BY <1>5, <1>9 DEF Sending
    <2>2. /\ Entries(logger') = Entries(logger) /\ Entry(logger', 0) = Entry(logger, 0)
          /\ InOrder(logger') <=> InOrder(logger)
      BY <1>4, <2>1, SameRing
    <2> QED
      BY <1>2, <1>4, <1>9, <2>1, <2>2, Zenon DEF Sending
  <1>10. ASSUME Emptying PROVE Emptying'
    <2>1. ~ logger.struck /\ logger'.struck
      <3>1. todo # <<>> /\ Head(todo) = "index"
        BY <1>10, Program2, Zenon DEF Emptying
      <3> QED
        BY <1>4, <3>1, Zenon DEF Strike, MayStrike, AtOnce
    <2>2. /\ logger.toothHistoryIndex = N /\ logger.toothHistorySerialIndex = N /\ ~ logger.ready
      BY <1>10, <2>1 DEF Emptying
    <2>3. logger'.toothHistoryIndex \in {0, N} /\ ~ logger'.ready
      <3>1. CASE ~ takes
        BY <1>4, <2>2, <3>1
      <3>2. CASE takes
        <4>1. l = Logged(logger)
          BY <2>2, <3>2 DEF Added
        <4>0. Around(logger.toothHistoryIndex) = 0
          BY <2>2, Sizes DEF Around
        <4>2. l.toothHistoryIndex = 0
          BY <1>1, <1>5, <4>0, <4>1, LoggedIs
        <4>3. l.ready = IsReady(logger, 0)
          BY <1>1, <1>5, <4>0, <4>1, LoggedIs
        <4>4. ~ IsReady(logger, 0)
          BY <2>2, Sizes DEF IsReady
        <4> QED
          BY <1>4, <4>2, <4>3, <4>4
      <3> QED
        BY <3>1, <3>2
    <2> QED
      BY <1>2, <1>4, <1>10, <2>1, <2>3 DEF Emptying
  <1>11. ASSUME Emptied PROVE Emptied'
    <2>1. ~ logger.struck /\ logger'.struck
      <3>1. todo # <<>> /\ Head(todo) = "serial index"
        BY <1>11, Program1, Zenon DEF Emptied
      <3> QED
        BY <1>4, <3>1, Zenon DEF Strike, MayStrike, AtOnce
    <2>2. /\ logger.toothHistoryIndex = 0 /\ logger.toothHistorySerialIndex = N /\ ~ logger.ready
      BY <1>11, <2>1 DEF Emptied
    <2>3. /\ logger'.toothHistoryIndex \in {0, 1} /\ ~ logger'.ready
          /\ logger'.toothHistoryIndex = 1 => Following(logger'.toothHistory[0]) = reading'
      <3>1. CASE ~ takes
        BY <1>4, <2>2, <3>1
      <3>2. CASE takes
        <4>1. l = Logged(logger) /\ reading' = Following(reading)
          BY <2>2, <3>2 DEF Added, Strike
        <4>0. Around(logger.toothHistoryIndex) = 1
          BY <2>2, Sizes DEF Around
        <4>2. l.toothHistoryIndex = 1
          BY <1>1, <1>5, <4>0, <4>1, LoggedIs
        <4>3. l.ready = IsReady(logger, 1)
          BY <1>1, <1>5, <4>0, <4>1, LoggedIs
        <4>4. ~ IsReady(logger, 1)
          BY <2>2, Sizes DEF IsReady
        <4>5. l.toothHistory[0] = reading
          <5>1. l.toothHistory = [logger.toothHistory EXCEPT ![0] = reading]
            BY <1>1, <1>5, <2>2, <4>1, LoggedIs
          <5>2. logger.toothHistory \in [0 .. N -> 0 .. Readings - 1] /\ 0 \in 0 .. N
            BY <1>5, Sizes DEF LoggerType
          <5> QED
            BY <5>1, <5>2
        <4> QED
          BY <1>4, <4>1, <4>2, <4>3, <4>4, <4>5
      <3> QED
        BY <3>1, <3>2
    <2> QED
      BY <1>2, <1>4, <1>11, <2>1, <2>3 DEF Emptied
  <1>12. Phase'
    BY <1>1, <1>6, <1>7, <1>8, <1>9, <1>10, <1>11 DEF Phase
  <1> QED
    BY <1>2, <1>3, <1>12 DEF LoggerInv

(***************************************************************************)
(* The accesses of the main loop                                           *)
(***************************************************************************)
\* What an access changes, field by field.
LEMMA AccessIs ==
  ASSUME LoggerTypeOK, Access, NEW h, h = Head(todo)
  PROVE  /\ h \in Accesses /\ todo' = Tail(todo) /\ todo' \in Seq(Accesses)
         /\ reading' = reading
         /\ logger' \in LoggerType
         /\ logger'.toothHistory = logger.toothHistory
         /\ logger'.toothHistoryIndex = IF h = "index" THEN 0 ELSE logger.toothHistoryIndex
         /\ logger'.toothHistorySerialIndex =
                IF h = "serial index" THEN 0
                ELSE IF h = "send" THEN Around(logger.toothHistorySerialIndex)
                ELSE logger.toothHistorySerialIndex
         /\ logger'.ready = IF h = "not ready" THEN FALSE
                            ELSE IF h = "store status1" THEN logger.held ELSE logger.ready
         /\ h = "load status1" => logger'.held = logger.ready
         /\ logger'.toothLogEnabled = IF h = "tooth on" THEN TRUE
                                      ELSE IF h = "tooth off" THEN FALSE ELSE logger.toothLogEnabled
         /\ logger'.compositeLogEnabled =
                IF h = "composite on" THEN TRUE
                ELSE IF h = "composite off" THEN FALSE ELSE logger.compositeLogEnabled
         /\ h \notin {"attach", "attach normal"} => logger'.attached = logger.attached
         /\ logger'.struck = FALSE
         /\ h \notin {"send", "not ready"} => sent' = sent
         /\ h = "not ready" => sent' = <<>>
         /\ h = "send" => sent' = Append(sent, logger.toothHistory[logger.toothHistorySerialIndex])
  <1>1. /\ todo # <<>> /\ todo \in Seq(Accesses) /\ todo' = Tail(todo) /\ reading' = reading
        /\ logger \in LoggerType
        /\ logger' = [Accessed(logger, h) EXCEPT !.struck = FALSE]
    BY DEF Access, LoggerTypeOK, LoggerType, N
  <1>2. h \in Accesses /\ todo' \in Seq(Accesses)
    BY <1>1, HeadTailProperties
  <1>3. Around(logger.toothHistorySerialIndex) \in 0 .. N
    BY <1>1, Sizes, SMTT(60) DEF LoggerType, Around
  <1>4. /\ h \notin {"send", "not ready"} => sent' = sent
        /\ h = "not ready" => sent' = <<>>
        /\ h = "send" => sent' = Append(sent, logger.toothHistory[logger.toothHistorySerialIndex])
    BY DEF Access
  <1>5. Accessed(logger, h) \in LoggerType
    <2>1. ASSUME h \in {"tooth on", "tooth off", "composite on", "composite off", "not ready"}
          PROVE  Accessed(logger, h) \in LoggerType
      BY <1>1, <2>1 DEF Accessed, LoggerType
    <2>2. ASSUME h \in {"index", "serial index", "attach", "attach normal"}
          PROVE  Accessed(logger, h) \in LoggerType
      <3>1. 0 \in 0 .. N
        BY Sizes
      <3> QED
        BY <1>1, <2>2, <3>1 DEF Accessed, LoggerType
    <2>3. ASSUME h \in {"zeros", "load status1", "store status1"}
          PROVE  Accessed(logger, h) \in LoggerType
      BY <1>1, <2>3 DEF Accessed, LoggerType
    <2>4. ASSUME h = "send"
          PROVE  Accessed(logger, h) \in LoggerType
      <3>1. Accessed(logger, h) = [logger EXCEPT !.toothHistorySerialIndex = Around(@)]
        BY <2>4 DEF Accessed
      <3> QED
        BY <1>1, <1>3, <3>1 DEF LoggerType
    <2> QED
      BY <1>2, <2>1, <2>2, <2>3, <2>4 DEF Accesses
  <1>6. logger' \in LoggerType /\ logger'.struck = FALSE
    BY <1>1, <1>5 DEF LoggerType
  <1>7. /\ logger'.toothHistory = logger.toothHistory
        /\ logger'.toothHistoryIndex = IF h = "index" THEN 0 ELSE logger.toothHistoryIndex
        /\ logger'.toothHistorySerialIndex =
                IF h = "serial index" THEN 0
                ELSE IF h = "send" THEN Around(logger.toothHistorySerialIndex)
                ELSE logger.toothHistorySerialIndex
    BY <1>1, <1>2 DEF Accessed, Accesses, LoggerType
  <1>8. /\ logger'.ready = IF h = "not ready" THEN FALSE
                            ELSE IF h = "store status1" THEN logger.held ELSE logger.ready
        /\ h = "load status1" => logger'.held = logger.ready
    BY <1>1, <1>2 DEF Accessed, Accesses, LoggerType
  <1>9. /\ logger'.toothLogEnabled = IF h = "tooth on" THEN TRUE
                                      ELSE IF h = "tooth off" THEN FALSE ELSE logger.toothLogEnabled
        /\ logger'.compositeLogEnabled =
                IF h = "composite on" THEN TRUE
                ELSE IF h = "composite off" THEN FALSE ELSE logger.compositeLogEnabled
        /\ h \notin {"attach", "attach normal"} => logger'.attached = logger.attached
    BY <1>1, <1>2 DEF Accessed, Accesses, LoggerType
  <1> QED
    BY <1>1, <1>2, <1>4, <1>6, <1>7, <1>8, <1>9

\* Flags and the ready bit apart, an access that leaves the ring leaves what is
\* said of it.
LEMMA RingStays ==
  ASSUME LoggerTypeOK, Access, NEW h, h = Head(todo),
         h \notin {"index", "serial index", "send"}
  PROVE  /\ Entries(logger') = Entries(logger)
         /\ InOrder(logger') <=> InOrder(logger)
         /\ UpTo(logger', reading') <=> UpTo(logger, reading)
         /\ logger'.toothHistoryIndex = logger.toothHistoryIndex
         /\ logger'.toothHistorySerialIndex = logger.toothHistorySerialIndex
  BY AccessIs, SameRing

LEMMA FlagStep ==
  ASSUME LoggerInv, Resting, Access
  PROVE  Phase' /\ sent' = sent
  <1>1. LoggerTypeOK /\ Quiet(logger, reading) /\ sent = <<>>
    BY DEF LoggerInv, Resting
  <1> DEFINE h == Head(todo)
  <1>2. ASSUME h \in {"zeros", "tooth off", "composite off", "attach normal", "load status1"}
        PROVE  Quiet(logger', reading') /\ sent' = sent
    <2>1. /\ Entries(logger') = Entries(logger)
          /\ InOrder(logger') <=> InOrder(logger)
          /\ UpTo(logger', reading') <=> UpTo(logger, reading)
          /\ logger'.toothHistorySerialIndex = logger.toothHistorySerialIndex
      BY <1>1, <1>2, RingStays
    <2>2. /\ logger'.ready = logger.ready
          /\ logger'.toothLogEnabled => logger.toothLogEnabled
          /\ logger'.compositeLogEnabled => logger.compositeLogEnabled
          /\ sent' = sent
      BY <1>1, <1>2, AccessIs
    <2> QED
      BY <1>1, <2>1, <2>2 DEF Quiet
  <1>3. CASE todo = <<>>
    BY <1>3 DEF Access
  <1>4. CASE todo = BoostCutBit
    <2>1. h = "load status1" /\ Tail(todo) = <<"store status1">>
      BY <1>4, Program2, Zenon DEF BoostCutBit
    <2>2. todo' = <<"store status1">> /\ logger'.held = logger'.ready
      BY <1>1, <2>1, AccessIs
    <2>3. Storing'
      BY <1>1, <1>2, <2>1, <2>2 DEF Storing
    <2> QED
      BY <1>2, <2>1, <2>3 DEF Phase
  <1>5. CASE todo \in {StopToothLog, StopCompositeLog}
    <2>1. h \in {"tooth off", "composite off"} /\ Tail(todo) = <<"attach normal">>
      <3>1. CASE todo = <<"tooth off", "attach normal">>
        BY <3>1, Program2, Zenon
      <3>2. CASE todo = <<"composite off", "attach normal">>
        BY <3>2, Program2, Zenon
      <3> QED
        BY <1>5, <3>1, <3>2 DEF StopToothLog, StopCompositeLog
    <2>2. todo' = <<"attach normal">>
      BY <1>1, <2>1, AccessIs
    <2>3. Resting'
      BY <1>1, <1>2, <2>1, <2>2 DEF Resting
    <2> QED
      BY <1>2, <2>1, <2>3 DEF Phase
  <1>6. CASE todo \in {<<"attach normal">>, <<"zeros">>}
    <2>1. h \in {"attach normal", "zeros"} /\ Tail(todo) = <<>>
      BY <1>6, Program1, Zenon
    <2>2. todo' = <<>>
      BY <1>1, <2>1, AccessIs
    <2>3. Resting'
      BY <1>1, <1>2, <2>1, <2>2 DEF Resting
    <2> QED
      BY <1>2, <2>1, <2>3 DEF Phase
  <1> QED
    BY <1>3, <1>4, <1>5, <1>6 DEF Resting

\* The ready bit is written back: when the log became ready in between, it is
\* forgotten that it is, and what the ring holds is then up to date.
LEMMA StoreStep ==
  ASSUME LoggerInv, Storing, Access
  PROVE  Phase' /\ sent' = sent
  <1>1. LoggerTypeOK /\ Quiet(logger, reading) /\ sent = <<>> /\ todo = <<"store status1">>
    BY DEF LoggerInv, Storing
  <1>2. Head(todo) = "store status1" /\ Tail(todo) = <<>>
    BY <1>1, Program1, Zenon
  <1>3. /\ todo' = <<>> /\ sent' = sent /\ logger'.ready = logger.held
        /\ logger'.toothLogEnabled = logger.toothLogEnabled
        /\ logger'.compositeLogEnabled = logger.compositeLogEnabled
    BY <1>1, <1>2, AccessIs
  <1>4. /\ Entries(logger') = Entries(logger)
        /\ InOrder(logger') <=> InOrder(logger)
        /\ UpTo(logger', reading') <=> UpTo(logger, reading)
        /\ logger'.toothHistorySerialIndex = logger.toothHistorySerialIndex
    BY <1>1, <1>2, RingStays
  <1>5. Quiet(logger', reading')
    BY <1>1, <1>3, <1>4 DEF Quiet, Storing
  <1> QED
    BY <1>1, <1>3, <1>5 DEF Phase, Resting

\* A logger is started: no interrupt reaches it before it is attached, with
\* an empty ring.
LEMMA StartStep ==
  ASSUME LoggerInv, Starting, Access
  PROVE  Phase' /\ sent' = sent
  <1>1. LoggerTypeOK /\ sent = <<>> /\ logger.attached = "normal" /\ todo' = Tail(todo)
    BY DEF LoggerInv, Starting, Access
  <1>2. Head(todo) \notin {"attach", "send", "attach normal"}
            => logger'.attached = "normal" /\ sent' = <<>>
    BY <1>1, AccessIs
  <1>3. PICK P \in {StartToothLog, StartCompositeLog}, i \in 1 .. 6 :
          /\ todo = SubSeq(P, i, 6)
          /\ i > 2 => OneLogger(logger)
          /\ i > 3 => ~ logger.ready
          /\ i > 4 => logger.toothHistoryIndex = 0
          /\ i > 5 => logger.toothHistorySerialIndex = 0
    BY DEF Starting
  <1>4. Head(todo) = P[i] /\ todo' = SubSeq(P, i + 1, 6)
    BY <1>1, <1>3, StartProgramsTail
  <1> DEFINE h == Head(todo)
  <1>5. /\ i = 1 => h \in {"tooth on", "composite on"}
        /\ i = 2 => h \in {"tooth off", "composite off"}
        /\ i = 3 => h = "not ready"
        /\ i = 4 => h = "index"
        /\ i = 5 => h = "serial index"
        /\ i = 6 => h = "attach"
        /\ i \in {1, 2, 3, 4, 5, 6}
    <2>1. /\ P[1] \in {"tooth on", "composite on"} /\ P[2] \in {"tooth off", "composite off"}
          /\ P[3] = "not ready" /\ P[4] = "index" /\ P[5] = "serial index" /\ P[6] = "attach"
      BY StartPrograms
    <2>2. h = P[i] /\ i \in {1, 2, 3, 4, 5, 6}
      BY <1>4
    <2> HIDE DEF h
    <2> QED
      BY <2>1, <2>2, Zenon
  <1>9. /\ i + 1 > 2 => OneLogger(logger')
        /\ i + 1 > 3 => ~ logger'.ready
        /\ i + 1 > 4 => logger'.toothHistoryIndex = 0
        /\ i + 1 > 5 => logger'.toothHistorySerialIndex = 0
    <2>1. h \in {"tooth off", "composite off"} => OneLogger(logger')
      BY <1>1, AccessIs DEF OneLogger
    <2>2. h \in {"not ready", "index", "serial index", "attach"}
            => (OneLogger(logger) => OneLogger(logger'))
      BY <1>1, AccessIs DEF OneLogger
    <2>3. /\ h = "not ready" => ~ logger'.ready
          /\ h \in {"index", "serial index", "attach"} => logger'.ready = logger.ready
      BY <1>1, AccessIs
    <2>4. /\ h = "index" => logger'.toothHistoryIndex = 0
          /\ h \in {"serial index", "attach"} =>
                logger'.toothHistoryIndex = logger.toothHistoryIndex
          /\ h = "serial index" => logger'.toothHistorySerialIndex = 0
          /\ h = "attach" => logger'.toothHistorySerialIndex = logger.toothHistorySerialIndex
      BY <1>1, AccessIs
    <2> HIDE DEF h
    <2>5. /\ i = 2 => OneLogger(logger')
          /\ i \in {3, 4, 5, 6} => h \in {"not ready", "index", "serial index", "attach"}
          /\ i = 3 => ~ logger'.ready
          /\ i \in {4, 5, 6} => h \in {"index", "serial index", "attach"}
          /\ i = 4 => logger'.toothHistoryIndex = 0
          /\ i \in {5, 6} => h \in {"serial index", "attach"}
          /\ i = 5 => logger'.toothHistorySerialIndex = 0
      BY <1>5, <2>1, <2>3, <2>4, Zenon
    <2>6. /\ i \in {3, 4, 5, 6} => OneLogger(logger)
          /\ i \in {4, 5, 6} => ~ logger.ready
          /\ i \in {5, 6} => logger.toothHistoryIndex = 0
          /\ i = 6 => logger.toothHistorySerialIndex = 0
      BY <1>3
    <2>7. /\ i \in {3, 4, 5, 6} => OneLogger(logger')
          /\ i \in {4, 5, 6} => ~ logger'.ready
          /\ i \in {5, 6} => logger'.toothHistoryIndex = 0
          /\ i = 6 => logger'.toothHistorySerialIndex = 0
      <3>1. i \in {3, 4, 5, 6} => OneLogger(logger')
        BY <2>2, <2>5, <2>6, Zenon
      <3>2. i \in {4, 5, 6} => ~ logger'.ready
        BY <2>3, <2>5, <2>6, Zenon
      <3>3. i \in {5, 6} => logger'.toothHistoryIndex = 0
        BY <2>4, <2>5, <2>6, Zenon
      <3>4. i = 6 => logger'.toothHistorySerialIndex = 0
        BY <1>5, <2>4, <2>6, Zenon
      <3> QED
        BY <3>1, <3>2, <3>3, <3>4
    <2>8. /\ i + 1 > 2 <=> (i = 2 \/ i \in {3, 4, 5, 6})
          /\ i + 1 > 3 <=> (i = 3 \/ i \in {4, 5, 6})
          /\ i + 1 > 4 <=> (i = 4 \/ i \in {5, 6})
          /\ i + 1 > 5 <=> (i = 5 \/ i = 6)
      OBVIOUS
    <2> QED
      BY <2>5, <2>7, <2>8, Zenon
  <1>6. CASE i < 6
    <2>1. i + 1 \in 1 .. 6 /\ i \in {1, 2, 3, 4, 5}
      BY <1>6
    <2>2. Head(todo) \notin {"attach", "send", "attach normal"}
      BY <1>5, <2>1
    <2>3. Starting'
      BY <1>2, <1>4, <1>9, <2>1, <2>2 DEF Starting
    <2>4. sent' = sent
      BY <1>1, <1>2, <2>2
    <2> QED
      BY <2>3, <2>4 DEF Phase
  <1>7. CASE i = 6
    <2>1. Head(todo) = "attach" /\ todo' = <<>>
      <3>1. i + 1 = 7 /\ SubSeq(P, 7, 6) = <<>>
        BY <1>7, StartProgramsTail
      <3> QED
        BY <1>4, <1>5, <1>7, <3>1
    <2>2. /\ sent' = sent /\ OneLogger(logger') /\ ~ logger'.ready
          /\ logger'.toothHistoryIndex = 0 /\ logger'.toothHistorySerialIndex = 0
      <3>1. sent' = sent
        BY <1>1, <2>1, AccessIs
      <3> QED
        BY <1>7, <1>9, <3>1
    <2>3. Entries(logger') = 0
      BY <2>2 DEF Entries
    <2>4. InOrder(logger') /\ UpTo(logger', reading')
      BY <2>3, Sizes DEF InOrder, UpTo
    <2>5. Quiet(logger', reading')
      BY <2>2, <2>4 DEF Quiet, OneLogger
    <2> QED
      BY <1>1, <2>1, <2>2, <2>5 DEF Phase, Resting
  <1> QED
    BY <1>6, <1>7

\* An entry is sent, or the log is done with.
LEMMA SendStep ==
  ASSUME LoggerInv, NEW n \in 0 .. N, Sending(n), Access
  PROVE  /\ Phase' /\ SentLogIsConsecutive'
         /\ sent' \in Seq(0 .. Readings - 1) /\ Len(sent') <= N
  <1>1. /\ LoggerTypeOK /\ SentLogIsConsecutive /\ logger \in LoggerType
        /\ sent \in Seq(0 .. Readings - 1) /\ n \in Nat /\ n <= N
        /\ logger.ready /\ Entries(logger) = n /\ Len(sent) = N - n /\ InOrder(logger)
    <2>1. LoggerTypeOK /\ SentLogIsConsecutive
      BY DEF LoggerInv
    <2>2. logger \in LoggerType /\ sent \in Seq(0 .. Readings - 1)
      BY <2>1 DEF LoggerTypeOK, LoggerType, N
    <2>3. logger.ready /\ Entries(logger) = n /\ Len(sent) = N - n /\ InOrder(logger)
      BY DEF Sending
    <2>4. n \in Nat /\ n <= N
      BY Sizes
    <2> QED
      BY <2>1, <2>2, <2>3, <2>4
  <1>2. PICK tail \in {SendingOnly, SendingAndEmptying} :
          /\ todo = Sends(n, tail)
          /\ tail = SendingOnly => ~ logger.compositeLogEnabled
          /\ tail = SendingAndEmptying =>
                ~ logger.toothLogEnabled /\ logger.toothHistorySerialIndex = N - n
    BY DEF Sending, SendingOnly, SendingAndEmptying
  <1>3. tail \in Seq(Accesses)
    BY Programs
  <1>4. CASE n > 0
    <2> DEFINE m == n - 1
               e == logger.toothHistory[logger.toothHistorySerialIndex]
    <2>1. m \in Nat /\ m + 1 = n /\ m \in 0 .. N
      BY <1>1, <1>4, Sizes
    <2>2. Head(todo) = "send" /\ Tail(todo) = Sends(m, tail)
      BY <1>2, <1>3, <2>1, SendsTail
    <2>3. /\ todo' = Sends(m, tail) /\ reading' = reading /\ sent' = Append(sent, e)
          /\ logger' \in LoggerType
          /\ logger'.toothHistory = logger.toothHistory
          /\ logger'.toothHistoryIndex = logger.toothHistoryIndex
          /\ logger'.toothHistorySerialIndex = Around(logger.toothHistorySerialIndex)
          /\ logger'.ready = logger.ready
          /\ logger'.toothLogEnabled = logger.toothLogEnabled
          /\ logger'.compositeLogEnabled = logger.compositeLogEnabled
      BY <1>1, <2>2, AccessIs
    <2>4. /\ Entries(logger') = m /\ InOrder(logger')
          /\ Entry(logger, 0) = e
          /\ m > 0 => Entry(logger', 0) = Following(e)
      BY <1>1, <1>4, <2>3, SentInOrder
    <2>5. e \in 0 .. Readings - 1
      BY <1>1 DEF LoggerType
    <2> HIDE DEF e
    <2>6. /\ sent' \in Seq(0 .. Readings - 1) /\ Len(sent') = N - m
          /\ \A i \in 1 .. Len(sent) : sent'[i] = sent[i]
          /\ sent'[Len(sent')] = e
      BY <1>1, <2>1, <2>3, <2>5, Sizes
    <2>7. SentLogIsConsecutive'
      <3> SUFFICES ASSUME NEW i \in 1 .. Len(sent') - 1
                   PROVE  sent'[i + 1] = Following(sent'[i])
        BY DEF SentLogIsConsecutive, Following
      <3>1. Len(sent') = Len(sent) + 1 /\ Len(sent) \in Nat
        BY <1>1, <2>1, <2>6, Sizes
      <3>2. CASE i < Len(sent)
        <4>1. i \in 1 .. Len(sent) - 1 /\ i \in 1 .. Len(sent) /\ i + 1 \in 1 .. Len(sent)
          BY <3>1, <3>2
        <4>2. sent[i + 1] = Following(sent[i])
          BY <1>1, <4>1 DEF SentLogIsConsecutive, Following
        <4> QED
          BY <2>6, <4>1, <4>2
      <3>3. CASE i = Len(sent)
        <4>1. sent # <<>> /\ i \in 1 .. Len(sent)
          BY <3>1, <3>3
        <4>2. e = Following(sent[i])
          BY <1>4, <2>4, <3>3, <4>1 DEF Sending
        <4> QED
          BY <2>6, <3>1, <3>3, <4>1, <4>2
      <3> QED
        BY <3>1, <3>2, <3>3
    <2>8. Sending(m)'
      <3>1. tail = SendingAndEmptying => logger'.toothHistorySerialIndex = N - m
        BY <1>1, <1>2, <2>1, <2>3, Sizes DEF Around
      <3> QED
        BY <1>1, <1>2, <2>3, <2>4, <2>6, <3>1, Zenon DEF Sending
    <2> QED
      BY <2>1, <2>6, <2>7, <2>8, Sizes DEF Phase
  <1>5. CASE n = 0
    <2>1. todo = tail
      BY <1>2, <1>3, <1>5, SendsNone
    <2>2. Head(todo) = "not ready"
      <3>1. CASE tail = SendingOnly
        BY <2>1, <3>1, Program1, Zenon DEF SendingOnly
      <3>2. CASE tail = SendingAndEmptying
        BY <2>1, <3>2, Program3, Zenon DEF SendingAndEmptying
      <3> QED
        BY <3>1, <3>2
    <2>3. /\ sent' = <<>> /\ ~ logger'.ready /\ todo' = Tail(todo) /\ reading' = reading
          /\ logger'.toothLogEnabled = logger.toothLogEnabled
          /\ logger'.compositeLogEnabled = logger.compositeLogEnabled
          /\ logger'.toothHistorySerialIndex = logger.toothHistorySerialIndex
          /\ logger'.toothHistoryIndex = logger.toothHistoryIndex
          /\ Entries(logger') = 0
      BY <1>1, <1>5, <2>2, AccessIs, RingStays
    <2>4. InOrder(logger') /\ UpTo(logger', reading')
      BY <2>3, Sizes DEF InOrder, UpTo
    <2>7. SentLogIsConsecutive' /\ sent' \in Seq(0 .. Readings - 1) /\ Len(sent') <= N
      <3>1. sent' = <<>> /\ Len(sent') = 0 /\ sent' \in Seq(0 .. Readings - 1)
        BY <2>3
      <3> QED
        BY <3>1, Sizes DEF SentLogIsConsecutive
    <2>5. CASE tail = SendingOnly
      <3>1. todo' = <<>>
        BY <2>1, <2>3, <2>5, Program1, Zenon DEF SendingOnly
      <3>2. Quiet(logger', reading')
        BY <1>2, <2>3, <2>4, <2>5 DEF Quiet
      <3>3. Resting'
        BY <2>3, <3>1, <3>2 DEF Resting
      <3> QED
        BY <2>3, <2>7, <3>3 DEF Phase
    <2>6. CASE tail = SendingAndEmptying
      <3>1. todo' = <<"index", "serial index">>
        BY <2>1, <2>3, <2>6, Program3, Zenon DEF SendingAndEmptying
      <3>2. logger'.toothHistorySerialIndex = N /\ ~ logger'.toothLogEnabled
        BY <1>2, <1>5, <2>3, <2>6, Sizes
      <3>3. logger'.toothHistoryIndex = N
        BY <1>1, <2>3, <3>2, Sizes DEF Entries, LoggerType
      <3>4. logger'.struck = FALSE
        BY <1>1, AccessIs
      <3>5. Emptying'
        BY <2>3, <3>1, <3>2, <3>3, <3>4 DEF Emptying
      <3> QED
        BY <2>3, <2>7, <3>5 DEF Phase
    <2> QED
      BY <2>5, <2>6
  <1> QED
    BY <1>1, <1>4, <1>5

\* The indexes of the composite log are reset: the reading of an interrupt that
\* came between the two is the first entry of the next log.
LEMMA EmptyStep ==
  ASSUME LoggerInv, Emptying, Access
  PROVE  Phase' /\ sent' = sent
  <1>1. LoggerTypeOK /\ todo = <<"index", "serial index">> /\ sent = <<>>
    BY DEF LoggerInv, Emptying
  <1>2. Head(todo) = "index" /\ Tail(todo) = <<"serial index">>
    BY <1>1, Program2, Zenon
  <1>3. /\ todo' = <<"serial index">> /\ sent' = sent
        /\ logger'.toothHistoryIndex = 0
        /\ logger'.toothHistorySerialIndex = logger.toothHistorySerialIndex
        /\ logger'.ready = logger.ready
        /\ logger'.toothLogEnabled = logger.toothLogEnabled
        /\ logger'.struck = FALSE
    BY <1>1, <1>2, AccessIs
  <1>4. logger.toothHistorySerialIndex = N /\ ~ logger.ready /\ ~ logger.toothLogEnabled
    BY DEF Emptying
  <1>5. Emptied'
    <2>1. logger'.toothHistoryIndex \in IF logger'.struck THEN {0, 1} ELSE {0}
      BY <1>3
    <2>2. logger'.toothHistoryIndex # 1
      <3>1. 0 # 1
        OBVIOUS
      <3> QED
        BY <1>3, <3>1, Zenon
    <2>3. /\ todo' = <<"serial index">> /\ sent' = <<>> /\ ~ logger'.ready
          /\ ~ logger'.toothLogEnabled /\ logger'.toothHistorySerialIndex = N
      BY <1>1, <1>3, <1>4
    <2> QED
      BY <2>1, <2>2, <2>3, Zenon DEF Emptied
  <1> QED
    BY <1>3, <1>5 DEF Phase

LEMMA EmptiedStep ==
  ASSUME LoggerInv, Emptied, Access
  PROVE  Phase' /\ sent' = sent
  <1>1. LoggerTypeOK /\ todo = <<"serial index">> /\ sent = <<>>
    BY DEF LoggerInv, Emptied
  <1>2. Head(todo) = "serial index" /\ Tail(todo) = <<>>
    BY <1>1, Program1, Zenon
  <1>3. /\ todo' = <<>> /\ sent' = sent /\ reading' = reading
        /\ logger'.toothHistory = logger.toothHistory
        /\ logger'.toothHistoryIndex = logger.toothHistoryIndex
        /\ logger'.toothHistorySerialIndex = 0
        /\ logger'.ready = logger.ready
        /\ logger'.toothLogEnabled = logger.toothLogEnabled
    BY <1>1, <1>2, AccessIs
  <1>4. logger'.toothHistoryIndex \in {0, 1}
    BY <1>3 DEF Emptied
  <1>5. Entries(logger') = logger'.toothHistoryIndex
    BY <1>3, <1>4 DEF Entries
  <1>6. InOrder(logger')
    BY <1>4, <1>5, Sizes DEF InOrder
  <1>7. UpTo(logger', reading')
    <2>1. ASSUME logger'.toothHistoryIndex = 1
          PROVE  Following(Entry(logger', 0)) = reading'
      <3>1. Slot(logger', 0) = 0
        BY <1>3, Sizes DEF Slot
      <3> QED
        BY <1>3, <2>1, <3>1 DEF Entry, Emptied
    <2> QED
      BY <1>4, <1>5, <2>1 DEF UpTo
  <1>8. Quiet(logger', reading')
    BY <1>3, <1>6, <1>7 DEF Quiet, Emptied
  <1> QED
    BY <1>1, <1>3, <1>8 DEF Phase, Resting

LEMMA AccessStep ==
  ASSUME LoggerInv, Access
  PROVE  LoggerInv'
  <1>1. LoggerTypeOK /\ SentLogIsConsecutive /\ Phase
    BY DEF LoggerInv
  <1>2. Phase' /\ SentLogIsConsecutive' /\ sent' \in Seq(0 .. Readings - 1) /\ Len(sent') <= N
    <2>1. ASSUME Phase', sent' = sent
          PROVE  /\ Phase' /\ SentLogIsConsecutive'
                 /\ sent' \in Seq(0 .. Readings - 1) /\ Len(sent') <= N
      BY <1>1, <2>1 DEF SentLogIsConsecutive, LoggerTypeOK, N
    <2> QED
      BY <1>1, <2>1, FlagStep, StoreStep, StartStep, SendStep, EmptyStep, EmptiedStep DEF Phase
  <1>3. /\ logger' \in LoggerType /\ todo' \in Seq(Accesses) /\ reading' = reading
    BY <1>1, AccessIs
  <1>4. LoggerTypeOK'
    BY <1>1, <1>2, <1>3 DEF LoggerTypeOK, LoggerType, N
  <1> QED
    BY <1>2, <1>4 DEF LoggerInv

(***************************************************************************)
(* The main loop takes up a program                                        *)
(***************************************************************************)
\* It does so only when it is through with the last one, and at rest.
LEMMA IdleRests ==
  ASSUME LoggerInv, todo = <<>>
  PROVE  Resting
  <1>1. Phase
    BY DEF LoggerInv
  <1>2. ~ Storing
    BY Program1, Zenon DEF Storing
  <1>3. ~ Starting
    <2> SUFFICES ASSUME NEW P \in {StartToothLog, StartCompositeLog}, NEW i \in 1 .. 6
                 PROVE  SubSeq(P, i, 6) # <<>>
      BY DEF Starting
    <2>1. P \in Seq(Accesses) /\ Len(P) = 6
      BY StartPrograms
    <2>2. \A j \in i .. 6 : P[j] \in Accesses
      <3> SUFFICES ASSUME NEW j \in i .. 6 PROVE P[j] \in Accesses
        OBVIOUS
      <3>1. j \in 1 .. Len(P)
        BY <2>1
      <3> QED
        BY <2>1, <3>1, ElementOfSeq
    <2>3. SubSeq(P, i, 6) \in Seq(Accesses) /\ Len(SubSeq(P, i, 6)) = 6 - i + 1
      BY <2>2, SubSeqProperties
    <2>4. Len(<<>>) = 0 /\ 6 - i + 1 # 0
      BY EmptySeq
    <2> QED
      BY <2>3, <2>4
  <1>4. ASSUME NEW n \in 0 .. N PROVE ~ Sending(n)
    <2> SUFFICES ASSUME NEW tail \in {SendingOnly, SendingAndEmptying}
                 PROVE  Sends(n, tail) # <<>>
      BY DEF Sending
    <2>1. tail \in Seq(Accesses) /\ tail # <<>>
      <3>1. SendingOnly # <<>>
        BY Program1, Zenon DEF SendingOnly
      <3>2. SendingAndEmptying # <<>>
        BY Program3, Zenon DEF SendingAndEmptying
      <3> QED
        BY <3>1, <3>2, Programs
    <2>2. n \in Nat /\ Len(tail) \in Nat /\ Len(tail) > 0
      BY <2>1, Sizes, EmptySeq
    <2>3. Len(Sends(n, tail)) = n + Len(tail)
      BY <2>1, <2>2, SendsSeq
    <2> QED
      BY <2>2, <2>3, EmptySeq
  <1>5. ~ Emptying
    BY Program2, Zenon DEF Emptying
  <1>6. ~ Emptied
    BY Program1, Zenon DEF Emptied
  <1> QED
    BY <1>1, <1>2, <1>3, <1>4, <1>5, <1>6 DEF Phase

\* The logger is left alone: what was said of it with no program holds with
\* the new one.
LEMMA TakeUp ==
  ASSUME LoggerInv, UNCHANGED <<logger, reading, sent>>, todo' \in Seq(Accesses), Phase'
  PROVE  LoggerInv'
  <1>1. LoggerTypeOK'
    BY DEF LoggerInv, LoggerTypeOK
  <1>2. SentLogIsConsecutive'
    BY DEF LoggerInv, SentLogIsConsecutive
  <1> QED
    BY <1>1, <1>2 DEF LoggerInv

LEMMA RestOn ==
  ASSUME LoggerInv, todo = <<>>, UNCHANGED <<logger, reading, sent>>,
         todo' \in {<<>>, BoostCutBit, StopToothLog, StopCompositeLog, <<"zeros">>}
  PROVE  LoggerInv'
  <1>1. Resting
    BY IdleRests
  <1>2. Resting'
    BY <1>1 DEF Resting
  <1>3. todo' \in Seq(Accesses)
    BY Programs
  <1> QED
    BY <1>2, <1>3, TakeUp DEF Phase

LEMMA ObeyStep ==
  ASSUME LoggerInv, ObeyCommand
  PROVE  LoggerInv'
  <1>1. /\ LoggerTypeOK /\ todo = <<>> /\ UNCHANGED <<logger, reading, sent>>
        /\ Quiet(logger, reading) /\ sent = <<>>
    BY IdleRests DEF LoggerInv, ObeyCommand, Resting
  <1>2. CASE ObeyStart
    <2>1. logger.attached = "normal" /\ todo' \in {StartToothLog, StartCompositeLog}
      BY <1>2 DEF ObeyStart
    <2>2. todo' = SubSeq(todo', 1, 6) /\ 1 \in 1 .. 6
      BY <2>1, StartProgramsTail
    <2>3. Starting'
      BY <1>1, <2>1, <2>2 DEF Starting
    <2>4. todo' \in Seq(Accesses)
      BY <2>1, Programs
    <2> QED
      BY <1>1, <2>3, <2>4, TakeUp DEF Phase
  <1>3. CASE ObeyStop
    BY <1>1, <1>3, RestOn DEF ObeyStop
  <1>4. CASE ObeySend
    <2>1. todo' = SendLog
      BY <1>4 DEF ObeySend
    <2>2. CASE SendLog \in {<<>>, <<"zeros">>}
      BY <1>1, <2>1, <2>2, RestOn
    <2>3. ASSUME NEW tail \in {SendingOnly, SendingAndEmptying}, logger.ready,
                 SendLog = Sends(N, tail),
                 tail = SendingOnly => logger.toothLogEnabled,
                 tail = SendingAndEmptying =>
                    ~ logger.toothLogEnabled /\ logger.compositeLogEnabled
          PROVE  LoggerInv'
      <3>1. todo' \in Seq(Accesses)
        BY <2>1, <2>3, Programs, Sizes, SendsSeq
      <3>2. InOrder(logger) /\ Entries(logger) = N
        BY <1>1, <2>3 DEF Quiet
      <3>3. N - N = 0 /\ N \in 0 .. N /\ Len(sent) = 0
        BY <1>1, Sizes
      <3>4. tail = SendingOnly => ~ logger.compositeLogEnabled
        BY <1>1, <2>3 DEF Quiet
      <3>5. tail = SendingAndEmptying => logger.toothHistorySerialIndex = 0
        BY <1>1, <2>3 DEF Quiet
      <3>6. Sending(N)'
        BY <1>1, <2>1, <2>3, <3>2, <3>3, <3>4, <3>5, Zenon DEF Sending
      <3> QED
        BY <1>1, <3>1, <3>3, <3>6, TakeUp DEF Phase
    <2> QED
      BY <1>1, <2>2, <2>3, SendLogIs DEF SendingOnly, SendingAndEmptying
  <1> QED
    BY <1>2, <1>3, <1>4 DEF ObeyCommand

LEMMA LoggerStep ==
  ASSUME LoggerInv, [LoggerNext]_logVars
  PROVE  LoggerInv'
  <1>1. CASE Access
    BY <1>1, AccessStep
  <1>2. CASE WriteBoostCut
    BY <1>2, RestOn DEF WriteBoostCut
  <1>3. CASE loggerPrimaryISR \/ loggerSecondaryISR
    BY <1>3, Strikes, StrikeStep DEF LoggerInv
  <1>4. CASE ObeyCommand
    BY <1>4, ObeyStep
  <1>5. CASE UNCHANGED logVars
    BY <1>5, ZenonT(60) DEF logVars, LoggerInv, LoggerTypeOK, SentLogIsConsecutive, Phase, Resting, Storing,
                Starting, Sending, Emptying, Emptied
  <1> QED
    BY <1>1, <1>2, <1>3, <1>4, <1>5 DEF LoggerNext

LEMMA LoggerInvariant == LoggerSpec => []LoggerInv
  BY LoggerInitInv, LoggerStep, PTL DEF LoggerSpec

\* The indexes stay in the ring, and what is sent is a list of readings no longer
\* than a log, whatever the interrupts do between two accesses of the main loop.
THEOREM LoggerTypeCorrect == LoggerSpec => []LoggerTypeOK
  <1>1. LoggerInv => LoggerTypeOK
    BY DEF LoggerInv
  <1> QED
    BY <1>1, LoggerInvariant, PTL

\* However the trigger interrupts and the accesses of the main loop interleave
\* while it starts, sends, empties or stops a log of any length, or writes back
\* the flags that the ready bit is one of, what is sent is a run of consecutive
\* readings: loggerPrimaryISR(), sendToothLog() and sendCompositeLog().
THEOREM LogsAreConsecutive == LoggerSpec => []SentLogIsConsecutive
  <1>1. LoggerInv => SentLogIsConsecutive
    BY DEF LoggerInv
  <1> QED
    BY <1>1, LoggerInvariant, PTL

=============================================================================
