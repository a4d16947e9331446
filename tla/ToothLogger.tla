----------------------------- MODULE ToothLogger ----------------------------
(***************************************************************************)
(* The tooth and the composite logger: a ring that the trigger interrupts  *)
(* fill and the main loop sends.  A log is ready when the ring holds       *)
(* TOOTH_LOG_SIZE entries; until it is sent the interrupts add nothing.    *)
(*                                                                         *)
(* What the main loop does to the logger is a program of single accesses   *)
(* (todo), between any two of which the interrupts come.  An entry is the  *)
(* number of the reading it records, counted modulo Readings.              *)
(***************************************************************************)
EXTENDS Integers, Sequences

CONSTANTS
    TOOTH_LOG_SIZE,     \* 127; in a ring of fewer than 3 every reading would make a log
    Readings            \* readings are numbered 0 .. Readings - 1, and again

TOOTH_LOG_BUFFER == TOOTH_LOG_SIZE + 1

ASSUME LoggerAssumption ==
    /\ TOOTH_LOG_SIZE \in Nat /\ TOOTH_LOG_SIZE >= 3
    /\ Readings \in Nat /\ Readings > TOOTH_LOG_BUFFER

VARIABLES
    logger,     \* the flags, the ring, its two indexes and the handlers attached
    reading,    \* the number of the next reading
    todo,       \* the accesses the main loop has still to make
    sent        \* the entries of the log being sent

logVars == <<logger, reading, todo, sent>>

LoggerInit ==
    /\ logger = [toothLogEnabled |-> FALSE, compositeLogEnabled |-> FALSE,
                 ready |-> FALSE,                   \* BIT_STATUS1_TOOTHLOG1READY
                 held |-> FALSE,                    \* that bit in a register of the main loop
                 toothHistoryIndex |-> 0, toothHistorySerialIndex |-> 0,
                 toothHistory |-> [i \in 0..TOOTH_LOG_BUFFER - 1 |-> 0],
                 attached |-> "normal",
                 struck |-> FALSE]                  \* an interrupt came since the last access
    /\ reading = 0
    /\ todo = <<>>
    /\ sent = <<>>

Around(i) == IF i = TOOTH_LOG_BUFFER - 1 THEN 0 ELSE i + 1

----------------------------------------------------------------------------
(* The interrupts.                                                          *)

\* Whether the ring, with its index at i, holds a log.
IsReady(l, i) ==
    (IF i < l.toothHistorySerialIndex THEN i + TOOTH_LOG_BUFFER ELSE i)
        - l.toothHistorySerialIndex >= TOOTH_LOG_SIZE

Logged(l) ==
    LET i == Around(l.toothHistoryIndex)
    IN  [l EXCEPT !.toothHistory[l.toothHistoryIndex] = reading,
                  !.toothHistoryIndex = i,
                  !.ready = IsReady(l, i)]

\* Mutant: entries are added while a log waits to be sent.
AddedWhileReady(l) == Logged(l)

\* addToothLogEntry(), for an entry that the logger in use takes
Added(l) == IF l.ready THEN l ELSE Logged(l)

\* The accesses of a few cycles: at most one interrupt comes before each of them
\* (a bound: more would need 126 edges within a microsecond to make a difference).
AtOnce == {"index", "serial index", "store status1"}

MayStrike == todo # <<>> /\ Head(todo) \in AtOnce => ~logger.struck

Struck(l) == [l EXCEPT !.struck = todo # <<>> /\ Head(todo) \in AtOnce]

\* loggerPrimaryISR(): the tooth log takes pulses of the decoder's edge that pass
\* its filter, the composite log takes every edge.
loggerPrimaryISR ==
    /\ logger.attached = "logger" /\ MayStrike
    /\ \E validEdge \in BOOLEAN, validTrigger \in BOOLEAN :
          LET takes == IF logger.toothLogEnabled THEN validEdge /\ validTrigger
                       ELSE logger.compositeLogEnabled
          IN  /\ validTrigger => validEdge
              /\ logger' = Struck(IF takes THEN Added(logger) ELSE logger)
              /\ reading' = IF takes THEN (reading + 1) % Readings ELSE reading
    /\ UNCHANGED <<todo, sent>>

\* loggerSecondaryISR(): only the composite log takes the cam's edges.
loggerSecondaryISR ==
    /\ logger.attached = "logger" /\ MayStrike
    /\ logger.compositeLogEnabled /\ ~logger.toothLogEnabled
    /\ logger' = Struck(Added(logger))
    /\ reading' = (reading + 1) % Readings
    /\ UNCHANGED <<todo, sent>>

----------------------------------------------------------------------------
(* The main loop's programs.                                                *)

StartToothLog ==
    <<"tooth on", "composite off", "not ready", "index", "serial index", "attach">>

\* Mutant of StopToothLog: the logger's handlers stay attached.
StopKeepsHandlers == <<"tooth off">>

StopToothLog == <<"tooth off", "attach normal">>

StartCompositeLog ==
    <<"composite on", "tooth off", "not ready", "index", "serial index", "attach">>

StopCompositeLog == <<"composite off", "attach normal">>

SendEntries == [i \in 1..TOOTH_LOG_SIZE |-> "send"]

\* sendToothLog() and sendCompositeLog(); zeros when no log is ready.
sendToothLog == IF logger.ready THEN SendEntries \o <<"not ready">> ELSE <<"zeros">>

sendCompositeLog ==
    IF logger.ready THEN SendEntries \o <<"not ready", "index", "serial index">> ELSE <<"zeros">>

SendLog ==
    CASE logger.toothLogEnabled -> sendToothLog
      [] ~logger.toothLogEnabled /\ logger.compositeLogEnabled -> sendCompositeLog
      [] ~logger.toothLogEnabled /\ ~logger.compositeLogEnabled -> <<>>

\* The boost cut, 15 times a second, sets or clears another bit of status1.
BoostCutBit == <<"load status1", "store status1">>

Accessed(l, access) ==
    CASE access = "tooth on" -> [l EXCEPT !.toothLogEnabled = TRUE]
      [] access = "tooth off" -> [l EXCEPT !.toothLogEnabled = FALSE]
      [] access = "composite on" -> [l EXCEPT !.compositeLogEnabled = TRUE]
      [] access = "composite off" -> [l EXCEPT !.compositeLogEnabled = FALSE]
      [] access = "not ready" -> [l EXCEPT !.ready = FALSE]
      [] access = "index" -> [l EXCEPT !.toothHistoryIndex = 0]
      [] access = "serial index" -> [l EXCEPT !.toothHistorySerialIndex = 0]
      [] access = "attach" -> [l EXCEPT !.attached = "logger"]
      [] access = "attach normal" -> [l EXCEPT !.attached = "normal"]
      [] access = "send" -> [l EXCEPT !.toothHistorySerialIndex = Around(@)]
      [] access = "zeros" -> l
      [] access = "load status1" -> [l EXCEPT !.held = l.ready]
      [] access = "store status1" -> [l EXCEPT !.ready = l.held, !.held = FALSE]

\* One access of the main loop.
Access ==
    /\ todo # <<>>
    /\ logger' = [Accessed(logger, Head(todo)) EXCEPT !.struck = FALSE]
    /\ sent' = CASE Head(todo) = "send" ->
                        Append(sent, logger.toothHistory[logger.toothHistorySerialIndex])
                 [] Head(todo) = "not ready" -> <<>>
                 [] OTHER -> sent
    /\ todo' = Tail(todo)
    /\ UNCHANGED reading

\* The loop takes up its 15 Hz tasks.
WriteBoostCut ==
    /\ todo = <<>> /\ logger.attached = "logger"
    /\ todo' = BoostCutBit
    /\ UNCHANGED <<logger, reading, sent>>

----------------------------------------------------------------------------
(* The commands, of which command() takes up one when it is done with the   *)
(* one before.  It starts a logger whatever runs; the software at the other *)
(* end starts one only when none runs.                                      *)

ObeyStart == logger.attached = "normal" /\ todo' \in {StartToothLog, StartCompositeLog}

ObeyStop == todo' \in {StopToothLog, StopCompositeLog}

ObeySend == todo' = SendLog

ObeyCommand ==
    /\ todo = <<>>
    /\ ObeyStart \/ ObeyStop \/ ObeySend
    /\ UNCHANGED <<logger, reading, sent>>

LoggerNext ==
    Access \/ WriteBoostCut \/ loggerPrimaryISR \/ loggerSecondaryISR \/ ObeyCommand

LoggerSpec == LoggerInit /\ [][LoggerNext]_logVars

----------------------------------------------------------------------------
(* Properties                                                               *)

Accesses ==
    {"tooth on", "tooth off", "composite on", "composite off", "not ready", "index",
     "serial index", "attach", "attach normal", "send", "zeros", "load status1", "store status1"}

\* The type invariant.
LoggerTypeOK ==
    /\ logger \in [toothLogEnabled : BOOLEAN, compositeLogEnabled : BOOLEAN,
                   ready : BOOLEAN, held : BOOLEAN, struck : BOOLEAN,
                   toothHistoryIndex : 0 .. TOOTH_LOG_SIZE,
                   toothHistorySerialIndex : 0 .. TOOTH_LOG_SIZE,
                   toothHistory : [0 .. TOOTH_LOG_SIZE -> 0 .. Readings - 1],
                   attached : {"normal", "logger"}]
    /\ reading \in 0 .. Readings - 1
    /\ todo \in Seq(Accesses)
    /\ sent \in Seq(0 .. Readings - 1) /\ Len(sent) <= TOOTH_LOG_SIZE

\* A log holds consecutive readings: whatever the interrupts do while the main
\* loop starts, sends or empties the log, no entry is lost from the middle of a
\* log, sent twice, overwritten before it is sent or left from an earlier log.
SentLogIsConsecutive ==
    \A i \in 1..Len(sent) - 1 : sent[i + 1] = (sent[i] + 1) % Readings
=============================================================================
