--------------------------- MODULE SerialProtocol ---------------------------
(***************************************************************************)
(* The serial protocol of the tuning software: command() of comms.ino, the *)
(* poll of the main loop that calls it, the line, and the software at its  *)
(* other end.  A command is a byte that may be followed by parameters; the *)
(* poll may find any part of them there, and then the command is taken up  *)
(* again at later polls (cmdPending, chunkPending).  Nothing on the line   *)
(* marks where a command begins, and nothing times out.                    *)
(*                                                                         *)
(* The software (external) is a client that sends the requests of its plan *)
(* and waits for the replies of those that have one.  A client with a want *)
(* reads back what it wrote and starts again while it is not what it       *)
(* wanted, or when no reply comes; a data logger starts, reads and stops   *)
(* the loggers.                                                            *)
(***************************************************************************)
EXTENDS PageLayout, ToothLogger, SequencesExt

CONSTANTS
    Clients,            \* the clients that may be connected
    CalibrationValues,  \* the values of a calibration that are sent, 1024
    MaxLost             \* bytes the line may lose

VARIABLES
    line,       \* the bytes on their way
    rx,         \* Serial: the bytes that have arrived
    ecu,        \* command()'s variables
    ram,        \* the cells that were written
    reply,      \* the last reply, until the client has read it: what it is, its bytes
    client,
    owed,       \* the requests sent and not yet executed, while no byte was lost
    lost        \* bytes lost

protocolVars == <<line, rx, ecu, ram, reply, client, owed, lost>>
vars == <<protocolVars, logVars>>

----------------------------------------------------------------------------
(* Requests and their bytes.                                                *)

Ord == [A |-> 65, b |-> 98, d |-> 100, H |-> 72, h |-> 104, J |-> 74, j |-> 106, P |-> 80,
        p |-> 112, T |-> 84, t |-> 116, V |-> 86, W |-> 87, w |-> 119]

Letter(code) ==
    IF \E c \in DOMAIN Ord : Ord[c] = code
    THEN CHOOSE c \in DOMAIN Ord : Ord[c] = code ELSE "?"

LowFirst(n) == <<n % 256, n \div 256>>

word(low, high) == high * 256 + low

\* A request: its command, a page, an offset, a length and values, as far as the
\* command has them.
Request(c, page, offset, length, values) ==
    [c |-> c, page |-> page, offset |-> offset, length |-> length, values |-> values]

Plain(c) == Request(c, 0, 0, 0, <<>>)

\* The command P takes the page as a digit.
Digit(page) == IF page < 10 THEN 48 + page ELSE 87 + page

Parameters(r) ==
    CASE r.c \in {"b", "d"} -> <<0, r.page>>
      [] r.c = "P" -> <<Digit(r.page)>>
      [] r.c = "p" -> <<0, r.page>> \o LowFirst(r.offset) \o LowFirst(r.length)
      [] r.c = "T" -> <<0, 0, 0, 0, 0, 0>>
      [] r.c = "W" -> (IF r.page \in DOMAIN MapTable THEN LowFirst(r.offset)
                       ELSE <<r.offset>>) \o r.values
      [] r.c = "w" -> <<0, r.page>> \o LowFirst(r.offset) \o LowFirst(r.length) \o r.values
      [] r.c = "t" -> <<r.page>> \o r.values
      [] OTHER -> <<>>

Bytes(r) == <<Ord[r.c]>> \o Parameters(r)

\* A request as command() understands it.
Understood(r) ==
    CASE r.c = "w" -> [r EXCEPT !.values = <<>>]
      [] r.c = "V" -> Plain("V")
      [] r.c = "t" -> Request("t", r.page, 0, 0, <<>>)
      [] OTHER -> r

HasReply(r) == r.c \in {"A", "d", "H", "J", "p", "T", "V"}

NoReply == [what |-> "none", bytes |-> <<>>]

Init ==
    /\ LoggerInit
    /\ line = <<>>
    /\ rx = <<>>
    /\ ecu = [cmdPending |-> FALSE, currentCommand |-> 0,
              chunkPending |-> FALSE, chunkComplete |-> 0, chunkSize |-> 0,
              valueOffset |-> 0, currentPage |-> 1, isMap |-> TRUE,
              calibrating |-> 0, tableID |-> 0]
    /\ ram = <<>>
    /\ reply = NoReply
    /\ client \in Clients
    /\ owed = <<>>
    /\ lost = 0

----------------------------------------------------------------------------
(* The client.                                                              *)

\* Plans of a client with a want, and of one with a chunk to write in the
\* legacy way.
Write(page, offset, values) == Request("w", page, offset, Len(values), values)

Client(kind, plan, want) ==
    [kind |-> kind, plan |-> plan, want |-> want, waiting |-> FALSE,
     asked |-> Plain("A"), wrote |-> <<>>, running |-> "none"]

\* The bytes the client has written, by page and offset.
Wrote(c, r) ==
    CASE r.c = "w" -> [a \in {<<r.page, r.offset + i - 1>> : i \in 1..r.length} |->
                          r.values[a[2] - r.offset + 1]] @@ c.wrote
      [] r.c = "W" -> (<<r.page, r.offset>> :> r.values[1]) @@ c.wrote
      [] OTHER -> c.wrote

Running(c, r) ==
    CASE r.c = "H" -> "tooth"
      [] r.c = "J" -> "composite"
      [] r.c \in {"h", "j"} -> "none"
      [] OTHER -> c.running

Sent(r) ==
    /\ line' = line \o Bytes(r)
    /\ owed' = IF lost = 0 THEN Append(owed, r) ELSE <<>>
    /\ client' = [client EXCEPT !.plan = IF @ = <<>> THEN @ ELSE Tail(@),
                                !.waiting = HasReply(r), !.asked = r,
                                !.wrote = Wrote(client, r),
                                !.running = Running(client, r)]
    /\ UNCHANGED <<rx, ecu, ram, reply, lost, logVars>>

SendPlanned ==
    /\ ~client.waiting /\ client.plan # <<>>
    /\ Sent(Head(client.plan))

\* A data logger starts one of the loggers, asks for logs, and stops it with its
\* own command before it starts another.
LoggerRequests(running) ==
    CASE running = "none" -> {Plain("H"), Plain("J")}
      [] running = "tooth" -> {Plain("T"), Plain("h")}
      [] running = "composite" -> {Plain("T"), Plain("j")}

SendLogRequest ==
    /\ client.kind = "datalogger" /\ ~client.waiting /\ line = <<>> /\ rx = <<>> /\ todo = <<>>
    /\ \E r \in LoggerRequests(client.running) : Sent(r)

\* The client reads the reply; when it is not what it wants it starts again.
Rewrite(want) == <<Write(want[1], want[2], want[3]),
                   Request("p", want[1], want[2], Len(want[3]), <<>>)>>

Again(c) == [c EXCEPT !.plan = Rewrite(c.want), !.waiting = FALSE]

ReadReply ==
    /\ client.waiting /\ reply # NoReply
    /\ client' = IF client.want # <<>> /\ reply.bytes # client.want[3] THEN Again(client)
                 ELSE [client EXCEPT !.waiting = FALSE]
    /\ reply' = NoReply
    /\ UNCHANGED <<line, rx, ecu, ram, owed, lost, logVars>>

----------------------------------------------------------------------------
(* The line.                                                                *)

\* A packet arrives as a whole, other clients' bytes one by one.
Arrive ==
    /\ line # <<>>
    /\ LET n == IF client.kind = "packets" THEN Len(line) ELSE 1
       IN  /\ rx' = rx \o SubSeq(line, 1, n)
           /\ line' = SubSeq(line, n + 1, Len(line))
    /\ UNCHANGED <<ecu, ram, reply, client, owed, lost, logVars>>

Lose ==
    /\ client.want # <<>> /\ line # <<>> /\ lost < MaxLost
    /\ line' = Tail(line)
    /\ lost' = lost + 1
    /\ owed' = <<>>
    /\ UNCHANGED <<rx, ecu, ram, reply, client, logVars>>

----------------------------------------------------------------------------
(* command().                                                               *)

\* Mutant: offsets are single bytes on every page.
NeedsByteOffset(e, c) ==
    CASE c \in {Ord.b, Ord.d, Ord.W} -> 2
      [] c = Ord.P -> 1
      [] c \in {Ord.p, Ord.T} -> 6
      [] c = Ord.w -> 7
      [] OTHER -> 0

\* The parameters a command waits for.
Needs(e, c) ==
    CASE c \in {Ord.b, Ord.d} -> 2
      [] c = Ord.P -> 1
      [] c \in {Ord.p, Ord.T} -> 6
      [] c = Ord.w -> 7
      [] c = Ord.W -> IF e.isMap THEN 3 ELSE 2
      [] OTHER -> 0

Binary(digit) ==
    CASE digit >= 48 /\ digit <= 57 -> digit - 48
      [] digit >= 97 /\ digit <= 102 -> digit - 87
      [] digit >= 65 /\ digit <= 70 -> digit - 55
      [] OTHER -> digit

Executed(r) ==
    owed' = IF lost > 0 THEN <<>>
            ELSE IF owed # <<>> /\ Understood(Head(owed)) = r THEN Tail(owed)
            ELSE Append(owed, Plain("?"))

Done(e) == [e EXCEPT !.cmdPending = FALSE]

\* The request a command and its parameters make.
RequestOf(c, args) ==
    CASE c \in {Ord.b, Ord.d} -> Request(Letter(c), args[2], 0, 0, <<>>)
      [] c = Ord.P -> Request("P", Binary(args[1]), 0, 0, <<>>)
      [] c = Ord.p -> Request("p", args[2], word(args[3], args[4]), word(args[5], args[6]), <<>>)
      [] c = Ord.W -> Request("W", ecu.currentPage,
                              IF ecu.isMap THEN word(args[1], args[2]) ELSE args[1],
                              0, <<args[Len(args)]>>)
      [] OTHER -> Plain(Letter(c))

\* What the replies hold; a longer reply is cut, which only a lost byte asks for.
LongestReply == 300

Contents(page, offset, length) ==
    [what |-> "page",
     bytes |-> [i \in 1..(IF length < LongestReply THEN length ELSE LongestReply) |->
                    getPageValue(ram, page, offset + i - 1)]]

\* The checksum of a page stands for the bytes it is computed from.
calculateCRC32(page) == Contents(page, 0, IF page \in Pages THEN npage_size[page] ELSE 0)

\* A command whose parameters, args, are there.
Obey(c, args) ==
    /\ Executed(RequestOf(c, args))
    /\ ecu' = Done(CASE c = Ord.P ->
                        [ecu EXCEPT !.currentPage = Binary(args[1]),
                                    !.isMap = IsMapPage(Binary(args[1]))]
                    [] c \in {Ord.p, Ord.W} ->
                        [ecu EXCEPT !.valueOffset = RequestOf(c, args).offset]
                    [] OTHER -> ecu)
    /\ ram' = IF c = Ord.W
              THEN receiveValue(ram, ecu.currentPage, RequestOf(c, args).offset, args[Len(args)])
              ELSE ram
    /\ todo' = CASE c = Ord.H -> StartToothLog
                 [] c = Ord.h -> StopToothLog
                 [] c = Ord.J -> StartCompositeLog
                 [] c = Ord.j -> StopCompositeLog
                 [] c = Ord.T -> SendLog
                 [] OTHER -> todo
    /\ reply' = CASE c = Ord.d -> calculateCRC32(args[2])
                  [] c = Ord.p -> Contents(args[2], word(args[3], args[4]), word(args[5], args[6]))
                  [] c = Ord.V -> [what |-> "page", bytes |-> sendPage(ram, ecu.currentPage, ecu.isMap)]
                  [] c = Ord.T /\ SendLog # <<>> -> [what |-> "log", bytes |-> <<>>]
                  [] c \in {Ord.A, Ord.H, Ord.J} -> [what |-> "values", bytes |-> <<>>]
                  [] OTHER -> reply
    /\ UNCHANGED <<line, client, lost, logger, reading, sent>>

\* Mutant: the chunk stays pending when it is complete.
ChunkStaysPending(e) ==
    IF e.chunkComplete >= e.chunkSize THEN [e EXCEPT !.cmdPending = FALSE] ELSE e

\* if(chunkComplete >= chunkSize) { cmdPending = false; chunkPending = false; }
ChunkEnds(e) ==
    IF e.chunkComplete >= e.chunkSize
    THEN [e EXCEPT !.cmdPending = FALSE, !.chunkPending = FALSE]
    ELSE e

\* The values of a chunk that are there are written.
TakeChunk(e, bytes) ==
    LET room == e.chunkSize - e.chunkComplete
        n == IF Len(bytes) < room THEN Len(bytes) ELSE room
        at(i) == e.valueOffset + e.chunkComplete + i - 1
        ends == e.chunkComplete + n >= e.chunkSize
    IN  /\ ram' = FoldLeft(LAMBDA m, i : receiveValue(m, e.currentPage, at(i), bytes[i]),
                           ram, [i \in 1..n |-> i])
        /\ ecu' = ChunkEnds([e EXCEPT !.chunkComplete = @ + n])
        /\ rx' = SubSeq(bytes, n + 1, Len(bytes))
        /\ IF ends
           THEN Executed(Request("w", e.currentPage, e.valueOffset, e.chunkSize, <<>>))
           ELSE UNCHANGED owed
        /\ UNCHANGED <<line, reply, client, lost, logVars>>

ChunkHeader(bytes) ==
    [ecu EXCEPT !.cmdPending = TRUE, !.currentCommand = Ord.w,
                !.chunkPending = TRUE, !.chunkComplete = 0,
                !.currentPage = bytes[2],
                !.valueOffset = word(bytes[3], bytes[4]),
                !.chunkSize = word(bytes[5], bytes[6])]

\* The command taken up, and the bytes behind it.
Current == IF ecu.cmdPending THEN ecu.currentCommand ELSE Head(rx)

Behind == IF ecu.cmdPending THEN rx ELSE Tail(rx)

Polled == todo = <<>> /\ rx # <<>> /\ ecu.calibrating = 0

\* Only a part of the parameters is there.
AwaitParameters ==
    /\ Polled /\ Len(Behind) < Needs(ecu, Current)
    /\ ~(Current = Ord.w /\ ecu.chunkPending)
    /\ ecu' = [ecu EXCEPT !.cmdPending = TRUE, !.currentCommand = Current]
    /\ rx' = Behind
    /\ UNCHANGED <<line, ram, reply, client, owed, lost, logVars>>

Command ==
    /\ Polled /\ Len(Behind) >= Needs(ecu, Current) /\ Current \notin {Ord.w, Ord.t}
    /\ LET n == Needs(ecu, Current)
       IN  /\ Obey(Current, SubSeq(Behind, 1, n))
           /\ rx' = SubSeq(Behind, n + 1, Len(Behind))

StartChunk ==
    /\ Polled /\ Current = Ord.w /\ ~ecu.chunkPending /\ Len(Behind) >= Needs(ecu, Ord.w)
    /\ TakeChunk(ChunkHeader(Behind), SubSeq(Behind, 7, Len(Behind)))

ContinueChunk ==
    /\ Polled /\ Current = Ord.w /\ ecu.chunkPending
    /\ TakeChunk([ecu EXCEPT !.cmdPending = TRUE, !.currentCommand = Ord.w], Behind)

----------------------------------------------------------------------------
(* The command t does not return before it has all it waits for:            *)
(* calibrating counts the table's number and the values still to come.      *)

StartCalibration ==
    /\ Polled /\ Current = Ord.t
    /\ ecu' = [ecu EXCEPT !.currentCommand = Ord.t, !.calibrating = CalibrationValues + 1]
    /\ rx' = Tail(rx)
    /\ UNCHANGED <<line, ram, reply, client, owed, lost, logVars>>

TakeTable ==
    /\ ecu.calibrating = CalibrationValues + 1 /\ rx # <<>>
    /\ ecu' = [ecu EXCEPT !.tableID = Head(rx), !.calibrating = @ - 1]
    /\ rx' = Tail(rx)
    /\ UNCHANGED <<line, ram, reply, client, owed, lost, logVars>>

CalibrationTable(id) ==
    CASE id = 0 -> "cltCalibrationTable"
      [] id = 1 -> "iatCalibrationTable"
      [] OTHER -> "o2CalibrationTable"

BytesPerValue(id) == IF id \in {0, 1} THEN 2 ELSE 1

\* Tenths of a degree Fahrenheit become degrees Celsius and 40; divisions cut
\* towards zero.
Quotient(a, b) == IF a >= 0 THEN a \div b ELSE -((-a) \div b)

Calibrated(id, bytes) ==
    LET signed == IF bytes[2] >= 128 THEN word(bytes[1], bytes[2]) - 65536
                  ELSE word(bytes[1], bytes[2])
        celsius == Quotient((Quotient(signed, 10) - 32) * 5, 9) + 40
        value == IF BytesPerValue(id) = 1 THEN bytes[1] ELSE celsius
    IN  IF value > 255 THEN 255 ELSE IF value < 0 THEN 0 ELSE value

\* Every second value is stored.
TakeCalibration ==
    /\ ecu.calibrating \in 1..CalibrationValues /\ Len(rx) >= BytesPerValue(ecu.tableID)
    /\ LET x == CalibrationValues - ecu.calibrating
           n == BytesPerValue(ecu.tableID)
       IN  /\ ram' = IF x % 2 = 0
                     THEN (<<CalibrationTable(ecu.tableID), "byte", x \div 2, 0>> :>
                              Calibrated(ecu.tableID, SubSeq(rx, 1, n))) @@ ram
                     ELSE ram
           /\ rx' = SubSeq(rx, n + 1, Len(rx))
    /\ ecu' = [ecu EXCEPT !.calibrating = @ - 1]
    /\ IF ecu.calibrating = 1 THEN Executed(Request("t", ecu.tableID, 0, 0, <<>>))
       ELSE UNCHANGED owed
    /\ UNCHANGED <<line, reply, client, lost, logVars>>

----------------------------------------------------------------------------
\* The firmware waits for bytes that are not on their way: the client has waited
\* for its reply long enough.
Timeout ==
    /\ client.want # <<>> /\ client.waiting /\ reply = NoReply
    /\ line = <<>>
    /\ rx = <<>> \/ (ecu.cmdPending /\ ~ecu.chunkPending /\ Len(rx) < Needs(ecu, Current))
    /\ client' = Again(client)
    /\ UNCHANGED <<line, rx, ecu, ram, reply, owed, lost, logVars>>

Poll == AwaitParameters \/ Command \/ StartChunk \/ ContinueChunk
            \/ StartCalibration \/ TakeTable \/ TakeCalibration

ClientActs == SendPlanned \/ SendLogRequest \/ ReadReply \/ Timeout

Log == (Access \/ WriteBoostCut \/ loggerPrimaryISR \/ loggerSecondaryISR)
           /\ UNCHANGED protocolVars

Next == ClientActs \/ Arrive \/ Lose \/ Poll \/ Log

Spec == Init /\ [][Next]_vars

\* The loop goes round, bytes that are on their way arrive, and the client goes on
\* with its plan or gives up waiting; asked of clients that verify only.
Verifying == client.want # <<>>

FairSpec ==
    /\ Spec
    /\ WF_vars(Verifying /\ Poll)
    /\ WF_vars(Verifying /\ Arrive)
    /\ WF_vars(Verifying /\ (SendPlanned \/ ReadReply \/ Timeout))

----------------------------------------------------------------------------
(* What the software at the other end keeps to.                             *)

Byte == 0 .. 255

Word == 0 .. 65535

Requests == [c : DOMAIN Ord, page : Byte, offset : Word, length : Word,
             values : Seq(Byte)]

\* A request has the fields that its command has, as many values as it says and
\* no more, and an offset that fits in the bytes that are sent of it.
WellFormed(r) ==
    /\ r \in Requests
    /\ r.c \in {"A", "H", "h", "J", "j", "T"} => r.page = 0
    /\ r.c \notin {"p", "W", "w"} => r.offset = 0
    /\ r.c \notin {"p", "w"} => r.length = 0
    /\ r.c \notin {"t", "W", "w"} => r.values = <<>>
    /\ r.c = "P" => r.page < 16
    /\ r.c = "W" => Len(r.values) = 1 /\ (r.offset < 256 \/ IsMapPage(r.page))
    /\ r.c = "w" => Len(r.values) = r.length /\ r.length > 0
    /\ r.c = "t" => Len(r.values) = CalibrationValues * BytesPerValue(r.page)

\* No request between two, of which the second is a W, selects another page.
PageStays(q, j, i) ==
    \A k \in j + 1 .. i - 1 : q[k].c # "P" /\ (q[k].c = "w" => q[k].page = q[i].page)

\* A page is selected, with P, for the requests W that follow.
PageSelected(q, i) ==
    \E j \in 1 .. i - 1 : q[j].c = "P" /\ q[j].page = q[i].page /\ PageStays(q, j, i)

\* Plans start no logger; that is for a data logger to do, which has no plan.
ProperPlan(plan) ==
    /\ \A i \in DOMAIN plan : WellFormed(plan[i]) /\ plan[i].c \notin {"H", "J"}
    /\ \A i \in DOMAIN plan : plan[i].c = "W" => PageSelected(plan, i)

ProperWant(want) ==
    /\ want[1] \in Byte /\ want[2] \in Word
    /\ want[3] \in Seq(Byte) /\ Len(want[3]) \in Word \ {0}

ASSUME ClientsAssumption ==
    \A c \in Clients :
        /\ c = Client(c.kind, c.plan, c.want)
        /\ c.plan \in Seq(Requests) /\ ProperPlan(c.plan)
        /\ c.want # <<>> => ProperWant(c.want)
        /\ c.kind = "datalogger" => c.plan = <<>> /\ c.want = <<>>

ASSUME LineAssumption == CalibrationValues \in Nat \ {0} /\ MaxLost \in Nat

OtherByte == Byte \ {Ord["H"], Ord["J"]}

StartsNone(q) == \A i \in 1 .. Len(q) : Bytes(q[i]) \in Seq(OtherByte)

\* Where bytes may be lost, none of those that are sent could be taken for the
\* command that starts a logger.  (Two that are would start one over the other.)
LossStartsNoLogger ==
    MaxLost > 0 =>
        \A c \in Clients :
            c.want # <<>> => StartsNone(c.plan) /\ StartsNone(Rewrite(c.want))

----------------------------------------------------------------------------
\* The protocol's variables hold what they are meant to: a chunk is pending only
\* while w is, never holds more than its size, and only a calibration blocks.
TypeOK ==
    /\ line \in Seq(0..255) /\ rx \in Seq(0..255)
    /\ ecu.cmdPending \in BOOLEAN /\ ecu.isMap \in BOOLEAN
    /\ ecu.chunkPending => ecu.cmdPending /\ ecu.currentCommand = Ord.w
    /\ ecu.chunkPending => ecu.chunkComplete < ecu.chunkSize
    /\ ecu.calibrating \in 0..CalibrationValues + 1
    /\ logger.toothHistoryIndex \in 0..TOOTH_LOG_SIZE
    /\ logger.toothHistorySerialIndex \in 0..TOOTH_LOG_SIZE
    /\ Len(sent) <= TOOTH_LOG_SIZE
    /\ reading \in 0..Readings - 1
    /\ lost \in 0..MaxLost

\* As long as no byte is lost, command() executes the requests that were sent, each
\* once, in order and with its own parameters, wherever the polls cut the bytes
\* and however many requests are on the line at once.
InStep ==
    lost = 0 =>
        /\ Plain("?") \notin ToSet(owed)
        /\ line = <<>> /\ rx = <<>> => owed = <<>>

\* What is read back of a page, with p, V or as its checksum, is what was written
\* to it and nothing else: receiveValue(), getPageValue() and sendPage() lay every
\* page out alike, and no two places of a page share a cell.
Expected(c) ==
    LET r == c.asked
        n == IF r.c = "p" THEN r.length ELSE npage_size[r.page]
    IN  [i \in 1..n |->
            IF <<r.page, r.offset + i - 1>> \in DOMAIN c.wrote
            THEN c.wrote[<<r.page, r.offset + i - 1>>] ELSE 0]

ReplyIsWhatWasWritten ==
    lost = 0 /\ reply.what = "page" => reply.bytes = Expected(client)

\* Whatever the line and the clients do, the logger is used the way it is proved
\* right for: command() takes up a program only when the one before is done with,
\* and 'H' and 'J' come when the handlers of the log before are detached.
UsesLoggerAsMeant == LoggerSpec

\* A client that reads back what it wrote gets it written in the end, whichever
\* byte of a request was lost, although the firmware then takes the next bytes
\* for the parameters it waits for, or parameters for commands.
Satisfied ==
    /\ client.plan = <<>> /\ ~client.waiting
    /\ \A i \in DOMAIN client.want[3] :
          getPageValue(ram, client.want[1], client.want[2] + i - 1) = client.want[3][i]

EventuallyWritten == client.want # <<>> ~> (client.want # <<>> => Satisfied)
=============================================================================
