-------------------------------- MODULE Formats -------------------------------
(***************************************************************************)
(* werk::CsvParser (Werk/Data/Csv): a file of lines, split into cells; and *)
(* werk::PcapParser (Werk/Data/Pcap): a file of records.                   *)
(*                                                                         *)
(* The first is given the lines of a writer: cells with or without quotes  *)
(* and blanks around them, separated by commas.  A character is one of the *)
(* three the parser looks at, or a letter.  The state is the parser's two  *)
(* buffers; which line comes next is the file's choice.                    *)
(*                                                                         *)
(* The second is given a capture that may end anywhere.  A record is its   *)
(* time and the length and bytes of its packet.                            *)
(***************************************************************************)
EXTENDS Naturals, Sequences, SequencesExt

CONSTANTS
    Letters,                    \* the characters that the parser does not look for
    Contents,                   \* what a cell may hold: no quotes
    MaxCells,                   \* bound on the cells of a line
    MaxLines,                   \* bound on the lines of a file
    Second, Micro,              \* the nanoseconds of a second and of a microsecond
    BufferSize,                 \* 65535: what a packet may have
    Packets,                    \* what a record may hold, and when it was captured
    MaxPackets                  \* bound on the records of a capture

Comma == ","
Quote == "q"
Blank == " "

ASSUME FormatsAssumption ==
    /\ MaxCells \in Nat \ {0} /\ MaxLines \in Nat
    /\ Quote \notin Letters /\ Contents \subseteq Seq(Letters \cup {Comma, Blank})
    /\ Second \in Nat \ {0} /\ Micro \in Nat \ {0} /\ Second % Micro = 0
    /\ Packets \subseteq [time : Nat, length : Nat] /\ MaxPackets \in Nat
    /\ BufferSize \in Nat

VARIABLES
    isOpen,                     \* the state of _file
    headers,                    \* _headers
    buffers,                    \* _values0, _values1
    valuesN,                    \* _valuesN % 2
    \* History, which no action reads:
    titles,                     \* the cells of the line the headers came from
    rows,                       \* the cells of the lines read since
    \* The parser of a capture:
    capture,                    \* _file: the header, and what there is to be read
    packet,                     \* _recordHeader, _time, _buffer
    \* History:
    captured,                   \* what the capture held
    taken                       \* the records that were read, with their times

csvVars == <<isOpen, headers, buffers, valuesN, titles, rows>>
pcapVars == <<capture, packet, captured, taken>>
formatVars == <<csvVars, pcapVars>>

NoCapture == [state |-> "closed", nanosecond |-> FALSE, records |-> <<>>]
NoPacket == [length |-> 0, time |-> 0, bytes |-> 0]

FormatsInit ==
    /\ isOpen = FALSE
    /\ headers = <<>>
    /\ buffers = [n \in 0 .. 1 |-> <<>>]
    /\ valuesN = 0
    /\ titles = <<>>
    /\ rows = <<>>
    /\ capture = NoCapture
    /\ packet = NoPacket
    /\ captured = <<>>
    /\ taken = <<>>

values == buffers[valuesN]
lastValues == buffers[1 - valuesN]
-----------------------------------------------------------------------------
(***************************************************************************)
(* The split of a line.                                                    *)
(***************************************************************************)
\* The first place of char in the line from place i on, or the end of the line.
Find(char, line, i) ==
    CHOOSE next \in i .. Len(line) + 1 :
        /\ next <= Len(line) => line[next] = char
        /\ \A j \in i .. next - 1 : line[j] # char

\* Mutant: the next comma, whether it is in quotes or not.
MutantNextComma(line, i) == Find(Comma, line, i)

\* "Find the next command, accounting for quotes"; the terminator of the string is
\* no quote, and from the end of the line nothing is found.
NextComma(line, i) ==
    IF i > Len(line) \/ line[i] # Quote THEN Find(Comma, line, i)
    ELSE Find(Comma, line, Find(Quote, line, i + 1))

RemoveBlanks(value) ==
    LET kept == {i \in DOMAIN value : value[i] # Blank} IN
    IF kept = {} THEN <<>>
    ELSE LET first == CHOOSE i \in kept : \A j \in kept : i <= j
             last == CHOOSE i \in kept : \A j \in kept : i >= j
         IN SubSeq(value, first, last)

RemoveQuotes(value) ==
    IF Len(value) >= 2 /\ Head(value) = Quote /\ Last(value) = Quote
      THEN SubSeq(value, 2, Len(value) - 1)
      ELSE value

\* "Remove whitespace", "And quotes": the blanks in the quotes stay.
Cleaned(value) == RemoveQuotes(RemoveBlanks(value))

\* A comma at the end of the line is followed by an empty cell.
Split(line) ==
    LET cells[i \in 1 .. Len(line) + 1] ==
            LET next == NextComma(line, i) IN
            <<Cleaned(SubSeq(line, i, next - 1))>>
                \o IF next > Len(line) THEN <<>> ELSE cells[next + 1]
    IN cells[1]
-----------------------------------------------------------------------------
(***************************************************************************)
(* The lines of a file: each cell bare, where that says the same, or in    *)
(* quotes.  A blank before a quote is left to bare cells: the parser does  *)
(* not take that quote for one when it looks for the comma.                *)
(***************************************************************************)
Quoted(content) == <<Quote>> \o content \o <<Quote>>

IsBare(content) == Comma \notin Range(content) /\ RemoveBlanks(content) = content

Printed(content) ==
    {Quoted(content), Quoted(content) \o <<Blank>>}
        \cup IF IsBare(content) THEN {content, <<Blank>> \o content \o <<Blank>>} ELSE {}

OneCell ==
    UNION {{[cells |-> <<content>>, text |-> text] : text \in Printed(content)} :
             content \in Contents}

Lines ==
    LET lines[n \in 1 .. MaxCells] ==
          IF n = 1 THEN OneCell
          ELSE OneCell \cup
                 UNION {{[cells |-> l.cells \o m.cells, text |-> l.text \o <<Comma>> \o m.text] :
                           m \in lines[n - 1]} : l \in OneCell}
    IN lines[MaxCells]

\* "Skip blank lines": a line of one empty cell is none.
File == {line \in Lines : line.text # <<>>}
-----------------------------------------------------------------------------
(***************************************************************************)
(* open(), moveNext() and close().  A second open() is refused; close()    *)
(* leaves the buffers, and a file opened after it is read on into them.    *)
(***************************************************************************)
Open ==
    /\ ~isOpen
    /\ isOpen' = TRUE
    /\ UNCHANGED <<headers, buffers, valuesN, titles, rows, pcapVars>>

LoadHeaders ==
    /\ isOpen
    /\ titles = <<>> /\ rows = <<>>
    /\ \E line \in File :
        /\ headers' = Split(line.text)
        /\ titles' = line.cells
    /\ UNCHANGED <<isOpen, buffers, valuesN, rows, pcapVars>>

\* Mutant: always the same buffer.
MutantFlip(slot) == slot

Flip(slot) == 1 - slot

ReadLine ==
    /\ isOpen
    /\ Len(rows) < MaxLines
    /\ \E line \in File :
        /\ valuesN' = Flip(valuesN)
        /\ buffers' = [buffers EXCEPT ![valuesN'] = Split(line.text)]
        /\ rows' = Append(rows, line.cells)
    /\ UNCHANGED <<isOpen, headers, titles, pcapVars>>

\* "Flip the buffer one last time and preserve only the last set of values": a
\* line that is not there leaves no values.  A file that is closed has no line.
ReadEnd ==
    /\ Len(rows) < MaxLines
    /\ valuesN' = Flip(valuesN)
    /\ buffers' = [buffers EXCEPT ![valuesN'] = <<>>]
    /\ rows' = Append(rows, <<>>)
    /\ UNCHANGED <<isOpen, headers, titles, pcapVars>>

Close ==
    /\ isOpen
    /\ isOpen' = FALSE
    /\ UNCHANGED <<headers, buffers, valuesN, titles, rows, pcapVars>>

CsvNext == Open \/ LoadHeaders \/ ReadLine \/ ReadEnd \/ Close
-----------------------------------------------------------------------------
(***************************************************************************)
(* PcapParser.  A record in the file has a time in two parts, the second   *)
(* in the unit that the magic number says, and may have no packet, or not  *)
(* all of it, where the file ends.                                         *)
(***************************************************************************)
UnitOf(nanosecond) == IF nanosecond THEN 1 ELSE Micro

\* The times that a file has room for are those in its unit.
Record(p, nanosecond) ==
    [sec |-> p.time \div Second, frac |-> (p.time % Second) \div UnitOf(nanosecond),
     length |-> p.length, whole |-> TRUE]

\* The captures of these packets: all of it, or without the end of the last packet.
Captures(packets, nanosecond) ==
    LET records == [k \in DOMAIN packets |-> Record(packets[k], nanosecond)]
        n == Len(packets) IN
    {records} \union
        IF n > 0 /\ packets[n].length > 0
          THEN {[records EXCEPT ![n].whole = FALSE]} ELSE {}

\* A second open() is refused, and so is a file that ends in its header: it counts as
\* open, but nothing is read from it any more.
OpenCapture ==
    /\ capture.state = "closed"
    /\ \E packets \in SeqOf(Packets, MaxPackets), nanosecond \in BOOLEAN :
         /\ captured' = packets
         /\ \/ capture' = [NoCapture EXCEPT !.state = "failed"]
            \/ \E records \in Captures(packets, nanosecond) :
                 capture' = [state |-> "good", nanosecond |-> nanosecond,
                             records |-> records]
    /\ taken' = <<>>
    /\ UNCHANGED <<csvVars, packet>>

\* Mutant: the fraction is one of nanoseconds, whatever the file says.
MutantTimeOf(record) == record.sec * Second + record.frac

TimeOf(record) == record.sec * Second + record.frac * UnitOf(capture.nanosecond)

IsTooLong(record) == record.length > BufferSize

Fail == capture' = [capture EXCEPT !.state = "failed"]

\* The end of the file: there is no header, or not all of it.
ReadNoRecord ==
    /\ capture.state = "good" /\ capture.records = <<>>
    /\ Fail
    /\ UNCHANGED <<csvVars, packet, captured, taken>>

\* Mutant: reads the packet of the last record as far as it goes.
MutantIsRead(record) == TRUE

IsRead(record) == record.whole

\* A caller that was told that there is no more does not ask again: what would be
\* read after a record that is too long is not a record.
ReadRecord ==
    /\ capture.state = "good" /\ capture.records # <<>>
    /\ LET record == Head(capture.records) IN
         IF IsTooLong(record)
           THEN /\ packet' = [packet EXCEPT !.length = record.length]
                /\ Fail
                /\ UNCHANGED taken
           ELSE /\ packet' = [length |-> record.length, time |-> TimeOf(record),
                             bytes |-> IF record.whole THEN record.length
                                                       ELSE record.length - 1]
                /\ IF IsRead(record)
                     THEN /\ capture' = [capture EXCEPT !.records = Tail(@)]
                          /\ taken' = Append(taken, packet')
                     ELSE Fail /\ UNCHANGED taken
    /\ UNCHANGED <<csvVars, captured>>

CloseCapture ==
    /\ capture.state # "closed"
    /\ capture' = NoCapture
    /\ UNCHANGED <<csvVars, packet, captured, taken>>

PcapNext == OpenCapture \/ ReadNoRecord \/ ReadRecord \/ CloseCapture

FormatsSpec == FormatsInit /\ [][CsvNext \/ PcapNext]_formatVars
-----------------------------------------------------------------------------
(***************************************************************************)
(* Properties.                                                             *)
(***************************************************************************)
RowAt(i) == IF i \in DOMAIN rows THEN rows[i] ELSE <<>>

\* Commas and blanks in quotes, empty cells, cells at the end of the line: the cells
\* that were written come back.  The values are those of the last line, the last
\* values those of the line before it, whatever was read in between as headers;
\* after the end of the file there are no values but still the last ones.
CellsAreRead ==
    /\ headers = titles
    /\ values = RowAt(Len(rows))
    /\ lastValues = RowAt(Len(rows) - 1)

\* What comes back of a capture are its first records, each with all of its packet
\* and at the time it was captured at, in the unit of the file; the reading stops at
\* the first that is too long and at one that is not all there, which is not given
\* out, and then of those before it none is missing.
AtTime(p, nanosecond) == p.time - (p.time % UnitOf(nanosecond))

PacketsAreRead ==
    /\ \A k \in DOMAIN taken :
         /\ k \in DOMAIN captured
         /\ taken[k].bytes = captured[k].length /\ captured[k].length <= BufferSize
         /\ \E nanosecond \in BOOLEAN :
              /\ capture.state # "closed" => nanosecond = capture.nanosecond
              /\ taken[k].time = AtTime(captured[k], nanosecond)
    /\ capture.state = "good" \/ capture.records # <<>>
         => Len(taken) + Len(capture.records) = Len(captured)
    /\ capture.state = "failed" /\ capture.records # <<>>
         => LET next == Head(capture.records) IN ~next.whole \/ next.length > BufferSize

\* FilesAreRead: what was written to a file, and no more, is read from it.
FilesAreRead == CellsAreRead /\ PacketsAreRead
=============================================================================
