----------------------------- MODULE TcpFraming -----------------------------
(***************************************************************************)
(* One TCP connection of the syslog server: _handle_tcp collects what it   *)
(* reads in a buffer, and split_octet_counted takes complete frames off    *)
(* its front.  A sender puts a count before a message (RFC 6587) or a      *)
(* delimiter after it; TCP may cut the stream anywhere.                    *)
(***************************************************************************)
EXTENDS Naturals, Sequences, FiniteSets, SequencesExt

CONSTANTS Content,       \* bytes of a message after its first, which is "<"
          MaxLength,     \* bound: length of a message
          MaxMessages,   \* bound: messages on the connection
          MaxDigits,     \* bound: digits of a count
          MaxFrame       \* MAX_TCP_FRAME

NL == "\n"
CR == "\r"
NUL == "\\0"
SP == " "
Digits == <<"0", "1", "2", "3", "4", "5", "6", "7", "8", "9">>
Digit == ToSet(Digits)
Bytes == {"<", "x", NL, CR, NUL, SP} \cup Digit

ASSUME ContentAssumption == Content \subseteq Bytes
\* The splitter looks for the space after a count among 12 bytes.
ASSUME BoundsAssumption ==
    /\ MaxLength \in Nat \ {0} /\ MaxMessages \in Nat /\ MaxFrame \in Nat \ {0}
    /\ MaxDigits \in 0..11

VARIABLES sent,          \* the sender's messages, each with its bytes on the wire
          read,          \* number of bytes of the stream read so far
          buffer,        \* the handler's buffer
          frames,        \* the messages the handler has queued
          connection     \* "open", "closed" by the sender or "reset"

vars == <<sent, read, buffer, frames, connection>>

-----------------------------------------------------------------------------
(* The sender.                                                             *)

Message == {<<"<">> \o s : s \in BoundedSeq(Content, MaxLength - 1)}

\* A delimiter ends a message, so the message cannot hold one, nor end in CR.
Delimitable(m) == ToSet(m) \cap {NL, NUL} = {} /\ m[Len(m)] # CR

Positions(buf, byte) == {i \in DOMAIN buf : buf[i] = byte}

First(positions) == CHOOSE i \in positions : \A k \in positions : i <= k

DigitValue(d) == First(Positions(Digits, d)) - 1

Number(digits) ==
    LET value[n \in 0..Len(digits)] ==
            IF n = 0 THEN 0 ELSE 10 * value[n - 1] + DigitValue(digits[n])
    IN  value[Len(digits)]

Counts(n) == {d \in BoundedSeq(Digit, MaxDigits) : d # <<>> /\ d[1] # "0" /\ Number(d) = n}

\* The ways to send a message: a count, and perhaps a stray newline; a delimiter;
\* or nothing, if it is the last.
Counted(m) == {d \o <<SP>> \o m \o stray : d \in Counts(Len(m)), stray \in {<<>>, <<NL>>}}
Delimited(m) == {m \o end : end \in {<<NL>>, <<CR, NL>>, <<NUL>>}}

Sendable == UNION {{[message |-> m, code |-> code] :
                      code \in Counted(m) \cup IF Delimitable(m) THEN Delimited(m) \cup {m}
                                               ELSE {}} : m \in Message}

Bare(x) == x.code = x.message

Sequel(n) == {s \in [1..n -> Sendable] : \A i \in 1..(n - 1) : ~Bare(s[i])}

Code == [i \in DOMAIN sent |-> sent[i].code]
Messages == [i \in DOMAIN sent |-> sent[i].message]
Stream == FlattenSeq(Code)

-----------------------------------------------------------------------------
(* split_octet_counted.                                                    *)

\* The buffer without the delimiters in front of it.
Skipped(buf) ==
    LET kept == {i \in DOMAIN buf : buf[i] \notin {NL, CR, NUL, SP}}
    IN  IF kept = {} THEN <<>> ELSE SubSeq(buf, First(kept), Len(buf))

\* Position of the space after a count, 0 if the buffer does not begin with one.
CountEnd(buf) ==
    LET spaces == Positions(buf, SP) \cap 1..12
        space == First(spaces)
    IN  IF /\ spaces # {}
           /\ \A i \in 1..(space - 1) : buf[i] \in Digit
           /\ space < Len(buf) /\ buf[space + 1] = "<"
          THEN space ELSE 0

\* Mutant of Incomplete: a frame that ends with the buffer is not complete.
IncompleteAtEnd(buf, end) == Len(buf) <= end

Incomplete(buf, end) == Len(buf) < end

Delimiters(buf) == Positions(buf, NL) \cup Positions(buf, NUL)

\* A frame without the carriage returns at its end.
Stripped(frame) ==
    LET kept == {i \in DOMAIN frame : \E k \in i..Len(frame) : frame[k] # CR}
    IN  SubSeq(frame, 1, Cardinality(kept))

\* One pass of the loop: the frame in front, if it is complete, and what is left.
Pass(split) ==
    LET buf == Skipped(split.rest)
        count == CountEnd(buf)
        end == count + Number(SubSeq(buf, 1, count - 1))
        delimiter == First(Delimiters(buf))
        none == [frames |-> split.frames, rest |-> buf]
        Found(frame, last) == [frames |-> Append(split.frames, frame),
                               rest |-> SubSeq(buf, last + 1, Len(buf))]
    IN  IF count > 0
          THEN IF Incomplete(buf, end) THEN none ELSE Found(SubSeq(buf, count + 1, end), end)
          ELSE IF Delimiters(buf) = {} THEN none
               ELSE Found(Stripped(SubSeq(buf, 1, delimiter - 1)), delimiter)

\* The loop ends within as many passes as there are bytes.
Passes(buf) ==
    LET after[n \in 0..Len(buf)] ==
            IF n = 0 THEN [frames |-> <<>>, rest |-> buf] ELSE Pass(after[n - 1])
    IN  after

\* The complete frames of a buffer, and what is left of it.
Split(buf) == Passes(buf)[Len(buf)]

-----------------------------------------------------------------------------
(* _handle_tcp.                                                            *)

\* Mutant of TooLong: one byte less.
TooLongByOne(buf) == Len(buf) >= MaxFrame

TooLong(buf) == Len(buf) > MaxFrame

\* A chunk of n bytes is read.  What is left over and too long becomes a message.
Receive(n) ==
    LET split == Split(buffer \o SubSeq(Stream, read + 1, read + n)) IN
    /\ connection = "open"
    /\ read + n <= Len(Stream)
    /\ read' = read + n
    /\ IF TooLong(split.rest)
         THEN frames' = frames \o Append(split.frames, split.rest) /\ buffer' = <<>>
         ELSE frames' = frames \o split.frames /\ buffer' = split.rest
    /\ UNCHANGED <<sent, connection>>

Blank(buf) == ToSet(buf) \subseteq {NL, CR, SP}

\* Mutant of Close: what is left over is dropped.
CloseQuietly ==
    /\ connection = "open"
    /\ connection' = "closed"
    /\ UNCHANGED <<sent, read, buffer, frames>>

\* The sender closes the connection, perhaps within a message: what is left over
\* becomes a message.
Close ==
    /\ connection = "open"
    /\ connection' = "closed"
    /\ frames' = IF Blank(buffer) THEN frames ELSE Append(frames, buffer)
    /\ UNCHANGED <<sent, read, buffer>>

\* The connection is reset: what is left over is dropped.
Reset ==
    /\ connection = "open"
    /\ connection' = "reset"
    /\ UNCHANGED <<sent, read, buffer, frames>>

-----------------------------------------------------------------------------
Init ==
    /\ sent \in UNION {Sequel(n) : n \in 0..MaxMessages}
    /\ read = 0
    /\ buffer = <<>>
    /\ frames = <<>>
    /\ connection = "open"

Next ==
    \/ \E n \in 1..(Len(Stream) - read) : Receive(n)
    \/ Close
    \/ Reset

Spec == Init /\ [][Next]_vars

-----------------------------------------------------------------------------
(* Properties, of connections on which every message fits the buffer.      *)

Fits == \A i \in DOMAIN sent : Len(sent[i].code) <= MaxFrame + 1

EndOf(i) == Len(FlattenSeq(SubSeq(Code, 1, i)))

\* Messages whose last byte has been read.
WholeRead == {i \in DOMAIN sent : EndOf(i) <= read}

Unterminated == {i \in DOMAIN sent : Bare(sent[i])}

\* However the stream is cut, no message is torn, merged with another, reordered
\* or made up while the connection lives; and the buffer keeps its bound, also when
\* messages do not fit it (_handle_tcp, split_octet_counted).
OnlyWholeMessages ==
    /\ Fits /\ connection # "closed" => IsPrefix(frames, Messages)
    /\ Len(buffer) <= MaxFrame

\* A message is queued with the chunk that holds its last byte: it does not wait
\* for the next one to arrive.
DeliveredAtOnce ==
    Fits => Len(frames) >= Cardinality(WholeRead \ Unterminated)

\* A sender that closes after its last byte has had all of its messages queued,
\* the last one even without a delimiter; one that closes within a message adds
\* at most what it had sent of it.
CloseKeepsAll ==
    Fits /\ connection = "closed" =>
        /\ Len(frames) <= Cardinality(WholeRead) + 1
        /\ read = Len(Stream) => frames = Messages
=============================================================================
