------------------------------- MODULE Framing -------------------------------
(***************************************************************************)
(* The messages of fullnode_connections.py and lightnode_connections.py,   *)
(* and the parser that the three kinds of connection share: 2 bytes with   *)
(* the length of a JSON header, the header, and the content.               *)
(*                                                                         *)
(* The size of the header and of the content are numbers of bytes, and a   *)
(* byte is known by its place in the stream.  A receive buffer then is an  *)
(* interval: what has been got and has not been taken out of it.           *)
(***************************************************************************)
EXTENDS Naturals

FixedHeader == 2

\* content is what the bytes of the content are the pickle of.
Message(type, header, length, content) ==
    [type |-> type, header |-> header, length |-> length, content |-> content]

Size(message) == FixedHeader + message.header + message.length

\* The bytes of the stream from one place to another.
Bytes(from, to) == [from |-> from, to |-> to]

\* The content of a message, when it is cut out of the stream at data.
Slice(message, data) == [content |-> message.content, bytes |-> data]

Whole(message) ==
    Slice(message, Bytes(FixedHeader + message.header, Size(message)))

-----------------------------------------------------------------------------
(* The parser.  stage says which of _jsonheader_len, jsonheader and the     *)
(* received content is the first that is still None.                       *)

Stage == {"length", "header", "content", "done"}

Reader(stage, got, taken, data) ==
    [stage |-> stage, got |-> got, taken |-> taken, data |-> data]

IsReader(reader) ==
    /\ reader \in [stage : Stage, got : Nat, taken : Nat, data : [from : Nat, to : Nat]]
    /\ reader.taken <= reader.got

NewReader == Reader("length", 0, 0, Bytes(0, 0))

\* len(self._recv_buffer)
Buffered(reader) == reader.got - reader.taken

\* Mutant: two bytes are taken, however many there are.
ProcessJsonheaderLengthUnchecked(reader) ==
    IF reader.stage = "length"
    THEN Reader("header", reader.got, reader.taken + FixedHeader, reader.data)
    ELSE reader

ProcessJsonheaderLength(reader) ==
    IF reader.stage = "length" /\ Buffered(reader) >= FixedHeader
    THEN Reader("header", reader.got, reader.taken + FixedHeader, reader.data)
    ELSE reader

\* Mutant: the header stays in the buffer.
ProcessJsonheaderUncut(reader, message) ==
    IF reader.stage = "header" /\ Buffered(reader) >= message.header
    THEN [reader EXCEPT !.stage = "content"]
    ELSE reader

\* Mutant: the buffer is emptied, and not cut behind the header.
ProcessJsonheaderEmpties(reader, message) ==
    IF reader.stage = "header" /\ Buffered(reader) >= message.header
    THEN Reader("content", reader.got, reader.got, reader.data)
    ELSE reader

\* The header of a connection's peer always has the required fields.
ProcessJsonheader(reader, message) ==
    IF reader.stage = "header" /\ Buffered(reader) >= message.header
    THEN Reader("content", reader.got, reader.taken + message.header, reader.data)
    ELSE reader

\* Mutant: one byte more than the content is waited for.
ProcessContentLate(reader, message) ==
    IF reader.stage = "content" /\ Buffered(reader) > message.length
    THEN LET end == reader.taken + message.length
         IN  Reader("done", reader.got, end, Bytes(reader.taken, end))
    ELSE reader

ProcessContent(reader, message) ==
    IF reader.stage = "content" /\ Buffered(reader) >= message.length
    THEN LET end == reader.taken + message.length
         IN  Reader("done", reader.got, end, Bytes(reader.taken, end))
    ELSE reader

\* _read, with a piece of n bytes, and the parsing of length and header in
\* the same call.
ReadHeader(reader, message, n) ==
    ProcessJsonheader(ProcessJsonheaderLength([reader EXCEPT !.got = @ + n]), message)

ReadMessage(reader, message, n) == ProcessContent(ReadHeader(reader, message, n), message)

-----------------------------------------------------------------------------
(* How far a message has come, in the terms of Transfer.                   *)

Progress(begun, done, listening, handed_over, sending) ==
    IF ~begun           THEN "idle"
    ELSE IF done        THEN "received"
    ELSE IF ~listening  THEN "lost"
    ELSE IF handed_over THEN "incoming"
    ELSE IF sending     THEN "outgoing"
    ELSE "lost"

=============================================================================
