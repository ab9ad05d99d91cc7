--------------------------- MODULE FramingProofs ---------------------------
(***************************************************************************)
(* The parser of Framing, for messages of any size that arrive in pieces   *)
(* of any size: where it is depends on how many bytes it has got, and not  *)
(* on how they were cut.                                                   *)
(***************************************************************************)
EXTENDS Framing, TLAPS

\* Of a message, the parser uses two sizes.
IsMessage(message) == message.header \in Nat /\ message.length \in Nat

\* Where a parser is that has got this many bytes of a message.
ParserAt(message, got) ==
    IF got < FixedHeader THEN Reader("length", got, 0, Bytes(0, 0))
    ELSE IF got < FixedHeader + message.header
    THEN Reader("header", got, FixedHeader, Bytes(0, 0))
    ELSE IF got < Size(message)
    THEN Reader("content", got, FixedHeader + message.header, Bytes(0, 0))
    ELSE Reader("done", got, Size(message),
                Bytes(FixedHeader + message.header, Size(message)))

\* Where it is when it does not look at the content.
HeaderAt(message, got) ==
    IF got < FixedHeader THEN Reader("length", got, 0, Bytes(0, 0))
    ELSE IF got < FixedHeader + message.header
    THEN Reader("header", got, FixedHeader, Bytes(0, 0))
    ELSE Reader("content", got, FixedHeader + message.header, Bytes(0, 0))

-----------------------------------------------------------------------------

\* A parser is the record of its fields.
LEMMA ReaderFields ==
    ASSUME NEW s, NEW g, NEW t, NEW d
    PROVE  /\ Reader(s, g, t, d).stage = s /\ Reader(s, g, t, d).got = g
           /\ Reader(s, g, t, d).taken = t /\ Reader(s, g, t, d).data = d
           /\ \A n : [Reader(s, g, t, d) EXCEPT !.got = @ + n] = Reader(s, g + n, t, d)
  BY DEF Reader

\* What each of the three calls does to it.
LEMMA LengthOf ==
    ASSUME NEW s, NEW g, NEW t, NEW d
    PROVE  ProcessJsonheaderLength(Reader(s, g, t, d)) =
              IF s = "length" /\ g - t >= FixedHeader
              THEN Reader("header", g, t + FixedHeader, d) ELSE Reader(s, g, t, d)
  BY DEF ProcessJsonheaderLength, Buffered, Reader

LEMMA HeaderOf ==
    ASSUME NEW m, NEW s, NEW g, NEW t, NEW d
    PROVE  ProcessJsonheader(Reader(s, g, t, d), m) =
              IF s = "header" /\ g - t >= m.header
              THEN Reader("content", g, t + m.header, d) ELSE Reader(s, g, t, d)
  BY DEF ProcessJsonheader, Buffered, Reader

LEMMA ContentOf ==
    ASSUME NEW m, NEW s, NEW g, NEW t, NEW d
    PROVE  ProcessContent(Reader(s, g, t, d), m) =
              IF s = "content" /\ g - t >= m.length
              THEN Reader("done", g, t + m.length, Bytes(t, t + m.length))
              ELSE Reader(s, g, t, d)
  BY DEF ProcessContent, Buffered, Reader

\* The places, one by one.
LEMMA Places ==
    ASSUME NEW m, IsMessage(m), NEW g \in Nat
    PROVE  /\ g < FixedHeader =>
                 /\ ParserAt(m, g) = Reader("length", g, 0, Bytes(0, 0))
                 /\ HeaderAt(m, g) = Reader("length", g, 0, Bytes(0, 0))
           /\ g >= FixedHeader /\ g < FixedHeader + m.header =>
                 /\ ParserAt(m, g) = Reader("header", g, FixedHeader, Bytes(0, 0))
                 /\ HeaderAt(m, g) = Reader("header", g, FixedHeader, Bytes(0, 0))
           /\ g >= FixedHeader + m.header =>
                 HeaderAt(m, g) = Reader("content", g, FixedHeader + m.header, Bytes(0, 0))
           /\ g >= FixedHeader + m.header /\ g < Size(m) =>
                 ParserAt(m, g) = Reader("content", g, FixedHeader + m.header, Bytes(0, 0))
           /\ g >= Size(m) =>
                 ParserAt(m, g) = Reader("done", g, Size(m),
                     Bytes(FixedHeader + m.header, Size(m)))
  BY DEF IsMessage, ParserAt, HeaderAt, Size, FixedHeader

\* The header is parsed where the bytes that are there end.
LEMMA HeaderCut ==
    ASSUME NEW m, IsMessage(m), NEW g \in Nat, NEW k \in Nat
    PROVE  /\ ReadHeader(HeaderAt(m, g), m, k) = HeaderAt(m, g + k)
           /\ g < Size(m) => ReadHeader(ParserAt(m, g), m, k) = HeaderAt(m, g + k)
           /\ g >= Size(m) => ReadHeader(ParserAt(m, g), m, k) = ParserAt(m, g + k)
  <1>1. ASSUME NEW s, NEW t, NEW d
        PROVE  ReadHeader(Reader(s, g, t, d), m, k) =
                  ProcessJsonheader(ProcessJsonheaderLength(Reader(s, g + k, t, d)), m)
    BY ReaderFields DEF ReadHeader
  <1>2. /\ m.header \in Nat /\ m.length \in Nat /\ g + k \in Nat /\ FixedHeader \in Nat
        /\ Size(m) = FixedHeader + m.header + m.length
    BY DEF IsMessage, FixedHeader, Size
  <1>3. ASSUME g < FixedHeader
        PROVE  ReadHeader(Reader("length", g, 0, Bytes(0, 0)), m, k) = HeaderAt(m, g + k)
    <2>1. CASE g + k < FixedHeader
      <3>1. ProcessJsonheaderLength(Reader("length", g + k, 0, Bytes(0, 0)))
               = Reader("length", g + k, 0, Bytes(0, 0))
        BY <1>2, <2>1, LengthOf
      <3>2. ProcessJsonheader(Reader("length", g + k, 0, Bytes(0, 0)), m)
               = Reader("length", g + k, 0, Bytes(0, 0))
        BY HeaderOf
      <3>3. HeaderAt(m, g + k) = Reader("length", g + k, 0, Bytes(0, 0))
        BY <1>2, <2>1, Places
      <3> QED
        BY <1>1, <3>1, <3>2, <3>3
    <2>2. CASE g + k >= FixedHeader
      <3>1. ProcessJsonheaderLength(Reader("length", g + k, 0, Bytes(0, 0)))
               = Reader("header", g + k, FixedHeader, Bytes(0, 0))
        BY <1>2, <2>2, LengthOf
      <3>2. CASE g + k < FixedHeader + m.header
        <4>1. ProcessJsonheader(Reader("header", g + k, FixedHeader, Bytes(0, 0)), m)
                 = Reader("header", g + k, FixedHeader, Bytes(0, 0))
          BY <1>2, <3>2, HeaderOf
        <4>2. HeaderAt(m, g + k) = Reader("header", g + k, FixedHeader, Bytes(0, 0))
          BY <1>2, <2>2, <3>2, Places
        <4> QED
          BY <1>1, <3>1, <4>1, <4>2
      <3>3. CASE g + k >= FixedHeader + m.header
        <4>1. ProcessJsonheader(Reader("header", g + k, FixedHeader, Bytes(0, 0)), m)
                 = Reader("content", g + k, FixedHeader + m.header, Bytes(0, 0))
          BY <1>2, <3>3, HeaderOf
        <4>2. HeaderAt(m, g + k) = Reader("content", g + k, FixedHeader + m.header, Bytes(0, 0))
          BY <1>2, <3>3, Places
        <4> QED
          BY <1>1, <3>1, <4>1, <4>2
      <3> QED
        BY <1>2, <3>2, <3>3
    <2> QED
      BY <1>2, <2>1, <2>2
  <1>4. ASSUME g >= FixedHeader, g < FixedHeader + m.header
        PROVE  ReadHeader(Reader("header", g, FixedHeader, Bytes(0, 0)), m, k)
                 = HeaderAt(m, g + k)
    <2>1. ProcessJsonheaderLength(Reader("header", g + k, FixedHeader, Bytes(0, 0)))
             = Reader("header", g + k, FixedHeader, Bytes(0, 0))
      BY LengthOf
    <2>2. CASE g + k < FixedHeader + m.header
      <3>1. ProcessJsonheader(Reader("header", g + k, FixedHeader, Bytes(0, 0)), m)
               = Reader("header", g + k, FixedHeader, Bytes(0, 0))
        BY <1>2, <2>2, HeaderOf
      <3>2. HeaderAt(m, g + k) = Reader("header", g + k, FixedHeader, Bytes(0, 0))
        <4>1. g + k >= FixedHeader
          BY <1>2, <1>4
        <4> QED
          BY <1>2, <2>2, <4>1, Places
      <3> QED
        BY <1>1, <2>1, <3>1, <3>2
    <2>3. CASE g + k >= FixedHeader + m.header
      <3>1. ProcessJsonheader(Reader("header", g + k, FixedHeader, Bytes(0, 0)), m)
               = Reader("content", g + k, FixedHeader + m.header, Bytes(0, 0))
        BY <1>2, <2>3, HeaderOf
      <3>2. HeaderAt(m, g + k) = Reader("content", g + k, FixedHeader + m.header, Bytes(0, 0))
        BY <1>2, <2>3, Places
      <3> QED
        BY <1>1, <2>1, <3>1, <3>2
    <2> QED
      BY <1>2, <2>2, <2>3
  <1>5. ASSUME NEW s \in {"content", "done"}, NEW t, NEW d
        PROVE  ReadHeader(Reader(s, g, t, d), m, k) = Reader(s, g + k, t, d)
    BY <1>1, LengthOf, HeaderOf
  <1>6. CASE g < FixedHeader
    <2>1. /\ HeaderAt(m, g) = Reader("length", g, 0, Bytes(0, 0))
          /\ ParserAt(m, g) = Reader("length", g, 0, Bytes(0, 0))
      BY <1>6, Places
    <2>2. g < Size(m)
      BY <1>2, <1>6
    <2> QED
      BY <1>2, <1>3, <1>6, <2>1, <2>2
  <1>7. CASE g >= FixedHeader /\ g < FixedHeader + m.header
    <2>1. /\ HeaderAt(m, g) = Reader("header", g, FixedHeader, Bytes(0, 0))
          /\ ParserAt(m, g) = Reader("header", g, FixedHeader, Bytes(0, 0))
      BY <1>7, Places
    <2>2. g < Size(m)
      BY <1>2, <1>7
    <2> QED
      BY <1>2, <1>4, <1>7, <2>1, <2>2
  <1>8. CASE g >= FixedHeader + m.header
    <2>1. /\ HeaderAt(m, g) = Reader("content", g, FixedHeader + m.header, Bytes(0, 0))
          /\ HeaderAt(m, g + k) = Reader("content", g + k, FixedHeader + m.header, Bytes(0, 0))
      <3>1. g + k >= FixedHeader + m.header
        BY <1>2, <1>8
      <3> QED
        BY <1>2, <1>8, <3>1, Places
    <2>2. g < Size(m) => ParserAt(m, g) = HeaderAt(m, g)
      BY <1>8, <2>1, Places
    <2>3. ASSUME g >= Size(m)
          PROVE  ReadHeader(ParserAt(m, g), m, k) = ParserAt(m, g + k)
      <3> DEFINE d == Bytes(FixedHeader + m.header, Size(m))
      <3>1. g + k >= Size(m)
        BY <1>2, <2>3
      <3>2. ParserAt(m, g) = Reader("done", g, Size(m), d)
        BY <2>3, Places
      <3>3. ParserAt(m, g + k) = Reader("done", g + k, Size(m), d)
        BY <1>2, <3>1, Places
      <3> HIDE DEF d
      <3> QED
        BY <1>5, <3>2, <3>3
    <2> QED
      BY <1>5, <2>1, <2>2, <2>3
  <1> QED
    BY <1>2, <1>6, <1>7, <1>8

\* So is the message.
LEMMA MessageCut ==
    ASSUME NEW m, IsMessage(m), NEW g \in Nat, NEW k \in Nat
    PROVE  ReadMessage(ParserAt(m, g), m, k) = ParserAt(m, g + k)
  <1>1. /\ m.header \in Nat /\ m.length \in Nat /\ g + k \in Nat /\ FixedHeader \in Nat
        /\ Size(m) = FixedHeader + m.header + m.length
    BY DEF IsMessage, FixedHeader, Size
  <1>2. ASSUME NEW n \in Nat
        PROVE  ProcessContent(HeaderAt(m, n), m) = ParserAt(m, n)
    <2>1. CASE n < FixedHeader + m.header
      <3>1. n < Size(m)
        BY <1>1, <2>1
      <3>2. \/ /\ HeaderAt(m, n) = Reader("length", n, 0, Bytes(0, 0))
               /\ ParserAt(m, n) = Reader("length", n, 0, Bytes(0, 0))
            \/ /\ HeaderAt(m, n) = Reader("header", n, FixedHeader, Bytes(0, 0))
               /\ ParserAt(m, n) = Reader("header", n, FixedHeader, Bytes(0, 0))
        <4>1. CASE n < FixedHeader
          BY <4>1, Places
        <4>2. CASE n >= FixedHeader
          BY <2>1, <4>2, Places
        <4> QED
          BY <1>1, <4>1, <4>2
      <3> QED
        BY <3>2, ContentOf
    <2>2. CASE n >= FixedHeader + m.header
      <3>1. HeaderAt(m, n) = Reader("content", n, FixedHeader + m.header, Bytes(0, 0))
        BY <2>2, Places
      <3>2. CASE n < Size(m)
        <4>1. ParserAt(m, n) = HeaderAt(m, n)
          BY <2>2, <3>1, <3>2, Places
        <4>2. ~(n - (FixedHeader + m.header) >= m.length)
          BY <1>1, <3>2
        <4> QED
          BY <3>1, <4>1, <4>2, ContentOf
      <3>3. CASE n >= Size(m)
        <4>1. ParserAt(m, n) = Reader("done", n, Size(m),
                                      Bytes(FixedHeader + m.header, Size(m)))
          BY <3>3, Places
        <4>2. n - (FixedHeader + m.header) >= m.length
          BY <1>1, <3>3
        <4> QED
          BY <1>1, <3>1, <4>1, <4>2, ContentOf
      <3> QED
        BY <1>1, <3>2, <3>3
    <2> QED
      BY <1>1, <2>1, <2>2
  <1>3. CASE g < Size(m)
    BY <1>1, <1>2, <1>3, HeaderCut DEF ReadMessage
  <1>4. CASE g >= Size(m)
    <2> DEFINE d == Bytes(FixedHeader + m.header, Size(m))
    <2>1. ParserAt(m, g + k) = Reader("done", g + k, Size(m), d)
      <3>1. g + k >= Size(m)
        BY <1>1, <1>4
      <3> QED
        BY <1>1, <3>1, Places
    <2>2. ReadHeader(ParserAt(m, g), m, k) = Reader("done", g + k, Size(m), d)
      BY <1>4, <2>1, HeaderCut
    <2> HIDE DEF d
    <2> QED
      <3>1. ProcessContent(Reader("done", g + k, Size(m), d), m)
               = Reader("done", g + k, Size(m), d)
        BY ContentOf
      <3> QED
        BY <2>1, <2>2, <3>1 DEF ReadMessage
  <1> QED
    BY <1>1, <1>3, <1>4

\* A parser that has not got anything is a new one.
LEMMA NewParser ==
    ASSUME NEW m
    PROVE  NewReader = ParserAt(m, 0) /\ NewReader = HeaderAt(m, 0)
  BY DEF NewReader, ParserAt, HeaderAt, FixedHeader

-----------------------------------------------------------------------------

\* A message that comes in two pieces is parsed like one that comes in one,
\* whatever the sizes of the pieces.
THEOREM PiecesAddUp ==
    ASSUME NEW m, IsMessage(m), NEW g \in Nat, NEW k \in Nat
    PROVE  /\ ReadMessage(ReadMessage(NewReader, m, g), m, k) = ReadMessage(NewReader, m, g + k)
           /\ ReadHeader(ReadHeader(NewReader, m, g), m, k) = ReadHeader(NewReader, m, g + k)
  <1>1. ASSUME NEW n \in Nat
        PROVE  /\ ReadMessage(NewReader, m, n) = ParserAt(m, n)
               /\ ReadHeader(NewReader, m, n) = HeaderAt(m, n)
    <2>1. 0 + n = n /\ 0 \in Nat
      OBVIOUS
    <2>2. ReadMessage(ParserAt(m, 0), m, n) = ParserAt(m, 0 + n)
      BY <2>1, MessageCut
    <2>3. ReadHeader(HeaderAt(m, 0), m, n) = HeaderAt(m, 0 + n)
      BY <2>1, HeaderCut
    <2> QED
      BY <2>1, <2>2, <2>3, NewParser
  <1>2. g + k \in Nat
    OBVIOUS
  <1> QED
    BY <1>1, <1>2, MessageCut, HeaderCut

LEMMA ReaderTypes ==
    ASSUME NEW s \in Stage, NEW g \in Nat, NEW t \in Nat, NEW x \in Nat, NEW y \in Nat, t <= g
    PROVE  IsReader(Reader(s, g, t, Bytes(x, y)))
  BY DEF IsReader, Reader, Bytes

\* What is received, and when.
LEMMA ParserFacts ==
    ASSUME NEW m, IsMessage(m), NEW g \in Nat
    PROVE  /\ IsReader(ParserAt(m, g)) /\ IsReader(HeaderAt(m, g))
           /\ ParserAt(m, g).got = g /\ HeaderAt(m, g).got = g
           /\ ParserAt(m, g).stage = "done" <=> g >= Size(m)
           /\ HeaderAt(m, g).stage # "done"
           /\ HeaderAt(m, g).stage = "content" <=> g >= FixedHeader + m.header
           /\ g >= Size(m) => Slice(m, ParserAt(m, g).data) = Whole(m)
  <1>1. /\ m.header \in Nat /\ m.length \in Nat /\ FixedHeader \in Nat
        /\ FixedHeader + m.header \in Nat /\ Size(m) \in Nat
        /\ Size(m) = FixedHeader + m.header + m.length
    BY DEF IsMessage, Size, FixedHeader
  <1>2. 0 \in Nat /\ 0 <= g /\ {"length", "header", "content", "done"} = Stage
    BY DEF Stage
  <1>3. CASE g < FixedHeader
    <2>1. /\ HeaderAt(m, g) = Reader("length", g, 0, Bytes(0, 0))
          /\ ParserAt(m, g) = Reader("length", g, 0, Bytes(0, 0))
      BY <1>3, Places
    <2>2. IsReader(Reader("length", g, 0, Bytes(0, 0)))
      BY <1>2, ReaderTypes
    <2>3. g < Size(m) /\ g < FixedHeader + m.header
      BY <1>1, <1>3
    <2> QED
      BY <1>1, <2>1, <2>2, <2>3, ReaderFields
  <1>4. CASE g >= FixedHeader /\ g < FixedHeader + m.header
    <2>1. /\ HeaderAt(m, g) = Reader("header", g, FixedHeader, Bytes(0, 0))
          /\ ParserAt(m, g) = Reader("header", g, FixedHeader, Bytes(0, 0))
      BY <1>4, Places
    <2>2. IsReader(Reader("header", g, FixedHeader, Bytes(0, 0)))
      BY <1>1, <1>2, <1>4, ReaderTypes
    <2>3. g < Size(m)
      BY <1>1, <1>4
    <2> QED
      BY <1>1, <1>4, <2>1, <2>2, <2>3, ReaderFields
  <1>5. CASE g >= FixedHeader + m.header
    <2> DEFINE n == FixedHeader + m.header
    <2>1. HeaderAt(m, g) = Reader("content", g, n, Bytes(0, 0))
      BY <1>5, Places
    <2>2. n \in Nat /\ n <= g
      BY <1>1, <1>5
    <2> HIDE DEF n
    <2>3. IsReader(Reader("content", g, n, Bytes(0, 0)))
      BY <1>2, <2>2, ReaderTypes
    <2>4. CASE g < Size(m)
      <3>1. ParserAt(m, g) = Reader("content", g, n, Bytes(0, 0))
        BY <1>5, <2>4, Places DEF n
      <3> QED
        BY <1>1, <1>5, <2>1, <2>3, <2>4, <3>1, ReaderFields
    <2>5. CASE g >= Size(m)
      <3>1. ParserAt(m, g) = Reader("done", g, Size(m), Bytes(n, Size(m)))
        BY <2>5, Places DEF n
      <3>2. IsReader(Reader("done", g, Size(m), Bytes(n, Size(m))))
        BY <1>1, <1>2, <2>2, <2>5, ReaderTypes
      <3>3. Slice(m, ParserAt(m, g).data) = Whole(m)
        BY <3>1, ReaderFields DEF Whole, n
      <3> QED
        BY <1>5, <2>1, <2>3, <2>5, <3>1, <3>2, <3>3, ReaderFields
    <2> QED
      BY <1>1, <2>4, <2>5
  <1> QED
    BY <1>1, <1>3, <1>4, <1>5

=============================================================================
