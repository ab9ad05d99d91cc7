----------------------- MODULE ClientConnectionProofs -----------------------
(***************************************************************************)
(* Proofs about ClientConnection, for any exchanges, messages of any       *)
(* length, and pieces of any size.                                         *)
(***************************************************************************)
EXTENDS ClientConnection, FramingProofs

-----------------------------------------------------------------------------
(* The inductive invariant *)

\* What a missing answer is put down to, unless the kernel dropped it.  It does
\* not go away: a poisoned node stays poisoned until it crashes.
Cause == poisoned \/ crashes > 0

\* Where the parser of the server is: of a request it never reads the content.
AskedAt(c, got) ==
    IF c \in Request THEN HeaderAt(ClientMessage(c), got)
    ELSE ParserAt(ClientMessage(c), got)

ParserInv(c) ==
    /\ asked[c] = AskedAt(c, asked[c].got)
    /\ IF queued[c] = <<>> THEN answered[c] = NewReader
       ELSE answered[c] = ParserAt(Answer(c), answered[c].got)

\* What the state of the light node says of its exchange.
LightInv(c) ==
    /\ light[c] = "idle" <=> server[c] = "none"
    /\ light[c] = "idle" => sent[c].light = 0
    /\ light[c] = "writing" => sent[c].light < Size(ClientMessage(c))
    /\ light[c] = "reading" => c \in Request
    /\ light[c] \in LightOpen => answered[c].stage # "done"
    /\ light[c] # "idle" => database = Unreadable \/ begun[c] <= database
    /\ c \in Request /\ light[c] = "closed" =>
          answered[c].stage = "done" \/ Cause \/ (server[c] = "closed" /\ MayReset(c))

\* And the state of the server.  When it has closed before the light node, it
\* has sent all it had to, or there is a cause.
ServerInv(c) ==
    /\ server[c] = "refused" => crashes > 0
    /\ server[c] \in ServerOpen /\ c \notin Request => asked[c].stage # "done"
    /\ server[c] = "writing" =>
          c \in Request /\ (queued[c] # <<>> => sent[c].server < Size(Answer(c)))
    /\ queued[c] # <<>> =>
          /\ c \in Request /\ server[c] \in {"writing", "closed"}
          /\ begun[c] <= queued[c][1]
          /\ database = Unreadable \/ queued[c][1] <= database
    /\ server[c] = "closed" /\ light[c] \in LightOpen =>
          Cause \/ (queued[c] # <<>> /\ sent[c].server = Size(Answer(c)))

ExchangeInv(c) == ParserInv(c) /\ LightInv(c) /\ ServerInv(c)

IInv ==
    /\ TypeOK
    /\ database = Unreadable => crashes > 0
    /\ crashes = 0 => up
    /\ \A c \in Exchange : ExchangeInv(c)

-----------------------------------------------------------------------------
(* Facts about one state *)

LEMMA Kinds ==
    ASSUME NEW c \in Exchange
    PROVE  c \in Broadcast <=> c \notin Request
  BY ExchangeAssumption DEF Exchange

\* Every message has a length, and is not empty.
LEMMA MessageType ==
    /\ \A c : /\ IsMessage(ClientMessage(c))
              /\ Size(ClientMessage(c)) \in Nat /\ Size(ClientMessage(c)) > 0
    /\ \A blocks \in 0..MaxBlocks :
          /\ IsMessage(DatabaseMessage(blocks))
          /\ Size(DatabaseMessage(blocks)) \in Nat /\ Size(DatabaseMessage(blocks)) > 0
  <1>1. ASSUME NEW c
        PROVE  /\ ClientMessage(c).header = HeaderLength
               /\ ClientMessage(c).length \in Nat
    BY LengthAssumption DEF ClientMessage, Message
  <1>2. ASSUME NEW blocks \in 0..MaxBlocks
        PROVE  /\ DatabaseMessage(blocks).header = HeaderLength
               /\ DatabaseMessage(blocks).length \in Nat
    BY LengthAssumption DEF DatabaseMessage, Message
  <1> QED
    BY <1>1, <1>2, LengthAssumption DEF IsMessage, Size, FixedHeader

LEMMA SameMessage ==
    ASSUME NEW c
    PROVE  /\ ClientMessage(c)' = ClientMessage(c)
           /\ queued'[c] = queued[c] => Answer(c)' = Answer(c)
  BY DEF ClientMessage, Message, Answer, DatabaseMessage

\* What TypeOK says of the node and of one exchange.
NodeType ==
    /\ database \in 0..MaxBlocks
    /\ poisoned \in BOOLEAN /\ up \in BOOLEAN
    /\ crashes \in 0..MaxCrashes

ExchangeShape ==
    /\ light \in [Exchange -> {"idle", "closed", "interrupted"} \cup LightOpen]
    /\ server \in [Exchange -> {"none", "refused", "closed"} \cup ServerOpen]
    /\ asked = [c \in Exchange |-> asked[c]]
    /\ answered = [c \in Exchange |-> answered[c]]
    /\ queued \in [Exchange -> {<<>>} \cup {<<blocks>> : blocks \in 1..MaxBlocks}]
    /\ sent \in [Exchange -> [light : Nat, server : Nat]]
    /\ begun \in [Exchange -> 0..MaxBlocks]

ExchangeType(c) ==
    /\ IsReader(asked[c]) /\ IsReader(answered[c])
    /\ asked[c].got <= sent[c].light /\ sent[c].light <= Size(ClientMessage(c))
    /\ answered[c].got <= sent[c].server
    /\ IF queued[c] = <<>> THEN sent[c].server = 0
       ELSE sent[c].server <= Size(Answer(c))

LEMMA TypeParts ==
    TypeOK <=> NodeType /\ ExchangeShape /\ \A c \in Exchange : ExchangeType(c)
  BY DEF TypeOK, NodeType, ExchangeShape, ExchangeType

\* What the invariant means for the two messages of an exchange.
Numbers(c) ==
    /\ asked[c].got \in Nat /\ answered[c].got \in Nat
    /\ sent[c].light \in Nat /\ sent[c].server \in Nat
    /\ asked[c].got <= sent[c].light /\ sent[c].light <= Size(ClientMessage(c))
    /\ answered[c].got <= sent[c].server

AskedDone(c) ==
    /\ c \in Request => asked[c].stage # "done"
    /\ c \notin Request =>
          /\ asked[c].stage = "done" <=> asked[c].got = Size(ClientMessage(c))
          /\ asked[c].stage = "done" =>
                Slice(ClientMessage(c), asked[c].data) = Whole(ClientMessage(c))

AnsweredDone(c) ==
    /\ queued[c] = <<>> =>
          /\ answered[c] = NewReader /\ answered[c].stage # "done"
          /\ sent[c].server = 0 /\ answered[c].got = 0
    /\ queued[c] # <<>> =>
          /\ queued[c][1] \in 1..MaxBlocks /\ queued[c] = <<queued[c][1]>>
          /\ IsMessage(Answer(c)) /\ Size(Answer(c)) \in Nat /\ Size(Answer(c)) > 0
          /\ sent[c].server <= Size(Answer(c))
          /\ answered[c].stage = "done" <=> answered[c].got = Size(Answer(c))
          /\ answered[c].stage = "done" => Slice(Answer(c), answered[c].data) = Whole(Answer(c))

Facts == \A c \in Exchange : Numbers(c) /\ AskedDone(c) /\ AnsweredDone(c)

\* NewReader, by its fields.
LEMMA NewReaderFields ==
    IsReader(NewReader) /\ NewReader.got = 0 /\ NewReader.stage = "length"
  <1>1. "length" \in Stage /\ 0 \in Nat /\ 0 <= 0
    BY DEF Stage
  <1> QED
    BY <1>1, ReaderTypes, ReaderFields DEF NewReader

LEMMA FactsHold == IInv => Facts
  <1> SUFFICES ASSUME IInv, NEW c \in Exchange
               PROVE  Numbers(c) /\ AskedDone(c) /\ AnsweredDone(c)
    BY DEF Facts
  <1>1. ExchangeShape /\ ExchangeType(c) /\ ParserInv(c)
    BY TypeParts DEF IInv, ExchangeInv
  <1>2. Numbers(c)
    BY <1>1 DEF ExchangeShape, ExchangeType, IsReader, Numbers
  <1>3. AskedDone(c)
    <2> DEFINE m == ClientMessage(c)
               g == asked[c].got
    <2>1. IsMessage(m) /\ Size(m) \in Nat /\ g \in Nat /\ g <= Size(m)
      BY <1>2, MessageType DEF Numbers
    <2>2. asked[c] = IF c \in Request THEN HeaderAt(m, g) ELSE ParserAt(m, g)
      BY <1>1 DEF ParserInv, AskedAt
    <2> HIDE DEF m, g
    <2>3. /\ HeaderAt(m, g).stage # "done"
          /\ ParserAt(m, g).stage = "done" <=> g >= Size(m)
          /\ g >= Size(m) => Slice(m, ParserAt(m, g).data) = Whole(m)
      BY <2>1, ParserFacts
    <2>4. g >= Size(m) <=> g = Size(m)
      BY <2>1
    <2> QED
      BY <2>2, <2>3, <2>4 DEF AskedDone, m, g
  <1>4. ASSUME queued[c] = <<>>
        PROVE  AnsweredDone(c)
    <2>1. answered[c] = NewReader /\ sent[c].server = 0
      BY <1>1, <1>4 DEF ExchangeType, ParserInv
    <2> QED
      BY <1>4, <2>1, NewReaderFields DEF AnsweredDone
  <1>5. ASSUME queued[c] # <<>>
        PROVE  AnsweredDone(c)
    <2> DEFINE m == Answer(c)
               g == answered[c].got
    <2>1. PICK blocks \in 1..MaxBlocks : queued[c] = <<blocks>>
      BY <1>1, <1>5 DEF ExchangeShape
    <2>2. queued[c][1] = blocks /\ blocks \in 0..MaxBlocks
      BY <2>1, BoundAssumption
    <2>3. IsMessage(m) /\ Size(m) \in Nat /\ Size(m) > 0
      BY <2>2, MessageType DEF Answer
    <2>4. sent[c].server <= Size(m) /\ g \in Nat /\ g <= Size(m) /\ sent[c].server \in Nat
      BY <1>1, <1>2, <1>5, <2>3 DEF ExchangeType, Numbers
    <2>5. answered[c] = ParserAt(m, g)
      BY <1>1, <1>5 DEF ParserInv
    <2> HIDE DEF m, g
    <2>6. /\ ParserAt(m, g).stage = "done" <=> g >= Size(m)
          /\ g >= Size(m) => Slice(m, ParserAt(m, g).data) = Whole(m)
      BY <2>3, <2>4, ParserFacts
    <2>7. g >= Size(m) <=> g = Size(m)
      BY <2>3, <2>4
    <2>8. queued[c] = <<queued[c][1]>> /\ queued[c][1] \in 1..MaxBlocks
      BY <2>1, <2>2
    <2>9. /\ answered[c].stage = "done" <=> g = Size(m)
          /\ answered[c].stage = "done" => Slice(m, answered[c].data) = Whole(m)
      BY <2>5, <2>6, <2>7
    <2> QED
      BY <1>5, <2>3, <2>4, <2>8, <2>9 DEF AnsweredDone, m, g
  <1> QED
    BY <1>2, <1>3, <1>4, <1>5

\* The same of the next state.
LEMMA FactsNext == IInv' => Facts'
  BY FactsHold, PTL

LEMMA InitInv == Init => IInv
  <1> SUFFICES ASSUME Init
               PROVE  IInv
    OBVIOUS
  <1>1. NodeType /\ database # Unreadable /\ up
    <2>1. database \in 0..MaxBlocks /\ crashes \in 0..MaxCrashes
      BY BoundAssumption DEF Init
    <2>2. database = 1 /\ poisoned = FALSE /\ up = TRUE
      BY DEF Init
    <2>3. 1 # Unreadable
      BY DEF Unreadable
    <2> QED
      BY <2>1, <2>2, <2>3 DEF NodeType
  <1>2. ExchangeShape
    BY BoundAssumption DEF Init, ExchangeShape
  <1>3. ASSUME NEW c \in Exchange
        PROVE  /\ asked[c] = NewReader /\ answered[c] = NewReader /\ queued[c] = <<>>
               /\ sent[c].light = 0 /\ sent[c].server = 0
               /\ light[c] = "idle" /\ server[c] = "none"
    BY DEF Init
  <1>4. ASSUME NEW c \in Exchange
        PROVE  ExchangeType(c) /\ ExchangeInv(c)
    <2>1. ExchangeType(c)
      BY <1>3, MessageType, NewReaderFields DEF ExchangeType
    <2>2. NewReader = AskedAt(c, 0)
      BY MessageType, NewParser DEF AskedAt
    <2>3. ParserInv(c)
      BY <1>3, <2>2, NewReaderFields DEF ParserInv
    <2>4. LightInv(c) /\ ServerInv(c)
      BY <1>3 DEF LightInv, ServerInv, LightOpen, ServerOpen
    <2> QED
      BY <2>1, <2>3, <2>4 DEF ExchangeInv
  <1> QED
    BY <1>1, <1>2, <1>4, TypeParts DEF IInv

-----------------------------------------------------------------------------
(* Steps *)

\* What a node does to its exchanges: the database does not shrink, unless it
\* is lost, and causes do not go away.
Onward ==
    /\ NodeType'
    /\ Cause => Cause'
    /\ crashes > 0 => crashes' > 0
    /\ database = Unreadable => database' = Unreadable
    /\ database' = Unreadable \/ database <= database'
    /\ database' = Unreadable => crashes' > 0
    /\ crashes' = 0 => up'

\* Nothing happens on an exchange.
Rests(c) ==
    /\ light'[c] = light[c] /\ server'[c] = server[c] /\ asked'[c] = asked[c]
    /\ queued'[c] = queued[c] /\ answered'[c] = answered[c]
    /\ sent'[c] = sent[c] /\ begun'[c] = begun[c]

LEMMA NodeRests ==
    ASSUME IInv, UNCHANGED node
    PROVE  Onward /\ Cause' = Cause
  <1>1. UNCHANGED <<database, poisoned, up, crashes>>
    BY DEF node
  <1>2. NodeType /\ database <= database
    BY TypeParts DEF IInv, NodeType
  <1> QED
    BY <1>1, <1>2 DEF Onward, IInv, NodeType, Cause

\* begun and queued stay behind the database.
LEMMA StillBehind ==
    ASSUME IInv, Onward, NEW b \in 0..MaxBlocks, database = Unreadable \/ b <= database
    PROVE  database' = Unreadable \/ b <= database'
  <1>1. b \in Nat /\ database \in Nat /\ database' \in Nat
    BY TypeParts DEF IInv, Onward, NodeType
  <1> QED
    BY <1>1 DEF Onward

LEMMA RestingExchange ==
    ASSUME IInv, Onward, NEW c \in Exchange, Rests(c)
    PROVE  ExchangeType(c)' /\ ExchangeInv(c)'
  <1>1. ExchangeType(c) /\ ExchangeInv(c) /\ begun[c] \in 0..MaxBlocks
    BY TypeParts DEF IInv, ExchangeShape
  <1>2. ClientMessage(c)' = ClientMessage(c) /\ Answer(c)' = Answer(c)
    BY SameMessage DEF Rests
  <1>3. ExchangeType(c)'
    BY <1>1, <1>2 DEF Rests, ExchangeType
  <1>4. ParserInv(c)'
    BY <1>1, <1>2 DEF Rests, ExchangeInv, ParserInv, AskedAt
  <1>5. LightInv(c)'
    <2>1. light[c] # "idle" => database' = Unreadable \/ begun[c] <= database'
      BY <1>1, StillBehind DEF ExchangeInv, LightInv
    <2>2. MayReset(c)' = MayReset(c)
      BY DEF Rests, MayReset
    <2> QED
      BY <1>1, <1>2, <2>1, <2>2 DEF Rests, ExchangeInv, LightInv, Onward
  <1>6. ServerInv(c)'
    <2>1. ASSUME queued[c] # <<>>
          PROVE  database' = Unreadable \/ queued[c][1] <= database'
      <3>1. queued[c][1] \in 0..MaxBlocks
        BY <2>1, FactsHold, BoundAssumption DEF Facts, AnsweredDone
      <3> QED
        BY <1>1, <2>1, <3>1, StillBehind DEF ExchangeInv, ServerInv
    <2> QED
      BY <1>1, <1>2, <2>1 DEF Rests, ExchangeInv, ServerInv, Onward
  <1> QED
    BY <1>3, <1>4, <1>5, <1>6 DEF ExchangeInv

\* It is enough to look at the exchange of a step.
LEMMA OneExchange ==
    ASSUME IInv, Onward, NEW c \in Exchange, ExchangeShape',
           ExchangeType(c)', ParserInv(c)', LightInv(c)', ServerInv(c)',
           \A d \in Exchange \ {c} : Rests(d)
    PROVE  IInv'
  <1>1. ASSUME NEW d \in Exchange
        PROVE  ExchangeType(d)' /\ ExchangeInv(d)'
    BY RestingExchange DEF ExchangeInv
  <1>2. TypeOK'
    BY <1>1 DEF TypeOK, NodeType, ExchangeShape, ExchangeType, Onward
  <1> QED
    BY <1>1, <1>2 DEF IInv, Onward

LEMMA StartConnectionStep ==
    ASSUME IInv, NEW c \in Exchange, StartConnection(c)
    PROVE  /\ IInv'
           /\ light'[c] = "writing" /\ server'[c] = IF up THEN "backlog" ELSE "refused"
           /\ \A d \in Exchange \ {c} : Rests(d)
  <1> DEFINE s == IF up THEN "backlog" ELSE "refused"
  <1>1. /\ ExchangeShape /\ NodeType /\ ExchangeType(c) /\ ExchangeInv(c)
        /\ Numbers(c) /\ AskedDone(c) /\ AnsweredDone(c)
    BY TypeParts, FactsHold DEF IInv, Facts
  <1>2. /\ light[c] = "idle"
        /\ light' = [light EXCEPT ![c] = "writing"] /\ server' = [server EXCEPT ![c] = s]
        /\ begun' = [begun EXCEPT ![c] = database]
        /\ UNCHANGED <<node, asked, queued, answered, sent>>
    BY DEF StartConnection
  <1>3. Onward /\ Cause' = Cause /\ UNCHANGED <<database, poisoned, up, crashes>>
    BY <1>2, NodeRests DEF node
  <1>4. s \in {"backlog", "refused"}
    OBVIOUS
  <1> HIDE DEF s
  <1>5. /\ light'[c] = "writing" /\ server'[c] = s /\ begun'[c] = database
        /\ \A d \in Exchange \ {c} : Rests(d)
    BY <1>1, <1>2 DEF ExchangeShape, Rests
  <1>6. ExchangeShape'
    BY <1>1, <1>2, <1>4 DEF ExchangeShape, NodeType, LightOpen, ServerOpen
  <1>7. ClientMessage(c)' = ClientMessage(c) /\ Answer(c)' = Answer(c)
    BY <1>2, SameMessage
  <1>8. server[c] = "none" /\ queued[c] = <<>> /\ sent[c].light = 0
    BY <1>1, <1>2 DEF ExchangeInv, LightInv, ServerInv
  <1>9. ExchangeType(c)' /\ ParserInv(c)'
    BY <1>1, <1>2, <1>7 DEF ExchangeType, ExchangeInv, ParserInv, AskedAt
  <1>10. LightInv(c)'
    <2>1. database <= database /\ Size(ClientMessage(c)) > 0
      BY <1>1, MessageType DEF NodeType
    <2> QED
      BY <1>1, <1>2, <1>3, <1>4, <1>5, <1>7, <1>8, <2>1 DEF LightInv, AnsweredDone
  <1>11. ServerInv(c)'
    <2>1. asked[c].stage # "done" \/ c \in Request
      BY <1>1, <1>8, MessageType DEF AskedDone, Numbers
    <2>2. s = "refused" => crashes > 0
      <3>1. ~up => crashes # 0 /\ crashes \in Nat
        BY <1>1, BoundAssumption DEF IInv, NodeType
      <3> QED
        BY <3>1 DEF s
    <2> QED
      BY <1>2, <1>3, <1>4, <1>5, <1>8, <2>1, <2>2 DEF ServerInv
  <1> QED
    BY <1>3, <1>5, <1>6, <1>9, <1>10, <1>11, OneExchange DEF s

LEMMA LightWriteStep ==
    ASSUME IInv, NEW c \in Exchange, NEW n \in Nat \ {0}, LightWrite(c, n)
    PROVE  /\ IInv'
           /\ light'[c] = IF sent'[c].light = Size(ClientMessage(c))
                          THEN IF c \in Request THEN "reading" ELSE "closed"
                          ELSE "writing"
           /\ sent'[c].server = sent[c].server
           /\ \A d \in Exchange \ {c} : Rests(d)
  <1> DEFINE size == Size(ClientMessage(c))
             total == sent[c].light + n
             l == IF total # size THEN "writing"
                  ELSE IF c \in Request THEN "reading" ELSE "closed"
  <1>1. /\ ExchangeShape /\ NodeType /\ ExchangeType(c) /\ ExchangeInv(c)
        /\ Numbers(c) /\ AskedDone(c) /\ AnsweredDone(c)
    BY TypeParts, FactsHold DEF IInv, Facts
  <1>2. /\ light[c] = "writing" /\ server[c] # "refused" /\ total <= size
        /\ sent' = [sent EXCEPT ![c].light = total]
        /\ light' = [light EXCEPT ![c] = l]
        /\ UNCHANGED <<node, server, asked, queued, answered, begun>>
    BY DEF LightWrite
  <1>3. Onward /\ Cause' = Cause /\ UNCHANGED <<database, poisoned, up, crashes>>
    BY <1>2, NodeRests DEF node
  <1>4. /\ l \in {"writing", "reading", "closed"} /\ total \in Nat /\ size \in Nat
        /\ sent[c].light < total
    BY <1>1, MessageType DEF Numbers
  <1> HIDE DEF l, total
  <1>5. /\ light'[c] = l /\ sent'[c].light = total /\ sent'[c].server = sent[c].server
        /\ \A d \in Exchange \ {c} : Rests(d)
    BY <1>1, <1>2 DEF ExchangeShape, Rests
  <1>6. ExchangeShape'
    <2>1. sent' \in [Exchange -> [light : Nat, server : Nat]]
      BY <1>1, <1>2, <1>4 DEF ExchangeShape
    <2> QED
      BY <1>1, <1>2, <1>4, <2>1 DEF ExchangeShape, LightOpen
  <1>7. ClientMessage(c)' = ClientMessage(c) /\ Answer(c)' = Answer(c)
    BY <1>2, SameMessage
  <1>8. ExchangeType(c)' /\ ParserInv(c)'
    <2>1. asked[c].got <= total
      BY <1>1, <1>4 DEF Numbers
    <2> QED
      BY <1>1, <1>2, <1>5, <1>7, <2>1 DEF ExchangeType, ExchangeInv, ParserInv, AskedAt
  <1>9. LightInv(c)'
    <2>1. /\ l = "writing" => total < size
          /\ l = "reading" => c \in Request
          /\ c \in Request => l # "closed"
      BY <1>2, <1>4 DEF l
    <2> QED
      BY <1>1, <1>2, <1>3, <1>4, <1>5, <1>7, <2>1 DEF ExchangeInv, LightInv, LightOpen
  <1>10. ServerInv(c)'
    BY <1>1, <1>2, <1>3, <1>5, <1>7 DEF ExchangeInv, ServerInv, LightOpen
  <1>11. IInv'
    BY <1>3, <1>5, <1>6, <1>8, <1>9, <1>10, OneExchange
  <1> QED
    BY <1>5, <1>11 DEF l

LEMMA LightReadStep ==
    ASSUME IInv, NEW c \in Exchange, NEW n \in Nat \ {0}, LightRead(c, n)
    PROVE  /\ IInv'
           /\ light'[c] = IF answered'[c].stage = "done" THEN "closed" ELSE "reading"
           /\ \A d \in Exchange \ {c} : Rests(d)
  <1> DEFINE m == Answer(c)
             g == answered[c].got
             reader == ReadMessage(answered[c], m, n)
             l == IF reader.stage = "done" THEN "closed" ELSE "reading"
  <1>1. /\ ExchangeShape /\ NodeType /\ ExchangeType(c) /\ ExchangeInv(c)
        /\ Numbers(c) /\ AskedDone(c) /\ AnsweredDone(c)
    BY TypeParts, FactsHold DEF IInv, Facts
  <1>2. /\ light[c] = "reading" /\ queued[c] # <<>> /\ g + n <= sent[c].server
        /\ answered' = [answered EXCEPT ![c] = reader]
        /\ light' = [light EXCEPT ![c] = l]
        /\ UNCHANGED <<node, server, asked, queued, sent, begun>>
    BY DEF LightRead
  <1>3. Onward /\ Cause' = Cause /\ UNCHANGED <<database, poisoned, up, crashes>>
    BY <1>2, NodeRests DEF node
  <1>4. reader = ParserAt(m, g + n) /\ IsReader(reader) /\ reader.got = g + n
    <2>1. answered[c] = ParserAt(m, g) /\ IsMessage(m) /\ g \in Nat /\ n \in Nat
          /\ g + n \in Nat
      BY <1>1, <1>2 DEF ExchangeInv, ParserInv, AnsweredDone, Numbers
    <2>2. ReadMessage(ParserAt(m, g), m, n) = ParserAt(m, g + n)
      BY <2>1, MessageCut
    <2> HIDE DEF m, g
    <2>3. IsReader(ParserAt(m, g + n)) /\ ParserAt(m, g + n).got = g + n
      BY <2>1, ParserFacts
    <2> QED
      BY <2>1, <2>2, <2>3
  <1> HIDE DEF reader
  <1>5. l \in {"closed", "reading"}
    OBVIOUS
  <1> HIDE DEF l
  <1>6. /\ light'[c] = l /\ answered'[c] = reader
        /\ \A d \in Exchange \ {c} : Rests(d)
    BY <1>1, <1>2 DEF ExchangeShape, Rests
  <1>7. ExchangeShape'
    BY <1>1, <1>2, <1>5 DEF ExchangeShape, LightOpen
  <1>8. ClientMessage(c)' = ClientMessage(c) /\ Answer(c)' = m
    BY <1>2, SameMessage
  <1>9. ExchangeType(c)' /\ ParserInv(c)'
    BY <1>1, <1>2, <1>4, <1>6, <1>8 DEF ExchangeType, ExchangeInv, ParserInv, AskedAt
  <1>10. LightInv(c)'
    <2>1. /\ l = "closed" => reader.stage = "done"
          /\ l = "reading" => reader.stage # "done"
      BY DEF l
    <2> QED
      BY <1>1, <1>2, <1>3, <1>5, <1>6, <1>8, <2>1 DEF ExchangeInv, LightInv, LightOpen
  <1>11. ServerInv(c)'
    BY <1>1, <1>2, <1>3, <1>5, <1>6, <1>8 DEF ExchangeInv, ServerInv, LightOpen
  <1>12. IInv'
    BY <1>3, <1>6, <1>7, <1>9, <1>10, <1>11, OneExchange
  <1> QED
    BY <1>6, <1>12 DEF l

\* The light node closes its end, or is interrupted.
LEMMA LightEndsStep ==
    ASSUME IInv, NEW c \in Exchange, LightFails(c) \/ Interrupt(c)
    PROVE  /\ IInv'
           /\ light[c] \in LightOpen /\ light'[c] \in {"closed", "interrupted"}
           /\ LightFails(c) => server[c] \in {"refused", "closed"}
           /\ UNCHANGED <<node, server, asked, queued, answered, sent, begun>>
           /\ \A d \in Exchange \ {c} : Rests(d)
  <1> DEFINE l == IF LightFails(c) THEN "closed" ELSE "interrupted"
  <1>1. /\ ExchangeShape /\ NodeType /\ ExchangeType(c) /\ ExchangeInv(c)
        /\ Numbers(c) /\ AskedDone(c) /\ AnsweredDone(c)
    BY TypeParts, FactsHold DEF IInv, Facts
  <1>2. /\ light[c] \in LightOpen /\ light' = [light EXCEPT ![c] = l]
        /\ UNCHANGED <<node, server, asked, queued, answered, sent, begun>>
    <2>1. CASE LightFails(c)
      BY <2>1 DEF LightFails, LightOpen
    <2>2. CASE ~LightFails(c) /\ Interrupt(c)
      BY <2>2 DEF Interrupt
    <2> QED
      BY <2>1, <2>2
  <1>3. Onward /\ Cause' = Cause /\ UNCHANGED <<database, poisoned, up, crashes>>
    BY <1>2, NodeRests DEF node
  <1>4. LightFails(c) =>
           /\ server[c] \in {"refused", "closed"}
           /\ c \in Request =>
                 answered[c].stage = "done" \/ Cause \/ (server[c] = "closed" /\ MayReset(c))
    <2> SUFFICES ASSUME LightFails(c)
                 PROVE  /\ server[c] \in {"refused", "closed"}
                        /\ Cause \/ (server[c] = "closed" /\ MayReset(c))
      OBVIOUS
    <2>1. CASE server[c] = "refused"
      BY <1>1, <2>1 DEF ExchangeInv, ServerInv, Cause
    <2>2. CASE server[c] = "closed" /\ MayReset(c)
      BY <2>2
    <2>3. CASE light[c] = "reading" /\ server[c] = "closed" /\ answered[c].got = sent[c].server
      <3>1. answered[c].stage # "done"
        BY <1>1, <1>2 DEF ExchangeInv, LightInv
      <3>2. ~(queued[c] # <<>> /\ sent[c].server = Size(Answer(c)))
        BY <1>1, <2>3, <3>1 DEF AnsweredDone
      <3> QED
        BY <1>1, <1>2, <2>3, <3>2 DEF ExchangeInv, ServerInv
    <2> QED
      BY <2>1, <2>2, <2>3 DEF LightFails
  <1>5. l \in {"closed", "interrupted"} /\ (l = "closed" => LightFails(c))
    OBVIOUS
  <1> HIDE DEF l
  <1>6. light'[c] = l /\ \A d \in Exchange \ {c} : Rests(d)
    BY <1>1, <1>2 DEF ExchangeShape, Rests
  <1>7. ExchangeShape'
    BY <1>1, <1>2, <1>5 DEF ExchangeShape
  <1>8. ClientMessage(c)' = ClientMessage(c) /\ Answer(c)' = Answer(c)
    BY <1>2, SameMessage
  <1>9. ExchangeType(c)' /\ ParserInv(c)'
    BY <1>1, <1>2, <1>8 DEF ExchangeType, ExchangeInv, ParserInv, AskedAt
  <1>10. LightInv(c)'
    <2>1. MayReset(c)' = MayReset(c) /\ light[c] # "idle" /\ server[c] # "none"
      BY <1>1, <1>2 DEF MayReset, LightOpen, ExchangeInv, LightInv
    <2>2. /\ light'[c] \notin {"idle", "writing", "reading"}
          /\ light'[c] \notin LightOpen
      BY <1>5, <1>6 DEF LightOpen
    <2>3. light'[c] = "closed" => LightFails(c)
      BY <1>5, <1>6
    <2> QED
      BY <1>1, <1>2, <1>3, <1>4, <2>1, <2>2, <2>3 DEF ExchangeInv, LightInv
  <1>11. ServerInv(c)'
    <2>1. light'[c] \notin LightOpen
      BY <1>5, <1>6 DEF LightOpen
    <2> QED
      BY <1>1, <1>2, <1>3, <1>8, <2>1 DEF ExchangeInv, ServerInv
  <1>12. IInv'
    BY <1>3, <1>6, <1>7, <1>9, <1>10, <1>11, OneExchange
  <1> QED
    BY <1>2, <1>4, <1>5, <1>6, <1>12

LEMMA AcceptStep ==
    ASSUME IInv, NEW c \in Exchange, Accept(c)
    PROVE  /\ IInv'
           /\ server[c] = "backlog" /\ server'[c] = "reading"
           /\ \A d \in Exchange \ {c} : Rests(d)
  <1>1. /\ ExchangeShape /\ NodeType /\ ExchangeType(c) /\ ExchangeInv(c)
    BY TypeParts DEF IInv
  <1>2. /\ server[c] = "backlog" /\ server' = [server EXCEPT ![c] = "reading"]
        /\ UNCHANGED <<node, light, asked, queued, answered, sent, begun>>
    BY DEF Accept
  <1>3. Onward /\ Cause' = Cause /\ UNCHANGED <<database, poisoned, up, crashes>>
    BY <1>2, NodeRests DEF node
  <1>4. server'[c] = "reading" /\ \A d \in Exchange \ {c} : Rests(d)
    BY <1>1, <1>2 DEF ExchangeShape, Rests
  <1>5. ExchangeShape'
    BY <1>1, <1>2 DEF ExchangeShape, ServerOpen
  <1>6. ClientMessage(c)' = ClientMessage(c) /\ Answer(c)' = Answer(c)
    BY <1>2, SameMessage
  <1>7. ExchangeType(c)' /\ ParserInv(c)'
    BY <1>1, <1>2, <1>6 DEF ExchangeType, ExchangeInv, ParserInv, AskedAt
  <1>8. LightInv(c)' /\ ServerInv(c)'
    BY <1>1, <1>2, <1>3, <1>4, <1>6 DEF ExchangeInv, LightInv, ServerInv, ServerOpen, MayReset
  <1>9. IInv'
    BY <1>3, <1>4, <1>5, <1>7, <1>8, OneExchange
  <1> QED
    BY <1>2, <1>4, <1>9

\* What process does to the node.
LEMMA ProcessStep ==
    ASSUME IInv, NEW received \in BOOLEAN, Process(received)
    PROVE  /\ Onward /\ crashes' = crashes
           /\ poisoned => poisoned'
           /\ ~received => UNCHANGED node /\ Cause' = Cause
  <1>1. NodeType /\ UNCHANGED <<up, crashes>>
    BY TypeParts DEF IInv, Process
  <1>2. CASE /\ ~poisoned /\ database \notin {Unreadable, MaxBlocks}
             /\ database' = database + 1 /\ UNCHANGED poisoned /\ received
    <2>1. database' \in 0..MaxBlocks /\ database <= database' /\ database' # Unreadable
      BY <1>1, <1>2, BoundAssumption DEF NodeType, Unreadable
    <2> QED
      BY <1>1, <1>2, <2>1 DEF NodeType, Onward, Cause, IInv
  <1>3. CASE poisoned' = TRUE /\ UNCHANGED database /\ received
    <2>1. database <= database
      BY <1>1 DEF NodeType
    <2> QED
      BY <1>1, <1>3, <2>1 DEF NodeType, Onward, Cause, IInv
  <1>4. CASE UNCHANGED <<database, poisoned>> /\ ~received
    <2>1. UNCHANGED node
      BY <1>1, <1>4 DEF node
    <2> QED
      BY <1>1, <1>4, <2>1, NodeRests
  <1> QED
    BY <1>2, <1>3, <1>4 DEF Process

LEMMA ServerReadStep ==
    ASSUME IInv, NEW c \in Exchange, NEW n \in Nat \ {0}, ServerRead(c, n)
    PROVE  /\ IInv'
           /\ server'[c] = IF asked'[c].stage = "done" \/ poisoned' THEN "closed"
                           ELSE IF asked'[c].stage = "content" /\ c \in Request
                           THEN "writing" ELSE "reading"
           /\ \A d \in Exchange \ {c} : Rests(d)
  <1> DEFINE m == ClientMessage(c)
             g == asked[c].got
             reader == ServerReader(asked[c], c, n)
             done == reader.stage = "done"
             s == IF done \/ poisoned' THEN "closed"
                  ELSE IF reader.stage = "content" /\ c \in Request THEN "writing" ELSE "reading"
  <1>1. /\ ExchangeShape /\ NodeType /\ ExchangeType(c) /\ ExchangeInv(c)
        /\ Numbers(c) /\ AskedDone(c) /\ AnsweredDone(c)
    BY TypeParts, FactsHold DEF IInv, Facts
  <1>2. /\ server[c] = "reading" /\ g + n <= sent[c].light
        /\ asked' = [asked EXCEPT ![c] = reader]
        /\ Process(done)
        /\ server' = [server EXCEPT ![c] = s]
        /\ UNCHANGED <<light, queued, answered, sent, begun>>
    BY DEF ServerRead
  <1>3. Onward /\ crashes' = crashes /\ (Cause => Cause')
    <2>1. done \in BOOLEAN
      OBVIOUS
    <2> HIDE DEF done
    <2> QED
      BY <1>2, <2>1, ProcessStep DEF Onward
  <1>4. reader = AskedAt(c, g + n) /\ IsReader(reader) /\ reader.got = g + n
    <2>1. asked[c] = AskedAt(c, g) /\ IsMessage(m) /\ g \in Nat /\ n \in Nat /\ g + n \in Nat
      BY <1>1, MessageType DEF ExchangeInv, ParserInv, Numbers
    <2>2. /\ ReadMessage(ParserAt(m, g), m, n) = ParserAt(m, g + n)
          /\ ReadHeader(HeaderAt(m, g), m, n) = HeaderAt(m, g + n)
      BY <2>1, MessageCut, HeaderCut
    <2>3. reader = AskedAt(c, g + n)
      BY <2>1, <2>2 DEF ServerReader, ReadMessage, AskedAt
    <2> HIDE DEF m, g, reader
    <2>4. /\ IsReader(ParserAt(m, g + n)) /\ ParserAt(m, g + n).got = g + n
          /\ IsReader(HeaderAt(m, g + n)) /\ HeaderAt(m, g + n).got = g + n
      BY <2>1, ParserFacts
    <2> QED
      BY <2>3, <2>4 DEF AskedAt, m
  <1> HIDE DEF reader
  <1>5. s \in {"closed", "writing", "reading"}
    OBVIOUS
  <1> HIDE DEF s
  <1>6. /\ server'[c] = s /\ asked'[c] = reader
        /\ \A d \in Exchange \ {c} : Rests(d)
    BY <1>1, <1>2 DEF ExchangeShape, Rests
  <1>7. ExchangeShape'
    BY <1>1, <1>2, <1>5 DEF ExchangeShape, ServerOpen
  <1>8. m' = m /\ Answer(c)' = Answer(c)
    BY <1>2, SameMessage
  <1>9. ExchangeType(c)' /\ ParserInv(c)'
    BY <1>1, <1>2, <1>4, <1>6, <1>8 DEF ExchangeType, ExchangeInv, ParserInv, AskedAt
  <1>10. light[c] # "idle" /\ queued[c] = <<>>
    BY <1>1, <1>2 DEF ExchangeInv, LightInv, ServerInv
  <1>11. LightInv(c)'
    <2>1. database' = Unreadable \/ begun[c] <= database'
      <3>1. begun[c] \in 0..MaxBlocks /\ (database = Unreadable \/ begun[c] <= database)
        BY <1>1, <1>10 DEF ExchangeShape, ExchangeInv, LightInv
      <3> QED
        BY <1>3, <3>1, StillBehind
    <2> QED
      BY <1>1, <1>2, <1>3, <1>5, <1>6, <1>8, <1>10, <2>1 DEF ExchangeInv, LightInv
  <1>12. done => c \notin Request /\ light[c] \notin LightOpen
    <2> SUFFICES ASSUME done
                 PROVE  c \notin Request /\ light[c] \notin LightOpen
      OBVIOUS
    <2>1. IsMessage(m) /\ g + n \in Nat /\ Size(m) \in Nat /\ sent[c].light \in Nat
      BY <1>1, MessageType DEF Numbers
    <2>2. c \notin Request
      BY <1>4, <2>1, ParserFacts DEF AskedAt
    <2>3. g + n >= Size(m)
      BY <1>4, <2>1, <2>2, ParserFacts DEF AskedAt
    <2>4. ~(sent[c].light < Size(m))
      BY <1>2, <2>1, <2>3
    <2> QED
      BY <1>1, <2>2, <2>4 DEF ExchangeInv, LightInv, LightOpen
  <1>13. ServerInv(c)'
    <2>1. s = "closed" => done \/ Cause'
      BY DEF s, Cause
    <2>2. s = "writing" => c \in Request
      BY DEF s
    <2>3. s # "closed" => ~done
      BY DEF s
    <2> QED
      BY <1>2, <1>5, <1>6, <1>10, <1>12, <2>1, <2>2, <2>3 DEF ServerInv, ServerOpen
  <1>14. IInv'
    BY <1>3, <1>6, <1>7, <1>9, <1>11, <1>13, OneExchange
  <1> QED
    BY <1>6, <1>14 DEF s

LEMMA ServerWriteStep ==
    ASSUME IInv, NEW c \in Exchange, NEW n \in Nat \ {0}, ServerWrite(c, n)
    PROVE  /\ IInv'
           /\ server[c] = "writing" /\ queued'[c] # <<>>
           /\ queued[c] # <<>> => queued'[c] = queued[c]
           /\ sent'[c].server > 0 /\ sent'[c].server = sent[c].server + n
           /\ server'[c] = IF sent'[c].server = Size(Answer(c)') \/ poisoned
                           THEN "closed" ELSE "writing"
           /\ UNCHANGED <<light, asked, answered, begun>>
           /\ \A d \in Exchange \ {c} : Rests(d)
  <1> DEFINE q == QueueDatabase(c)
             size == Size(DatabaseMessage(q[1]))
             total == sent[c].server + n
             s == IF total = size \/ poisoned THEN "closed" ELSE "writing"
  <1>1. /\ ExchangeShape /\ NodeType /\ ExchangeType(c) /\ ExchangeInv(c)
        /\ Numbers(c) /\ AskedDone(c) /\ AnsweredDone(c)
    BY TypeParts, FactsHold DEF IInv, Facts
  <1>2. /\ server[c] = "writing" /\ (queued[c] = <<>> => database # Unreadable)
        /\ queued' = [queued EXCEPT ![c] = q]
        /\ sent' = [sent EXCEPT ![c].server = total]
        /\ Process(FALSE) /\ UNCHANGED <<light, asked, answered, begun>>
    BY DEF ServerWrite
  <1>3. /\ UNCHANGED node /\ Onward /\ Cause' = Cause
        /\ UNCHANGED <<database, poisoned, up, crashes>>
    BY <1>2, ProcessStep DEF node
  <1>4. /\ q = <<q[1]>> /\ q[1] \in 1..MaxBlocks
        /\ queued[c] # <<>> => q = queued[c]
        /\ queued[c] = <<>> => q[1] = database
    <2>1. CASE queued[c] = <<>>
      <3>1. q = <<database>> /\ database \in 1..MaxBlocks
        BY <1>1, <1>2, <2>1, BoundAssumption DEF QueueDatabase, NodeType, Unreadable
      <3> QED
        BY <2>1, <3>1
    <2>2. CASE queued[c] # <<>>
      BY <1>1, <2>2 DEF QueueDatabase, AnsweredDone
    <2> QED
      BY <2>1, <2>2
  <1> HIDE DEF q
  <1>5. queued'[c] = q /\ q # <<>>
    <2>1. <<q[1]>> # <<>>
      OBVIOUS
    <2>2. queued'[c] = q
      BY <1>1, <1>2 DEF ExchangeShape
    <2> QED
      BY <1>4, <2>1, <2>2
  <1>6. total <= size /\ server' = [server EXCEPT ![c] = s] /\ Answer(c)' = DatabaseMessage(q[1])
    <2>1. Answer(c)' = DatabaseMessage(q[1])
      BY <1>5 DEF Answer, DatabaseMessage, Message
    <2> QED
      BY <1>5, <2>1 DEF ServerWrite
  <1>7. /\ IsMessage(DatabaseMessage(q[1])) /\ size \in Nat /\ size > 0
        /\ total \in Nat /\ total > 0 /\ s \in {"closed", "writing"}
        /\ answered[c].got <= total
    <2>1. q[1] \in 0..MaxBlocks
      BY <1>4, BoundAssumption
    <2> QED
      BY <1>1, <2>1, MessageType DEF Numbers
  <1> HIDE DEF s, total, size
  <1>8. /\ server'[c] = s /\ sent'[c].server = total /\ sent'[c].light = sent[c].light
        /\ \A d \in Exchange \ {c} : Rests(d)
    BY <1>1, <1>2, <1>6 DEF ExchangeShape, Rests
  <1>9. ExchangeShape'
    <2>1. sent' \in [Exchange -> [light : Nat, server : Nat]]
      BY <1>1, <1>2, <1>7 DEF ExchangeShape
    <2>2. queued' \in [Exchange -> {<<>>} \cup {<<blocks>> : blocks \in 1..MaxBlocks}]
      <3>1. q \in {<<>>} \cup {<<blocks>> : blocks \in 1..MaxBlocks}
        BY <1>4
      <3> QED
        BY <1>1, <1>2, <3>1 DEF ExchangeShape
    <2>3. server' \in [Exchange -> {"none", "refused", "closed"} \cup ServerOpen]
      BY <1>1, <1>6, <1>7 DEF ExchangeShape, ServerOpen
    <2> QED
      BY <1>1, <1>2, <2>1, <2>2, <2>3 DEF ExchangeShape
  <1>10. ClientMessage(c)' = ClientMessage(c)
    BY SameMessage
  <1>11. answered[c] = ParserAt(Answer(c)', answered[c].got)
    <2>1. CASE queued[c] = <<>>
      BY <1>1, <2>1, NewParser DEF AnsweredDone
    <2>2. CASE queued[c] # <<>>
      <3>1. Answer(c)' = Answer(c)
        BY <1>4, <1>5, <2>2, SameMessage
      <3> QED
        BY <1>1, <2>2, <3>1 DEF ExchangeInv, ParserInv
    <2> QED
      BY <2>1, <2>2
  <1>12. ExchangeType(c)' /\ ParserInv(c)'
    <2>1. ExchangeType(c)'
      BY <1>1, <1>2, <1>5, <1>6, <1>7, <1>8, <1>10 DEF ExchangeType, size
    <2>2. ParserInv(c)'
      BY <1>1, <1>2, <1>5, <1>10, <1>11 DEF ExchangeInv, ParserInv, AskedAt
    <2> QED
      BY <2>1, <2>2
  <1>13. light[c] # "idle" /\ c \in Request
    BY <1>1, <1>2 DEF ExchangeInv, LightInv, ServerInv
  <1>14. LightInv(c)'
    BY <1>1, <1>2, <1>3, <1>7, <1>8, <1>10, <1>13 DEF ExchangeInv, LightInv
  <1>15. ServerInv(c)'
    <2>1. begun[c] <= q[1] /\ (database = Unreadable \/ q[1] <= database)
      <3>1. CASE queued[c] = <<>>
        <4>1. begun[c] <= database /\ database <= database
          BY <1>1, <1>2, <1>13, <3>1 DEF ExchangeInv, LightInv, NodeType
        <4> QED
          BY <1>4, <3>1, <4>1
      <3>2. CASE queued[c] # <<>>
        BY <1>1, <1>4, <3>2 DEF ExchangeInv, ServerInv
      <3> QED
        BY <3>1, <3>2
    <2>2. /\ s = "closed" => total = size \/ Cause
          /\ s = "writing" => total < size
      <3>1. total <= size /\ total \in Nat /\ size \in Nat
        BY <1>6, <1>7
      <3>2. s = "writing" => total # size
        BY DEF s
      <3> QED
        BY <3>1, <3>2 DEF s, Cause
    <2> QED
      BY <1>2, <1>3, <1>5, <1>6, <1>7, <1>8, <1>13, <2>1, <2>2 DEF ServerInv, ServerOpen, size
  <1>16. IInv'
    BY <1>3, <1>8, <1>9, <1>12, <1>14, <1>15, OneExchange
  <1>17. server'[c] = IF sent'[c].server = Size(Answer(c)') \/ poisoned
                      THEN "closed" ELSE "writing"
    BY <1>6, <1>8 DEF s, size
  <1> QED
    BY <1>2, <1>4, <1>5, <1>7, <1>8, <1>16, <1>17 DEF total

LEMMA ServerFailsStep ==
    ASSUME IInv, NEW c \in Exchange, ServerFails(c)
    PROVE  /\ IInv'
           /\ server[c] \in {"reading", "writing"} /\ server'[c] = "closed"
           /\ server[c] = "reading" =>
                 light[c] \notin LightOpen /\ asked[c].got = sent[c].light
           /\ light[c] \notin LightOpen \/ queued[c] = <<>>
           /\ UNCHANGED <<node, light, asked, queued, answered, sent, begun>>
           /\ \A d \in Exchange \ {c} : Rests(d)
  <1>1. /\ ExchangeShape /\ NodeType /\ ExchangeType(c) /\ ExchangeInv(c)
    BY TypeParts DEF IInv
  <1>2. /\ server[c] \in {"reading", "writing"}
        /\ server[c] = "reading" => light[c] \notin LightOpen /\ asked[c].got = sent[c].light
        /\ \/ light[c] \notin LightOpen
           \/ queued[c] = <<>> /\ database = Unreadable
        /\ server' = [server EXCEPT ![c] = "closed"]
        /\ UNCHANGED <<node, light, asked, queued, answered, sent, begun>>
    BY DEF ServerFails
  <1>3. Onward /\ Cause' = Cause /\ UNCHANGED <<database, poisoned, up, crashes>>
    BY <1>2, NodeRests DEF node
  <1>4. server'[c] = "closed" /\ \A d \in Exchange \ {c} : Rests(d)
    BY <1>1, <1>2 DEF ExchangeShape, Rests
  <1>5. ExchangeShape'
    BY <1>1, <1>2 DEF ExchangeShape
  <1>6. ClientMessage(c)' = ClientMessage(c) /\ Answer(c)' = Answer(c)
    BY <1>2, SameMessage
  <1>7. ExchangeType(c)' /\ ParserInv(c)'
    BY <1>1, <1>2, <1>6 DEF ExchangeType, ExchangeInv, ParserInv, AskedAt
  <1>8. LightInv(c)' /\ ServerInv(c)'
    <2>1. light[c] \notin LightOpen \/ Cause
      BY <1>2 DEF IInv, Cause
    <2> QED
      BY <1>1, <1>2, <1>3, <1>4, <1>6, <2>1
      DEF ExchangeInv, LightInv, ServerInv, ServerOpen, MayReset
  <1>9. IInv'
    BY <1>3, <1>4, <1>5, <1>7, <1>8, OneExchange
  <1> QED
    BY <1>2, <1>4, <1>9

\* A step of the node that is none of its exchanges.
LEMMA NodeStep ==
    ASSUME IInv, CopyDatabase \/ Restart
    PROVE  IInv' /\ \A c \in Exchange : Rests(c)
  <1>1. NodeType /\ ExchangeShape
    BY TypeParts DEF IInv
  <1>2. UNCHANGED <<poisoned, crashes, light, server, asked, queued, answered, sent, begun>>
    BY DEF CopyDatabase, Restart
  <1>3. ExchangeShape' /\ \A c \in Exchange : Rests(c)
    BY <1>1, <1>2 DEF ExchangeShape, Rests
  <1>4. Onward
    <2>1. CASE CopyDatabase
      <3>1. PICK longer \in (database + 1)..MaxBlocks : database' = longer
        BY <2>1 DEF CopyDatabase
      <3>2. /\ database' \in 0..MaxBlocks /\ database <= database'
            /\ database' # Unreadable /\ database # Unreadable
        BY <1>1, <2>1, <3>1, BoundAssumption DEF NodeType, CopyDatabase, Unreadable
      <3> QED
        BY <1>1, <1>2, <2>1, <3>2 DEF NodeType, Onward, Cause, CopyDatabase, IInv
    <2>2. CASE Restart
      <3>1. database <= database
        BY <1>1 DEF NodeType
      <3> QED
        BY <1>1, <1>2, <2>2, <3>1 DEF NodeType, Onward, Cause, Restart, IInv
    <2> QED
      BY <2>1, <2>2
  <1>5. ASSUME NEW c \in Exchange
        PROVE  ExchangeType(c)' /\ ExchangeInv(c)'
    BY <1>3, <1>4, RestingExchange
  <1>6. TypeOK'
    BY <1>3, <1>4, <1>5 DEF TypeOK, NodeType, ExchangeShape, ExchangeType, Onward
  <1> QED
    BY <1>3, <1>4, <1>5, <1>6 DEF IInv, Onward

LEMMA CrashStep ==
    ASSUME IInv, Crash
    PROVE  /\ IInv'
           /\ UNCHANGED <<light, asked, queued, answered, sent, begun>>
           /\ \A c \in Exchange :
                 /\ server'[c] \in ServerOpen => server'[c] = server[c]
                 /\ server'[c] # "writing"
  <1>1. NodeType /\ ExchangeShape
    BY TypeParts DEF IInv
  <1>2. /\ crashes < MaxCrashes /\ crashes' = crashes + 1 /\ up' = FALSE /\ poisoned' = FALSE
        /\ database' = database \/ database' = Unreadable
        /\ UNCHANGED <<light, asked, queued, answered, sent, begun>>
    BY DEF Crash
  <1>3. server' = [c \in Exchange |->
                     IF server[c] = "backlog" THEN "refused"
                     ELSE IF server[c] \in ServerOpen THEN "closed" ELSE server[c]]
    BY DEF Crash
  <1>4. crashes' \in 0..MaxCrashes /\ crashes' > 0
    BY <1>1, <1>2, BoundAssumption DEF NodeType
  <1>5. NodeType'
    <2>1. database' \in 0..MaxBlocks
      BY <1>1, <1>2, BoundAssumption DEF NodeType, Unreadable
    <2> QED
      BY <1>2, <1>4, <2>1 DEF NodeType
  <1>6. ASSUME NEW c \in Exchange
        PROVE  /\ server'[c] \notin ServerOpen
               /\ server'[c] \in {"none", "refused", "closed"}
               /\ server'[c] = "none" <=> server[c] = "none"
               /\ server[c] \in {"closed", "writing"} => server'[c] = "closed"
    BY <1>1, <1>3 DEF ExchangeShape, ServerOpen
  <1>7. ExchangeShape'
    BY <1>1, <1>2, <1>3, <1>6 DEF ExchangeShape
  <1>8. ASSUME NEW c \in Exchange
        PROVE  ExchangeType(c)' /\ ExchangeInv(c)'
    <2>1. /\ ExchangeType(c) /\ ExchangeInv(c) /\ Cause'
          /\ database \in Nat /\ begun[c] \in Nat
      BY <1>1, <1>4, TypeParts DEF IInv, Cause, NodeType, ExchangeShape
    <2>2. ClientMessage(c)' = ClientMessage(c) /\ Answer(c)' = Answer(c)
      BY <1>2, SameMessage
    <2>3. ExchangeType(c)' /\ ParserInv(c)'
      BY <1>2, <2>1, <2>2 DEF ExchangeType, ExchangeInv, ParserInv, AskedAt
    <2>4. LightInv(c)'
      BY <1>2, <1>6, <2>1, <2>2 DEF ExchangeInv, LightInv
    <2>5. ServerInv(c)'
      BY <1>2, <1>4, <1>6, <2>1, <2>2 DEF ExchangeInv, ServerInv
    <2> QED
      BY <2>3, <2>4, <2>5 DEF ExchangeInv
  <1>9. TypeOK'
    BY <1>5, <1>7, <1>8 DEF TypeOK, NodeType, ExchangeShape, ExchangeType
  <1> QED
    BY <1>2, <1>4, <1>6, <1>8, <1>9 DEF IInv, ServerOpen

\* A piece is not empty.
LEMMA PieceType ==
    ASSUME NEW c \in Exchange, NEW n \in Piece(c)
    PROVE  n \in Nat \ {0}
  BY DEF Piece

LEMMA NextInv == IInv /\ [Next]_vars => IInv'
  <1> SUFFICES ASSUME IInv, [Next]_vars
               PROVE  IInv'
    OBVIOUS
  <1>1. ASSUME NEW c \in Exchange, StartConnection(c) \/ LightStep(c) \/ Interrupt(c)
        PROVE  IInv'
    BY <1>1, PieceType, StartConnectionStep, LightWriteStep, LightReadStep, LightEndsStep
    DEF LightStep
  <1>2. ASSUME NEW c \in Exchange, ServerStep(c)
        PROVE  IInv'
    BY <1>2, PieceType, AcceptStep, ServerReadStep, ServerWriteStep, ServerFailsStep
    DEF ServerStep
  <1>3. CASE UNCHANGED vars
    <2>1. /\ UNCHANGED node
          /\ UNCHANGED <<light, server, asked, queued, answered, sent, begun>>
      BY <1>3 DEF vars
    <2>2. ExchangeShape' /\ \A c \in Exchange : Rests(c)
      BY <2>1, TypeParts DEF IInv, ExchangeShape, Rests
    <2>3. Onward
      BY <2>1, NodeRests
    <2>4. ASSUME NEW c \in Exchange
          PROVE  ExchangeType(c)' /\ ExchangeInv(c)'
      BY <2>2, <2>3, RestingExchange
    <2>5. TypeOK'
      BY <2>2, <2>3, <2>4 DEF TypeOK, NodeType, ExchangeShape, ExchangeType, Onward
    <2> QED
      BY <2>3, <2>4, <2>5 DEF IInv, Onward
  <1> QED
    BY <1>1, <1>2, <1>3, NodeStep, CrashStep DEF Next

\* The invariant holds in every state.
LEMMA Invariance == Spec => []IInv
  BY InitInv, NextInv, PTL DEF Spec

-----------------------------------------------------------------------------
(* Theorems *)

\* TypeOK: no parser is ahead of its bytes, and no end ahead of its message.
THEOREM TypeCorrect == Spec => []TypeOK
  BY Invariance, PTL DEF IInv

\* CutIndependent: both parsers are where one piece would have brought them.
THEOREM CutIndependentAlways == Spec => []CutIndependent
  <1>1. IInv => CutIndependent
    <2> SUFFICES ASSUME IInv, NEW c \in Exchange
                 PROVE  /\ asked[c] = ServerReader(NewReader, c, asked[c].got)
                        /\ IF queued[c] = <<>> THEN answered[c] = NewReader
                           ELSE answered[c] = ReadMessage(NewReader, Answer(c),
                                                          answered[c].got)
      BY DEF CutIndependent
    <2>1. Numbers(c) /\ AnsweredDone(c) /\ ParserInv(c)
      BY FactsHold DEF Facts, IInv, ExchangeInv
    <2>2. asked[c] = ServerReader(NewReader, c, asked[c].got)
      <3> DEFINE m == ClientMessage(c)
                 g == asked[c].got
      <3>1. IsMessage(m) /\ g \in Nat /\ 0 \in Nat /\ 0 + g = g
        BY <2>1, MessageType DEF Numbers
      <3>2. /\ ReadMessage(NewReader, m, g) = ParserAt(m, g)
            /\ ReadHeader(NewReader, m, g) = HeaderAt(m, g)
        <4> HIDE DEF m, g
        <4>1. /\ ReadMessage(ParserAt(m, 0), m, g) = ParserAt(m, 0 + g)
              /\ ReadHeader(HeaderAt(m, 0), m, g) = HeaderAt(m, 0 + g)
          BY <3>1, MessageCut, HeaderCut
        <4> QED
          BY <3>1, <4>1, NewParser
      <3> QED
        BY <2>1, <3>2 DEF ParserInv, AskedAt, ServerReader, ReadMessage
    <2>3. ASSUME queued[c] # <<>>
          PROVE  answered[c] = ReadMessage(NewReader, Answer(c), answered[c].got)
      <3> DEFINE m == Answer(c)
                 g == answered[c].got
      <3>1. /\ IsMessage(m) /\ g \in Nat /\ 0 \in Nat /\ 0 + g = g
            /\ answered[c] = ParserAt(m, g)
        BY <2>1, <2>3 DEF Numbers, AnsweredDone, ParserInv
      <3> HIDE DEF m, g
      <3>2. ReadMessage(ParserAt(m, 0), m, g) = ParserAt(m, 0 + g)
        BY <3>1, MessageCut
      <3> QED
        BY <3>1, <3>2, NewParser DEF m, g
    <2> QED
      BY <2>1, <2>2, <2>3 DEF ParserInv
  <1> QED
    BY <1>1, Invariance, PTL

\* UnansweredHasCause: a request ends without its answer only by a crash, an
\* invalid block, or a reset of the kernel.
THEOREM UnansweredHasCauseAlways == Spec => []UnansweredHasCause
  <1>1. IInv => UnansweredHasCause
    BY DEF IInv, ExchangeInv, LightInv, Cause, UnansweredHasCause, Exchange
  <1> QED
    BY <1>1, Invariance, PTL

\* FreshAnswer: an answer is not older than its request, and whole.
THEOREM FreshAnswerAlways == Spec => []FreshAnswer
  <1>1. IInv => FreshAnswer
    <2> SUFFICES ASSUME IInv, NEW c \in Request, answered[c].stage = "done"
                 PROVE  /\ begun[c] <= queued[c][1]
                        /\ database = Unreadable \/ queued[c][1] <= database
      BY DEF FreshAnswer
    <2>1. c \in Exchange
      BY DEF Exchange
    <2>2. AnsweredDone(c) /\ ServerInv(c)
      BY <2>1, FactsHold DEF Facts, IInv, ExchangeInv
    <2>3. queued[c] # <<>>
      BY <2>2 DEF AnsweredDone
    <2> QED
      BY <2>2, <2>3 DEF ServerInv
  <1> QED
    BY <1>1, Invariance, PTL

\* Where nothing happens on an exchange, nothing happens to its message.
LEMMA RestingMessage ==
    ASSUME NEW c \in Exchange, Rests(c)
    PROVE  Status(c)' = Status(c) /\ Sending(c)' = Sending(c) /\ Received(c)' = Received(c)
  <1>1. ClientMessage(c)' = ClientMessage(c) /\ Answer(c)' = Answer(c)
    BY SameMessage DEF Rests
  <1> QED
    BY <1>1 DEF Rests, Status, Sending, Received

\* A step of Transfer, in terms of the messages of the exchanges.
Advances(c, from, to) == Status(c) = from /\ Status(c)' = to

LEMMA TransferStep ==
    ASSUME NEW c \in Exchange,
           \A j \in Exchange \ {c} : /\ Status(j)' = Status(j) /\ Sending(j)' = Sending(j)
                                    /\ Received(j)' = Received(j),
           \/ /\ \E to \in {"outgoing", "incoming", "lost"} : Advances(c, "idle", to)
              /\ \E m : Sending(c)' = <<m>>
              /\ Received(c)' = Received(c)
           \/ /\ Advances(c, "outgoing", "incoming")
              /\ Sending(c)' = Sending(c) /\ Received(c)' = Received(c)
           \/ /\ Advances(c, "incoming", "received")
              /\ Sending(c)' = Sending(c) /\ Received(c)' = Sending(c)
           \/ /\ \/ Status(c)' = Status(c)
                 \/ \E from \in {"outgoing", "incoming"} : Advances(c, from, "lost")
              /\ Sending(c)' = Sending(c) /\ Received(c)' = Received(c)
    PROVE  [Connection!Next]_(Connection!vars)
  <1> DEFINE status   == [j \in Exchange |-> Status(j)]
             message  == [j \in Exchange |-> Sending(j)]
             received == [j \in Exchange |-> Received(j)]
  <1>1. /\ status'   = [status   EXCEPT ![c] = Status(c)']
        /\ message'  = [message  EXCEPT ![c] = Sending(c)']
        /\ received' = [received EXCEPT ![c] = Received(c)']
    OBVIOUS
  <1>2. /\ Status(c)' = Status(c) => status' = status
        /\ Sending(c)' = Sending(c) => message' = message
        /\ Received(c)' = Received(c) => received' = received
    OBVIOUS
  <1>3. CASE /\ \E to \in {"outgoing", "incoming", "lost"} : Advances(c, "idle", to)
             /\ \E m : Sending(c)' = <<m>>
             /\ Received(c)' = Received(c)
    <2>1. \E to \in {"outgoing", "incoming", "lost"} : Connection!Moves(c, {"idle"}, to)
      BY <1>1, <1>3 DEF Advances, Connection!Moves
    <2>2. message'[c] = Sending(c)' /\ Len(Sending(c)') = 1
      BY <1>3
    <2>3. Connection!Begin(c)
      BY <1>1, <1>2, <1>3, <2>1, <2>2 DEF Connection!Begin
    <2> QED
      BY <2>3 DEF Connection!Next
  <1>4. CASE /\ Advances(c, "outgoing", "incoming")
             /\ Sending(c)' = Sending(c) /\ Received(c)' = Received(c)
    <2>1. Connection!HandOver(c)
      BY <1>1, <1>2, <1>4 DEF Advances, Connection!Moves, Connection!HandOver
    <2> QED
      BY <2>1 DEF Connection!Next
  <1>5. CASE /\ Advances(c, "incoming", "received")
             /\ Sending(c)' = Sending(c) /\ Received(c)' = Sending(c)
    <2>1. Connection!Receive(c)
      BY <1>1, <1>2, <1>5 DEF Advances, Connection!Moves, Connection!Receive
    <2> QED
      BY <2>1 DEF Connection!Next
  <1>6. CASE /\ \E from \in {"outgoing", "incoming"} : Advances(c, from, "lost")
             /\ Sending(c)' = Sending(c) /\ Received(c)' = Received(c)
    <2>1. {c} \in SUBSET {d \in Exchange : status[d] \in {"outgoing", "incoming"}}
      BY <1>6 DEF Advances
    <2>2. status' = [d \in Exchange |-> IF d \in {c} THEN "lost" ELSE status[d]]
      BY <1>6 DEF Advances
    <2>3. Connection!Lose
      BY <1>2, <1>6, <2>1, <2>2 DEF Connection!Lose
    <2> QED
      BY <2>3 DEF Connection!Next
  <1>7. CASE /\ Status(c)' = Status(c)
             /\ Sending(c)' = Sending(c) /\ Received(c)' = Received(c)
    BY <1>2, <1>7 DEF Connection!vars
  <1> QED
    BY <1>3, <1>4, <1>5, <1>6, <1>7

\* A crash loses messages that were on their way, but not what is left to read.
LEMMA CrashLoses ==
    ASSUME IInv, Crash
    PROVE  [Connection!Next]_(Connection!vars)
  <1> DEFINE status == [c \in Exchange |-> Status(c)]
             lost   == {c \in Exchange : Status(c)' # Status(c)}
  <1>1. /\ UNCHANGED <<light, asked, queued, answered, sent, begun>>
        /\ \A c \in Exchange :
              /\ server'[c] \in ServerOpen => server'[c] = server[c]
              /\ server'[c] # "writing"
    BY CrashStep
  <1>2. ASSUME NEW c \in Exchange
        PROVE  /\ Sending(c)' = Sending(c) /\ Received(c)' = Received(c)
               /\ \/ Status(c)' = Status(c)
                  \/ Status(c)' = "lost" /\ Status(c) \in {"outgoing", "incoming"}
    <2>1. ClientMessage(c)' = ClientMessage(c) /\ Answer(c)' = Answer(c)
      BY <1>1, SameMessage
    <2> QED
      BY <1>1, <2>1 DEF Sending, Received, Status, Progress
  <1>3. Connection!Lose
    <2>1. lost \in SUBSET {c \in Exchange : status[c] \in {"outgoing", "incoming"}}
      BY <1>2
    <2>2. status' = [c \in Exchange |-> IF c \in lost THEN "lost" ELSE status[c]]
      BY <1>2
    <2>3. UNCHANGED <<[c \in Exchange |-> Sending(c)], [c \in Exchange |-> Received(c)]>>
      BY <1>2
    <2> QED
      BY <2>1, <2>2, <2>3 DEF Connection!Lose
  <1> QED
    BY <1>3 DEF Connection!Next

\* The two ends of one exchange, for the steps below: what an action does to
\* the message follows from the facts before and after it.
LEMMA Around ==
    ASSUME IInv, IInv', NEW c \in Exchange
    PROVE  /\ Numbers(c) /\ AskedDone(c) /\ AnsweredDone(c)
           /\ Numbers(c)' /\ AskedDone(c)' /\ AnsweredDone(c)'
           /\ LightInv(c) /\ ServerInv(c) /\ LightInv(c)' /\ ServerInv(c)'
           /\ ClientMessage(c)' = ClientMessage(c)
           /\ Size(ClientMessage(c)) \in Nat /\ Size(ClientMessage(c)) > 0
           /\ c \in Broadcast <=> c \notin Request
           /\ queued'[c] = queued[c] => Answer(c)' = Answer(c)
  BY FactsHold, FactsNext, MessageType, SameMessage, Kinds DEF Facts, IInv, ExchangeInv

LEMMA StartConnectionBegins ==
    ASSUME IInv, NEW c \in Exchange, StartConnection(c)
    PROVE  [Connection!Next]_(Connection!vars)
  <1>1. /\ IInv' /\ light[c] = "idle" /\ light'[c] = "writing"
        /\ server'[c] \in {"backlog", "refused"}
        /\ UNCHANGED <<asked, queued, answered, sent>>
        /\ \A d \in Exchange \ {c} : Rests(d)
    BY StartConnectionStep DEF StartConnection
  <1>2. CASE c \in Broadcast
    <2>1. /\ asked[c].stage # "done" /\ sent[c].light # Size(ClientMessage(c))
          /\ ClientMessage(c)' = ClientMessage(c)
      BY <1>1, <1>2, Around DEF AskedDone, Numbers, LightInv
    <2>2. Advances(c, "idle", IF server'[c] = "backlog" THEN "outgoing" ELSE "lost")
      BY <1>1, <1>2, <2>1 DEF Advances, Status, Progress, ServerOpen
    <2>3. Sending(c)' = <<Whole(ClientMessage(c))>> /\ Received(c)' = Received(c)
      BY <1>1, <1>2, <2>1 DEF Sending, Received
    <2> QED
      BY <1>1, <2>2, <2>3, RestingMessage, TransferStep
  <1>3. CASE c \notin Broadcast
    <2>1. queued[c] = <<>> /\ answered[c].stage # "done"
      BY <1>1, Around DEF LightInv, ServerInv, AnsweredDone
    <2>2. /\ Status(c)' = Status(c) /\ Sending(c)' = Sending(c)
          /\ Received(c)' = Received(c)
      BY <1>1, <1>3, <2>1 DEF Status, Progress, Sending, Received
    <2> QED
      BY <1>1, <2>2, RestingMessage, TransferStep
  <1> QED
    BY <1>2, <1>3

LEMMA LightStepMoves ==
    ASSUME IInv, NEW c \in Exchange, LightStep(c) \/ Interrupt(c)
    PROVE  [Connection!Next]_(Connection!vars)
  <1>1. ASSUME NEW n \in Piece(c), LightWrite(c, n)
        PROVE  [Connection!Next]_(Connection!vars)
    <2>1. /\ IInv' /\ light[c] = "writing"
          /\ light'[c] = IF sent'[c].light = Size(ClientMessage(c))
                         THEN IF c \in Request THEN "reading" ELSE "closed"
                         ELSE "writing"
          /\ sent'[c].server = sent[c].server
          /\ UNCHANGED <<server, asked, queued, answered>>
          /\ \A d \in Exchange \ {c} : Rests(d)
      BY <1>1, PieceType, LightWriteStep DEF LightWrite
    <2>2. CASE c \in Broadcast
      <3>1. /\ asked[c].stage # "done" /\ sent[c].light # Size(ClientMessage(c))
            /\ ClientMessage(c)' = ClientMessage(c)
        BY <2>1, <2>2, Around DEF AskedDone, Numbers, LightInv
      <3>2. Status(c)' = Status(c) \/ Advances(c, "outgoing", "incoming")
        BY <2>1, <2>2, <3>1, Kinds DEF Advances, Status, Progress
      <3>3. Sending(c)' = Sending(c) /\ Received(c)' = Received(c)
        BY <2>1, <2>2, <3>1, Kinds DEF Sending, Received
      <3> QED
        BY <2>1, <3>2, <3>3, RestingMessage, TransferStep
    <2>3. CASE c \notin Broadcast
      <3>1. light'[c] \in LightOpen /\ light[c] \in LightOpen /\ Answer(c)' = Answer(c)
        BY <2>1, <2>3, Kinds, SameMessage DEF LightOpen
      <3>2. /\ Status(c)' = Status(c) /\ Sending(c)' = Sending(c)
            /\ Received(c)' = Received(c)
        BY <2>1, <2>3, <3>1 DEF Status, Sending, Received
      <3> QED
        BY <2>1, <3>2, RestingMessage, TransferStep
    <2> QED
      BY <2>2, <2>3
  <1>2. ASSUME NEW n \in Piece(c), LightRead(c, n)
        PROVE  [Connection!Next]_(Connection!vars)
    <2>1. /\ IInv' /\ light[c] = "reading" /\ queued[c] # <<>>
          /\ light'[c] = IF answered'[c].stage = "done" THEN "closed" ELSE "reading"
          /\ UNCHANGED <<server, asked, queued, sent>>
          /\ \A d \in Exchange \ {c} : Rests(d)
      BY <1>2, PieceType, LightReadStep DEF LightRead
    <2>2. /\ c \notin Broadcast /\ Answer(c)' = Answer(c)
          /\ answered[c].stage # "done"
      BY <2>1, Around DEF LightInv, LightOpen
    <2>3. Sending(c)' = Sending(c)
      BY <2>1, <2>2 DEF Sending
    <2>4. CASE answered'[c].stage = "done"
      <3>1. sent[c].server = Size(Answer(c))
            /\ Slice(Answer(c), answered'[c].data) = Whole(Answer(c))
        BY <2>1, <2>2, <2>4, Around DEF AnsweredDone, Numbers
      <3>2. Advances(c, "incoming", "received") /\ Received(c)' = Sending(c)
        BY <2>1, <2>2, <2>4, <3>1 DEF Advances, Status, Progress, Received, Sending, LightOpen
      <3> QED
        BY <2>1, <2>3, <3>2, RestingMessage, TransferStep
    <2>5. CASE answered'[c].stage # "done"
      <3>1. Status(c)' = Status(c) /\ Received(c)' = Received(c)
        BY <2>1, <2>2, <2>5 DEF Status, Received
      <3> QED
        BY <2>1, <2>3, <3>1, RestingMessage, TransferStep
    <2> QED
      BY <2>4, <2>5
  <1>3. ASSUME LightFails(c) \/ Interrupt(c)
        PROVE  [Connection!Next]_(Connection!vars)
    <2>1. /\ IInv' /\ light[c] \in LightOpen /\ light'[c] \in {"closed", "interrupted"}
          /\ LightFails(c) => server[c] \in {"refused", "closed"}
          /\ UNCHANGED <<node, server, asked, queued, answered, sent, begun>>
          /\ \A d \in Exchange \ {c} : Rests(d)
      BY <1>3, LightEndsStep
    <2>2. Sending(c)' = Sending(c) /\ Received(c)' = Received(c)
      <3>1. ClientMessage(c)' = ClientMessage(c) /\ Answer(c)' = Answer(c)
        BY <2>1, SameMessage
      <3> QED
        BY <2>1, <3>1 DEF Sending, Received, LightOpen
    <2>3. \/ Status(c)' = Status(c)
          \/ \E from \in {"outgoing", "incoming"} : Advances(c, from, "lost")
      <3>1. CASE c \in Broadcast
        <4>1. /\ light[c] = "writing" /\ asked[c].stage # "done"
              /\ sent[c].light # Size(ClientMessage(c))
              /\ ClientMessage(c)' = ClientMessage(c)
          BY <2>1, <3>1, Around DEF LightInv, LightOpen, AskedDone, Numbers
        <4> QED
          BY <2>1, <3>1, <4>1 DEF Advances, Status, Progress
      <3>2. CASE c \notin Broadcast
        <4>1. answered[c].stage # "done" /\ Answer(c)' = Answer(c)
          BY <2>1, Around DEF LightInv
        <4> QED
          BY <2>1, <3>2, <4>1 DEF Advances, Status, Progress, LightOpen
      <3> QED
        BY <3>1, <3>2
    <2> QED
      BY <2>1, <2>2, <2>3, RestingMessage, TransferStep
  <1> QED
    BY <1>1, <1>2, <1>3 DEF LightStep

LEMMA ServerStepMoves ==
    ASSUME IInv, NEW c \in Exchange, ServerStep(c)
    PROVE  [Connection!Next]_(Connection!vars)
  <1>1. CASE Accept(c)
    <2>1. /\ server[c] = "backlog" /\ server'[c] = "reading"
          /\ UNCHANGED <<light, asked, queued, answered, sent>>
          /\ \A d \in Exchange \ {c} : Rests(d)
          /\ ClientMessage(c)' = ClientMessage(c) /\ Answer(c)' = Answer(c)
      BY <1>1, AcceptStep, SameMessage DEF Accept
    <2>2. /\ Status(c)' = Status(c) /\ Sending(c)' = Sending(c)
          /\ Received(c)' = Received(c)
      BY <2>1 DEF Status, Sending, Received, Progress, ServerOpen
    <2> QED
      BY <2>1, <2>2, RestingMessage, TransferStep
  <1>2. ASSUME NEW n \in Piece(c), ServerRead(c, n)
        PROVE  [Connection!Next]_(Connection!vars)
    <2>1. /\ IInv' /\ server[c] = "reading"
          /\ server'[c] = IF asked'[c].stage = "done" \/ poisoned' THEN "closed"
                          ELSE IF asked'[c].stage = "content" /\ c \in Request
                          THEN "writing" ELSE "reading"
          /\ UNCHANGED <<light, queued, answered, sent>>
          /\ \A d \in Exchange \ {c} : Rests(d)
      BY <1>2, PieceType, ServerReadStep DEF ServerRead
    <2>2. CASE c \in Broadcast
      <3>1. /\ asked[c].stage # "done" /\ light[c] # "idle"
            /\ ClientMessage(c)' = ClientMessage(c)
        BY <2>1, <2>2, Around DEF ServerInv, LightInv, ServerOpen
      <3>2. Sending(c)' = Sending(c)
        BY <2>1, <2>2, <3>1 DEF Sending
      <3>3. CASE asked'[c].stage = "done"
        <4>1. /\ sent[c].light = Size(ClientMessage(c))
              /\ Slice(ClientMessage(c), asked'[c].data) = Whole(ClientMessage(c))
          <5>1. /\ asked'[c].got = Size(ClientMessage(c))
                /\ asked'[c].got <= sent[c].light /\ sent[c].light <= Size(ClientMessage(c))
                /\ Slice(ClientMessage(c), asked'[c].data) = Whole(ClientMessage(c))
                /\ sent[c].light \in Nat /\ Size(ClientMessage(c)) \in Nat
            BY <2>1, <2>2, <3>3, Around DEF AskedDone, Numbers
          <5> QED
            BY <5>1
        <4>2. Advances(c, "incoming", "received") /\ Received(c)' = Sending(c)
          BY <2>1, <2>2, <3>1, <3>3, <4>1
          DEF Advances, Status, Progress, Received, Sending, ServerOpen
        <4> QED
          BY <2>1, <3>2, <4>2, RestingMessage, TransferStep
      <3>4. CASE asked'[c].stage # "done"
        <4>1. Received(c)' = Received(c)
          BY <2>2, <3>1, <3>4 DEF Received
        <4>2. \/ Status(c)' = Status(c)
              \/ \E from \in {"outgoing", "incoming"} : Advances(c, from, "lost")
          BY <2>1, <2>2, <3>1, <3>4 DEF Advances, Status, Progress, ServerOpen
        <4> QED
          BY <2>1, <3>2, <4>1, <4>2, RestingMessage, TransferStep
      <3> QED
        BY <3>3, <3>4
    <2>3. CASE c \notin Broadcast
      <3>1. queued[c] = <<>> /\ answered[c].stage # "done"
        BY <2>1, Around DEF ServerInv, AnsweredDone
      <3>2. /\ Status(c)' = Status(c) /\ Sending(c)' = Sending(c)
            /\ Received(c)' = Received(c)
        BY <2>1, <2>3, <3>1 DEF Status, Progress, Sending, Received
      <3> QED
        BY <2>1, <3>2, RestingMessage, TransferStep
    <2> QED
      BY <2>2, <2>3
  <1>3. ASSUME NEW n \in Piece(c), ServerWrite(c, n)
        PROVE  [Connection!Next]_(Connection!vars)
    <2>1. /\ IInv' /\ server[c] = "writing" /\ queued'[c] # <<>>
          /\ queued[c] # <<>> => queued'[c] = queued[c]
          /\ sent'[c].server > 0
          /\ server'[c] = IF sent'[c].server = Size(Answer(c)') \/ poisoned
                          THEN "closed" ELSE "writing"
          /\ UNCHANGED <<light, asked, answered, begun>>
          /\ \A d \in Exchange \ {c} : Rests(d)
      BY <1>3, PieceType, ServerWriteStep
    <2>2. c \notin Broadcast /\ light[c] # "idle"
      BY <2>1, Around DEF ServerInv, LightInv
    <2>3. CASE queued[c] = <<>>
      <3>1. answered[c].stage # "done"
        BY <2>1, <2>3, Around DEF AnsweredDone
      <3>2. \E to \in {"outgoing", "incoming", "lost"} : Advances(c, "idle", to)
        BY <2>1, <2>2, <2>3, <3>1 DEF Advances, Status, Progress
      <3>3. Sending(c)' = <<Whole(Answer(c)')>> /\ Received(c)' = Received(c)
        BY <2>1, <2>2, <3>1 DEF Sending, Received
      <3> QED
        BY <2>1, <3>2, <3>3, RestingMessage, TransferStep
    <2>4. CASE queued[c] # <<>>
      <3>1. /\ Answer(c)' = Answer(c) /\ sent[c].server # Size(Answer(c))
            /\ answered[c].stage # "done"
        <4>1. /\ sent[c].server < Size(Answer(c)) /\ Size(Answer(c)) \in Nat
              /\ answered[c].got <= sent[c].server /\ answered[c].got \in Nat
              /\ answered[c].stage = "done" <=> answered[c].got = Size(Answer(c))
              /\ sent[c].server \in Nat
          BY <2>1, <2>4, Around DEF ServerInv, AnsweredDone, Numbers
        <4>2. sent[c].server # Size(Answer(c)) /\ answered[c].got # Size(Answer(c))
          BY <4>1
        <4> QED
          BY <2>1, <2>4, <4>1, <4>2, SameMessage
      <3>2. Sending(c)' = Sending(c) /\ Received(c)' = Received(c)
        BY <2>1, <2>2, <2>4, <3>1 DEF Sending, Received
      <3>3. \/ Status(c)' = Status(c) \/ Advances(c, "outgoing", "incoming")
            \/ \E from \in {"outgoing", "incoming"} : Advances(c, from, "lost")
        BY <2>1, <2>2, <2>4, <3>1 DEF Advances, Status, Progress
      <3> QED
        BY <2>1, <3>2, <3>3, RestingMessage, TransferStep
    <2> QED
      BY <2>3, <2>4
  <1>4. CASE ServerFails(c)
    <2>1. /\ IInv' /\ server[c] \in {"reading", "writing"} /\ server'[c] = "closed"
          /\ server[c] = "reading" => light[c] \notin LightOpen /\ asked[c].got = sent[c].light
          /\ light[c] \notin LightOpen \/ queued[c] = <<>>
          /\ UNCHANGED <<node, light, asked, queued, answered, sent, begun>>
          /\ \A d \in Exchange \ {c} : Rests(d)
      BY <1>4, ServerFailsStep
    <2>2. ClientMessage(c)' = ClientMessage(c) /\ Answer(c)' = Answer(c)
      BY <2>1, SameMessage
    <2>3. Status(c)' = Status(c)
      <3>1. CASE c \in Broadcast
        <4>1. /\ server[c] = "reading" /\ asked[c].stage # "done"
              /\ sent[c].light # Size(ClientMessage(c)) /\ light[c] # "writing"
          BY <2>1, <3>1, Around DEF ServerInv, ServerOpen, AskedDone, LightOpen
        <4> QED
          BY <2>1, <2>2, <3>1, <4>1 DEF Status, Progress, ServerOpen
      <3>2. CASE c \notin Broadcast
        BY <2>1, <2>2, <3>2 DEF Status, Progress
      <3> QED
        BY <3>1, <3>2
    <2>4. Sending(c)' = Sending(c) /\ Received(c)' = Received(c)
      BY <2>1, <2>2 DEF Sending, Received
    <2> QED
      BY <2>1, <2>3, <2>4, RestingMessage, TransferStep
  <1> QED
    BY <1>1, <1>2, <1>3, <1>4 DEF ServerStep

\* ImplementsTransfer: transactions and databases in pieces are received whole,
\* once and as they were when their sending began, or lost.
THEOREM Implementation == Spec => ImplementsTransfer
  <1>1. Init => Connection!Init
    <2> SUFFICES ASSUME Init
                 PROVE  Connection!Init
      OBVIOUS
    <2>1. \A c \in Exchange : Status(c) = "idle" /\ Sending(c) = <<>> /\ Received(c) = <<>>
      BY NewReaderFields DEF Init, Status, Progress, Sending, Received
    <2> QED
      BY <2>1 DEF Connection!Init
  <1>2. IInv /\ [Next]_vars => [Connection!Next]_(Connection!vars)
    <2> SUFFICES ASSUME IInv, [Next]_vars
                 PROVE  [Connection!Next]_(Connection!vars)
      OBVIOUS
    <2>1. CASE \A c \in Exchange : Rests(c)
      BY <2>1, RestingMessage DEF Connection!vars
    <2>2. CASE CopyDatabase \/ Restart
      BY <2>1, <2>2, NodeStep
    <2>3. CASE UNCHANGED vars
      BY <2>1, <2>3 DEF vars, Rests
    <2> QED
      BY <2>2, <2>3, StartConnectionBegins, LightStepMoves, ServerStepMoves, CrashLoses
      DEF Next
  <1> QED
    BY <1>1, <1>2, Invariance, PTL DEF Spec, Connection!Spec, ImplementsTransfer

=============================================================================
