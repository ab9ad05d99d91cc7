---------------------- MODULE NeighborConnectionProofs ----------------------
(***************************************************************************)
(* Proofs about NeighborConnection, for any nodes and links, databases of  *)
(* any length, and pieces of any size.                                     *)
(***************************************************************************)
EXTENDS NeighborConnection, FramingProofs

-----------------------------------------------------------------------------
(* The inductive invariant *)

\* What a lost message is put down to.  It does not go away: a poisoned node
\* stays poisoned until it crashes.
Cause(l) == crashes > 0 \/ poisoned[From[l]] \/ poisoned[To(l)]

\* A parser is where its bytes end.  Each end of a link is closed because it is
\* done, or for a cause: the two depend on each other, for the sender closes
\* when the receiver has gone, and the receiver when the sender has.
LinkInv(l) ==
    /\ IF sender[l] = "none" THEN reader[l] = NewReader
       ELSE reader[l] = ParserAt(DatabaseMessage(l), reader[l].got)
    /\ receiver[l] = "refused" => crashes > 0
    /\ sender[l] = "closed" => sent[l] = Size(DatabaseMessage(l)) \/ Cause(l)
    /\ receiver[l] = "closed" => reader[l].stage = "done" \/ Cause(l)
    /\ receiver[l] \in ReceiverOpen => reader[l].stage # "done"
    /\ reader[l].stage = "done" =>
          database[To(l)] >= database_bytes[l][1] \/ poisoned[To(l)] \/ crashes > 0

IInv ==
    /\ TypeOK
    /\ crashes = 0 => \A n \in Node : up[n]
    /\ \A l \in Link : LinkInv(l)

-----------------------------------------------------------------------------
(* Facts about one state *)

LEMMA Ends ==
    ASSUME NEW l \in Link
    PROVE  From[l] \in Node /\ To(l) \in Node
  BY LinkAssumption DEF To

\* A message on its way has a length, and is not empty.
LEMMA MessageType ==
    ASSUME TypeOK, NEW l \in Link, sender[l] # "none"
    PROVE  /\ IsMessage(DatabaseMessage(l))
           /\ Size(DatabaseMessage(l)) \in Nat /\ Size(DatabaseMessage(l)) > 0
           /\ database_bytes[l][1] \in 1..MaxBlocks
           /\ database_bytes[l] = <<database_bytes[l][1]>>
  <1>1. PICK blocks \in 1..MaxBlocks : database_bytes[l] = <<blocks>>
    BY DEF TypeOK
  <1>2. database_bytes[l][1] = blocks
    BY <1>1
  <1>3. HeaderLength \in Nat /\ DatabaseLength(blocks) \in Nat
    BY LengthAssumption
  <1>4. /\ DatabaseMessage(l).header = HeaderLength
        /\ DatabaseMessage(l).length = DatabaseLength(blocks)
    BY <1>2 DEF DatabaseMessage, Message
  <1> QED
    BY <1>1, <1>2, <1>3, <1>4 DEF IsMessage, Size, FixedHeader

\* The parser of a link: it is done when it has got the whole message.
LEMMA ParserType ==
    ASSUME TypeOK, NEW l \in Link, LinkInv(l)
    PROVE  /\ IsReader(reader[l]) /\ reader[l].got \in Nat /\ sent[l] \in Nat
           /\ reader[l].got <= sent[l]
           /\ sender[l] = "none" => reader[l].stage # "done"
           /\ sender[l] # "none" =>
                 /\ reader[l].stage = "done" <=> reader[l].got = Size(DatabaseMessage(l))
                 /\ sent[l] <= Size(DatabaseMessage(l))
                 /\ reader[l].stage = "done" =>
                       Slice(DatabaseMessage(l), reader[l].data) = Whole(DatabaseMessage(l))
  <1>1. /\ IsReader(reader[l]) /\ reader[l].got \in Nat /\ sent[l] \in Nat
        /\ reader[l].got <= sent[l]
    BY DEF TypeOK, IsReader
  <1>2. ASSUME sender[l] = "none"
        PROVE  reader[l].stage # "done"
    <2>1. reader[l] = Reader("length", 0, 0, Bytes(0, 0))
      BY <1>2 DEF LinkInv, NewReader
    <2> QED
      BY <2>1, ReaderFields
  <1>3. ASSUME sender[l] # "none"
        PROVE  /\ reader[l].stage = "done" <=> reader[l].got = Size(DatabaseMessage(l))
               /\ sent[l] <= Size(DatabaseMessage(l))
               /\ reader[l].stage = "done" =>
                     Slice(DatabaseMessage(l), reader[l].data) = Whole(DatabaseMessage(l))
    <2> DEFINE m == DatabaseMessage(l)
               g == reader[l].got
    <2>1. IsMessage(m) /\ Size(m) \in Nat
      BY <1>3, MessageType
    <2>2. sent[l] <= Size(m) /\ g <= Size(m)
      BY <1>1, <1>3, <2>1 DEF TypeOK
    <2>3. reader[l] = ParserAt(m, g)
      BY <1>3 DEF LinkInv
    <2>4. /\ ParserAt(m, g).stage = "done" <=> g >= Size(m)
          /\ g >= Size(m) => Slice(m, ParserAt(m, g).data) = Whole(m)
      BY <1>1, <2>1, ParserFacts
    <2> HIDE DEF m, g
    <2>5. g >= Size(m) <=> g = Size(m)
      BY <1>1, <2>1, <2>2 DEF g
    <2> QED
      BY <2>2, <2>3, <2>4, <2>5 DEF m, g
  <1> QED
    BY <1>1, <1>2, <1>3

LEMMA InitInv == Init => IInv
  <1> SUFFICES ASSUME Init
               PROVE  IInv
    OBVIOUS
  <1>1. IsReader(NewReader) /\ NewReader.got = 0 /\ NewReader.stage = "length"
    <2>1. "length" \in Stage /\ 0 \in Nat /\ 0 <= 0
      BY DEF Stage
    <2> QED
      BY <2>1, ReaderTypes, ReaderFields DEF NewReader
  <1>2. TypeOK
    <2>1. /\ database \in [Node -> 1..MaxBlocks] /\ crashes \in 0..MaxCrashes
          /\ poisoned \in [Node -> BOOLEAN] /\ up \in [Node -> BOOLEAN]
      BY BoundAssumption DEF Init
    <2>2. /\ database_bytes \in [Link -> {<<>>} \cup {<<blocks>> : blocks \in 1..MaxBlocks}]
          /\ sender \in [Link -> {"none", "writing", "closed"}]
          /\ receiver \in [Link -> {"none", "refused", "closed"} \cup ReceiverOpen]
          /\ sent \in [Link -> Nat] /\ reader = [l \in Link |-> reader[l]]
      BY DEF Init
    <2>3. ASSUME NEW l \in Link
          PROVE  /\ sender[l] = "none" /\ database_bytes[l] = <<>> /\ receiver[l] = "none"
                 /\ reader[l] = NewReader /\ sent[l] = 0
      BY DEF Init
    <2> QED
      BY <1>1, <2>1, <2>2, <2>3 DEF TypeOK
  <1>3. ASSUME NEW l \in Link
        PROVE  LinkInv(l)
    <2>1. sender[l] = "none" /\ receiver[l] = "none" /\ reader[l] = NewReader
      BY DEF Init
    <2> QED
      BY <1>1, <2>1 DEF LinkInv, ReceiverOpen
  <1> QED
    BY <1>2, <1>3 DEF IInv, Init

-----------------------------------------------------------------------------
(* Steps *)

\* Databases do not shrink, and causes do not go away.
Onward ==
    /\ crashes' \in Nat /\ crashes' >= crashes
    /\ \A n \in Node : /\ database'[n] \in Nat /\ database'[n] >= database[n]
                       /\ poisoned[n] => poisoned'[n] \/ crashes' > 0

\* Nothing happens on a link.
Rests(l) ==
    /\ database_bytes'[l] = database_bytes[l] /\ sender'[l] = sender[l]
    /\ receiver'[l] = receiver[l] /\ sent'[l] = sent[l] /\ reader'[l] = reader[l]

LEMMA CauseStays ==
    ASSUME TypeOK, Onward, NEW l \in Link, Cause(l)
    PROVE  Cause(l)'
  <1>1. crashes \in Nat /\ crashes' \in Nat /\ crashes' >= crashes
    BY BoundAssumption DEF TypeOK, Onward
  <1>2. \A n \in Node : poisoned[n] => poisoned'[n] \/ crashes' > 0
    BY DEF Onward
  <1>3. CASE crashes > 0
    BY <1>1, <1>3 DEF Cause
  <1>4. CASE poisoned[From[l]] \/ poisoned[To(l)]
    BY <1>2, <1>4, Ends DEF Cause, To
  <1> QED
    BY <1>3, <1>4 DEF Cause

LEMMA RestingLink ==
    ASSUME IInv, Onward, NEW l \in Link, Rests(l)
    PROVE  LinkInv(l)'
  <1>1. LinkInv(l)
    BY DEF IInv
  <1>2. DatabaseMessage(l)' = DatabaseMessage(l)
    BY DEF Rests, DatabaseMessage
  <1>3. Cause(l) => Cause(l)'
    BY CauseStays DEF IInv
  <1>4. crashes > 0 => crashes' > 0
    BY BoundAssumption DEF IInv, TypeOK, Onward
  <1>5. ASSUME reader[l].stage = "done"
        PROVE  (database[To(l)] >= database_bytes[l][1] \/ poisoned[To(l)] \/ crashes > 0)'
    <2>1. sender[l] # "none"
      BY <1>1, <1>5, ParserType DEF IInv
    <2>2. database_bytes[l][1] \in Nat
      BY <2>1, MessageType DEF IInv
    <2>3. To(l) \in Node /\ To(l)' = To(l)
      BY Ends DEF To
    <2>4. database[To(l)] \in Nat
      BY <2>3 DEF IInv, TypeOK
    <2>5. database[To(l)] >= database_bytes[l][1] \/ poisoned[To(l)] \/ crashes > 0
      BY <1>1, <1>5 DEF LinkInv
    <2>6. CASE database[To(l)] >= database_bytes[l][1]
      <3>1. database'[To(l)] >= database[To(l)] /\ database'[To(l)] \in Nat
        BY <2>3 DEF Onward
      <3>2. database'[To(l)] >= database_bytes[l][1]
        BY <2>2, <2>4, <2>6, <3>1
      <3> QED
        BY <2>3, <3>2 DEF Rests
    <2>7. CASE poisoned[To(l)]
      BY <2>3, <2>7 DEF Onward
    <2> QED
      BY <1>4, <2>5, <2>6, <2>7
  <1>6. /\ sender'[l] = sender[l] /\ receiver'[l] = receiver[l]
        /\ sent'[l] = sent[l] /\ reader'[l] = reader[l]
    BY DEF Rests
  <1> QED
    BY <1>1, <1>2, <1>3, <1>4, <1>5, <1>6 DEF LinkInv

\* It is enough to look at the link of a step.
LEMMA OneLink ==
    ASSUME IInv, NEW l \in Link, TypeOK', Onward, UNCHANGED up, LinkInv(l)',
           \A j \in Link \ {l} : Rests(j)
    PROVE  IInv'
  <1>1. ASSUME NEW j \in Link
        PROVE  LinkInv(j)'
    BY RestingLink
  <1>2. crashes' = 0 => crashes = 0
    BY BoundAssumption DEF IInv, TypeOK, Onward
  <1> QED
    BY <1>1, <1>2 DEF IInv

LEMMA StartGossipStep ==
    ASSUME IInv, NEW l \in Link, StartGossip(l)
    PROVE  /\ IInv'
           /\ sender[l] = "none" /\ sender'[l] = "writing"
           /\ receiver'[l] \in {"backlog", "refused"}
           /\ reader'[l] = reader[l] /\ reader'[l].stage # "done"
           /\ sent'[l] = 0 /\ 0 < Size(DatabaseMessage(l)')
           /\ \A j \in Link \ {l} : Rests(j)
  <1> DEFINE n == From[l]
             made == database[n] + 1
  <1>1. n \in Node /\ To(l) \in Node
    BY Ends
  <1>2. /\ sender[l] = "none" /\ database[n] < MaxBlocks
        /\ database' = [database EXCEPT ![n] = made]
        /\ database_bytes' = [database_bytes EXCEPT ![l] = <<database'[n]>>]
        /\ sender' = [sender EXCEPT ![l] = "writing"]
        /\ receiver' = [receiver EXCEPT ![l] = IF up[To(l)] THEN "backlog" ELSE "refused"]
        /\ UNCHANGED <<poisoned, up, crashes, sent, reader>>
    BY DEF StartGossip
  <1>3. database \in [Node -> 1..MaxBlocks] /\ made \in 1..MaxBlocks /\ MaxBlocks \in Nat
    BY <1>1, <1>2, BoundAssumption DEF IInv, TypeOK
  <1>4. /\ database' \in [Node -> 1..MaxBlocks] /\ database'[n] = made
        /\ \A p \in Node : database'[p] \in Nat /\ database'[p] >= database[p]
    <2>1. \A p \in Node : database'[p] = IF p = n THEN made ELSE database[p]
      BY <1>2, <1>3
    <2> QED
      BY <1>1, <1>2, <1>3, <2>1
  <1>5. /\ sender'[l] = "writing" /\ database_bytes'[l] = <<made>>
        /\ receiver'[l] = IF up[To(l)] THEN "backlog" ELSE "refused"
    BY <1>2, <1>4 DEF IInv, TypeOK
  <1>6. /\ database_bytes' \in [Link -> {<<>>} \cup {<<blocks>> : blocks \in 1..MaxBlocks}]
        /\ sender' \in [Link -> {"none", "writing", "closed"}]
        /\ receiver' \in [Link -> {"none", "refused", "closed"} \cup ReceiverOpen]
    BY <1>2, <1>3, <1>4 DEF IInv, TypeOK, ReceiverOpen
  <1>7. ASSUME NEW j \in Link, j # l
        PROVE  Rests(j)
    BY <1>2, <1>7 DEF Rests, IInv, TypeOK
  <1>8. DatabaseMessage(l)'.header = HeaderLength
        /\ DatabaseMessage(l)'.length = DatabaseLength(made)
    BY <1>5 DEF DatabaseMessage, Message
  <1>9. IsMessage(DatabaseMessage(l)') /\ Size(DatabaseMessage(l)') \in Nat
        /\ Size(DatabaseMessage(l)') > 0
    BY <1>3, <1>8, LengthAssumption DEF IsMessage, Size, FixedHeader
  <1>10. sent[l] = 0 /\ reader[l] = NewReader
    BY <1>2 DEF IInv, TypeOK, LinkInv
  <1>11. NewReader.got = 0 /\ NewReader.stage = "length"
    BY ReaderFields DEF NewReader
  <1>12. TypeOK'
    <2>1. ASSUME NEW j \in Link
          PROVE  /\ sender'[j] = "none" <=> database_bytes'[j] = <<>>
                 /\ sender'[j] = "none" <=> receiver'[j] = "none"
                 /\ IsReader(reader'[j]) /\ reader'[j].got <= sent'[j]
                 /\ IF sender'[j] = "none" THEN sent'[j] = 0
                    ELSE sent'[j] <= Size(DatabaseMessage(j)')
      <3>1. CASE j = l
        <4>1. /\ sender'[l] # "none" /\ database_bytes'[l] # <<>> /\ receiver'[l] # "none"
          BY <1>5
        <4>2. IsReader(reader[l]) /\ reader[l].got <= sent[l]
          BY DEF IInv, TypeOK
        <4> QED
          BY <1>2, <1>9, <1>10, <3>1, <4>1, <4>2
      <3>2. CASE j # l
        <4>1. Rests(j) /\ DatabaseMessage(j)' = DatabaseMessage(j)
          BY <1>7, <3>2 DEF Rests, DatabaseMessage
        <4> QED
          BY <4>1 DEF Rests, IInv, TypeOK
      <3> QED
        BY <3>1, <3>2
    <2> QED
      BY <1>2, <1>4, <1>6, <2>1 DEF IInv, TypeOK
  <1>13. Onward
    BY <1>2, <1>4, BoundAssumption DEF Onward, IInv, TypeOK
  <1>14. LinkInv(l)'
    <2>1. reader'[l] = ParserAt(DatabaseMessage(l)', reader'[l].got)
      BY <1>2, <1>10, <1>11, NewParser
    <2>2. receiver'[l] = "refused" => crashes' > 0
      <3>1. ~up[To(l)] => crashes # 0 /\ crashes \in Nat
        BY <1>1, BoundAssumption DEF IInv, TypeOK
      <3> QED
        BY <1>2, <1>5, <3>1
    <2>3. sender'[l] = "writing" /\ receiver'[l] # "closed" /\ reader'[l].stage = "length"
      BY <1>2, <1>5, <1>10, <1>11
    <2> QED
      BY <2>1, <2>2, <2>3 DEF LinkInv
  <1>15. IInv'
    BY <1>2, <1>7, <1>12, <1>13, <1>14, OneLink
  <1> QED
    BY <1>2, <1>5, <1>7, <1>9, <1>10, <1>11, <1>15

\* What TypeOK says of a link.
LinkType(l) ==
    /\ sender[l] = "none" <=> database_bytes[l] = <<>>
    /\ sender[l] = "none" <=> receiver[l] = "none"
    /\ IsReader(reader[l]) /\ reader[l].got <= sent[l]
    /\ IF sender[l] = "none" THEN sent[l] = 0 ELSE sent[l] <= Size(DatabaseMessage(l))

\* The types after a step on a link that has been opened.
LEMMA TypeKept ==
    ASSUME TypeOK, NEW l \in Link, UNCHANGED <<poisoned, up, crashes, database_bytes>>,
           database' \in [Node -> 1..MaxBlocks],
           sender' \in [Link -> {"none", "writing", "closed"}],
           receiver' \in [Link -> {"none", "refused", "closed"} \cup ReceiverOpen],
           sent' \in [Link -> Nat], reader' = [j \in Link |-> reader'[j]],
           \A j \in Link \ {l} : Rests(j), LinkType(l)'
    PROVE  TypeOK'
  <1>1. ASSUME NEW j \in Link
        PROVE  LinkType(j)'
    <2>1. CASE j # l
      <3>1. Rests(j) /\ DatabaseMessage(j)' = DatabaseMessage(j)
        BY <2>1 DEF Rests, DatabaseMessage
      <3> QED
        BY <3>1 DEF Rests, TypeOK, LinkType
    <2> QED
      BY <2>1
  <1> QED
    BY <1>1 DEF TypeOK, LinkType

LEMMA NodesRest ==
    ASSUME TypeOK, UNCHANGED node
    PROVE  Onward
  BY BoundAssumption DEF node, Onward, TypeOK

LEMMA SendRoundStep ==
    ASSUME IInv, NEW l \in Link, NEW k \in Piece(l), SendRound(l, k)
    PROVE  /\ IInv'
           /\ sender[l] = "writing" /\ sent[l] < Size(DatabaseMessage(l))
           /\ UNCHANGED <<database_bytes, receiver, reader>>
           /\ sender'[l] = IF sent'[l] = Size(DatabaseMessage(l)) \/ poisoned[From[l]]
                           THEN "closed" ELSE "writing"
           /\ \A j \in Link \ {l} : Rests(j)
  <1> DEFINE size == Size(DatabaseMessage(l))
             s == IF sent'[l] = size \/ poisoned[From[l]] THEN "closed" ELSE "writing"
             n == sent[l] + k
  <1>1. TypeOK /\ LinkInv(l)
    BY DEF IInv
  <1>2. /\ sender[l] = "writing" /\ n <= size
        /\ sent' = [sent EXCEPT ![l] = n] /\ sender' = [sender EXCEPT ![l] = s]
        /\ UNCHANGED <<node, database_bytes, receiver, reader>>
    BY DEF SendRound
  <1>3. size \in Nat /\ sent[l] \in Nat /\ reader[l].got \in Nat /\ reader[l].got <= sent[l]
        /\ k \in Nat /\ k > 0 /\ n \in Nat
    BY <1>1, <1>2, MessageType, ParserType DEF Piece
  <1>4. DatabaseMessage(l)' = DatabaseMessage(l)
    BY <1>2 DEF DatabaseMessage
  <1>5. /\ sent'[l] = n /\ sender'[l] = s /\ s \in {"writing", "closed"}
        /\ sent' \in [Link -> Nat] /\ sender' \in [Link -> {"none", "writing", "closed"}]
        /\ \A j \in Link \ {l} : Rests(j)
    <2>1. s \in {"writing", "closed"}
      OBVIOUS
    <2> HIDE DEF s, n
    <2> QED
      BY <1>1, <1>2, <1>3, <2>1 DEF Rests, TypeOK
  <1> HIDE DEF size, s
  <1>6. LinkType(l)'
    BY <1>1, <1>2, <1>3, <1>4, <1>5 DEF LinkType, TypeOK, size
  <1>7. TypeOK'
    BY <1>1, <1>2, <1>5, <1>6, TypeKept DEF node, TypeOK
  <1>8. Onward
    BY <1>1, <1>2, NodesRest
  <1>9. LinkInv(l)'
    <2>1. sender'[l] = "closed" => sent'[l] = size \/ Cause(l)
      BY <1>5 DEF s, Cause
    <2>2. Cause(l)' <=> Cause(l)
      BY <1>2 DEF Cause, node, To
    <2> QED
      BY <1>1, <1>2, <1>4, <1>5, <2>1, <2>2 DEF LinkInv, node, size, To
  <1>10. IInv'
    BY <1>2, <1>5, <1>7, <1>8, <1>9, OneLink DEF node
  <1>11. sent[l] < size
    BY <1>2, <1>3
  <1> QED
    BY <1>2, <1>5, <1>10, <1>11 DEF s, size

LEMMA SendFailsStep ==
    ASSUME IInv, NEW l \in Link, SendFails(l)
    PROVE  /\ IInv'
           /\ sender[l] = "writing" /\ sender'[l] = "closed"
           /\ receiver[l] \notin ReceiverOpen
           /\ UNCHANGED <<database_bytes, receiver, sent, reader>>
           /\ \A j \in Link \ {l} : Rests(j)
  <1>1. TypeOK /\ LinkInv(l)
    BY DEF IInv
  <1>2. /\ sender[l] = "writing" /\ sender' = [sender EXCEPT ![l] = "closed"]
        /\ UNCHANGED <<node, database_bytes, receiver, sent, reader>>
        /\ \/ receiver[l] = "refused"
           \/ receiver[l] = "closed" /\ reader[l].got < sent[l]
    BY DEF SendFails
  <1>3. DatabaseMessage(l)' = DatabaseMessage(l)
    BY <1>2 DEF DatabaseMessage
  <1>4. /\ sender'[l] = "closed" /\ sender' \in [Link -> {"none", "writing", "closed"}]
        /\ \A j \in Link \ {l} : Rests(j)
    BY <1>1, <1>2 DEF Rests, TypeOK
  <1>5. LinkType(l)'
    BY <1>1, <1>2, <1>3, <1>4 DEF LinkType, TypeOK
  <1>6. TypeOK'
    BY <1>1, <1>2, <1>4, <1>5, TypeKept DEF node, TypeOK
  <1>7. Onward
    BY <1>1, <1>2, NodesRest
  <1>8. Cause(l)
    <2>1. CASE receiver[l] = "refused"
      BY <1>1, <2>1 DEF LinkInv, Cause
    <2>2. CASE receiver[l] = "closed" /\ reader[l].got < sent[l]
      <3>1. reader[l].stage # "done"
        <4>1. /\ reader[l].stage = "done" => reader[l].got = Size(DatabaseMessage(l))
              /\ sent[l] <= Size(DatabaseMessage(l)) /\ reader[l].got \in Nat
              /\ sent[l] \in Nat
          BY <1>1, <1>2, ParserType
        <4> QED
          BY <2>2, <4>1
      <3> QED
        BY <1>1, <2>2, <3>1 DEF LinkInv
    <2> QED
      BY <1>2, <2>1, <2>2
  <1>9. LinkInv(l)'
    <2>1. Cause(l)' <=> Cause(l)
      BY <1>2 DEF Cause, node, To
    <2> QED
      BY <1>1, <1>2, <1>3, <1>4, <1>8, <2>1 DEF LinkInv, node, To
  <1>10. IInv'
    BY <1>2, <1>4, <1>6, <1>7, <1>9, OneLink DEF node
  <1> QED
    BY <1>2, <1>4, <1>10 DEF ReceiverOpen

LEMMA AcceptGossipStep ==
    ASSUME IInv, NEW l \in Link, AcceptGossip(l)
    PROVE  /\ IInv'
           /\ receiver[l] \in ReceiverOpen /\ receiver'[l] \in ReceiverOpen
           /\ UNCHANGED <<database_bytes, sender, sent, reader>>
           /\ \A j \in Link \ {l} : Rests(j)
  <1>1. TypeOK /\ LinkInv(l)
    BY DEF IInv
  <1>2. /\ receiver[l] = "backlog" /\ receiver' = [receiver EXCEPT ![l] = "reading"]
        /\ UNCHANGED <<node, database_bytes, sender, sent, reader>>
    BY DEF AcceptGossip
  <1>3. DatabaseMessage(l)' = DatabaseMessage(l)
    BY <1>2 DEF DatabaseMessage
  <1>4. /\ receiver'[l] = "reading"
        /\ receiver' \in [Link -> {"none", "refused", "closed"} \cup ReceiverOpen]
        /\ \A j \in Link \ {l} : Rests(j)
    BY <1>1, <1>2 DEF Rests, TypeOK, ReceiverOpen
  <1>5. LinkType(l)'
    BY <1>1, <1>2, <1>3, <1>4 DEF LinkType, TypeOK
  <1>6. TypeOK'
    BY <1>1, <1>2, <1>4, <1>5, TypeKept DEF node, TypeOK
  <1>7. Onward
    BY <1>1, <1>2, NodesRest
  <1>8. LinkInv(l)'
    <2>1. Cause(l)' <=> Cause(l)
      BY <1>2 DEF Cause, node, To
    <2> QED
      BY <1>1, <1>2, <1>3, <1>4, <2>1 DEF LinkInv, node, To, ReceiverOpen
  <1>9. IInv'
    BY <1>2, <1>4, <1>6, <1>7, <1>8, OneLink DEF node
  <1> QED
    BY <1>2, <1>4, <1>9 DEF ReceiverOpen

\* The consensus step keeps the longer of the two databases.
LEMMA LongerOf ==
    ASSUME NEW own \in 1..MaxBlocks, NEW other \in 1..MaxBlocks
    PROVE  /\ CopyLonger(own, other) \in 1..MaxBlocks
           /\ CopyLonger(own, other) >= own /\ CopyLonger(own, other) >= other
  BY BoundAssumption DEF CopyLonger

LEMMA ReceiveRoundStep ==
    ASSUME IInv, NEW l \in Link, NEW k \in Piece(l), ReceiveRound(l, k)
    PROVE  /\ IInv'
           /\ sender[l] # "none" /\ receiver[l] = "reading"
           /\ receiver'[l] =
                 IF reader'[l].stage = "done" \/ poisoned[To(l)] THEN "closed" ELSE "reading"
           /\ reader'[l].stage = "done" =>
                 /\ sent[l] = Size(DatabaseMessage(l))
                 /\ Slice(DatabaseMessage(l), reader'[l].data) = Whole(DatabaseMessage(l))
           /\ UNCHANGED <<database_bytes, sender, sent>>
           /\ \A j \in Link \ {l} : Rests(j)
  <1> DEFINE m    == DatabaseMessage(l)
             g    == reader[l].got
             next == ReadMessage(reader[l], m, k)
             n    == To(l)
             done == next.stage = "done"
             kept == IF done /\ ~poisoned[n]
                     THEN CopyLonger(database[n], database_bytes[l][1]) ELSE database[n]
             r    == IF done \/ poisoned[n] THEN "closed" ELSE "reading"
  <1>1. TypeOK /\ LinkInv(l) /\ n \in Node
    BY Ends DEF IInv
  <1>2. /\ receiver[l] = "reading" /\ g + k <= sent[l]
        /\ reader' = [reader EXCEPT ![l] = next] /\ receiver' = [receiver EXCEPT ![l] = r]
        /\ database' = [database EXCEPT ![n] = kept]
        /\ UNCHANGED <<poisoned, up, crashes, database_bytes, sender, sent>>
    BY DEF ReceiveRound
  <1>3. sender[l] # "none"
    BY <1>1, <1>2 DEF TypeOK
  <1>4. /\ IsMessage(m) /\ Size(m) \in Nat /\ database_bytes[l][1] \in 1..MaxBlocks
        /\ g \in Nat /\ k \in Nat /\ sent[l] \in Nat /\ sent[l] <= Size(m) /\ g + k \in Nat
    BY <1>1, <1>3, MessageType, ParserType DEF Piece
  <1>5. next = ParserAt(m, g + k) /\ IsReader(next) /\ next.got = g + k
    <2>1. reader[l] = ParserAt(m, g)
      BY <1>1, <1>3 DEF LinkInv
    <2>2. ReadMessage(ParserAt(m, g), m, k) = ParserAt(m, g + k)
      BY <1>4, MessageCut
    <2> HIDE DEF m, g
    <2>3. IsReader(ParserAt(m, g + k)) /\ ParserAt(m, g + k).got = g + k
      BY <1>4, ParserFacts
    <2> QED
      BY <2>1, <2>2, <2>3
  <1>6. DatabaseMessage(l)' = m /\ To(l)' = n
    BY <1>2 DEF DatabaseMessage, To
  <1> HIDE DEF m, g, next, n
  <1>7. kept \in 1..MaxBlocks /\ kept >= database[n] /\ database[n] \in Nat
        /\ (done => kept >= database_bytes[l][1] \/ poisoned[n])
    <2>1. database[n] \in 1..MaxBlocks /\ database[n] >= database[n]
      BY <1>1 DEF TypeOK
    <2>2. database[n] \in Nat
      BY <2>1, BoundAssumption
    <2> QED
      BY <1>4, <2>1, <2>2, LongerOf
  <1> HIDE DEF kept
  <1>8. /\ database' \in [Node -> 1..MaxBlocks] /\ database'[n] = kept
        /\ \A p \in Node : database'[p] \in Nat /\ database'[p] >= database[p]
    <2>1. database \in [Node -> 1..MaxBlocks]
      BY <1>1 DEF TypeOK
    <2>2. \A p \in Node : database'[p] = IF p = n THEN kept ELSE database[p]
      BY <1>2, <2>1
    <2>3. ASSUME NEW p \in Node
          PROVE  database'[p] \in Nat /\ database'[p] >= database[p]
      BY <1>7, <2>1, <2>2, BoundAssumption
    <2> QED
      BY <1>1, <1>2, <1>7, <2>1, <2>2, <2>3
  <1>9. /\ reader'[l] = next /\ reader' = [j \in Link |-> reader'[j]]
        /\ receiver'[l] = r /\ r \in {"closed", "reading"}
        /\ receiver' \in [Link -> {"none", "refused", "closed"} \cup ReceiverOpen]
        /\ \A j \in Link \ {l} : Rests(j)
    <2>1. r \in {"closed", "reading"}
      OBVIOUS
    <2> HIDE DEF r
    <2> QED
      BY <1>1, <1>2, <2>1 DEF Rests, TypeOK, ReceiverOpen
  <1>10. LinkType(l)'
    <2>1. sender'[l] # "none" /\ receiver'[l] # "none" /\ database_bytes'[l] # <<>>
      BY <1>1, <1>2, <1>3, <1>9 DEF TypeOK
    <2>2. IsReader(reader'[l]) /\ reader'[l].got <= sent'[l]
      BY <1>2, <1>5, <1>9
    <2>3. sent'[l] <= Size(DatabaseMessage(l)')
      BY <1>2, <1>4, <1>6
    <2> QED
      BY <2>1, <2>2, <2>3 DEF LinkType
  <1>11. TypeOK'
    BY <1>1, <1>2, <1>8, <1>9, <1>10, TypeKept DEF TypeOK
  <1>12. Onward
    BY <1>1, <1>2, <1>8, BoundAssumption DEF Onward, TypeOK
  <1>13. LinkInv(l)'
    <2>1. reader'[l] = ParserAt(DatabaseMessage(l)', reader'[l].got) /\ sender'[l] # "none"
      BY <1>2, <1>3, <1>5, <1>6, <1>9
    <2>2. Cause(l)' <=> Cause(l)
      BY <1>2 DEF Cause, To
    <2>3. receiver'[l] = "closed" => reader'[l].stage = "done" \/ Cause(l)'
      BY <1>9, <2>2 DEF Cause, n
    <2>4. receiver'[l] \in ReceiverOpen => reader'[l].stage # "done"
      BY <1>9 DEF ReceiverOpen
    <2>5. sender'[l] = "closed" =>
             sent'[l] = Size(DatabaseMessage(l)') \/ Cause(l)'
      BY <1>1, <1>2, <1>6, <2>2 DEF LinkInv, m
    <2>6. receiver'[l] # "refused"
      BY <1>9
    <2>7. reader'[l].stage = "done" =>
             (database[To(l)] >= database_bytes[l][1] \/ poisoned[To(l)] \/ crashes > 0)'
      BY <1>2, <1>6, <1>7, <1>8, <1>9
    <2> QED
      BY <2>1, <2>3, <2>4, <2>5, <2>6, <2>7 DEF LinkInv
  <1>14. IInv'
    BY <1>2, <1>9, <1>11, <1>12, <1>13, OneLink
  <1>15. ASSUME next.stage = "done"
         PROVE  sent[l] = Size(m) /\ Slice(m, next.data) = Whole(m)
    <2>1. g + k >= Size(m) /\ Slice(m, ParserAt(m, g + k).data) = Whole(m)
      BY <1>4, <1>5, <1>15, ParserFacts
    <2> QED
      BY <1>2, <1>4, <1>5, <2>1
  <1> QED
    BY <1>2, <1>3, <1>9, <1>14, <1>15 DEF n, m

LEMMA ReceiveFailsStep ==
    ASSUME IInv, NEW l \in Link, ReceiveFails(l)
    PROVE  /\ IInv'
           /\ sender[l] = "closed" /\ receiver[l] = "reading" /\ receiver'[l] = "closed"
           /\ sent[l] # Size(DatabaseMessage(l))
           /\ UNCHANGED <<database_bytes, sender, sent, reader>>
           /\ \A j \in Link \ {l} : Rests(j)
  <1>1. TypeOK /\ LinkInv(l)
    BY DEF IInv
  <1>2. /\ receiver[l] = "reading" /\ receiver' = [receiver EXCEPT ![l] = "closed"]
        /\ sender[l] = "closed" /\ reader[l].got = sent[l]
        /\ UNCHANGED <<node, database_bytes, sender, sent, reader>>
    BY DEF ReceiveFails
  <1>3. DatabaseMessage(l)' = DatabaseMessage(l)
    BY <1>2 DEF DatabaseMessage
  <1>4. /\ receiver'[l] = "closed"
        /\ receiver' \in [Link -> {"none", "refused", "closed"} \cup ReceiverOpen]
        /\ \A j \in Link \ {l} : Rests(j)
    BY <1>1, <1>2 DEF Rests, TypeOK, ReceiverOpen
  <1>5. LinkType(l)'
    BY <1>1, <1>2, <1>3, <1>4 DEF LinkType, TypeOK
  <1>6. TypeOK'
    BY <1>1, <1>2, <1>4, <1>5, TypeKept DEF node, TypeOK
  <1>7. Onward
    BY <1>1, <1>2, NodesRest
  <1>8. sent[l] # Size(DatabaseMessage(l)) /\ Cause(l)
    <2>1. reader[l].stage # "done"
      BY <1>1, <1>2 DEF LinkInv, ReceiverOpen
    <2>2. sent[l] # Size(DatabaseMessage(l))
      BY <1>1, <1>2, <2>1, ParserType
    <2> QED
      BY <1>1, <1>2, <2>2 DEF LinkInv
  <1>9. LinkInv(l)'
    <2>1. Cause(l)' <=> Cause(l)
      BY <1>2 DEF Cause, node, To
    <2> QED
      BY <1>1, <1>2, <1>3, <1>4, <1>8, <2>1 DEF LinkInv, node, To, ReceiverOpen
  <1>10. IInv'
    BY <1>2, <1>4, <1>6, <1>7, <1>9, OneLink DEF node
  <1> QED
    BY <1>2, <1>4, <1>8, <1>10

\* A step of a node that is none of its links.
LEMMA NodeStep ==
    ASSUME IInv, NEW n \in Node, StackInvalid(n) \/ Restart(n)
    PROVE  IInv' /\ \A l \in Link : Rests(l)
  <1>1. /\ UNCHANGED <<database, crashes, database_bytes, sender, receiver, sent, reader>>
        /\ \A p \in Node : /\ poisoned[p] => poisoned'[p]
                           /\ up[p] => up'[p]
        /\ poisoned' \in [Node -> BOOLEAN] /\ up' \in [Node -> BOOLEAN]
    BY DEF StackInvalid, Restart, IInv, TypeOK
  <1>2. \A l \in Link : Rests(l)
    BY <1>1 DEF Rests
  <1>3. Onward
    BY <1>1, BoundAssumption DEF Onward, IInv, TypeOK
  <1>4. TypeOK'
    <2>1. ASSUME NEW l \in Link
          PROVE  LinkType(l)'
      <3>1. DatabaseMessage(l)' = DatabaseMessage(l)
        BY <1>1 DEF DatabaseMessage
      <3> QED
        BY <1>1, <3>1 DEF LinkType, IInv, TypeOK
    <2> QED
      BY <1>1, <2>1 DEF LinkType, IInv, TypeOK
  <1> QED
    BY <1>1, <1>2, <1>3, <1>4, RestingLink DEF IInv

LEMMA CrashStep ==
    ASSUME IInv, NEW n \in Node, Crash(n)
    PROVE  /\ IInv'
           /\ UNCHANGED <<database_bytes, sent, reader>>
           /\ \A l \in Link :
                 /\ sender'[l] = "none" <=> sender[l] = "none"
                 /\ sender'[l] = "writing" => sender[l] = "writing"
                 /\ receiver'[l] \in ReceiverOpen => receiver[l] \in ReceiverOpen
  <1>1. /\ crashes < MaxCrashes /\ crashes' = crashes + 1
        /\ up' = [up EXCEPT ![n] = FALSE] /\ poisoned' = [poisoned EXCEPT ![n] = FALSE]
        /\ sender' = [l \in Link |->
              IF From[l] = n /\ sender[l] = "writing" THEN "closed" ELSE sender[l]]
        /\ receiver' = [l \in Link |->
              IF To(l) # n THEN receiver[l]
              ELSE IF receiver[l] = "backlog" THEN "refused"
              ELSE IF receiver[l] = "reading" THEN "closed" ELSE receiver[l]]
        /\ UNCHANGED <<database, database_bytes, sent, reader>>
    BY DEF Crash
  <1>2. crashes' \in 0..MaxCrashes /\ crashes' > 0 /\ crashes' \in Nat
    BY <1>1, BoundAssumption DEF IInv, TypeOK
  <1>3. ASSUME NEW l \in Link
        PROVE  /\ sender'[l] = "none" <=> sender[l] = "none"
               /\ sender'[l] = "writing" => sender[l] = "writing"
               /\ sender'[l] \in {"none", "writing", "closed"}
               /\ receiver'[l] = "none" <=> receiver[l] = "none"
               /\ receiver'[l] \in ReceiverOpen => receiver[l] \in ReceiverOpen
               /\ receiver'[l] \in {"none", "refused", "closed"} \cup ReceiverOpen
    BY <1>1 DEF IInv, TypeOK, ReceiverOpen
  <1>4. TypeOK'
    <2>1. ASSUME NEW l \in Link
          PROVE  LinkType(l)'
      <3>1. DatabaseMessage(l)' = DatabaseMessage(l)
        BY <1>1 DEF DatabaseMessage
      <3>2. LinkType(l)
        BY DEF LinkType, IInv, TypeOK
      <3> QED
        BY <1>1, <1>3, <3>1, <3>2 DEF LinkType
    <2>2. /\ sender' \in [Link -> {"none", "writing", "closed"}]
          /\ receiver' \in [Link -> {"none", "refused", "closed"} \cup ReceiverOpen]
      BY <1>1, <1>3
    <2>3. poisoned' \in [Node -> BOOLEAN] /\ up' \in [Node -> BOOLEAN]
      BY <1>1 DEF IInv, TypeOK
    <2> QED
      BY <1>1, <1>2, <2>1, <2>2, <2>3 DEF LinkType, IInv, TypeOK
  <1>5. ASSUME NEW l \in Link
        PROVE  LinkInv(l)'
    <2>1. DatabaseMessage(l)' = DatabaseMessage(l)
      BY <1>1 DEF DatabaseMessage
    <2>2. LinkInv(l) /\ Cause(l)'
      BY <1>2 DEF IInv, Cause
    <2> QED
      BY <1>1, <1>2, <1>3, <2>1, <2>2 DEF LinkInv
  <1> QED
    BY <1>1, <1>2, <1>3, <1>4, <1>5 DEF IInv

LEMMA NextInv == IInv /\ [Next]_vars => IInv'
  <1> SUFFICES ASSUME IInv, [Next]_vars
               PROVE  IInv'
    OBVIOUS
  <1>1. ASSUME NEW l \in Link, StartGossip(l) \/ SendStep(l) \/ ReceiveStep(l)
        PROVE  IInv'
    BY <1>1, StartGossipStep, SendRoundStep, SendFailsStep, AcceptGossipStep,
       ReceiveRoundStep, ReceiveFailsStep DEF SendStep, ReceiveStep
  <1>2. ASSUME NEW n \in Node, StackInvalid(n) \/ Crash(n) \/ Restart(n)
        PROVE  IInv'
    BY <1>2, NodeStep, CrashStep
  <1>3. CASE UNCHANGED vars
    <2>1. UNCHANGED node /\ TypeOK' /\ \A l \in Link : Rests(l)
      <3>1. /\ UNCHANGED <<database, poisoned, up, crashes>>
            /\ UNCHANGED <<database_bytes, sender, receiver, sent, reader>>
        BY <1>3 DEF vars, node
      <3>2. \A l \in Link : DatabaseMessage(l)' = DatabaseMessage(l)
        BY <3>1 DEF DatabaseMessage
      <3> QED
        BY <3>1, <3>2 DEF node, Rests, IInv, TypeOK
    <2>2. Onward
      BY <2>1, NodesRest DEF IInv
    <2>3. \A l \in Link : LinkInv(l)'
      BY <2>1, <2>2, RestingLink
    <2>4. crashes' = 0 => \A n \in Node : up'[n]
      BY <2>1 DEF IInv, node
    <2> QED
      BY <2>1, <2>3, <2>4 DEF IInv
  <1> QED
    BY <1>1, <1>2, <1>3 DEF Next

\* The invariant holds in every state.
LEMMA Invariance == Spec => []IInv
  BY InitInv, NextInv, PTL DEF Spec

-----------------------------------------------------------------------------
(* Theorems *)

\* TypeOK: no parser is ahead of its bytes, and no end ahead of the message.
THEOREM TypeCorrect == Spec => []TypeOK
  BY Invariance, PTL DEF IInv

\* CutIndependent: the parser of a link is where one piece would have brought it.
THEOREM CutIndependentAlways == Spec => []CutIndependent
  <1>1. IInv => CutIndependent
    <2> SUFFICES ASSUME IInv, NEW l \in Link
                 PROVE  IF sender[l] = "none" THEN reader[l] = NewReader
                        ELSE reader[l] = ReadMessage(NewReader, DatabaseMessage(l),
                                                     reader[l].got)
      BY DEF CutIndependent
    <2>1. CASE sender[l] = "none"
      BY <2>1 DEF IInv, LinkInv
    <2>2. CASE sender[l] # "none"
      <3> DEFINE m == DatabaseMessage(l)
                 g == reader[l].got
      <3>1. IsMessage(m) /\ g \in Nat /\ 0 + g = g /\ 0 \in Nat
        BY <2>2, MessageType, ParserType DEF IInv
      <3>2. reader[l] = ParserAt(m, g)
        BY <2>2 DEF IInv, LinkInv
      <3> HIDE DEF m, g
      <3>3. ReadMessage(ParserAt(m, 0), m, g) = ParserAt(m, 0 + g)
        BY <3>1, MessageCut
      <3> QED
        BY <2>2, <3>1, <3>2, <3>3, NewParser DEF m, g
    <2> QED
      BY <2>1, <2>2
  <1> QED
    BY <1>1, Invariance, PTL

\* LostHasCause: gossip is lost by a crash or an invalid block only.
THEOREM LostHasCauseAlways == Spec => []LostHasCause
  <1>1. IInv => LostHasCause
    BY DEF IInv, LinkInv, Lost, LostHasCause, Cause
  <1> QED
    BY <1>1, Invariance, PTL

\* ReceivedCounts: received gossip has been taken into account.
THEOREM ReceivedCountsAlways == Spec => []ReceivedCounts
  <1>1. IInv => ReceivedCounts
    BY DEF IInv, LinkInv, ReceivedCounts
  <1> QED
    BY <1>1, Invariance, PTL

\* Where nothing happens on a link, nothing happens to its message.
LEMMA RestingMessage ==
    ASSUME NEW l \in Link, Rests(l)
    PROVE  Status(l)' = Status(l) /\ Sending(l)' = Sending(l) /\ Received(l)' = Received(l)
  <1>1. DatabaseMessage(l)' = DatabaseMessage(l)
    BY DEF Rests, DatabaseMessage
  <1> QED
    BY <1>1 DEF Rests, Status, Sending, Received

\* A step of Transfer, in terms of the messages of the links.
Advances(l, from, to) == Status(l) = from /\ Status(l)' = to

LEMMA TransferStep ==
    ASSUME NEW l \in Link,
           \A j \in Link \ {l} : /\ Status(j)' = Status(j) /\ Sending(j)' = Sending(j)
                                 /\ Received(j)' = Received(j),
           \/ /\ \E to \in {"outgoing", "incoming", "lost"} : Advances(l, "idle", to)
              /\ \E m : Sending(l)' = <<m>>
              /\ Received(l)' = Received(l)
           \/ /\ Advances(l, "outgoing", "incoming")
              /\ Sending(l)' = Sending(l) /\ Received(l)' = Received(l)
           \/ /\ Advances(l, "incoming", "received")
              /\ Sending(l)' = Sending(l) /\ Received(l)' = Sending(l)
           \/ /\ \/ Status(l)' = Status(l)
                 \/ \E from \in {"outgoing", "incoming"} : Advances(l, from, "lost")
              /\ Sending(l)' = Sending(l) /\ Received(l)' = Received(l)
    PROVE  [Connection!Next]_(Connection!vars)
  <1> DEFINE status   == [j \in Link |-> Status(j)]
             message  == [j \in Link |-> Sending(j)]
             received == [j \in Link |-> Received(j)]
  <1>1. /\ status'   = [status   EXCEPT ![l] = Status(l)']
        /\ message'  = [message  EXCEPT ![l] = Sending(l)']
        /\ received' = [received EXCEPT ![l] = Received(l)']
    OBVIOUS
  <1>2. /\ Status(l)' = Status(l) => status' = status
        /\ Sending(l)' = Sending(l) => message' = message
        /\ Received(l)' = Received(l) => received' = received
    OBVIOUS
  <1>3. CASE /\ \E to \in {"outgoing", "incoming", "lost"} : Advances(l, "idle", to)
             /\ \E m : Sending(l)' = <<m>>
             /\ Received(l)' = Received(l)
    <2>1. \E to \in {"outgoing", "incoming", "lost"} : Connection!Moves(l, {"idle"}, to)
      BY <1>1, <1>3 DEF Advances, Connection!Moves
    <2>2. message'[l] = Sending(l)' /\ Len(Sending(l)') = 1
      BY <1>3
    <2>3. Connection!Begin(l)
      BY <1>1, <1>2, <1>3, <2>1, <2>2 DEF Connection!Begin
    <2> QED
      BY <2>3 DEF Connection!Next
  <1>4. CASE /\ Advances(l, "outgoing", "incoming")
             /\ Sending(l)' = Sending(l) /\ Received(l)' = Received(l)
    <2>1. Connection!HandOver(l)
      BY <1>1, <1>2, <1>4 DEF Advances, Connection!Moves, Connection!HandOver
    <2> QED
      BY <2>1 DEF Connection!Next
  <1>5. CASE /\ Advances(l, "incoming", "received")
             /\ Sending(l)' = Sending(l) /\ Received(l)' = Sending(l)
    <2>1. Connection!Receive(l)
      BY <1>1, <1>2, <1>5 DEF Advances, Connection!Moves, Connection!Receive
    <2> QED
      BY <2>1 DEF Connection!Next
  <1>6. CASE /\ \E from \in {"outgoing", "incoming"} : Advances(l, from, "lost")
             /\ Sending(l)' = Sending(l) /\ Received(l)' = Received(l)
    <2>1. {l} \in SUBSET {c \in Link : status[c] \in {"outgoing", "incoming"}}
      BY <1>6 DEF Advances
    <2>2. status' = [c \in Link |-> IF c \in {l} THEN "lost" ELSE status[c]]
      BY <1>6 DEF Advances
    <2>3. Connection!Lose
      BY <1>2, <1>6, <2>1, <2>2 DEF Connection!Lose
    <2> QED
      BY <2>3 DEF Connection!Next
  <1>7. CASE /\ Status(l)' = Status(l)
             /\ Sending(l)' = Sending(l) /\ Received(l)' = Received(l)
    BY <1>2, <1>7 DEF Connection!vars
  <1> QED
    BY <1>3, <1>4, <1>5, <1>6, <1>7

\* A crash loses messages that were on their way.
LEMMA CrashLoses ==
    ASSUME IInv, NEW n \in Node, Crash(n)
    PROVE  [Connection!Next]_(Connection!vars)
  <1> DEFINE status == [l \in Link |-> Status(l)]
             lost   == {l \in Link : Status(l)' # Status(l)}
  <1>1. /\ UNCHANGED <<database_bytes, sent, reader>>
        /\ \A l \in Link :
              /\ sender'[l] = "none" <=> sender[l] = "none"
              /\ sender'[l] = "writing" => sender[l] = "writing"
              /\ receiver'[l] \in ReceiverOpen => receiver[l] \in ReceiverOpen
    BY CrashStep
  <1>2. ASSUME NEW l \in Link
        PROVE  /\ Sending(l)' = Sending(l) /\ Received(l)' = Received(l)
               /\ \/ Status(l)' = Status(l)
                  \/ Status(l)' = "lost" /\ Status(l) \in {"outgoing", "incoming"}
    <2>1. DatabaseMessage(l)' = DatabaseMessage(l)
      BY <1>1 DEF DatabaseMessage
    <2> QED
      BY <1>1, <2>1 DEF Sending, Received, Status, Progress
  <1>3. Connection!Lose
    <2>1. lost \in SUBSET {l \in Link : status[l] \in {"outgoing", "incoming"}}
      BY <1>2
    <2>2. status' = [l \in Link |-> IF l \in lost THEN "lost" ELSE status[l]]
      BY <1>2
    <2>3. UNCHANGED <<[l \in Link |-> Sending(l)], [l \in Link |-> Received(l)]>>
      BY <1>2
    <2> QED
      BY <2>1, <2>2, <2>3 DEF Connection!Lose
  <1> QED
    BY <1>3 DEF Connection!Next

\* ImplementsTransfer: gossip in pieces is received whole, once and as it was
\* when it started, or lost.
THEOREM Implementation == Spec => ImplementsTransfer
  <1>1. Init => Connection!Init
    <2> SUFFICES ASSUME Init
                 PROVE  Connection!Init
      OBVIOUS
    <2>1. NewReader.stage = "length"
      BY ReaderFields DEF NewReader
    <2>2. \A l \in Link : Status(l) = "idle" /\ Sending(l) = <<>> /\ Received(l) = <<>>
      BY <2>1 DEF Init, Status, Progress, Sending, Received
    <2> QED
      BY <2>2 DEF Connection!Init
  <1>2. IInv /\ [Next]_vars => [Connection!Next]_(Connection!vars)
    <2> SUFFICES ASSUME IInv, [Next]_vars
                 PROVE  [Connection!Next]_(Connection!vars)
      OBVIOUS
    <2>1. ASSUME NEW l \in Link, StartGossip(l)
          PROVE  [Connection!Next]_(Connection!vars)
      <3>1. Advances(l, "idle", IF receiver'[l] = "backlog" THEN "outgoing" ELSE "lost")
        BY <2>1, StartGossipStep DEF Advances, Status, Progress, ReceiverOpen
      <3>2. Sending(l)' = <<Whole(DatabaseMessage(l)')>> /\ Received(l)' = Received(l)
        BY <2>1, StartGossipStep DEF Sending, Received
      <3> QED
        BY <2>1, <3>1, <3>2, StartGossipStep, RestingMessage, TransferStep
    <2>2. ASSUME NEW l \in Link, NEW k \in Piece(l), SendRound(l, k)
          PROVE  [Connection!Next]_(Connection!vars)
      <3>1. /\ UNCHANGED <<database_bytes, receiver, reader>>
            /\ sender[l] = "writing" /\ sender'[l] \in {"writing", "closed"}
            /\ sent[l] # Size(DatabaseMessage(l)) /\ reader[l].stage # "done"
            /\ DatabaseMessage(l)' = DatabaseMessage(l)
        <4>1. sent[l] < Size(DatabaseMessage(l)) /\ sent[l] \in Nat
              /\ reader[l].got <= sent[l] /\ reader[l].got \in Nat
              /\ Size(DatabaseMessage(l)) \in Nat
          BY <2>2, SendRoundStep, ParserType, MessageType DEF IInv
        <4>2. reader[l].got # Size(DatabaseMessage(l)) /\ sent[l] # Size(DatabaseMessage(l))
          BY <4>1
        <4> QED
          BY <2>2, <4>2, SendRoundStep, ParserType DEF IInv, DatabaseMessage
      <3>2. Sending(l)' = Sending(l) /\ Received(l)' = Received(l)
        BY <3>1 DEF Sending, Received
      <3>3. \/ Status(l)' = Status(l)
            \/ Advances(l, "outgoing", "incoming") \/ Advances(l, "outgoing", "lost")
        BY <3>1 DEF Advances, Status, Progress
      <3> QED
        BY <2>2, <3>2, <3>3, SendRoundStep, RestingMessage, TransferStep
    <2>3. ASSUME NEW l \in Link, SendFails(l) \/ AcceptGossip(l) \/ ReceiveFails(l)
          PROVE  [Connection!Next]_(Connection!vars)
      <3>1. /\ UNCHANGED <<database_bytes, sent, reader>>
            /\ \A j \in Link \ {l} : Rests(j)
            /\ DatabaseMessage(l)' = DatabaseMessage(l)
        BY <2>3, SendFailsStep, AcceptGossipStep, ReceiveFailsStep DEF DatabaseMessage
      <3>2. Status(l)' = Status(l) /\ (sender'[l] = "none" <=> sender[l] = "none")
        <4>1. CASE SendFails(l)
          BY <4>1, <3>1, SendFailsStep DEF Status, Progress
        <4>2. CASE AcceptGossip(l)
          BY <4>2, <3>1, AcceptGossipStep DEF Status, Progress
        <4>3. CASE ReceiveFails(l)
          BY <4>3, <3>1, ReceiveFailsStep DEF Status, Progress, ReceiverOpen
        <4> QED
          BY <2>3, <4>1, <4>2, <4>3
      <3>3. Sending(l)' = Sending(l) /\ Received(l)' = Received(l)
        BY <3>1, <3>2 DEF Sending, Received
      <3> QED
        BY <3>1, <3>2, <3>3, RestingMessage, TransferStep
    <2>4. ASSUME NEW l \in Link, NEW k \in Piece(l), ReceiveRound(l, k)
          PROVE  [Connection!Next]_(Connection!vars)
      <3>1. /\ sender[l] # "none" /\ receiver[l] = "reading"
            /\ receiver'[l] =
                  IF reader'[l].stage = "done" \/ poisoned[To(l)] THEN "closed" ELSE "reading"
            /\ UNCHANGED <<database_bytes, sender, sent>>
            /\ DatabaseMessage(l)' = DatabaseMessage(l) /\ Sending(l)' = Sending(l)
            /\ reader[l].stage # "done"
        BY <2>4, ReceiveRoundStep DEF DatabaseMessage, Sending, IInv, LinkInv, ReceiverOpen
      <3>2. CASE reader'[l].stage = "done"
        <4>1. /\ sent[l] = Size(DatabaseMessage(l))
              /\ Slice(DatabaseMessage(l), reader'[l].data) = Whole(DatabaseMessage(l))
          BY <2>4, <3>2, ReceiveRoundStep
        <4>2. Advances(l, "incoming", "received")
          BY <3>1, <3>2, <4>1 DEF Advances, Status, Progress, ReceiverOpen
        <4>3. Received(l)' = Sending(l)
          BY <3>1, <3>2, <4>1 DEF Received, Sending
        <4> QED
          BY <2>4, <3>1, <4>2, <4>3, ReceiveRoundStep, RestingMessage, TransferStep
      <3>3. CASE reader'[l].stage # "done"
        <4>1. Received(l)' = Received(l)
          BY <3>1, <3>3 DEF Received
        <4>2. \/ Status(l)' = Status(l)
              \/ \E from \in {"outgoing", "incoming"} : Advances(l, from, "lost")
          BY <3>1, <3>3 DEF Advances, Status, Progress, ReceiverOpen
        <4> QED
          BY <2>4, <3>1, <4>1, <4>2, ReceiveRoundStep, RestingMessage, TransferStep
      <3> QED
        BY <3>2, <3>3
    <2>5. CASE \A l \in Link : Rests(l)
      BY <2>5, RestingMessage DEF Connection!vars
    <2>6. ASSUME NEW n \in Node, StackInvalid(n) \/ Restart(n)
          PROVE  [Connection!Next]_(Connection!vars)
      BY <2>5, <2>6, NodeStep
    <2>7. CASE UNCHANGED vars
      BY <2>5, <2>7 DEF vars, Rests
    <2> QED
      BY <2>1, <2>2, <2>3, <2>4, <2>6, <2>7, CrashLoses
      DEF Next, SendStep, ReceiveStep
  <1> QED
    BY <1>1, <1>2, Invariance, PTL DEF Spec, Connection!Spec, ImplementsTransfer

=============================================================================
