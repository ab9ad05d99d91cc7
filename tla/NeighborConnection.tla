------------------------- MODULE NeighborConnection -------------------------
(***************************************************************************)
(* Gossip in pieces: a NeighborConnection that sends a database and the    *)
(* one that receives it (network/fullnode_connections.py), each in the     *)
(* main loop of its full node.  FullNode takes the two ends of a gossip    *)
(* connection to be one message that is sent in one round and received in  *)
(* another; this module has the messages of Framing, with the rounds in    *)
(* between, and is shown to implement Transfer.                            *)
(*                                                                         *)
(* Of a database only the number of blocks counts.  Whether a block a node *)
(* makes is valid, and where its transactions come from, is left open.     *)
(***************************************************************************)
EXTENDS Framing, Sequences

CONSTANTS
    Node,
    Neighbor,          \* Neighbor[n]: neighbor_address and neighbor_port of n
    Link,              \* the connections that start_gossip opens
    From,              \* From[l]: the node that opens l
    HeaderLength,      \* bytes of a JSON header
    DatabaseLength(_), \* bytes of a pickled database, by its number of blocks
    MaxBlocks,         \* bound on the number of blocks
    MaxCrashes         \* bound on the crashes of a behaviour

ASSUME LinkAssumption == Neighbor \in [Node -> Node] /\ From \in [Link -> Node]
ASSUME LengthAssumption ==
    /\ HeaderLength \in Nat \ {0}
    /\ \A blocks \in 1..MaxBlocks : DatabaseLength(blocks) \in Nat \ {0}
ASSUME BoundAssumption == MaxBlocks \in Nat \ {0} /\ MaxCrashes \in Nat

VARIABLES
    database,        \* blocks in the database file of a node
    poisoned,        \* its stack of transactions makes an invalid block
    up,              \* it runs
    database_bytes,  \* the database to send on a link, once it is opened
    sender,          \* the end that start_gossip opened
    receiver,        \* the end that accept_gossip opens
    sent,            \* bytes sent on a link
    reader,          \* parser of the receiver
    crashes          \* how much of the bound is used

node == <<database, poisoned, up, crashes>>
vars == <<node, database_bytes, sender, receiver, sent, reader>>

To(l) == Neighbor[From[l]]

DatabaseMessage(l) ==
    Message("database_content", HeaderLength, DatabaseLength(database_bytes[l][1]),
            database_bytes[l][1])

ReceiverOpen == {"backlog", "reading"}

-----------------------------------------------------------------------------
(* The node that sends *)

\* A client's round makes a block and calls start_gossip with what the database
\* is then.  The kernel connects, or nobody listens and the first send raises.
StartGossip(l) ==
    LET n == From[l]
    IN  /\ sender[l] = "none"
        /\ up[n] /\ ~poisoned[n] /\ database[n] < MaxBlocks
        /\ database' = [database EXCEPT ![n] = @ + 1]
        /\ database_bytes' = [database_bytes EXCEPT ![l] = <<database'[n]>>]
        /\ sender' = [sender EXCEPT ![l] = "writing"]
        /\ receiver' = [receiver EXCEPT ![l] = IF up[To(l)] THEN "backlog" ELSE "refused"]
        /\ UNCHANGED <<poisoned, up, crashes, sent, reader>>

\* A client's round stacks a transaction that makes an invalid block.
StackInvalid(n) ==
    /\ up[n] /\ ~poisoned[n]
    /\ poisoned' = [poisoned EXCEPT ![n] = TRUE]
    /\ UNCHANGED <<database, up, crashes, database_bytes, sender, receiver, sent, reader>>

\* Mutant: database_sent is set with the first piece.
SendRoundOnce(l, k) ==
    /\ up[From[l]] /\ sender[l] = "writing" /\ receiver[l] # "refused"
    /\ sent[l] + k <= Size(DatabaseMessage(l))
    /\ sent' = [sent EXCEPT ![l] = @ + k]
    /\ sender' = [sender EXCEPT ![l] = "closed"]
    /\ UNCHANGED <<node, database_bytes, receiver, reader>>

\* NeighborConnection.write, when the socket takes k bytes, and process: it
\* closes the connection when database_sent is set, and raises when the node
\* is poisoned, for which the main loop closes it.
SendRound(l, k) ==
    /\ up[From[l]] /\ sender[l] = "writing" /\ receiver[l] # "refused"
    /\ sent[l] + k <= Size(DatabaseMessage(l))
    /\ sent' = [sent EXCEPT ![l] = @ + k]
    /\ sender' = [sender EXCEPT ![l] =
                     IF sent'[l] = Size(DatabaseMessage(l)) \/ poisoned[From[l]]
                     THEN "closed" ELSE "writing"]
    /\ UNCHANGED <<node, database_bytes, receiver, reader>>

\* Mutant: the exception is printed, and the connection stays.
SendFailsOpen(l) == up[From[l]] /\ sender[l] = "writing" /\ UNCHANGED vars

\* The send raises, for nobody listened, or the other end has closed without
\* reading everything: the main loop closes the connection.
SendFails(l) ==
    /\ up[From[l]] /\ sender[l] = "writing"
    /\ \/ receiver[l] = "refused"
       \/ receiver[l] = "closed" /\ reader[l].got < sent[l]
    /\ sender' = [sender EXCEPT ![l] = "closed"]
    /\ UNCHANGED <<node, database_bytes, receiver, sent, reader>>

-----------------------------------------------------------------------------
(* The node that receives *)

\* accept_gossip
AcceptGossip(l) ==
    /\ up[To(l)] /\ receiver[l] = "backlog"
    /\ receiver' = [receiver EXCEPT ![l] = "reading"]
    /\ UNCHANGED <<node, database_bytes, sender, sent, reader>>

\* Mutant: whatever is received is copied.
CopyReceived(own, other) == other

\* process: the received database is copied when it is longer.
CopyLonger(own, other) == IF other > own THEN other ELSE own

\* NeighborConnection.read, with a piece of k bytes, and process.  With its
\* last byte the connection closes itself, and the consensus step compares the
\* databases; on a poisoned node process raises before, and the main loop
\* closes what is still open.
ReceiveRound(l, k) ==
    LET n    == To(l)
        next == ReadMessage(reader[l], DatabaseMessage(l), k)
        done == next.stage = "done"
    IN  /\ up[n] /\ receiver[l] = "reading"
        /\ reader[l].got + k <= sent[l]
        /\ reader' = [reader EXCEPT ![l] = next]
        /\ receiver' = [receiver EXCEPT ![l] =
                           IF done \/ poisoned[n] THEN "closed" ELSE "reading"]
        /\ database' = [database EXCEPT ![n] =
                           IF done /\ ~poisoned[n]
                           THEN CopyLonger(@, database_bytes[l][1]) ELSE @]
        /\ UNCHANGED <<poisoned, up, crashes, database_bytes, sender, sent>>

\* Nothing is left to receive and the sender has closed its end (RuntimeError).
ReceiveFails(l) ==
    /\ up[To(l)] /\ receiver[l] = "reading"
    /\ sender[l] = "closed" /\ reader[l].got = sent[l]
    /\ receiver' = [receiver EXCEPT ![l] = "closed"]
    /\ UNCHANGED <<node, database_bytes, sender, sent, reader>>

-----------------------------------------------------------------------------

\* A process ends, between two rounds, and with it its ends of the connections.
Crash(n) ==
    /\ up[n] /\ crashes < MaxCrashes
    /\ crashes' = crashes + 1
    /\ up' = [up EXCEPT ![n] = FALSE]
    /\ poisoned' = [poisoned EXCEPT ![n] = FALSE]
    /\ sender' = [l \in Link |->
                    IF From[l] = n /\ sender[l] = "writing" THEN "closed" ELSE sender[l]]
    /\ receiver' = [l \in Link |->
                      IF To(l) # n THEN receiver[l]
                      ELSE IF receiver[l] = "backlog" THEN "refused"
                      ELSE IF receiver[l] = "reading" THEN "closed" ELSE receiver[l]]
    /\ UNCHANGED <<database, database_bytes, sent, reader>>

Restart(n) ==
    /\ ~up[n]
    /\ up' = [up EXCEPT ![n] = TRUE]
    /\ UNCHANGED <<database, poisoned, crashes, database_bytes, sender, receiver, sent, reader>>

Init ==
    /\ database = [n \in Node |-> 1]
    /\ poisoned = [n \in Node |-> FALSE]
    /\ up = [n \in Node |-> TRUE]
    /\ database_bytes = [l \in Link |-> <<>>]
    /\ sender = [l \in Link |-> "none"]
    /\ receiver = [l \in Link |-> "none"]
    /\ sent = [l \in Link |-> 0]
    /\ reader = [l \in Link |-> NewReader]
    /\ crashes = 0

Piece(l) == 1..Size(DatabaseMessage(l))

SendStep(l) ==
    /\ sender[l] = "writing"
    /\ SendFails(l) \/ \E k \in Piece(l) : SendRound(l, k)

ReceiveStep(l) ==
    /\ receiver[l] \in ReceiverOpen
    /\ AcceptGossip(l) \/ ReceiveFails(l) \/ \E k \in Piece(l) : ReceiveRound(l, k)

Next ==
    \/ \E l \in Link : StartGossip(l) \/ SendStep(l) \/ ReceiveStep(l)
    \/ \E n \in Node : StackInvalid(n) \/ Crash(n) \/ Restart(n)

Spec == Init /\ [][Next]_vars

\* Both loops handle every connection that is ready, again and again.
Fairness == \A l \in Link : WF_vars(SendStep(l)) /\ WF_vars(ReceiveStep(l))

FairSpec == Spec /\ Fairness

-----------------------------------------------------------------------------
(* Properties *)

\* Every variable has its shape; a parser takes only bytes that it has got, and
\* gets only bytes that were sent.
TypeOK ==
    /\ database \in [Node -> 1..MaxBlocks]
    /\ poisoned \in [Node -> BOOLEAN] /\ up \in [Node -> BOOLEAN]
    /\ database_bytes \in [Link -> {<<>>} \cup {<<blocks>> : blocks \in 1..MaxBlocks}]
    /\ sender \in [Link -> {"none", "writing", "closed"}]
    /\ receiver \in [Link -> {"none", "refused", "closed"} \cup ReceiverOpen]
    /\ sent \in [Link -> Nat]
    /\ reader = [l \in Link |-> reader[l]]
    /\ \A l \in Link :
          /\ sender[l] = "none" <=> database_bytes[l] = <<>>
          /\ sender[l] = "none" <=> receiver[l] = "none"
          /\ IsReader(reader[l]) /\ reader[l].got <= sent[l]
          /\ IF sender[l] = "none" THEN sent[l] = 0 ELSE sent[l] <= Size(DatabaseMessage(l))
    /\ crashes \in 0..MaxCrashes

\* However the stream is cut into pieces, the parser is where it would be had
\* all it has got come in one piece.
CutIndependent ==
    \A l \in Link :
        IF sender[l] = "none" THEN reader[l] = NewReader
        ELSE reader[l] = ReadMessage(NewReader, DatabaseMessage(l), reader[l].got)

\* Both ends are closed, and the database was not received.
Lost(l) ==
    sender[l] = "closed" /\ receiver[l] \in {"closed", "refused"} /\ reader[l].stage # "done"

\* Gossip is lost only where FullNode loses it: an end crashed, or one of the
\* two nodes cannot get past an invalid block.  It is never lost because of
\* how it was cut, of other gossip on its way, or of who closed first.
LostHasCause ==
    \A l \in Link :
        Lost(l) => crashes > 0 \/ poisoned[From[l]] \/ poisoned[To(l)]

\* Whatever gossip overtook on its way, a node that has received it has a
\* database at least as long, unless it could not look at it.
ReceivedCounts ==
    \A l \in Link :
        reader[l].stage = "done" =>
            \/ database[To(l)] >= database_bytes[l][1]
            \/ poisoned[To(l)] \/ crashes > 0

\* Both ends of a connection are closed in the end, whatever happens to the
\* other one, or their node is down.
ConnectionsClose ==
    \A l \in Link :
        /\ sender[l] = "writing" ~> sender[l] # "writing"
        /\ receiver[l] \in ReceiverOpen ~> receiver[l] \notin ReceiverOpen

\* A database whose sending has begun is received, unless something crashes or
\* one of the two nodes is poisoned.
GossipArrives ==
    \A l \in Link :
        sender[l] = "writing" ~>
            \/ reader[l].stage = "done"
            \/ poisoned[From[l]] \/ poisoned[To(l)] \/ crashes > 0

\* The message of a link as it comes along, what was sent, and what has come.
Status(l) ==
    Progress(sender[l] # "none", reader[l].stage = "done", receiver[l] \in ReceiverOpen,
             sent[l] = Size(DatabaseMessage(l)), sender[l] = "writing")
Sending(l) ==
    IF sender[l] = "none" THEN <<>> ELSE <<Whole(DatabaseMessage(l))>>
Received(l) ==
    IF reader[l].stage = "done" THEN <<Slice(DatabaseMessage(l), reader[l].data)>> ELSE <<>>

Connection ==
    INSTANCE Transfer WITH
        Channel  <- Link,
        status   <- [l \in Link |-> Status(l)],
        message  <- [l \in Link |-> Sending(l)],
        received <- [l \in Link |-> Received(l)]

\* A database that is sent in pieces, while its node makes the next blocks, is
\* received whole, once and as it was when the gossip started, or not at all.
ImplementsTransfer == Connection!Spec

=============================================================================
