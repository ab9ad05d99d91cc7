-------------------------- MODULE ClientConnection --------------------------
(***************************************************************************)
(* Light nodes and the full node they talk to: a broadcast of a            *)
(* transaction or a request for the database is one exchange on one        *)
(* connection (network/lightnode.py), between a FullNodeConnection         *)
(* (lightnode_connections.py) and a ClientConnection                       *)
(* (fullnode_connections.py) that exchange the messages of Framing in      *)
(* pieces of any size.                                                     *)
(*                                                                         *)
(* The main loop of the full node handles one event of one connection at   *)
(* a time, with process after process_events; every light node has a loop  *)
(* of its own.  All sockets are of one host (127.0.0.1): the bytes an end  *)
(* has sent can be read by the other, and when a process ends the other    *)
(* ends of its connections learn of it.                                    *)
(*                                                                         *)
(* Of the database only the number of blocks counts here, and of process   *)
(* only what it does to connections and to that number: FullNode has the   *)
(* rest.                                                                   *)
(***************************************************************************)
EXTENDS Framing, Sequences

CONSTANTS
    Broadcast,         \* runs of TransactionBroadcasting.broadcast
    Request,           \* runs of DatabaseRequest.request
    HeaderLength,      \* bytes of a JSON header
    TransactionLength, \* bytes of a pickled transaction
    DatabaseLength(_), \* bytes of a pickled database, by its number of blocks
    MaxBlocks,         \* bound on the number of blocks
    MaxCrashes         \* bound on the crashes of the full node

Exchange == Broadcast \cup Request

ASSUME ExchangeAssumption == Broadcast \cap Request = {}
ASSUME LengthAssumption ==
    /\ HeaderLength \in Nat \ {0}
    /\ TransactionLength \in Nat \ {0}
    /\ \A blocks \in 0..MaxBlocks : DatabaseLength(blocks) \in Nat \ {0}
ASSUME BoundAssumption == MaxBlocks \in Nat \ {0} /\ MaxCrashes \in Nat

VARIABLES
    database,  \* blocks in the database file, Unreadable after a torn write
    poisoned,  \* the stack of transactions makes an invalid block
    up,        \* the full node runs
    light,     \* state of the FullNodeConnection and its loop, by exchange
    server,    \* state of the ClientConnection and its socket
    asked,     \* parser and bytes of the light node's message, at the server
    queued,    \* the database that _queue_database read, when it has
    answered,  \* parser of the server's answer, at the light node
    sent,      \* bytes sent by the light node and by the server
    begun,     \* not in the code: the database when the exchange began
    crashes    \* how much of the bound is used

node == <<database, poisoned, up, crashes>>
vars == <<node, light, server, asked, queued, answered, sent, begun>>

Unreadable == 0

\* _create_client_message: the content of a request is b"0".
ClientMessage(c) ==
    IF c \in Request THEN Message("db_request", HeaderLength, 1, c)
    ELSE Message("transaction_content", HeaderLength, TransactionLength, c)

DatabaseMessage(blocks) ==
    Message("database_content", HeaderLength, DatabaseLength(blocks), blocks)

Answer(c) == DatabaseMessage(queued[c][1])

LightOpen == {"writing", "reading"}
ServerOpen == {"backlog", "reading", "writing"}

\* When the server has closed the connection and has not read all that it was
\* sent, the kernel resets the connection: the next send raises, and what the
\* light node has not read of the answer may be gone.
MayReset(c) == asked[c].got < sent[c].light

-----------------------------------------------------------------------------
(* The light node *)

\* _start_connection: the kernel of the full node's host completes the
\* connection, or nobody listens and the first send will raise.
StartConnection(c) ==
    /\ light[c] = "idle"
    /\ light' = [light EXCEPT ![c] = "writing"]
    /\ server' = [server EXCEPT ![c] = IF up THEN "backlog" ELSE "refused"]
    /\ begun' = [begun EXCEPT ![c] = database]
    /\ UNCHANGED <<node, asked, queued, answered, sent>>

\* Mutant: a request waits for its answer after the first piece.
LightWriteOnce(c, n) ==
    /\ light[c] = "writing" /\ server[c] # "refused"
    /\ sent[c].light + n <= Size(ClientMessage(c))
    /\ sent' = [sent EXCEPT ![c].light = @ + n]
    /\ light' = [light EXCEPT ![c] = IF c \in Request THEN "reading" ELSE "closed"]
    /\ UNCHANGED <<node, server, asked, queued, answered, begun>>

\* FullNodeConnection.write, when the socket takes n bytes.  (The first send
\* on a connection that the server has closed does not raise.)
LightWrite(c, n) ==
    LET all == sent[c].light + n = Size(ClientMessage(c))
    IN  /\ light[c] = "writing" /\ server[c] # "refused"
        /\ sent[c].light + n <= Size(ClientMessage(c))
        /\ sent' = [sent EXCEPT ![c].light = @ + n]
        /\ light' = [light EXCEPT ![c] =
                        IF ~all THEN "writing"
                        ELSE IF c \in Request THEN "reading" ELSE "closed"]
        /\ UNCHANGED <<node, server, asked, queued, answered, begun>>

\* FullNodeConnection.read, when the socket has a piece of n bytes.
LightRead(c, n) ==
    /\ light[c] = "reading" /\ queued[c] # <<>>
    /\ answered[c].got + n <= sent[c].server
    /\ LET reader == ReadMessage(answered[c], Answer(c), n)
       IN  /\ answered' = [answered EXCEPT ![c] = reader]
           /\ light' = [light EXCEPT ![c] =
                           IF reader.stage = "done" THEN "closed" ELSE "reading"]
    /\ UNCHANGED <<node, server, asked, queued, sent, begun>>

\* The send or the receive raises, or nothing is left to receive
\* (RuntimeError): the loop closes the connection.  A loop without a
\* connection ends, and sets _broadcasting_done or _database_received.
LightFails(c) ==
    /\ \/ light[c] \in LightOpen /\ server[c] = "refused"
       \/ light[c] \in LightOpen /\ server[c] = "closed" /\ MayReset(c)
       \/ /\ light[c] = "reading" /\ server[c] = "closed"
          /\ answered[c].got = sent[c].server
    /\ light' = [light EXCEPT ![c] = "closed"]
    /\ UNCHANGED <<node, server, asked, queued, answered, sent, begun>>

\* KeyboardInterrupt in the loop: it ends without the flag, and the socket
\* with the process.
Interrupt(c) ==
    /\ light[c] \in LightOpen
    /\ light' = [light EXCEPT ![c] = "interrupted"]
    /\ UNCHANGED <<node, server, asked, queued, answered, sent, begun>>

-----------------------------------------------------------------------------
(* The full node *)

\* accept_client_connection
Accept(c) ==
    /\ up /\ server[c] = "backlog"
    /\ server' = [server EXCEPT ![c] = "reading"]
    /\ UNCHANGED <<node, light, asked, queued, answered, sent, begun>>

\* process, for a connection that has or has not received a transaction: it
\* raises as soon as the stack makes an invalid block.
Process(received) ==
    /\ IF received
       THEN \/ /\ ~poisoned /\ database \notin {Unreadable, MaxBlocks}
               /\ database' = database + 1
               /\ UNCHANGED poisoned
            \/ /\ poisoned' = TRUE
               /\ UNCHANGED database
       ELSE UNCHANGED <<database, poisoned>>
    /\ UNCHANGED <<up, crashes>>

\* ClientConnection.read: the header is parsed, and by its content-type the
\* content is, or the selector is set to write.
ServerReader(reader, c, n) ==
    LET headed == ReadHeader(reader, ClientMessage(c), n)
    IN  IF c \in Request THEN headed ELSE ProcessContent(headed, ClientMessage(c))

\* A round on a connection in read mode.  It closes itself with the last byte
\* of a transaction; the main loop closes it when process raises.
ServerRead(c, n) ==
    LET reader == ServerReader(asked[c], c, n)
    IN  /\ up /\ server[c] = "reading"
        /\ asked[c].got + n <= sent[c].light
        /\ asked' = [asked EXCEPT ![c] = reader]
        /\ Process(reader.stage = "done")
        /\ server' = [server EXCEPT ![c] =
                         IF reader.stage = "done" \/ poisoned' THEN "closed"
                         ELSE IF reader.stage = "content" /\ c \in Request THEN "writing"
                         ELSE "reading"]
        /\ UNCHANGED <<light, queued, answered, sent, begun>>

\* Mutant: the database is read once, when the node starts.
QueueDatabaseCached(c) == IF queued[c] = <<>> THEN <<1>> ELSE queued[c]

\* _queue_database, at the first write.
QueueDatabase(c) == IF queued[c] = <<>> THEN <<database>> ELSE queued[c]

\* Mutant: the connection is closed after the first piece.
ServerWriteOnce(c, n) ==
    /\ up /\ server[c] = "writing"
    /\ queued[c] = <<>> => database # Unreadable
    /\ queued' = [queued EXCEPT ![c] = QueueDatabase(c)]
    /\ sent[c].server + n <= Size(DatabaseMessage(queued'[c][1]))
    /\ server' = [server EXCEPT ![c] = "closed"]
    /\ sent' = [sent EXCEPT ![c].server = @ + n]
    /\ Process(FALSE)
    /\ UNCHANGED <<light, asked, answered, begun>>

\* A round on a connection in write mode, when the socket takes n bytes.  It
\* closes itself with the last byte of the database.
ServerWrite(c, n) ==
    /\ up /\ server[c] = "writing"
    /\ queued[c] = <<>> => database # Unreadable
    /\ queued' = [queued EXCEPT ![c] = QueueDatabase(c)]
    /\ LET size == Size(DatabaseMessage(queued'[c][1]))
       IN  /\ sent[c].server + n <= size
           /\ server' = [server EXCEPT ![c] =
                            IF sent[c].server + n = size \/ poisoned THEN "closed"
                            ELSE "writing"]
    /\ sent' = [sent EXCEPT ![c].server = @ + n]
    /\ Process(FALSE)
    /\ UNCHANGED <<light, asked, answered, begun>>

\* Mutant: the exception is printed, and the connection stays.
ServerFailsOpen(c) == up /\ server[c] # "none" /\ UNCHANGED vars

\* process_events raises: the light node has gone, or the database cannot be
\* read.  The main loop closes the connection and does not call process.
ServerFails(c) ==
    /\ up
    /\ \/ /\ server[c] = "reading"
          /\ light[c] \notin LightOpen /\ asked[c].got = sent[c].light
       \/ server[c] = "writing" /\ light[c] \notin LightOpen
       \/ server[c] = "writing" /\ queued[c] = <<>> /\ database = Unreadable
    /\ server' = [server EXCEPT ![c] = "closed"]
    /\ UNCHANGED <<node, light, asked, queued, answered, sent, begun>>

\* A round on a neighbor's connection replaces the database by a longer one.
CopyDatabase ==
    /\ up /\ ~poisoned /\ database # Unreadable
    /\ \E longer \in (database + 1)..MaxBlocks : database' = longer
    /\ UNCHANGED <<poisoned, up, crashes, light, server, asked, queued, answered, sent, begun>>

\* The process ends, perhaps in the middle of writing the database.  What it
\* has not accepted yet is reset.
Crash ==
    /\ up /\ crashes < MaxCrashes
    /\ up' = FALSE
    /\ crashes' = crashes + 1
    /\ poisoned' = FALSE
    /\ database' \in {database, IF poisoned THEN database ELSE Unreadable}
    /\ server' = [c \in Exchange |->
                    IF server[c] = "backlog" THEN "refused"
                    ELSE IF server[c] \in ServerOpen THEN "closed" ELSE server[c]]
    /\ UNCHANGED <<light, asked, queued, answered, sent, begun>>

Restart ==
    /\ ~up
    /\ up' = TRUE
    /\ UNCHANGED <<database, poisoned, crashes, light, server, asked, queued, answered, sent, begun>>

-----------------------------------------------------------------------------

Init ==
    /\ database = 1
    /\ poisoned = FALSE
    /\ up = TRUE
    /\ light = [c \in Exchange |-> "idle"]
    /\ server = [c \in Exchange |-> "none"]
    /\ asked = [c \in Exchange |-> NewReader]
    /\ queued = [c \in Exchange |-> <<>>]
    /\ answered = [c \in Exchange |-> NewReader]
    /\ sent = [c \in Exchange |-> [light |-> 0, server |-> 0]]
    /\ begun = [c \in Exchange |-> 0]
    /\ crashes = 0

\* How large a piece can be: the answer is the largest message.
Piece(c) ==
    1..(Size(ClientMessage(c)) + IF queued[c] = <<>> THEN Size(DatabaseMessage(database))
                                 ELSE Size(Answer(c)))

LightStep(c) ==
    \/ \E n \in Piece(c) : LightWrite(c, n) \/ LightRead(c, n)
    \/ LightFails(c)

ServerStep(c) ==
    \/ Accept(c)
    \/ \E n \in Piece(c) : ServerRead(c, n) \/ ServerWrite(c, n)
    \/ ServerFails(c)

Next ==
    \/ \E c \in Exchange :
          StartConnection(c) \/ LightStep(c) \/ Interrupt(c) \/ ServerStep(c)
    \/ CopyDatabase
    \/ Crash
    \/ Restart

Spec == Init /\ [][Next]_vars

\* Both loops handle every socket that is ready, and a socket stays ready until
\* it is handled.  Nobody has to start an exchange or a process.
Fairness == \A c \in Exchange : WF_vars(LightStep(c)) /\ WF_vars(ServerStep(c))

FairSpec == Spec /\ Fairness

-----------------------------------------------------------------------------
(* Properties *)

\* Every variable has its shape; no parser takes bytes it does not have, and no
\* end gets bytes that were not sent or sends more than its message.
TypeOK ==
    /\ database \in 0..MaxBlocks
    /\ poisoned \in BOOLEAN /\ up \in BOOLEAN
    /\ light \in [Exchange -> {"idle", "closed", "interrupted"} \cup LightOpen]
    /\ server \in [Exchange -> {"none", "refused", "closed"} \cup ServerOpen]
    /\ asked = [c \in Exchange |-> asked[c]]
    /\ answered = [c \in Exchange |-> answered[c]]
    /\ \A c \in Exchange : IsReader(asked[c]) /\ IsReader(answered[c])
    /\ queued \in [Exchange -> {<<>>} \cup {<<blocks>> : blocks \in 1..MaxBlocks}]
    /\ sent \in [Exchange -> [light : Nat, server : Nat]]
    /\ \A c \in Exchange :
          /\ asked[c].got <= sent[c].light /\ sent[c].light <= Size(ClientMessage(c))
          /\ answered[c].got <= sent[c].server
          /\ IF queued[c] = <<>> THEN sent[c].server = 0
             ELSE sent[c].server <= Size(Answer(c))
    /\ begun \in [Exchange -> 0..MaxBlocks]
    /\ crashes \in 0..MaxCrashes

\* However the stream is cut into pieces, a parser is where it would be had all
\* it has got come in one piece.
CutIndependent ==
    \A c \in Exchange :
        /\ asked[c] = ServerReader(NewReader, c, asked[c].got)
        /\ IF queued[c] = <<>> THEN answered[c] = NewReader
           ELSE answered[c] = ReadMessage(NewReader, Answer(c), answered[c].got)

\* A request that ends without the database has met a crash of the node or an
\* invalid block on it, or was answered before the server had read all of it.
UnansweredHasCause ==
    \A c \in Request :
        light[c] = "closed" /\ answered[c].stage # "done" =>
            poisoned \/ crashes > 0 \/ MayReset(c)

\* The database a light node receives is one that the node had while the
\* request was under way: not older than its beginning, and whole, whatever
\* the node did to its file while it sent the answer.
FreshAnswer ==
    \A c \in Request :
        answered[c].stage = "done" =>
            /\ begun[c] <= queued[c][1]
            /\ database = Unreadable \/ queued[c][1] <= database

\* No loop of a light node runs forever: whatever happens to the full node, an
\* exchange that has begun ends.
ExchangeEnds ==
    \A c \in Exchange : light[c] \in LightOpen ~> light[c] \notin LightOpen

\* The server closes every connection in the end, also those whose light node
\* went away in the middle of a message.
ServerCloses ==
    \A c \in Exchange : server[c] \in ServerOpen ~> server[c] \notin ServerOpen

\* A transaction whose broadcast ended is received, unless the node crashed or
\* its process raises.
BroadcastArrives ==
    \A c \in Broadcast :
        light[c] = "closed" ~> asked[c].stage = "done" \/ poisoned \/ crashes > 0

\* A broadcast carries the transaction, a request brings the database: the
\* message of an exchange as it comes along, what was sent, and what has come.
Status(c) ==
    IF c \in Broadcast
    THEN Progress(light[c] # "idle", asked[c].stage = "done", server[c] \in ServerOpen,
                  sent[c].light = Size(ClientMessage(c)), light[c] = "writing")
    ELSE Progress(queued[c] # <<>>, answered[c].stage = "done", light[c] \in LightOpen,
                  sent[c].server = Size(Answer(c)), server[c] = "writing")
Sending(c) ==
    IF c \in Broadcast
    THEN IF light[c] = "idle" THEN <<>> ELSE <<Whole(ClientMessage(c))>>
    ELSE IF queued[c] = <<>> THEN <<>> ELSE <<Whole(Answer(c))>>
Received(c) ==
    IF c \in Broadcast
    THEN IF asked[c].stage = "done" THEN <<Slice(ClientMessage(c), asked[c].data)>> ELSE <<>>
    ELSE IF answered[c].stage = "done" THEN <<Slice(Answer(c), answered[c].data)>> ELSE <<>>

Connection ==
    INSTANCE Transfer WITH
        Channel  <- Exchange,
        status   <- [c \in Exchange |-> Status(c)],
        message  <- [c \in Exchange |-> Sending(c)],
        received <- [c \in Exchange |-> Received(c)]

\* In whatever pieces a transaction or a database travels, it is received whole,
\* once and as it was when its sending began, or not at all.
ImplementsTransfer == Connection!Spec

=============================================================================
