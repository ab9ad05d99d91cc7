------------------------------ MODULE FullNode ------------------------------
(***************************************************************************)
(* Full nodes that mine what light nodes broadcast to them and gossip      *)
(* their database to the one neighbor each of them is configured with.     *)
(*                                                                         *)
(* A node is the single-threaded loop of network/fullnode.py: a select     *)
(* returns ready connections, and for each the loop runs process_events    *)
(* and then fullnode_processing.process, inside a try that closes the      *)
(* connection when either raises.  One such round on one connection is one *)
(* action.  Nodes interleave, and so do the connections of a node.         *)
(*                                                                         *)
(* What survives a restart is the database file.  The two stacks are       *)
(* globals of fullnode_processing and the connections are the selectors'.  *)
(* A connection is represented by what it carries: a client connection by  *)
(* the transaction broadcast on it, a gossip connection by the pickled     *)
(* database taken when it was started.                                     *)
(***************************************************************************)
EXTENDS Ledger

CONSTANTS
    Node,
    Neighbor,        \* Neighbor[n]: neighbor_address and neighbor_port of n
    GenesisAddress,  \* what the first block of every database file pays to
    Tx,              \* the transactions light nodes may broadcast
    MaxBroadcasts,   \* bound on the broadcasts of a behaviour
    MaxFaults        \* bound on the crashes of a behaviour

ASSUME NeighborAssumption == Neighbor \in [Node -> Node]
ASSUME BoundsAssumption == MaxBroadcasts \in Nat /\ MaxFaults \in Nat

VARIABLES
    database,                      \* the database file, a chain
    received_transactions_stack,
    received_databases_stack,
    clients,     \* transactions on open client connections
    outgoing,    \* databases on connections start_gossip opened
    incoming,    \* databases on connections accept_gossip opens, by sender
    up,          \* the process runs
    broadcasts, faults             \* how much of the bounds is used

Genesis == GenesisBlock(GenesisAddress)

stacks == <<received_transactions_stack, received_databases_stack>>
vars == <<database, stacks, clients, outgoing, incoming, up, broadcasts, faults>>

\* A file whose writing was cut short: reading it raises.
Unreadable == <<>>

-----------------------------------------------------------------------------
(* fullnode_processing.process *)

\* Mutant: blocks are made without a call of validate_block.
BlockFailsUnreadable(chain, stack) == stack # <<>> /\ chain = Unreadable

\* Block creation from the stack raises: validate_block or a read of the
\* database does.  (An unreadable database fails the first lookup or, when
\* no transaction has inputs, get_last_block in mine_block.)
BlockFails(chain, stack) ==
    /\ stack # <<>>
    /\ chain = Unreadable \/ ~ValidateBlock(chain, Block(stack))

\* The databases that block creation can leave behind.
Extensions(chain, stack) ==
    IF chain = Unreadable THEN {}
    ELSE {AddBlockToDb(chain, mined) : mined \in MineBlock(chain, Block(stack))}

\* Mutants: >= for >, < for >, and no comparison.
LatestOf(chain, other)   == IF Len(other) >= Len(chain) THEN other ELSE chain
ShortestOf(chain, other) == IF Len(other) < Len(chain) THEN other ELSE chain
ReceivedOf(chain, other) == other

LongestOf(chain, other) == IF Len(other) > Len(chain) THEN other ELSE chain

\* Mutant: the stack is emptied only when its database is adopted.
ConsensusKeeps(n, chain, stack) ==
    LET adopts == Len(stack) = 1 /\ chain # Unreadable /\ Len(stack[1]) > Len(chain)
    IN  /\ database' = [database EXCEPT ![n] = IF adopts THEN stack[1] ELSE chain]
        /\ received_databases_stack' =
             [received_databases_stack EXCEPT ![n] = IF adopts THEN <<>> ELSE stack]

\* The consensus step, on the database and the stack of received databases
\* as the earlier steps of process leave them.  Only a stack of exactly one
\* is looked at and emptied; when the read of the own database raises, the
\* stack keeps its element.
Consensus(n, chain, stack) ==
    IF Len(stack) = 1 /\ chain # Unreadable
    THEN /\ database' = [database EXCEPT ![n] = LongestOf(chain, stack[1])]
         /\ received_databases_stack' = [received_databases_stack EXCEPT ![n] = <<>>]
    ELSE /\ database' = [database EXCEPT ![n] = chain]
         /\ received_databases_stack' = [received_databases_stack EXCEPT ![n] = stack]

\* process(connection), where tx and chain are sequences of at most one
\* element, what the connection has received, and connections are the gossip
\* connections of n left open.  A transaction is stacked before anything can
\* raise; a received database only after block creation did not.
Process(n, tx, chain, connections) ==
    LET stack == received_transactions_stack[n] \o tx
        databases == received_databases_stack[n] \o chain
    IN  \/ /\ BlockFails(database[n], stack)
           /\ received_transactions_stack' =
                [received_transactions_stack EXCEPT ![n] = stack]
           /\ outgoing' = [outgoing EXCEPT ![n] = connections]
           /\ UNCHANGED <<database, received_databases_stack>>
        \/ /\ stack = <<>>
           /\ outgoing' = [outgoing EXCEPT ![n] = connections]
           /\ Consensus(n, database[n], databases)
           /\ UNCHANGED received_transactions_stack
        \/ /\ stack # <<>> /\ ~BlockFails(database[n], stack)
           /\ \E extended \in Extensions(database[n], stack) :
                 /\ outgoing' = [outgoing EXCEPT ![n] = connections \cup {extended}]
                 /\ Consensus(n, extended, databases)
           /\ received_transactions_stack' =
                [received_transactions_stack EXCEPT ![n] = <<>>]

\* Every call of process raises, whatever connection it is called for.
Poisoned(n) == BlockFails(database[n], received_transactions_stack[n])

Stuck(n) ==
    \/ Poisoned(n)
    \/ Len(received_databases_stack[n]) = 1 /\ database[n] = Unreadable

-----------------------------------------------------------------------------
(* The environment of a node *)

\* TransactionBroadcasting: a light node connects and sends a transaction.
\* Nothing acknowledges it, and it may be sent again.
Broadcast(n, tx) ==
    /\ up[n]
    /\ broadcasts < MaxBroadcasts
    /\ tx \notin clients[n]
    /\ clients' = [clients EXCEPT ![n] = @ \cup {tx}]
    /\ broadcasts' = broadcasts + 1
    /\ UNCHANGED <<database, stacks, outgoing, incoming, up, faults>>

-----------------------------------------------------------------------------
(* Rounds of the main loop *)

\* Mutant: the signature is lost on the way.
ClientRoundUnsigned(n, tx) ==
    /\ up[n]
    /\ tx \in clients[n]
    /\ clients' = [clients EXCEPT ![n] = @ \ {tx}]
    /\ Process(n, <<[tx EXCEPT !.signature = Unsigned]>>, <<>>, outgoing[n])
    /\ UNCHANGED <<incoming, up, broadcasts, faults>>

\* The last bytes of a transaction arrive.  The connection closes itself.
ClientRound(n, tx) ==
    /\ up[n]
    /\ tx \in clients[n]
    /\ clients' = [clients EXCEPT ![n] = @ \ {tx}]
    /\ Process(n, <<tx>>, <<>>, outgoing[n])
    /\ UNCHANGED <<incoming, up, broadcasts, faults>>

\* The last bytes of a database are handed to the neighbor's socket, and
\* process closes the connection (or the main loop does, when it raises).
\* The stack that process empties here is empty unless it raised before.
GossipSentRound(n, chain) ==
    /\ up[n] /\ up[Neighbor[n]]
    /\ chain \in outgoing[n]
    /\ incoming' = [incoming EXCEPT ![Neighbor[n]] =
                        @ \cup {[from |-> n, chain |-> chain]}]
    /\ Process(n, <<>>, <<>>, outgoing[n] \ {chain})
    /\ UNCHANGED <<clients, up, broadcasts, faults>>

\* The send raises, for nobody listened when it was connected, or a stuck
\* neighbor closed its end: the main loop closes the connection too, and does
\* not call process.
GossipLostRound(n, chain) ==
    /\ up[n]
    /\ ~up[Neighbor[n]] \/ Stuck(Neighbor[n])
    /\ chain \in outgoing[n]
    /\ outgoing' = [outgoing EXCEPT ![n] = @ \ {chain}]
    /\ UNCHANGED <<database, stacks, clients, incoming, up, broadcasts, faults>>

\* Mutant: the consensus step comes before the creation of a block.
GossipReceivedRoundFirst(n, gossip) ==
    /\ up[n]
    /\ gossip \in incoming[n]
    /\ incoming' = [incoming EXCEPT ![n] = @ \ {gossip}]
    /\ Consensus(n, database[n], received_databases_stack[n] \o <<gossip.chain>>)
    /\ UNCHANGED <<received_transactions_stack, clients, outgoing, up, broadcasts, faults>>

\* Mutant: the connection is closed, and process finds no database on it.
GossipReceivedRoundLost(n, gossip) ==
    /\ up[n]
    /\ gossip \in incoming[n]
    /\ incoming' = [incoming EXCEPT ![n] = @ \ {gossip}]
    /\ UNCHANGED <<database, stacks, clients, outgoing, up, broadcasts, faults>>

\* The last bytes of a database arrive.  The connection closes itself.
GossipReceivedRound(n, gossip) ==
    /\ up[n]
    /\ gossip \in incoming[n]
    /\ incoming' = [incoming EXCEPT ![n] = @ \ {gossip}]
    /\ Process(n, <<>>, <<gossip.chain>>, outgoing[n])
    /\ UNCHANGED <<clients, up, broadcasts, faults>>

\* A part of a message is read or written, and process is called with nothing
\* new.  When it raises, the main loop closes the connection and what it
\* carries is lost.  (When it does not raise nothing changes: HandlerDrains.)
PartialRound(n) ==
    /\ up[n]
    /\ Stuck(n)
    /\ \/ \E tx \in clients[n] :
             /\ clients' = [clients EXCEPT ![n] = @ \ {tx}]
             /\ UNCHANGED <<outgoing, incoming>>
       \/ \E chain \in outgoing[n] :
             /\ outgoing' = [outgoing EXCEPT ![n] = @ \ {chain}]
             /\ UNCHANGED <<clients, incoming>>
       \/ \E gossip \in incoming[n] :
             /\ incoming' = [incoming EXCEPT ![n] = @ \ {gossip}]
             /\ UNCHANGED <<clients, outgoing>>
    /\ UNCHANGED <<database, stacks, up, broadcasts, faults>>

-----------------------------------------------------------------------------
(* Stopping and starting *)

\* What ends with the process: its globals, and its end of the connections.
\* A database that a neighbor has not sent yet is lost with the connection
\* (the neighbor's next send on it raises); one that n has sent is not.
Stop(n) ==
    /\ up[n]
    /\ faults < MaxFaults
    /\ faults' = faults + 1
    /\ up' = [up EXCEPT ![n] = FALSE]
    /\ received_transactions_stack' = [received_transactions_stack EXCEPT ![n] = <<>>]
    /\ received_databases_stack' = [received_databases_stack EXCEPT ![n] = <<>>]
    /\ clients' = [clients EXCEPT ![n] = {}]
    /\ outgoing' = [m \in Node |-> IF n \in {m, Neighbor[m]} THEN {} ELSE outgoing[m]]
    /\ incoming' = [incoming EXCEPT ![n] = {}]
    /\ UNCHANGED broadcasts

\* A crash, or the keyboard interrupt, between two rounds.
Crash(n) == Stop(n) /\ UNCHANGED database

\* A round that would write the database has opened (and so truncated) the
\* file, and has not written all of it.
CrashInWrite(n) ==
    /\ Stop(n)
    /\ database[n] # Unreadable
    /\ ~Stuck(n)
    /\ \/ \E tx \in clients[n] :
             LET stack == received_transactions_stack[n] \o <<tx>>
             IN  ~BlockFails(database[n], stack) /\ Extensions(database[n], stack) # {}
       \/ \E gossip \in incoming[n] : Len(gossip.chain) > Len(database[n])
    /\ database' = [database EXCEPT ![n] = Unreadable]

\* The globals start empty and the database path is set, nothing is read.
\* (A connection opened to n while it was down and refused, which its owner
\* finds out only later, is one that GossipLostRound took before the restart:
\* the round that closes it does nothing else.)
Restart(n) ==
    /\ ~up[n]
    /\ up' = [up EXCEPT ![n] = TRUE]
    /\ UNCHANGED <<database, stacks, clients, outgoing, incoming, broadcasts, faults>>

-----------------------------------------------------------------------------

Init ==
    /\ database = [n \in Node |-> <<Genesis>>]
    /\ received_transactions_stack = [n \in Node |-> <<>>]
    /\ received_databases_stack = [n \in Node |-> <<>>]
    /\ clients = [n \in Node |-> {}]
    /\ outgoing = [n \in Node |-> {}]
    /\ incoming = [n \in Node |-> {}]
    /\ up = [n \in Node |-> TRUE]
    /\ broadcasts = 0
    /\ faults = 0

ClientStep(n) == \E tx \in clients[n] : ClientRound(n, tx)
GossipSentStep(n) == \E chain \in outgoing[n] : GossipSentRound(n, chain)
GossipLostStep(n) == \E chain \in outgoing[n] : GossipLostRound(n, chain)
GossipReceivedStep(n) == \E gossip \in incoming[n] : GossipReceivedRound(n, gossip)

Next ==
    \E n \in Node :
        \/ \E tx \in Tx : Broadcast(n, tx)
        \/ ClientStep(n)
        \/ GossipSentStep(n)
        \/ GossipLostStep(n)
        \/ GossipReceivedStep(n)
        \/ PartialRound(n)
        \/ Crash(n)
        \/ CrashInWrite(n)
        \/ Restart(n)

Spec == Init /\ [][Next]_vars

\* Sockets are watched level-triggered: a connection that is ready stays so
\* and every turn of the loop handles all that are.  Light nodes need not
\* broadcast, processes need not crash, and nobody has to restart them.
Fairness ==
    \A n \in Node :
        /\ WF_vars(ClientStep(n))
        /\ WF_vars(GossipSentStep(n))
        /\ WF_vars(GossipReceivedStep(n))

FairSpec == Spec /\ Fairness

-----------------------------------------------------------------------------
(* Properties *)

\* Databases on their way from n to its neighbor.
InTransit(n) ==
    outgoing[n] \cup
    {gossip.chain : gossip \in {g \in incoming[Neighbor[n]] : g.from = n}}

\* All databases on their way.
Transit ==
    UNION {outgoing[n] \cup {gossip.chain : gossip \in incoming[n]} : n \in Node}

\* Every chain that a node has, sends or is being sent.
Chains ==
    Transit \cup ({database[n] : n \in Node} \ {Unreadable})
            \cup UNION {Range(received_databases_stack[n]) : n \in Node}

\* Every variable has the shape the code gives it: stacks of transactions,
\* lists of blocks, flags, and counts within the bounds.
TypeOK ==
    /\ database = [n \in Node |-> database[n]]
    /\ received_transactions_stack \in [Node -> Seq(Tx)]
    /\ received_databases_stack = [n \in Node |-> received_databases_stack[n]]
    /\ \A n \in Node : IsChain(received_databases_stack[n])
    /\ clients \in [Node -> SUBSET Tx]
    /\ outgoing = [n \in Node |-> outgoing[n]]
    /\ incoming = [n \in Node |-> incoming[n]]
    /\ \A n \in Node : \A gossip \in incoming[n] :
          gossip = [from |-> gossip.from, chain |-> gossip.chain] /\ gossip.from \in Node
    /\ up \in [Node -> BOOLEAN]
    /\ broadcasts \in 0..MaxBroadcasts
    /\ faults \in 0..MaxFaults
    /\ \A chain \in Chains : IsChain(chain)

\* A chain whose blocks are numbered in order, carry the hash of their
\* predecessor and of their content, and (but for the first) meet the target.
Linked(chain) ==
    /\ chain # <<>> /\ chain[1] = Genesis
    /\ \A i \in DOMAIN chain :
          /\ chain[i].metadata.id = i - 1
          /\ chain[i].metadata.block_content_hash = Sha256(chain[i].block_content)
    /\ \A i \in DOMAIN chain \ {1} :
          /\ chain[i].metadata.prev_block_hash = BlockHash(chain[i - 1])
          /\ MeetsTarget(BlockHash(chain[i]))

\* Mining works on a copy of the header and add_block_to_db sets the header
\* again, from another read of the database; a received database replaces the
\* own one with no look at its headers.  The proof of work and the links of
\* every chain in the system are intact all the same.
ChainsLinked == \A chain \in Chains : Linked(chain)

\* A chain each of whose blocks was valid when it was added: validate_block
\* accepts its content on top of the blocks before it.
Replays(chain) ==
    \A i \in DOMAIN chain \ {1} :
        ValidateBlock(SubSeq(chain, 1, i - 1), Block(chain[i].block_content))

\* A node validates only the blocks it makes.  It copies the database of a
\* neighbor on its length alone, and still never has a chain that it could not
\* have made itself.
ChainsReplay == \A chain \in Chains : Replays(chain)

\* No output is spent twice in a chain, neither by two transactions of a block
\* nor by transactions of different blocks, wherever these were mined and
\* however often a light node broadcast them.
SpentOnce(chain) ==
    \A i, j \in DOMAIN chain :
        \A k \in DOMAIN chain[i].block_content, l \in DOMAIN chain[j].block_content :
            <<i, k>> # <<j, l>> =>
                Inputs(chain[i].block_content[k]) \cap Inputs(chain[j].block_content[l]) = {}

NoDoubleSpend == \A chain \in Chains : SpentOnce(chain)

\* The inputs for the outputs of a chain that nothing in it spends.
Unspent(chain) ==
    (UNION {{<<tx.txhash, position - 1>> : position \in DOMAIN tx.dict_of_outputs} :
              tx \in TransactionsIn(chain)})
    \ (UNION {Inputs(tx) : tx \in TransactionsIn(chain)})

PlainPool == \A tx \in Tx : IsPlain(tx)

\* When the pool is plain, the outputs of a chain that can still be spent add up
\* to what the genesis block paid.
MoneyConserved ==
    \A chain \in Chains :
        SumFunction([input \in Unspent(chain) |-> GetAmountFromInput(chain, input)]) = 100

\* What a round leaves on a stack is what the handler could not get past: a
\* transaction stays only when the block made of the stack is invalid, a
\* received database only when the own one cannot be read.  (So a round on a
\* connection that brings nothing new does nothing, unless it raises.)
HandlerDrains ==
    \A n \in Node :
        /\ received_transactions_stack[n] # <<>> =>
              BlockFails(database[n], received_transactions_stack[n])
        /\ received_databases_stack[n] # <<>> => database[n] = Unreadable

\* A block takes the whole stack, and the stack never holds two transactions
\* that are good together: every block in the system has exactly one.  This is
\* what the code does and not what it says: "A block contains 10 transactions"
\* stands next to len(received_transactions_stack) >= 1.
OneTransactionPerBlock ==
    \A chain \in Chains : \A i \in DOMAIN chain : Len(chain[i].block_content) = 1

\* A database is replaced by a longer one only, or destroyed by a crash that
\* cuts a write short: a node never goes back, and of two chains of equal
\* length it keeps the one it has.
ChainsOnlyGrow ==
    [][\A n \in Node :
         database'[n] # database[n] =>
            \/ Len(database'[n]) > Len(database[n]) /\ database[n] # Unreadable
            \/ database'[n] = Unreadable /\ ~up'[n]]_vars

\* Once a transaction that makes an invalid block is on the stack, the node
\* neither mines nor adopts a chain for as long as its process runs: whatever
\* is stacked on top of it, the block stays invalid, and the exception comes
\* before the consensus step.
PoisonFreezes ==
    [][\A n \in Node :
         Poisoned(n) /\ up'[n] => Poisoned(n)' /\ database'[n] = database[n]]_vars

\* Nobody gossips to n but its neighbor.  (A database that a third node
\* brought would be adopted by n and not be sent on.)
OnlyNeighborGossips(n) == \A m \in Node : Neighbor[m] = n <=> m = Neighbor[n]

\* Until something crashes: a node that has a longer chain than the neighbor
\* it gossips to has it on its way there, if it can have it from nobody but
\* that neighbor or itself and neither is stuck.  Nothing is ever sent again,
\* so this is what a lost or stale gossip message would break for good.
GossipOwed ==
    faults = 0 =>
        \A n \in Node :
            OnlyNeighborGossips(n) =>
                \/ Stuck(n) \/ Stuck(Neighbor[n])
                \/ Len(database[n]) <= Len(database[Neighbor[n]])
                \/ \E chain \in InTransit(n) : Len(chain) = Len(database[n])

\* A database in transit is never longer than the one its sender has now, as
\* the sender's only grew since (or was destroyed).
TransitBounded ==
    \A n \in Node :
        database[n] # Unreadable =>
            \A chain \in InTransit(n) : Len(chain) <= Len(database[n])

\* Where nothing crashes and nobody gossips to a node but its neighbor, that
\* neighbor's chain reaches the height of the node's, or one of the two is
\* stuck.
ChainSpreads ==
    \A n \in {m \in Node : OnlyNeighborGossips(m)} : \A height \in 1..(MaxBroadcasts + 1) :
        Len(database[n]) = height ~>
            \/ Stuck(n) \/ Stuck(Neighbor[n])
            \/ Len(database[Neighbor[n]]) >= height

\* longer is chain and one block, which is linked to it and valid after it.
Extends(chain, longer) ==
    /\ Len(longer) = Len(chain) + 1
    /\ SubSeq(longer, 1, Len(chain)) = chain
    /\ Linked(longer) /\ Replays(longer)

\* The nodes implement LongestChain: whatever a round does to stacks and
\* connections, and wherever it raises, all it does to a database is to extend
\* it by a valid block, to replace it by a longer one that was sent to the
\* node, or (a crash) to destroy it.
Network ==
    INSTANCE LongestChain WITH
        Holder  <- Node,
        First   <- <<Genesis>>,
        Lost    <- Unreadable,
        chain   <- database,
        transit <- Transit

ImplementsLongestChain == Network!Spec

\* "Invalid new block, discarding transactions" (process, the branch that
\* empties the stack): no transaction waits on a stack between two rounds.
InvalidDiscarded == \A n \in Node : received_transactions_stack[n] = <<>>

\* "In any case we empty the stack" (process, after the consensus step).
DatabasesDiscarded == \A n \in Node : received_databases_stack[n] = <<>>

=============================================================================
