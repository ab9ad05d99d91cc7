# Chockblain in TLA+

Chockblain is a small proof-of-work blockchain over TCP: *full nodes* keep the
chain in a file, mine the transactions that *light nodes* broadcast to them, and
gossip the whole chain to one configured neighbor. This directory models it in
TLA+, checks the model with TLC and proves its central properties with TLAPS.

## The system

| Part | Code | State | Operations | Talks to |
|---|---|---|---|---|
| Main loop of a full node | `network/fullnode.py` | two selectors, the listening sockets | one *round* per ready connection: `process_events`, then `process`, inside a `try` that closes the connection | everything below |
| Processing and consensus | `network/fullnode_processing.py` | `received_transactions_stack`, `received_databases_stack` (globals) | `process`: stack a transaction, make a block, start gossip, stack a database, adopt the longer chain | API, validation, database, socket manager |
| Socket manager | `network/fullnode_socket_manager.py` | - | accept a client, accept gossip, start gossip | selectors, connections |
| Server side connections | `network/fullnode_connections.py` | receive and send buffer, parsed header, content, closed flag | read, write, close; parse length, header, content | sockets, database (to answer a request) |
| Chain API | `tools/fullnode_api.py` | - (reads and writes the file) | queries, `mine_block`, `add_block_to_db` | database, validation |
| Validation | `tools/validation.py` | - | `validate_block` and its checks 1 to 6 | chain API, crypto |
| Database | `tools/database.py` | the file, the path global | read, write, set path | - |
| Blocks and transactions | `tools/classes.py` | immutable but for the header and the signature | construct, sign | crypto |
| Crypto | `tools/crypto.py` | - | keys, addresses, signatures | - |
| Light node requests | `network/lightnode.py`, `lightnode_connections.py` | one connection, done flags | broadcast a transaction, request the database | full node |
| Wallet | `tools/lightnode_api.py` | `stack_of_used_inputs`, `last_block_height` | balance, valid inputs, create a transaction | its own database file |

What is hard here:

* **One thread, shared globals, many connections.** A full node has no data
  races, yet every round of every connection runs the whole of `process` on the
  same two stacks. What one round leaves half done, all later rounds meet.
* **Exceptions as control flow.** `validate_block` never returns `False`, it
  raises, after the transaction has been stacked. `get_database` raises when the
  file is torn, after the received database has been stacked.
* **Gossip without acknowledgement.** The message is a snapshot of the database
  at the time of the block, is sent once in a later round, and an adopted chain
  is not sent on.
* **Trust in length.** A received database is compared by length only.
* **Crashes.** The database file is truncated and then written; the stacks and
  the connections are lost.
* **Streams.** A message arrives in pieces of any size and is parsed as far as
  it goes; either end may close, fail or crash between two pieces, while the
  database that is being sent changes on disk.
* **Several reads for one call.** Making a block and making a transaction read
  the database file several times each, and a wallet may read the file of a full
  node that is writing it.
* **A wallet guesses.** It marks inputs as pending in a list of its process and
  forgets them by comparing heights of chains.

What makes the parts correct: every chain anywhere is linked, mined, valid block
by block, conserves the money and spends nothing twice; a database only ever gets
longer; a round leaves nothing on the stacks that it could get past; a longer
chain is always on its way to the neighbor and arrives; what travels in pieces is
received whole, once and unchanged, or not at all, and every connection is closed
in the end; the file holds one chain, whatever the calls that share it; a wallet's
balance and inputs are what is unspent, and it hands out no input twice between
two blocks. `PROJECT.json` lists the hazards, each with its line and the
properties aimed at it.

## Modules

| Module | What it is |
|---|---|
| `Crypto` | `crypto.py`, symbolically: digests, keys and signatures are terms |
| `Ledger` | transactions, blocks, chains, validation, making of a block: functions of their arguments (`classes.py`, `fullnode_api.py`, `validation.py`) |
| `FullNode` | the network of full nodes: the state machine (`fullnode.py`, `fullnode_processing.py`, socket manager, broadcasts, crashes) and its properties |
| `LongestChain` | abstract: what the full nodes promise together |
| `Framing` | messages as numbers of bytes, and the parser that all three kinds of connection share |
| `ClientConnection` | light nodes and one full node: broadcasts and database requests in pieces (`lightnode.py`, `lightnode_connections.py`, `fullnode_connections.py`, the client side of the socket manager) |
| `NeighborConnection` | gossip in pieces (`fullnode_connections.py`, the gossip side of the socket manager) |
| `Transfer` | abstract: what a connection promises |
| `Wallet` | `lightnode_api.py`, with a database that changes under it |
| `ChainFile` | `database.py` and the calls of `fullnode_api.py`, one read or write a step |
| `Store` | abstract: what a database file promises to its callers |
| `MC...` | the instances TLC checks |
| `...Proofs` | theorems about the module of that name, and their proofs |
| `SumProofs` | what a sum over a finite set is, whatever order it is added up in |

`Ledger` extends `Crypto`; `FullNode`, `Wallet` and `ChainFile` extend `Ledger`;
`ClientConnection` and `NeighborConnection` extend `Framing`. How they fit:

* `FullNode` is the composition. It takes three things to be simple, and the other
  modules say why it may: a message is sent in one round and received in another
  (`Transfer`, implemented by `ClientConnection` and `NeighborConnection`); a call on
  the database file is one step, but for a crash that tears the file (`Store`,
  implemented by `ChainFile`); and its pool of transactions holds what a
  wallet can make (`Wallet`), and more.
* `Wallet` takes the full nodes to do what `LongestChain` says (it implements it, too),
  with one transaction to a block, which `FullNodeProofs` proves of them
  (`OneTransactionPerBlock`), and by the rules of `Ledger`. A node copies what another
  one has at that time; a chain that is on its way for longer is that of one more
  node to which no wallet talks, and the theorems hold for any number of nodes. A
  node there does not tear its file.
* That money is conserved in `FullNode` is proved of pools in which no transaction
  has a negative position. Those that `Wallet` makes have none, as `OutputsTo` counts the
  outputs of a transaction from 0. Negative amounts are another matter: nothing in
  the program checks an amount, so `Wallet` has them, and the theorems hold with them.

### `FullNode`

| Variable | Code |
|---|---|
| `database[n]` | the content of the database file, a sequence of blocks; `Unreadable` (the empty sequence) after a write that was cut short |
| `received_transactions_stack[n]`, `received_databases_stack[n]` | the globals of that name |
| `clients[n]` | open client connections, by the transaction each brings |
| `outgoing[n]` | connections opened by `start_gossip`, by the database each is to send |
| `incoming[n]` | connections of neighbors on which a whole database is under way to `n`, with the sender |
| `up[n]` | the process runs |
| `broadcasts`, `faults` | not in the code: how much of the bounds is used |

A set of connections has one element for equal messages; two equal gossip
messages of one sender differ in nothing a receiver could observe, as the second
one is not longer than the chain the first one left.

| Action | Code |
|---|---|
| `Broadcast` | `TransactionBroadcasting`: connects, sends, has no answer; may be done again |
| `ClientRound` | the round in which a transaction is complete |
| `GossipSentRound` | the round in which the last bytes of a database are sent (`database_sent`) |
| `GossipReceivedRound` | the round in which a received database is complete |
| `GossipLostRound` | the send raises, since nobody listens there or a stuck neighbor closed its end |
| `PartialRound` | a round of an incomplete message on a stuck node: `process` raises, the connection is closed, its message lost |
| `Crash`, `CrashInWrite` | the process ends between two rounds, or with the file truncated and not rewritten |
| `Restart` | the process starts: empty stacks, no connections, the same file |

Every round is `Process`, the whole of `fullnode_processing.process` with its
three outcomes: block creation raises (`BlockFails`), there is nothing to make
a block of, or a block is made, written and gossiped; and then `Consensus`
unless it raised. A round in which an incomplete message makes progress and
`process` does not raise changes nothing that is modelled; `HandlerDrains` is
the reason, so it has no action. A database request reads only and has none
either.

Decisions about `Ledger` and `FullNode` that a reader may question:

* `validate_block` skips all checks for `metadata["id"] == 1`. `ValidateBlock`
  has this disjunct, and it is never taken: a block has id -1 when it is
  validated. This is what the code does.
* `_is_owned` is modelled, and is no conjunct of `ValidTransaction`, because its
  verdict is dropped (`validation.py:114`).
* Digests are symbolic: `pickle.dumps` of equal values is taken to be equal, and
  different values do not collide.
* The position of an input is an index into a Python list: `OutputIndex` counts
  from the end for a negative one. The runs broadcast positions that the wallet
  can produce, and one out of range.
* The nonce loop ends with some nonce of `Nonce` that meets the target; if there
  is none the round is not enabled. The instances always have one.
* An exception in `accept_*`, outside the `try`, ends the process: `Crash`.
* `remove_last_block_from_db` is called by nothing in the program; `ChainFile`
  has it.

### `Framing`

A byte is its place in the stream, so a receive buffer is an interval: `got` bytes
have been appended to it and `taken` bytes cut off its front. `stage` says which of
`_jsonheader_len`, `jsonheader` and the content is the first that is still `None`,
and `data` from where to where the content was cut. `ReadMessage` is `_read` and the
three `_process_...` methods of one call of `read`, in their order; `ReadHeader`
is what a server does with a database request, whose content it never parses.
A message is known by the size of its header and of its content. Headers always
have the required fields, as those of the program's own peers do.

### `ClientConnection`

`light[c]` is the state of a `FullNodeConnection` and its loop, `server[c]` that of the
`ClientConnection` at the other end (`backlog`: connected by the kernel, not yet
accepted), `asked[c]` and `answered[c]` are the parsers of the two ends, `sent[c]` the
bytes each has sent, `queued[c]` the database that `_queue_database` read.
`database` and `poisoned` are what the rest of the node has to do with it: the
number of blocks in the file, and a stack that makes an invalid block.

| Action | Code |
|---|---|
| `StartConnection` | `_start_connection` (`connect_ex`, register) |
| `LightWrite`, `LightRead` | one call of `write` and of `read`, for every number of bytes the socket may take or have |
| `LightFails` | the send or receive raises, or the stream ends: the loop closes the connection |
| `Interrupt` | `KeyboardInterrupt` |
| `Accept` | `accept_client_connection` |
| `ServerRead`, `ServerWrite` | a round in read mode or write mode: `process_events`, what closes the connection in it, and what `process` does then |
| `ServerFails` | `process_events` raises: the stream ended, the send failed, or the database cannot be read |
| `CopyDatabase`, `Crash`, `Restart` | the node adopts a longer chain, ends (maybe in the middle of a write), starts |

Sockets are of one host, as the program binds and connects to 127.0.0.1: sent bytes
can be read at once, and both ends learn of an end that closes. A server that
closes before it has read all that it was sent makes the kernel reset the
connection; whether the light node still gets what was on its way is then left open
(`MayReset`).

### `NeighborConnection`

`sender[l]` and `receiver[l]` are the two ends of a connection that `start_gossip` opens,
`database_bytes[l]` what it is to send, `sent[l]` how much of it has been sent,
`reader[l]` the parser at the other end. `StartGossip` is the round that makes a
block; `SendRound` and `ReceiveRound` are `write` or `read` and `process`, with the closing of
the connection by `process` (`database_sent`), by itself, or by the main loop when
`process` raises; `SendFails`, `AcceptGossip`, `ReceiveFails`, `StackInvalid`, `Crash` and `Restart`
are the rest. Torn files are in `FullNode` only.

### `Wallet`

`stack_of_used_inputs` and `last_block_height` are the globals of that name, `file[w]` the
wallet's own database file (a wallet in `Shared` reads that of a full node on its
machine), `creating[w]` a call of `create_transaction` between its two reads of the
database, `created` the transactions made. `Query` is any call that only reads,
`BeginTransaction` and `FinishTransaction` are the two halves of `create_transaction`,
`BroadcastCreated` and `Synchronise` what a script does with a transaction and with the
database, `InitLightnodeApi` a new process. `MineTransaction` and `CopyLonger` are the full
nodes.

`GetBalanceFromAddress` and `GetValidInputsFromAddress` are the loops over all transactions of a
database, as sums and unions over their places in it. The balance also subtracts an
input that is on the stack and refers to an output of the very transaction it is an
input of, which no input does; `Gain` keeps the term as the code has it. The dicts of inputs and outputs are
functions and sequences, as in `Ledger`: no two outputs of a transaction have one
address, so no two inputs of an address have one hash.

### `ChainFile`

`file` holds a list of blocks, one block, or the beginning of a pickle (`Torn`). `call` is the
call that is running, with the objects it has in memory: `MakeBlock` (`validate_block`), `Mine`, `LinkBlock`,
`AppendBlock` are what `process` does to make a block, each with a read of its own;
`ReceiveDatabase`, `AddGenesisBlock` and `RemoveLastBlockFromDb` are the other calls that write; `Truncate`
and `Dump` are `write_to_db`. One process writes, as one process owns the
path. A call that takes blocks back is `rewinding` where another one is `writing`, and
`rollbacks` counts them, so that the properties know a loss that was asked for from one
that was not. `Read` is a wallet on the same machine, whose read is one step, which is right
for databases of less than a buffer. `Crash` may come between any two steps;
`InitDatabasePath` and `ReinitDatabasePath` are the path global.
`mine_block` copies the list and not the metadata of the block that it is given; as
the loop hashes its argument and returns the copy, which has the same metadata, the
outcome is that of a copy, and this is what `Mine` says.

## Runs

| Run | Instance | Checks |
|---|---|---|
| `full_node` | ring of three, all 8 transactions, 3 broadcasts, 2 faults | `TypeOK`, `HandlerDrains`, `TransitBounded`, `ChainsReplay`, `ChainsLinked`, `NoDoubleSpend`, `MoneyConserved`, `OneTransactionPerBlock`, `PoisonFreezes`, `ChainsOnlyGrow`, `ImplementsLongestChain` |
| `full_node_gossip` | a pair and a third node that gossips to one of the two, 5 transactions, 3 broadcasts, no crash, fairness | `GossipOwed`, `ChainSpreads` |
| `full_node_invalid_discarded` | pair, 2 broadcasts | violated: `InvalidDiscarded` |
| `full_node_databases_discarded` | pair, 2 broadcasts, 1 crash | violated: `DatabasesDiscarded` |
| `client_connection` | one broadcast and one request, header of 2 bytes, databases of 2 and 3 bytes, 1 crash | `TypeOK`, `CutIndependent`, `UnansweredHasCause`, `FreshAnswer`, `ImplementsTransfer` |
| `exchange_ends` | the same with parts of one byte, fairness | `ExchangeEnds`, `ServerCloses`, `BroadcastArrives` |
| `neighbor_connection` | two databases of one node to its neighbor, 3 blocks, 1 crash, fairness | `TypeOK`, `CutIndependent`, `LostHasCause`, `ReceivedCounts`, `ImplementsTransfer`, `ConnectionsClose`, `GossipArrives` |
| `wallet` | two wallets, two nodes, one file shared, amounts -50 and 50, 3 transactions, 2 blocks, 1 restart | `TypeOK`, `BalanceIsUnspent`, `ValidInputsAreUnspent`, `FreshIsValid`, `SpendsOwned`, `HandedOutOnce`, `OnePerBlockSeen`, `RespentOnce` |
| `emptied_when_mined` | two wallets, one node, amounts 0 and 50, 3 transactions | violated: `EmptiedWhenMined` |
| `remainder_returned` | two wallets, one node, amounts 0 and 50, 3 transactions | violated: `RemainderReturned` |
| `chain_file` | 6 calls, 2 crashes, one reader, blocks of 3 transactions, 2 databases to receive | `TypeOK`, `MinedStaysMined`, `ReaderSeesGrowth`, `ImplementsStore` |
| `last_block_removed` | the same | violated: `LastBlockRemoved` |

Why these bounds are enough.

* **Full nodes.** One genesis output of 100, two keys, and these transactions: two
  that spend it and conflict, one that depends on each, and one for every reason
  for which a transaction is invalid (amounts, signature, hash, position). Three
  broadcasts are two that conflict and one that depends on the winner, is a
  repetition, or is invalid, at any of the nodes: forks of equal and unequal height
  occur, with databases that are stale when they arrive, and in the ring a chain is
  two hops from its origin. Two crashes let a node tear its file, restart, and
  crash again, or two nodes crash. Nonces are 0..2, one or two of which meet the target, so that
  equal content can make different blocks. In `full_node_gossip` one node of the pair
  adopts databases of the third and does not send them on: `GossipOwed` and `ChainSpreads`
  are about nodes to which only their own neighbor gossips, and do not hold of the
  other one. Of two nodes that mine concurrently they therefore check one direction
  only, from the node that hears of nobody else to its neighbor.
* **Connections.** Parts of two and three bytes can be cut inside, at their ends and
  across two of them, and all pieces up to the whole message are taken at every
  step. A second database that differs in length from the first tells a mixed or
  stale answer from a right one. A broadcast and a request together let the
  broadcast change the database while the answer is being sent. In
  `neighbor_connection` the two databases overtake each other. Fairness is checked
  with parts of one byte, where a message still takes three pieces.
* **Wallet.** Two wallets that pay each other and themselves 50, which is a half or all
  of what one has, or -50, which nothing forbids: an output of 150 and one of -50, an
  address that owes 50, and one whose outputs are worth 0. Three transactions let a
  wallet spend its change, and make one more after its pending inputs were forgotten,
  so that two of them spend one output. The two nodes can mine different blocks of one
  height, one replaces its chain by the other's, and the sharing wallet sees that in the
  middle of a call. The amount 0 is in the two runs of findings only.
* **File.** Six calls are the longest way from a fork over a removal to a reset and
  back; two crashes tear the file twice, once with a call that repairs it.

The models are finite without further constraints. Deadlock is checked in
`chain_file`. Elsewhere the systems may rest: when all messages have arrived and all
transactions are made nothing is left to do, and a crashed node need not come back.

Two properties of full nodes are what the repository says of itself and the
code does not do:

* `InvalidDiscarded`: "Invalid new block, discarding transactions"
  (`fullnode_processing.py:44`) is unreachable. An invalid transaction, or a
  valid one broadcast twice, stays on the stack; from then on every call of
  `process` raises, and the node neither mines nor adopts until it is restarted
  (`PoisonFreezes`, which holds, states this).
* `DatabasesDiscarded`: "In any case we empty the stack"
  (`fullnode_processing.py:80`) fails when the own database cannot be read.

Two are of the wallet:

* `EmptiedWhenMined`: "We empty it since everything now appears in the blockchain"
  (`lightnode_api.py:23`). Any new block empties the list of pending inputs, also one
  without the wallet's transactions; the wallet then spends them again.
* `RemainderReturned`: "If not everything is spend, returns the remainder to the
  sender." (`lightnode_api.py:130`). In a payment to oneself the two outputs have one
  key in a dict, and the change overwrites the payment; the outputs are worth less than
  the inputs and no node takes it.

One is of the file:

* `LastBlockRemoved`: "Removes the last block from the database."
  (`fullnode_api.py:30`). `pop` returns the block that it removes, and this one is what
  gets written, alone; no call can use the file until it is reset. Nothing in the
  program calls `remove_last_block_from_db`.

Others that were met and have no run, since one reading settles them: "A block
contains 10 transactions" stands next to `len(received_transactions_stack) >= 1`
(`fullnode_processing.py:32`), and a block has one (`OneTransactionPerBlock`, which holds,
states what the code does and not this comment); "[4] The verifying key does not
correspond to the addresses that we are trying to spend from" is listed as a source of
invalidity (`validation.py:80`), and the verdict of `_is_owned` is dropped
(`validation.py:114`: in `Wallet`, where every transaction comes from a wallet,
`SpendsOwned` holds without it); the content of
a database request is described as empty and is the byte `0`
(`lightnode_connections.py:92`); `_broadcasting_done` is set as well when the broadcast
failed (`lightnode.py:50`); an amount of 0 is described as spending everything, and
pays nothing and returns everything to the sender (`lightnode_api.py:129`); the "copy" of `mine_block`
is shallow (`fullnode_api.py:39`).

### Fairness

In `FullNode`, `FairSpec` assumes weak fairness of the three rounds in which a message
is complete, per node. The selectors are level-triggered and every turn of the loop
handles all ready connections, so a connection that stays ready is served.
Weak fairness is per node and kind of round, not per connection; in the runs the
number of messages is finite, so every connection is served in the end.
`ChainSpreads` is checked without crashes: after one, gossip that was lost is never
repeated, and the property does not hold (nor does the code promise it).

In `ClientConnection` and `NeighborConnection` it is weak fairness of the steps of each end of
each connection, for the same reason: an end that has something to read, can send,
or has failed is reported by `select` until it is handled. A node that is down takes no
step; nothing is assumed of restarts, of the start of an exchange or of interrupts.
`ExchangeEnds` and `ServerCloses` hold nevertheless in the presence of crashes, since the
end of a process closes its sockets.

## Proofs

All constants are arbitrary: any nodes, topology, transactions, nonces, targets,
links, messages of any length, pieces of any size, any bounds. The proofs rest on the
named assumptions about constants and on nothing about cryptography beyond the
terms of `Crypto`.

| Module | Theorem | Property |
|---|---|---|
| `FullNodeProofs` | `TypeCorrect` | `TypeOK` |
| | `ChainsLinkedAlways` | `ChainsLinked` |
| | `ChainsReplayAlways` | `ChainsReplay` |
| | `NoDoubleSpendAlways` | `NoDoubleSpend` |
| | `HandlerDrainsAlways` | `HandlerDrains` |
| | `ChainsOnlyGrowAlways` | `ChainsOnlyGrow` |
| | `OneTransactionPerBlockAlways` | `OneTransactionPerBlock` |
| | `PoisonFreezesAlways` | `PoisonFreezes` |
| | `TransitBoundedAlways` | `TransitBounded` |
| | `GossipOwedAlways` | `GossipOwed` |
| | `MoneyConservedAlways` | `MoneyConserved`, if the pool is plain |
| | `Implementation` | `ImplementsLongestChain` |
| `FramingProofs` | `PiecesAddUp` | (of the parser) |
| `NeighborConnectionProofs` | `TypeCorrect` | `TypeOK` |
| | `CutIndependentAlways` | `CutIndependent` |
| | `LostHasCauseAlways` | `LostHasCause` |
| | `ReceivedCountsAlways` | `ReceivedCounts` |
| | `Implementation` | `ImplementsTransfer` |
| `ClientConnectionProofs` | `TypeCorrect` | `TypeOK` |
| | `CutIndependentAlways` | `CutIndependent` |
| | `UnansweredHasCauseAlways` | `UnansweredHasCause` |
| | `FreshAnswerAlways` | `FreshAnswer` |
| | `Implementation` | `ImplementsTransfer` |
| `ChainFileProofs` | `TypeCorrect` | `TypeOK` |
| | `MinedStaysMinedAlways` | `MinedStaysMined` |
| | `TornHasCauseAlways` | `TornHasCause` (checked by no run) |
| | `ReaderSeesGrowthAlways` | `ReaderSeesGrowth` |
| | `Implementation` | `ImplementsStore` |
| `WalletProofs` | `TypeCorrect` | `TypeOK` |
| | `HandedOutOnceAlways` | `HandedOutOnce` |
| | `OnePerBlockSeenAlways` | `OnePerBlockSeen` |
| | `SpendsOwnedAlways` | `SpendsOwned` |
| | `ValidInputsAreUnspentAlways` | `ValidInputsAreUnspent` |
| | `BalanceIsUnspentAlways` | `BalanceIsUnspent` |
| | `FreshIsValidAlways` | `FreshIsValid` |
| | `RespentOnceAlways` | `RespentOnce` |
| | `Implementation` | `ImplementsLongestChain` (checked by no run) |

`LedgerProofs` holds lemmas about chains, `MineBlock` and amounts that `FullNodeProofs`,
`ChainFileProofs` and `WalletProofs` share.

### Sums

Amounts are added up with `SumFunction` of the community modules, a function on the
subsets of a finite set that is defined by recursion with CHOOSE. That this function
exists, that its sum does not depend on the order (`SumRemove`), and that sums over
disjoint sets and over renamed indices agree (`SumUnion`, `SumRenamed`) each need
induction over finite sets. No theorem with an operator for the induction hypothesis
is used: the subsets for which a lemma fails are a set `B`, the strict order of the
finite subsets is well-founded, so `B` has an element that contains no other
(`LeastSet`), and taking one element out of that one gives the contradiction.

On this rest the lemmas of `LedgerProofs` about amounts: the value of an input in a
chain stays the same when the chain grows (`AmountKept`), what a set of inputs is worth
adds up over disjoint sets (`AmountOfUnion`), and the outputs of a transaction, as
inputs of a later one, are worth what it pays (`AmountOfOutputs`). `AmountAfter` puts
them together: it is what a valid transaction does to the worth of what can be spent.

### Full nodes

The inductive invariant `IInv` says of every node that its database is
`Unreadable` or a *good* chain (a chain, linked, replayable, one transaction to a
block), that every chain on its stack, in its outgoing and in its incoming
connections is good, that what comes in comes from a node that gossips to it,
that the stacks hold what `HandlerDrains` allows, and that the counters are within
their bounds. The parts need one another: `ChainsReplay` alone is not
inductive, since the databases on the stack and in transit become somebody's
database; `HandlerDrains` is needed because the second outcome of `Process`
leaves the stack of transactions alone; linkedness needs a chain that is not
empty, so that there is a last block to link to. The argument:

1. `ExtensionsAreGood`: what `mine_block` and `add_block_to_db` make of a good
   chain and a stack that passed `validate_block` is a good chain, and extends
   the old one.
2. `ProcessKeepsInv`: each outcome of `Process` keeps the invariant of its node
   if what the connection brings is good.
3. `NextInv`: one step per action, by 2 or because the action only moves or
   drops messages; then `Invariance` by temporal reasoning.
4. Each property follows from `IInv`; the two action properties and the
   refinement follow from `Effects`, which says what a step does to databases
   and to what is in transit.
5. `NoDoubleSpend` follows from replayability: a block that `validate_block`
   accepts uses each input once and no input of the blocks before it.
6. `OneTransactionPerBlock` follows from `PoisonStays`: a stack that is not empty
   between two rounds makes an invalid block, and so does whatever is stacked on
   top of it; a valid block is therefore made of one transaction alone.
7. `TransitBounded` is inductive on top of `IInv`: `SendsItsOwn` says that a step
   adds at most the new database of the sender to what it has in transit, and
   databases only grow.
8. `MoneyConserved` is a part of what a good chain is (`Conserves`), if the pool is plain.
   A valid block takes out of what can be spent what its transaction takes in, which
   is what it pays and what is added (`MinedConserves`). The pool must be plain since a
   negative position names an output a second time: of one output alone, `-1` is another
   input than `0`, so the check for double spending would not see that they are one. No
   light node makes such a transaction (amounts may have either sign), and `MCFullNode` evaluates that its pools are
   plain (`PoolAssumption`).
9. `GossipOwed` needs two more invariants: `TransitBounded`, for what a node adopted
   from its neighbor, and `Healthy` (before the first crash everybody runs and
   can read its database). `TransitArrives` says that what leaves transit was
   received and compared by the neighbor, unless one of the two is stuck.

### The parser

`ParserAt(message, got)` is where a parser is that has got so many bytes: a closed
form, by four cases. `MessageCut` shows that from there a piece of `k` bytes leads
to `ParserAt(message, got + k)`, whichever boundaries it crosses, call by call of
the three that parse; `HeaderCut` is the same for a reader of headers only.
`PiecesAddUp` and `CutIndependent` follow, since a piece no longer counts once it has
been read. `ParserFacts` reads off the closed form that a parser is done when it
has got the whole message, and that what it cut out is then the content.

### Gossip in pieces

The invariant of a link says that its parser is at `ParserAt`, and gives every end that is
closed a reason: the sender has sent everything or there is a cause (a crash, an
invalid block at one of the nodes), the receiver is done or there is a cause. The two
need each other, because either end closes when the other one has gone, and they
hold since a cause never goes away. `ReceivedCounts` is part of it: databases do not
shrink after they were compared. For `ImplementsTransfer` every action is shown to
be one step of `Transfer` on its own link (`TransferStep`) and none elsewhere, and a
crash to be `Lose`, which takes any number of messages.

### Broadcasts and requests in pieces

The same for exchanges, which have two parsers (`ParserInv`; that of the server is at `HeaderAt`
for a request) and messages both ways. `LightInv` and `ServerInv` say of every end why it is
where it is: a server that has closed while the light node is still open has sent
the whole answer or there is a `Cause` (a poisoned stack, or a crash); a light node that
has closed has its answer, or there is a cause, or the kernel dropped what was on
its way. The two need each other, as either end closes when the other has gone.
`FreshAnswer` needs that what was asked for (`begun`) and what was queued stay behind the
database until it is lost. `FactsHold` reads off what this means for the numbers of
bytes, `OneExchange` reduces a step to its own exchange, and `ImplementsTransfer` is shown as
for gossip, the message of an exchange being the transaction, or the request and then
the database.

### The file

While a call runs nobody else writes, so from its first read to its truncation the
file is what it read: the invariant names for each place in a call (`pc`) what its block is
to the chain in the file (valid on it; mined on it; linked to it, which changes nothing,
as the header was already filled in from the same last block). Hence `MinedStaysMined`,
and hence the list that is written is what `MineBlock` and `AddBlockToDb` make of the chain, which
is `Extend` of `Store`. `ReaderSeesGrowth` needs of a reader that the chain it has
seen since blocks were last taken back is the one in the file or shorter. For
`ImplementsStore` a step keeps the chain, extends or replaces it, resets it, removes its
last block, or ends a process (`Changes`): a chain is lost only by the last two, each
of which is counted, so a call that makes or receives blocks loses none.

### Wallets

`HandedOutOnce` and `OnePerBlockSeen` are inductive with what a wallet knows: whatever it has
handed out since its stack was emptied is on the stack (`CreatedInv`), the inputs of a
running call are not (`CallInv`), and a database that it has read is the only one of its
height that it can read (`Knows`). The last one needs the full nodes: a file is the
chain of the wallet's full node or a shorter one it had (`FilesInv`), and chains are replaced by
longer ones only, so that what is read changes only with its height (`WorldStep`). A second
transaction made from the same database would have no inputs left.

`OwnedInv` is about all transactions in the system. Each one spends outputs addressed
to the wallet that signed it (`SpendsOwn`), whichever database it was made from, and the
transactions of a chain refer to outputs in it (`ChainOwned`, from check 3 of validation).
Since hashes are terms, an input names one output and one owner (`SameOutput`, `OneAddress`).
`SpendsOwned` follows; and so does `ValidInputsAreUnspent`, for if anybody else could spend a
wallet's output, searching only the transactions that the wallet has signed would not
find it. `IInv` was checked by TLC before it was proved. `OwnedInv` quantifies over all
transactions there could be, so TLC has checked it with the transactions made in
their place.

The balance is in `OwnedInv`, too (`Balanced`). A block adds to it what its transaction
pays to the address, less all it pays if the address signed it (`BalanceGrows`); and it
adds to the unspent outputs those to the address, less the inputs if any was an
output to it, in which case all are and the address signed (`SpendsFromUnspent`,
`UnspentGrows`). The two changes are of one amount since inputs and outputs of a valid
transaction are (`StaysBalanced`). What is on the stack makes no difference
(`BalanceIsGained`).

For `FreshIsValid` a running call remembers that it found its inputs in the database it
has read (`CallOwned`). With nothing pending these are all unspent outputs of the
address, so they are worth its balance, which is what the outputs are made of; none
of the six checks is left to fail (`MadeValid`), whatever sign the amounts have.

`RespentOnce` is a part of `ChainOwned` (`SpentOnce`): a block adds one transaction to a chain
(`PlacesGrow`), and check 3 of validation, against that very chain, lets none of its inputs
be one of a transaction before it. `HandedOutOnce`, `BalanceIsUnspent` and
`SpendsOwned` say nothing of an input that is spent again after its stack was emptied: the
first one ends with the epoch, and the others look at databases. That such a respend
reaches no database twice is left to this property.

`TypeOK` bounds the transactions by `MaxCreated` and one for every wallet: the bound is
looked at when a call begins. `TypeInv` therefore counts the calls that are running, and
needs that the wallets are finitely many (`SeedAssumption`). For `ImplementsLongestChain`
the databases must be chains that are not empty (`FilesInv`); then what a node mines is
`Extends` of its chain (`MinedExtends`), and what it copies is longer than the chain all
start with (`NodesFollow`).

## Only model-checked

* Liveness (`ChainSpreads`, `ExchangeEnds`, `ServerCloses`, `BroadcastArrives`, `ConnectionsClose`,
  `GossipArrives`) is outside the reach of the prover, and so is ENABLED.
* That a wallet's transactions are the pool of `FullNode`: each of the two modules has
  its own transactions, and that wallets count positions from 0, which is what
  `MoneyConservedAlways` asks of a pool, is seen in `OutputsTo` and proved nowhere.

Every invariant and every action property that a passing run checks is stated by a theorem.

No module uses a RECURSIVE operator.

## Not modelled

* `json_tools.py` and `exceptions.py` have no state, and neither have the printing of
  `show_blockchain_summary` and the generation of seeds.
* Content types and headers that no peer of the repository sends.
* A torn file in `NeighborConnection`, and the content of databases in both connection modules
  (`FullNode` has both). `ClientConnection` has a torn file and no databases received from
  neighbors: that a single one of these, stacked while the file is torn, makes every
  later round raise (`fullnode_processing.py:73`; from two on nothing looks at them) is
  in `FullNode` only. What the connections promise is excused by the crash that tore
  the file.
* Reads of a file that is longer than one buffer while it is written, and two full
  nodes on one file.
* The tests (their transactions are the pool of `MCFullNode`).
