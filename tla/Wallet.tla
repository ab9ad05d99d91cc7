------------------------------- MODULE Wallet -------------------------------
(***************************************************************************)
(* Wallets: the light node API of tools/lightnode_api.py, which keeps in   *)
(* its process the inputs it has handed out and the height of the database *)
(* it knows, and makes transactions from a database file.                  *)
(*                                                                         *)
(* A wallet is the script of a light node, single-threaded, with one seed. *)
(* It asks one full node for the database and writes it to a file of its   *)
(* own, or it reads the file of a full node on its own machine, which      *)
(* changes under it.  It signs what it makes and broadcasts it, any number *)
(* of times and at any time later.  Every transaction in the system comes  *)
(* from a wallet.                                                          *)
(*                                                                         *)
(* Full nodes do here what LongestChain says, in one step each: one adds a *)
(* block, valid by the rules of Ledger, of one transaction that was        *)
(* broadcast to it, or copies a longer chain.                              *)
(***************************************************************************)
EXTENDS Ledger

CONSTANTS
    Seed,            \* one wallet for each
    Node,
    FullNodeOf,      \* FullNodeOf[w]: the full node that w talks to
    Shared,          \* the wallets that read the file of their full node
    GenesisAddress,
    Amount,          \* the amounts transactions are made with: nothing checks them
    MaxCreated,      \* bound on the transactions made
    MaxHeight,       \* bound on the height of a chain
    MaxSessions      \* bound on the restarts of wallets

ASSUME WalletAssumption == FullNodeOf \in [Seed -> Node] /\ Shared \subseteq Seed
ASSUME SeedAssumption == IsFiniteSet(Seed)
ASSUME AmountAssumption == Amount \subseteq Int
ASSUME BoundAssumption ==
    MaxCreated \in Nat /\ MaxHeight \in Nat /\ MaxSessions \in Nat

VARIABLES
    chain,                \* the databases of the full nodes
    broadcast,            \* the transactions broadcast to them
    file,                 \* the files of the wallets that have their own
    stack_of_used_inputs,
    last_block_height,
    creating,             \* a call of create_transaction between its two reads
    created,              \* not in the code: the transactions made so far,
    epoch,                \*   how often a wallet's stack has been emptied,
    sessions              \*   and how often a wallet was restarted
vars == <<chain, broadcast, file, stack_of_used_inputs, last_block_height,
          creating, created, epoch, sessions>>

Genesis == GenesisBlock(GenesisAddress)

Height(db) == LastBlock(db).metadata.id

\* read_from_db
ReadFromDb(w) == IF w \in Shared THEN chain[FullNodeOf[w]] ELSE file[w]

-----------------------------------------------------------------------------
(* What is computed from one read of the database *)

\* The transactions of a database, by block and place in it.
Places(db) ==
    UNION {{<<i, k>> : k \in DOMAIN db[i].block_content} : i \in DOMAIN db}
At(db, place) == db[place[1]].block_content[place[2]]

\* What get_balance_from_address takes for the inputs that refer to the output
\* of tx for an address: its position counts the outputs for the address only.
\* (Mutant: get_valid_inputs_from_address counts so, too.)
FirstOutputTo(tx, address) ==
    {<<tx.txhash, 0>> : p \in {q \in DOMAIN tx.dict_of_outputs :
                                   tx.dict_of_outputs[q].address = address}}

\* The inputs that refer to the outputs of tx for an address.
OutputsTo(tx, address) ==
    {<<tx.txhash, position - 1>> :
        position \in {p \in DOMAIN tx.dict_of_outputs :
                         tx.dict_of_outputs[p].address = address}}

IsSignedBy(tx, address) == VerifyAddress(address, tx.verifying_key)

AmountTo(tx, address) ==
    SumFunction([p \in {q \in DOMAIN tx.dict_of_outputs :
                            tx.dict_of_outputs[q].address = address}
                    |-> tx.dict_of_outputs[p].amount])

\* Mutant: what is returned to the sender counts as spent only.
BalanceWithoutChange(db, address, stack) ==
    SumFunction([place \in Places(db) |->
        IF IsSignedBy(At(db, place), address) THEN 0 - OutputAmount(At(db, place))
        ELSE AmountTo(At(db, place), address)])

\* What a transaction pays to the address, less all it pays when its key is
\* that of the address.  An input is subtracted, too, when it is on the stack
\* and refers to the first output of the very transaction that it is an input of.
Gain(db, tx, address, stack) ==
    LET stale == Inputs(tx) \cap stack \cap FirstOutputTo(tx, address)
    IN  AmountTo(tx, address)
        - (IF IsSignedBy(tx, address) THEN OutputAmount(tx) ELSE 0)
        - SumFunction([input \in stale |-> GetAmountFromInput(db, input)])

GetBalanceFromAddress(db, address, stack) ==
    SumFunction([place \in Places(db) |-> Gain(db, At(db, place), address, stack)])

\* Mutant: the stack is not looked at.
GetInputsFromAddress(db, address, stack) ==
    (UNION {OutputsTo(tx, address) : tx \in TransactionsIn(db)})
    \ (UNION {Inputs(tx) : tx \in {t \in TransactionsIn(db) : IsSignedBy(t, address)}})

GetValidInputsFromAddress(db, address, stack) ==
    (UNION {OutputsTo(tx, address) : tx \in TransactionsIn(db)})
    \ ((UNION {Inputs(tx) : tx \in {t \in TransactionsIn(db) : IsSignedBy(t, address)}})
       \cup stack)

\* The dict made of a list of inputs.  No two of them name the same hash, as
\* an address occurs once among the outputs of a transaction.
DictOfInputs(inputs) ==
    [h \in {input[1] : input \in inputs} |->
        CHOOSE position \in {input[2] : input \in inputs} : <<h, position>> \in inputs]

\* Mutant: the change is what was asked for.
DictOfOutputsSwapped(from, to, amount, balance) ==
    IF balance = amount THEN <<[address |-> to, amount |-> amount]>>
    ELSE <<[address |-> to, amount |-> amount], [address |-> from, amount |-> amount]>>

\* The dict of outputs, where balance >= amount (and what the branch for an
\* amount of 0 does is done again).  The second assignment for an address
\* replaces the first.
DictOfOutputs(from, to, amount, balance) ==
    IF balance = amount THEN <<[address |-> to, amount |-> amount]>>
    ELSE IF from = to THEN <<[address |-> to, amount |-> balance - amount]>>
    ELSE <<[address |-> to,   amount |-> amount],
           [address |-> from, amount |-> balance - amount]>>

-----------------------------------------------------------------------------
(* The calls of a wallet *)

IsNewBlock(w) == last_block_height[w] < Height(ReadFromDb(w))

\* Mutant: every read empties the stack.
StackAfterAnyRead(w) == {}

\* The stack as get_database leaves it.
StackAfterRead(w) == IF IsNewBlock(w) THEN {} ELSE stack_of_used_inputs[w]

\* Mutant: the height is the number of blocks.
GetDatabaseCounted(w) ==
    /\ last_block_height' = [last_block_height EXCEPT ![w] =
                                IF IsNewBlock(w) THEN Len(ReadFromDb(w)) ELSE @]
    /\ epoch' = [epoch EXCEPT ![w] = IF IsNewBlock(w) THEN @ + 1 ELSE @]

\* get_database, but for the stack, which a caller may add to.
GetDatabase(w) ==
    /\ last_block_height' = [last_block_height EXCEPT ![w] =
                                IF IsNewBlock(w) THEN Height(ReadFromDb(w)) ELSE @]
    /\ epoch' = [epoch EXCEPT ![w] = IF IsNewBlock(w) THEN @ + 1 ELSE @]

\* A query: get_balance_from_address, show_blockchain_summary, ...
Query(w) ==
    /\ creating[w] = <<>>
    /\ GetDatabase(w)
    /\ stack_of_used_inputs' = [stack_of_used_inputs EXCEPT ![w] = StackAfterRead(w)]
    /\ UNCHANGED <<chain, broadcast, file, creating, created, sessions>>

\* create_transaction up to get_valid_inputs_from_address.
BeginTransaction(w, to, amount) ==
    /\ creating[w] = <<>>
    /\ Len(created) < MaxCreated
    /\ GetDatabase(w)
    /\ stack_of_used_inputs' = [stack_of_used_inputs EXCEPT ![w] = StackAfterRead(w)]
    /\ creating' = [creating EXCEPT ![w] =
           <<[to |-> to, amount |-> amount, read |-> ReadFromDb(w),
              pending |-> StackAfterRead(w),
              inputs |-> GetValidInputsFromAddress(ReadFromDb(w), GetAddress(w),
                                                   StackAfterRead(w))]>>]
    /\ UNCHANGED <<chain, broadcast, file, created, sessions>>

\* The rest of create_transaction, from get_balance_from_address on.  It raises
\* when the balance is too low and, after it has put them on the stack, when
\* there are no inputs.
FinishTransaction(w) ==
    /\ creating[w] # <<>>
    /\ LET call    == creating[w][1]
           db      == ReadFromDb(w)
           address == GetAddress(w)
           balance == GetBalanceFromAddress(db, address, StackAfterRead(w))
           tx      == Transaction(DictOfInputs(call.inputs),
                                  DictOfOutputs(address, call.to, call.amount, balance))
           spends  == balance >= call.amount
       IN  /\ stack_of_used_inputs' = [stack_of_used_inputs EXCEPT ![w] =
                  IF spends THEN StackAfterRead(w) \cup call.inputs ELSE StackAfterRead(w)]
           /\ created' = IF spends /\ call.inputs # {}
                         THEN Append(created,
                                [by |-> w, tx |-> Sign(tx, w), call |-> call, reread |-> db,
                                 epoch |-> IF IsNewBlock(w) THEN epoch[w] + 1 ELSE epoch[w]])
                         ELSE created
    /\ GetDatabase(w)
    /\ creating' = [creating EXCEPT ![w] = <<>>]
    /\ UNCHANGED <<chain, broadcast, file, sessions>>

\* The script sends a transaction it has made, maybe again.
BroadcastCreated(w) ==
    /\ creating[w] = <<>>
    /\ \E i \in DOMAIN created :
          /\ created[i].by = w
          /\ created[i].tx \notin broadcast[FullNodeOf[w]]
          /\ broadcast' = [broadcast EXCEPT ![FullNodeOf[w]] = @ \cup {created[i].tx}]
    /\ UNCHANGED <<chain, file, stack_of_used_inputs, last_block_height, creating,
                   created, epoch, sessions>>

\* The script requests the database and writes it to its file.
Synchronise(w) ==
    /\ w \notin Shared
    /\ creating[w] = <<>>
    /\ file[w] # chain[FullNodeOf[w]]
    /\ file' = [file EXCEPT ![w] = chain[FullNodeOf[w]]]
    /\ UNCHANGED <<chain, broadcast, stack_of_used_inputs, last_block_height, creating,
                   created, epoch, sessions>>

\* init_lightnode_api, in a new process.
InitLightnodeApi(w) ==
    /\ sessions < MaxSessions
    /\ sessions' = sessions + 1
    /\ stack_of_used_inputs' = [stack_of_used_inputs EXCEPT ![w] = {}]
    /\ last_block_height' = [last_block_height EXCEPT ![w] = Height(ReadFromDb(w))]
    /\ creating' = [creating EXCEPT ![w] = <<>>]
    /\ epoch' = [epoch EXCEPT ![w] = @ + 1]
    /\ UNCHANGED <<chain, broadcast, file, created>>

-----------------------------------------------------------------------------
(* The full nodes *)

\* A block of a transaction that was broadcast to n.
MineTransaction(n) ==
    /\ Height(chain[n]) < MaxHeight
    /\ \E tx \in broadcast[n] :
          /\ ValidateBlock(chain[n], Block(<<tx>>))
          /\ \E mined \in MineBlock(chain[n], Block(<<tx>>)) :
                chain' = [chain EXCEPT ![n] = AddBlockToDb(chain[n], mined)]
    /\ UNCHANGED <<broadcast, file, stack_of_used_inputs, last_block_height, creating,
                   created, epoch, sessions>>

\* The consensus step, with the database of another node.
CopyLonger(n) ==
    /\ \E m \in Node :
          /\ Len(chain[m]) > Len(chain[n])
          /\ chain' = [chain EXCEPT ![n] = chain[m]]
    /\ UNCHANGED <<broadcast, file, stack_of_used_inputs, last_block_height, creating,
                   created, epoch, sessions>>

-----------------------------------------------------------------------------

Init ==
    /\ chain = [n \in Node |-> <<Genesis>>]
    /\ broadcast = [n \in Node |-> {}]
    /\ file = [w \in Seed |-> <<Genesis>>]
    /\ stack_of_used_inputs = [w \in Seed |-> {}]
    /\ last_block_height = [w \in Seed |-> 0]
    /\ creating = [w \in Seed |-> <<>>]
    /\ created = <<>>
    /\ epoch = [w \in Seed |-> 0]
    /\ sessions = 0

Next ==
    \/ \E w \in Seed :
          \/ Query(w)
          \/ \E to \in {GetAddress(seed) : seed \in Seed}, amount \in Amount :
                BeginTransaction(w, to, amount)
          \/ FinishTransaction(w)
          \/ BroadcastCreated(w)
          \/ Synchronise(w)
          \/ InitLightnodeApi(w)
    \/ \E n \in Node : MineTransaction(n) \/ CopyLonger(n)

Spec == Init /\ [][Next]_vars

-----------------------------------------------------------------------------
(* Properties *)

Databases == {chain[n] : n \in Node} \cup {ReadFromDb(w) : w \in Seed}

\* The inputs for the outputs of a database to an address that nothing in it
\* spends.
Unspent(db, address) ==
    {input \in UNION {OutputsTo(tx, address) : tx \in TransactionsIn(db)} :
        IsSpendable(db, input)}

UnspentAmount(db, address) ==
    SumFunction([input \in Unspent(db, address) |-> GetAmountFromInput(db, input)])

\* The two reads of create_transaction did not return the same database.
IsTorn(c) == c.call.read # c.reread

\* The shape of the state: heights and counts are numbers within their bounds,
\* the inputs a wallet keeps are the outputs of some transaction it has seen.
TypeOK ==
    /\ \A db \in Databases : db # <<>> /\ Height(db) = Len(db) - 1
    /\ stack_of_used_inputs \in
          [Seed -> SUBSET UNION {Inputs(created[i].tx) : i \in DOMAIN created}]
    /\ last_block_height \in [Seed -> 0..MaxHeight]
    /\ Len(created) \in 0..(MaxCreated + Cardinality(Seed))
    /\ \A n \in Node : broadcast[n] \subseteq {created[i].tx : i \in DOMAIN created}
    /\ sessions \in 0..MaxSessions

\* The balance, which adds up transactions by their outputs and their signer and
\* never looks up an input, is what the unspent outputs of the address add up
\* to, in every database of the system: as long as every transaction comes from
\* a wallet, nothing is spent but by its owner and in full.
BalanceIsUnspent ==
    \A db \in Databases, w \in Seed :
        GetBalanceFromAddress(db, GetAddress(w), stack_of_used_inputs[w])
            = UnspentAmount(db, GetAddress(w))

\* The valid inputs, for which only the transactions signed by the address are
\* searched, are the unspent outputs of the address that are not pending.
ValidInputsAreUnspent ==
    \A db \in Databases, w \in Seed :
        GetValidInputsFromAddress(db, GetAddress(w), stack_of_used_inputs[w])
            = Unspent(db, GetAddress(w)) \ stack_of_used_inputs[w]

\* A transaction to somebody else is valid in the database it was made from,
\* when both reads returned that one and nothing of it was pending: the node
\* accepts it.
FreshIsValid ==
    \A i \in DOMAIN created :
        LET c == created[i]
        IN  ~IsTorn(c) /\ c.call.pending = {} /\ c.call.to # GetAddress(c.by) =>
                ValidTransaction(c.reread, c.tx)

\* Between two times that its stack is emptied, a wallet hands out an input
\* only once.
HandedOutOnce ==
    \A i, j \in DOMAIN created :
        i # j /\ created[i].by = created[j].by /\ created[i].epoch = created[j].epoch =>
            Inputs(created[i].tx) \cap Inputs(created[j].tx) = {}

\* A transaction takes all inputs of its address, so a wallet makes no second
\* one before it has seen a new block, unless the database changed under it.
OnePerBlockSeen ==
    \A i, j \in DOMAIN created :
        i # j /\ created[i].by = created[j].by /\ created[i].epoch = created[j].epoch =>
            IsTorn(created[i]) \/ IsTorn(created[j])

\* A wallet forgets its pending inputs at a new block or a restart, spends them
\* again, and broadcasts both; the chain may be replaced in between.  No database
\* has two transactions that spend one output, nor one transaction twice.
RespentOnce ==
    \A db \in Databases : \A p, q \in Places(db) :
        p # q => Inputs(At(db, p)) \cap Inputs(At(db, q)) = {}

\* Nodes do not check who owns what a transaction spends.  Where every
\* transaction comes from a wallet, nobody spends what is not theirs.
SpendsOwned ==
    \A db \in Databases : \A tx \in TransactionsIn(db) :
        \A input \in Inputs(tx) : IsOwned(db, input, tx.verifying_key)

\* longer is db and one block, which is linked to it, mined, and valid after it.
Extends(db, longer) ==
    LET block == LastBlock(longer)
    IN  /\ Len(longer) = Len(db) + 1
        /\ SubSeq(longer, 1, Len(db)) = db
        /\ Height(longer) = Height(db) + 1
        /\ block.metadata.prev_block_hash = BlockHash(LastBlock(db))
        /\ MeetsTarget(BlockHash(block))
        /\ ValidateBlock(db, Block(block.block_content))

\* The full nodes of this module keep to what FullNode implements, too.  In transit
\* is any chain that a node has, but for the one all start with, which is longer
\* than none.
Network ==
    INSTANCE LongestChain WITH
        Holder  <- Node,
        First   <- <<Genesis>>,
        Lost    <- <<>>,
        transit <- {chain[n] : n \in Node} \ {<<Genesis>>}

ImplementsLongestChain == Network!Spec

\* "We empty it since everything now appears in the blockchain" (the comment in
\* get_database): the inputs a new block removes from the stack are spent.
EmptiedWhenMined ==
    [][\A w \in Seed :
         sessions' = sessions /\ stack_of_used_inputs'[w] = {} =>
            \A input \in stack_of_used_inputs[w] : ~IsSpendable(ReadFromDb(w), input)]_vars

\* "If not everything is spend, returns the remainder to the sender" (the
\* docstring of create_transaction): the outputs are worth what the inputs are.
RemainderReturned ==
    \A i \in DOMAIN created :
        LET c == created[i]
        IN  ~IsTorn(c) => InputAmount(c.reread, c.tx) = OutputAmount(c.tx)

=============================================================================
