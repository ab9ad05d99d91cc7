------------------------------- MODULE Ledger -------------------------------
(***************************************************************************)
(* Transactions, blocks and chains (tools/classes.py), the queries on a    *)
(* chain and the making of a block (tools/fullnode_api.py), and the rules  *)
(* a new block is checked against (tools/validation.py).  Everything here  *)
(* is a function of its arguments: the database file a chain is stored in  *)
(* belongs to the modules that keep state.                                 *)
(*                                                                         *)
(* A chain is a sequence of blocks.  The dict of inputs of a transaction   *)
(* maps the hash of an earlier transaction to the position of one of its   *)
(* outputs; the dict of outputs keeps its insertion order and is a         *)
(* sequence of [address, amount] with distinct addresses.                  *)
(***************************************************************************)
EXTENDS Crypto, Integers, Sequences, FiniteSets, Functions

CONSTANTS
    Nonce,           \* the nonces mine_block draws from (randint(0, 1000000))
    MeetsTarget(_)   \* a block hash that starts with "0000"

-----------------------------------------------------------------------------
(* Transactions and blocks *)

TxHash(dict_of_inputs, dict_of_outputs) ==
    Sha256([dict_of_inputs |-> dict_of_inputs, dict_of_outputs |-> dict_of_outputs])

Transaction(dict_of_inputs, dict_of_outputs) ==
    [dict_of_inputs  |-> dict_of_inputs,
     dict_of_outputs |-> dict_of_outputs,
     txhash          |-> TxHash(dict_of_inputs, dict_of_outputs),
     signature       |-> Unsigned,
     verifying_key   |-> Unsigned]

Sign(tx, seed) ==
    LET signed == SignTransaction(seed, tx.txhash)
    IN  [tx EXCEPT !.signature     = signed.signature,
                   !.verifying_key = signed.verifying_key]

\* The metadata of a block that is not in a chain yet (id and
\* prev_block_hash are -1), and the 0 of the genesis block.
Undefined == [undefined |-> -1]
NoBlock   == [undefined |-> 0]

Block(block_content) ==
    [block_content |-> block_content,
     metadata      |-> [id                 |-> -1,
                        prev_block_hash    |-> Undefined,
                        nonce              |-> 0,
                        block_content_hash |-> Sha256(block_content)]]

GenesisBlock(output_address) ==
    LET grant == <<[address |-> output_address, amount |-> 100]>>
        block == Block(<<Transaction(<<>>, grant)>>)
    IN  [block EXCEPT !.metadata.id = 0, !.metadata.prev_block_hash = NoBlock]

BlockHash(block) == Sha256(block.metadata)

-----------------------------------------------------------------------------
(* Queries on a chain *)

\* The (hash, position) pairs a transaction refers to.
Inputs(tx) == {<<h, tx.dict_of_inputs[h]>> : h \in DOMAIN tx.dict_of_inputs}

TransactionsOf(block) == Range(block.block_content)

TransactionsIn(chain) == UNION {TransactionsOf(chain[i]) : i \in DOMAIN chain}

\* The type of a chain: a sequence, of whatever blocks.
IsChain(chain) == chain \in Seq(Range(chain))

LastBlock(chain) == chain[Len(chain)]

\* Transactions with equal hashes have equal outputs, so which of them the
\* program's loop meets first does not show in what is read from it.
GetTransactionByTxhash(chain, tx_hash) ==
    CHOOSE tx \in TransactionsIn(chain) : tx.txhash = tx_hash

\* Where list(dict_of_outputs.items())[position] looks: from the end when
\* position is negative.
OutputIndex(dict_of_outputs, position) ==
    IF position < 0 THEN Len(dict_of_outputs) + position + 1 ELSE position + 1

\* get_amount_from_input finds an amount (it raises an APIError otherwise).
OutputExists(chain, input) ==
    \E tx \in TransactionsIn(chain) :
        /\ tx.txhash = input[1]
        /\ OutputIndex(tx.dict_of_outputs, input[2]) \in DOMAIN tx.dict_of_outputs

OutputOf(chain, input) ==
    LET outputs == GetTransactionByTxhash(chain, input[1]).dict_of_outputs
    IN  outputs[OutputIndex(outputs, input[2])]

GetAmountFromInput(chain, input) == OutputOf(chain, input).amount

-----------------------------------------------------------------------------
(* Validation.  A predicate is TRUE when the function returns, and FALSE   *)
(* when it raises: no function of validation.py returns False to           *)
(* validate_block.                                                         *)

HasCorrectHash(tx) == tx.txhash = TxHash(tx.dict_of_inputs, tx.dict_of_outputs)

HasValidSignature(tx) == VerifySigning(tx.txhash, tx.signature, tx.verifying_key)

\* Mutant: the output exists, and may have been spent.
IsSpendableAgain(chain, input) == OutputExists(chain, input)

IsSpendable(chain, input) ==
    /\ OutputExists(chain, input)
    /\ \A tx \in TransactionsIn(chain) : input \notin Inputs(tx)

\* The one check whose verdict is a return value.  Its caller drops it, so
\* it is no conjunct of ValidTransaction.
IsOwned(chain, input, verifying_key) ==
    VerifyAddress(OutputOf(chain, input).address, verifying_key)

InputAmount(chain, tx) ==
    SumFunction([input \in Inputs(tx) |-> GetAmountFromInput(chain, input)])

OutputAmount(tx) ==
    SumFunction([i \in DOMAIN tx.dict_of_outputs |-> tx.dict_of_outputs[i].amount])

\* Mutant: check 5 is missing.
ValidTransactionUnbalanced(chain, tx) ==
    /\ HasCorrectHash(tx)
    /\ HasValidSignature(tx)
    /\ \A input \in Inputs(tx) : IsSpendable(chain, input)

ValidTransaction(chain, tx) ==
    /\ HasCorrectHash(tx)
    /\ HasValidSignature(tx)
    /\ \A input \in Inputs(tx) : IsSpendable(chain, input)
    /\ InputAmount(chain, tx) = OutputAmount(tx)

\* Check 6: no input occurs twice in the list of used inputs of the block.
NoConflict(block_content) ==
    \A i, j \in DOMAIN block_content :
        i # j => Inputs(block_content[i]) \cap Inputs(block_content[j]) = {}

\* Mutant: the loop returns at the first transaction that passes.
ValidateBlockOnce(chain, block) ==
    \E tx \in TransactionsOf(block) : ValidTransaction(chain, tx)

ValidateBlock(chain, block) ==
    \/ block.metadata.id = 1
    \/ /\ \A tx \in TransactionsOf(block) : ValidTransaction(chain, tx)
       /\ NoConflict(block.block_content)

-----------------------------------------------------------------------------
(* Making a block *)

\* The fields that mine_block and then add_block_to_db set from the last block.
Link(chain, block) ==
    LET last_block == LastBlock(chain)
    IN  [block EXCEPT !.metadata =
            [id                 |-> last_block.metadata.id + 1,
             prev_block_hash    |-> BlockHash(last_block),
             nonce              |-> @.nonce,
             block_content_hash |-> @.block_content_hash]]

\* Mutant: the nonce is searched for before the header is filled in.
MineBlockUnlinked(chain, block) ==
    {mined \in {[block EXCEPT !.metadata.nonce = nonce] : nonce \in Nonce} :
        MeetsTarget(BlockHash(mined))}

\* The loop over random nonces ends with any nonce that meets the target.
MineBlock(chain, block) ==
    {mined \in {[Link(chain, block) EXCEPT !.metadata.nonce = nonce] : nonce \in Nonce} :
        MeetsTarget(BlockHash(mined))}

\* Mutant: the block is written in place of the list it was appended to.
AddBlockAlone(chain, block) == <<Link(chain, block)>>

AddBlockToDb(chain, block) == Append(chain, Link(chain, block))

-----------------------------------------------------------------------------
(* What properties are stated with *)

\* A transaction whose inputs count positions from the front and whose amounts
\* are integers.  (The positions 0 and -1 name the same output of one, and
\* check 3 takes them for two.)
IsPlain(tx) ==
    /\ IsFiniteSet(DOMAIN tx.dict_of_inputs)
    /\ \A h \in DOMAIN tx.dict_of_inputs : tx.dict_of_inputs[h] \in Nat
    /\ IsFiniteSet(DOMAIN tx.dict_of_outputs)
    /\ DOMAIN tx.dict_of_outputs \subseteq Nat \ {0}
    /\ \A p \in DOMAIN tx.dict_of_outputs : tx.dict_of_outputs[p].amount \in Int

=============================================================================
