---------------------------- MODULE MCChainFile ----------------------------
(***************************************************************************)
(* A small instance of ChainFile for TLC: blocks of two conflicting        *)
(* transactions and of one that depends on the first, and the databases of *)
(* neighbors that made other blocks of them.                               *)
(***************************************************************************)
EXTENDS ChainFile, TLC

A == GetAddress("a")
B == GetAddress("b")
MCGenesisAddress == A

Pay(address) == <<[address |-> address, amount |-> 100]>>
GenesisTx == Genesis.block_content[1]

AllToB  == Sign(Transaction(GenesisTx.txhash :> 0, Pay(B)), "a")
AllToA  == Sign(Transaction(GenesisTx.txhash :> 0, Pay(A)), "a")
BackToA == Sign(Transaction(AllToB.txhash :> 0, Pay(A)), "b")

MCContent == {<<AllToB>>, <<AllToA>>, <<BackToA>>}

\* Two nonces are good for a block of odd id, one for one of even id.
MCNonce == 0..2
MCMeetsTarget(hash) == (hash.sha256.nonce + hash.sha256.id) % 2 = 1

MinedOn(chain, tx) == {AddBlockToDb(chain, mined) : mined \in MineBlock(chain, Block(<<tx>>))}

MCReceived ==
    LET short == MinedOn(<<Genesis>>, AllToB)
    IN  short \cup UNION {MinedOn(chain, BackToA) : chain \in short}

MCReader == {"w"}

=============================================================================
