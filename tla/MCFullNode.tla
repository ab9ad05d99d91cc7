----------------------------- MODULE MCFullNode -----------------------------
(***************************************************************************)
(* Small instances of FullNode for TLC: two nodes that gossip to each      *)
(* other or three in a ring, two keys, and a pool of transactions that     *)
(* conflict, depend on each other or are invalid in one way each.          *)
(***************************************************************************)
EXTENDS FullNode, TLC

A == GetAddress("a")
B == GetAddress("b")

MCGenesisAddress == A
GenesisTx == GenesisBlock(A).block_content[1]

Pay(address, amount) == <<[address |-> address, amount |-> amount]>>

\* Spend the genesis output: two that conflict.
AllToB  == Sign(Transaction(GenesisTx.txhash :> 0, Pay(B, 100)), "a")
SplitAB == Sign(Transaction(GenesisTx.txhash :> 0, Pay(B, 60) \o Pay(A, 40)), "a")

\* Spend an output of these.
BackToA == Sign(Transaction(AllToB.txhash :> 0, Pay(A, 100)), "b")
Change  == Sign(Transaction(SplitAB.txhash :> 1, Pay(B, 40)), "a")

\* Invalid for one reason each (the tests of test_local_functionalities.py).
Unbalanced  == Sign(Transaction(GenesisTx.txhash :> 0, Pay(B, 101)), "a")
NotSigned   == Transaction(GenesisTx.txhash :> 0, Pay(B, 100))
FakeHash    == [AllToB EXCEPT !.txhash = SplitAB.txhash]
BadPosition == Sign(Transaction(GenesisTx.txhash :> 1, Pay(B, 100)), "a")

Valid   == {AllToB, SplitAB, BackToA, Change}
Invalid == {Unbalanced, NotSigned, FakeHash, BadPosition}
MCTx    == Valid \cup {Unbalanced}
MCTxAll == Valid \cup Invalid

\* One of the nonces is good for a block of odd id, two for one of even id:
\* equal content can give different blocks.
MCNonce == 0..2
MCMeetsTarget(hash) == (hash.sha256.nonce + hash.sha256.id) % 2 = 0

CONSTANTS n1, n2, n3
MCPair == {n1, n2}
MCPairNeighbor == n1 :> n2 @@ n2 :> n1

\* A ring: what n1 mines reaches n2, and n3 only in what n2 mines on top of it.
MCRing == {n1, n2, n3}
MCRingNeighbor == n1 :> n2 @@ n2 :> n3 @@ n3 :> n1

\* The pair, and a third node that gossips to n2: n2 adopts databases that it
\* does not send on, so only n1 owes its neighbor every block.
MCSpurNeighbor == n1 :> n2 @@ n2 :> n1 @@ n3 :> n2

\* What MoneyConservedAlways of FullNodeProofs assumes of a pool, of all of these.
ASSUME PoolAssumption == \A tx \in MCTxAll : IsPlain(tx)

=============================================================================
