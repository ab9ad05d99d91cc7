--------------------------- MODULE FullNodeProofs ---------------------------
(***************************************************************************)
(* Proofs about FullNode, for any nodes, neighbors, transactions, nonces   *)
(* and target.  That no money is made or lost is proved of pools without   *)
(* negative positions (PlainPool), which is what wallets make.             *)
(***************************************************************************)
EXTENDS FullNode, LedgerProofs

-----------------------------------------------------------------------------
(* Chains *)

\* Each block has one transaction.
Singles(chain) == \A i \in DOMAIN chain : Len(chain[i].block_content) = 1

\* The outputs of a chain that can be spent add up to what was granted.
Conserves(chain) ==
    /\ ProperChain(chain)
    /\ IsFiniteSet(Unspent(chain)) /\ AmountOf(chain, Unspent(chain)) = 100

\* What every chain of the system is.
GoodChain(chain) ==
    /\ IsChain(chain) /\ Linked(chain) /\ Replays(chain) /\ Singles(chain)
    /\ PlainPool => Conserves(chain)

\* An output of a chain that nothing in it spends.
LEMMA UnspentOutputs ==
    ASSUME NEW c, NEW input
    PROVE  input \in Unspent(c) <=>
              /\ \E tx \in TransactionsIn(c) :
                    input \in OutputsAt(tx, DOMAIN tx.dict_of_outputs)
              /\ \A tx \in TransactionsIn(c) : input \notin Inputs(tx)
  BY DEF Unspent, OutputsAt

LEMMA UnspentExist ==
    ASSUME NEW c, ProperChain(c)
    PROVE  \A input \in Unspent(c) : OutputExists(c, input)
  <1> SUFFICES ASSUME NEW input \in Unspent(c)
               PROVE  OutputExists(c, input)
    OBVIOUS
  <1>1. PICK tx \in TransactionsIn(c) : input \in OutputsAt(tx, DOMAIN tx.dict_of_outputs)
    BY UnspentOutputs
  <1> QED
    BY <1>1, AmountFound DEF OutputsAt

LEMMA GenesisConserves == Conserves(<<Genesis>>)
  <1> DEFINE tx == Transaction(<<>>, <<[address |-> GenesisAddress, amount |-> 100]>>)
             c  == <<Genesis>>
  <1>1. /\ TransactionsIn(c) = {tx} /\ IsProper(tx) /\ Inputs(tx) = {}
        /\ DOMAIN tx.dict_of_outputs = {1} /\ ProperChain(c)
        /\ tx.dict_of_outputs[1] = [address |-> GenesisAddress, amount |-> 100]
    BY GenesisChain DEF Genesis
  <1> HIDE DEF tx, c
  <1>2. Unspent(c) = OutputsAt(tx, {1})
    BY <1>1, UnspentOutputs
  <1>3. IsFiniteSet(OutputsAt(tx, {1})) /\ AmountOf(c, OutputsAt(tx, {1})) = PaidAt(tx, {1})
    BY <1>1, AmountOfOutputs
  <1>4. tx.dict_of_outputs[1].amount = 100 /\ 100 \in Int
    BY <1>1
  <1>5. PaidAt(tx, {1}) = 100
    BY <1>4, PaidAtOne
  <1> QED
    BY <1>1, <1>2, <1>3, <1>5 DEF Conserves, c

\* Check 5 balances what a transaction takes from the unspent outputs with what
\* it adds to them, and check 3 sees to it that it takes it from those.
LEMMA MinedConserves ==
    ASSUME PlainPool, NEW c, IsChain(c), Conserves(c), NEW tx \in Tx,
           ValidateBlock(c, Block(<<tx>>)), NEW mined \in MineBlock(c, Block(<<tx>>))
    PROVE  Conserves(AddBlockToDb(c, mined))
  <1> DEFINE d   == AddBlockToDb(c, mined)
             all == DOMAIN tx.dict_of_outputs
             S   == Unspent(c)
  <1>1. TransactionsIn(d) = TransactionsIn(c) \cup {tx}
    BY MinedTransactions
  <1> HIDE DEF d
  <1>2. ValidTransaction(c, tx)
    BY ValidatedAlone
  <1>3. IsProper(tx)
    BY <1>2 DEF PlainPool, IsPlain, IsProper, ValidTransaction
  <1>4. /\ ProperChain(c) /\ ProperChain(d)
        /\ IsFiniteSet(S) /\ \A input \in S : OutputExists(c, input)
    BY <1>1, <1>2, <1>3, ChainStaysProper, UnspentExist DEF Conserves
  <1>5. CASE \A other \in TransactionsIn(c) : other.txhash # tx.txhash
    <2> DEFINE U == Inputs(tx)
               N == OutputsAt(tx, all)
    <2>1. ASSUME NEW input \in U
          PROVE  input \in S /\ input \notin N
      <3>1. PICK h \in DOMAIN tx.dict_of_inputs : input = <<h, tx.dict_of_inputs[h]>>
        BY DEF Inputs
      <3>2. IsSpendable(c, input)
        BY <1>2 DEF ValidTransaction
      <3>3. PICK source \in TransactionsIn(c) :
               /\ source.txhash = input[1]
               /\ OutputIndex(source.dict_of_outputs, input[2]) \in DOMAIN source.dict_of_outputs
        BY <3>2 DEF IsSpendable, OutputExists
      <3>4. input[2] \in Nat /\ input = <<input[1], input[2]>>
        BY <3>1 DEF PlainPool, IsPlain
      <3>5. OutputIndex(source.dict_of_outputs, input[2]) = input[2] + 1
        BY <3>4 DEF OutputIndex
      <3>6. /\ input[2] + 1 \in DOMAIN source.dict_of_outputs
            /\ input = <<source.txhash, (input[2] + 1) - 1>>
        BY <3>3, <3>4, <3>5
      <3>7. input \in OutputsAt(source, DOMAIN source.dict_of_outputs)
        BY <3>6 DEF OutputsAt
      <3>8. input \in S
        BY <3>2, <3>7, UnspentOutputs DEF IsSpendable
      <3>9. input \notin N
        BY <1>5, <3>3 DEF OutputsAt
      <3> QED
        BY <3>8, <3>9
    <2>2. ASSUME NEW other \in TransactionsIn(c), NEW input \in Inputs(other)
          PROVE  input \notin N
      <3>1. OutputExists(c, input)
        BY <1>4 DEF ProperChain
      <3> QED
        BY <1>5, <3>1 DEF OutputExists, OutputsAt
    <2>3. Unspent(d) = (S \ U) \cup N
      <3>1. ASSUME NEW input
            PROVE  input \in Unspent(d) <=> input \in (S \ U) \cup N
        <4>1. input \in Unspent(d) <=>
                 /\ \/ \E other \in TransactionsIn(c) :
                          input \in OutputsAt(other, DOMAIN other.dict_of_outputs)
                    \/ input \in N
                 /\ \A other \in TransactionsIn(c) : input \notin Inputs(other)
                 /\ input \notin U
          BY <1>1, UnspentOutputs
        <4>2. input \in S <=>
                 /\ \E other \in TransactionsIn(c) :
                       input \in OutputsAt(other, DOMAIN other.dict_of_outputs)
                 /\ \A other \in TransactionsIn(c) : input \notin Inputs(other)
          BY UnspentOutputs
        <4> HIDE DEF S, U, N
        <4> QED
          BY <2>1, <2>2, <4>1, <4>2
      <3> QED
        BY <3>1
    <2>4. U \subseteq S
      BY <2>1
    <2> HIDE DEF S, U
    <2>5. /\ IsFiniteSet((S \ U) \cup N)
          /\ AmountOf(d, (S \ U) \cup N) = AmountOf(c, S) - AmountOf(c, U) + PaidAt(tx, all)
          /\ AmountOf(c, S) \in Int /\ AmountOf(c, U) \in Int /\ PaidAt(tx, all) \in Int
      BY <1>1, <1>2, <1>3, <1>4, <1>5, <2>4, AmountAfter
    <2>6. AmountOf(c, U) = PaidAt(tx, all)
      BY <1>2, AmountsAreSums DEF ValidTransaction, U
    <2>7. AmountOf(c, S) = 100
      BY DEF Conserves, S
    <2> QED
      BY <1>4, <2>3, <2>5, <2>6, <2>7 DEF Conserves, d
  <1>6. CASE \E other \in TransactionsIn(c) : other.txhash = tx.txhash
    <2>1. PICK other \in TransactionsIn(c) : other.txhash = tx.txhash
      BY <1>6
    <2>2. Inputs(tx) = {} /\ other.dict_of_outputs = tx.dict_of_outputs
      BY <1>2, <1>4, <2>1, ValidIsNew
    <2>3. OutputsAt(tx, all) = OutputsAt(other, DOMAIN other.dict_of_outputs)
      BY <2>1, <2>2 DEF OutputsAt
    <2>4. Unspent(d) = S
      <3>1. ASSUME NEW input
            PROVE  input \in Unspent(d) <=> input \in Unspent(c)
        <4>1. input \in Unspent(d) <=>
                 /\ \/ \E any \in TransactionsIn(c) :
                          input \in OutputsAt(any, DOMAIN any.dict_of_outputs)
                    \/ input \in OutputsAt(tx, all)
                 /\ \A any \in TransactionsIn(c) : input \notin Inputs(any)
          BY <1>1, <2>2, UnspentOutputs
        <4> QED
          BY <2>1, <2>3, <4>1, UnspentOutputs
      <3> QED
        BY <3>1
    <2>5. AmountOf(d, S) = AmountOf(c, S)
      <3> HIDE DEF S
      <3>1. TransactionsIn(c) \subseteq TransactionsIn(d)
        BY <1>1
      <3> QED
        BY <1>4, <3>1, AmountOfOld
    <2> QED
      BY <1>4, <2>4, <2>5 DEF Conserves, d
  <1> QED
    BY <1>5, <1>6

\* A stack of received databases with the one that process is called with.
LEMMA StackOneMore ==
    ASSUME NEW stack, IsChain(stack), NEW c
    PROVE  /\ IsChain(stack \o <<c>>) /\ IsChain(stack \o <<>>)
           /\ stack \o <<>> = stack
           /\ Range(stack \o <<c>>) = Range(stack) \cup {c}
           /\ stack = <<>> => stack \o <<c>> = <<c>>
  <1> DEFINE T == Range(stack) \cup {c}
  <1>1. stack \in Seq(T) /\ <<c>> \in Seq(T)
    BY SeqMonotonic DEF IsChain
  <1>2. stack \o <<c>> \in Seq(T) /\ stack \o <<>> = stack
    BY <1>1, ConcatProperties, ConcatEmptySeq
  <1>3. Range(stack \o <<c>>) = Range(stack) \cup Range(<<c>>)
    BY <1>1, RangeConcatenation
  <1>4. Range(<<c>>) = {c}
    BY DEF Range
  <1>5. <<>> \o <<c>> = <<c>>
    BY <1>1, ConcatEmptySeq
  <1> QED
    BY <1>2, <1>3, <1>4, <1>5, SequencesAreChains

\* What block creation writes is a good chain again, one block longer.
LEMMA ExtensionsAreGood ==
    ASSUME NEW c, GoodChain(c), NEW stack \in Seq(Tx), Len(stack) = 1,
           ~BlockFails(c, stack),
           NEW d \in Extensions(c, stack)
    PROVE  /\ GoodChain(d)
           /\ Len(d) = Len(c) + 1
           /\ SubSeq(d, 1, Len(c)) = c
           /\ d # Unreadable
  <1>1. PICK mined \in MineBlock(c, Block(stack)) : d = Append(c, Link(c, mined))
    BY DEF Extensions, AddBlockToDb
  <1> DEFINE b == Link(c, mined)
  <1>2. /\ b.block_content = stack
        /\ b.metadata.id = LastBlock(c).metadata.id + 1
        /\ b.metadata.prev_block_hash = BlockHash(LastBlock(c))
        /\ b.metadata.block_content_hash = Sha256(stack)
        /\ MeetsTarget(BlockHash(b))
    BY MinedBlock
  <1> HIDE DEF b
  <1>3. /\ IsChain(d)
        /\ Len(c) \in Nat /\ DOMAIN c = 1..Len(c)
        /\ Len(d) = Len(c) + 1
        /\ DOMAIN d = 1..(Len(c) + 1)
        /\ \A i \in 1..Len(c) : d[i] = c[i]
        /\ d[Len(c) + 1] = b
        /\ \A i \in 1..(Len(c) + 1) : SubSeq(d, 1, i - 1) = SubSeq(c, 1, i - 1)
    BY <1>1, AppendToChain DEF GoodChain, b
  <1>4. c # <<>> /\ Len(c) \in Nat \ {0}
    BY EmptySeq DEF GoodChain, Linked, IsChain
  <1>5. SubSeq(d, 1, Len(c)) = c
    <2>1. SubSeq(c, 1, Len(c)) = c
      BY SubSeqFull DEF GoodChain, IsChain
    <2>2. Len(c) + 1 \in 1..(Len(c) + 1) /\ (Len(c) + 1) - 1 = Len(c)
      BY <1>3
    <2> QED
      BY <1>3, <2>1, <2>2
  <1>6. Linked(d)
    <2>1. d # <<>> /\ d[1] = Genesis
      BY <1>3, <1>4 DEF GoodChain, Linked
    <2>2. ASSUME NEW i \in DOMAIN d
          PROVE  /\ d[i].metadata.id = i - 1
                 /\ d[i].metadata.block_content_hash = Sha256(d[i].block_content)
      <3>1. CASE i \in 1..Len(c)
        BY <3>1, <1>3 DEF GoodChain, Linked
      <3>2. CASE i = Len(c) + 1
        <4>1. LastBlock(c).metadata.id = Len(c) - 1
          BY <1>3, <1>4 DEF GoodChain, Linked, LastBlock
        <4> QED
          BY <3>2, <4>1, <1>2, <1>3
      <3> QED
        BY <1>3, <3>1, <3>2
    <2>3. ASSUME NEW i \in DOMAIN d \ {1}
          PROVE  /\ d[i].metadata.prev_block_hash = BlockHash(d[i - 1])
                 /\ MeetsTarget(BlockHash(d[i]))
      <3>1. CASE i \in 1..Len(c)
        <4>1. d[i] = c[i] /\ d[i - 1] = c[i - 1] /\ i \in DOMAIN c \ {1}
          BY <3>1, <1>3
        <4> QED
          BY <4>1 DEF GoodChain, Linked
      <3>2. CASE i = Len(c) + 1
        <4>1. d[i] = b /\ d[i - 1] = LastBlock(c)
          BY <3>2, <1>3, <1>4 DEF LastBlock
        <4> QED
          BY <4>1, <1>2
      <3> QED
        BY <1>3, <3>1, <3>2
    <2> QED
      BY <2>1, <2>2, <2>3 DEF Linked
  <1>7. Replays(d)
    <2> SUFFICES ASSUME NEW i \in DOMAIN d \ {1}
                 PROVE  ValidateBlock(SubSeq(d, 1, i - 1), Block(d[i].block_content))
      BY DEF Replays
    <2>1. CASE i \in 1..Len(c)
      <3>1. d[i] = c[i] /\ SubSeq(d, 1, i - 1) = SubSeq(c, 1, i - 1) /\ i \in DOMAIN c \ {1}
        BY <2>1, <1>3
      <3> QED
        BY <3>1 DEF GoodChain, Replays
    <2>2. CASE i = Len(c) + 1
      <3>1. SubSeq(d, 1, i - 1) = c /\ d[i].block_content = stack
        BY <2>2, <1>2, <1>3, <1>5
      <3>2. ValidateBlock(c, Block(stack))
        <4>1. Len(<<>>) = 0
          OBVIOUS
        <4> QED
          BY <4>1 DEF BlockFails
      <3> QED
        BY <3>1, <3>2
    <2> QED
      BY <1>3, <2>1, <2>2
  <1>8. d # Unreadable
    BY <1>3 DEF Unreadable
  <1>9. Singles(d)
    BY <1>2, <1>3 DEF Singles, GoodChain
  <1>10. ASSUME PlainPool
         PROVE  Conserves(d)
    <2>1. stack = <<stack[1]>> /\ stack[1] \in Tx
      OBVIOUS
    <2>2. ValidateBlock(c, Block(stack))
      <3>1. stack # <<>>
        BY EmptySeq
      <3> QED
        BY <3>1 DEF BlockFails
    <2>3. d = AddBlockToDb(c, mined)
      BY <1>1 DEF AddBlockToDb
    <2>4. IsChain(c) /\ Conserves(c)
      BY <1>10 DEF GoodChain
    <2> QED
      BY <1>10, <2>1, <2>2, <2>3, <2>4, MinedConserves
  <1> QED
    BY <1>3, <1>5, <1>6, <1>7, <1>8, <1>9, <1>10 DEF GoodChain

-----------------------------------------------------------------------------
(* The inductive invariant *)

\* What a database file may hold.
Sound(chain) == chain = Unreadable \/ GoodChain(chain)

Drained(n) ==
    /\ received_transactions_stack[n] # <<>> => Poisoned(n)
    /\ received_databases_stack[n] # <<>> => database[n] = Unreadable

\* The chain a node has is sound because those it is sent are, and those are
\* because the ones other nodes have were.  That the stacks are drained is
\* needed too: a database that is received while another one is on the stack
\* would stay there, and one that is received after a block was made would be
\* compared with the database that has the block.
NodeInv(n) ==
    /\ Sound(database[n])
    /\ received_transactions_stack[n] \in Seq(Tx)
    /\ IsChain(received_databases_stack[n])
    /\ \A chain \in Range(received_databases_stack[n]) : GoodChain(chain)
    /\ clients[n] \subseteq Tx
    /\ \A chain \in outgoing[n] : GoodChain(chain)
    /\ \A gossip \in incoming[n] :
          /\ gossip = [from |-> gossip.from, chain |-> gossip.chain]
          /\ gossip.from \in Node /\ Neighbor[gossip.from] = n
          /\ GoodChain(gossip.chain)
    /\ up[n] \in BOOLEAN
    /\ Drained(n)

\* Every variable that is a function is one on the nodes.
OnNodes ==
    /\ database = [n \in Node |-> database[n]]
    /\ received_transactions_stack = [n \in Node |-> received_transactions_stack[n]]
    /\ received_databases_stack = [n \in Node |-> received_databases_stack[n]]
    /\ clients = [n \in Node |-> clients[n]]
    /\ outgoing = [n \in Node |-> outgoing[n]]
    /\ incoming = [n \in Node |-> incoming[n]]
    /\ up = [n \in Node |-> up[n]]

IInv ==
    /\ OnNodes
    /\ \A n \in Node : NodeInv(n)
    /\ broadcasts \in 0..MaxBroadcasts
    /\ faults \in 0..MaxFaults

\* The genesis block alone is a good chain.
LEMMA GenesisIsGood == GoodChain(<<Genesis>>)
  <1>1. IsChain(<<Genesis>>)
    <2>1. <<Genesis>> \in Seq({Genesis})
      OBVIOUS
    <2> QED
      BY <2>1, SequencesAreChains
  <1>2. /\ Genesis.metadata.id = 0
        /\ Genesis.metadata.block_content_hash = Sha256(Genesis.block_content)
    BY DEF Genesis, GenesisBlock, Block
  <1>3. /\ Len(<<Genesis>>) = 1 /\ DOMAIN <<Genesis>> = {1}
        /\ <<Genesis>>[1] = Genesis /\ <<Genesis>> # <<>>
    OBVIOUS
  <1>4. Len(Genesis.block_content) = 1
    BY DEF Genesis, GenesisBlock, Block
  <1> QED
    BY <1>1, <1>2, <1>3, <1>4, GenesisConserves DEF GoodChain, Linked, Replays, Singles

LEMMA InitInv == Init => IInv
  <1> SUFFICES ASSUME Init
               PROVE  IInv
    OBVIOUS
  <1>1. OnNodes
    BY DEF Init, OnNodes
  <1>2. ASSUME NEW n \in Node
        PROVE  NodeInv(n)
    <2>1. Sound(database[n])
      BY GenesisIsGood DEF Init, Sound
    <2>2. IsChain(<<>>) /\ Range(<<>>) = {}
      BY NothingIsAChain
    <2> QED
      BY <2>1, <2>2 DEF Init, NodeInv, Drained
  <1> QED
    BY <1>1, <1>2, BoundsAssumption DEF Init, IInv

-----------------------------------------------------------------------------
(* What process does *)

\* Whatever is stacked on top of an invalid block's transactions, the block
\* stays invalid.
LEMMA PoisonStays ==
    ASSUME NEW c, NEW stack \in Seq(Tx), NEW more \in Seq(Tx), BlockFails(c, stack)
    PROVE  BlockFails(c, stack \o more)
  <1> DEFINE all == stack \o more
  <1>1. /\ all \in Seq(Tx) /\ Len(all) = Len(stack) + Len(more)
        /\ \A i \in 1..(Len(stack) + Len(more)) :
              all[i] = IF i <= Len(stack) THEN stack[i] ELSE more[i - Len(stack)]
    BY ConcatProperties
  <1>2. /\ Len(stack) \in Nat /\ Len(more) \in Nat
        /\ DOMAIN stack = 1..Len(stack) /\ DOMAIN all = 1..Len(all)
    BY <1>1, LenProperties
  <1>3. \A i \in DOMAIN stack : i \in DOMAIN all /\ all[i] = stack[i]
    BY <1>1, <1>2
  <1>4. all # <<>>
    BY ConcatEqualIffEmpty, ConcatSimplifications DEF BlockFails
  <1> HIDE DEF all
  <1>5. ASSUME c # Unreadable, ValidateBlock(c, Block(all))
        PROVE  ValidateBlock(c, Block(stack))
    <2>1. /\ Block(all).metadata.id # 1
          /\ Block(all).block_content = all /\ Block(stack).block_content = stack
      BY DEF Block
    <2>2. \A tx \in Range(all) : ValidTransaction(c, tx)
      BY <1>5, <2>1 DEF ValidateBlock, TransactionsOf
    <2>3. NoConflict(all)
      BY <1>5, <2>1 DEF ValidateBlock
    <2>4. \A tx \in Range(stack) : ValidTransaction(c, tx)
      BY <1>3, <2>2 DEF Range
    <2>5. NoConflict(stack)
      BY <1>3, <2>3 DEF NoConflict
    <2> QED
      BY <2>1, <2>4, <2>5 DEF ValidateBlock, TransactionsOf
  <1> QED
    BY <1>4, <1>5 DEF BlockFails, all

\* The consensus step, with a stack that holds more than what was just
\* received only if the own database cannot be read.
LEMMA ConsensusKeepsInv ==
    ASSUME OnNodes, NEW n \in Node, NEW own, Sound(own),
           NEW stack, IsChain(stack),
           own # Unreadable => stack = <<>> \/ \E c : GoodChain(c) /\ stack = <<c>>,
           Consensus(n, own, stack)
    PROVE  /\ database' = [database EXCEPT ![n] = database'[n]]
           /\ received_databases_stack' =
                [received_databases_stack EXCEPT ![n] = received_databases_stack'[n]]
           /\ Sound(database'[n])
           /\ \/ database'[n] = own
              \/ /\ Len(stack) = 1 /\ database'[n] = stack[1]
                 /\ own # Unreadable /\ Len(database'[n]) > Len(own)
           /\ received_databases_stack'[n] \in {<<>>, stack}
           /\ received_databases_stack'[n] # <<>> => database'[n] = Unreadable
  <1>1. /\ database = [m \in Node |-> database[m]]
        /\ received_databases_stack = [m \in Node |-> received_databases_stack[m]]
    BY DEF OnNodes
  <1>2. CASE Len(stack) = 1 /\ own # Unreadable
    <2>1. /\ database' = [database EXCEPT ![n] = LongestOf(own, stack[1])]
          /\ received_databases_stack' = [received_databases_stack EXCEPT ![n] = <<>>]
      BY <1>2 DEF Consensus
    <2>2. database'[n] = LongestOf(own, stack[1]) /\ received_databases_stack'[n] = <<>>
      BY <1>1, <2>1
    <2>3. PICK c : GoodChain(c) /\ stack = <<c>>
      <3>1. Len(<<>>) = 0
        OBVIOUS
      <3> QED
        BY <3>1, <1>2
    <2>4. database'[n] = own \/ (database'[n] = c /\ Len(c) > Len(own))
      BY <2>2, <2>3 DEF LongestOf
    <2>5. stack[1] = c
      BY <2>3
    <2>6. /\ database' = [database EXCEPT ![n] = database'[n]]
          /\ received_databases_stack' =
                [received_databases_stack EXCEPT ![n] = received_databases_stack'[n]]
      BY <2>1, <2>2
    <2>7. Sound(database'[n])
      BY <2>3, <2>4 DEF Sound
    <2> QED
      BY <1>2, <2>2, <2>3, <2>4, <2>5, <2>6, <2>7
  <1>3. CASE ~(Len(stack) = 1 /\ own # Unreadable)
    <2>1. /\ database' = [database EXCEPT ![n] = own]
          /\ received_databases_stack' = [received_databases_stack EXCEPT ![n] = stack]
      BY <1>3 DEF Consensus
    <2>2. database'[n] = own /\ received_databases_stack'[n] = stack
      BY <1>1, <2>1
    <2>3. stack # <<>> => own = Unreadable
      <3> SUFFICES ASSUME own # Unreadable, NEW c, stack = <<c>>
                   PROVE  FALSE
        OBVIOUS
      <3>1. Len(stack) = 1
        OBVIOUS
      <3> QED
        BY <3>1, <1>3
    <2>4. /\ database' = [database EXCEPT ![n] = database'[n]]
          /\ received_databases_stack' =
                [received_databases_stack EXCEPT ![n] = received_databases_stack'[n]]
      BY <2>1, <2>2
    <2> QED
      BY <2>2, <2>3, <2>4
  <1> QED
    BY <1>2, <1>3

\* The three things process may do to the database of n and the databases it
\* sends: nothing (it raises, or there is nothing to do), mine and send a
\* block, or adopt the received database.
Idles(n, connections) ==
    database'[n] = database[n] /\ outgoing'[n] = connections

Mines(n, connections) ==
    \E stack \in Seq(Tx) :
        /\ Len(stack) = 1 /\ ~BlockFails(database[n], stack)
        /\ database'[n] \in Extensions(database[n], stack)
        /\ outgoing'[n] = connections \cup {database'[n]}

Adopts(n, chain, connections) ==
    /\ database[n] # Unreadable
    /\ Len(chain) = 1 /\ database'[n] = chain[1]
    /\ Len(chain[1]) > Len(database[n])
    /\ outgoing'[n] = connections

\* Only n's entries change.
OnlyOf(n) ==
    /\ database' = [database EXCEPT ![n] = database'[n]]
    /\ received_transactions_stack' =
          [received_transactions_stack EXCEPT ![n] = received_transactions_stack'[n]]
    /\ received_databases_stack' =
          [received_databases_stack EXCEPT ![n] = received_databases_stack'[n]]
    /\ outgoing' = [outgoing EXCEPT ![n] = outgoing'[n]]

LEMMA ProcessKeepsInv ==
    ASSUME IInv, NEW n \in Node,
           NEW tx \in Seq(Tx), tx = <<>> \/ Len(tx) = 1,
           NEW chain, chain = <<>> \/ \E c : GoodChain(c) /\ chain = <<c>>,
           tx = <<>> \/ chain = <<>>,
           NEW connections, connections \subseteq outgoing[n],
           Process(n, tx, chain, connections)
    PROVE  /\ OnlyOf(n)
           /\ \/ Idles(n, connections)
              \/ Mines(n, connections)
              \/ Adopts(n, chain, connections)
           /\ Sound(database'[n])
           /\ received_transactions_stack'[n] \in Seq(Tx)
           /\ IsChain(received_databases_stack'[n])
           /\ \A c \in Range(received_databases_stack'[n]) : GoodChain(c)
           /\ \A c \in outgoing'[n] : GoodChain(c)
           /\ Drained(n)'
  <1> DEFINE stack == received_transactions_stack[n] \o tx
             databases == received_databases_stack[n] \o chain
  <1>1. /\ NodeInv(n) /\ OnNodes
        /\ database = [m \in Node |-> database[m]]
        /\ received_transactions_stack = [m \in Node |-> received_transactions_stack[m]]
        /\ received_databases_stack = [m \in Node |-> received_databases_stack[m]]
        /\ outgoing = [m \in Node |-> outgoing[m]]
    BY DEF IInv, OnNodes
  <1>2. stack \in Seq(Tx)
    BY <1>1, ConcatProperties DEF NodeInv
  <1>3. IsChain(databases) /\ \A c \in Range(databases) : GoodChain(c)
    <2>1. CASE chain = <<>>
      BY <1>1, <2>1, StackOneMore DEF NodeInv
    <2>2. ASSUME NEW c, GoodChain(c), chain = <<c>>
          PROVE  IsChain(databases) /\ \A d \in Range(databases) : GoodChain(d)
      BY <1>1, <2>2, StackOneMore DEF NodeInv
    <2> QED
      BY <2>1, <2>2
  <1>4. database[n] # Unreadable => databases = chain
    <2>1. database[n] # Unreadable => received_databases_stack[n] = <<>>
      BY <1>1 DEF NodeInv, Drained
    <2> QED
      BY <2>1, NothingIsAChain, StackOneMore
  <1> HIDE DEF stack, databases
  <1>5. CASE /\ BlockFails(database[n], stack)
             /\ received_transactions_stack' =
                  [received_transactions_stack EXCEPT ![n] = stack]
             /\ outgoing' = [outgoing EXCEPT ![n] = connections]
             /\ UNCHANGED <<database, received_databases_stack>>
    <2>1. /\ received_transactions_stack'[n] = stack
          /\ outgoing'[n] = connections
          /\ database' = database /\ received_databases_stack' = received_databases_stack
      BY <1>1, <1>5
    <2>2. OnlyOf(n)
      BY <1>1, <1>5, <2>1 DEF OnlyOf
    <2>3. Idles(n, connections)
      BY <2>1 DEF Idles
    <2>4. Drained(n)'
      BY <1>1, <1>5, <2>1 DEF NodeInv, Drained, Poisoned
    <2> QED
      BY <1>1, <1>2, <2>1, <2>2, <2>3, <2>4 DEF NodeInv
  <1>6. CASE /\ stack = <<>>
             /\ outgoing' = [outgoing EXCEPT ![n] = connections]
             /\ Consensus(n, database[n], databases)
             /\ UNCHANGED received_transactions_stack
    <2>1. /\ database' = [database EXCEPT ![n] = database'[n]]
          /\ received_databases_stack' =
                [received_databases_stack EXCEPT ![n] = received_databases_stack'[n]]
          /\ Sound(database'[n])
          /\ \/ database'[n] = database[n]
             \/ /\ Len(databases) = 1 /\ database'[n] = databases[1]
                /\ database[n] # Unreadable /\ Len(database'[n]) > Len(database[n])
          /\ received_databases_stack'[n] \in {<<>>, databases}
          /\ received_databases_stack'[n] # <<>> => database'[n] = Unreadable
      BY <1>1, <1>3, <1>4, <1>6, ConsensusKeepsInv DEF NodeInv
    <2>2. received_transactions_stack[n] = <<>>
      BY <1>1, <1>6, ConcatEqualIffEmpty DEF NodeInv, stack
    <2>3. outgoing'[n] = connections
      BY <1>1, <1>6
    <2>4. OnlyOf(n)
      BY <1>1, <1>6, <2>1, <2>3 DEF OnlyOf
    <2>5. Idles(n, connections) \/ Adopts(n, chain, connections)
      BY <1>4, <2>1, <2>3 DEF Idles, Adopts
    <2>6. Drained(n)'
      BY <1>6, <2>1, <2>2 DEF Drained
    <2>7. /\ IsChain(received_databases_stack'[n])
          /\ \A c \in Range(received_databases_stack'[n]) : GoodChain(c)
      BY <1>3, <2>1, NothingIsAChain
    <2> QED
      BY <1>1, <1>6, <2>1, <2>3, <2>4, <2>5, <2>6, <2>7 DEF NodeInv
  <1>7. CASE /\ stack # <<>> /\ ~BlockFails(database[n], stack)
             /\ \E extended \in Extensions(database[n], stack) :
                   /\ outgoing' = [outgoing EXCEPT ![n] = connections \cup {extended}]
                   /\ Consensus(n, extended, databases)
             /\ received_transactions_stack' =
                  [received_transactions_stack EXCEPT ![n] = <<>>]
    <2>1. PICK extended \in Extensions(database[n], stack) :
             /\ outgoing' = [outgoing EXCEPT ![n] = connections \cup {extended}]
             /\ Consensus(n, extended, databases)
      BY <1>7
    <2>2. database[n] # Unreadable /\ GoodChain(database[n])
      BY <1>1, <2>1 DEF Extensions, NodeInv, Sound
    <2>3. received_transactions_stack[n] = <<>>
      <3>1. received_transactions_stack[n] # <<>> =>
               BlockFails(database[n], received_transactions_stack[n])
        BY <1>1 DEF NodeInv, Drained, Poisoned
      <3> QED
        BY <1>1, <1>7, <3>1, PoisonStays DEF NodeInv, stack
    <2>4. stack = tx
      BY <2>3, ConcatEmptySeq DEF stack
    <2>5. Len(stack) = 1
      BY <1>7, <2>4
    <2>6. GoodChain(extended) /\ extended # Unreadable
      BY <1>2, <1>7, <2>2, <2>5, ExtensionsAreGood
    <2>7. databases = <<>>
      BY <1>4, <1>7, <2>2, <2>4
    <2>8. /\ database' = [database EXCEPT ![n] = database'[n]]
          /\ received_databases_stack' =
                [received_databases_stack EXCEPT ![n] = received_databases_stack'[n]]
          /\ database'[n] = extended
          /\ received_databases_stack'[n] = <<>>
      <3>1. Len(databases) # 1
        BY <2>7
      <3> QED
        BY <1>1, <1>3, <2>1, <2>6, <2>7, <3>1, ConsensusKeepsInv DEF Sound
    <2>9. /\ received_transactions_stack'[n] = <<>>
          /\ outgoing'[n] = connections \cup {extended}
      BY <1>1, <1>7, <2>1
    <2>10. OnlyOf(n)
      BY <1>1, <1>7, <2>1, <2>8, <2>9 DEF OnlyOf
    <2>11. Mines(n, connections)
      <3>1. /\ stack \in Seq(Tx) /\ Len(stack) = 1 /\ ~BlockFails(database[n], stack)
            /\ database'[n] \in Extensions(database[n], stack)
            /\ outgoing'[n] = connections \cup {database'[n]}
        BY <1>2, <1>7, <2>5, <2>8, <2>9
      <3> HIDE DEF stack
      <3> QED
        BY <3>1 DEF Mines
    <2>12. Drained(n)'
      BY <2>8, <2>9 DEF Drained
    <2> QED
      BY <1>1, <2>6, <2>8, <2>9, <2>10, <2>11, <2>12, NothingIsAChain DEF NodeInv, Sound
  <1> QED
    BY <1>5, <1>6, <1>7 DEF Process, stack, databases

-----------------------------------------------------------------------------
(* Every step keeps the invariant *)

\* A round of n in which process is called and connections other than those
\* of n change at most by one good chain.
LEMMA RoundKeepsInv ==
    ASSUME IInv, NEW n \in Node,
           NEW tx \in Seq(Tx), tx = <<>> \/ Len(tx) = 1,
           NEW chain, chain = <<>> \/ \E c : GoodChain(c) /\ chain = <<c>>,
           tx = <<>> \/ chain = <<>>,
           NEW connections, connections \subseteq outgoing[n],
           Process(n, tx, chain, connections),
           clients' = [m \in Node |-> clients'[m]],
           \A m \in Node : clients'[m] \subseteq clients[m],
           incoming' = [m \in Node |-> incoming'[m]],
           \A m \in Node : \A gossip \in incoming'[m] :
               \/ gossip \in incoming[m]
               \/ /\ m = Neighbor[n]
                  /\ \E c : gossip = [from |-> n, chain |-> c] /\ GoodChain(c),
           UNCHANGED <<up, broadcasts, faults>>
    PROVE  IInv'
  <1>1. /\ OnlyOf(n)
        /\ Sound(database'[n])
        /\ received_transactions_stack'[n] \in Seq(Tx)
        /\ IsChain(received_databases_stack'[n])
        /\ \A c \in Range(received_databases_stack'[n]) : GoodChain(c)
        /\ \A c \in outgoing'[n] : GoodChain(c)
        /\ Drained(n)'
    BY ProcessKeepsInv
  <1>2. OnNodes'
    BY <1>1 DEF IInv, OnNodes, OnlyOf
  <1>3. ASSUME NEW m \in Node
        PROVE  NodeInv(m)'
    <2>1. NodeInv(m)
      BY DEF IInv
    <2>2. /\ clients'[m] \subseteq Tx
          /\ up'[m] \in BOOLEAN
      BY <2>1 DEF NodeInv
    <2>3. ASSUME NEW gossip \in incoming'[m]
          PROVE  /\ gossip = [from |-> gossip.from, chain |-> gossip.chain]
                 /\ gossip.from \in Node /\ Neighbor[gossip.from] = m
                 /\ GoodChain(gossip.chain)
      <3>1. CASE gossip \in incoming[m]
        BY <2>1, <3>1 DEF NodeInv
      <3>2. ASSUME NEW c, m = Neighbor[n],
                   gossip = [from |-> n, chain |-> c], GoodChain(c)
            PROVE  /\ gossip = [from |-> gossip.from, chain |-> gossip.chain]
                   /\ gossip.from \in Node /\ Neighbor[gossip.from] = m
                   /\ GoodChain(gossip.chain)
        BY <3>2
      <3> QED
        BY <3>1, <3>2
    <2>4. CASE m = n
      BY <1>1, <2>2, <2>3, <2>4 DEF NodeInv
    <2>5. CASE m # n
      <3>1. /\ database'[m] = database[m]
            /\ received_transactions_stack'[m] = received_transactions_stack[m]
            /\ received_databases_stack'[m] = received_databases_stack[m]
            /\ outgoing'[m] = outgoing[m]
        BY <1>1, <2>5 DEF IInv, OnNodes, OnlyOf
      <3>2. Drained(m)'
        BY <2>1, <3>1 DEF NodeInv, Drained, Poisoned
      <3> QED
        BY <2>1, <2>2, <2>3, <3>1, <3>2 DEF NodeInv
    <2> QED
      BY <2>4, <2>5
  <1> QED
    BY <1>2, <1>3 DEF IInv

\* A step that drops chains and transactions from connections, and changes
\* nothing else but whether a process runs and how much of a bound is used.
LEMMA DropKeepsInv ==
    ASSUME IInv,
           clients' = [m \in Node |-> clients'[m]],
           outgoing' = [m \in Node |-> outgoing'[m]],
           incoming' = [m \in Node |-> incoming'[m]],
           up' = [m \in Node |-> up'[m]],
           \A m \in Node : /\ clients'[m] \subseteq Tx
                           /\ outgoing'[m] \subseteq outgoing[m]
                           /\ incoming'[m] \subseteq incoming[m]
                           /\ up'[m] \in BOOLEAN,
           UNCHANGED <<database, stacks>>,
           broadcasts' \in 0..MaxBroadcasts, faults' \in 0..MaxFaults
    PROVE  IInv'
  <1>1. OnNodes'
    BY DEF IInv, OnNodes, stacks
  <1>2. ASSUME NEW m \in Node
        PROVE  NodeInv(m)'
    <2>1. NodeInv(m)
      BY DEF IInv
    <2>2. Drained(m)'
      BY <2>1 DEF NodeInv, Drained, Poisoned, stacks
    <2> QED
      BY <2>1, <2>2 DEF NodeInv, stacks
  <1> QED
    BY <1>1, <1>2 DEF IInv

\* What ends with a process is a part of the invariant that may end.
LEMMA StopKeepsInv ==
    ASSUME IInv, NEW n \in Node, Stop(n),
           \/ UNCHANGED database
           \/ database' = [database EXCEPT ![n] = Unreadable]
    PROVE  IInv'
  <1>1. /\ database' = [m \in Node |-> database'[m]]
        /\ database'[n] \in {database[n], Unreadable}
        /\ \A m \in Node \ {n} : database'[m] = database[m]
    BY DEF IInv, OnNodes
  <1>2. /\ received_transactions_stack' =
              [received_transactions_stack EXCEPT ![n] = <<>>]
        /\ received_databases_stack' = [received_databases_stack EXCEPT ![n] = <<>>]
        /\ clients' = [clients EXCEPT ![n] = {}]
        /\ outgoing' = [m \in Node |->
                            IF n \in {m, Neighbor[m]} THEN {} ELSE outgoing[m]]
        /\ incoming' = [incoming EXCEPT ![n] = {}]
        /\ up' = [up EXCEPT ![n] = FALSE]
        /\ broadcasts' = broadcasts
        /\ faults' \in 0..MaxFaults
    BY BoundsAssumption DEF Stop, IInv
  <1>3. OnNodes'
    BY <1>1, <1>2 DEF IInv, OnNodes
  <1>4. ASSUME NEW m \in Node
        PROVE  NodeInv(m)'
    <2>1. NodeInv(m)
      BY DEF IInv
    <2>2. \A chain \in outgoing'[m] : GoodChain(chain)
      BY <1>2, <2>1 DEF NodeInv
    <2>3. CASE m = n
      <3>1. /\ received_transactions_stack'[m] = <<>>
            /\ received_databases_stack'[m] = <<>>
            /\ clients'[m] = {} /\ incoming'[m] = {} /\ up'[m] = FALSE
        BY <1>2, <2>3 DEF IInv, OnNodes
      <3>2. Sound(database'[m])
        BY <1>1, <2>1, <2>3 DEF NodeInv, Sound
      <3>3. Drained(m)'
        BY <3>1 DEF Drained
      <3>4. /\ IsChain(received_databases_stack'[m])
            /\ Range(received_databases_stack'[m]) = {}
            /\ received_transactions_stack'[m] \in Seq(Tx)
        BY <3>1, NothingIsAChain
      <3> QED
        BY <2>2, <3>1, <3>2, <3>3, <3>4 DEF NodeInv
    <2>4. CASE m # n
      <3>1. /\ database'[m] = database[m]
            /\ received_transactions_stack'[m] = received_transactions_stack[m]
            /\ received_databases_stack'[m] = received_databases_stack[m]
            /\ clients'[m] = clients[m] /\ incoming'[m] = incoming[m] /\ up'[m] = up[m]
        BY <1>1, <1>2, <2>4 DEF IInv, OnNodes
      <3>2. Drained(m)'
        BY <2>1, <3>1 DEF NodeInv, Drained, Poisoned
      <3> QED
        BY <2>1, <2>2, <3>1, <3>2 DEF NodeInv
    <2> QED
      BY <2>3, <2>4
  <1> QED
    BY <1>2, <1>3, <1>4 DEF IInv

LEMMA NextInv == IInv /\ [Next]_vars => IInv'
  <1> SUFFICES ASSUME IInv, [Next]_vars
               PROVE  IInv'
    OBVIOUS
  <1>1. /\ clients = [m \in Node |-> clients[m]]
        /\ outgoing = [m \in Node |-> outgoing[m]]
        /\ incoming = [m \in Node |-> incoming[m]]
        /\ up = [m \in Node |-> up[m]]
        /\ broadcasts \in 0..MaxBroadcasts /\ faults \in 0..MaxFaults
    BY DEF IInv, OnNodes
  <1>2. \A m \in Node : NodeInv(m) /\ clients[m] \subseteq Tx /\ up[m] \in BOOLEAN
    BY DEF IInv, NodeInv
  <1>3. ASSUME NEW n \in Node, NEW tx \in Tx, Broadcast(n, tx)
        PROVE  IInv'
    <2>1. /\ clients' = [m \in Node |-> clients'[m]]
          /\ \A m \in Node : clients'[m] \subseteq Tx
      BY <1>1, <1>2, <1>3 DEF Broadcast
    <2>2. broadcasts' \in 0..MaxBroadcasts
      BY <1>1, <1>3, BoundsAssumption DEF Broadcast
    <2> QED
      BY <1>1, <1>2, <1>3, <2>1, <2>2, DropKeepsInv DEF Broadcast, stacks
  <1>4. ASSUME NEW n \in Node, NEW tx \in clients[n], ClientRound(n, tx)
        PROVE  IInv'
    <2>1. /\ clients' = [m \in Node |-> clients'[m]]
          /\ \A m \in Node : clients'[m] \subseteq clients[m]
      BY <1>1, <1>4 DEF ClientRound
    <2>2. incoming' = [m \in Node |-> incoming'[m]] /\ incoming' = incoming
      BY <1>1, <1>4 DEF ClientRound
    <2>3. <<tx>> \in Seq(Tx) /\ Len(<<tx>>) = 1 /\ Process(n, <<tx>>, <<>>, outgoing[n])
      BY <1>2, <1>4 DEF ClientRound
    <2> QED
      BY <1>4, <2>1, <2>2, <2>3, RoundKeepsInv DEF ClientRound
  <1>5. ASSUME NEW n \in Node, NEW chain \in outgoing[n], GossipSentRound(n, chain)
        PROVE  IInv'
    <2>1. GoodChain(chain)
      BY <1>2 DEF NodeInv
    <2>2. /\ clients' = [m \in Node |-> clients'[m]]
          /\ \A m \in Node : clients'[m] \subseteq clients[m]
      BY <1>1, <1>5 DEF GossipSentRound
    <2>3. /\ incoming' = [m \in Node |-> incoming'[m]]
          /\ \A m \in Node : \A gossip \in incoming'[m] :
                \/ gossip \in incoming[m]
                \/ m = Neighbor[n] /\ gossip = [from |-> n, chain |-> chain]
      BY <1>1, <1>5, NeighborAssumption DEF GossipSentRound
    <2>4. /\ <<>> \in Seq(Tx) /\ outgoing[n] \ {chain} \subseteq outgoing[n]
          /\ Process(n, <<>>, <<>>, outgoing[n] \ {chain})
          /\ UNCHANGED <<up, broadcasts, faults>>
      BY <1>5 DEF GossipSentRound
    <2> QED
      BY <2>1, <2>2, <2>3, <2>4, RoundKeepsInv
  <1>6. ASSUME NEW n \in Node, NEW chain \in outgoing[n], GossipLostRound(n, chain)
        PROVE  IInv'
    <2>1. /\ outgoing' = [m \in Node |-> outgoing'[m]]
          /\ \A m \in Node : outgoing'[m] \subseteq outgoing[m]
      BY <1>1, <1>6 DEF GossipLostRound
    <2> QED
      BY <1>1, <1>2, <1>6, <2>1, DropKeepsInv DEF GossipLostRound
  <1>7. ASSUME NEW n \in Node, NEW gossip \in incoming[n], GossipReceivedRound(n, gossip)
        PROVE  IInv'
    <2>1. GoodChain(gossip.chain)
      BY <1>2 DEF NodeInv
    <2>2. /\ clients' = [m \in Node |-> clients'[m]]
          /\ \A m \in Node : clients'[m] \subseteq clients[m]
      BY <1>1, <1>7 DEF GossipReceivedRound
    <2>3. /\ incoming' = [m \in Node |-> incoming'[m]]
          /\ \A m \in Node : incoming'[m] \subseteq incoming[m]
      BY <1>1, <1>7 DEF GossipReceivedRound
    <2>4. /\ <<>> \in Seq(Tx)
          /\ Process(n, <<>>, <<gossip.chain>>, outgoing[n])
          /\ UNCHANGED <<up, broadcasts, faults>>
      BY <1>7 DEF GossipReceivedRound
    <2>5. \A m \in Node : \A g \in incoming'[m] : g \in incoming[m]
      BY <2>3
    <2> QED
      BY <2>1, <2>2, <2>3, <2>4, <2>5, RoundKeepsInv
  <1>8. ASSUME NEW n \in Node, PartialRound(n)
        PROVE  IInv'
    <2>1. /\ clients' = [m \in Node |-> clients'[m]]
          /\ outgoing' = [m \in Node |-> outgoing'[m]]
          /\ incoming' = [m \in Node |-> incoming'[m]]
          /\ \A m \in Node : /\ clients'[m] \subseteq clients[m]
                             /\ outgoing'[m] \subseteq outgoing[m]
                             /\ incoming'[m] \subseteq incoming[m]
      <3>1. CASE \E tx \in clients[n] :
                    /\ clients' = [clients EXCEPT ![n] = @ \ {tx}]
                    /\ UNCHANGED <<outgoing, incoming>>
        BY <1>1, <3>1
      <3>2. CASE \E chain \in outgoing[n] :
                    /\ outgoing' = [outgoing EXCEPT ![n] = @ \ {chain}]
                    /\ UNCHANGED <<clients, incoming>>
        BY <1>1, <3>2
      <3>3. CASE \E gossip \in incoming[n] :
                    /\ incoming' = [incoming EXCEPT ![n] = @ \ {gossip}]
                    /\ UNCHANGED <<clients, outgoing>>
        BY <1>1, <3>3
      <3> QED
        BY <1>8, <3>1, <3>2, <3>3 DEF PartialRound
    <2>2. UNCHANGED <<database, stacks, up, broadcasts, faults>>
      BY <1>8 DEF PartialRound
    <2>3. \A m \in Node : clients'[m] \subseteq Tx
      BY <1>2, <2>1
    <2> QED
      BY <1>1, <1>2, <2>1, <2>2, <2>3, DropKeepsInv
  <1>9. ASSUME NEW n \in Node, Crash(n) \/ CrashInWrite(n)
        PROVE  IInv'
    BY <1>9, StopKeepsInv DEF Crash, CrashInWrite
  <1>10. ASSUME NEW n \in Node, Restart(n)
         PROVE  IInv'
    <2>1. up' = [m \in Node |-> up'[m]] /\ \A m \in Node : up'[m] \in BOOLEAN
      BY <1>1, <1>2, <1>10 DEF Restart
    <2> QED
      BY <1>1, <1>2, <1>10, <2>1, DropKeepsInv DEF Restart
  <1>11. CASE UNCHANGED vars
    BY <1>1, <1>2, <1>11, DropKeepsInv DEF vars
  <1> QED
    BY <1>3, <1>4, <1>5, <1>6, <1>7, <1>8, <1>9, <1>10, <1>11
    DEF Next, ClientStep, GossipSentStep, GossipLostStep, GossipReceivedStep

\* The invariant holds in every state.
LEMMA Invariance == Spec => []IInv
  BY InitInv, NextInv, PTL DEF Spec

-----------------------------------------------------------------------------
(* What the invariant says *)

LEMMA ChainsAreGood == IInv => \A chain \in Chains : GoodChain(chain)
  <1> SUFFICES ASSUME IInv, NEW chain \in Chains
               PROVE  GoodChain(chain)
    OBVIOUS
  <1>1. \A n \in Node : NodeInv(n)
    BY DEF IInv
  <1>2. CASE chain \in Transit
    BY <1>1, <1>2 DEF Transit, NodeInv
  <1>3. CASE chain \in {database[n] : n \in Node} \ {Unreadable}
    BY <1>1, <1>3 DEF NodeInv, Sound
  <1>4. CASE chain \in UNION {Range(received_databases_stack[n]) : n \in Node}
    <2>1. PICK n \in Node : chain \in Range(received_databases_stack[n])
      BY <1>4
    <2> QED
      BY <1>1, <2>1 DEF NodeInv
  <1> QED
    BY <1>2, <1>3, <1>4 DEF Chains

\* TypeOK: the variables keep the shape the code gives them.
THEOREM TypeCorrect == Spec => []TypeOK
  <1>1. IInv => TypeOK
    <2> SUFFICES ASSUME IInv
                 PROVE  TypeOK
      OBVIOUS
    <2>1. OnNodes /\ \A n \in Node : NodeInv(n)
      BY DEF IInv
    <2>2. /\ received_transactions_stack \in [Node -> Seq(Tx)]
          /\ clients \in [Node -> SUBSET Tx]
          /\ up \in [Node -> BOOLEAN]
      BY <2>1 DEF OnNodes, NodeInv
    <2>3. \A chain \in Chains : IsChain(chain)
      BY ChainsAreGood DEF GoodChain
    <2> QED
      BY <2>1, <2>2, <2>3 DEF TypeOK, OnNodes, NodeInv, IInv
  <1> QED
    BY <1>1, Invariance, PTL

\* Every chain in the system is linked and meets the target throughout.
THEOREM ChainsLinkedAlways == Spec => []ChainsLinked
  <1>1. IInv => ChainsLinked
    BY ChainsAreGood DEF ChainsLinked, GoodChain
  <1> QED
    BY <1>1, Invariance, PTL

\* No node ever has or sends a chain that its own validate_block would not
\* have let it make, though received databases are not validated.
THEOREM ChainsReplayAlways == Spec => []ChainsReplay
  <1>1. IInv => ChainsReplay
    BY ChainsAreGood DEF ChainsReplay, GoodChain
  <1> QED
    BY <1>1, Invariance, PTL

\* Every block in the system has exactly one transaction.
THEOREM OneTransactionPerBlockAlways == Spec => []OneTransactionPerBlock
  <1>1. IInv => OneTransactionPerBlock
    BY ChainsAreGood DEF OneTransactionPerBlock, GoodChain, Singles
  <1> QED
    BY <1>1, Invariance, PTL

\* MoneyConserved: whatever the nodes mine, send and copy, the outputs that can
\* be spent in a chain add up to the 100 of the genesis block, if no transaction
\* broadcast names an output by a negative position.
THEOREM MoneyConservedAlways ==
    ASSUME PlainPool
    PROVE  Spec => []MoneyConserved
  <1>1. IInv => MoneyConserved
    BY ChainsAreGood DEF MoneyConserved, GoodChain, Conserves, AmountOf
  <1> QED
    BY <1>1, Invariance, PTL

\* Stacks are empty between two rounds, but for a poisoned node's and for
\* one's that cannot read its database.
THEOREM HandlerDrainsAlways == Spec => []HandlerDrains
  <1>1. IInv => HandlerDrains
    BY DEF IInv, NodeInv, Drained, Poisoned, HandlerDrains
  <1> QED
    BY <1>1, Invariance, PTL

\* A valid block spends nothing that a block before it spent.
LEMMA LaterBlockSpendsAnew ==
    ASSUME NEW c, GoodChain(c),
           NEW i \in DOMAIN c, NEW j \in DOMAIN c, i < j,
           NEW k \in DOMAIN c[i].block_content, NEW l \in DOMAIN c[j].block_content
    PROVE  Inputs(c[i].block_content[k]) \cap Inputs(c[j].block_content[l]) = {}
  <1> DEFINE before == SubSeq(c, 1, j - 1)
             tx     == c[j].block_content[l]
             older  == c[i].block_content[k]
  <1>1. c \in Seq(Range(c)) /\ Len(c) \in Nat /\ DOMAIN c = 1..Len(c)
    BY LenProperties DEF GoodChain, IsChain
  <1>2. i \in 1..(j - 1) /\ j - 1 \in Nat /\ j \in DOMAIN c \ {1}
    BY <1>1
  <1>3. before[i] = c[i] /\ i \in DOMAIN before
    <2>1. 1 \in Int /\ j - 1 \in Int
      BY <1>2
    <2>2. \A p \in 1..(j - 1) : c[p] \in Range(c)
      BY <1>1, <1>2, ElementOfSeq
    <2>3. /\ before \in Seq(Range(c))
          /\ Len(before) = IF 1 <= j - 1 THEN (j - 1) - 1 + 1 ELSE 0
          /\ \A p \in 1..((j - 1) - 1 + 1) : before[p] = c[1 + p - 1]
      BY <2>1, <2>2, SubSeqProperties
    <2>4. DOMAIN before = 1..Len(before)
      BY <2>3, LenProperties
    <2> QED
      BY <1>2, <2>3, <2>4
  <1>4. older \in TransactionsIn(before)
    <2>1. older \in TransactionsOf(before[i])
      BY <1>3 DEF TransactionsOf, Range
    <2> HIDE DEF before
    <2> QED
      BY <1>3, <2>1 DEF TransactionsIn
  <1>5. ValidateBlock(before, Block(c[j].block_content))
    BY <1>2 DEF GoodChain, Replays
  <1>6. /\ Block(c[j].block_content).metadata.id # 1
        /\ Block(c[j].block_content).block_content = c[j].block_content
    BY DEF Block
  <1>7. ValidTransaction(before, tx)
    BY <1>5, <1>6 DEF ValidateBlock, TransactionsOf, Range
  <1>8. \A input \in Inputs(tx) : input \notin Inputs(older)
    BY <1>4, <1>7 DEF ValidTransaction, IsSpendable
  <1> QED
    BY <1>8

LEMMA GoodChainsSpendOnce ==
    ASSUME NEW c, GoodChain(c)
    PROVE  SpentOnce(c)
  <1> SUFFICES ASSUME NEW i \in DOMAIN c, NEW j \in DOMAIN c,
                      NEW k \in DOMAIN c[i].block_content,
                      NEW l \in DOMAIN c[j].block_content,
                      <<i, k>> # <<j, l>>
               PROVE  Inputs(c[i].block_content[k]) \cap Inputs(c[j].block_content[l]) = {}
    BY DEF SpentOnce
  <1>1. DOMAIN c = 1..Len(c) /\ Len(c) \in Nat
    BY LenProperties DEF GoodChain, IsChain
  <1>2. CASE i < j
    BY <1>2, LaterBlockSpendsAnew
  <1>3. CASE j < i
    BY <1>3, LaterBlockSpendsAnew
  <1>4. CASE i = j
    <2>1. k # l
      BY <1>4
    <2>2. CASE i = 1
      <3>1. c[1] = Genesis
        BY DEF GoodChain, Linked
      <3>2. Genesis.block_content =
              <<Transaction(<<>>, <<[address |-> GenesisAddress, amount |-> 100]>>)>>
        BY DEF Genesis, GenesisBlock, Block
      <3>3. DOMAIN Genesis.block_content = {1}
        BY <3>2
      <3> QED
        BY <1>4, <2>1, <2>2, <3>1, <3>3
    <2>3. CASE i # 1
      <3>1. ValidateBlock(SubSeq(c, 1, i - 1), Block(c[i].block_content))
        BY <2>3 DEF GoodChain, Replays
      <3>2. /\ Block(c[i].block_content).metadata.id # 1
            /\ Block(c[i].block_content).block_content = c[i].block_content
        BY DEF Block
      <3> QED
        BY <1>4, <2>1, <3>1, <3>2 DEF ValidateBlock, NoConflict
    <2> QED
      BY <2>2, <2>3
  <1> QED
    BY <1>1, <1>2, <1>3, <1>4

\* No output is spent twice in a chain that a node has, sends or is sent.
THEOREM NoDoubleSpendAlways == Spec => []NoDoubleSpend
  <1>1. IInv => NoDoubleSpend
    BY ChainsAreGood, GoodChainsSpendOnce DEF NoDoubleSpend
  <1> QED
    BY <1>1, Invariance, PTL

-----------------------------------------------------------------------------
(* What a step does to databases *)

\* The steps of LongestChain, in the terms of FullNode.
Missed == database' = database /\ Transit' \subseteq Transit

Extended(n) ==
    /\ \E stack \in Seq(Tx) :
          /\ Len(stack) = 1 /\ ~BlockFails(database[n], stack)
          /\ database'[n] \in Extensions(database[n], stack)
    /\ database' = [database EXCEPT ![n] = database'[n]]
    /\ Transit' \subseteq Transit \cup {database'[n]}

Adopted(n) ==
    /\ database[n] # Unreadable
    /\ database'[n] \in Transit /\ Len(database'[n]) > Len(database[n])
    /\ database' = [database EXCEPT ![n] = database'[n]]
    /\ Transit' \subseteq Transit

Destroyed(n) ==
    /\ ~up'[n]
    /\ database' = [database EXCEPT ![n] = Unreadable]
    /\ Transit' \subseteq Transit

\* The chains on connections stay as they are, but for new ones.
LEMMA TransitStep ==
    ASSUME NEW new,
           \A m \in Node : outgoing'[m] \subseteq Transit \cup new,
           \A m \in Node : \A gossip \in incoming'[m] : gossip.chain \in Transit
    PROVE  Transit' \subseteq Transit \cup new
  <1> SUFFICES ASSUME NEW chain \in Transit'
               PROVE  chain \in Transit \cup new
    OBVIOUS
  <1>1. PICK m \in Node : chain \in outgoing'[m] \cup {gossip.chain : gossip \in incoming'[m]}
    BY DEF Transit
  <1> QED
    BY <1>1

LEMMA InTransitIsTransit ==
    ASSUME NEW n \in Node
    PROVE  /\ outgoing[n] \subseteq Transit
           /\ \A gossip \in incoming[n] : gossip.chain \in Transit
  BY DEF Transit

LEMMA RoundEffects ==
    ASSUME IInv, NEW n \in Node,
           NEW tx \in Seq(Tx), tx = <<>> \/ Len(tx) = 1,
           NEW chain, chain = <<>> \/ \E c \in Transit : GoodChain(c) /\ chain = <<c>>,
           tx = <<>> \/ chain = <<>>,
           NEW connections, connections \subseteq outgoing[n],
           Process(n, tx, chain, connections),
           \A m \in Node : \A gossip \in incoming'[m] : gossip.chain \in Transit
    PROVE  Missed \/ Extended(n) \/ Adopted(n)
  <1>1. /\ OnlyOf(n)
        /\ Idles(n, connections) \/ Mines(n, connections) \/ Adopts(n, chain, connections)
    <2>1. chain = <<>> \/ \E c : GoodChain(c) /\ chain = <<c>>
      OBVIOUS
    <2> QED
      BY <2>1, ProcessKeepsInv
  <1>2. OnNodes /\ DOMAIN outgoing = Node /\ DOMAIN database = Node
    BY DEF IInv, OnNodes
  <1>3. \A m \in Node \ {n} : outgoing'[m] = outgoing[m]
    BY <1>1, <1>2 DEF OnlyOf
  <1>4. ASSUME NEW new, outgoing'[n] \subseteq connections \cup new
        PROVE  Transit' \subseteq Transit \cup new
    <2>1. \A m \in Node : outgoing'[m] \subseteq Transit \cup new
      BY <1>3, <1>4, InTransitIsTransit
    <2> QED
      BY <1>2, <2>1, TransitStep
  <1>5. database' = [database EXCEPT ![n] = database'[n]]
    BY <1>1 DEF OnlyOf
  <1>6. CASE Idles(n, connections)
    <2>1. database' = database
      BY <1>2, <1>5, <1>6 DEF Idles, IInv, OnNodes
    <2>2. Transit' \subseteq Transit \cup {}
      BY <1>4, <1>6 DEF Idles
    <2> QED
      BY <2>1, <2>2 DEF Missed
  <1>7. CASE Mines(n, connections)
    <2>1. Transit' \subseteq Transit \cup {database'[n]}
      BY <1>4, <1>7 DEF Mines
    <2> QED
      BY <1>5, <1>7, <2>1 DEF Mines, Extended
  <1>8. CASE Adopts(n, chain, connections)
    <2>1. Transit' \subseteq Transit \cup {}
      BY <1>4, <1>8 DEF Adopts
    <2>2. chain[1] \in Transit
      <3>1. Len(<<>>) = 0
        OBVIOUS
      <3> QED
        BY <3>1, <1>8 DEF Adopts
    <2> QED
      BY <1>5, <1>8, <2>1, <2>2 DEF Adopts, Adopted
  <1> QED
    BY <1>1, <1>6, <1>7, <1>8

\* Chains in transit can only get fewer in a step that drops some.
LEMMA DropEffects ==
    ASSUME \A m \in Node : outgoing'[m] \subseteq outgoing[m] /\ incoming'[m] \subseteq incoming[m]
    PROVE  Transit' \subseteq Transit
  <1>1. /\ \A m \in Node : outgoing'[m] \subseteq Transit \cup {}
        /\ \A m \in Node : \A gossip \in incoming'[m] : gossip.chain \in Transit
    BY InTransitIsTransit
  <1>2. Transit' \subseteq Transit \cup {}
    BY <1>1, TransitStep
  <1> QED
    BY <1>2

LEMMA Effects ==
    ASSUME IInv, [Next]_vars
    PROVE  Missed \/ \E n \in Node : Extended(n) \/ Adopted(n) \/ Destroyed(n)
  <1>1. /\ OnNodes
        /\ clients = [m \in Node |-> clients[m]]
        /\ outgoing = [m \in Node |-> outgoing[m]]
        /\ incoming = [m \in Node |-> incoming[m]]
    BY DEF IInv, OnNodes
  <1>2. \A m \in Node : NodeInv(m) /\ clients[m] \subseteq Tx
    BY DEF IInv, NodeInv
  <1>3. ASSUME NEW n \in Node, NEW tx \in Tx, Broadcast(n, tx)
        PROVE  Missed
    BY <1>1, <1>3, DropEffects DEF Broadcast, Missed
  <1>4. ASSUME NEW n \in Node, NEW tx \in clients[n], ClientRound(n, tx)
        PROVE  Missed \/ Extended(n) \/ Adopted(n)
    <2>1. <<tx>> \in Seq(Tx) /\ Len(<<tx>>) = 1 /\ Process(n, <<tx>>, <<>>, outgoing[n])
      BY <1>2, <1>4 DEF ClientRound
    <2>2. \A m \in Node : \A gossip \in incoming'[m] : gossip.chain \in Transit
      BY <1>4, InTransitIsTransit DEF ClientRound
    <2> QED
      BY <2>1, <2>2, RoundEffects
  <1>5. ASSUME NEW n \in Node, NEW chain \in outgoing[n], GossipSentRound(n, chain)
        PROVE  Missed \/ Extended(n) \/ Adopted(n)
    <2>1. \A m \in Node : \A gossip \in incoming'[m] :
              gossip \in incoming[m] \/ gossip = [from |-> n, chain |-> chain]
      BY <1>1, <1>5, NeighborAssumption DEF GossipSentRound
    <2>2. \A m \in Node : \A gossip \in incoming'[m] : gossip.chain \in Transit
      BY <2>1, InTransitIsTransit
    <2>3. /\ <<>> \in Seq(Tx) /\ outgoing[n] \ {chain} \subseteq outgoing[n]
          /\ Process(n, <<>>, <<>>, outgoing[n] \ {chain})
      BY <1>5 DEF GossipSentRound
    <2> QED
      BY <2>2, <2>3, RoundEffects
  <1>6. ASSUME NEW n \in Node, NEW chain \in outgoing[n], GossipLostRound(n, chain)
        PROVE  Missed
    <2>1. \A m \in Node : outgoing'[m] \subseteq outgoing[m] /\ incoming'[m] \subseteq incoming[m]
      BY <1>1, <1>6 DEF GossipLostRound
    <2> QED
      BY <1>1, <1>6, <2>1, DropEffects DEF GossipLostRound, Missed
  <1>7. ASSUME NEW n \in Node, NEW gossip \in incoming[n], GossipReceivedRound(n, gossip)
        PROVE  Missed \/ Extended(n) \/ Adopted(n)
    <2>1. GoodChain(gossip.chain) /\ gossip.chain \in Transit
      BY <1>2, InTransitIsTransit DEF NodeInv
    <2>2. \A m \in Node : \A g \in incoming'[m] : g \in incoming[m]
      BY <1>1, <1>7 DEF GossipReceivedRound
    <2>3. \A m \in Node : \A g \in incoming'[m] : g.chain \in Transit
      BY <2>2, InTransitIsTransit
    <2>4. <<>> \in Seq(Tx) /\ Process(n, <<>>, <<gossip.chain>>, outgoing[n])
      BY <1>7 DEF GossipReceivedRound
    <2> QED
      BY <2>1, <2>3, <2>4, RoundEffects
  <1>8. ASSUME NEW n \in Node, PartialRound(n)
        PROVE  Missed
    <2>1. \A m \in Node : outgoing'[m] \subseteq outgoing[m] /\ incoming'[m] \subseteq incoming[m]
      BY <1>1, <1>8 DEF PartialRound
    <2> QED
      BY <1>1, <1>8, <2>1, DropEffects DEF PartialRound, Missed
  <1>9. ASSUME NEW n \in Node, Stop(n)
        PROVE  Transit' \subseteq Transit /\ ~up'[n]
    <2>1. \A m \in Node : outgoing'[m] \subseteq outgoing[m] /\ incoming'[m] \subseteq incoming[m]
      BY <1>1, <1>9 DEF Stop
    <2>2. ~up'[n]
      BY <1>9 DEF Stop, IInv, OnNodes
    <2> QED
      BY <1>1, <2>1, <2>2, DropEffects
  <1>10. ASSUME NEW n \in Node, Restart(n)
         PROVE  Missed
    BY <1>1, <1>10, DropEffects DEF Restart, Missed
  <1>11. CASE UNCHANGED vars
    BY <1>1, <1>11, DropEffects DEF vars, Missed
  <1> QED
    BY <1>3, <1>4, <1>5, <1>6, <1>7, <1>8, <1>9, <1>10, <1>11
    DEF Next, ClientStep, GossipSentStep, GossipLostStep, GossipReceivedStep,
        Crash, CrashInWrite, Missed, Destroyed

\* A database is replaced by a longer one or destroyed, and what is destroyed
\* stays so.
LEMMA DatabasesGrow ==
    ASSUME IInv, [Next]_vars, NEW n \in Node, database'[n] # database[n]
    PROVE  \/ Len(database'[n]) > Len(database[n]) /\ database[n] # Unreadable
           \/ database'[n] = Unreadable /\ ~up'[n]
  <1>1. PICK m \in Node : Extended(m) \/ Adopted(m) \/ Destroyed(m)
    BY Effects DEF Missed
  <1>2. database' = [database EXCEPT ![m] = database'[m]] \/ Destroyed(m)
    BY <1>1 DEF Extended, Adopted
  <1>3. m = n
    BY <1>2 DEF IInv, OnNodes, Destroyed
  <1>4. CASE Extended(n)
    <2>1. PICK stack \in Seq(Tx) :
             /\ Len(stack) = 1 /\ ~BlockFails(database[n], stack)
             /\ database'[n] \in Extensions(database[n], stack)
      BY <1>4 DEF Extended
    <2>2. GoodChain(database[n]) /\ database[n] # Unreadable
      BY <2>1 DEF IInv, NodeInv, Sound, Extensions
    <2>3. Len(database'[n]) = Len(database[n]) + 1 /\ Len(database[n]) \in Nat
      BY <2>1, <2>2, ExtensionsAreGood, LenProperties DEF GoodChain, IsChain
    <2> QED
      BY <2>2, <2>3
  <1>5. CASE Adopted(n)
    BY <1>5 DEF Adopted
  <1>6. CASE Destroyed(n)
    BY <1>6 DEF Destroyed, IInv, OnNodes
  <1> QED
    BY <1>1, <1>3, <1>4, <1>5, <1>6

\* A database is replaced by a longer one only, or destroyed by a crash.
THEOREM ChainsOnlyGrowAlways == Spec => ChainsOnlyGrow
  <1> DEFINE Grows(n) ==
        database'[n] # database[n] =>
            \/ Len(database'[n]) > Len(database[n]) /\ database[n] # Unreadable
            \/ database'[n] = Unreadable /\ ~up'[n]
  <1>1. IInv /\ [Next]_vars => \A n \in Node : Grows(n)
    BY DatabasesGrow
  <1>2. IInv /\ [Next]_vars => [\A n \in Node : Grows(n)]_vars
    BY <1>1
  <1> QED
    BY <1>2, Invariance, PTL DEF Spec, ChainsOnlyGrow

\* The nodes implement LongestChain.
THEOREM Implementation == Spec => ImplementsLongestChain
  <1>1. Init => Network!Init
    BY DEF Init, Network!Init, Transit
  <1>2. IInv /\ [Next]_vars => [Network!Next]_Network!vars
    <2> SUFFICES ASSUME IInv, [Next]_vars
                 PROVE  [Network!Next]_Network!vars
      OBVIOUS
    <2>1. CASE Missed
      BY <2>1 DEF Missed, Network!Next, Network!Miss
    <2>2. ASSUME NEW n \in Node, Extended(n)
          PROVE  Network!Extend(n)
      <3>1. PICK stack \in Seq(Tx) :
               /\ Len(stack) = 1 /\ ~BlockFails(database[n], stack)
               /\ database'[n] \in Extensions(database[n], stack)
        BY <2>2 DEF Extended
      <3>2. GoodChain(database[n]) /\ database[n] # Unreadable
        BY <3>1 DEF IInv, NodeInv, Sound, Extensions
      <3>3. Extends(database[n], database'[n])
        BY <3>1, <3>2, ExtensionsAreGood DEF Extends, GoodChain
      <3> QED
        BY <2>2, <3>2, <3>3 DEF Extended, Network!Extend, Network!Becomes
    <2>3. ASSUME NEW n \in Node, Adopted(n)
          PROVE  Network!Adopt(n)
      BY <2>3 DEF Adopted, Network!Adopt, Network!Becomes
    <2>4. ASSUME NEW n \in Node, Destroyed(n)
          PROVE  Network!Lose(n)
      BY <2>4 DEF Destroyed, Network!Lose, Network!Becomes
    <2> QED
      BY <2>1, <2>2, <2>3, <2>4, Effects DEF Network!Next
  <1> QED
    BY <1>1, <1>2, Invariance, PTL DEF Spec, Network!Spec, ImplementsLongestChain

-----------------------------------------------------------------------------
(* A poisoned stack *)

\* A call of process for a poisoned node leaves its database and its poison.
LEMMA ProcessPoisoned ==
    ASSUME IInv, NEW n \in Node, Poisoned(n),
           NEW tx \in Seq(Tx), NEW chain, NEW connections,
           Process(n, tx, chain, connections)
    PROVE  database' = database /\ Poisoned(n)'
  <1>1. /\ received_transactions_stack[n] \in Seq(Tx)
        /\ received_transactions_stack = [m \in Node |-> received_transactions_stack[m]]
    BY DEF IInv, NodeInv, OnNodes
  <1>2. BlockFails(database[n], received_transactions_stack[n] \o tx)
    BY <1>1, PoisonStays DEF Poisoned
  <1>3. received_transactions_stack[n] \o tx # <<>>
    BY <1>2 DEF BlockFails
  <1>4. /\ received_transactions_stack' =
              [received_transactions_stack EXCEPT ![n] = received_transactions_stack[n] \o tx]
        /\ database' = database
    BY <1>2, <1>3 DEF Process
  <1>5. received_transactions_stack'[n] = received_transactions_stack[n] \o tx
    BY <1>1, <1>4
  <1> QED
    BY <1>2, <1>4, <1>5 DEF Poisoned

\* A poisoned node neither mines nor adopts until its process ends.
LEMMA PoisonedStays ==
    ASSUME IInv, [Next]_vars, NEW n \in Node, Poisoned(n), up'[n]
    PROVE  Poisoned(n)' /\ database'[n] = database[n]
  <1>1. CASE UNCHANGED <<database, received_transactions_stack>>
    BY <1>1 DEF Poisoned
  <1>2. ASSUME NEW m \in Node, NEW tx \in Seq(Tx), NEW chain, NEW connections,
               tx = <<>> \/ Len(tx) = 1, connections \subseteq outgoing[m],
               chain = <<>> \/ \E c : GoodChain(c) /\ chain = <<c>>,
               tx = <<>> \/ chain = <<>>,
               Process(m, tx, chain, connections)
        PROVE  Poisoned(n)' /\ database'[n] = database[n]
    <2>1. CASE m = n
      BY <1>2, <2>1, ProcessPoisoned
    <2>2. CASE m # n
      <3>1. OnlyOf(m)
        BY <1>2, ProcessKeepsInv
      <3>2. /\ database'[n] = database[n]
            /\ received_transactions_stack'[n] = received_transactions_stack[n]
        BY <2>2, <3>1 DEF OnlyOf, IInv, OnNodes
      <3> QED
        BY <3>2 DEF Poisoned
    <2> QED
      BY <2>1, <2>2
  <1>3. \A m \in Node : NodeInv(m)
    BY DEF IInv
  <1>4. ASSUME NEW m \in Node, NEW tx \in clients[m], ClientRound(m, tx)
        PROVE  Poisoned(n)' /\ database'[n] = database[n]
    <2>1. <<tx>> \in Seq(Tx) /\ Len(<<tx>>) = 1 /\ Process(m, <<tx>>, <<>>, outgoing[m])
      BY <1>3, <1>4 DEF ClientRound, NodeInv
    <2> QED
      BY <1>2, <2>1
  <1>5. ASSUME NEW m \in Node, NEW chain \in outgoing[m], GossipSentRound(m, chain)
        PROVE  Poisoned(n)' /\ database'[n] = database[n]
    <2>1. /\ <<>> \in Seq(Tx) /\ outgoing[m] \ {chain} \subseteq outgoing[m]
          /\ Process(m, <<>>, <<>>, outgoing[m] \ {chain})
      BY <1>5 DEF GossipSentRound
    <2> QED
      BY <1>2, <2>1
  <1>6. ASSUME NEW m \in Node, NEW gossip \in incoming[m], GossipReceivedRound(m, gossip)
        PROVE  Poisoned(n)' /\ database'[n] = database[n]
    <2>1. /\ <<>> \in Seq(Tx) /\ GoodChain(gossip.chain)
          /\ Process(m, <<>>, <<gossip.chain>>, outgoing[m])
      BY <1>3, <1>6 DEF GossipReceivedRound, NodeInv
    <2> QED
      BY <1>2, <2>1
  <1>7. ASSUME NEW m \in Node, Crash(m) \/ CrashInWrite(m)
        PROVE  Poisoned(n)' /\ database'[n] = database[n]
    <2>1. m # n
      BY <1>7 DEF Crash, CrashInWrite, Stop, IInv, OnNodes
    <2>2. /\ database'[n] = database[n]
          /\ received_transactions_stack'[n] = received_transactions_stack[n]
      BY <1>7, <2>1 DEF Crash, CrashInWrite, Stop, IInv, OnNodes
    <2> QED
      BY <2>2 DEF Poisoned
  <1> QED
    BY <1>1, <1>4, <1>5, <1>6, <1>7
    DEF Next, vars, stacks, ClientStep, GossipSentStep, GossipLostStep,
        GossipReceivedStep, Broadcast, GossipLostRound, PartialRound, Restart

\* Whatever arrives, and whoever else acts, as long as the process runs.
THEOREM PoisonFreezesAlways == Spec => PoisonFreezes
  <1> DEFINE Frozen(n) ==
        Poisoned(n) /\ up'[n] => Poisoned(n)' /\ database'[n] = database[n]
  <1>1. IInv /\ [Next]_vars => \A n \in Node : Frozen(n)
    BY PoisonedStays
  <1>2. IInv /\ [Next]_vars => [\A n \in Node : Frozen(n)]_vars
    BY <1>1
  <1> QED
    BY <1>2, Invariance, PTL DEF Spec, PoisonFreezes

-----------------------------------------------------------------------------
(* Databases on their way to a neighbor *)

\* What n's connections to its neighbor carry after a step.
LEMMA InTransitStep ==
    ASSUME NEW n \in Node, NEW new,
           outgoing'[n] \subseteq InTransit(n) \cup new,
           \A gossip \in incoming'[Neighbor[n]] :
               gossip.from = n => gossip.chain \in InTransit(n)
    PROVE  InTransit(n)' \subseteq InTransit(n) \cup new
  <1> SUFFICES ASSUME NEW chain \in InTransit(n)'
               PROVE  chain \in InTransit(n) \cup new
    OBVIOUS
  <1>1. \/ chain \in outgoing'[n]
        \/ \E gossip \in incoming'[Neighbor[n]] : gossip.from = n /\ chain = gossip.chain
    BY DEF InTransit
  <1> QED
    BY <1>1

\* What is on the connections of n is in transit from it.
LEMMA InTransitHas ==
    ASSUME NEW n \in Node
    PROVE  /\ outgoing[n] \subseteq InTransit(n)
           /\ \A gossip \in incoming[Neighbor[n]] :
                  gossip.from = n => gossip.chain \in InTransit(n)
  BY DEF InTransit

\* What is in transit is a good chain.
LEMMA InTransitIsGood ==
    ASSUME IInv, NEW n \in Node, NEW chain \in InTransit(n)
    PROVE  GoodChain(chain)
  <1>1. NodeInv(n) /\ Neighbor[n] \in Node /\ NodeInv(Neighbor[n])
    BY NeighborAssumption DEF IInv
  <1>2. CASE chain \in outgoing[n]
    BY <1>1, <1>2 DEF NodeInv
  <1>3. CASE \E gossip \in incoming[Neighbor[n]] : chain = gossip.chain
    BY <1>1, <1>3 DEF NodeInv
  <1> QED
    BY <1>2, <1>3 DEF InTransit

\* Only the round that makes a block puts a database on its way, and it is
\* the one that the node has after the round.
LEMMA RoundSends ==
    ASSUME IInv, NEW m \in Node, NEW n \in Node,
           NEW tx \in Seq(Tx), tx = <<>> \/ Len(tx) = 1,
           NEW chain, chain = <<>> \/ \E c : GoodChain(c) /\ chain = <<c>>,
           tx = <<>> \/ chain = <<>>,
           NEW connections, connections \subseteq outgoing[m],
           Process(m, tx, chain, connections),
           \A gossip \in incoming'[Neighbor[n]] :
               gossip.from = n => gossip.chain \in InTransit(n)
    PROVE  InTransit(n)' \subseteq InTransit(n) \cup {database'[n]}
  <1>1. /\ OnlyOf(m)
        /\ \/ Idles(m, connections)
           \/ Mines(m, connections)
           \/ Adopts(m, chain, connections)
    BY ProcessKeepsInv
  <1>2. outgoing'[m] \subseteq outgoing[m] \cup {database'[m]}
    BY <1>1 DEF Idles, Mines, Adopts
  <1>3. m # n => outgoing'[n] = outgoing[n]
    BY <1>1 DEF OnlyOf, IInv, OnNodes
  <1>4. outgoing'[n] \subseteq InTransit(n) \cup {database'[n]}
    BY <1>2, <1>3, InTransitHas
  <1> QED
    BY <1>4, InTransitStep

LEMMA SendsItsOwn ==
    ASSUME IInv, [Next]_vars, NEW n \in Node
    PROVE  InTransit(n)' \subseteq InTransit(n) \cup {database'[n]}
  <1>1. /\ outgoing = [m \in Node |-> outgoing[m]]
        /\ incoming = [m \in Node |-> incoming[m]]
        /\ Neighbor[n] \in Node
    BY NeighborAssumption DEF IInv, OnNodes
  <1>2. \A m \in Node : NodeInv(m)
    BY DEF IInv
  <1>3. ASSUME \A m \in Node : outgoing'[m] \subseteq outgoing[m]
                               /\ incoming'[m] \subseteq incoming[m]
        PROVE  InTransit(n)' \subseteq InTransit(n) \cup {database'[n]}
    BY <1>1, <1>3, InTransitHas, InTransitStep
  <1>4. ASSUME NEW m \in Node, NEW tx \in clients[m], ClientRound(m, tx)
        PROVE  InTransit(n)' \subseteq InTransit(n) \cup {database'[n]}
    <2>1. <<tx>> \in Seq(Tx) /\ Len(<<tx>>) = 1 /\ Process(m, <<tx>>, <<>>, outgoing[m])
      BY <1>2, <1>4 DEF ClientRound, NodeInv
    <2>2. incoming' = incoming
      BY <1>4 DEF ClientRound
    <2> QED
      BY <2>1, <2>2, RoundSends, InTransitHas
  <1>5. ASSUME NEW m \in Node, NEW chain \in outgoing[m], GossipSentRound(m, chain)
        PROVE  InTransit(n)' \subseteq InTransit(n) \cup {database'[n]}
    <2>1. /\ <<>> \in Seq(Tx) /\ outgoing[m] \ {chain} \subseteq outgoing[m]
          /\ Process(m, <<>>, <<>>, outgoing[m] \ {chain})
      BY <1>5 DEF GossipSentRound
    <2>2. \A gossip \in incoming'[Neighbor[n]] :
              gossip \in incoming[Neighbor[n]] \/ gossip = [from |-> m, chain |-> chain]
      BY <1>1, <1>5 DEF GossipSentRound
    <2>3. \A gossip \in incoming'[Neighbor[n]] :
              gossip.from = n => gossip.chain \in InTransit(n)
      BY <2>2, InTransitHas
    <2> QED
      BY <2>1, <2>3, RoundSends
  <1>6. ASSUME NEW m \in Node, NEW gossip \in incoming[m], GossipReceivedRound(m, gossip)
        PROVE  InTransit(n)' \subseteq InTransit(n) \cup {database'[n]}
    <2>1. /\ <<>> \in Seq(Tx) /\ GoodChain(gossip.chain)
          /\ Process(m, <<>>, <<gossip.chain>>, outgoing[m])
      BY <1>2, <1>6 DEF GossipReceivedRound, NodeInv
    <2>2. incoming'[Neighbor[n]] \subseteq incoming[Neighbor[n]]
      BY <1>1, <1>6 DEF GossipReceivedRound
    <2>3. \A g \in incoming'[Neighbor[n]] : g.from = n => g.chain \in InTransit(n)
      BY <2>2, InTransitHas
    <2> QED
      BY <2>1, <2>3, RoundSends
  <1>7. ASSUME NEW m \in Node, PartialRound(m)
        PROVE  InTransit(n)' \subseteq InTransit(n) \cup {database'[n]}
    BY <1>1, <1>3, <1>7 DEF PartialRound
  <1>8. ASSUME NEW m \in Node, Stop(m)
        PROVE  InTransit(n)' \subseteq InTransit(n) \cup {database'[n]}
    BY <1>1, <1>3, <1>8 DEF Stop
  <1>9. ASSUME NEW m \in Node, NEW chain \in outgoing[m], GossipLostRound(m, chain)
        PROVE  InTransit(n)' \subseteq InTransit(n) \cup {database'[n]}
    BY <1>1, <1>3, <1>9 DEF GossipLostRound
  <1>10. ASSUME UNCHANGED <<outgoing, incoming>>
         PROVE  InTransit(n)' \subseteq InTransit(n) \cup {database'[n]}
    BY <1>3, <1>10
  <1> QED
    BY <1>4, <1>5, <1>6, <1>7, <1>8, <1>9, <1>10
    DEF Next, vars, ClientStep, GossipSentStep, GossipLostStep, GossipReceivedStep,
        Crash, CrashInWrite, Broadcast, Restart

LEMMA TransitBoundedStep == IInv /\ TransitBounded /\ [Next]_vars => TransitBounded'
  <1> SUFFICES ASSUME IInv, TransitBounded, [Next]_vars,
                      NEW n \in Node, database'[n] # Unreadable,
                      NEW chain \in InTransit(n)'
               PROVE  Len(chain) <= Len(database'[n])
    BY DEF TransitBounded
  <1>1. IInv'
    BY NextInv
  <1>2. Len(database'[n]) \in Nat
    <2>1. GoodChain(database'[n])
      BY <1>1 DEF IInv, NodeInv, Sound
    <2> QED
      BY <2>1, LenProperties DEF GoodChain, IsChain
  <1>3. CASE chain \in InTransit(n)
    <2>1. database[n] # Unreadable
      BY DatabasesGrow
    <2>2. Len(chain) <= Len(database[n])
      BY <1>3, <2>1 DEF TransitBounded
    <2>3. Len(chain) \in Nat /\ Len(database[n]) \in Nat
      <3>1. GoodChain(chain) /\ GoodChain(database[n])
        BY <1>3, <2>1, InTransitIsGood DEF IInv, NodeInv, Sound
      <3> QED
        BY <3>1, LenProperties DEF GoodChain, IsChain
    <2>4. Len(database'[n]) >= Len(database[n])
      BY <1>2, <2>3, DatabasesGrow
    <2> QED
      BY <1>2, <2>2, <2>3, <2>4
  <1>4. CASE chain = database'[n]
    BY <1>2, <1>4
  <1> QED
    BY <1>3, <1>4, SendsItsOwn

\* No database in transit is longer than the one its sender has.
THEOREM TransitBoundedAlways == Spec => []TransitBounded
  <1>1. Init => TransitBounded
    BY NeighborAssumption DEF Init, TransitBounded, InTransit
  <1> QED
    BY <1>1, TransitBoundedStep, Invariance, PTL DEF Spec


-----------------------------------------------------------------------------
(* Gossip is owed until it arrives *)

\* As long as nothing crashed, everybody runs and can read the database.
Healthy == faults = 0 => \A n \in Node : up[n] /\ database[n] # Unreadable

\* Only stopping uses up faults, and nothing gives them back.
LEMMA NoFault ==
    ASSUME IInv, [Next]_vars, faults' = 0
    PROVE  faults = 0
  <1>1. faults \in Nat
    BY BoundsAssumption DEF IInv
  <1>2. ASSUME NEW m \in Node, Stop(m)
        PROVE  FALSE
    BY <1>1, <1>2 DEF Stop
  <1>3. ASSUME NEW m \in Node, PartialRound(m)
        PROVE  faults' = faults
    BY <1>3 DEF PartialRound
  <1>4. ASSUME NEW m \in Node,
               \/ \E tx \in clients[m] : ClientRound(m, tx)
               \/ \E chain \in outgoing[m] : GossipSentRound(m, chain)
               \/ \E chain \in outgoing[m] : GossipLostRound(m, chain)
               \/ \E gossip \in incoming[m] : GossipReceivedRound(m, gossip)
        PROVE  faults' = faults
    BY <1>4 DEF ClientRound, GossipSentRound, GossipLostRound, GossipReceivedRound
  <1> QED
    BY <1>2, <1>3, <1>4
    DEF Next, vars, ClientStep, GossipSentStep, GossipLostStep, GossipReceivedStep,
        Broadcast, Crash, CrashInWrite, Restart

LEMMA HealthyStep == IInv /\ Healthy /\ [Next]_vars => Healthy'
  <1> SUFFICES ASSUME IInv, Healthy, [Next]_vars, faults' = 0, NEW n \in Node
               PROVE  up'[n] /\ database'[n] # Unreadable
    BY DEF Healthy
  <1>1. faults \in Nat /\ up = [m \in Node |-> up[m]]
    BY BoundsAssumption DEF IInv, OnNodes
  <1>2. ASSUME NEW m \in Node, Stop(m)
        PROVE  FALSE
    BY <1>1, <1>2 DEF Stop
  <1>3. faults = 0 /\ \A m \in Node : up'[m] = up[m] \/ up'[m]
    BY <1>1, <1>2
    DEF Next, vars, ClientStep, GossipSentStep, GossipLostStep, GossipReceivedStep,
        Broadcast, ClientRound, GossipSentRound, GossipLostRound, GossipReceivedRound,
        PartialRound, Crash, CrashInWrite, Restart
  <1>4. up'[n]
    BY <1>3 DEF Healthy
  <1>5. database[n] # Unreadable
    BY <1>3 DEF Healthy
  <1>6. Len(database[n]) \in Nat /\ Len(Unreadable) = 0
    <2>1. GoodChain(database[n])
      BY <1>5 DEF IInv, NodeInv, Sound
    <2> QED
      BY <2>1, LenProperties DEF GoodChain, IsChain, Unreadable
  <1> QED
    BY <1>4, <1>5, <1>6, DatabasesGrow

\* A node whose database can be read is stuck only when it is poisoned.
LEMMA StuckIsPoisoned ==
    ASSUME IInv, NEW n \in Node, database[n] # Unreadable
    PROVE  Stuck(n) <=> Poisoned(n)
  BY DEF Stuck

\* Nothing that was in transit from n is missing when the connections still
\* have what they had.
LEMMA InTransitKept ==
    ASSUME NEW n \in Node,
           outgoing[n] \subseteq InTransit(n)',
           \A gossip \in incoming[Neighbor[n]] :
               gossip.from = n => gossip.chain \in InTransit(n)'
    PROVE  InTransit(n) \subseteq InTransit(n)'
  BY DEF InTransit

LEMMA InTransitHasNext ==
    ASSUME NEW n \in Node
    PROVE  /\ outgoing'[n] \subseteq InTransit(n)'
           /\ \A gossip \in incoming'[Neighbor[n]] :
                  gossip.from = n => gossip.chain \in InTransit(n)'
  BY DEF InTransit

\* process keeps the connections that are left to it, and those of others.
LEMMA RoundKeepsOutgoing ==
    ASSUME IInv, NEW m \in Node, NEW n \in Node,
           NEW tx \in Seq(Tx), tx = <<>> \/ Len(tx) = 1,
           NEW chain, chain = <<>> \/ \E c : GoodChain(c) /\ chain = <<c>>,
           tx = <<>> \/ chain = <<>>,
           NEW connections, connections \subseteq outgoing[m],
           Process(m, tx, chain, connections)
    PROVE  /\ m = n => connections \subseteq outgoing'[n]
           /\ m # n => outgoing'[n] = outgoing[n]
  <1>1. /\ OnlyOf(m)
        /\ \/ Idles(m, connections)
           \/ Mines(m, connections)
           \/ Adopts(m, chain, connections)
    BY ProcessKeepsInv
  <1> QED
    BY <1>1 DEF Idles, Mines, Adopts, OnlyOf, IInv, OnNodes

\* A node that can go on ends a round with a database at least as long as the
\* one it received.
LEMMA ReceivedIsReached ==
    ASSUME IInv, NEW n \in Node, database[n] # Unreadable, ~Poisoned(n),
           NEW c, GoodChain(c), NEW connections,
           Process(n, <<>>, <<c>>, connections)
    PROVE  Len(database'[n]) >= Len(c)
  <1>1. NodeInv(n) /\ database = [m \in Node |-> database[m]]
    BY DEF IInv, OnNodes
  <1>2. received_transactions_stack[n] = <<>> /\ received_databases_stack[n] = <<>>
    BY <1>1 DEF NodeInv, Drained
  <1>3. <<>> \o <<>> = <<>> /\ <<>> \o <<c>> = <<c>>
    BY ConcatEmptySeq, NothingIsAChain, StackOneMore
  <1>4. Consensus(n, database[n], <<c>>)
    BY <1>2, <1>3 DEF Process, BlockFails
  <1>5. database'[n] = LongestOf(database[n], c)
    <2>1. Len(<<c>>) = 1 /\ <<c>>[1] = c
      OBVIOUS
    <2> QED
      BY <1>1, <1>4, <2>1 DEF Consensus
  <1>6. Len(c) \in Nat /\ Len(database[n]) \in Nat
    <2>1. GoodChain(database[n])
      BY <1>1 DEF NodeInv, Sound
    <2> QED
      BY <2>1, LenProperties DEF GoodChain, IsChain
  <1> QED
    BY <1>5, <1>6 DEF LongestOf

\* What is in transit stays so, until it arrives.
LEMMA TransitArrives ==
    ASSUME IInv, Healthy, [Next]_vars, faults' = 0, faults = 0,
           NEW n \in Node, ~Stuck(n), ~Stuck(Neighbor[n]),
           NEW c \in InTransit(n), c \notin InTransit(n)'
    PROVE  Len(database'[Neighbor[n]]) >= Len(c)
  <1> DEFINE p == Neighbor[n]
  <1>1. /\ outgoing = [m \in Node |-> outgoing[m]]
        /\ incoming = [m \in Node |-> incoming[m]]
        /\ p \in Node
    BY NeighborAssumption DEF IInv, OnNodes
  <1>2. \A m \in Node : NodeInv(m) /\ up[m] /\ database[m] # Unreadable
    BY DEF IInv, Healthy
  <1>3. ~(outgoing[n] \subseteq outgoing'[n] /\ incoming[p] \subseteq incoming'[p])
    BY InTransitKept, InTransitHasNext
  <1>4. ASSUME NEW m \in Node, NEW tx \in clients[m], ClientRound(m, tx)
        PROVE  FALSE
    <2>1. <<tx>> \in Seq(Tx) /\ Len(<<tx>>) = 1 /\ Process(m, <<tx>>, <<>>, outgoing[m])
      BY <1>2, <1>4 DEF ClientRound, NodeInv
    <2>2. outgoing[n] \subseteq outgoing'[n]
      BY <2>1, RoundKeepsOutgoing
    <2> QED
      BY <1>3, <1>4, <2>2 DEF ClientRound
  <1>5. ASSUME NEW m \in Node, NEW chain \in outgoing[m], GossipSentRound(m, chain)
        PROVE  FALSE
    <2>1. /\ <<>> \in Seq(Tx) /\ outgoing[m] \ {chain} \subseteq outgoing[m]
          /\ Process(m, <<>>, <<>>, outgoing[m] \ {chain})
      BY <1>5 DEF GossipSentRound
    <2>2. /\ m = n => outgoing[n] \ {chain} \subseteq outgoing'[n]
          /\ m # n => outgoing[n] \subseteq outgoing'[n]
      BY <2>1, RoundKeepsOutgoing
    <2>3. /\ incoming[p] \subseteq incoming'[p]
          /\ m = n => [from |-> n, chain |-> chain] \in incoming'[p]
      BY <1>1, <1>5 DEF GossipSentRound
    <2>4. m = n => chain \in InTransit(n)'
      BY <2>3, InTransitHasNext
    <2>5. outgoing[n] \subseteq InTransit(n)'
      BY <2>2, <2>4, InTransitHasNext
    <2>6. \A gossip \in incoming[p] : gossip.from = n => gossip.chain \in InTransit(n)'
      BY <2>3, InTransitHasNext
    <2> QED
      BY <2>5, <2>6, InTransitKept
  <1>6. ASSUME NEW m \in Node, NEW chain \in outgoing[m], GossipLostRound(m, chain)
        PROVE  FALSE
    <2>1. m # n
      BY <1>1, <1>2, <1>6 DEF GossipLostRound
    <2> QED
      BY <1>1, <1>3, <1>6, <2>1 DEF GossipLostRound
  <1>7. ASSUME NEW m \in Node, NEW gossip \in incoming[m], GossipReceivedRound(m, gossip)
        PROVE  Len(database'[p]) >= Len(c)
    <2>1. /\ <<>> \in Seq(Tx) /\ GoodChain(gossip.chain)
          /\ Process(m, <<>>, <<gossip.chain>>, outgoing[m])
      BY <1>2, <1>7 DEF GossipReceivedRound, NodeInv
    <2>2. outgoing[n] \subseteq outgoing'[n]
      BY <2>1, RoundKeepsOutgoing
    <2>3. c \in outgoing[n] \/ \E g \in incoming[p] : g.from = n /\ c = g.chain
      BY DEF InTransit
    <2>4. PICK g \in incoming[p] : g.from = n /\ c = g.chain
      BY <2>2, <2>3, InTransitHasNext
    <2>5. g \notin incoming'[p]
      BY <2>4, InTransitHasNext
    <2>6. m = p /\ g = gossip
      BY <1>1, <1>7, <2>5 DEF GossipReceivedRound
    <2>7. ~Poisoned(p)
      BY DEF Stuck
    <2> QED
      BY <1>1, <1>2, <2>1, <2>4, <2>6, <2>7, ReceivedIsReached
  <1>8. ASSUME NEW m \in Node, PartialRound(m)
        PROVE  FALSE
    <2>1. m # n /\ m # p
      BY <1>8 DEF PartialRound
    <2>2. outgoing'[n] = outgoing[n] /\ incoming'[p] = incoming[p]
      BY <1>1, <1>8, <2>1 DEF PartialRound
    <2> QED
      BY <1>3, <2>2
  <1>9. ASSUME NEW m \in Node, Stop(m)
        PROVE  FALSE
    BY <1>9 DEF Stop
  <1>10. ASSUME UNCHANGED <<outgoing, incoming>>
         PROVE  FALSE
    BY <1>3, <1>10
  <1> QED
    BY <1>4, <1>5, <1>6, <1>7, <1>8, <1>9, <1>10
    DEF Next, vars, ClientStep, GossipSentStep, GossipLostStep, GossipReceivedStep,
        Crash, CrashInWrite, Broadcast, Restart


\* A database that changed was mined, and is on its way to the neighbor, or
\* was received from a node that gossips to this one.
LEMMA RoundBrings ==
    ASSUME IInv, NEW m \in Node, NEW n \in Node, database'[n] # database[n],
           NEW tx \in Seq(Tx), tx = <<>> \/ Len(tx) = 1,
           NEW chain, chain = <<>> \/ \E c : GoodChain(c) /\ chain = <<c>>,
           tx = <<>> \/ chain = <<>>,
           NEW connections, connections \subseteq outgoing[m],
           Process(m, tx, chain, connections)
    PROVE  \/ database'[n] \in outgoing'[n]
           \/ m = n /\ Len(chain) = 1 /\ database'[n] = chain[1]
  <1>1. /\ OnlyOf(m)
        /\ \/ Idles(m, connections)
           \/ Mines(m, connections)
           \/ Adopts(m, chain, connections)
    BY ProcessKeepsInv
  <1>2. m = n
    BY <1>1 DEF OnlyOf, IInv, OnNodes
  <1> QED
    BY <1>1, <1>2 DEF Idles, Mines, Adopts

LEMMA DatabaseComesFrom ==
    ASSUME IInv, [Next]_vars, faults' = 0, faults = 0,
           NEW n \in Node, database'[n] # database[n]
    PROVE  \/ database'[n] \in InTransit(n)'
           \/ \E gossip \in incoming[n] : database'[n] = gossip.chain
  <1>1. \A m \in Node : NodeInv(m)
    BY DEF IInv
  <1>2. Len(<<>>) = 0
    OBVIOUS
  <1>3. ASSUME NEW m \in Node, NEW tx \in clients[m], ClientRound(m, tx)
        PROVE  database'[n] \in InTransit(n)'
    <2>1. <<tx>> \in Seq(Tx) /\ Len(<<tx>>) = 1 /\ Process(m, <<tx>>, <<>>, outgoing[m])
      BY <1>1, <1>3 DEF ClientRound, NodeInv
    <2>2. database'[n] \in outgoing'[n] \/ Len(<<>>) = 1
      BY <2>1, RoundBrings
    <2> QED
      BY <1>2, <2>2, InTransitHasNext
  <1>4. ASSUME NEW m \in Node, NEW chain \in outgoing[m], GossipSentRound(m, chain)
        PROVE  database'[n] \in InTransit(n)'
    <2>1. /\ <<>> \in Seq(Tx) /\ outgoing[m] \ {chain} \subseteq outgoing[m]
          /\ Process(m, <<>>, <<>>, outgoing[m] \ {chain})
      BY <1>4 DEF GossipSentRound
    <2>2. database'[n] \in outgoing'[n] \/ Len(<<>>) = 1
      BY <2>1, RoundBrings
    <2> QED
      BY <1>2, <2>2, InTransitHasNext
  <1>5. ASSUME NEW m \in Node, NEW gossip \in incoming[m], GossipReceivedRound(m, gossip)
        PROVE  \/ database'[n] \in InTransit(n)'
               \/ \E g \in incoming[n] : database'[n] = g.chain
    <2>1. /\ <<>> \in Seq(Tx) /\ GoodChain(gossip.chain)
          /\ Process(m, <<>>, <<gossip.chain>>, outgoing[m])
      BY <1>1, <1>5 DEF GossipReceivedRound, NodeInv
    <2>2. \/ database'[n] \in outgoing'[n]
          \/ m = n /\ database'[n] = <<gossip.chain>>[1]
      BY <2>1, RoundBrings
    <2>3. <<gossip.chain>>[1] = gossip.chain
      OBVIOUS
    <2> QED
      BY <2>2, <2>3, InTransitHasNext
  <1>6. ASSUME NEW m \in Node, Stop(m)
        PROVE  FALSE
    BY <1>6 DEF Stop
  <1> QED
    BY <1>3, <1>4, <1>5, <1>6
    DEF Next, vars, ClientStep, GossipSentStep, GossipLostStep, GossipReceivedStep,
        Broadcast, GossipLostRound, PartialRound, Crash, CrashInWrite, Restart

LEMMA GossipOwedStep ==
    IInv /\ Healthy /\ TransitBounded /\ GossipOwed /\ [Next]_vars => GossipOwed'
  <1> SUFFICES ASSUME IInv, Healthy, TransitBounded, GossipOwed, [Next]_vars, faults' = 0,
                      NEW n \in Node, OnlyNeighborGossips(n),
                      ~Stuck(n)', ~Stuck(Neighbor[n])'
               PROVE  \/ Len(database'[n]) <= Len(database'[Neighbor[n]])
                      \/ \E chain \in InTransit(n)' : Len(chain) = Len(database'[n])
    BY DEF GossipOwed
  <1> DEFINE p == Neighbor[n]
  <1>1. p \in Node /\ Neighbor[p] = n
    BY NeighborAssumption DEF OnlyNeighborGossips
  <1>2. IInv' /\ Healthy'
    BY NextInv, HealthyStep
  <1>3. faults = 0
    BY NoFault
  <1>4. ASSUME NEW m \in Node
        PROVE  /\ GoodChain(database[m]) /\ GoodChain(database'[m])
               /\ Len(database[m]) \in Nat /\ Len(database'[m]) \in Nat
               /\ Len(database'[m]) >= Len(database[m])
               /\ Stuck(m) => Stuck(m)'
    <2>1. /\ database[m] # Unreadable /\ database'[m] # Unreadable
          /\ up'[m]
      BY <1>2, <1>3 DEF Healthy
    <2>2. GoodChain(database[m]) /\ GoodChain(database'[m])
      BY <1>2, <2>1 DEF IInv, NodeInv, Sound
    <2>3. Len(database[m]) \in Nat /\ Len(database'[m]) \in Nat
      BY <2>2, LenProperties DEF GoodChain, IsChain
    <2>4. Len(database'[m]) >= Len(database[m])
      BY <2>1, <2>3, DatabasesGrow
    <2>5. Stuck(m) => Stuck(m)'
      BY <2>1, StuckIsPoisoned, PoisonedStays DEF Stuck
    <2> QED
      BY <2>2, <2>3, <2>4, <2>5
  <1>5. ~Stuck(n) /\ ~Stuck(p)
    BY <1>1, <1>4
  <1>6. CASE database'[n] = database[n]
    <2>1. CASE Len(database[n]) <= Len(database[p])
      BY <1>1, <1>4, <1>6, <2>1
    <2>2. ASSUME NEW c \in InTransit(n), Len(c) = Len(database[n])
          PROVE  \/ Len(database'[n]) <= Len(database'[p])
                 \/ \E chain \in InTransit(n)' : Len(chain) = Len(database'[n])
      <3>1. CASE c \in InTransit(n)'
        BY <1>6, <2>2, <3>1
      <3>2. CASE c \notin InTransit(n)'
        <4>1. Len(database'[p]) >= Len(c)
          BY <1>3, <1>5, <3>2, TransitArrives
        <4> QED
          BY <1>1, <1>4, <1>6, <2>2, <4>1
      <3> QED
        BY <3>1, <3>2
    <2> QED
      BY <1>3, <1>5, <2>1, <2>2 DEF GossipOwed
  <1>7. CASE database'[n] # database[n]
    <2>1. CASE database'[n] \in InTransit(n)'
      BY <2>1
    <2>2. ASSUME NEW gossip \in incoming[n], database'[n] = gossip.chain
          PROVE  Len(database'[n]) <= Len(database'[p])
      <3>1. gossip.from \in Node /\ Neighbor[gossip.from] = n
        BY DEF IInv, NodeInv
      <3>2. gossip.from = p
        BY <3>1 DEF OnlyNeighborGossips
      <3>3. gossip.chain \in InTransit(p)
        BY <1>1, <3>2, InTransitHas
      <3>4. Len(gossip.chain) <= Len(database[p])
        BY <1>1, <1>3, <3>3 DEF TransitBounded, Healthy
      <3> QED
        BY <1>1, <1>4, <2>2, <3>4
    <2> QED
      BY <1>3, <1>7, <2>1, <2>2, DatabaseComesFrom
  <1> QED
    BY <1>6, <1>7

\* Unless something crashed or one of the two is stuck, a node that has a
\* longer chain than its neighbor has one of that length on its way there.
THEOREM GossipOwedAlways == Spec => []GossipOwed
  <1>1. Init => Healthy /\ GossipOwed
    <2> SUFFICES ASSUME Init
                 PROVE  Healthy /\ GossipOwed
      OBVIOUS
    <2>1. Healthy
      BY DEF Init, Healthy, Unreadable
    <2>2. \A n \in Node : Len(database[n]) = 1 /\ Neighbor[n] \in Node
      BY NeighborAssumption DEF Init
    <2>3. GossipOwed
      BY <2>2 DEF GossipOwed
    <2> QED
      BY <2>1, <2>3
  <1>2. Init => TransitBounded
    BY NeighborAssumption DEF Init, TransitBounded, InTransit
  <1> QED
    BY <1>1, <1>2, TransitBoundedStep, HealthyStep, GossipOwedStep, Invariance, PTL DEF Spec


=============================================================================
