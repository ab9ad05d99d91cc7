---------------------------- MODULE LedgerProofs ----------------------------
(***************************************************************************)
(* Facts about the operators of Ledger that the proofs about FullNode,     *)
(* ChainFile and Wallet rest on: what a chain is with one block more, that *)
(* a block that was mined has the header it is stored with, and what a     *)
(* valid transaction does to the amounts that can be spent.                *)
(***************************************************************************)
EXTENDS Ledger, SequenceTheorems, SumProofs

\* Any sequence is a chain as far as its type is concerned.
LEMMA SequencesAreChains ==
    ASSUME NEW S, NEW s \in Seq(S)
    PROVE  IsChain(s)
  BY SeqOfRange DEF IsChain

LEMMA NothingIsAChain == IsChain(<<>>) /\ Range(<<>>) = {}
  <1>1. <<>> \in Seq({}) /\ DOMAIN <<>> = {}
    OBVIOUS
  <1> QED
    BY <1>1, SequencesAreChains DEF Range

\* Appending a block to a chain keeps the blocks it has and adds one.
LEMMA AppendToChain ==
    ASSUME NEW c, IsChain(c), NEW b
    PROVE  /\ IsChain(Append(c, b))
           /\ Len(c) \in Nat /\ DOMAIN c = 1..Len(c)
           /\ Len(Append(c, b)) = Len(c) + 1
           /\ DOMAIN Append(c, b) = 1..(Len(c) + 1)
           /\ \A i \in 1..Len(c) : Append(c, b)[i] = c[i]
           /\ Append(c, b)[Len(c) + 1] = b
           /\ \A i \in 1..(Len(c) + 1) :
                 SubSeq(Append(c, b), 1, i - 1) = SubSeq(c, 1, i - 1)
  <1> DEFINE T == Range(c) \cup {b}
             d == Append(c, b)
  <1>1. c \in Seq(T) /\ b \in T
    BY SeqMonotonic DEF IsChain
  <1>2. /\ d \in Seq(T) /\ Len(d) = Len(c) + 1
        /\ \A i \in 1..Len(c) : d[i] = c[i]
        /\ d[Len(c) + 1] = b
    BY <1>1, AppendProperties
  <1>3. Len(c) \in Nat /\ DOMAIN c = 1..Len(c) /\ DOMAIN d = 1..(Len(c) + 1)
    BY <1>1, <1>2, LenProperties
  <1>4. ASSUME NEW i \in 1..(Len(c) + 1)
        PROVE  SubSeq(d, 1, i - 1) = SubSeq(c, 1, i - 1)
    <2>1. \A j \in 1..(i - 1) : c[j] \in T /\ d[j] = c[j]
      BY <1>1, <1>2, <1>3, ElementOfSeq
    <2>2. i - 1 \in Nat
      BY <1>3
    <2>3. /\ SubSeq(c, 1, i - 1) \in Seq(T) /\ SubSeq(d, 1, i - 1) \in Seq(T)
          /\ Len(SubSeq(c, 1, i - 1)) = i - 1 /\ Len(SubSeq(d, 1, i - 1)) = i - 1
          /\ \A j \in 1..(i - 1) : SubSeq(c, 1, i - 1)[j] = c[j]
          /\ \A j \in 1..(i - 1) : SubSeq(d, 1, i - 1)[j] = d[j]
      <3>1. 1 \in Int /\ i - 1 \in Int
        BY <2>2
      <3>2. /\ SubSeq(c, 1, i - 1) \in Seq(T)
            /\ Len(SubSeq(c, 1, i - 1)) = IF 1 <= i - 1 THEN (i - 1) - 1 + 1 ELSE 0
            /\ \A j \in 1..((i - 1) - 1 + 1) : SubSeq(c, 1, i - 1)[j] = c[1 + j - 1]
        BY <2>1, <3>1, SubSeqProperties
      <3>3. /\ SubSeq(d, 1, i - 1) \in Seq(T)
            /\ Len(SubSeq(d, 1, i - 1)) = IF 1 <= i - 1 THEN (i - 1) - 1 + 1 ELSE 0
            /\ \A j \in 1..((i - 1) - 1 + 1) : SubSeq(d, 1, i - 1)[j] = d[1 + j - 1]
        BY <2>1, <3>1, SubSeqProperties
      <3> QED
        BY <2>2, <3>2, <3>3
    <2> QED
      BY <2>1, <2>3, SeqEqual
  <1>5. IsChain(d)
    BY <1>2, SequencesAreChains
  <1> QED
    BY <1>2, <1>3, <1>4, <1>5

\* The header that add_block_to_db writes is the one that mine_block hashed.
LEMMA MinedBlock ==
    ASSUME NEW c, NEW stack, NEW mined \in MineBlock(c, Block(stack))
    PROVE  LET b == Link(c, mined) IN
           /\ b.block_content = stack
           /\ b.metadata.id = LastBlock(c).metadata.id + 1
           /\ b.metadata.prev_block_hash = BlockHash(LastBlock(c))
           /\ b.metadata.block_content_hash = Sha256(stack)
           /\ MeetsTarget(BlockHash(b))
           /\ b = mined
  <1> DEFINE id   == LastBlock(c).metadata.id + 1
             prev == BlockHash(LastBlock(c))
             Header(nonce) == [id                 |-> id,
                               prev_block_hash    |-> prev,
                               nonce              |-> nonce,
                               block_content_hash |-> Sha256(stack)]
  <1> HIDE DEF id, prev
  <1>1. ASSUME NEW i, NEW p, NEW n, NEW h
        PROVE  Link(c, [block_content |-> stack,
                        metadata |-> [id |-> i, prev_block_hash |-> p,
                                      nonce |-> n, block_content_hash |-> h]])
                = [block_content |-> stack,
                   metadata |-> [id |-> id, prev_block_hash |-> prev,
                                 nonce |-> n, block_content_hash |-> h]]
    BY DEF Link, id, prev
  <1>2. Link(c, Block(stack)) = [block_content |-> stack, metadata |-> Header(0)]
    BY <1>1 DEF Block
  <1>3. PICK nonce \in Nonce :
           /\ mined = [Link(c, Block(stack)) EXCEPT !.metadata.nonce = nonce]
           /\ MeetsTarget(BlockHash(mined))
    BY DEF MineBlock
  <1>4. mined = [block_content |-> stack, metadata |-> Header(nonce)]
    BY <1>2, <1>3
  <1>5. Link(c, mined) = mined
    BY <1>1, <1>4
  <1> HIDE DEF Header
  <1>6. mined.block_content = stack /\ mined.metadata = Header(nonce)
    BY <1>4
  <1>7. /\ Header(nonce).id = id /\ Header(nonce).prev_block_hash = prev
        /\ Header(nonce).block_content_hash = Sha256(stack)
    BY DEF Header
  <1> QED
    BY <1>3, <1>5, <1>6, <1>7 DEF id, prev

-----------------------------------------------------------------------------
(* Amounts *)

\* The hash of a transaction is that of its inputs and outputs, and what is
\* added up is finitely many integers.
IsProper(tx) ==
    /\ HasCorrectHash(tx)
    /\ IsFiniteSet(DOMAIN tx.dict_of_inputs)
    /\ IsFiniteSet(DOMAIN tx.dict_of_outputs)
    /\ DOMAIN tx.dict_of_outputs \subseteq Nat \ {0}
    /\ \A p \in DOMAIN tx.dict_of_outputs : tx.dict_of_outputs[p].amount \in Int

\* A chain of such transactions, which spend outputs that are in it.
ProperChain(c) ==
    \A tx \in TransactionsIn(c) :
        IsProper(tx) /\ \A input \in Inputs(tx) : OutputExists(c, input)

\* The inputs for some of the outputs of a transaction, and what these add up to.
OutputsAt(tx, P) == {<<tx.txhash, p - 1>> : p \in P}
PaidAt(tx, P)    == SumFunction([p \in P |-> tx.dict_of_outputs[p].amount])

\* What the outputs that inputs refer to add up to.
AmountOf(c, S) == SumFunction([input \in S |-> GetAmountFromInput(c, input)])

LEMMA AmountsAreSums ==
    /\ \A c, tx : InputAmount(c, tx) = AmountOf(c, Inputs(tx))
    /\ \A tx : OutputAmount(tx) = PaidAt(tx, DOMAIN tx.dict_of_outputs)
  BY DEF InputAmount, OutputAmount, AmountOf, PaidAt

\* The inputs and outputs of a transaction can be told from its hash.
LEMMA SameTransaction ==
    ASSUME NEW tx, HasCorrectHash(tx), NEW other, HasCorrectHash(other),
           tx.txhash = other.txhash
    PROVE  /\ tx.dict_of_inputs = other.dict_of_inputs
           /\ tx.dict_of_outputs = other.dict_of_outputs
           /\ Inputs(tx) = Inputs(other)
  <1>1. ASSUME NEW i, NEW o, NEW j, NEW q, TxHash(i, o) = TxHash(j, q)
        PROVE  i = j /\ o = q
    BY <1>1 DEF TxHash, Sha256
  <1>2. TxHash(tx.dict_of_inputs, tx.dict_of_outputs)
          = TxHash(other.dict_of_inputs, other.dict_of_outputs)
    BY DEF HasCorrectHash
  <1>3. tx.dict_of_inputs = other.dict_of_inputs /\ tx.dict_of_outputs = other.dict_of_outputs
    BY <1>1, <1>2
  <1> QED
    BY <1>3 DEF Inputs

\* A transaction has finitely many inputs.
LEMMA InputsAreFinite ==
    ASSUME NEW tx, IsProper(tx)
    PROVE  IsFiniteSet(Inputs(tx))
  <1> DEFINE D == DOMAIN tx.dict_of_inputs
             e == [h \in D |-> <<h, tx.dict_of_inputs[h]>>]
             S == {e[h] : h \in D}
             F == [input \in S |-> 0]
             G == [h \in D |-> 0]
  <1>1. IsFiniteSet({e[h] : h \in D})
    <2>1. \A x \in D, y \in D : e[x] = e[y] => x = y
      OBVIOUS
    <2>2. \A x \in D : F[e[x]] = G[x] /\ G[x] \in Int
      <3>1. \A x \in D : e[x] \in S
        OBVIOUS
      <3> HIDE DEF e, S
      <3> QED
        BY <3>1
    <2>3. IsFiniteSet(D)
      BY DEF IsProper
    <2> HIDE DEF e, F, G, D
    <2> QED
      BY <2>1, <2>2, <2>3, SumRenamed
  <1>2. {e[h] : h \in D} = Inputs(tx)
    BY DEF Inputs
  <1> QED
    BY <1>1, <1>2

\* The amount of an output of a transaction of the chain.
LEMMA AmountFound ==
    ASSUME NEW c, ProperChain(c), NEW tx \in TransactionsIn(c),
           NEW p \in DOMAIN tx.dict_of_outputs
    PROVE  /\ OutputExists(c, <<tx.txhash, p - 1>>)
           /\ OutputOf(c, <<tx.txhash, p - 1>>) = tx.dict_of_outputs[p]
           /\ GetAmountFromInput(c, <<tx.txhash, p - 1>>) = tx.dict_of_outputs[p].amount
  <1> DEFINE input == <<tx.txhash, p - 1>>
             found == GetTransactionByTxhash(c, tx.txhash)
  <1>1. p \in Nat /\ p > 0
    BY DEF ProperChain, IsProper
  <1>2. \A outputs : OutputIndex(outputs, p - 1) = p
    BY <1>1 DEF OutputIndex
  <1>3. input[1] = tx.txhash /\ input[2] = p - 1
    OBVIOUS
  <1> HIDE DEF input
  <1>4. OutputExists(c, input)
    BY <1>2, <1>3 DEF OutputExists
  <1>5. found \in TransactionsIn(c) /\ found.txhash = tx.txhash
    BY DEF GetTransactionByTxhash
  <1> HIDE DEF found
  <1>6. found.dict_of_outputs = tx.dict_of_outputs
    BY <1>5, SameTransaction DEF ProperChain, IsProper
  <1>7. OutputOf(c, input) = tx.dict_of_outputs[p]
    BY <1>2, <1>3, <1>6 DEF OutputOf, found
  <1> QED
    BY <1>4, <1>7 DEF GetAmountFromInput, input

\* An output that exists has an integer amount, which stays what it is when
\* other transactions are added.
LEMMA AmountKept ==
    ASSUME NEW c, ProperChain(c), NEW d, ProperChain(d),
           TransactionsIn(c) \subseteq TransactionsIn(d), NEW input, OutputExists(c, input)
    PROVE  /\ OutputExists(d, input)
           /\ OutputOf(d, input) = OutputOf(c, input)
           /\ GetAmountFromInput(d, input) = GetAmountFromInput(c, input)
           /\ GetAmountFromInput(c, input) \in Int
  <1> DEFINE f == GetTransactionByTxhash(c, input[1])
             g == GetTransactionByTxhash(d, input[1])
  <1>1. PICK tx \in TransactionsIn(c) :
           /\ tx.txhash = input[1]
           /\ OutputIndex(tx.dict_of_outputs, input[2]) \in DOMAIN tx.dict_of_outputs
    BY DEF OutputExists
  <1>2. f \in TransactionsIn(c) /\ f.txhash = tx.txhash
    BY <1>1 DEF GetTransactionByTxhash
  <1>3. g \in TransactionsIn(d) /\ g.txhash = tx.txhash
    BY <1>1 DEF GetTransactionByTxhash
  <1> HIDE DEF f, g
  <1>4. f.dict_of_outputs = tx.dict_of_outputs
    BY <1>2, SameTransaction DEF ProperChain, IsProper
  <1>5. g.dict_of_outputs = tx.dict_of_outputs
    BY <1>3, SameTransaction DEF ProperChain, IsProper
  <1>6. OutputExists(d, input)
    BY <1>1 DEF OutputExists
  <1>7. OutputOf(c, input) = tx.dict_of_outputs[OutputIndex(tx.dict_of_outputs, input[2])]
    BY <1>4 DEF OutputOf, f
  <1>8. OutputOf(d, input) = OutputOf(c, input)
    BY <1>5, <1>7 DEF OutputOf, g
  <1>9. OutputOf(c, input).amount \in Int
    BY <1>1, <1>7 DEF ProperChain, IsProper
  <1> QED
    BY <1>6, <1>8, <1>9 DEF GetAmountFromInput

\* Outputs that exist add up to an integer, to the sum of any two parts of them,
\* and to the same when other transactions are added.
LEMMA AmountOfOld ==
    ASSUME NEW c, ProperChain(c), NEW d, ProperChain(d),
           TransactionsIn(c) \subseteq TransactionsIn(d),
           NEW S, IsFiniteSet(S), \A input \in S : OutputExists(c, input)
    PROVE  AmountOf(d, S) = AmountOf(c, S) /\ AmountOf(c, S) \in Int
  <1> DEFINE F == [input \in S |-> GetAmountFromInput(c, input)]
             G == [input \in S |-> GetAmountFromInput(d, input)]
  <1>1. \A input \in S : F[input] = G[input] /\ F[input] \in Int
    BY AmountKept
  <1>2. /\ AmountOf(c, S) = SumFunctionOnSet(F, S)
        /\ AmountOf(d, S) = SumFunctionOnSet(G, S)
    BY DEF AmountOf, SumFunction
  <1> HIDE DEF F, G
  <1> QED
    BY <1>1, <1>2, SumCongruent, SumInt

LEMMA AmountOfUnion ==
    ASSUME NEW c, ProperChain(c), NEW S, IsFiniteSet(S), NEW T, IsFiniteSet(T), S \cap T = {},
           \A input \in S \cup T : OutputExists(c, input)
    PROVE  AmountOf(c, S \cup T) = AmountOf(c, S) + AmountOf(c, T)
  <1> DEFINE F(U) == [input \in U |-> GetAmountFromInput(c, input)]
             B == S \cup T
  <1>1. \A input \in B : F(B)[input] \in Int
    BY AmountKept
  <1>2. SumFunctionOnSet(F(B), B) = SumFunctionOnSet(F(B), S) + SumFunctionOnSet(F(B), T)
    <2> HIDE DEF F
    <2> QED
      BY <1>1, SumUnion
  <1>3. /\ \A x \in S : F(B)[x] = F(S)[x]
        /\ \A x \in T : F(B)[x] = F(T)[x]
    OBVIOUS
  <1>4. /\ SumFunctionOnSet(F(B), S) = SumFunctionOnSet(F(S), S)
        /\ SumFunctionOnSet(F(B), T) = SumFunctionOnSet(F(T), T)
    <2> HIDE DEF F
    <2> QED
      BY <1>3, SumCongruent
  <1>5. \A U : AmountOf(c, U) = SumFunctionOnSet(F(U), U)
    BY DEF AmountOf, SumFunction
  <1> HIDE DEF F
  <1> QED
    BY <1>2, <1>4, <1>5

\* The outputs of a transaction of the chain add up to what it pays.
LEMMA AmountOfOutputs ==
    ASSUME NEW c, ProperChain(c), NEW tx \in TransactionsIn(c),
           NEW P, P \subseteq DOMAIN tx.dict_of_outputs
    PROVE  /\ IsFiniteSet(OutputsAt(tx, P))
           /\ AmountOf(c, OutputsAt(tx, P)) = PaidAt(tx, P)
           /\ PaidAt(tx, P) \in Int
           /\ \A input \in OutputsAt(tx, P) : OutputExists(c, input)
  <1> DEFINE e == [p \in P |-> <<tx.txhash, p - 1>>]
             S == {e[p] : p \in P}
             F == [input \in S |-> GetAmountFromInput(c, input)]
             G == [p \in P |-> tx.dict_of_outputs[p].amount]
  <1>1. P \subseteq Nat /\ IsFiniteSet(P)
    BY FS_Subset DEF ProperChain, IsProper
  <1>2. S = OutputsAt(tx, P)
    BY DEF OutputsAt
  <1>3. \A x \in P, y \in P : e[x] = e[y] => x = y
    BY <1>1
  <1>4. \A x \in P : F[e[x]] = G[x] /\ G[x] \in Int
    <2> SUFFICES ASSUME NEW x \in P
                 PROVE  F[e[x]] = G[x] /\ G[x] \in Int
      OBVIOUS
    <2>1. e[x] = <<tx.txhash, x - 1>> /\ e[x] \in S
      OBVIOUS
    <2>2. GetAmountFromInput(c, <<tx.txhash, x - 1>>) = tx.dict_of_outputs[x].amount
      BY AmountFound
    <2>3. tx.dict_of_outputs[x].amount \in Int
      BY DEF ProperChain, IsProper
    <2> HIDE DEF e, S
    <2> QED
      BY <2>1, <2>2, <2>3
  <1>5. \A input \in OutputsAt(tx, P) : OutputExists(c, input)
    BY AmountFound DEF OutputsAt
  <1>6. AmountOf(c, S) = SumFunctionOnSet(F, S) /\ PaidAt(tx, P) = SumFunctionOnSet(G, P)
    BY DEF AmountOf, PaidAt, SumFunction
  <1> HIDE DEF e, F, G
  <1>7. IsFiniteSet(S) /\ SumFunctionOnSet(F, S) = SumFunctionOnSet(G, P)
    BY <1>1, <1>3, <1>4, SumRenamed
  <1>8. SumFunctionOnSet(G, P) \in Int
    BY <1>1, <1>4, SumInt
  <1> QED
    BY <1>2, <1>5, <1>6, <1>7, <1>8

\* A valid transaction that has inputs is not in the chain yet: it would have
\* spent them already.
LEMMA ValidIsNew ==
    ASSUME NEW c, ProperChain(c), NEW tx, ValidTransaction(c, tx),
           NEW other \in TransactionsIn(c), other.txhash = tx.txhash
    PROVE  Inputs(tx) = {} /\ other.dict_of_outputs = tx.dict_of_outputs
  <1>1. /\ Inputs(tx) = Inputs(other)
        /\ other.dict_of_outputs = tx.dict_of_outputs
    BY SameTransaction DEF ProperChain, IsProper, ValidTransaction
  <1>2. \A input \in Inputs(tx) : input \notin Inputs(other)
    BY DEF ValidTransaction, IsSpendable
  <1> QED
    BY <1>1, <1>2

\* A chain with one valid transaction more.
LEMMA ChainStaysProper ==
    ASSUME NEW c, ProperChain(c), NEW tx, IsProper(tx), ValidTransaction(c, tx),
           NEW d, TransactionsIn(d) = TransactionsIn(c) \cup {tx}
    PROVE  ProperChain(d)
  <1>1. \A input : OutputExists(c, input) => OutputExists(d, input)
    BY DEF OutputExists
  <1>2. \A input \in Inputs(tx) : OutputExists(c, input)
    BY DEF ValidTransaction, IsSpendable
  <1> QED
    BY <1>1, <1>2 DEF ProperChain

\* What a valid transaction does to a set of outputs when those in U, which are
\* in the set, are spent and those at P are new.
LEMMA AmountAfter ==
    ASSUME NEW c, ProperChain(c), NEW tx, IsProper(tx), ValidTransaction(c, tx),
           \A other \in TransactionsIn(c) : other.txhash # tx.txhash,
           NEW d, TransactionsIn(d) = TransactionsIn(c) \cup {tx},
           NEW S, IsFiniteSet(S), \A input \in S : OutputExists(c, input),
           NEW U, U \subseteq S, NEW P, P \subseteq DOMAIN tx.dict_of_outputs
    PROVE  /\ IsFiniteSet((S \ U) \cup OutputsAt(tx, P))
           /\ AmountOf(d, (S \ U) \cup OutputsAt(tx, P))
                = AmountOf(c, S) - AmountOf(c, U) + PaidAt(tx, P)
           /\ AmountOf(c, S) \in Int /\ AmountOf(c, U) \in Int /\ PaidAt(tx, P) \in Int
  <1> DEFINE K == S \ U
             N == OutputsAt(tx, P)
  <1>1. ProperChain(d) /\ tx \in TransactionsIn(d) /\ TransactionsIn(c) \subseteq TransactionsIn(d)
    BY ChainStaysProper
  <1>2. IsFiniteSet(U) /\ IsFiniteSet(K)
    BY FS_Subset
  <1>3. AmountOf(d, K) = AmountOf(c, K) /\ AmountOf(c, K) \in Int /\ AmountOf(c, U) \in Int
    <2> HIDE DEF K
    <2>1. K \subseteq S
      BY DEF K
    <2>2. \A input \in K : OutputExists(c, input)
      BY <2>1
    <2>3. \A input \in U : OutputExists(c, input)
      OBVIOUS
    <2> QED
      BY <1>1, <1>2, <2>2, <2>3, AmountOfOld
  <1>4. AmountOf(c, S) = AmountOf(c, U) + AmountOf(c, K)
    <2>1. S = U \cup K /\ U \cap K = {}
      OBVIOUS
    <2> HIDE DEF K
    <2> QED
      BY <1>2, <2>1, AmountOfUnion
  <1>5. /\ IsFiniteSet(N) /\ AmountOf(d, N) = PaidAt(tx, P) /\ PaidAt(tx, P) \in Int
        /\ \A input \in N : OutputExists(d, input)
    BY <1>1, AmountOfOutputs
  <1>6. K \cap N = {}
    <2>1. \A input \in N : input[1] = tx.txhash
      BY DEF OutputsAt
    <2>2. \A input \in K : input[1] # tx.txhash
      BY DEF OutputExists
    <2> QED
      BY <2>1, <2>2
  <1>7. \A input \in K : OutputExists(d, input)
    BY <1>1 DEF OutputExists
  <1> HIDE DEF K, N
  <1>8. AmountOf(d, K \cup N) = AmountOf(d, K) + AmountOf(d, N)
    BY <1>1, <1>2, <1>5, <1>6, <1>7, AmountOfUnion
  <1>9. IsFiniteSet(K \cup N)
    BY <1>2, <1>5, FS_Union
  <1>10. /\ AmountOf(d, K \cup N) = AmountOf(c, S) - AmountOf(c, U) + PaidAt(tx, P)
         /\ AmountOf(c, S) \in Int
    BY <1>3, <1>4, <1>5, <1>8
  <1> QED
    BY <1>3, <1>5, <1>9, <1>10 DEF K, N

\* What one or two outputs pay.
LEMMA PaidAtOne ==
    ASSUME NEW tx, NEW p, tx.dict_of_outputs[p].amount \in Int
    PROVE  PaidAt(tx, {p}) = tx.dict_of_outputs[p].amount
  <1> DEFINE F == [q \in {p} |-> tx.dict_of_outputs[q].amount]
  <1>1. F[p] = tx.dict_of_outputs[p].amount /\ \A q \in {p} : F[q] \in Int
    OBVIOUS
  <1>2. PaidAt(tx, {p}) = SumFunctionOnSet(F, {p})
    BY DEF PaidAt, SumFunction
  <1> HIDE DEF F
  <1>3. SumFunctionOnSet(F, {p}) = F[p] + SumFunctionOnSet(F, {p} \ {p})
    BY <1>1, FS_Singleton, SumRemove
  <1>4. {p} \ {p} = {}
    OBVIOUS
  <1> QED
    BY <1>1, <1>2, <1>3, <1>4, SumEmpty

LEMMA PaidAtTwo ==
    ASSUME NEW tx, NEW p, NEW q, p # q, tx.dict_of_outputs[p].amount \in Int,
           tx.dict_of_outputs[q].amount \in Int
    PROVE  PaidAt(tx, {p, q}) = tx.dict_of_outputs[p].amount + tx.dict_of_outputs[q].amount
  <1> DEFINE F == [r \in {p, q} |-> tx.dict_of_outputs[r].amount]
             G == [r \in {q} |-> tx.dict_of_outputs[r].amount]
  <1>1. /\ F[p] = tx.dict_of_outputs[p].amount
        /\ \A r \in {p, q} : F[r] \in Int
        /\ \A r \in {q} : F[r] = G[r]
    OBVIOUS
  <1>2. /\ PaidAt(tx, {p, q}) = SumFunctionOnSet(F, {p, q})
        /\ PaidAt(tx, {q}) = SumFunctionOnSet(G, {q})
    BY DEF PaidAt, SumFunction
  <1> HIDE DEF F, G
  <1>3. IsFiniteSet({p, q}) /\ IsFiniteSet({q}) /\ {p, q} \ {p} = {q}
    <2>1. {p, q} = {q} \cup {p} /\ {p, q} \ {p} = {q}
      OBVIOUS
    <2>2. IsFiniteSet({q})
      BY FS_Singleton
    <2>3. IsFiniteSet({q} \cup {p})
      BY <2>2, FS_AddElement
    <2> QED
      BY <2>1, <2>2, <2>3
  <1>4. SumFunctionOnSet(F, {p, q}) = F[p] + SumFunctionOnSet(F, {q})
    BY <1>1, <1>3, SumRemove
  <1>5. SumFunctionOnSet(F, {q}) = SumFunctionOnSet(G, {q})
    BY <1>1, <1>3, SumCongruent
  <1> QED
    BY <1>1, <1>2, <1>4, <1>5, PaidAtOne

-----------------------------------------------------------------------------
(* The transactions of a chain that grows *)

\* The genesis block has one transaction, which spends nothing and pays 100.
LEMMA GenesisChain ==
    ASSUME NEW address, NEW tx,
           tx = Transaction(<<>>, <<[address |-> address, amount |-> 100]>>)
    PROVE  /\ TransactionsIn(<<GenesisBlock(address)>>) = {tx}
           /\ GenesisBlock(address).block_content = <<tx>>
           /\ IsProper(tx) /\ Inputs(tx) = {}
           /\ tx.dict_of_outputs = <<[address |-> address, amount |-> 100]>>
           /\ DOMAIN tx.dict_of_outputs = {1}
           /\ tx.dict_of_outputs[1] = [address |-> address, amount |-> 100]
           /\ tx.verifying_key = Unsigned
           /\ ProperChain(<<GenesisBlock(address)>>)
  <1> DEFINE grant == <<[address |-> address, amount |-> 100]>>
             chain == <<GenesisBlock(address)>>
  <1>1. GenesisBlock(address).block_content = <<tx>>
    BY DEF GenesisBlock, Block
  <1>2. /\ tx.dict_of_inputs = <<>> /\ tx.dict_of_outputs = grant /\ HasCorrectHash(tx)
        /\ tx.verifying_key = Unsigned
    BY DEF Transaction, HasCorrectHash
  <1>3. /\ DOMAIN grant = {1} /\ DOMAIN <<>> = {}
        /\ grant[1] = [address |-> address, amount |-> 100] /\ grant[1].amount = 100
    OBVIOUS
  <1>4. TransactionsIn(chain) = {tx}
    <2>1. DOMAIN <<tx>> = {1} /\ <<tx>>[1] = tx
      OBVIOUS
    <2>2. DOMAIN chain = {1} /\ chain[1] = GenesisBlock(address)
      OBVIOUS
    <2> HIDE DEF chain
    <2> QED
      BY <1>1, <2>1, <2>2 DEF TransactionsIn, TransactionsOf, Range
  <1> HIDE DEF grant
  <1>5. Inputs(tx) = {}
    BY <1>2, <1>3 DEF Inputs
  <1>6. IsProper(tx)
    <2>1. IsFiniteSet({}) /\ IsFiniteSet({1})
      BY FS_EmptySet, FS_Singleton
    <2>2. 1 \in Nat \ {0} /\ 100 \in Int
      OBVIOUS
    <2> QED
      BY <1>2, <1>3, <2>1, <2>2 DEF IsProper
  <1>7. ProperChain(chain)
    BY <1>4, <1>5, <1>6 DEF ProperChain
  <1> QED
    BY <1>1, <1>2, <1>3, <1>4, <1>5, <1>6, <1>7 DEF grant

\* A block that is added adds its transactions.
LEMMA MinedTransactions ==
    ASSUME NEW c, IsChain(c), NEW tx, NEW mined \in MineBlock(c, Block(<<tx>>))
    PROVE  TransactionsIn(AddBlockToDb(c, mined)) = TransactionsIn(c) \cup {tx}
  <1> DEFINE b   == Link(c, mined)
             new == Append(c, b)
  <1>1. b.block_content = <<tx>>
    BY MinedBlock
  <1> HIDE DEF b
  <1>2. /\ Len(c) \in Nat /\ DOMAIN c = 1..Len(c) /\ DOMAIN new = 1..(Len(c) + 1)
        /\ \A i \in 1..Len(c) : new[i] = c[i]
        /\ new[Len(c) + 1] = b
    BY AppendToChain
  <1>3. DOMAIN new = DOMAIN c \cup {Len(c) + 1} /\ \A i \in DOMAIN c : new[i] = c[i]
    BY <1>2
  <1>4. TransactionsOf(b) = {tx}
    <2>1. DOMAIN <<tx>> = {1} /\ <<tx>>[1] = tx
      OBVIOUS
    <2> QED
      BY <1>1, <2>1 DEF TransactionsOf, Range
  <1>5. AddBlockToDb(c, mined) = new
    BY DEF AddBlockToDb, b
  <1> HIDE DEF new
  <1> QED
    BY <1>2, <1>3, <1>4, <1>5 DEF TransactionsIn

\* Check 3 and the others accept the one transaction of a block.
LEMMA ValidatedAlone ==
    ASSUME NEW c, NEW tx, ValidateBlock(c, Block(<<tx>>))
    PROVE  ValidTransaction(c, tx)
  <1>1. Block(<<tx>>).metadata.id # 1 /\ Block(<<tx>>).block_content = <<tx>>
    BY DEF Block
  <1>2. DOMAIN <<tx>> = {1} /\ <<tx>>[1] = tx
    OBVIOUS
  <1> QED
    BY <1>1, <1>2 DEF ValidateBlock, TransactionsOf, Range

=============================================================================
