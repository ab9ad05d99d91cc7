---------------------------- MODULE WalletProofs ----------------------------
(***************************************************************************)
(* Proofs about Wallet, for any wallets, nodes, topology and amounts, and  *)
(* any number of transactions, blocks and restarts, with three invariants: *)
(* what a wallet hands out and which databases it knows (IInv), that       *)
(* nobody spends what is not theirs, so that balances are what is unspent  *)
(* (OwnedInv), and the bounds of the type invariant (TypeInv); and that    *)
(* the full nodes of Wallet implement LongestChain.                        *)
(***************************************************************************)
EXTENDS Wallet, LedgerProofs

-----------------------------------------------------------------------------
(* The inductive invariant *)

\* The outputs to an address that it has not spent, as a wallet finds them when
\* nothing is pending.
OwnInputs(db, address) == GetValidInputsFromAddress(db, address, {})

\* A database that can be read, whose height counts its blocks.
IsDatabase(db) == IsChain(db) /\ db # <<>> /\ Height(db) = Len(db) - 1

\* A wallet's file is the chain of its full node, or one it had before.
FilesInv ==
    /\ chain = [n \in Node |-> chain[n]]
    /\ file = [w \in Seed |-> file[w]]
    /\ \A n \in Node : IsDatabase(chain[n])
    /\ \A w \in Seed :
          /\ IsDatabase(file[w])
          /\ file[w] = chain[FullNodeOf[w]] \/ Len(file[w]) < Len(chain[FullNodeOf[w]])

\* The wallet has read db since its stack was emptied, and no other: there is
\* none of its height that it could read.
Knows(w, db) ==
    /\ Height(db) = last_block_height[w]
    /\ Height(ReadFromDb(w)) = last_block_height[w] => ReadFromDb(w) = db

WalletInv(w) ==
    /\ epoch[w] \in Nat /\ last_block_height[w] \in Nat
    /\ last_block_height[w] <= Height(ReadFromDb(w))

\* The inputs of a call that is running are not on the stack, and all others of
\* the database it has read are.
CallInv(w, call) ==
    /\ Knows(w, call.read)
    /\ call.inputs = OwnInputs(call.read, GetAddress(w)) \ stack_of_used_inputs[w]

\* What a wallet has handed out since its stack was emptied is on the stack, and
\* so is all it owned when it did.
CreatedInv(c) ==
    /\ c.by \in Seed /\ c.epoch \in Nat /\ c.epoch <= epoch[c.by]
    /\ c.epoch = epoch[c.by] =>
          /\ Inputs(c.tx) \subseteq stack_of_used_inputs[c.by]
          /\ ~IsTorn(c) =>
                /\ Knows(c.by, c.reread)
                /\ OwnInputs(c.reread, GetAddress(c.by)) \subseteq stack_of_used_inputs[c.by]

WalletShape ==
    /\ stack_of_used_inputs = [w \in Seed |-> stack_of_used_inputs[w]]
    /\ last_block_height = [w \in Seed |-> last_block_height[w]]
    /\ creating = [w \in Seed |-> creating[w]]
    /\ epoch = [w \in Seed |-> epoch[w]]
    /\ \A w \in Seed : creating[w] # <<>> => creating[w] = <<creating[w][1]>>
    /\ IsChain(created)

IInv ==
    /\ FilesInv
    /\ WalletShape
    /\ \A w \in Seed : WalletInv(w)
    /\ \A w \in Seed : \A call \in Range(creating[w]) : CallInv(w, call)
    /\ \A c \in Range(created) : CreatedInv(c)
    /\ HandedOutOnce
    /\ OnePerBlockSeen

-----------------------------------------------------------------------------
(* Facts about one state *)

\* A call that is running is one record, or none.
LEMMA Calls ==
    /\ Range(<<>>) = {}
    /\ \A call : Range(<<call>>) = {call} /\ <<call>>[1] = call /\ <<call>> # <<>>
  <1>1. DOMAIN <<>> = {}
    OBVIOUS
  <1>2. ASSUME NEW call
        PROVE  DOMAIN <<call>> = {1} /\ <<call>>[1] = call /\ <<call>> # <<>>
    OBVIOUS
  <1> QED
    BY <1>1, <1>2 DEF Range

\* The stack is all that the valid inputs of a wallet depend on besides the
\* database.
LEMMA PendingOnly ==
    ASSUME NEW db, NEW address, NEW stack
    PROVE  GetValidInputsFromAddress(db, address, stack) = OwnInputs(db, address) \ stack
  <1> DEFINE paid  == UNION {OutputsTo(tx, address) : tx \in TransactionsIn(db)}
             spent == UNION {Inputs(tx) :
                               tx \in {t \in TransactionsIn(db) : IsSignedBy(t, address)}}
  <1>1. /\ GetValidInputsFromAddress(db, address, stack) = paid \ (spent \cup stack)
        /\ OwnInputs(db, address) = paid \ (spent \cup {})
    BY DEF OwnInputs, GetValidInputsFromAddress
  <1> HIDE DEF paid, spent
  <1>2. paid \ (spent \cup stack) = (paid \ (spent \cup {})) \ stack
    OBVIOUS
  <1> QED
    BY <1>1, <1>2

LEMMA InputsArePairs ==
    ASSUME NEW db, NEW address, NEW input \in OwnInputs(db, address)
    PROVE  input = <<input[1], input[2]>>
  <1>1. PICK tx \in TransactionsIn(db) : input \in OutputsTo(tx, address)
    BY DEF OwnInputs, GetValidInputsFromAddress
  <1> QED
    BY <1>1 DEF OutputsTo

\* A transaction that is made of a list of inputs spends no others, and all of
\* them when no two refer to one hash.
LEMMA InputsOfMade ==
    ASSUME NEW inputs, \A input \in inputs : input = <<input[1], input[2]>>,
           NEW outputs, NEW seed
    PROVE  LET made == Sign(Transaction(DictOfInputs(inputs), outputs), seed) IN
           /\ Inputs(made) \subseteq inputs
           /\ DOMAIN made.dict_of_inputs = {input[1] : input \in inputs}
           /\ (\A i, j \in inputs : i[1] = j[1] => i = j) => Inputs(made) = inputs
  <1> DEFINE dict == DictOfInputs(inputs)
             made == Sign(Transaction(dict, outputs), seed)
  <1>1. made.dict_of_inputs = dict
    BY DEF Sign, Transaction, SignTransaction
  <1>2. DOMAIN dict = {input[1] : input \in inputs}
    BY DEF DictOfInputs
  <1>3. ASSUME NEW h \in DOMAIN dict
        PROVE  <<h, dict[h]>> \in inputs
    <2>1. PICK input \in inputs : h = input[1]
      BY <1>2
    <2>2. /\ input[2] \in {i[2] : i \in inputs}
          /\ <<h, input[2]>> \in inputs
      BY <2>1
    <2>3. dict[h] = CHOOSE position \in {i[2] : i \in inputs} : <<h, position>> \in inputs
      BY <1>2 DEF DictOfInputs
    <2> QED
      BY <2>2, <2>3
  <1> HIDE DEF dict, made
  <1>4. Inputs(made) \subseteq inputs
    BY <1>1, <1>3 DEF Inputs
  <1>5. ASSUME \A i, j \in inputs : i[1] = j[1] => i = j
        PROVE  inputs \subseteq Inputs(made)
    <2> SUFFICES ASSUME NEW input \in inputs
                 PROVE  input \in Inputs(made)
      OBVIOUS
    <2>1. input[1] \in DOMAIN dict
      BY <1>2
    <2>2. <<input[1], dict[input[1]]>> = input
      BY <1>3, <1>5, <2>1
    <2> QED
      BY <1>1, <2>1, <2>2 DEF Inputs
  <1> QED
    BY <1>1, <1>2, <1>4, <1>5 DEF made, dict

LEMMA DatabaseNumbers ==
    ASSUME NEW db, IsDatabase(db)
    PROVE  Len(db) \in Nat /\ Len(db) > 0 /\ Height(db) \in Nat
  <1>1. db \in Seq(Range(db)) /\ db # <<>>
    BY DEF IsDatabase, IsChain
  <1>2. Len(db) \in Nat /\ Len(db) # 0
    BY <1>1, LenProperties, EmptySeq
  <1> QED
    BY <1>2 DEF IsDatabase

LEMMA WhatIsRead ==
    ASSUME FilesInv, NEW w \in Seed
    PROVE  IsDatabase(ReadFromDb(w)) /\ Height(ReadFromDb(w)) \in Nat
  <1>1. FullNodeOf[w] \in Node
    BY WalletAssumption
  <1>2. IsDatabase(ReadFromDb(w))
    BY <1>1 DEF FilesInv, ReadFromDb
  <1> QED
    BY <1>2, DatabaseNumbers

LEMMA GenesisDatabase == IsDatabase(<<Genesis>>) /\ Height(<<Genesis>>) = 0
  <1>1. Genesis.metadata.id = 0
    BY DEF Genesis, GenesisBlock, Block
  <1>2. /\ <<Genesis>> \in Seq({Genesis}) /\ Len(<<Genesis>>) = 1
        /\ <<Genesis>>[1] = Genesis /\ <<Genesis>> # <<>>
    OBVIOUS
  <1>3. Height(<<Genesis>>) = 0
    BY <1>1, <1>2 DEF Height, LastBlock
  <1>4. IsChain(<<Genesis>>)
    BY <1>2, SequencesAreChains
  <1>5. Height(<<Genesis>>) = Len(<<Genesis>>) - 1
    BY <1>2, <1>3
  <1> QED
    BY <1>2, <1>3, <1>4, <1>5 DEF IsDatabase

LEMMA InitInv == Init => IInv
  <1> SUFFICES ASSUME Init
               PROVE  IInv
    OBVIOUS
  <1>1. FilesInv
    BY GenesisDatabase, WalletAssumption DEF Init, FilesInv
  <1>2. WalletShape
    <2>1. IsChain(created)
      BY NothingIsAChain DEF Init
    <2> QED
      BY <2>1 DEF Init, WalletShape
  <1>3. ASSUME NEW w \in Seed
        PROVE  WalletInv(w) /\ Range(creating[w]) = {}
    <2>1. epoch[w] = 0 /\ last_block_height[w] = 0 /\ creating[w] = <<>>
      BY DEF Init
    <2>2. 0 <= Height(ReadFromDb(w))
      BY <1>1, WhatIsRead
    <2> QED
      BY <2>1, <2>2, Calls DEF WalletInv
  <1>4. DOMAIN created = {} /\ Range(created) = {}
    <2>1. created = <<>>
      BY DEF Init
    <2> QED
      BY <2>1, NothingIsAChain DEF Range
  <1> QED
    BY <1>1, <1>2, <1>3, <1>4 DEF IInv, HandedOutOnce, OnePerBlockSeen

-----------------------------------------------------------------------------
(* The database changes: it is another one only with a greater height *)

LEMMA KnowsKept ==
    ASSUME NEW w, NEW db, Knows(w, db), last_block_height'[w] = last_block_height[w],
           Height(ReadFromDb(w)) \in Nat, Height(ReadFromDb(w)') \in Nat,
           last_block_height[w] <= Height(ReadFromDb(w)), last_block_height[w] \in Nat,
           \/ ReadFromDb(w)' = ReadFromDb(w)
           \/ Height(ReadFromDb(w)') > Height(ReadFromDb(w))
    PROVE  Knows(w, db)'
  <1>1. CASE ReadFromDb(w)' = ReadFromDb(w)
    BY <1>1 DEF Knows, Height, LastBlock
  <1>2. CASE Height(ReadFromDb(w)') > Height(ReadFromDb(w))
    <2>1. Height(ReadFromDb(w)') # last_block_height[w]
      BY <1>2
    <2> QED
      BY <2>1 DEF Knows, Height, LastBlock
  <1> QED
    BY <1>1, <1>2

WalletsRest == UNCHANGED <<stack_of_used_inputs, last_block_height, creating, created, epoch>>

LEMMA WorldStep ==
    ASSUME IInv, FilesInv', WalletsRest,
           \A w \in Seed : \/ ReadFromDb(w)' = ReadFromDb(w)
                           \/ Height(ReadFromDb(w)') > Height(ReadFromDb(w))
    PROVE  IInv'
  <1>1. ASSUME NEW w \in Seed
        PROVE  Height(ReadFromDb(w)) \in Nat /\ Height(ReadFromDb(w)') \in Nat
    <2>1. FullNodeOf[w] \in Node
      BY WalletAssumption
    <2>2. IsDatabase(ReadFromDb(w)')
      BY <2>1 DEF FilesInv, ReadFromDb, IsDatabase, Height, LastBlock
    <2> QED
      BY <2>2, WhatIsRead, DatabaseNumbers DEF IInv
  <1>2. ASSUME NEW w \in Seed
        PROVE  /\ WalletInv(w)'
               /\ \A db : Knows(w, db) => Knows(w, db)'
    <2>1. WalletInv(w) /\ last_block_height'[w] = last_block_height[w] /\ epoch'[w] = epoch[w]
      BY DEF IInv, WalletsRest
    <2>2. last_block_height[w] <= Height(ReadFromDb(w)') /\ last_block_height[w] \in Nat
      BY <1>1, <2>1 DEF WalletInv
    <2>3. WalletInv(w)'
      BY <2>1, <2>2 DEF WalletInv, Height, LastBlock
    <2> QED
      BY <1>1, <2>1, <2>3, KnowsKept DEF WalletInv
  <1>3. ASSUME NEW w \in Seed, NEW call \in Range(creating'[w])
        PROVE  CallInv(w, call)'
    <2>1. CallInv(w, call) /\ stack_of_used_inputs' = stack_of_used_inputs
      BY <1>3 DEF IInv, WalletsRest
    <2>2. Knows(w, call.read)'
      BY <1>2, <2>1 DEF CallInv
    <2> QED
      BY <2>1, <2>2 DEF CallInv
  <1>4. ASSUME NEW c \in Range(created')
        PROVE  CreatedInv(c)'
    <2>1. CreatedInv(c) /\ stack_of_used_inputs' = stack_of_used_inputs /\ epoch' = epoch
      BY <1>4 DEF IInv, WalletsRest
    <2>2. Knows(c.by, c.reread) => Knows(c.by, c.reread)'
      BY <1>2, <2>1 DEF CreatedInv
    <2> QED
      BY <2>1, <2>2 DEF CreatedInv, IsTorn
  <1>5. WalletShape' /\ HandedOutOnce' /\ OnePerBlockSeen'
    BY DEF IInv, WalletsRest, WalletShape, HandedOutOnce, OnePerBlockSeen
  <1> QED
    BY <1>2, <1>3, <1>4, <1>5 DEF IInv

\* A chain with one block more has the next height.
LEMMA NextHeight ==
    ASSUME NEW db, IsDatabase(db), NEW stack, NEW mined \in MineBlock(db, Block(stack))
    PROVE  LET new == AddBlockToDb(db, mined) IN
           IsDatabase(new) /\ Len(new) = Len(db) + 1
  <1> DEFINE b == Link(db, mined)
             new == Append(db, b)
  <1>1. b.metadata.id = Height(db) + 1
    BY MinedBlock DEF Height
  <1> HIDE DEF b
  <1>2. /\ IsChain(new) /\ Len(db) \in Nat /\ Len(new) = Len(db) + 1
        /\ new[Len(db) + 1] = b
    BY AppendToChain DEF IsDatabase
  <1>3. new # <<>>
    <2>1. Len(new) # 0
      BY <1>2
    <2>2. Len(<<>>) = 0
      OBVIOUS
    <2> QED
      BY <2>1, <2>2
  <1>4. Height(new) = Height(db) + 1
    BY <1>1, <1>2 DEF Height, LastBlock
  <1>5. Height(new) = Len(new) - 1
    BY <1>2, <1>4 DEF IsDatabase
  <1> QED
    BY <1>2, <1>3, <1>5 DEF IsDatabase, AddBlockToDb, b

\* A full node replaces its chain by a longer one.
LEMMA ChainGrows ==
    ASSUME IInv, WalletsRest, UNCHANGED file, NEW n \in Node, NEW new, IsDatabase(new),
           Len(new) > Len(chain[n]), chain' = [chain EXCEPT ![n] = new]
    PROVE  IInv'
  <1>1. FilesInv
    BY DEF IInv
  <1>2. ASSUME NEW m \in Node
        PROVE  /\ chain'[m] = IF m = n THEN new ELSE chain[m]
               /\ IsDatabase(chain[m]) /\ Len(chain[m]) \in Nat /\ Len(new) \in Nat
               /\ Height(chain[m]) = Len(chain[m]) - 1 /\ Height(new) = Len(new) - 1
    BY <1>1, DatabaseNumbers DEF FilesInv, IsDatabase
  <1>3. ASSUME NEW m \in Node
        PROVE  /\ IsDatabase(chain'[m]) /\ Len(chain'[m]) >= Len(chain[m])
               /\ chain'[m] = chain[m] \/ Height(chain'[m]) > Height(chain[m])
    BY <1>2
  <1>4. FilesInv'
    <2>1. ASSUME NEW w \in Seed
          PROVE  /\ IsDatabase(file[w])
                 /\ \/ file[w] = chain'[FullNodeOf[w]]
                    \/ Len(file[w]) < Len(chain'[FullNodeOf[w]])
      <3> DEFINE m == FullNodeOf[w]
      <3>1. m \in Node
        BY WalletAssumption
      <3>2. IsDatabase(file[w]) /\ (file[w] = chain[m] \/ Len(file[w]) < Len(chain[m]))
        BY <1>1 DEF FilesInv
      <3>3. Len(file[w]) \in Nat
        BY <3>2, DatabaseNumbers
      <3>4. /\ chain'[m] = chain[m] \/ Len(chain'[m]) > Len(chain[m])
            /\ Len(chain'[m]) \in Nat /\ Len(chain[m]) \in Nat
        BY <1>2, <3>1
      <3> HIDE DEF m
      <3> QED
        BY <3>2, <3>3, <3>4 DEF m
    <2>2. chain' = [m \in Node |-> chain'[m]] /\ file' = [w \in Seed |-> file'[w]]
      BY <1>1 DEF FilesInv
    <2> QED
      BY <1>3, <2>1, <2>2 DEF FilesInv, IsDatabase, Height, LastBlock
  <1>5. ASSUME NEW w \in Seed
        PROVE  \/ ReadFromDb(w)' = ReadFromDb(w)
               \/ Height(ReadFromDb(w)') > Height(ReadFromDb(w))
    <2>1. FullNodeOf[w] \in Node
      BY WalletAssumption
    <2> QED
      BY <1>3, <2>1 DEF ReadFromDb, Height, LastBlock
  <1> QED
    BY <1>4, <1>5, WorldStep

LEMMA NodeStep ==
    ASSUME IInv, NEW n \in Node, MineTransaction(n) \/ CopyLonger(n)
    PROVE  IInv'
  <1>1. IsDatabase(chain[n]) /\ Len(chain[n]) \in Nat
    BY DatabaseNumbers DEF IInv, FilesInv
  <1>2. CASE MineTransaction(n)
    <2>1. PICK tx \in broadcast[n] : \E mined \in MineBlock(chain[n], Block(<<tx>>)) :
             chain' = [chain EXCEPT ![n] = AddBlockToDb(chain[n], mined)]
      BY <1>2 DEF MineTransaction
    <2>2. PICK new : \E mined \in MineBlock(chain[n], Block(<<tx>>)) :
             new = AddBlockToDb(chain[n], mined) /\ chain' = [chain EXCEPT ![n] = new]
      BY <2>1
    <2>3. IsDatabase(new) /\ Len(new) = Len(chain[n]) + 1
      BY <1>1, <2>2, NextHeight
    <2>4. Len(new) > Len(chain[n])
      BY <1>1, <2>3
    <2>5. WalletsRest /\ UNCHANGED file
      BY <1>2 DEF MineTransaction, WalletsRest
    <2> QED
      BY <2>2, <2>3, <2>4, <2>5, ChainGrows
  <1>3. CASE CopyLonger(n)
    <2>1. PICK m \in Node :
             Len(chain[m]) > Len(chain[n]) /\ chain' = [chain EXCEPT ![n] = chain[m]]
      BY <1>3 DEF CopyLonger
    <2>2. PICK new : new = chain[m]
      OBVIOUS
    <2>3. IsDatabase(new)
      BY <2>2 DEF IInv, FilesInv
    <2>4. WalletsRest /\ UNCHANGED file
      BY <1>3 DEF CopyLonger, WalletsRest
    <2> QED
      BY <2>1, <2>2, <2>3, <2>4, ChainGrows
  <1> QED
    BY <1>2, <1>3

LEMMA SynchroniseStep ==
    ASSUME IInv, NEW w \in Seed, Synchronise(w)
    PROVE  IInv'
  <1> DEFINE n == FullNodeOf[w]
  <1>1. /\ w \notin Shared /\ file[w] # chain[n]
        /\ file' = [file EXCEPT ![w] = chain[n]]
        /\ UNCHANGED chain /\ WalletsRest
    BY DEF Synchronise, WalletsRest
  <1>2. FilesInv /\ n \in Node
    BY WalletAssumption DEF IInv
  <1>3. /\ IsDatabase(chain[n]) /\ IsDatabase(file[w]) /\ Len(file[w]) < Len(chain[n])
        /\ Len(file[w]) \in Nat /\ Len(chain[n]) \in Nat
    BY <1>1, <1>2, DatabaseNumbers DEF FilesInv
  <1>4. ASSUME NEW v \in Seed
        PROVE  file'[v] = IF v = w THEN chain[n] ELSE file[v]
    BY <1>1, <1>2 DEF FilesInv
  <1>5. FilesInv'
    <2>1. file' = [v \in Seed |-> file'[v]]
      BY <1>1, <1>2 DEF FilesInv
    <2>2. ASSUME NEW v \in Seed
          PROVE  /\ IsDatabase(file'[v])
                 /\ \/ file'[v] = chain[FullNodeOf[v]]
                    \/ Len(file'[v]) < Len(chain[FullNodeOf[v]])
      BY <1>2, <1>3, <1>4 DEF FilesInv
    <2> QED
      BY <1>1, <1>2, <2>1, <2>2 DEF FilesInv, IsDatabase, Height, LastBlock
  <1>6. Height(chain[n]) > Height(file[w])
    BY <1>3 DEF IsDatabase
  <1>7. ASSUME NEW v \in Seed
        PROVE  \/ ReadFromDb(v)' = ReadFromDb(v)
               \/ Height(ReadFromDb(v)') > Height(ReadFromDb(v))
    BY <1>1, <1>4, <1>6 DEF ReadFromDb, Height, LastBlock
  <1> QED
    BY <1>1, <1>5, <1>7, WorldStep

-----------------------------------------------------------------------------
(* A wallet reads its database *)

\* What a step of a wallet does to its globals: the height is that of what it
\* reads, and its stack keeps what is on it unless it is emptied, which counts.
Reads(w) ==
    /\ UNCHANGED <<chain, file>>
    /\ WalletShape'
    /\ last_block_height'[w] = Height(ReadFromDb(w))
    /\ \/ /\ epoch'[w] = epoch[w]
          /\ last_block_height'[w] = last_block_height[w]
          /\ stack_of_used_inputs[w] \subseteq stack_of_used_inputs'[w]
       \/ epoch'[w] = epoch[w] + 1
    /\ \A v \in Seed \ {w} :
          /\ stack_of_used_inputs'[v] = stack_of_used_inputs[v]
          /\ last_block_height'[v] = last_block_height[v]
          /\ creating'[v] = creating[v]
          /\ epoch'[v] = epoch[v]

\* get_database, by the height it leaves.
LEMMA GetDatabaseReads ==
    ASSUME IInv, NEW w \in Seed, GetDatabase(w)
    PROVE  /\ last_block_height' = [v \in Seed |-> last_block_height'[v]]
           /\ epoch' = [v \in Seed |-> epoch'[v]]
           /\ last_block_height'[w] = Height(ReadFromDb(w))
           /\ ~IsNewBlock(w) => /\ last_block_height'[w] = last_block_height[w]
                                /\ epoch'[w] = epoch[w]
           /\ IsNewBlock(w) => epoch'[w] = epoch[w] + 1
           /\ \A v \in Seed \ {w} : /\ last_block_height'[v] = last_block_height[v]
                                    /\ epoch'[v] = epoch[v]
  <1>1. /\ last_block_height = [v \in Seed |-> last_block_height[v]]
        /\ epoch = [v \in Seed |-> epoch[v]]
    BY DEF IInv, WalletShape
  <1>2. /\ last_block_height' = [v \in Seed |-> last_block_height'[v]]
        /\ epoch' = [v \in Seed |-> epoch'[v]]
        /\ \A v \in Seed \ {w} : /\ last_block_height'[v] = last_block_height[v]
                                 /\ epoch'[v] = epoch[v]
        /\ last_block_height'[w] = IF IsNewBlock(w) THEN Height(ReadFromDb(w))
                                   ELSE last_block_height[w]
        /\ epoch'[w] = IF IsNewBlock(w) THEN epoch[w] + 1 ELSE epoch[w]
    BY <1>1 DEF GetDatabase
  <1>3. /\ last_block_height[w] <= Height(ReadFromDb(w))
        /\ last_block_height[w] \in Nat /\ Height(ReadFromDb(w)) \in Nat
    BY WhatIsRead DEF IInv, WalletInv
  <1>4. ~IsNewBlock(w) => last_block_height[w] = Height(ReadFromDb(w))
    BY <1>3 DEF IsNewBlock
  <1> QED
    BY <1>2, <1>4

LEMMA ReadsKeepInv ==
    ASSUME IInv, NEW w \in Seed, Reads(w)
    PROVE  /\ FilesInv'
           /\ \A v \in Seed : WalletInv(v)'
           /\ \A v \in Seed \ {w} : \A call \in Range(creating'[v]) : CallInv(v, call)'
           /\ \A c \in Range(created) : CreatedInv(c)'
           /\ \A db : db = ReadFromDb(w) => Knows(w, db)'
  <1>1. FilesInv'
    BY DEF Reads, IInv, FilesInv, IsDatabase, Height, LastBlock
  <1>2. ASSUME NEW v \in Seed
        PROVE  /\ ReadFromDb(v)' = ReadFromDb(v)
               /\ Height(ReadFromDb(v)') = Height(ReadFromDb(v))
               /\ WalletInv(v) /\ Height(ReadFromDb(v)) \in Nat
    BY WhatIsRead DEF Reads, ReadFromDb, Height, LastBlock, IInv
  <1>3. ASSUME NEW v \in Seed
        PROVE  WalletInv(v)'
    <2>1. CASE v = w
      <3>1. epoch'[w] = epoch[w] \/ epoch'[w] = epoch[w] + 1
        BY DEF Reads
      <3>2. last_block_height'[w] = Height(ReadFromDb(w))
        BY DEF Reads
      <3>3. epoch'[w] \in Nat
        BY <1>2, <3>1 DEF WalletInv
      <3> QED
        BY <1>2, <2>1, <3>2, <3>3 DEF WalletInv, Height, LastBlock
    <2>2. CASE v # w
      BY <1>2, <2>2 DEF Reads, WalletInv, Height, LastBlock
    <2> QED
      BY <2>1, <2>2
  <1>4. ASSUME NEW v \in Seed, last_block_height'[v] = last_block_height[v],
               NEW db, Knows(v, db)
        PROVE  Knows(v, db)'
    BY <1>2, <1>4 DEF Knows, Height, LastBlock
  <1>5. ASSUME NEW v \in Seed \ {w}, NEW call \in Range(creating'[v])
        PROVE  CallInv(v, call)'
    <2>1. CallInv(v, call)
      BY <1>5 DEF Reads, IInv
    <2>2. /\ stack_of_used_inputs'[v] = stack_of_used_inputs[v]
          /\ last_block_height'[v] = last_block_height[v]
      BY DEF Reads
    <2>3. Knows(v, call.read)'
      BY <1>4, <2>1, <2>2 DEF CallInv
    <2> QED
      BY <2>1, <2>2, <2>3 DEF CallInv
  <1>6. ASSUME NEW c \in Range(created)
        PROVE  CreatedInv(c)'
    <2>1. CreatedInv(c) /\ c.by \in Seed /\ c.epoch \in Nat /\ epoch[c.by] \in Nat
      BY <1>2 DEF IInv, CreatedInv, WalletInv
    <2>2. CASE /\ epoch'[c.by] = epoch[c.by]
               /\ last_block_height'[c.by] = last_block_height[c.by]
               /\ stack_of_used_inputs[c.by] \subseteq stack_of_used_inputs'[c.by]
      <3>1. Knows(c.by, c.reread) => Knows(c.by, c.reread)'
        BY <1>4, <2>1, <2>2
      <3> QED
        BY <2>1, <2>2, <3>1 DEF CreatedInv, IsTorn
    <2>3. CASE epoch'[c.by] = epoch[c.by] + 1
      <3>1. c.epoch <= epoch[c.by]
        BY <2>1 DEF CreatedInv
      <3>2. c.epoch <= epoch'[c.by] /\ c.epoch # epoch'[c.by]
        BY <2>1, <2>3, <3>1
      <3> QED
        BY <2>1, <3>2 DEF CreatedInv
    <2>4. CASE c.by = w
      BY <2>2, <2>3, <2>4 DEF Reads
    <2>5. CASE c.by # w
      BY <2>1, <2>2, <2>5 DEF Reads
    <2> QED
      BY <2>4, <2>5
  <1>7. ASSUME NEW db, db = ReadFromDb(w)
        PROVE  Knows(w, db)'
    BY <1>2, <1>7 DEF Knows, Reads, Height, LastBlock
  <1> QED
    BY <1>1, <1>3, <1>5, <1>6, <1>7

\* A step that makes no transaction.
LEMMA ReadsOnly ==
    ASSUME IInv, NEW w \in Seed, Reads(w), UNCHANGED created,
           \A call \in Range(creating'[w]) : CallInv(w, call)'
    PROVE  IInv'
  <1>1. ASSUME NEW v \in Seed, NEW call \in Range(creating'[v])
        PROVE  CallInv(v, call)'
    BY <1>1, ReadsKeepInv
  <1>2. \A c \in Range(created') : CreatedInv(c)'
    BY ReadsKeepInv
  <1>3. HandedOutOnce' /\ OnePerBlockSeen'
    BY DEF IInv, HandedOutOnce, OnePerBlockSeen
  <1> QED
    BY <1>1, <1>2, <1>3, ReadsKeepInv DEF IInv, Reads

\* The stack as get_database leaves it is the old one, or it was emptied.
LEMMA StackReads ==
    ASSUME IInv, NEW w \in Seed, GetDatabase(w), UNCHANGED <<chain, file>>, IsChain(created'),
           NEW stack, StackAfterRead(w) \subseteq stack,
           stack_of_used_inputs' = [stack_of_used_inputs EXCEPT ![w] = stack],
           \/ UNCHANGED creating
           \/ creating' = [creating EXCEPT ![w] = <<>>]
           \/ \E call : creating' = [creating EXCEPT ![w] = <<call>>]
    PROVE  Reads(w) /\ stack_of_used_inputs'[w] = stack
  <1>1. WalletShape
    BY DEF IInv
  <1>2. /\ stack_of_used_inputs' = [v \in Seed |-> stack_of_used_inputs'[v]]
        /\ stack_of_used_inputs'[w] = stack
        /\ \A v \in Seed \ {w} : stack_of_used_inputs'[v] = stack_of_used_inputs[v]
    BY <1>1 DEF WalletShape
  <1>3. /\ creating' = [v \in Seed |-> creating'[v]]
        /\ \A v \in Seed \ {w} : creating'[v] = creating[v]
        /\ \/ creating'[w] = creating[w]
           \/ creating'[w] = <<>>
           \/ \E call : creating'[w] = <<call>>
    BY <1>1 DEF WalletShape
  <1>4. WalletShape'
    <2>1. ASSUME NEW v \in Seed, creating'[v] # <<>>
          PROVE  creating'[v] = <<creating'[v][1]>>
      BY <1>1, <1>3, <2>1, Calls DEF WalletShape
    <2> QED
      BY <1>2, <1>3, <2>1, GetDatabaseReads DEF WalletShape
  <1>5. CASE IsNewBlock(w)
    BY <1>2, <1>3, <1>4, <1>5, GetDatabaseReads DEF Reads
  <1>6. CASE ~IsNewBlock(w)
    <2>1. stack_of_used_inputs[w] \subseteq stack
      BY <1>6 DEF StackAfterRead
    <2> QED
      BY <1>2, <1>3, <1>4, <1>6, <2>1, GetDatabaseReads DEF Reads
  <1> QED
    BY <1>5, <1>6

LEMMA QueryStep ==
    ASSUME IInv, NEW w \in Seed, Query(w)
    PROVE  IInv'
  <1>1. /\ creating[w] = <<>> /\ GetDatabase(w) /\ UNCHANGED <<chain, file, creating, created>>
        /\ stack_of_used_inputs' = [stack_of_used_inputs EXCEPT ![w] = StackAfterRead(w)]
    BY DEF Query
  <1>2. PICK stack : stack = StackAfterRead(w)
    OBVIOUS
  <1>3. IsChain(created')
    BY <1>1 DEF IInv, WalletShape
  <1>4. Reads(w)
    BY <1>1, <1>2, <1>3, StackReads
  <1>5. Range(creating'[w]) = {}
    BY <1>1, Calls
  <1> QED
    BY <1>1, <1>4, <1>5, ReadsOnly

LEMMA BeginStep ==
    ASSUME IInv, NEW w \in Seed, NEW to, NEW amount, BeginTransaction(w, to, amount)
    PROVE  IInv'
  <1> DEFINE call == [to |-> to, amount |-> amount, read |-> ReadFromDb(w),
                      pending |-> StackAfterRead(w),
                      inputs |-> GetValidInputsFromAddress(ReadFromDb(w), GetAddress(w),
                                                           StackAfterRead(w))]
  <1>1. /\ GetDatabase(w) /\ UNCHANGED <<chain, file, created>>
        /\ stack_of_used_inputs' = [stack_of_used_inputs EXCEPT ![w] = StackAfterRead(w)]
        /\ creating' = [creating EXCEPT ![w] = <<call>>]
    BY DEF BeginTransaction
  <1>2. /\ call.read = ReadFromDb(w)
        /\ call.inputs = GetValidInputsFromAddress(ReadFromDb(w), GetAddress(w),
                                                   StackAfterRead(w))
    OBVIOUS
  <1> HIDE DEF call
  <1>3. PICK stack : stack = StackAfterRead(w)
    OBVIOUS
  <1>4. IsChain(created')
    BY <1>1 DEF IInv, WalletShape
  <1>5. Reads(w) /\ stack_of_used_inputs'[w] = stack
    BY <1>1, <1>3, <1>4, StackReads
  <1>6. creating'[w] = <<call>>
    BY <1>1 DEF IInv, WalletShape
  <1>7. ASSUME NEW new, new = call
        PROVE  CallInv(w, new)'
    <2>1. Knows(w, new.read)'
      BY <1>2, <1>5, <1>7, ReadsKeepInv
    <2>2. new.inputs = OwnInputs(new.read, GetAddress(w)) \ stack
      BY <1>2, <1>3, <1>7, PendingOnly
    <2> QED
      BY <1>5, <2>1, <2>2 DEF CallInv
  <1>8. \A new \in Range(creating'[w]) : CallInv(w, new)'
    BY <1>6, <1>7, Calls
  <1> QED
    BY <1>1, <1>5, <1>8, ReadsOnly

LEMMA InitLightnodeApiStep ==
    ASSUME IInv, NEW w \in Seed, InitLightnodeApi(w)
    PROVE  IInv'
  <1>1. /\ stack_of_used_inputs' = [stack_of_used_inputs EXCEPT ![w] = {}]
        /\ last_block_height' = [last_block_height EXCEPT ![w] = Height(ReadFromDb(w))]
        /\ creating' = [creating EXCEPT ![w] = <<>>]
        /\ epoch' = [epoch EXCEPT ![w] = @ + 1]
        /\ UNCHANGED <<chain, file, created>>
    BY DEF InitLightnodeApi
  <1>2. WalletShape
    BY DEF IInv
  <1>3. WalletShape'
    BY <1>1, <1>2 DEF WalletShape
  <1>4. Reads(w) /\ creating'[w] = <<>>
    BY <1>1, <1>2, <1>3 DEF Reads, WalletShape
  <1>5. Range(creating'[w]) = {}
    BY <1>4, Calls
  <1> QED
    BY <1>1, <1>4, <1>5, ReadsOnly

\* What create_transaction makes of a call when the balance is read.
Made(w, call, balance) ==
    Sign(Transaction(DictOfInputs(call.inputs),
                     DictOfOutputs(GetAddress(w), call.to, call.amount, balance)), w)

\* Some inputs of a call: the rest of create_transaction, by what it appends.
FinishedCall(w, call, new) ==
    /\ new.tx = Made(w, call, GetBalanceFromAddress(ReadFromDb(w), GetAddress(w),
                                                    StackAfterRead(w)))
    /\ GetBalanceFromAddress(ReadFromDb(w), GetAddress(w), StackAfterRead(w)) >= call.amount
    /\ new.by = w /\ new.call = call /\ new.reread = ReadFromDb(w)
    /\ new.epoch = epoch'[w]
    /\ call.inputs # {} /\ Inputs(new.tx) \subseteq call.inputs
    /\ stack_of_used_inputs'[w] = StackAfterRead(w) \cup call.inputs
    /\ created' = Append(created, new)

\* What is put on the stack is not on it, and what an earlier transaction since
\* the stack was emptied had is.
LEMMA NewIsApart ==
    ASSUME IInv, NEW w \in Seed, NEW call, CallInv(w, call), GetDatabase(w), Reads(w),
           NEW new, FinishedCall(w, call, new),
           NEW c \in Range(created), c.by = w, c.epoch = new.epoch
    PROVE  /\ Inputs(c.tx) \cap Inputs(new.tx) = {}
           /\ IsTorn(c) \/ IsTorn(new)
  <1>1. CreatedInv(c) /\ c.epoch \in Nat /\ epoch[w] \in Nat /\ c.epoch <= epoch[w]
    BY DEF IInv, WalletInv, CreatedInv
  <1>2. ~IsNewBlock(w) /\ c.epoch = epoch[w]
    <2>1. IsNewBlock(w) => c.epoch = epoch[w] + 1
      BY GetDatabaseReads DEF FinishedCall
    <2>2. ~IsNewBlock(w) => c.epoch = epoch[w]
      BY GetDatabaseReads DEF FinishedCall
    <2> QED
      BY <1>1, <2>1, <2>2
  <1>3. call.inputs = OwnInputs(call.read, GetAddress(w)) \ stack_of_used_inputs[w]
    BY DEF CallInv
  <1>4. Inputs(c.tx) \subseteq stack_of_used_inputs[w]
    BY <1>1, <1>2 DEF CreatedInv
  <1>5. Inputs(c.tx) \cap Inputs(new.tx) = {}
    BY <1>3, <1>4 DEF FinishedCall
  <1>6. ASSUME ~IsTorn(c), ~IsTorn(new)
        PROVE  FALSE
    <2>1. call.read = ReadFromDb(w)
      BY <1>6 DEF IsTorn, FinishedCall
    <2>2. Knows(w, c.reread) /\ OwnInputs(c.reread, GetAddress(w)) \subseteq stack_of_used_inputs[w]
      BY <1>1, <1>2, <1>6 DEF CreatedInv
    <2>3. Height(ReadFromDb(w)) = last_block_height[w]
      BY <2>1 DEF CallInv, Knows
    <2>4. c.reread = call.read
      BY <2>1, <2>2, <2>3 DEF Knows
    <2> QED
      BY <1>3, <2>2, <2>4 DEF FinishedCall
  <1> QED
    BY <1>5, <1>6

LEMMA NewCreated ==
    ASSUME IInv, NEW w \in Seed, NEW call, CallInv(w, call), GetDatabase(w), Reads(w),
           NEW new, FinishedCall(w, call, new)
    PROVE  CreatedInv(new)'
  <1>1. new.by \in Seed /\ new.epoch \in Nat /\ new.epoch <= epoch'[new.by]
    BY ReadsKeepInv DEF FinishedCall, WalletInv
  <1>2. Inputs(new.tx) \subseteq stack_of_used_inputs'[new.by]
    BY DEF FinishedCall
  <1>3. ASSUME ~IsTorn(new)
        PROVE  /\ Knows(w, new.reread)'
               /\ OwnInputs(new.reread, GetAddress(w)) \subseteq stack_of_used_inputs'[w]
    <2>1. call.read = ReadFromDb(w) /\ new.reread = ReadFromDb(w)
      BY <1>3 DEF IsTorn, FinishedCall
    <2>2. Knows(w, new.reread)'
      BY <2>1, ReadsKeepInv
    <2>3. ~IsNewBlock(w)
      <3>1. Height(ReadFromDb(w)) = last_block_height[w] /\ last_block_height[w] \in Nat
        BY <2>1 DEF CallInv, Knows, IInv, WalletInv
      <3> QED
        BY <3>1 DEF IsNewBlock
    <2>4. StackAfterRead(w) = stack_of_used_inputs[w]
      BY <2>3 DEF StackAfterRead
    <2>5. call.inputs = OwnInputs(new.reread, GetAddress(w)) \ stack_of_used_inputs[w]
      BY <2>1 DEF CallInv
    <2> QED
      BY <2>2, <2>4, <2>5 DEF FinishedCall
  <1>4. IsTorn(new)' = IsTorn(new) /\ new.by = w
    BY DEF IsTorn, FinishedCall
  <1> QED
    BY <1>1, <1>2, <1>3, <1>4 DEF CreatedInv

\* A call that raised, or made a transaction.
LEMMA FinishOutcomes ==
    ASSUME IInv, NEW w \in Seed, FinishTransaction(w)
    PROVE  \E call : /\ CallInv(w, call) /\ call \in Range(creating[w])
                     /\ Reads(w) /\ GetDatabase(w) /\ creating'[w] = <<>>
                     /\ created' = created \/ \E new : FinishedCall(w, call, new)
  <1> DEFINE call    == creating[w][1]
             db      == ReadFromDb(w)
             address == GetAddress(w)
             balance == GetBalanceFromAddress(db, address, StackAfterRead(w))
             tx      == Transaction(DictOfInputs(call.inputs),
                                    DictOfOutputs(address, call.to, call.amount, balance))
             spends  == balance >= call.amount
             stack   == IF spends THEN StackAfterRead(w) \cup call.inputs ELSE StackAfterRead(w)
             new     == [by |-> w, tx |-> Sign(tx, w), call |-> call, reread |-> db,
                         epoch |-> IF IsNewBlock(w) THEN epoch[w] + 1 ELSE epoch[w]]
  <1>1. /\ creating[w] # <<>> /\ GetDatabase(w) /\ UNCHANGED <<chain, file>>
        /\ stack_of_used_inputs' = [stack_of_used_inputs EXCEPT ![w] = stack]
        /\ created' = IF spends /\ call.inputs # {} THEN Append(created, new) ELSE created
        /\ creating' = [creating EXCEPT ![w] = <<>>]
    BY DEF FinishTransaction
  <1>2. /\ new.by = w /\ new.call = call /\ new.reread = db /\ new.tx = Sign(tx, w)
        /\ new.epoch = IF IsNewBlock(w) THEN epoch[w] + 1 ELSE epoch[w]
    OBVIOUS
  <1>3. spends => balance >= call.amount /\ stack = StackAfterRead(w) \cup call.inputs
    OBVIOUS
  <1>4. StackAfterRead(w) \subseteq stack
    OBVIOUS
  <1> HIDE DEF spends, stack, new, call
  <1>5. CallInv(w, call) /\ call \in Range(creating[w])
    <2>1. creating[w] = <<call>>
      BY <1>1 DEF IInv, WalletShape, call
    <2>2. call \in Range(creating[w])
      BY <2>1, Calls
    <2> QED
      BY <2>2 DEF IInv
  <1>6. IsChain(created')
    BY <1>1, AppendToChain DEF IInv, WalletShape
  <1>7. Reads(w) /\ stack_of_used_inputs'[w] = stack
    BY <1>1, <1>4, <1>6, StackReads
  <1>8. creating'[w] = <<>>
    BY <1>1 DEF IInv, WalletShape
  <1>9. Inputs(new.tx) \subseteq call.inputs
    <2>1. \A input \in call.inputs : input = <<input[1], input[2]>>
      BY <1>5, InputsArePairs DEF CallInv
    <2> QED
      BY <1>2, <2>1, InputsOfMade
  <1>10. new.epoch = epoch'[w] /\ new.tx = Made(w, call, balance)
    BY <1>1, <1>2, GetDatabaseReads DEF Made
  <1>11. created' = created \/ FinishedCall(w, call, new)
    BY <1>1, <1>2, <1>3, <1>7, <1>9, <1>10 DEF FinishedCall
  <1> QED
    BY <1>1, <1>5, <1>7, <1>8, <1>11

LEMMA FinishStep ==
    ASSUME IInv, NEW w \in Seed, FinishTransaction(w)
    PROVE  IInv'
  <1>1. PICK call : /\ CallInv(w, call)
                    /\ Reads(w) /\ GetDatabase(w) /\ creating'[w] = <<>>
                    /\ created' = created \/ \E new : FinishedCall(w, call, new)
    BY FinishOutcomes
  <1>2. Range(creating'[w]) = {}
    BY <1>1, Calls
  <1>3. CASE created' = created
    BY <1>1, <1>2, <1>3, ReadsOnly
  <1>4. ASSUME NEW new, FinishedCall(w, call, new)
        PROVE  IInv'
    <2>1. /\ created' = Append(created, new) /\ IsChain(created) /\ new.by = w
      BY <1>4 DEF FinishedCall, IInv, WalletShape
    <2> DEFINE n == Len(created)
    <2>2. /\ n \in Nat /\ DOMAIN created = 1..n /\ DOMAIN created' = 1..(n + 1)
          /\ \A i \in 1..n : created'[i] = created[i]
          /\ created'[n + 1] = new
      BY <2>1, AppendToChain
    <2> HIDE DEF n
    <2>3. ASSUME NEW i \in DOMAIN created'
          PROVE  \/ i \in DOMAIN created /\ created'[i] = created[i]
                                         /\ created[i] \in Range(created)
                 \/ i = n + 1 /\ created'[i] = new
      BY <2>2 DEF Range
    <2>4. ASSUME NEW c \in Range(created')
          PROVE  CreatedInv(c)'
      <3>1. c \in Range(created) \/ c = new
        BY <2>3, <2>4 DEF Range
      <3> QED
        BY <1>1, <1>4, <3>1, ReadsKeepInv, NewCreated
    <2>5. ASSUME NEW i \in DOMAIN created', NEW j \in DOMAIN created', i # j,
                 created'[i].by = created'[j].by, created'[i].epoch = created'[j].epoch
          PROVE  /\ Inputs(created'[i].tx) \cap Inputs(created'[j].tx) = {}
                 /\ IsTorn(created'[i]) \/ IsTorn(created'[j])
      <3>1. CASE i \in DOMAIN created /\ j \in DOMAIN created
        BY <2>2, <2>5, <3>1 DEF IInv, HandedOutOnce, OnePerBlockSeen
      <3>2. ASSUME NEW c \in Range(created), c.by = w, c.epoch = new.epoch
            PROVE  /\ Inputs(c.tx) \cap Inputs(new.tx) = {}
                   /\ IsTorn(c) \/ IsTorn(new)
        BY <1>1, <1>4, <3>2, NewIsApart
      <3>3. CASE i = n + 1 /\ j \in DOMAIN created
        <4>1. created'[i] = new /\ created'[j] = created[j] /\ created[j] \in Range(created)
          BY <2>2, <3>3 DEF Range
        <4> QED
          BY <2>1, <2>5, <3>2, <4>1
      <3>4. CASE j = n + 1 /\ i \in DOMAIN created
        <4>1. created'[j] = new /\ created'[i] = created[i] /\ created[i] \in Range(created)
          BY <2>2, <3>4 DEF Range
        <4> QED
          BY <2>1, <2>5, <3>2, <4>1
      <3> QED
        BY <2>3, <2>5, <3>1, <3>3, <3>4
    <2>6. HandedOutOnce' /\ OnePerBlockSeen'
      BY <2>5 DEF HandedOutOnce, OnePerBlockSeen, IsTorn
    <2>7. ASSUME NEW v \in Seed, NEW other \in Range(creating'[v])
          PROVE  CallInv(v, other)'
      BY <1>1, <1>2, <2>7, ReadsKeepInv
    <2> QED
      BY <1>1, <2>4, <2>6, <2>7, ReadsKeepInv DEF IInv, Reads
  <1> QED
    BY <1>1, <1>3, <1>4

-----------------------------------------------------------------------------
(* All steps *)

LEMMA NextInv == IInv /\ [Next]_vars => IInv'
  <1> SUFFICES ASSUME IInv, [Next]_vars
               PROVE  IInv'
    OBVIOUS
  <1>1. ASSUME \/ \E w \in Seed : BroadcastCreated(w)
               \/ UNCHANGED vars
        PROVE  IInv'
    <2>1. UNCHANGED <<chain, file>> /\ WalletsRest
      BY <1>1 DEF BroadcastCreated, WalletsRest, vars
    <2>2. FilesInv'
      BY <2>1 DEF IInv, FilesInv, IsDatabase, Height, LastBlock
    <2>3. \A w \in Seed : ReadFromDb(w)' = ReadFromDb(w)
      BY <2>1 DEF ReadFromDb
    <2> QED
      BY <2>1, <2>2, <2>3, WorldStep
  <1> QED
    BY <1>1, QueryStep, BeginStep, FinishStep, SynchroniseStep, InitLightnodeApiStep, NodeStep
    DEF Next

\* The invariant holds in every state.
LEMMA Invariance == Spec => []IInv
  BY InitInv, NextInv, PTL DEF Spec

-----------------------------------------------------------------------------
(* What is spent is owned: a second invariant, of all transactions *)

\* A dict of outputs has one for each address.
IsPayment(tx) ==
    /\ IsProper(tx)
    /\ \A p, q \in DOMAIN tx.dict_of_outputs :
          tx.dict_of_outputs[p].address = tx.dict_of_outputs[q].address => p = q

\* The input refers to an output to the address of a wallet, wherever it is.
RefersToOutputOf(w, input) ==
    \E tx : IsPayment(tx) /\ input \in OutputsTo(tx, GetAddress(w))

SpendsOwn(tx) ==
    /\ IsPayment(tx)
    /\ \A input \in Inputs(tx) : \E w \in Seed :
          tx.verifying_key = VerifyingKey(w) /\ RefersToOutputOf(w, input)

\* What the balance of an address is computed as adds up to what its unspent
\* outputs are worth.
Balanced(db, address) ==
    /\ IsFiniteSet(Unspent(db, address))
    /\ GetBalanceFromAddress(db, address, {}) = UnspentAmount(db, address)

\* No two transactions of the database spend the same output.
SpentOnce(db) ==
    \A p, q \in Places(db) : p # q => Inputs(At(db, p)) \cap Inputs(At(db, q)) = {}

ChainOwned(db) ==
    /\ \A tx \in TransactionsIn(db) :
          /\ SpendsOwn(tx)
          /\ \A input \in Inputs(tx) : OutputExists(db, input) /\ input[1] # tx.txhash
    /\ IsFiniteSet(Places(db)) /\ SpentOnce(db)
    /\ \A w \in Seed : Balanced(db, GetAddress(w))

\* A call that is running has amounts that are numbers, and inputs that it
\* found in the database it has read.
CallOwned(w, call) ==
    /\ ChainOwned(call.read) /\ call.amount \in Int
    /\ call.inputs = OwnInputs(call.read, GetAddress(w)) \ call.pending

\* What a wallet made of one database with nothing pending is valid in it.
CreatedOwned(c) ==
    /\ SpendsOwn(c.tx) /\ Inputs(c.tx) # {}
    /\ ~IsTorn(c) /\ c.call.pending = {} /\ c.call.to # GetAddress(c.by) =>
          ValidTransaction(c.reread, c.tx)

OwnedInv ==
    /\ \A n \in Node : ChainOwned(chain[n])
    /\ \A n \in Node : \A tx \in broadcast[n] : SpendsOwn(tx) /\ Inputs(tx) # {}
    /\ \A w \in Seed : ChainOwned(file[w])
    /\ \A w \in Seed : \A call \in Range(creating[w]) : CallOwned(w, call)
    /\ \A c \in Range(created) : CreatedOwned(c)

LEMMA ReadOwned ==
    ASSUME OwnedInv, NEW w \in Seed
    PROVE  ChainOwned(ReadFromDb(w))
  <1>1. FullNodeOf[w] \in Node
    BY WalletAssumption
  <1> QED
    BY <1>1 DEF OwnedInv, ReadFromDb

LEMMA OwnedIsProper ==
    ASSUME NEW db, ChainOwned(db)
    PROVE  ProperChain(db)
  BY DEF ChainOwned, SpendsOwn, IsPayment, ProperChain

LEMMA OwnInputsRefer ==
    ASSUME NEW db, ChainOwned(db), NEW w, NEW input \in OwnInputs(db, GetAddress(w))
    PROVE  RefersToOutputOf(w, input)
  <1>1. PICK tx \in TransactionsIn(db) : input \in OutputsTo(tx, GetAddress(w))
    BY DEF OwnInputs, GetValidInputsFromAddress
  <1> QED
    BY <1>1 DEF ChainOwned, SpendsOwn, RefersToOutputOf

\* An input refers to one output, whichever transaction it is looked up in.
LEMMA SameOutput ==
    ASSUME NEW tx, IsPayment(tx), NEW other, IsPayment(other), NEW address, NEW its,
           NEW input \in OutputsTo(tx, address), NEW same \in OutputsTo(other, its),
           input[1] = same[1]
    PROVE  /\ OutputsTo(tx, address) = OutputsTo(other, address)
           /\ input = same <=> address = its
  <1>1. PICK p \in DOMAIN tx.dict_of_outputs :
           /\ tx.dict_of_outputs[p].address = address /\ input = <<tx.txhash, p - 1>>
    BY DEF OutputsTo
  <1>2. PICK q \in DOMAIN other.dict_of_outputs :
           /\ other.dict_of_outputs[q].address = its /\ same = <<other.txhash, q - 1>>
    BY DEF OutputsTo
  <1>3. tx.txhash = other.txhash /\ tx.dict_of_outputs = other.dict_of_outputs
    <2>1. tx.txhash = other.txhash
      BY <1>1, <1>2
    <2> QED
      BY <2>1, SameTransaction DEF IsPayment, IsProper
  <1>4. p \in Nat /\ q \in Nat
    BY DEF IsPayment, IsProper
  <1>5. input = same <=> p = q
    BY <1>1, <1>2, <1>3, <1>4
  <1>6. p = q <=> address = its
    BY <1>1, <1>2, <1>3 DEF IsPayment
  <1>7. OutputsTo(tx, address) = OutputsTo(other, address)
    BY <1>3 DEF OutputsTo
  <1> QED
    BY <1>5, <1>6, <1>7

\* What an input of a chain refers to is there, and belongs to the wallet that
\* the output is addressed to.
LEMMA OwnerOfOutput ==
    ASSUME NEW db, ChainOwned(db), NEW w, NEW input, OutputExists(db, input),
           RefersToOutputOf(w, input)
    PROVE  /\ IsOwned(db, input, VerifyingKey(w))
           /\ \E tx \in TransactionsIn(db) : input \in OutputsTo(tx, GetAddress(w))
  <1>1. PICK tx : IsPayment(tx) /\ input \in OutputsTo(tx, GetAddress(w))
    BY DEF RefersToOutputOf
  <1>2. PICK p \in DOMAIN tx.dict_of_outputs :
           /\ tx.dict_of_outputs[p].address = GetAddress(w)
           /\ input = <<tx.txhash, p - 1>>
    BY <1>1 DEF OutputsTo
  <1>3. PICK found \in TransactionsIn(db) : found.txhash = tx.txhash
    BY <1>2 DEF OutputExists
  <1>4. found.dict_of_outputs = tx.dict_of_outputs
    BY <1>1, <1>3, SameTransaction DEF ChainOwned, SpendsOwn, IsPayment, IsProper
  <1>5. OutputOf(db, input) = tx.dict_of_outputs[p]
    BY <1>2, <1>3, <1>4, OwnedIsProper, AmountFound
  <1>6. input \in OutputsTo(found, GetAddress(w))
    BY <1>2, <1>3, <1>4 DEF OutputsTo
  <1> QED
    BY <1>2, <1>3, <1>5, <1>6 DEF IsOwned, VerifyAddress, GetAddress

\* No output is addressed to two.
LEMMA OneAddress ==
    ASSUME NEW tx, IsPayment(tx), NEW address, NEW input \in OutputsTo(tx, address),
           NEW w, RefersToOutputOf(w, input)
    PROVE  address = GetAddress(w)
  BY SameOutput DEF RefersToOutputOf

\* The wallet looks for what it has spent among what it has signed: nobody else
\* spends it.
LEMMA OwnInputsUnspent ==
    ASSUME NEW db, ChainOwned(db), NEW w
    PROVE  OwnInputs(db, GetAddress(w)) = Unspent(db, GetAddress(w))
  <1> DEFINE address == GetAddress(w)
             paid == UNION {OutputsTo(tx, address) : tx \in TransactionsIn(db)}
             spent == UNION {Inputs(tx) :
                               tx \in {t \in TransactionsIn(db) : IsSignedBy(t, address)}}
  <1>1. OwnInputs(db, address) = paid \ spent
    BY DEF OwnInputs, GetValidInputsFromAddress
  <1>2. Unspent(db, address) = {input \in paid : IsSpendable(db, input)}
    BY DEF Unspent
  <1>3. \A input : input \in paid <=>
           \E tx \in TransactionsIn(db) : input \in OutputsTo(tx, address)
    OBVIOUS
  <1>4. \A input : input \in spent <=>
           \E tx \in TransactionsIn(db) : IsSignedBy(tx, address) /\ input \in Inputs(tx)
    OBVIOUS
  <1> HIDE DEF paid, spent
  <1>5. ASSUME NEW input \in paid, input \notin spent
        PROVE  IsSpendable(db, input)
    <2>1. PICK t \in TransactionsIn(db) : input \in OutputsTo(t, address)
      BY <1>3, <1>5
    <2>2. IsPayment(t)
      BY <2>1 DEF ChainOwned, SpendsOwn
    <2>3. OutputExists(db, input)
      BY <2>1, OwnedIsProper, AmountFound DEF OutputsTo
    <2>4. ASSUME NEW tx \in TransactionsIn(db), input \in Inputs(tx)
          PROVE  FALSE
      <3>1. PICK v \in Seed : tx.verifying_key = VerifyingKey(v) /\ RefersToOutputOf(v, input)
        BY <2>4 DEF ChainOwned, SpendsOwn
      <3>2. address = GetAddress(v)
        BY <2>1, <2>2, <3>1, OneAddress
      <3>3. IsSignedBy(tx, address)
        BY <3>1, <3>2 DEF IsSignedBy, VerifyAddress, GetAddress
      <3> QED
        BY <1>4, <1>5, <2>4, <3>3
    <2> QED
      BY <2>3, <2>4 DEF IsSpendable
  <1>6. ASSUME NEW input \in spent
        PROVE  ~IsSpendable(db, input)
    BY <1>4, <1>6 DEF IsSpendable
  <1> QED
    BY <1>1, <1>2, <1>5, <1>6

\* A valid transaction that a wallet has signed takes what the wallet has not
\* spent, and any other takes nothing of it.
LEMMA SpendsFromUnspent ==
    ASSUME NEW db, ChainOwned(db), NEW tx, SpendsOwn(tx), ValidTransaction(db, tx), NEW w
    PROVE  /\ IsSignedBy(tx, GetAddress(w)) => Inputs(tx) \subseteq Unspent(db, GetAddress(w))
           /\ ~IsSignedBy(tx, GetAddress(w)) =>
                 Inputs(tx) \cap Unspent(db, GetAddress(w)) = {}
  <1> DEFINE address == GetAddress(w)
  <1>1. ASSUME NEW input \in Inputs(tx)
        PROVE  \E v : /\ tx.verifying_key = VerifyingKey(v)
                      /\ \E t \in TransactionsIn(db) : input \in OutputsTo(t, GetAddress(v))
                      /\ RefersToOutputOf(v, input)
                      /\ IsSpendable(db, input)
    <2>1. PICK v \in Seed : tx.verifying_key = VerifyingKey(v) /\ RefersToOutputOf(v, input)
      BY DEF SpendsOwn
    <2>2. IsSpendable(db, input) /\ OutputExists(db, input)
      BY DEF ValidTransaction, IsSpendable
    <2> QED
      BY <2>1, <2>2, OwnerOfOutput
  <1>2. ASSUME NEW input \in Inputs(tx), IsSignedBy(tx, address)
        PROVE  input \in Unspent(db, address)
    <2>1. PICK v : /\ tx.verifying_key = VerifyingKey(v)
                   /\ \E t \in TransactionsIn(db) : input \in OutputsTo(t, GetAddress(v))
                   /\ IsSpendable(db, input)
      BY <1>1
    <2>2. address = GetAddress(v)
      BY <1>2, <2>1 DEF IsSignedBy, VerifyAddress, GetAddress
    <2> HIDE DEF address
    <2> QED
      BY <2>1, <2>2 DEF Unspent
  <1>3. ASSUME NEW input \in Inputs(tx), input \in Unspent(db, address)
        PROVE  IsSignedBy(tx, address)
    <2>1. PICK v : tx.verifying_key = VerifyingKey(v) /\ RefersToOutputOf(v, input)
      BY <1>1
    <2>2. PICK t \in TransactionsIn(db) : input \in OutputsTo(t, address)
      BY <1>3 DEF Unspent
    <2>3. address = GetAddress(v)
      BY <2>1, <2>2, OneAddress DEF ChainOwned, SpendsOwn
    <2> QED
      BY <2>1, <2>3 DEF IsSignedBy, VerifyAddress, GetAddress
  <1> QED
    BY <1>2, <1>3

\* Where in a transaction an address is paid.
PaidPlaces(tx, address) ==
    {p \in DOMAIN tx.dict_of_outputs : tx.dict_of_outputs[p].address = address}

LEMMA PaidTo ==
    ASSUME NEW tx, NEW address
    PROVE  /\ OutputsTo(tx, address) = OutputsAt(tx, PaidPlaces(tx, address))
           /\ AmountTo(tx, address) = PaidAt(tx, PaidPlaces(tx, address))
           /\ PaidPlaces(tx, address) \subseteq DOMAIN tx.dict_of_outputs
  BY DEF OutputsTo, OutputsAt, AmountTo, PaidAt, PaidPlaces

\* What a transaction adds to the balance of an address.
Gained(tx, address) ==
    AmountTo(tx, address) - (IF IsSignedBy(tx, address) THEN OutputAmount(tx) ELSE 0)

LEMMA PaidIsInt ==
    ASSUME NEW tx, IsProper(tx), NEW P, P \subseteq DOMAIN tx.dict_of_outputs
    PROVE  PaidAt(tx, P) \in Int
  <1> DEFINE G == [p \in P |-> tx.dict_of_outputs[p].amount]
  <1>1. IsFiniteSet(P) /\ \A p \in P : G[p] \in Int
    BY FS_Subset DEF IsProper
  <1>2. PaidAt(tx, P) = SumFunctionOnSet(G, P)
    BY DEF PaidAt, SumFunction
  <1> HIDE DEF G
  <1> QED
    BY <1>1, <1>2, SumInt

LEMMA GainIsGained ==
    ASSUME NEW tx, IsProper(tx), \A input \in Inputs(tx) : input[1] # tx.txhash,
           NEW db, NEW address, NEW pending
    PROVE  /\ Gain(db, tx, address, pending) = Gained(tx, address)
           /\ Gained(tx, address) \in Int /\ AmountTo(tx, address) \in Int
           /\ OutputAmount(tx) \in Int
  <1> DEFINE stale == Inputs(tx) \cap pending \cap FirstOutputTo(tx, address)
  <1>1. stale = {}
    BY DEF FirstOutputTo
  <1>2. AmountTo(tx, address) \in Int /\ OutputAmount(tx) \in Int
    BY PaidTo, PaidIsInt, AmountsAreSums
  <1>3. SumFunction([input \in stale |-> GetAmountFromInput(db, input)]) = 0
    <2> DEFINE F == [input \in stale |-> GetAmountFromInput(db, input)]
    <2>1. DOMAIN F = {}
      BY <1>1
    <2> HIDE DEF F
    <2> QED
      BY <2>1, SumEmpty DEF SumFunction, F
  <1>4. Gain(db, tx, address, pending)
          = Gained(tx, address) - SumFunction([input \in stale |-> GetAmountFromInput(db, input)])
    BY DEF Gain, Gained
  <1>5. Gained(tx, address) \in Int
    BY <1>2 DEF Gained
  <1> HIDE DEF stale
  <1> QED
    BY <1>2, <1>3, <1>4, <1>5

LEMMA PlacesAreTransactions ==
    ASSUME NEW db, NEW place \in Places(db)
    PROVE  At(db, place) \in TransactionsIn(db)
  <1>1. PICK i \in DOMAIN db : \E k \in DOMAIN db[i].block_content : place = <<i, k>>
    BY DEF Places
  <1>2. PICK k \in DOMAIN db[i].block_content : place = <<i, k>>
    BY <1>1
  <1> QED
    BY <1>2 DEF At, TransactionsIn, TransactionsOf, Range

\* No transaction of the database spends an output of its own.
NoneSpendsItself(db) ==
    \A tx \in TransactionsIn(db) :
        IsProper(tx) /\ \A input \in Inputs(tx) : input[1] # tx.txhash

\* The balance adds up what all transactions gain, whatever is on the stack.
LEMMA BalanceIsGained ==
    ASSUME NEW db, IsFiniteSet(Places(db)), NoneSpendsItself(db), NEW address, NEW pending
    PROVE  /\ GetBalanceFromAddress(db, address, pending)
                = SumFunction([place \in Places(db) |-> Gained(At(db, place), address)])
           /\ GetBalanceFromAddress(db, address, pending) \in Int
  <1> DEFINE F == [place \in Places(db) |-> Gain(db, At(db, place), address, pending)]
             G == [place \in Places(db) |-> Gained(At(db, place), address)]
  <1>1. \A place \in Places(db) : F[place] = G[place] /\ F[place] \in Int
    BY PlacesAreTransactions, GainIsGained DEF NoneSpendsItself
  <1>2. /\ GetBalanceFromAddress(db, address, pending) = SumFunctionOnSet(F, Places(db))
        /\ SumFunction(G) = SumFunctionOnSet(G, Places(db))
    BY DEF GetBalanceFromAddress, SumFunction
  <1> HIDE DEF F
  <1>3. SumFunctionOnSet(F, Places(db)) = SumFunctionOnSet(G, Places(db))
    <2> HIDE DEF G
    <2> QED
      BY <1>1, SumCongruent
  <1>4. SumFunctionOnSet(F, Places(db)) \in Int
    BY <1>1, SumInt
  <1> QED
    BY <1>2, <1>3, <1>4

-----------------------------------------------------------------------------
(* A block more *)

\* The database has one transaction more than another one.
OneMore(db, new, place, tx) ==
    /\ IsFiniteSet(Places(db)) /\ IsFiniteSet(Places(new))
    /\ place \notin Places(db) /\ Places(new) = Places(db) \cup {place}
    /\ At(new, place) = tx
    /\ \A old \in Places(db) : At(new, old) = At(db, old)

LEMMA PlacesGrow ==
    ASSUME NEW db, IsChain(db), IsFiniteSet(Places(db)), NEW tx,
           NEW mined \in MineBlock(db, Block(<<tx>>)), NEW new, new = AddBlockToDb(db, mined)
    PROVE  \E place : OneMore(db, new, place, tx)
  <1> DEFINE b     == Link(db, mined)
             n     == Len(db) + 1
             place == <<n, 1>>
  <1>1. b.block_content = <<tx>> /\ DOMAIN <<tx>> = {1} /\ <<tx>>[1] = tx
    <2>1. DOMAIN <<tx>> = {1} /\ <<tx>>[1] = tx
      OBVIOUS
    <2> QED
      BY <2>1, MinedBlock
  <1>2. new = Append(db, b)
    BY DEF AddBlockToDb
  <1> HIDE DEF b
  <1>3. /\ DOMAIN new = DOMAIN db \cup {n} /\ n \notin DOMAIN db
        /\ \A i \in DOMAIN db : new[i] = db[i]
        /\ new[n] = b
    BY <1>2, AppendToChain
  <1>4. \A p : p \in Places(db) <=>
           \E i \in DOMAIN db : \E k \in DOMAIN db[i].block_content : p = <<i, k>>
    BY DEF Places
  <1>5. \A p : p \in Places(new) <=>
           \E i \in DOMAIN new : \E k \in DOMAIN new[i].block_content : p = <<i, k>>
    BY DEF Places
  <1> HIDE DEF n
  <1>6. place \notin Places(db)
    BY <1>3, <1>4
  <1>7. Places(new) = Places(db) \cup {place}
    <2>1. ASSUME NEW p
          PROVE  p \in Places(new) <=> p \in Places(db) \/ p = place
      BY <1>1, <1>3, <1>4, <1>5
    <2> QED
      BY <2>1
  <1>8. At(new, place) = tx
    BY <1>1, <1>3 DEF At
  <1>9. \A old \in Places(db) : At(new, old) = At(db, old)
    BY <1>3, <1>4 DEF At
  <1>10. IsFiniteSet(Places(new))
    BY <1>7, FS_AddElement
  <1> HIDE DEF place
  <1> QED
    BY <1>6, <1>7, <1>8, <1>9, <1>10 DEF OneMore

\* The balance grows by what the new transaction gains.
LEMMA BalanceGrows ==
    ASSUME NEW db, NEW new, NEW place, NEW tx, OneMore(db, new, place, tx),
           TransactionsIn(db) \subseteq TransactionsIn(new), NoneSpendsItself(new), NEW address
    PROVE  GetBalanceFromAddress(new, address, {})
             = GetBalanceFromAddress(db, address, {}) + Gained(tx, address)
  <1> DEFINE F == [p \in Places(db) |-> Gained(At(db, p), address)]
             G == [p \in Places(new) |-> Gained(At(new, p), address)]
  <1>0. NoneSpendsItself(db)
    BY DEF NoneSpendsItself
  <1>1. /\ GetBalanceFromAddress(new, address, {}) = SumFunctionOnSet(G, Places(new))
        /\ GetBalanceFromAddress(db, address, {}) = SumFunctionOnSet(F, Places(db))
        /\ GetBalanceFromAddress(db, address, {}) \in Int
    <2>1. /\ SumFunction(F) = SumFunctionOnSet(F, Places(db))
          /\ SumFunction(G) = SumFunctionOnSet(G, Places(new))
      BY DEF SumFunction
    <2>2. GetBalanceFromAddress(new, address, {}) = SumFunction(G)
      BY BalanceIsGained DEF OneMore
    <2>3. /\ GetBalanceFromAddress(db, address, {}) = SumFunction(F)
          /\ GetBalanceFromAddress(db, address, {}) \in Int
      BY <1>0, BalanceIsGained DEF OneMore
    <2> HIDE DEF F, G
    <2> QED
      BY <2>1, <2>2, <2>3
  <1>2. \A p \in Places(new) : G[p] \in Int
    BY PlacesAreTransactions, GainIsGained DEF NoneSpendsItself
  <1>3. \A p \in Places(db) : G[p] = F[p]
    BY DEF OneMore
  <1>4. G[place] = Gained(tx, address)
    BY DEF OneMore
  <1>5. Places(new) \ {place} = Places(db) /\ place \in Places(new)
    BY DEF OneMore
  <1> HIDE DEF F, G
  <1>6. SumFunctionOnSet(G, Places(new)) = G[place] + SumFunctionOnSet(G, Places(db))
    BY <1>2, <1>5, SumRemove DEF OneMore
  <1>7. SumFunctionOnSet(G, Places(db)) = SumFunctionOnSet(F, Places(db))
    BY <1>3, SumCongruent DEF OneMore
  <1>8. G[place] \in Int
    BY <1>2, <1>5
  <1> QED
    BY <1>1, <1>4, <1>6, <1>7, <1>8

\* What an address has not spent when a valid transaction was added: what is
\* left of it, and what the transaction pays to it.
LEMMA UnspentGrows ==
    ASSUME NEW db, ProperChain(db), NEW tx, IsProper(tx), ValidTransaction(db, tx),
           \A other \in TransactionsIn(db) : other.txhash # tx.txhash,
           NEW new, TransactionsIn(new) = TransactionsIn(db) \cup {tx}, NEW address
    PROVE  Unspent(new, address)
             = (Unspent(db, address) \ Inputs(tx)) \cup OutputsTo(tx, address)
  <1>1. ASSUME NEW c, NEW input
        PROVE  input \in Unspent(c, address) <=>
                  /\ \E t \in TransactionsIn(c) : input \in OutputsTo(t, address)
                  /\ IsSpendable(c, input)
    BY DEF Unspent
  <1>2. ProperChain(new)
    BY ChainStaysProper
  <1>3. ASSUME NEW input \in OutputsTo(tx, address)
        PROVE  input[1] = tx.txhash /\ IsSpendable(new, input)
    <2>1. input[1] = tx.txhash
      BY DEF OutputsTo
    <2>2. OutputExists(new, input)
      BY <1>2, AmountFound DEF OutputsTo
    <2>3. ~OutputExists(db, input)
      BY <2>1 DEF OutputExists
    <2>4. \A t \in TransactionsIn(new) : input \notin Inputs(t)
      <3>1. \A t \in TransactionsIn(db) : input \notin Inputs(t)
        BY <2>3 DEF ProperChain
      <3>2. input \notin Inputs(tx)
        BY <2>3 DEF ValidTransaction, IsSpendable
      <3> QED
        BY <3>1, <3>2
    <2> QED
      BY <2>1, <2>2, <2>4 DEF IsSpendable
  <1>4. ASSUME NEW input, NEW t \in TransactionsIn(db), input \in OutputsTo(t, address)
        PROVE  IsSpendable(new, input) <=> IsSpendable(db, input) /\ input \notin Inputs(tx)
    <2>1. OutputExists(db, input)
      BY <1>4, AmountFound DEF OutputsTo
    <2>2. OutputExists(new, input)
      BY <2>1 DEF OutputExists
    <2> QED
      BY <2>1, <2>2 DEF IsSpendable
  <1>5. ASSUME NEW input
        PROVE  input \in Unspent(new, address) <=>
                  \/ input \in Unspent(db, address) /\ input \notin Inputs(tx)
                  \/ input \in OutputsTo(tx, address)
    <2>1. input \in Unspent(new, address) <=>
             /\ \E t \in TransactionsIn(new) : input \in OutputsTo(t, address)
             /\ IsSpendable(new, input)
      BY <1>1
    <2>2. input \in Unspent(db, address) <=>
             /\ \E t \in TransactionsIn(db) : input \in OutputsTo(t, address)
             /\ IsSpendable(db, input)
      BY <1>1
    <2> QED
      BY <1>3, <1>4, <2>1, <2>2
  <1> QED
    BY <1>5

\* What a valid transaction of a wallet does to the balance of an address, it
\* does to what its unspent outputs are worth.
LEMMA StaysBalanced ==
    ASSUME NEW db, ChainOwned(db), NEW tx, SpendsOwn(tx), ValidTransaction(db, tx),
           \A other \in TransactionsIn(db) : other.txhash # tx.txhash,
           NEW new, TransactionsIn(new) = TransactionsIn(db) \cup {tx},
           NEW w \in Seed,
           GetBalanceFromAddress(new, GetAddress(w), {})
              = GetBalanceFromAddress(db, GetAddress(w), {}) + Gained(tx, GetAddress(w))
    PROVE  Balanced(new, GetAddress(w))
  <1> DEFINE a == GetAddress(w)
             S == Unspent(db, a)
             U == S \cap Inputs(tx)
             P == PaidPlaces(tx, a)
  <1> HIDE DEF a
  <1>1. ProperChain(db) /\ IsProper(tx)
    BY OwnedIsProper DEF SpendsOwn, IsPayment
  <1>2. /\ IsFiniteSet(S) /\ GetBalanceFromAddress(db, a, {}) = AmountOf(db, S)
        /\ \A c : UnspentAmount(c, a) = AmountOf(c, Unspent(c, a))
    BY DEF ChainOwned, Balanced, UnspentAmount, AmountOf, a
  <1>3. \A input \in S : OutputExists(db, input)
    BY DEF Unspent, IsSpendable
  <1>4. /\ OutputsTo(tx, a) = OutputsAt(tx, P) /\ AmountTo(tx, a) = PaidAt(tx, P)
        /\ P \subseteq DOMAIN tx.dict_of_outputs
    BY PaidTo
  <1>5. Unspent(new, a) = (S \ U) \cup OutputsAt(tx, P)
    <2>1. Unspent(new, a) = (S \ Inputs(tx)) \cup OutputsTo(tx, a)
      BY <1>1, UnspentGrows
    <2> HIDE DEF S
    <2> QED
      BY <1>4, <2>1
  <1> HIDE DEF P
  <1>6. /\ IsFiniteSet((S \ U) \cup OutputsAt(tx, P))
        /\ AmountOf(new, (S \ U) \cup OutputsAt(tx, P))
             = AmountOf(db, S) - AmountOf(db, U) + PaidAt(tx, P)
        /\ AmountOf(db, S) \in Int /\ AmountOf(db, U) \in Int /\ PaidAt(tx, P) \in Int
    <2>1. U \subseteq S
      OBVIOUS
    <2> HIDE DEF S, U
    <2> QED
      BY <1>1, <1>2, <1>3, <1>4, <2>1, AmountAfter
  <1>7. AmountOf(db, U) = IF IsSignedBy(tx, a) THEN OutputAmount(tx) ELSE 0
    <2>1. CASE IsSignedBy(tx, a)
      <3>1. U = Inputs(tx)
        BY <2>1, SpendsFromUnspent DEF a
      <3>2. AmountOf(db, Inputs(tx)) = OutputAmount(tx)
        BY AmountsAreSums DEF ValidTransaction
      <3> QED
        BY <2>1, <3>1, <3>2
    <2>2. CASE ~IsSignedBy(tx, a)
      <3>1. U = {}
        BY <2>2, SpendsFromUnspent DEF a
      <3>2. AmountOf(db, {}) = 0
        <4> DEFINE F == [input \in {} |-> GetAmountFromInput(db, input)]
        <4>1. AmountOf(db, {}) = SumFunctionOnSet(F, {})
          BY DEF AmountOf, SumFunction
        <4> HIDE DEF F
        <4> QED
          BY <4>1, SumEmpty
      <3> QED
        BY <2>2, <3>1, <3>2
    <2> QED
      BY <2>1, <2>2
  <1>8. GetBalanceFromAddress(new, a, {})
          = AmountOf(db, S) + (PaidAt(tx, P) - (IF IsSignedBy(tx, a) THEN OutputAmount(tx) ELSE 0))
    BY <1>2, <1>4 DEF Gained, a
  <1> HIDE DEF S, U
  <1>9. GetBalanceFromAddress(new, a, {}) = UnspentAmount(new, a)
    <2>1. UnspentAmount(new, a) = AmountOf(db, S) - AmountOf(db, U) + PaidAt(tx, P)
      BY <1>2, <1>5, <1>6
    <2>2. GetBalanceFromAddress(new, a, {}) = AmountOf(db, S) + (PaidAt(tx, P) - AmountOf(db, U))
      BY <1>7, <1>8
    <2> QED
      BY <1>6, <2>1, <2>2
  <1> QED
    BY <1>5, <1>6, <1>9 DEF Balanced, a

\* A block that was validated spends outputs that exist, and a chain with one
\* block more has all outputs it had.
LEMMA MinedOwned ==
    ASSUME NEW db, IsDatabase(db), ChainOwned(db), NEW tx, SpendsOwn(tx), Inputs(tx) # {},
           ValidateBlock(db, Block(<<tx>>)), NEW mined \in MineBlock(db, Block(<<tx>>))
    PROVE  ChainOwned(AddBlockToDb(db, mined))
  <1>1. PICK new : new = AddBlockToDb(db, mined)
    OBVIOUS
  <1>2. ValidTransaction(db, tx) /\ TransactionsIn(new) = TransactionsIn(db) \cup {tx}
    BY <1>1, ValidatedAlone, MinedTransactions DEF IsDatabase
  <1>3. ProperChain(db) /\ IsProper(tx)
    BY OwnedIsProper DEF SpendsOwn, IsPayment
  <1>4. \A other \in TransactionsIn(db) : other.txhash # tx.txhash
    BY <1>2, <1>3, ValidIsNew
  <1>5. \A input : OutputExists(db, input) => OutputExists(new, input)
    BY <1>2 DEF OutputExists
  <1>6. \A input \in Inputs(tx) : OutputExists(db, input) /\ input[1] # tx.txhash
    BY <1>2, <1>4 DEF ValidTransaction, IsSpendable, OutputExists
  <1>7. \A t \in TransactionsIn(new) :
           /\ SpendsOwn(t)
           /\ \A input \in Inputs(t) : OutputExists(new, input) /\ input[1] # t.txhash
    BY <1>2, <1>5, <1>6 DEF ChainOwned
  <1>8. PICK place : OneMore(db, new, place, tx)
    BY <1>1, PlacesGrow DEF IsDatabase, ChainOwned
  <1>9. ASSUME NEW w \in Seed
        PROVE  Balanced(new, GetAddress(w))
    <2>1. TransactionsIn(db) \subseteq TransactionsIn(new) /\ NoneSpendsItself(new)
      BY <1>2, <1>7 DEF SpendsOwn, IsPayment, NoneSpendsItself
    <2>2. GetBalanceFromAddress(new, GetAddress(w), {})
            = GetBalanceFromAddress(db, GetAddress(w), {}) + Gained(tx, GetAddress(w))
      BY <1>8, <2>1, BalanceGrows
    <2> QED
      BY <1>2, <1>4, <2>2, StaysBalanced
  <1>10. SpentOnce(new)
    <2>1. ASSUME NEW p \in Places(db)
          PROVE  Inputs(At(db, p)) \cap Inputs(tx) = {}
      BY <1>2, PlacesAreTransactions DEF ValidTransaction, IsSpendable
    <2>2. \A p, q \in Places(db) : p # q => Inputs(At(db, p)) \cap Inputs(At(db, q)) = {}
      BY DEF ChainOwned, SpentOnce
    <2> QED
      BY <1>8, <2>1, <2>2 DEF OneMore, SpentOnce
  <1> QED
    BY <1>1, <1>7, <1>8, <1>9, <1>10 DEF ChainOwned, OneMore

LEMMA GenesisOwned == ChainOwned(<<Genesis>>)
  <1> DEFINE grant == [address |-> GenesisAddress, amount |-> 100]
             tx    == Transaction(<<>>, <<grant>>)
             db    == <<Genesis>>
  <1>1. /\ TransactionsIn(db) = {tx} /\ Genesis.block_content = <<tx>>
        /\ IsProper(tx) /\ Inputs(tx) = {}
        /\ DOMAIN tx.dict_of_outputs = {1} /\ tx.dict_of_outputs[1] = grant
        /\ tx.verifying_key = Unsigned /\ ProperChain(db)
    BY GenesisChain DEF Genesis
  <1>2. /\ DOMAIN db = {1} /\ db[1] = Genesis
        /\ DOMAIN <<tx>> = {1} /\ <<tx>>[1] = tx
    OBVIOUS
  <1> HIDE DEF tx, db, grant
  <1>3. Places(db) = {<<1, 1>>} /\ At(db, <<1, 1>>) = tx
    BY <1>1, <1>2 DEF Places, At
  <1>4. SpendsOwn(tx)
    BY <1>1 DEF SpendsOwn, IsPayment
  <1>5. IsFiniteSet(Places(db))
    BY <1>3, FS_Singleton
  <1>6. ASSUME NEW w \in Seed
        PROVE  Balanced(db, GetAddress(w))
    <2> DEFINE a == GetAddress(w)
               P == PaidPlaces(tx, a)
               F == [place \in Places(db) |-> Gained(At(db, place), a)]
    <2>1. ~IsSignedBy(tx, a)
      <3>1. a = Sha256(VerifyingKey(w)) /\ VerifyingKey(w) # Unsigned
        BY DEF GetAddress, VerifyingKey, Unsigned
      <3> QED
        BY <1>1, <3>1 DEF IsSignedBy, VerifyAddress, Sha256
    <2> HIDE DEF a
    <2>2. /\ OutputsTo(tx, a) = OutputsAt(tx, P) /\ AmountTo(tx, a) = PaidAt(tx, P)
          /\ P \subseteq DOMAIN tx.dict_of_outputs
      BY PaidTo
    <2> HIDE DEF P
    <2>3. /\ IsFiniteSet(OutputsAt(tx, P)) /\ AmountOf(db, OutputsAt(tx, P)) = PaidAt(tx, P)
          /\ PaidAt(tx, P) \in Int
          /\ \A input \in OutputsAt(tx, P) : OutputExists(db, input)
      BY <1>1, <2>2, AmountOfOutputs
    <2>4. Unspent(db, a) = OutputsAt(tx, P)
      <3>1. \A input \in OutputsTo(tx, a) : IsSpendable(db, input)
        BY <1>1, <2>2, <2>3 DEF IsSpendable
      <3>2. UNION {OutputsTo(t, a) : t \in TransactionsIn(db)} = OutputsTo(tx, a)
        BY <1>1
      <3> QED
        BY <2>2, <3>1, <3>2 DEF Unspent
    <2>5. Gained(tx, a) = PaidAt(tx, P)
      BY <2>1, <2>2, <2>3 DEF Gained
    <2>6. GetBalanceFromAddress(db, a, {}) = SumFunctionOnSet(F, Places(db))
      <3>1. SumFunction(F) = SumFunctionOnSet(F, Places(db))
        BY DEF SumFunction
      <3>2. GetBalanceFromAddress(db, a, {}) = SumFunction(F)
        BY <1>1, <1>5, BalanceIsGained DEF NoneSpendsItself
      <3> QED
        BY <3>1, <3>2
    <2>7. F[<<1, 1>>] = PaidAt(tx, P) /\ \A x \in Places(db) : F[x] \in Int
      BY <1>3, <2>3, <2>5
    <2> HIDE DEF F
    <2>8. SumFunctionOnSet(F, Places(db)) = F[<<1, 1>>] + SumFunctionOnSet(F, {})
      <3>1. <<1, 1>> \in Places(db) /\ Places(db) \ {<<1, 1>>} = {}
        BY <1>3
      <3> QED
        BY <1>5, <2>7, <3>1, SumRemove
    <2>9. GetBalanceFromAddress(db, a, {}) = PaidAt(tx, P)
      BY <2>3, <2>6, <2>7, <2>8, SumEmpty
    <2>10. UnspentAmount(db, a) = PaidAt(tx, P)
      BY <2>3, <2>4 DEF UnspentAmount, AmountOf
    <2> QED
      BY <2>3, <2>4, <2>9, <2>10 DEF Balanced, a
  <1>7. SpentOnce(db)
    BY <1>3 DEF SpentOnce
  <1>8. ChainOwned(db)
    BY <1>1, <1>4, <1>5, <1>6, <1>7 DEF ChainOwned
  <1> QED
    BY <1>8 DEF db

-----------------------------------------------------------------------------
(* What create_transaction makes *)

\* One output or two, with an address of its own each.
IsDictOfOutputs(outputs) ==
    /\ DOMAIN outputs = {1} \/ DOMAIN outputs = {1, 2}
    /\ \A p \in DOMAIN outputs : outputs[p].amount \in Int
    /\ \A p, q \in DOMAIN outputs : outputs[p].address = outputs[q].address => p = q

\* They pay the balance.
PayAll(outputs, balance) ==
    \/ DOMAIN outputs = {1} /\ outputs[1].amount = balance
    \/ DOMAIN outputs = {1, 2} /\ outputs[1].amount + outputs[2].amount = balance

LEMMA OutputsMade ==
    ASSUME NEW from, NEW to, NEW amount \in Int, NEW balance \in Int
    PROVE  /\ IsDictOfOutputs(DictOfOutputs(from, to, amount, balance))
           /\ to # from => PayAll(DictOfOutputs(from, to, amount, balance), balance)
  <1>0. PICK outputs : outputs = DictOfOutputs(from, to, amount, balance)
    OBVIOUS
  <1>1. ASSUME NEW output
        PROVE  DOMAIN <<output>> = {1} /\ <<output>>[1] = output
    OBVIOUS
  <1>2. ASSUME NEW output, NEW change
        PROVE  /\ DOMAIN <<output, change>> = {1, 2}
               /\ <<output, change>>[1] = output /\ <<output, change>>[2] = change
    OBVIOUS
  <1>3. ASSUME NEW output, output.amount \in Int, outputs = <<output>>
        PROVE  DOMAIN outputs = {1} /\ outputs[1] = output /\ IsDictOfOutputs(outputs)
    BY <1>1, <1>3 DEF IsDictOfOutputs
  <1>4. ASSUME NEW output, output.amount \in Int, NEW change, change.amount \in Int,
               output.address # change.address, outputs = <<output, change>>
        PROVE  /\ DOMAIN outputs = {1, 2} /\ outputs[1] = output /\ outputs[2] = change
               /\ IsDictOfOutputs(outputs)
    BY <1>2, <1>4 DEF IsDictOfOutputs
  <1>5. CASE balance = amount
    <2> DEFINE output == [address |-> to, amount |-> amount]
    <2>1. outputs = <<output>> /\ output.amount = balance
      BY <1>0, <1>5 DEF DictOfOutputs
    <2> HIDE DEF output
    <2> QED
      BY <1>0, <1>3, <1>5, <2>1 DEF PayAll
  <1>6. CASE balance # amount /\ from = to
    <2> DEFINE output == [address |-> to, amount |-> balance - amount]
    <2>1. outputs = <<output>> /\ output.amount = balance - amount
      BY <1>0, <1>6 DEF DictOfOutputs
    <2>2. output.amount \in Int
      OBVIOUS
    <2> HIDE DEF output
    <2> QED
      BY <1>0, <1>3, <1>6, <2>1, <2>2
  <1>7. CASE balance # amount /\ from # to
    <2> DEFINE output == [address |-> to,   amount |-> amount]
               change == [address |-> from, amount |-> balance - amount]
    <2>1. outputs = <<output, change>>
      BY <1>0, <1>7 DEF DictOfOutputs
    <2>2. /\ output.amount \in Int /\ change.amount \in Int /\ output.address # change.address
          /\ output.amount + change.amount = balance
      BY <1>7
    <2> HIDE DEF output, change
    <2> QED
      BY <1>0, <1>4, <2>1, <2>2 DEF PayAll
  <1> QED
    BY <1>5, <1>6, <1>7

\* The parts of what is made.
LEMMA PartsOfMade ==
    ASSUME NEW w, NEW call, NEW balance
    PROVE  /\ HasCorrectHash(Made(w, call, balance))
           /\ HasValidSignature(Made(w, call, balance))
           /\ Made(w, call, balance).verifying_key = VerifyingKey(w)
           /\ Made(w, call, balance).dict_of_outputs
                = DictOfOutputs(GetAddress(w), call.to, call.amount, balance)
  <1> DEFINE outs == DictOfOutputs(GetAddress(w), call.to, call.amount, balance)
             ins  == DictOfInputs(call.inputs)
             made == Sign(Transaction(ins, outs), w)
  <1> HIDE DEF outs, ins
  <1>1. /\ HasCorrectHash(made) /\ made.dict_of_outputs = outs
        /\ made.verifying_key = VerifyingKey(w)
        /\ made.signature = [by |-> VerifyingKey(w), over |-> made.txhash]
    BY DEF Sign, Transaction, SignTransaction, HasCorrectHash
  <1>2. VerifyingKey(w) # Unsigned
    BY DEF VerifyingKey, Unsigned
  <1> HIDE DEF made
  <1>3. HasValidSignature(made)
    BY <1>1, <1>2 DEF HasValidSignature, VerifySigning
  <1> QED
    BY <1>1, <1>3 DEF Made, made, outs, ins

\* What create_transaction makes of inputs of a wallet spends what is its own,
\* and spends all of them.
LEMMA MadeOwned ==
    ASSUME NEW w \in Seed, NEW call, CallOwned(w, call), NEW balance \in Int
    PROVE  /\ SpendsOwn(Made(w, call, balance))
           /\ Inputs(Made(w, call, balance)) = call.inputs
  <1> DEFINE made == Made(w, call, balance)
             ins  == call.inputs
             hashes == {input[1] : input \in ins}
             e == [input \in ins |-> input[1]]
  <1>1. ChainOwned(call.read) /\ call.amount \in Int
    BY DEF CallOwned
  <1>2. \A input \in ins : RefersToOutputOf(w, input)
    BY <1>1, OwnInputsRefer DEF CallOwned
  <1>3. \A input \in ins : input = <<input[1], input[2]>>
    BY <1>2 DEF RefersToOutputOf, OutputsTo
  <1>4. \A i, j \in ins : i[1] = j[1] => i = j
    BY <1>2, SameOutput DEF RefersToOutputOf
  <1>5. Inputs(made) = ins /\ DOMAIN made.dict_of_inputs = hashes
    BY <1>3, <1>4, InputsOfMade DEF Made
  <1>6. IsFiniteSet(ins)
    <2>1. ins \subseteq Unspent(call.read, GetAddress(w))
      BY <1>1, OwnInputsUnspent DEF CallOwned
    <2>2. IsFiniteSet(Unspent(call.read, GetAddress(w)))
      BY <1>1 DEF ChainOwned, Balanced
    <2> QED
      BY <2>1, <2>2, FS_Subset
  <1>7. IsFiniteSet(hashes)
    <2>1. e \in Surjection(ins, hashes)
      BY DEF Surjection
    <2> QED
      BY <1>6, <2>1, FS_Surjection
  <1>8. /\ HasCorrectHash(made) /\ made.verifying_key = VerifyingKey(w)
        /\ made.dict_of_outputs = DictOfOutputs(GetAddress(w), call.to, call.amount, balance)
    BY PartsOfMade
  <1> HIDE DEF made, hashes, ins
  <1>9. IsPayment(made)
    <2>1. IsDictOfOutputs(made.dict_of_outputs)
      BY <1>1, <1>8, OutputsMade
    <2>2. IsFiniteSet({1}) /\ IsFiniteSet({1, 2})
      <3>1. IsFiniteSet({1}) /\ {1, 2} = {1} \cup {2}
        BY FS_Singleton
      <3>2. IsFiniteSet({1} \cup {2})
        BY <3>1, FS_AddElement
      <3> QED
        BY <3>1, <3>2
    <2>3. {1} \subseteq Nat \ {0} /\ {1, 2} \subseteq Nat \ {0}
      OBVIOUS
    <2> QED
      BY <1>5, <1>7, <1>8, <2>1, <2>2, <2>3 DEF IsPayment, IsProper, IsDictOfOutputs
  <1>10. SpendsOwn(made)
    BY <1>2, <1>5, <1>8, <1>9 DEF SpendsOwn
  <1> QED
    BY <1>5, <1>10 DEF made, ins

\* It is valid in the database the inputs were read from when nothing was
\* pending, the balance is of that database, and it goes to somebody else.
LEMMA MadeValid ==
    ASSUME NEW w \in Seed, NEW call, CallOwned(w, call), call.pending = {},
           call.to # GetAddress(w), NEW balance,
           balance = GetBalanceFromAddress(call.read, GetAddress(w), {}), balance \in Int
    PROVE  ValidTransaction(call.read, Made(w, call, balance))
  <1> DEFINE made == Made(w, call, balance)
             db   == call.read
             S    == Unspent(db, GetAddress(w))
             outs == made.dict_of_outputs
  <1>1. ChainOwned(db) /\ call.amount \in Int
    BY DEF CallOwned
  <1>2. Inputs(made) = S
    <2>1. call.inputs = OwnInputs(db, GetAddress(w))
      BY DEF CallOwned
    <2> QED
      BY <1>1, <2>1, MadeOwned, OwnInputsUnspent
  <1>3. \A input \in S : IsSpendable(db, input)
    BY DEF Unspent
  <1>4. HasCorrectHash(made) /\ HasValidSignature(made)
    BY PartsOfMade
  <1>5. InputAmount(db, made) = balance
    <2>1. balance = UnspentAmount(db, GetAddress(w))
      BY <1>1 DEF ChainOwned, Balanced
    <2> QED
      BY <1>2, <2>1 DEF InputAmount, UnspentAmount
  <1>6. IsDictOfOutputs(outs) /\ PayAll(outs, balance)
    <2>1. outs = DictOfOutputs(GetAddress(w), call.to, call.amount, balance)
      BY PartsOfMade
    <2> HIDE DEF outs
    <2> QED
      BY <1>1, <2>1, OutputsMade
  <1>7. OutputAmount(made) = balance
    <2>1. OutputAmount(made) = PaidAt(made, DOMAIN outs)
      BY AmountsAreSums
    <2> HIDE DEF made
    <2>2. CASE DOMAIN outs = {1} /\ outs[1].amount = balance
      <3>1. PaidAt(made, {1}) = outs[1].amount
        BY <1>6, <2>2, PaidAtOne DEF IsDictOfOutputs
      <3> QED
        BY <2>1, <2>2, <3>1
    <2>3. CASE DOMAIN outs = {1, 2} /\ outs[1].amount + outs[2].amount = balance
      <3>1. outs[1].amount \in Int /\ outs[2].amount \in Int /\ 1 # 2
        BY <1>6, <2>3 DEF IsDictOfOutputs
      <3>2. PaidAt(made, {1, 2}) = outs[1].amount + outs[2].amount
        BY <3>1, PaidAtTwo
      <3> QED
        BY <2>1, <2>3, <3>2
    <2> QED
      BY <1>6, <2>2, <2>3 DEF PayAll
  <1> HIDE DEF S
  <1> QED
    BY <1>2, <1>3, <1>4, <1>5, <1>7 DEF ValidTransaction

-----------------------------------------------------------------------------
(* The second invariant holds in every state *)

LEMMA OwnedInit == Init => OwnedInv
  <1> SUFFICES ASSUME Init
               PROVE  OwnedInv
    OBVIOUS
  <1>1. Range(<<>>) = {}
    BY Calls
  <1> QED
    BY <1>1, GenesisOwned DEF Init, OwnedInv

LEMMA OwnedWorld ==
    ASSUME IInv, OwnedInv,
           \/ \E n \in Node : MineTransaction(n) \/ CopyLonger(n)
           \/ \E w \in Seed : Synchronise(w)
    PROVE  OwnedInv'
  <1>1. UNCHANGED <<broadcast, creating, created>>
    BY DEF MineTransaction, CopyLonger, Synchronise
  <1>2. ASSUME NEW n \in Node, NEW new, ChainOwned(new), UNCHANGED file,
               chain' = [chain EXCEPT ![n] = new]
        PROVE  OwnedInv'
    <2>1. \A m \in Node : chain'[m] = IF m = n THEN new ELSE chain[m]
      BY <1>2 DEF IInv, FilesInv
    <2> QED
      BY <1>1, <1>2, <2>1 DEF OwnedInv
  <1>3. ASSUME NEW n \in Node, MineTransaction(n)
        PROVE  OwnedInv'
    <2>1. PICK tx \in broadcast[n] :
             /\ ValidateBlock(chain[n], Block(<<tx>>))
             /\ \E mined \in MineBlock(chain[n], Block(<<tx>>)) :
                   chain' = [chain EXCEPT ![n] = AddBlockToDb(chain[n], mined)]
      BY <1>3 DEF MineTransaction
    <2>2. PICK new : \E mined \in MineBlock(chain[n], Block(<<tx>>)) :
             new = AddBlockToDb(chain[n], mined) /\ chain' = [chain EXCEPT ![n] = new]
      BY <2>1
    <2>3. IsDatabase(chain[n]) /\ ChainOwned(chain[n]) /\ SpendsOwn(tx) /\ Inputs(tx) # {}
      BY DEF IInv, FilesInv, OwnedInv
    <2>4. ChainOwned(new)
      BY <2>1, <2>2, <2>3, MinedOwned
    <2> QED
      BY <1>2, <1>3, <2>2, <2>4 DEF MineTransaction
  <1>4. ASSUME NEW n \in Node, CopyLonger(n)
        PROVE  OwnedInv'
    <2>1. PICK m \in Node : chain' = [chain EXCEPT ![n] = chain[m]]
      BY <1>4 DEF CopyLonger
    <2>2. ChainOwned(chain[m]) /\ UNCHANGED file
      BY <1>4 DEF OwnedInv, CopyLonger
    <2> QED
      BY <1>2, <2>1, <2>2
  <1>5. ASSUME NEW w \in Seed, Synchronise(w)
        PROVE  OwnedInv'
    <2>1. FullNodeOf[w] \in Node
      BY WalletAssumption
    <2>2. /\ UNCHANGED chain
          /\ \A v \in Seed : file'[v] = IF v = w THEN chain[FullNodeOf[w]] ELSE file[v]
      BY <1>5 DEF Synchronise, IInv, FilesInv
    <2> QED
      BY <1>1, <2>1, <2>2 DEF OwnedInv
  <1> QED
    BY <1>3, <1>4, <1>5

\* What a call appends, when the balance is that of the database it reads then.
LEMMA NewOwned ==
    ASSUME OwnedInv, NEW w \in Seed, NEW call, CallOwned(w, call), NEW new,
           FinishedCall(w, call, new)
    PROVE  CreatedOwned(new) /\ Inputs(new.tx) = call.inputs
  <1> DEFINE db      == ReadFromDb(w)
             balance == GetBalanceFromAddress(db, GetAddress(w), StackAfterRead(w))
  <1>1. new.tx = Made(w, call, balance) /\ call.inputs # {} /\ new.by = w
        /\ new.call = call /\ new.reread = db /\ balance >= call.amount
    BY DEF FinishedCall
  <1>2. balance = GetBalanceFromAddress(db, GetAddress(w), {}) /\ balance \in Int
    <2>1. IsFiniteSet(Places(db)) /\ NoneSpendsItself(db)
      BY ReadOwned DEF ChainOwned, SpendsOwn, IsPayment, NoneSpendsItself
    <2> HIDE DEF db
    <2> QED
      BY <2>1, BalanceIsGained
  <1> HIDE DEF balance, db
  <1>3. SpendsOwn(new.tx) /\ Inputs(new.tx) = call.inputs
    BY <1>1, <1>2, MadeOwned
  <1>4. ASSUME ~IsTorn(new), call.pending = {}, call.to # GetAddress(w)
        PROVE  ValidTransaction(new.reread, new.tx)
    <2>1. call.read = db
      BY <1>1, <1>4 DEF IsTorn
    <2> QED
      BY <1>1, <1>2, <1>4, <2>1, MadeValid
  <1> QED
    BY <1>1, <1>3, <1>4 DEF CreatedOwned

LEMMA OwnedWallet ==
    ASSUME IInv, OwnedInv, NEW w \in Seed,
           \/ Query(w) \/ BroadcastCreated(w) \/ InitLightnodeApi(w) \/ FinishTransaction(w)
           \/ \E to : \E amount \in Amount : BeginTransaction(w, to, amount)
    PROVE  OwnedInv'
  <1>1. UNCHANGED <<chain, file>>
    BY DEF Query, BroadcastCreated, InitLightnodeApi, FinishTransaction, BeginTransaction
  <1>2. creating = [v \in Seed |-> creating[v]] /\ IsChain(created)
    BY DEF IInv, WalletShape
  <1>3. ASSUME creating' = creating \/ creating' = [creating EXCEPT ![w] = <<>>],
               NEW v \in Seed
        PROVE  \A call \in Range(creating'[v]) : CallOwned(v, call)
    BY <1>2, <1>3, Calls DEF OwnedInv
  <1>4. CASE Query(w) \/ InitLightnodeApi(w)
    BY <1>1, <1>3, <1>4 DEF Query, InitLightnodeApi, OwnedInv
  <1>5. CASE BroadcastCreated(w)
    <2>1. PICK i \in DOMAIN created :
             broadcast' = [broadcast EXCEPT ![FullNodeOf[w]] = @ \cup {created[i].tx}]
      BY <1>5 DEF BroadcastCreated
    <2>2. SpendsOwn(created[i].tx) /\ Inputs(created[i].tx) # {}
      BY DEF OwnedInv, CreatedOwned, Range
    <2>3. \A n \in Node : broadcast'[n] \subseteq (broadcast[n] \cup {created[i].tx})
      BY <2>1
    <2>4. \A n \in Node : \A tx \in broadcast'[n] : SpendsOwn(tx) /\ Inputs(tx) # {}
      BY <2>2, <2>3 DEF OwnedInv
    <2> QED
      BY <1>1, <1>3, <1>5, <2>4 DEF BroadcastCreated, OwnedInv
  <1>6. ASSUME NEW to, NEW amount \in Amount, BeginTransaction(w, to, amount)
        PROVE  OwnedInv'
    <2>1. PICK call : /\ call.read = ReadFromDb(w) /\ call.amount = amount
                      /\ call.pending = StackAfterRead(w)
                      /\ call.inputs = GetValidInputsFromAddress(ReadFromDb(w), GetAddress(w),
                                                                 StackAfterRead(w))
                      /\ creating' = [creating EXCEPT ![w] = <<call>>]
      BY <1>6 DEF BeginTransaction
    <2>2. CallOwned(w, call)
      <3>1. call.amount \in Int
        BY <2>1, AmountAssumption
      <3>2. ChainOwned(call.read)
        BY <2>1, ReadOwned
      <3>3. call.inputs = OwnInputs(call.read, GetAddress(w)) \ call.pending
        BY <2>1, PendingOnly
      <3> QED
        BY <3>1, <3>2, <3>3 DEF CallOwned
    <2>3. ASSUME NEW v \in Seed, NEW other \in Range(creating'[v])
          PROVE  CallOwned(v, other)
      <3>1. creating'[v] = IF v = w THEN <<call>> ELSE creating[v]
        BY <1>2, <2>1
      <3> QED
        BY <2>2, <2>3, <3>1, Calls DEF OwnedInv
    <2> QED
      BY <1>1, <1>6, <2>3 DEF BeginTransaction, OwnedInv
  <1>7. CASE FinishTransaction(w)
    <2>1. /\ creating' = [creating EXCEPT ![w] = <<>>] /\ UNCHANGED broadcast
      BY <1>7 DEF FinishTransaction
    <2>2. PICK call : /\ call \in Range(creating[w])
                      /\ created' = created \/ \E new : FinishedCall(w, call, new)
      BY <1>7, FinishOutcomes
    <2>3. CallOwned(w, call)
      BY <2>2 DEF OwnedInv
    <2>4. \A c \in Range(created') : CreatedOwned(c)
      <3>1. CASE created' = created
        BY <3>1 DEF OwnedInv
      <3>2. ASSUME NEW new, FinishedCall(w, call, new)
            PROVE  \A c \in Range(created') : CreatedOwned(c)
        <4>1. CreatedOwned(new)
          BY <2>3, <3>2, NewOwned
        <4>2. Range(created') \subseteq (Range(created) \cup {new})
          BY <1>2, <3>2, AppendToChain DEF Range, FinishedCall
        <4> QED
          BY <4>1, <4>2 DEF OwnedInv
      <3> QED
        BY <2>2, <3>1, <3>2
    <2> QED
      BY <1>1, <1>3, <2>1, <2>4 DEF OwnedInv
  <1> QED
    BY <1>4, <1>5, <1>6, <1>7

LEMMA OwnedNext == IInv /\ OwnedInv /\ [Next]_vars => OwnedInv'
  <1>1. UNCHANGED vars /\ OwnedInv => OwnedInv'
    BY DEF vars, OwnedInv
  <1> QED
    BY <1>1, OwnedWorld, OwnedWallet DEF Next

LEMMA OwnedInvariance == Spec => []OwnedInv
  BY OwnedInit, OwnedNext, Invariance, PTL DEF Spec

-----------------------------------------------------------------------------
(* The type invariant, and the bounds it states *)

\* The calls that are running.
Running == {w \in Seed : creating[w] # <<>>}

Transactions(list) == {list[i].tx : i \in DOMAIN list}
InputsOf(list)     == UNION {Inputs(tx) : tx \in Transactions(list)}

\* A call that is running may append one transaction more.
TypeInv ==
    /\ \A n \in Node : Height(chain[n]) <= MaxHeight
    /\ \A w \in Seed : stack_of_used_inputs[w] \subseteq InputsOf(created)
    /\ \A n \in Node : broadcast[n] \subseteq Transactions(created)
    /\ Len(created) + Cardinality(Running) <= MaxCreated + Cardinality(Seed)
    /\ sessions \in 0..MaxSessions

LEMMA RunningIsFinite ==
    ASSUME NEW R, R \subseteq Seed
    PROVE  /\ IsFiniteSet(R) /\ Cardinality(R) \in Nat /\ Cardinality(Seed) \in Nat
           /\ Cardinality(R) <= Cardinality(Seed)
  BY SeedAssumption, FS_Subset, FS_CardinalityType

\* What was made stays made.
LEMMA MadeBefore ==
    ASSUME NEW list, IsChain(list), NEW new
    PROVE  /\ Transactions(Append(list, new)) = Transactions(list) \cup {new.tx}
           /\ InputsOf(Append(list, new)) = InputsOf(list) \cup Inputs(new.tx)
           /\ Len(list) \in Nat /\ Len(Append(list, new)) = Len(list) + 1
  <1> DEFINE n == Len(list) + 1
             longer == Append(list, new)
  <1>1. /\ DOMAIN longer = DOMAIN list \cup {n}
        /\ \A i \in DOMAIN list : longer[i] = list[i]
        /\ longer[n] = new /\ Len(list) \in Nat /\ Len(longer) = n
    BY AppendToChain
  <1> HIDE DEF longer
  <1>2. Transactions(longer) = Transactions(list) \cup {new.tx}
    BY <1>1 DEF Transactions
  <1>3. InputsOf(longer) = InputsOf(list) \cup Inputs(new.tx)
    BY <1>2 DEF InputsOf
  <1> QED
    BY <1>1, <1>2, <1>3 DEF longer

LEMMA TypeInit == Init => TypeInv
  <1> SUFFICES ASSUME Init
               PROVE  TypeInv
    OBVIOUS
  <1>1. Len(created) = 0
    <2>1. created = <<>>
      BY DEF Init
    <2> QED
      BY <2>1
  <1>2. Len(created) + Cardinality(Running) <= MaxCreated + Cardinality(Seed)
    <2>1. Running \subseteq Seed
      BY DEF Running
    <2> QED
      BY <1>1, <2>1, RunningIsFinite, BoundAssumption
  <1>3. \A n \in Node : Height(chain[n]) <= MaxHeight
    BY GenesisDatabase, BoundAssumption DEF Init
  <1> QED
    BY <1>2, <1>3, BoundAssumption DEF Init, TypeInv

\* A step that makes no transaction and starts no call.
LEMMA TypeKept ==
    ASSUME TypeInv, UNCHANGED created, Running' \subseteq Running,
           \A n \in Node : Height(chain'[n]) <= MaxHeight,
           \A w \in Seed : \/ stack_of_used_inputs'[w] = {}
                           \/ stack_of_used_inputs'[w] = stack_of_used_inputs[w],
           \A n \in Node : broadcast'[n] \subseteq Transactions(created),
           sessions' \in 0..MaxSessions, IsChain(created)
    PROVE  TypeInv'
  <1>1. Len(created) + Cardinality(Running') <= MaxCreated + Cardinality(Seed)
    <2>1. Running \subseteq Seed /\ Running' \subseteq Seed
      BY DEF Running
    <2>2. IsFiniteSet(Running) /\ Cardinality(Running) \in Nat /\ Cardinality(Seed) \in Nat
      BY <2>1, RunningIsFinite
    <2>3. Cardinality(Running') <= Cardinality(Running) /\ Cardinality(Running') \in Nat
      BY <2>2, FS_Subset, FS_CardinalityType
    <2>4. Len(created) \in Nat
      BY AppendToChain
    <2>5. Len(created) + Cardinality(Running) <= MaxCreated + Cardinality(Seed)
      BY DEF TypeInv
    <2> QED
      BY <2>2, <2>3, <2>4, <2>5, BoundAssumption
  <1>2. \A w \in Seed : stack_of_used_inputs'[w] \subseteq InputsOf(created)
    BY DEF TypeInv
  <1>3. \A n \in Node : Height(chain[n])' <= MaxHeight
    BY DEF Height, LastBlock
  <1> QED
    BY <1>1, <1>2, <1>3 DEF TypeInv

LEMMA TypeWorld ==
    ASSUME IInv, TypeInv,
           \/ \E n \in Node : MineTransaction(n) \/ CopyLonger(n)
           \/ \E w \in Seed : Synchronise(w) \/ BroadcastCreated(w)
    PROVE  TypeInv'
  <1>1. /\ UNCHANGED <<creating, created, stack_of_used_inputs, sessions>>
        /\ IsChain(created)
    BY DEF MineTransaction, CopyLonger, Synchronise, BroadcastCreated, IInv, WalletShape
  <1>2. Running' \subseteq Running /\ sessions' \in 0..MaxSessions
    BY <1>1 DEF Running, TypeInv
  <1>3. ASSUME \A n \in Node : Height(chain'[n]) <= MaxHeight,
               \A n \in Node : broadcast'[n] \subseteq Transactions(created)
        PROVE  TypeInv'
    BY <1>1, <1>2, <1>3, TypeKept
  <1>4. ASSUME NEW n \in Node, MineTransaction(n)
        PROVE  TypeInv'
    <2>1. IsDatabase(chain[n]) /\ Height(chain[n]) < MaxHeight /\ Height(chain[n]) \in Nat
      BY <1>4, DatabaseNumbers DEF MineTransaction, IInv, FilesInv
    <2>2. PICK tx : \E mined \in MineBlock(chain[n], Block(<<tx>>)) :
             chain' = [chain EXCEPT ![n] = AddBlockToDb(chain[n], mined)]
      BY <1>4 DEF MineTransaction
    <2>3. PICK new : \E mined \in MineBlock(chain[n], Block(<<tx>>)) :
             new = AddBlockToDb(chain[n], mined) /\ chain' = [chain EXCEPT ![n] = new]
      BY <2>2
    <2>4. IsDatabase(new) /\ Len(new) = Len(chain[n]) + 1
      BY <2>1, <2>3, NextHeight
    <2>5. Height(new) <= MaxHeight
      <3>1. Height(new) = Len(new) - 1 /\ Height(chain[n]) = Len(chain[n]) - 1
            /\ Len(chain[n]) \in Nat
        BY <2>1, <2>4, DatabaseNumbers DEF IsDatabase
      <3> QED
        BY <2>1, <2>4, <3>1, BoundAssumption
    <2>6. \A m \in Node : chain'[m] = IF m = n THEN new ELSE chain[m]
      BY <2>3 DEF IInv, FilesInv
    <2>7. \A m \in Node : Height(chain'[m]) <= MaxHeight
      BY <2>5, <2>6 DEF TypeInv
    <2>8. \A m \in Node : broadcast'[m] \subseteq Transactions(created)
      BY <1>4 DEF MineTransaction, TypeInv
    <2> QED
      BY <1>3, <2>7, <2>8
  <1>5. ASSUME NEW n \in Node, CopyLonger(n)
        PROVE  TypeInv'
    <2>1. PICK m \in Node : chain' = [chain EXCEPT ![n] = chain[m]]
      BY <1>5 DEF CopyLonger
    <2>2. \A k \in Node : chain'[k] = IF k = n THEN chain[m] ELSE chain[k]
      BY <2>1 DEF IInv, FilesInv
    <2>3. \A k \in Node : Height(chain'[k]) <= MaxHeight
      BY <2>2 DEF TypeInv
    <2>4. \A k \in Node : broadcast'[k] \subseteq Transactions(created)
      BY <1>5 DEF CopyLonger, TypeInv
    <2> QED
      BY <1>3, <2>3, <2>4
  <1>6. ASSUME NEW w \in Seed, Synchronise(w)
        PROVE  TypeInv'
    BY <1>3, <1>6 DEF Synchronise, TypeInv
  <1>7. ASSUME NEW w \in Seed, BroadcastCreated(w)
        PROVE  TypeInv'
    <2>1. PICK i \in DOMAIN created :
             broadcast' = [broadcast EXCEPT ![FullNodeOf[w]] = @ \cup {created[i].tx}]
      BY <1>7 DEF BroadcastCreated
    <2>2. created[i].tx \in Transactions(created)
      BY DEF Transactions
    <2>3. \A n \in Node : broadcast'[n] \subseteq (broadcast[n] \cup {created[i].tx})
      BY <2>1
    <2>4. \A n \in Node : broadcast'[n] \subseteq Transactions(created)
      BY <2>2, <2>3 DEF TypeInv
    <2>5. \A n \in Node : Height(chain'[n]) <= MaxHeight
      BY <1>7 DEF BroadcastCreated, TypeInv
    <2> QED
      BY <1>3, <2>4, <2>5
  <1> QED
    BY <1>4, <1>5, <1>6, <1>7

\* The stack a wallet reads with is the one it has, or empty.
LEMMA StackKept ==
    ASSUME TypeInv, NEW w \in Seed
    PROVE  /\ StackAfterRead(w) = {} \/ StackAfterRead(w) = stack_of_used_inputs[w]
           /\ StackAfterRead(w) \subseteq InputsOf(created)
  BY DEF StackAfterRead, TypeInv

\* A call that makes no transaction puts nothing on the stack: either the balance
\* is too low, or there are no inputs.
LEMMA UnmadeStack ==
    ASSUME IInv, TypeInv, NEW w \in Seed, FinishTransaction(w), created' = created
    PROVE  stack_of_used_inputs'[w] \subseteq InputsOf(created)
  <1> DEFINE call == creating[w][1]
             balance == GetBalanceFromAddress(ReadFromDb(w), GetAddress(w), StackAfterRead(w))
             spends  == balance >= call.amount
  <1>1. PICK new :
           /\ stack_of_used_inputs' = [stack_of_used_inputs EXCEPT ![w] =
                 IF spends THEN StackAfterRead(w) \cup call.inputs ELSE StackAfterRead(w)]
           /\ created' = IF spends /\ call.inputs # {} THEN Append(created, new) ELSE created
    BY DEF FinishTransaction
  <1> HIDE DEF spends, call
  <1>2. ~(spends /\ call.inputs # {})
    <2>1. Len(Append(created, new)) = Len(created) + 1 /\ Len(created) \in Nat
      BY MadeBefore DEF IInv, WalletShape
    <2>2. Append(created, new) # created
      BY <2>1
    <2> QED
      BY <1>1, <2>2
  <1>3. stack_of_used_inputs'[w] = StackAfterRead(w)
    BY <1>1, <1>2 DEF IInv, WalletShape
  <1> QED
    BY <1>3, StackKept

LEMMA TypeWallet ==
    ASSUME IInv, OwnedInv, TypeInv, NEW w \in Seed,
           \/ Query(w) \/ InitLightnodeApi(w) \/ FinishTransaction(w)
           \/ \E to, amount : BeginTransaction(w, to, amount)
    PROVE  TypeInv'
  <1>1. UNCHANGED <<chain, broadcast>> /\ IsChain(created)
    BY DEF Query, InitLightnodeApi, FinishTransaction, BeginTransaction, IInv, WalletShape
  <1>2. /\ creating = [v \in Seed |-> creating[v]]
        /\ stack_of_used_inputs = [v \in Seed |-> stack_of_used_inputs[v]]
    BY DEF IInv, WalletShape
  <1>3. /\ \A n \in Node : Height(chain'[n]) <= MaxHeight
        /\ \A n \in Node : broadcast'[n] \subseteq Transactions(created)
    BY <1>1 DEF TypeInv
  <1>4. Running \subseteq Seed /\ Running' \subseteq Seed
    BY DEF Running
  <1>5. /\ IsFiniteSet(Running) /\ Cardinality(Running) \in Nat /\ Cardinality(Seed) \in Nat
        /\ Cardinality(Running') \in Nat /\ Cardinality(Running') <= Cardinality(Seed)
    BY <1>4, RunningIsFinite
  <1>6. /\ Len(created) \in Nat
        /\ Len(created) + Cardinality(Running) <= MaxCreated + Cardinality(Seed)
    BY <1>1, AppendToChain DEF TypeInv
  <1>7. CASE Query(w)
    <2>1. /\ UNCHANGED <<creating, created, sessions>>
          /\ stack_of_used_inputs' = [stack_of_used_inputs EXCEPT ![w] = StackAfterRead(w)]
      BY <1>7 DEF Query
    <2>2. Running' \subseteq Running /\ sessions' \in 0..MaxSessions
      BY <2>1 DEF Running, TypeInv
    <2>3. \A v \in Seed : \/ stack_of_used_inputs'[v] = {}
                          \/ stack_of_used_inputs'[v] = stack_of_used_inputs[v]
      BY <1>2, <2>1, StackKept
    <2> QED
      BY <1>1, <1>3, <2>1, <2>2, <2>3, TypeKept
  <1>8. CASE InitLightnodeApi(w)
    <2>1. /\ UNCHANGED created /\ sessions < MaxSessions /\ sessions' = sessions + 1
          /\ creating' = [creating EXCEPT ![w] = <<>>]
          /\ stack_of_used_inputs' = [stack_of_used_inputs EXCEPT ![w] = {}]
      BY <1>8 DEF InitLightnodeApi
    <2>2. Running' \subseteq Running
      BY <1>2, <2>1 DEF Running
    <2>3. sessions' \in 0..MaxSessions
      BY <2>1, BoundAssumption DEF TypeInv
    <2>4. \A v \in Seed : \/ stack_of_used_inputs'[v] = {}
                          \/ stack_of_used_inputs'[v] = stack_of_used_inputs[v]
      BY <1>2, <2>1
    <2> QED
      BY <1>1, <1>3, <2>1, <2>2, <2>3, <2>4, TypeKept
  <1>9. ASSUME NEW to, NEW amount, BeginTransaction(w, to, amount)
        PROVE  TypeInv'
    <2>1. /\ UNCHANGED <<created, sessions>> /\ Len(created) < MaxCreated
          /\ stack_of_used_inputs' = [stack_of_used_inputs EXCEPT ![w] = StackAfterRead(w)]
      BY <1>9 DEF BeginTransaction
    <2>2. \A v \in Seed : stack_of_used_inputs'[v] \subseteq InputsOf(created)
      BY <1>2, <2>1, StackKept DEF TypeInv
    <2>3. Len(created) + Cardinality(Running') <= MaxCreated + Cardinality(Seed)
      BY <1>5, <1>6, <2>1, BoundAssumption
    <2>4. \A n \in Node : Height(chain[n])' <= MaxHeight
      BY <1>3 DEF Height, LastBlock
    <2> QED
      BY <1>3, <2>1, <2>2, <2>3, <2>4 DEF TypeInv
  <1>10. CASE FinishTransaction(w)
    <2>1. /\ creating' = [creating EXCEPT ![w] = <<>>] /\ UNCHANGED sessions
          /\ creating[w] # <<>>
      BY <1>10 DEF FinishTransaction
    <2>2. Running' = Running \ {w} /\ w \in Running
      BY <1>2, <2>1 DEF Running
    <2>3. Cardinality(Running') = Cardinality(Running) - 1
      BY <1>5, <2>2, FS_RemoveElement
    <2>4. PICK call : /\ call \in Range(creating[w]) /\ Reads(w)
                      /\ created' = created \/ \E new : FinishedCall(w, call, new)
      BY <1>10, FinishOutcomes
    <2>5. \A v \in Seed : v # w => stack_of_used_inputs'[v] = stack_of_used_inputs[v]
      BY <2>4 DEF Reads
    <2>6. \A n \in Node : Height(chain[n])' <= MaxHeight
      BY <1>3 DEF Height, LastBlock
    <2>7. ASSUME NEW new, FinishedCall(w, call, new)
          PROVE  TypeInv'
      <3>1. Inputs(new.tx) = call.inputs
        <4>1. CallOwned(w, call)
          BY <2>4 DEF OwnedInv
        <4> QED
          BY <2>7, <4>1, NewOwned
      <3>2. /\ created' = Append(created, new)
            /\ stack_of_used_inputs'[w] = StackAfterRead(w) \cup call.inputs
        BY <2>7 DEF FinishedCall
      <3>3. /\ Transactions(created') = Transactions(created) \cup {new.tx}
            /\ InputsOf(created') = InputsOf(created) \cup call.inputs
            /\ Len(created') = Len(created) + 1
        BY <1>1, <3>1, <3>2, MadeBefore
      <3>4. \A v \in Seed : stack_of_used_inputs'[v] \subseteq InputsOf(created')
        BY <2>5, <3>2, <3>3, StackKept DEF TypeInv
      <3>5. \A n \in Node : broadcast'[n] \subseteq Transactions(created')
        BY <1>3, <3>3
      <3>6. Len(created') + Cardinality(Running') <= MaxCreated + Cardinality(Seed)
        BY <1>5, <1>6, <2>3, <3>3, BoundAssumption
      <3> QED
        BY <2>1, <2>6, <3>4, <3>5, <3>6 DEF TypeInv
    <2>8. CASE created' = created
      <3>1. Len(created) + Cardinality(Running') <= MaxCreated + Cardinality(Seed)
        BY <1>5, <1>6, <2>3, BoundAssumption
      <3>2. \A v \in Seed : stack_of_used_inputs'[v] \subseteq InputsOf(created)
        <4>1. stack_of_used_inputs'[w] \subseteq InputsOf(created)
          BY <1>10, <2>8, UnmadeStack
        <4> QED
          BY <2>5, <4>1 DEF TypeInv
      <3> QED
        BY <1>3, <2>1, <2>6, <2>8, <3>1, <3>2 DEF TypeInv
    <2> QED
      BY <2>4, <2>7, <2>8
  <1> QED
    BY <1>7, <1>8, <1>9, <1>10

LEMMA TypeNext == IInv /\ OwnedInv /\ TypeInv /\ [Next]_vars => TypeInv'
  <1>1. UNCHANGED vars /\ TypeInv => TypeInv'
    BY DEF vars, TypeInv, Height, LastBlock, Running
  <1> QED
    BY <1>1, TypeWorld, TypeWallet DEF Next

LEMMA TypeInvariance == Spec => []TypeInv
  BY TypeInit, TypeNext, Invariance, OwnedInvariance, PTL DEF Spec


-----------------------------------------------------------------------------
(* The full nodes implement LongestChain *)

\* What is mined and added extends a database as LongestChain asks.
LEMMA MinedExtends ==
    ASSUME NEW db, IsDatabase(db), NEW stack, ValidateBlock(db, Block(stack)),
           NEW mined \in MineBlock(db, Block(stack))
    PROVE  Extends(db, AddBlockToDb(db, mined))
  <1> DEFINE b == Link(db, mined)
             new == AddBlockToDb(db, mined)
  <1>1. /\ b.block_content = stack
        /\ b.metadata.prev_block_hash = BlockHash(LastBlock(db))
        /\ MeetsTarget(BlockHash(b))
    BY MinedBlock
  <1>2. new = Append(db, b)
    BY DEF AddBlockToDb
  <1> HIDE DEF b
  <1>3. /\ Len(db) \in Nat /\ Len(new) = Len(db) + 1
        /\ new[Len(db) + 1] = b
        /\ \A i \in 1..(Len(db) + 1) : SubSeq(new, 1, i - 1) = SubSeq(db, 1, i - 1)
    BY <1>2, AppendToChain DEF IsDatabase
  <1>4. IsDatabase(new)
    BY NextHeight
  <1> HIDE DEF new
  <1>5. LastBlock(new) = b /\ Height(new) = Height(db) + 1
    BY <1>3, <1>4 DEF LastBlock, IsDatabase
  <1>6. SubSeq(new, 1, Len(db)) = db
    <2>1. SubSeq(db, 1, Len(db)) = db
      BY SubSeqFull DEF IsDatabase, IsChain
    <2>2. Len(db) + 1 \in 1..(Len(db) + 1) /\ (Len(db) + 1) - 1 = Len(db)
      BY <1>3
    <2> QED
      BY <1>3, <2>1, <2>2
  <1> QED
    BY <1>1, <1>3, <1>5, <1>6 DEF Extends, new

\* A node that mines extends its chain, and one that copies a longer chain adopts
\* what may be sent to it.
LEMMA NodesFollow ==
    ASSUME IInv, NEW n \in Node, MineTransaction(n) \/ CopyLonger(n)
    PROVE  Network!Extend(n) \/ Network!Adopt(n)
  <1>1. /\ chain = [m \in Node |-> chain[m]]
        /\ \A m \in Node : IsDatabase(chain[m])
    BY DEF IInv, FilesInv
  <1>2. \A m \in Node : chain[m] # <<>> /\ Len(chain[m]) \in Nat /\ Len(chain[m]) > 0
    BY <1>1, DatabaseNumbers DEF IsDatabase
  <1>3. ASSUME MineTransaction(n)
        PROVE  Network!Extend(n)
    <2>1. PICK tx : \E mined \in MineBlock(chain[n], Block(<<tx>>)) :
             /\ ValidateBlock(chain[n], Block(<<tx>>))
             /\ chain' = [chain EXCEPT ![n] = AddBlockToDb(chain[n], mined)]
      BY <1>3 DEF MineTransaction
    <2>2. PICK new : \E mined \in MineBlock(chain[n], Block(<<tx>>)) :
             new = AddBlockToDb(chain[n], mined) /\ chain' = [chain EXCEPT ![n] = new]
      BY <2>1
    <2>3. Extends(chain[n], new)
      BY <1>1, <2>1, <2>2, MinedExtends
    <2>4. /\ chain'[n] = new
          /\ \A m \in Node : chain'[m] = IF m = n THEN new ELSE chain[m]
      BY <1>1, <2>2
    <2>5. {chain'[m] : m \in Node} \ {<<Genesis>>}
             \subseteq ({chain[m] : m \in Node} \ {<<Genesis>>}) \cup {chain'[n]}
      BY <2>4
    <2> QED
      BY <1>2, <2>2, <2>3, <2>4, <2>5 DEF Network!Extend, Network!Becomes
  <1>4. ASSUME CopyLonger(n)
        PROVE  Network!Adopt(n)
    <2>1. PICK m \in Node :
             Len(chain[m]) > Len(chain[n]) /\ chain' = [chain EXCEPT ![n] = chain[m]]
      BY <1>4 DEF CopyLonger
    <2>2. chain[m] # <<Genesis>>
      <3>1. Len(chain[m]) # 1
        <4>1. /\ Len(chain[m]) \in Nat /\ Len(chain[n]) \in Nat
              /\ Len(chain[n]) > 0 /\ Len(chain[m]) > Len(chain[n])
          BY <1>2, <2>1
        <4>2. \A i, j \in Nat : j > 0 /\ i > j => i # 1
          OBVIOUS
        <4> QED
          BY <4>1, <4>2, Zenon
      <3>2. Len(<<Genesis>>) = 1
        OBVIOUS
      <3> HIDE DEF Genesis
      <3> QED
        BY <3>1, <3>2, Zenon
    <2>3. \A k \in Node : chain'[k] = IF k = n THEN chain[m] ELSE chain[k]
      BY <1>1, <2>1
    <2>4. /\ chain[m] \in {chain[k] : k \in Node} \ {<<Genesis>>}
          /\ {chain'[k] : k \in Node} \ {<<Genesis>>}
                \subseteq {chain[k] : k \in Node} \ {<<Genesis>>}
      BY <2>2, <2>3
    <2> QED
      BY <1>2, <2>1, <2>4 DEF Network!Adopt, Network!Becomes
  <1> QED
    BY <1>3, <1>4

\* Whatever a wallet does changes no chain.
LEMMA WalletsMiss ==
    ASSUME UNCHANGED chain
    PROVE  Network!Miss
  BY DEF Network!Miss
-----------------------------------------------------------------------------
(* Theorems *)

\* TypeOK: what a wallet keeps are inputs of transactions that were made, and all
\* numbers stay within their bounds, a transaction of each running call included.
THEOREM TypeCorrect == Spec => []TypeOK
  <1>1. IInv /\ TypeInv => TypeOK
    <2> SUFFICES ASSUME IInv, TypeInv
                 PROVE  TypeOK
      OBVIOUS
    <2>1. \A db \in Databases : db # <<>> /\ Height(db) = Len(db) - 1
      BY WhatIsRead DEF Databases, IInv, FilesInv, IsDatabase
    <2>2. ASSUME NEW w \in Seed
          PROVE  last_block_height[w] \in 0..MaxHeight
      <3>1. FullNodeOf[w] \in Node
        BY WalletAssumption
      <3>2. Height(ReadFromDb(w)) <= MaxHeight
        <4> DEFINE n == FullNodeOf[w]
        <4>1. /\ IsDatabase(file[w]) /\ IsDatabase(chain[n]) /\ Height(chain[n]) <= MaxHeight
              /\ file[w] = chain[n] \/ Len(file[w]) < Len(chain[n])
          BY <3>1 DEF IInv, FilesInv, TypeInv
        <4> HIDE DEF n
        <4>2. /\ Height(file[w]) = Len(file[w]) - 1 /\ Len(file[w]) \in Nat
              /\ Height(chain[n]) = Len(chain[n]) - 1 /\ Len(chain[n]) \in Nat
          BY <4>1, DatabaseNumbers DEF IsDatabase
        <4>3. Height(file[w]) <= MaxHeight
          BY <4>1, <4>2, BoundAssumption
        <4> QED
          BY <4>1, <4>3 DEF ReadFromDb, n
      <3>3. last_block_height[w] \in Nat /\ last_block_height[w] <= Height(ReadFromDb(w))
        BY DEF IInv, WalletInv
      <3> QED
        BY <3>2, <3>3, WhatIsRead, BoundAssumption DEF IInv
    <2>3. Len(created) \in 0..(MaxCreated + Cardinality(Seed))
      <3>1. Running \subseteq Seed
        BY DEF Running
      <3>2. Len(created) \in Nat
        BY AppendToChain DEF IInv, WalletShape
      <3> QED
        BY <3>1, <3>2, RunningIsFinite, BoundAssumption DEF TypeInv
    <2>4. UNION {Inputs(created[i].tx) : i \in DOMAIN created} = InputsOf(created)
      BY DEF InputsOf, Transactions
    <2>5. /\ stack_of_used_inputs \in [Seed -> SUBSET InputsOf(created)]
          /\ last_block_height \in [Seed -> 0..MaxHeight]
      BY <2>2 DEF IInv, WalletShape, TypeInv
    <2> QED
      BY <2>1, <2>3, <2>4, <2>5 DEF TypeOK, TypeInv, Transactions
  <1> QED
    BY <1>1, Invariance, TypeInvariance, PTL

\* HandedOutOnce: between two times that its stack is emptied, a wallet hands
\* out an input only once.
THEOREM HandedOutOnceAlways == Spec => []HandedOutOnce
  BY Invariance, PTL DEF IInv

\* OnePerBlockSeen: a wallet makes no second transaction before it has seen a
\* new block, unless the database changed while it made one.
THEOREM OnePerBlockSeenAlways == Spec => []OnePerBlockSeen
  BY Invariance, PTL DEF IInv

\* SpendsOwned: where every transaction comes from a wallet, nobody spends what
\* is not theirs, although the nodes do not check it.
THEOREM SpendsOwnedAlways == Spec => []SpendsOwned
  <1>1. OwnedInv => SpendsOwned
    <2> SUFFICES ASSUME OwnedInv, NEW db \in Databases, NEW tx \in TransactionsIn(db),
                        NEW input \in Inputs(tx)
                 PROVE  IsOwned(db, input, tx.verifying_key)
      BY DEF SpendsOwned
    <2>1. ChainOwned(db)
      BY ReadOwned DEF Databases, OwnedInv
    <2>2. PICK w \in Seed : tx.verifying_key = VerifyingKey(w) /\ RefersToOutputOf(w, input)
      BY <2>1 DEF ChainOwned, SpendsOwn
    <2> QED
      BY <2>1, <2>2, OwnerOfOutput DEF ChainOwned
  <1> QED
    BY <1>1, OwnedInvariance, PTL

\* ValidInputsAreUnspent: the inputs a wallet finds, although it searches only
\* what it has signed, are its unspent outputs that are not pending.
THEOREM ValidInputsAreUnspentAlways == Spec => []ValidInputsAreUnspent
  <1>1. OwnedInv => ValidInputsAreUnspent
    <2> SUFFICES ASSUME OwnedInv, NEW db \in Databases, NEW w \in Seed
                 PROVE  GetValidInputsFromAddress(db, GetAddress(w), stack_of_used_inputs[w])
                           = Unspent(db, GetAddress(w)) \ stack_of_used_inputs[w]
      BY DEF ValidInputsAreUnspent
    <2>1. ChainOwned(db)
      BY ReadOwned DEF Databases, OwnedInv
    <2> QED
      BY <2>1, PendingOnly, OwnInputsUnspent
  <1> QED
    BY <1>1, OwnedInvariance, PTL

\* BalanceIsUnspent: what the balance adds up to by outputs and signers is what
\* the unspent outputs of the address are worth, whatever is on the stack.
THEOREM BalanceIsUnspentAlways == Spec => []BalanceIsUnspent
  <1>1. OwnedInv => BalanceIsUnspent
    <2> SUFFICES ASSUME OwnedInv, NEW db \in Databases, NEW w \in Seed
                 PROVE  GetBalanceFromAddress(db, GetAddress(w), stack_of_used_inputs[w])
                           = UnspentAmount(db, GetAddress(w))
      BY DEF BalanceIsUnspent
    <2>1. ChainOwned(db)
      BY ReadOwned DEF Databases, OwnedInv
    <2>2. IsFiniteSet(Places(db)) /\ NoneSpendsItself(db)
      BY <2>1 DEF ChainOwned, SpendsOwn, IsPayment, NoneSpendsItself
    <2>3. GetBalanceFromAddress(db, GetAddress(w), stack_of_used_inputs[w])
            = GetBalanceFromAddress(db, GetAddress(w), {})
      BY <2>2, BalanceIsGained
    <2> QED
      BY <2>1, <2>3 DEF ChainOwned, Balanced
  <1> QED
    BY <1>1, OwnedInvariance, PTL

\* RespentOnce: whatever wallets forget, spend again and broadcast again, and
\* whichever chain replaces another, no database holds an output spent twice.
THEOREM RespentOnceAlways == Spec => []RespentOnce
  <1>1. OwnedInv => RespentOnce
    <2> SUFFICES ASSUME OwnedInv, NEW db \in Databases
                 PROVE  SpentOnce(db)
      BY DEF RespentOnce, SpentOnce
    <2> QED
      BY ReadOwned DEF Databases, OwnedInv, ChainOwned
  <1> QED
    BY <1>1, OwnedInvariance, PTL

\* FreshIsValid: a transaction to somebody else that was made of one database,
\* with nothing pending, is valid in it.
THEOREM FreshIsValidAlways == Spec => []FreshIsValid
  <1>1. OwnedInv => FreshIsValid
    BY DEF OwnedInv, CreatedOwned, FreshIsValid, Range
  <1> QED
    BY <1>1, OwnedInvariance, PTL

\* ImplementsLongestChain: the full nodes of this module do nothing that
\* LongestChain, which FullNode is proved to implement, does not allow.
THEOREM Implementation == Spec => ImplementsLongestChain
  <1>1. Init => Network!Init
    BY DEF Init, Network!Init
  <1>2. IInv /\ [Next]_vars => [Network!Next]_Network!vars
    <2> SUFFICES ASSUME IInv, [Next]_vars
                 PROVE  [Network!Next]_Network!vars
      OBVIOUS
    <2>1. CASE UNCHANGED chain
      BY <2>1, WalletsMiss DEF Network!Next
    <2>2. CASE \E n \in Node : MineTransaction(n) \/ CopyLonger(n)
      BY <2>2, NodesFollow DEF Network!Next
    <2>3. UNCHANGED chain \/ \E n \in Node : MineTransaction(n) \/ CopyLonger(n)
      BY DEF Next, vars, Query, BeginTransaction, FinishTransaction, BroadcastCreated,
             Synchronise, InitLightnodeApi
    <2> QED
      BY <2>1, <2>2, <2>3
  <1> QED
    BY <1>1, <1>2, Invariance, PTL DEF Spec, Network!Spec, ImplementsLongestChain

=============================================================================
