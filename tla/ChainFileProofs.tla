-------------------------- MODULE ChainFileProofs --------------------------
(***************************************************************************)
(* Proofs about ChainFile, for any contents, received databases, readers,  *)
(* nonces and target, and any number of calls and crashes.                 *)
(*                                                                         *)
(* A call reads the file several times, and nothing but the call itself    *)
(* writes it: until it truncates the file, what it has in memory was       *)
(* computed from what the file still holds.                                *)
(***************************************************************************)
EXTENDS ChainFile, LedgerProofs

-----------------------------------------------------------------------------
(* The inductive invariant *)

\* What a call is going to write was made of what the file holds.
Due(pc, content, db) ==
    \/ /\ pc = "writing"
       /\ db = ListOf(db.blocks)
       /\ IsList(content)
       /\ Len(db.blocks) > Len(content.blocks) \/ MadeOf(content.blocks, db.blocks)
    \/ /\ pc = "rewinding"
       /\ \/ db = ListOf(<<Genesis>>)
          \/ IsList(content) /\ db = BlockAlone(db.blocks[1])

\* A block that is being made was made of the chain in the file.
BlockInv ==
    call.pc \in {"valid", "mined", "linked"} =>
        /\ IsList(file)
        /\ \E content \in Content :
              /\ ValidateBlock(file.blocks, Block(content))
              /\ IF call.pc = "valid" THEN call.block = Block(content)
                 ELSE call.block \in MineBlock(file.blocks, Block(content))

WriteInv ==
    /\ call.pc \in {"writing", "rewinding"} => Due(call.pc, file, call.db)
    /\ call.pc = "truncated" => file = Torn
    /\ call.pc \in {"writing", "rewinding", "truncated"} => call.db # Torn
    /\ TornHasCause

\* A reader knows the chain or one that it was extended from, unless the chain
\* was lost or taken back.
ReaderInv(r) ==
    /\ seen[r] = [blocks |-> seen[r].blocks, rollbacks |-> seen[r].rollbacks]
    /\ IsChain(seen[r].blocks) /\ seen[r].blocks # <<>>
    /\ seen[r].rollbacks \in 0..rollbacks
    /\ seen[r].rollbacks = rollbacks =>
          \/ StoredChain = <<>>
          \/ StoredChain = seen[r].blocks
          \/ Len(StoredChain) > Len(seen[r].blocks)

IInv ==
    /\ TypeOK
    /\ BlockInv
    /\ WriteInv
    /\ \A r \in Reader : ReaderInv(r)

-----------------------------------------------------------------------------
(* What the file holds *)

LEMMA Kinds ==
    /\ ~IsList(Torn)
    /\ \A blocks : IsList(ListOf(blocks)) /\ ListOf(blocks).blocks = blocks
                   /\ ListOf(blocks) # Torn
    /\ \A block : ~IsList(BlockAlone(block)) /\ BlockAlone(block) # Torn
  BY DEF IsList, Torn, ListOf, BlockAlone

LEMMA GenesisContent ==
    /\ IsContent(ListOf(<<Genesis>>)) /\ IsContent(Torn)
    /\ \A block : IsContent(BlockAlone(block))
  <1>1. ASSUME NEW block
        PROVE  IsChain(<<block>>) /\ <<block>> # <<>> /\ <<block>>[1] = block
    <2>1. <<block>> \in Seq({block}) /\ <<block>> # <<>> /\ <<block>>[1] = block
      OBVIOUS
    <2> QED
      BY <2>1, SequencesAreChains
  <1> QED
    BY <1>1 DEF IsContent, ListOf, BlockAlone

LEMMA ListsAreChains ==
    ASSUME NEW content, IsContent(content), IsList(content)
    PROVE  /\ IsChain(content.blocks) /\ content.blocks # <<>>
           /\ content = ListOf(content.blocks)
           /\ Len(content.blocks) \in Nat
  <1>1. IsChain(content.blocks) /\ content.blocks # <<>> /\ content = ListOf(content.blocks)
    BY Kinds DEF IsContent
  <1> QED
    BY <1>1, LenProperties DEF IsChain

\* What block creation makes of a chain is a chain, and longer.
LEMMA MadeIsLonger ==
    ASSUME NEW c, IsChain(c), NEW d, MadeOf(c, d)
    PROVE  IsChain(d) /\ d # <<>> /\ Len(d) = Len(c) + 1 /\ Len(c) \in Nat
  <1>1. PICK content \in Content : \E mined \in MineBlock(c, Block(content)) :
           d = AddBlockToDb(c, mined)
    BY DEF MadeOf
  <1>2. PICK block : d = Append(c, block)
    BY <1>1 DEF AddBlockToDb
  <1>3. IsChain(d) /\ Len(d) = Len(c) + 1 /\ Len(c) \in Nat
    BY <1>2, AppendToChain
  <1>4. Len(<<>>) = 0
    OBVIOUS
  <1> QED
    BY <1>3, <1>4

-----------------------------------------------------------------------------
(* The invariant holds *)

LEMMA InitInv == Init => IInv
  <1> SUFFICES ASSUME Init
               PROVE  IInv
    OBVIOUS
  <1>1. IsContent(file) /\ IsContent(call.db)
    BY GenesisContent DEF Init, Idle
  <1>2. /\ Idle = [pc |-> Idle.pc, block |-> Idle.block, db |-> Idle.db]
        /\ Idle.pc = "idle"
    BY DEF Idle
  <1>3. StoredChain = <<Genesis>> /\ file # Torn
    BY <1>2, Kinds DEF Init, StoredChain, ChainIn
  <1>4. ASSUME NEW r \in Reader
        PROVE  ReaderInv(r) /\ seen[r].blocks # <<>> /\ seen[r].rollbacks \in Nat
    <2>1. IsChain(<<Genesis>>) /\ <<Genesis>> # <<>>
      BY GenesisContent, Kinds, ListsAreChains
    <2>2. seen[r] = [blocks |-> <<Genesis>>, rollbacks |-> 0] /\ rollbacks = 0
      BY DEF Init
    <2> QED
      BY <1>3, <2>1, <2>2 DEF ReaderInv
  <1>5. seen = [r \in Reader |-> [blocks |-> seen[r].blocks, rollbacks |-> seen[r].rollbacks]]
    BY DEF Init
  <1>6. TypeOK
    <2>1. /\ db_file_path = FALSE /\ call = Idle /\ rollbacks = 0 /\ calls = 0 /\ crashes = 0
          /\ MaxCalls \in Nat /\ MaxCrashes \in Nat
      BY BoundAssumption DEF Init
    <2>2. /\ call = [pc |-> call.pc, block |-> call.block, db |-> call.db]
          /\ call.pc \in {"idle", "valid", "mined", "linked", "writing", "rewinding",
                          "truncated"}
      BY <1>2, <2>1
    <2>3. rollbacks \in Nat /\ calls \in 0..MaxCalls /\ crashes \in 0..MaxCrashes
      BY <2>1
    <2> QED
      BY <1>1, <1>4, <1>5, <2>1, <2>2, <2>3 DEF TypeOK
  <1> QED
    BY <1>2, <1>3, <1>4, <1>6 DEF Init, IInv, BlockInv, WriteInv, TornHasCause

\* The five ways in which a step changes the chain the file is taken to hold.
Kept == StoredChain' = StoredChain /\ UNCHANGED <<rollbacks, crashes>>
Ended ==
    /\ StoredChain' \in {StoredChain, <<>>}
    /\ crashes' = crashes + 1 /\ UNCHANGED rollbacks
Reset == StoredChain' = <<Genesis>> /\ rollbacks' = rollbacks + 1 /\ UNCHANGED crashes
Removed ==
    /\ StoredChain # <<>> /\ StoredChain' = <<>>
    /\ rollbacks' = rollbacks + 1 /\ UNCHANGED crashes
Grown ==
    /\ StoredChain # <<>> /\ UNCHANGED <<rollbacks, crashes>>
    /\ Len(StoredChain') > Len(StoredChain) \/ MadeOf(StoredChain, StoredChain')

Changes == Kept \/ Ended \/ Reset \/ Removed \/ Grown

\* The stored chain is a chain, or nothing.
LEMMA StoredChainType ==
    ASSUME TypeOK
    PROVE  IsChain(StoredChain) /\ Len(StoredChain) \in Nat
  <1>1. ASSUME NEW content, IsContent(content)
        PROVE  IsChain(ChainIn(content)) /\ Len(ChainIn(content)) \in Nat
    <2>1. CASE IsList(content)
      BY <1>1, <2>1, ListsAreChains DEF ChainIn
    <2>2. CASE ~IsList(content)
      <3>1. <<>> \in Seq({}) /\ Len(<<>>) = 0
        OBVIOUS
      <3> QED
        BY <2>2, <3>1, SequencesAreChains DEF ChainIn
    <2> QED
      BY <2>1, <2>2
  <1> QED
    BY <1>1 DEF StoredChain, TypeOK

\* Readers stay right when the stored chain changes and they do not read.
LEMMA ReadersKept ==
    ASSUME TypeOK, NEW r \in Reader, ReaderInv(r), Changes, UNCHANGED seen
    PROVE  ReaderInv(r)'
  <1> DEFINE s == seen[r].blocks
             c == StoredChain
             d == StoredChain'
  <1>1. IsChain(c) /\ Len(c) \in Nat /\ Len(s) \in Nat
    BY StoredChainType, LenProperties DEF ReaderInv, IsChain
  <1>2. rollbacks \in Nat /\ rollbacks' \in Nat /\ rollbacks <= rollbacks'
    BY DEF TypeOK, Changes, Kept, Ended, Reset, Removed, Grown
  <1>3. seen[r].rollbacks \in 0..rollbacks'
    BY <1>2 DEF ReaderInv
  <1>4. ASSUME seen[r].rollbacks = rollbacks'
        PROVE  d = <<>> \/ d = s \/ Len(d) > Len(s)
    <2>1. rollbacks' = rollbacks
      BY <1>2, <1>3, <1>4 DEF ReaderInv
    <2>2. c = <<>> \/ c = s \/ Len(c) > Len(s)
      BY <1>4, <2>1 DEF ReaderInv
    <2>3. d = c \/ d = <<>> \/ (c # <<>> /\ Len(d) > Len(c))
      <3>1. MadeOf(c, d) => Len(d) > Len(c)
        BY <1>1, MadeIsLonger
      <3> QED
        BY <1>2, <2>1, <3>1 DEF Changes, Kept, Ended, Reset, Removed, Grown
    <2> QED
      BY <1>1, <2>2, <2>3
  <1> HIDE DEF s, c, d
  <1> QED
    BY <1>3, <1>4 DEF ReaderInv, s, d

-----------------------------------------------------------------------------
(* The steps *)

\* What every step but a reader's does.
Step == TypeOK' /\ BlockInv' /\ WriteInv' /\ Changes /\ UNCHANGED seen

LEMMA Going ==
    ASSUME NEW pc, NEW block, NEW db, Goes(pc, block, db)
    PROVE  /\ call'.pc = pc /\ call'.block = block /\ call'.db = db
           /\ call' = [pc |-> call'.pc, block |-> call'.block, db |-> call'.db]
  BY DEF Goes

LEMMA IdleCall ==
    /\ Idle.pc = "idle" /\ Idle.db = Torn
    /\ Idle = [pc |-> Idle.pc, block |-> Idle.block, db |-> Idle.db]
  BY DEF Idle

\* A step of a call that leaves the file alone.
LEMMA FileKept ==
    ASSUME IInv, UNCHANGED <<file, rollbacks, seen, crashes>>,
           call.pc # "truncated", call'.pc # "truncated"
    PROVE  Changes
  BY DEF Changes, Kept, StoredChain

LEMMA MakeBlockStep ==
    ASSUME IInv, NEW content \in Content, MakeBlock(content)
    PROVE  Step
  <1>1. /\ call'.pc = "valid" /\ call'.block = Block(content) /\ call'.db = Torn
        /\ call' = [pc |-> call'.pc, block |-> call'.block, db |-> call'.db]
    BY Going DEF MakeBlock
  <1>2. /\ call.pc = "idle" /\ calls < MaxCalls /\ calls' = calls + 1
        /\ UNCHANGED <<file, db_file_path, seen, rollbacks, crashes>>
        /\ IsList(file) /\ ValidateBlock(file.blocks, Block(content))
    BY IdleCall DEF MakeBlock, Begins
  <1>3. TypeOK'
    BY <1>1, <1>2, GenesisContent, BoundAssumption DEF IInv, TypeOK
  <1>4. BlockInv'
    BY <1>1, <1>2 DEF BlockInv
  <1>5. WriteInv'
    BY <1>1, <1>2 DEF IInv, WriteInv, TornHasCause
  <1>6. Changes
    BY <1>1, <1>2, FileKept
  <1> QED
    BY <1>2, <1>3, <1>4, <1>5, <1>6 DEF Step

\* The three steps between validate_block and write_to_db.
LEMMA MakingStep ==
    ASSUME IInv, Mine \/ LinkBlock \/ AppendBlock
    PROVE  Step
  <1>1. PICK content \in Content :
           /\ ValidateBlock(file.blocks, Block(content))
           /\ IF call.pc = "valid" THEN call.block = Block(content)
              ELSE call.block \in MineBlock(file.blocks, Block(content))
    BY DEF IInv, BlockInv, Mine, LinkBlock, AppendBlock, Continues
  <1>2. /\ UNCHANGED <<file, rollbacks, db_file_path, seen, calls, crashes>>
        /\ call.pc \in {"valid", "mined", "linked"}
    BY DEF Mine, LinkBlock, AppendBlock, Continues
  <1>3. IsList(file) /\ file # Torn /\ IsContent(file)
    BY <1>2, Kinds DEF IInv, BlockInv, TypeOK
  <1>4. CASE Mine
    <2>1. PICK mined \in MineBlock(file.blocks, call.block) : Goes("mined", mined, Torn)
      BY <1>4 DEF Mine
    <2>2. call.pc = "valid"
      BY <1>4 DEF Mine, Continues
    <2>3. /\ call'.pc = "mined" /\ call'.block = mined /\ call'.db = Torn
          /\ call' = [pc |-> call'.pc, block |-> call'.block, db |-> call'.db]
      BY <2>1, Going
    <2>4. mined \in MineBlock(file.blocks, Block(content))
      BY <1>1, <2>1, <2>2
    <2>5. TypeOK'
      BY <1>2, <2>3, GenesisContent DEF IInv, TypeOK
    <2>6. BlockInv'
      BY <1>1, <1>2, <1>3, <2>3, <2>4 DEF BlockInv
    <2>7. WriteInv' /\ Changes
      BY <1>2, <1>3, <2>2, <2>3, FileKept DEF WriteInv, TornHasCause
    <2> QED
      BY <1>2, <2>5, <2>6, <2>7 DEF Step
  <1>5. CASE LinkBlock
    <2>1. call.pc = "mined" /\ Goes("linked", Link(file.blocks, call.block), Torn)
      BY <1>5 DEF LinkBlock, Continues
    <2>2. call.block \in MineBlock(file.blocks, Block(content))
      BY <1>1, <2>1
    <2>3. Link(file.blocks, call.block) = call.block
      BY <2>2, MinedBlock
    <2>4. /\ call'.pc = "linked" /\ call'.block = call.block /\ call'.db = Torn
          /\ call' = [pc |-> call'.pc, block |-> call'.block, db |-> call'.db]
      BY <2>1, <2>3, Going
    <2>5. TypeOK'
      BY <1>2, <2>4, GenesisContent DEF IInv, TypeOK
    <2>6. BlockInv'
      BY <1>1, <1>2, <1>3, <2>2, <2>4 DEF BlockInv
    <2>7. WriteInv' /\ Changes
      BY <1>2, <1>3, <2>1, <2>4, FileKept DEF WriteInv, TornHasCause
    <2> QED
      BY <1>2, <2>5, <2>6, <2>7 DEF Step
  <1>6. CASE AppendBlock
    <2> DEFINE chain == Append(file.blocks, call.block)
    <2>1. call.pc = "linked" /\ Goes("writing", call.block, ListOf(chain))
      BY <1>6 DEF AppendBlock, Continues
    <2>2. call.block \in MineBlock(file.blocks, Block(content))
      BY <1>1, <2>1
    <2>3. Link(file.blocks, call.block) = call.block
      BY <2>2, MinedBlock
    <2>4. MadeOf(file.blocks, chain)
      BY <1>1, <2>2, <2>3 DEF MadeOf, AddBlockToDb
    <2> HIDE DEF chain
    <2>5. IsContent(ListOf(chain))
      <3>1. IsChain(chain) /\ chain # <<>>
        BY <1>3, <2>4, ListsAreChains, MadeIsLonger
      <3> QED
        BY <3>1, Kinds DEF IsContent
    <2>6. /\ call'.pc = "writing" /\ call'.db = ListOf(chain)
          /\ call' = [pc |-> call'.pc, block |-> call'.block, db |-> call'.db]
      BY <2>1, Going
    <2>7. TypeOK'
      BY <1>2, <2>5, <2>6 DEF IInv, TypeOK
    <2>8. BlockInv'
      BY <2>6 DEF BlockInv
    <2>9. WriteInv'
      BY <1>2, <1>3, <2>4, <2>6, Kinds DEF WriteInv, TornHasCause, Due
    <2>10. Changes
      BY <1>2, <2>1, <2>6, FileKept
    <2> QED
      BY <1>2, <2>7, <2>8, <2>9, <2>10 DEF Step
  <1> QED
    BY <1>4, <1>5, <1>6

\* The other calls that begin with what they will write.
LEMMA WritingBegins ==
    ASSUME IInv, Begins, NEW db, NEW pc \in {"writing", "rewinding"}, Goes(pc, None, db),
           IsContent(db), db # Torn, Due(pc, file, db)
    PROVE  Step
  <1>1. /\ call'.pc = pc /\ call'.db = db
        /\ call' = [pc |-> call'.pc, block |-> call'.block, db |-> call'.db]
    BY Going
  <1>2. /\ call.pc = "idle" /\ calls < MaxCalls /\ calls' = calls + 1
        /\ UNCHANGED <<file, db_file_path, seen, rollbacks, crashes>>
    BY IdleCall DEF Begins
  <1>3. TypeOK'
    BY <1>1, <1>2, BoundAssumption DEF IInv, TypeOK
  <1>4. BlockInv'
    BY <1>1 DEF BlockInv
  <1>5. WriteInv'
    BY <1>1, <1>2 DEF IInv, WriteInv, TornHasCause
  <1>6. Changes
    BY <1>1, <1>2, FileKept
  <1> QED
    BY <1>2, <1>3, <1>4, <1>5, <1>6 DEF Step

LEMMA OtherCallsStep ==
    ASSUME IInv,
           \/ \E db \in Received : ReceiveDatabase(db)
           \/ AddGenesisBlock
           \/ RemoveLastBlockFromDb
    PROVE  Step
  <1>1. ASSUME NEW db \in Received, ReceiveDatabase(db)
        PROVE  Step
    <2>1. IsChain(db) /\ db # <<>>
      BY ReceivedAssumption DEF IsChain
    <2>2. IsContent(ListOf(db)) /\ ListOf(db) # Torn
      BY <2>1, Kinds DEF IsContent
    <2>3. Due("writing", file, ListOf(db))
      BY <1>1, Kinds DEF ReceiveDatabase, Due
    <2> QED
      BY <1>1, <2>2, <2>3, WritingBegins DEF ReceiveDatabase
  <1>2. CASE AddGenesisBlock
    BY <1>2, GenesisContent, Kinds, WritingBegins DEF AddGenesisBlock, Due
  <1>3. CASE RemoveLastBlockFromDb
    <2> DEFINE db == BlockAlone(LastBlock(file.blocks))
    <2>1. db = BlockAlone(db.blocks[1])
      BY DEF BlockAlone
    <2>2. IsContent(db) /\ db # Torn
      BY GenesisContent, Kinds
    <2>3. Begins /\ Goes("rewinding", None, db) /\ IsList(file)
      BY <1>3 DEF RemoveLastBlockFromDb
    <2> HIDE DEF db
    <2> QED
      BY <2>1, <2>2, <2>3, WritingBegins DEF Due
  <1> QED
    BY <1>1, <1>2, <1>3

\* The old chain is gone, and the new one counts.
LEMMA TruncateStep ==
    ASSUME IInv, Truncate
    PROVE  Step
  <1>1. /\ call.pc \in {"writing", "rewinding"} /\ file' = Torn
        /\ UNCHANGED <<db_file_path, seen, calls, crashes>>
        /\ rollbacks' = IF call.pc = "rewinding" THEN rollbacks + 1 ELSE rollbacks
    BY DEF Truncate, Continues
  <1>2. /\ call'.pc = "truncated" /\ call'.db = call.db
        /\ call' = [pc |-> call'.pc, block |-> call'.block, db |-> call'.db]
    BY DEF Truncate, IInv, TypeOK
  <1>3. IsContent(call.db) /\ call.db # Torn /\ Due(call.pc, file, call.db)
    BY <1>1 DEF IInv, TypeOK, WriteInv
  <1>4. rollbacks \in Nat /\ rollbacks' \in Nat
    BY <1>1 DEF IInv, TypeOK
  <1>5. TypeOK'
    BY <1>1, <1>2, <1>3, <1>4, GenesisContent DEF IInv, TypeOK
  <1>6. BlockInv' /\ WriteInv'
    BY <1>1, <1>2, <1>3 DEF BlockInv, WriteInv, TornHasCause
  <1>7. StoredChain = ChainIn(file) /\ StoredChain' = ChainIn(call.db)
    BY <1>1, <1>2 DEF StoredChain
  <1>8. ASSUME IsList(file)
        PROVE  StoredChain = file.blocks /\ file.blocks # <<>>
    BY <1>7, <1>8, ListsAreChains DEF ChainIn, IInv, TypeOK
  <1>9. Changes
    <2>1. CASE call.pc = "rewinding" /\ call.db = ListOf(<<Genesis>>)
      BY <2>1, <1>1, <1>7, Kinds DEF Changes, Reset, ChainIn
    <2>2. CASE /\ call.pc = "rewinding" /\ IsList(file)
               /\ call.db = BlockAlone(call.db.blocks[1])
      BY <2>2, <1>1, <1>7, <1>8, Kinds DEF Changes, Removed, ChainIn
    <2>3. CASE /\ call.pc = "writing"
               /\ call.db = ListOf(call.db.blocks) /\ IsList(file)
               /\ \/ Len(call.db.blocks) > Len(file.blocks)
                  \/ MadeOf(file.blocks, call.db.blocks)
      <3>1. StoredChain' = call.db.blocks
        BY <2>3, <1>7, Kinds DEF ChainIn
      <3> QED
        BY <2>3, <3>1, <1>1, <1>8 DEF Changes, Grown
    <2> QED
      BY <1>3, <2>1, <2>2, <2>3 DEF Due
  <1> QED
    BY <1>1, <1>5, <1>6, <1>9 DEF Step

LEMMA DumpStep ==
    ASSUME IInv, Dump
    PROVE  Step
  <1>1. /\ call.pc = "truncated" /\ file' = call.db /\ call' = Idle
        /\ UNCHANGED <<rollbacks, db_file_path, seen, calls, crashes>>
    BY DEF Dump, Continues
  <1>2. /\ call'.pc = "idle" /\ call'.db = Torn
        /\ call' = [pc |-> call'.pc, block |-> call'.block, db |-> call'.db]
    BY <1>1, IdleCall
  <1>3. IsContent(call.db) /\ call.db # Torn
    BY <1>1 DEF IInv, TypeOK, WriteInv
  <1>4. TypeOK'
    BY <1>1, <1>2, <1>3, GenesisContent DEF IInv, TypeOK
  <1>5. BlockInv' /\ WriteInv'
    BY <1>1, <1>2, <1>3 DEF BlockInv, WriteInv, TornHasCause
  <1>6. StoredChain' = StoredChain
    BY <1>1, <1>2 DEF StoredChain
  <1> QED
    BY <1>1, <1>4, <1>5, <1>6 DEF Step, Changes, Kept

\* A crash between truncation and dump loses the new chain, too.
LEMMA ProcessStep ==
    ASSUME IInv, Crash \/ InitDatabasePath \/ ReinitDatabasePath
    PROVE  Step
  <1>1. CASE Crash
    <2>1. /\ crashes < MaxCrashes /\ crashes' = crashes + 1 /\ db_file_path' = FALSE
          /\ call' = Idle /\ UNCHANGED <<file, seen, rollbacks, calls>>
      BY <1>1 DEF Crash
    <2>2. /\ call'.pc = "idle" /\ call'.db = Torn
          /\ call' = [pc |-> call'.pc, block |-> call'.block, db |-> call'.db]
      BY <2>1, IdleCall
    <2>3. TypeOK'
      <3>1. crashes' \in 0..MaxCrashes
        <4>1. crashes \in 0..MaxCrashes
          BY DEF IInv, TypeOK
        <4> QED
          BY <2>1, <4>1, BoundAssumption
      <3>2. IsContent(file)' /\ IsContent(call.db)'
        BY <2>1, <2>2, GenesisContent DEF IInv, TypeOK
      <3>3. call'.pc \in {"idle", "valid", "mined", "linked", "writing", "rewinding",
                          "truncated"}
        BY <2>2
      <3>4. db_file_path' \in BOOLEAN
        BY <2>1
      <3> QED
        BY <2>1, <2>2, <3>1, <3>2, <3>3, <3>4 DEF IInv, TypeOK
    <2>4. BlockInv' /\ WriteInv'
      BY <2>1, <2>2 DEF BlockInv, WriteInv, TornHasCause, IInv, TypeOK
    <2>5. Changes
      <3>1. StoredChain' = ChainIn(file)
        BY <2>1, <2>2 DEF StoredChain
      <3>2. CASE call.pc = "truncated"
        BY <3>1, <3>2, <2>1, Kinds DEF IInv, WriteInv, ChainIn, Changes, Ended
      <3>3. CASE call.pc # "truncated"
        BY <3>1, <3>3, <2>1 DEF StoredChain, Changes, Ended
      <3> QED
        BY <3>2, <3>3
    <2> QED
      BY <2>1, <2>3, <2>4, <2>5 DEF Step
  <1>2. CASE InitDatabasePath \/ ReinitDatabasePath
    <2>1. db_file_path' \in BOOLEAN /\ UNCHANGED <<file, call, seen, rollbacks, calls, crashes>>
      BY <1>2 DEF InitDatabasePath, ReinitDatabasePath
    <2>2. TypeOK'
      BY <2>1 DEF IInv, TypeOK
    <2>3. BlockInv' /\ WriteInv'
      BY <2>1 DEF IInv, BlockInv, WriteInv, TornHasCause
    <2>4. StoredChain' = StoredChain
      BY <2>1 DEF StoredChain
    <2> QED
      BY <2>1, <2>2, <2>3, <2>4 DEF Step, Changes, Kept
  <1> QED
    BY <1>1, <1>2

\* A wallet reads the list that is in the file.
LEMMA ReadStep ==
    ASSUME IInv, NEW r \in Reader, Read(r)
    PROVE  IInv' /\ UNCHANGED <<file, call, rollbacks, crashes>>
  <1> DEFINE new == [blocks |-> file.blocks, rollbacks |-> rollbacks]
  <1>1. /\ IsList(file) /\ seen' = [seen EXCEPT ![r] = new]
        /\ UNCHANGED <<file, db_file_path, call, rollbacks, calls, crashes>>
    BY DEF Read
  <1>2. IsChain(file.blocks) /\ file.blocks # <<>> /\ rollbacks \in Nat
    BY <1>1, ListsAreChains DEF IInv, TypeOK
  <1>3. seen = [q \in Reader |-> seen[q]]
    BY DEF IInv, TypeOK
  <1>4. ASSUME NEW q \in Reader
        PROVE  seen'[q] = IF q = r THEN new ELSE seen[q]
    BY <1>1, <1>3
  <1>5. StoredChain = file.blocks /\ StoredChain' = StoredChain
    <2>1. call.pc # "truncated"
      BY <1>1, Kinds DEF IInv, WriteInv
    <2> QED
      BY <1>1, <2>1 DEF StoredChain, ChainIn
  <1>6. ASSUME NEW q \in Reader
        PROVE  ReaderInv(q)'
    <2>1. CASE q = r
      <3>1. seen'[q].blocks = file.blocks /\ seen'[q].rollbacks = rollbacks
            /\ seen'[q] = [blocks |-> seen'[q].blocks, rollbacks |-> seen'[q].rollbacks]
        BY <1>4, <2>1
      <3> QED
        BY <3>1, <1>1, <1>2, <1>5 DEF ReaderInv
    <2>2. CASE q # r
      <3>1. seen'[q] = seen[q]
        BY <1>4, <2>2
      <3> QED
        BY <3>1, <1>1, <1>5 DEF ReaderInv, IInv
    <2> QED
      BY <2>1, <2>2
  <1>7. TypeOK'
    <2>1. \A q \in Reader :
             /\ seen'[q] = [blocks |-> seen'[q].blocks, rollbacks |-> seen'[q].rollbacks]
             /\ seen'[q].blocks # <<>> /\ seen'[q].rollbacks \in Nat
      BY <1>1, <1>2, <1>6 DEF ReaderInv
    <2>2. seen' = [q \in Reader |-> seen'[q]]
      BY <1>1, <1>3
    <2>3. seen' = [q \in Reader |->
                     [blocks |-> seen'[q].blocks, rollbacks |-> seen'[q].rollbacks]]
      BY <2>1, <2>2
    <2> QED
      BY <1>1, <2>1, <2>3 DEF IInv, TypeOK
  <1>8. BlockInv' /\ WriteInv'
    BY <1>1 DEF IInv, BlockInv, WriteInv, TornHasCause
  <1> QED
    BY <1>1, <1>6, <1>7, <1>8 DEF IInv

LEMMA NextSteps ==
    ASSUME IInv, Next
    PROVE  Step \/ \E r \in Reader : Read(r)
  BY MakeBlockStep, MakingStep, OtherCallsStep, TruncateStep, DumpStep, ProcessStep
  DEF Next

LEMMA NextInv == IInv /\ [Next]_vars => IInv'
  <1> SUFFICES ASSUME IInv, [Next]_vars
               PROVE  IInv'
    OBVIOUS
  <1>1. CASE Step
    BY <1>1, ReadersKept DEF Step, IInv
  <1>2. ASSUME NEW r \in Reader, Read(r)
        PROVE  IInv'
    BY <1>2, ReadStep
  <1>3. CASE UNCHANGED vars
    BY <1>3 DEF vars, IInv, TypeOK, BlockInv, WriteInv, TornHasCause, ReaderInv, StoredChain
  <1> QED
    BY <1>1, <1>2, <1>3, NextSteps

\* The invariant holds in every state.
LEMMA Invariance == Spec => []IInv
  BY InitInv, NextInv, PTL DEF Spec

-----------------------------------------------------------------------------
(* Theorems *)

\* TypeOK: the file holds a list that is not empty, one block, or nothing whole.
THEOREM TypeCorrect == Spec => []TypeOK
  BY Invariance, PTL DEF IInv

\* MinedStaysMined: the header that is stored is the header that was hashed.
THEOREM MinedStaysMinedAlways == Spec => []MinedStaysMined
  <1>1. IInv => MinedStaysMined
    <2> SUFFICES ASSUME IInv, call.pc \in {"mined", "linked"}
                 PROVE  /\ MeetsTarget(BlockHash(call.block))
                        /\ call.block.metadata.prev_block_hash
                             = BlockHash(LastBlock(file.blocks))
      BY DEF MinedStaysMined
    <2>1. PICK content \in Content : call.block \in MineBlock(file.blocks, Block(content))
      BY DEF IInv, BlockInv
    <2> QED
      BY <2>1, MinedBlock
  <1> QED
    BY <1>1, Invariance, PTL

\* TornHasCause: a file that cannot be read is being written, or its writer
\* crashed.
THEOREM TornHasCauseAlways == Spec => []TornHasCause
  <1>1. IInv => TornHasCause
    BY DEF IInv, WriteInv
  <1> QED
    BY <1>1, Invariance, PTL

\* ReaderSeesGrowth: what a wallet reads differs from what it read before by a
\* greater height, between two calls that take blocks back.
THEOREM ReaderSeesGrowthAlways == Spec => ReaderSeesGrowth
  <1> DEFINE Grows(r) ==
        seen'[r].rollbacks = seen[r].rollbacks =>
            seen'[r].blocks = seen[r].blocks \/ Len(seen'[r].blocks) > Len(seen[r].blocks)
  <1>1. IInv /\ [Next]_vars => [\A r \in Reader : Grows(r)]_vars
    <2> SUFFICES ASSUME IInv, Next, NEW r \in Reader
                 PROVE  Grows(r)
      OBVIOUS
    <2>1. CASE Step
      BY <2>1 DEF Step
    <2>2. ASSUME NEW q \in Reader, Read(q)
          PROVE  Grows(r)
      <3>1. /\ IsList(file) /\ seen = [p \in Reader |-> seen[p]]
            /\ seen' = [seen EXCEPT ![q] = [blocks |-> file.blocks, rollbacks |-> rollbacks]]
        BY <2>2 DEF Read, IInv, TypeOK
      <3>2. CASE q # r
        BY <3>1, <3>2
      <3>3. CASE q = r
        <4>1. seen'[r].blocks = file.blocks /\ seen'[r].rollbacks = rollbacks
          BY <3>1, <3>3
        <4>2. file.blocks # <<>> /\ StoredChain = file.blocks
          <5>1. call.pc # "truncated" /\ file.blocks # <<>>
            BY <3>1, Kinds, ListsAreChains DEF IInv, TypeOK, WriteInv
          <5> QED
            BY <3>1, <5>1 DEF StoredChain, ChainIn
        <4> QED
          BY <4>1, <4>2 DEF IInv, ReaderInv
      <3> QED
        BY <3>2, <3>3
    <2> QED
      BY <2>1, <2>2, NextSteps
  <1> QED
    BY <1>1, Invariance, PTL DEF Spec, ReaderSeesGrowth

\* ImplementsStore: calls change the chain of the file at once or not at all, and
\* only a crash or a call that takes blocks back loses it.
THEOREM Implementation == Spec => ImplementsStore
  <1>1. Init => Abstract!Init
    <2>1. IsList(ListOf(<<Genesis>>)) /\ ListOf(<<Genesis>>).blocks = <<Genesis>>
      BY Kinds
    <2> QED
      BY <2>1, IdleCall DEF Init, Abstract!Init, StoredChain, ChainIn
  <1>2. IInv /\ [Next]_vars => [Abstract!Next]_<<StoredChain, rollbacks, crashes>>
    <2> SUFFICES ASSUME IInv, [Next]_vars
                 PROVE  [Abstract!Next]_<<StoredChain, rollbacks, crashes>>
      OBVIOUS
    <2>1. CASE Step
      <3>1. CASE Kept
        BY <3>1 DEF Kept
      <3>2. CASE Ended
        BY <3>2 DEF Ended, Abstract!Next, Abstract!End
      <3>3. CASE Reset
        BY <3>3 DEF Reset, Abstract!Next, Abstract!Reset, Abstract!TakesBack
      <3>4. CASE Removed
        BY <3>4 DEF Removed, Abstract!Next, Abstract!Remove, Abstract!TakesBack
      <3>5. CASE Grown
        BY <3>5 DEF Grown, Abstract!Next, Abstract!Extend, Abstract!Replace
      <3> QED
        BY <2>1, <3>1, <3>2, <3>3, <3>4, <3>5 DEF Step, Changes
    <2>2. CASE UNCHANGED <<file, call, rollbacks, crashes>>
      BY <2>2 DEF StoredChain
    <2> QED
      BY <2>1, <2>2, NextSteps, ReadStep DEF vars
  <1> QED
    BY <1>1, <1>2, Invariance, PTL DEF Spec, Abstract!Spec, ImplementsStore

=============================================================================
