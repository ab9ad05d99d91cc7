------------------------------ MODULE ChainFile ------------------------------
(***************************************************************************)
(* The database file of a full node (tools/database.py) and the calls that *)
(* read and write it (tools/fullnode_api.py), one read, truncation or      *)
(* write a step.                                                           *)
(*                                                                         *)
(* One process writes: it runs one call at a time and may end between any  *)
(* two steps.  Wallets on the same machine read the file at any moment.    *)
(* FullNode takes a call to be atomic, but for a crash that leaves the     *)
(* file torn; here is why it may.                                          *)
(***************************************************************************)
EXTENDS Ledger

CONSTANTS
    Content,         \* the contents of the blocks that are made
    Received,        \* the databases that neighbors send
    GenesisAddress,
    Reader,          \* processes that read the file
    MaxCalls, MaxCrashes

ASSUME BoundAssumption == MaxCalls \in Nat /\ MaxCrashes \in Nat
ASSUME ReceivedAssumption ==
    \A db \in Received : db \in Seq(Range(db)) /\ db # <<>>

VARIABLES
    file,            \* what the file holds
    db_file_path,    \* whether the path is set in the process
    call,            \* the call that is running
    seen,            \* what each reader read last,
    rollbacks,       \* not in the code: how often blocks were taken back,
    calls, crashes   \*   and how much of the bounds is used
vars == <<file, db_file_path, call, seen, rollbacks, calls, crashes>>

Genesis == GenesisBlock(GenesisAddress)

\* A file holds a pickled list of blocks, or one block, or the beginning of
\* a pickle.  Only the first is of use to a caller: the second has no length,
\* no last element and no pop, and the third cannot be read.
ListOf(blocks) == [holds |-> "list", blocks |-> blocks]
BlockAlone(block) == [holds |-> "block", blocks |-> <<block>>]
Torn == [holds |-> "torn", blocks |-> <<>>]

IsList(content) == content.holds = "list"

None == [block_content |-> <<>>, metadata |-> <<>>]
Idle == [pc |-> "idle", block |-> None, db |-> Torn]

\* The call goes on with these objects in memory.
Goes(pc, block, db) == call' = [pc |-> pc, block |-> block, db |-> db]

Begins ==
    /\ db_file_path
    /\ call = Idle
    /\ calls < MaxCalls
    /\ calls' = calls + 1
    /\ UNCHANGED <<file, db_file_path, seen, rollbacks, crashes>>

Continues(pc) ==
    /\ call.pc = pc
    /\ UNCHANGED <<db_file_path, seen, calls, crashes>>

-----------------------------------------------------------------------------
(* Making a block: validate_block, mine_block, add_block_to_db *)

\* A block that validate_block accepts.  (Where it raises nothing changes.)
MakeBlock(content) ==
    /\ Begins
    /\ IsList(file)
    /\ ValidateBlock(file.blocks, Block(content))
    /\ Goes("valid", Block(content), Torn)

\* mine_block.  The copy that it makes is shallow: copy and argument have their
\* metadata in common, and the loop, which hashes the argument, ends.
Mine ==
    /\ Continues("valid")
    /\ \E mined \in MineBlock(file.blocks, call.block) : Goes("mined", mined, Torn)
    /\ UNCHANGED <<file, rollbacks>>

\* add_block_to_db reads the last block, again, and overwrites the header.
LinkBlock ==
    /\ Continues("mined")
    /\ Goes("linked", Link(file.blocks, call.block), Torn)
    /\ UNCHANGED <<file, rollbacks>>

\* Mutant: the block is added to the last block only.
AppendBlockToLast ==
    /\ Continues("linked")
    /\ Goes("writing", call.block, ListOf(<<LastBlock(file.blocks), call.block>>))
    /\ UNCHANGED <<file, rollbacks>>

\* It reads the database, a third time, and appends to the list in memory.
AppendBlock ==
    /\ Continues("linked")
    /\ Goes("writing", call.block, ListOf(Append(file.blocks, call.block)))
    /\ UNCHANGED <<file, rollbacks>>

-----------------------------------------------------------------------------
(* The other calls that write.  A call that takes blocks back is           *)
(* "rewinding" where the others are "writing"; the code has no such flag.  *)

\* Mutant: >= for >.
ReceiveLatestDatabase(db) ==
    /\ Begins
    /\ IsList(file)
    /\ Len(db) >= Len(file.blocks)
    /\ Goes("writing", None, ListOf(db))

\* The consensus step of fullnode_processing: read, compare, write.
ReceiveDatabase(db) ==
    /\ Begins
    /\ IsList(file)
    /\ Len(db) > Len(file.blocks)
    /\ Goes("writing", None, ListOf(db))

\* Mutant: the chain is set back, and has no block.
AddNoBlock ==
    /\ Begins
    /\ Goes("rewinding", None, ListOf(<<>>))

AddGenesisBlock ==
    /\ Begins
    /\ Goes("rewinding", None, ListOf(<<Genesis>>))

\* pop returns the block that it removes, and this is what gets written.
RemoveLastBlockFromDb ==
    /\ Begins
    /\ IsList(file)
    /\ Goes("rewinding", None, BlockAlone(LastBlock(file.blocks)))

-----------------------------------------------------------------------------
(* write_to_db: open truncates the file, dump fills it *)

Truncate ==
    /\ \/ Continues("writing") /\ UNCHANGED rollbacks
       \/ Continues("rewinding") /\ rollbacks' = rollbacks + 1
    /\ file' = Torn
    /\ call' = [call EXCEPT !.pc = "truncated"]

Dump ==
    /\ Continues("truncated")
    /\ file' = call.db
    /\ call' = Idle
    /\ UNCHANGED rollbacks

-----------------------------------------------------------------------------
(* Processes *)

\* What a wallet reads when its read does not raise.
Read(r) ==
    /\ IsList(file)
    /\ seen' = [seen EXCEPT ![r] = [blocks |-> file.blocks, rollbacks |-> rollbacks]]
    /\ UNCHANGED <<file, db_file_path, call, rollbacks, calls, crashes>>

\* The process ends, between any two steps, and its memory with it.
Crash ==
    /\ db_file_path
    /\ crashes < MaxCrashes
    /\ crashes' = crashes + 1
    /\ db_file_path' = FALSE
    /\ call' = Idle
    /\ UNCHANGED <<file, seen, rollbacks, calls>>

\* The first statement of a new process that concerns the file.  A second one
\* raises.
InitDatabasePath ==
    /\ ~db_file_path
    /\ db_file_path' = TRUE
    /\ UNCHANGED <<file, call, seen, rollbacks, calls, crashes>>

\* Tests take the path back between two calls.
ReinitDatabasePath ==
    /\ db_file_path
    /\ call = Idle
    /\ db_file_path' = FALSE
    /\ UNCHANGED <<file, call, seen, rollbacks, calls, crashes>>

-----------------------------------------------------------------------------

Init ==
    /\ file = ListOf(<<Genesis>>)
    /\ db_file_path = FALSE
    /\ call = Idle
    /\ seen = [r \in Reader |-> [blocks |-> <<Genesis>>, rollbacks |-> 0]]
    /\ rollbacks = 0
    /\ calls = 0
    /\ crashes = 0

Next ==
    \/ \E content \in Content : MakeBlock(content)
    \/ Mine
    \/ LinkBlock
    \/ AppendBlock
    \/ \E db \in Received : ReceiveDatabase(db)
    \/ AddGenesisBlock
    \/ RemoveLastBlockFromDb
    \/ Truncate
    \/ Dump
    \/ \E r \in Reader : Read(r)
    \/ Crash
    \/ InitDatabasePath
    \/ ReinitDatabasePath

Spec == Init /\ [][Next]_vars

-----------------------------------------------------------------------------
(* Properties *)

IsContent(content) ==
    \/ content = Torn
    \/ /\ IsChain(content.blocks)
       /\ content.blocks # <<>>
       /\ content \in {ListOf(content.blocks), BlockAlone(content.blocks[1])}

\* The file holds a list that is not empty, one block, or the beginning of a
\* pickle, and so does what a call is about to write; a list that was read is
\* not empty.
TypeOK ==
    /\ IsContent(file) /\ IsContent(call.db)
    /\ db_file_path \in BOOLEAN
    /\ call = [pc |-> call.pc, block |-> call.block, db |-> call.db]
    /\ call.pc \in {"idle", "valid", "mined", "linked", "writing", "rewinding", "truncated"}
    /\ seen = [r \in Reader |-> [blocks |-> seen[r].blocks, rollbacks |-> seen[r].rollbacks]]
    /\ \A r \in Reader : seen[r].blocks # <<>> /\ seen[r].rollbacks \in Nat
    /\ rollbacks \in Nat /\ calls \in 0..MaxCalls /\ crashes \in 0..MaxCrashes

\* The header is filled in twice, from two reads of the database, and the hash
\* is searched for after the first.  It still meets the target after the second.
MinedStaysMined ==
    call.pc \in {"mined", "linked"} =>
        /\ MeetsTarget(BlockHash(call.block))
        /\ call.block.metadata.prev_block_hash = BlockHash(LastBlock(file.blocks))

\* Whoever is not writing finds a file torn only while another process is
\* writing it, or after one has crashed.
TornHasCause == file = Torn => call.pc = "truncated" \/ crashes > 0

\* Between two calls that take blocks back, no wallet ever reads a chain that is not longer than
\* the one it read before, unless it is the same: last_block_height, which only
\* compares heights, sees every change.
ReaderSeesGrowth ==
    [][\A r \in Reader :
         seen'[r].rollbacks = seen[r].rollbacks =>
             seen'[r].blocks = seen[r].blocks \/ Len(seen'[r].blocks) > Len(seen[r].blocks)]_vars

\* What the chain is taken to be: a list that is being written counts as
\* written as soon as the old one is gone.
ChainIn(content) == IF IsList(content) THEN content.blocks ELSE <<>>
StoredChain == ChainIn(IF call.pc = "truncated" THEN call.db ELSE file)

\* Extends(c, d): d is what the calls in process make of c and some content.
MadeOf(chain, extended) ==
    \E content \in Content :
        /\ ValidateBlock(chain, Block(content))
        /\ \E mined \in MineBlock(chain, Block(content)) : extended = AddBlockToDb(chain, mined)

Abstract == INSTANCE Store WITH
    First <- <<Genesis>>, Lost <- <<>>, Extends <- MadeOf,
    chain <- StoredChain, ends <- crashes

\* Four reads, a truncation and a write by one process are one step of the
\* file: it holds the old chain, then the new one.  It is lost only by a process
\* that ends, or by a call that was to take blocks back.
ImplementsStore == Abstract!Spec

\* "Removes the last block from the database": a call that takes blocks back
\* leaves the chain without its last block, or resets it.  It does not: what is
\* written is the block that was removed.
LastBlockRemoved ==
    [][rollbacks' # rollbacks =>
         StoredChain' \in {<<Genesis>>, SubSeq(StoredChain, 1, Len(StoredChain) - 1)}]_vars

=============================================================================
