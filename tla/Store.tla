-------------------------------- MODULE Store --------------------------------
(***************************************************************************)
(* What a database file promises to those who call it: it holds one chain, *)
(* and a call changes it at once or not at all.  A call extends it by a    *)
(* block, replaces it by a longer chain, sets it back to its first block,  *)
(* or takes its last block off.  A process that ends can lose it, and what *)
(* is lost is back only when it is reset.                                  *)
(***************************************************************************)
EXTENDS Naturals, Sequences

CONSTANTS
    First,           \* the chain the file is created with
    Lost,            \* what is read of a chain that was lost
    Extends(_, _)    \* Extends(c, d): d is c and one valid block more

VARIABLES
    chain,           \* the chain that the file holds
    rollbacks,       \* how often blocks were taken back
    ends             \* how often a process ended

Init == chain = First /\ rollbacks = 0 /\ ends = 0

Extend  == chain # Lost /\ Extends(chain, chain') /\ UNCHANGED <<rollbacks, ends>>
Replace == chain # Lost /\ Len(chain') > Len(chain) /\ UNCHANGED <<rollbacks, ends>>

TakesBack == rollbacks' = rollbacks + 1 /\ UNCHANGED ends

Reset == TakesBack /\ chain' = First

\* The docstring has the chain without its last block.  The code loses the
\* chain; the run of LastBlockRemoved shows it.
Remove ==
    /\ TakesBack
    /\ chain # Lost
    /\ chain' \in {SubSeq(chain, 1, Len(chain) - 1), Lost}

End == ends' = ends + 1 /\ chain' \in {chain, Lost} /\ UNCHANGED rollbacks

Next == Extend \/ Replace \/ Reset \/ Remove \/ End

Spec == Init /\ [][Next]_<<chain, rollbacks, ends>>

=============================================================================
