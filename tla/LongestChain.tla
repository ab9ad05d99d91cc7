---------------------------- MODULE LongestChain ----------------------------
(***************************************************************************)
(* What the full nodes promise together: everybody holds one chain, and it *)
(* changes in two ways only.  Its holder adds one valid block to it, or    *)
(* replaces it by a strictly longer chain that some holder made that way   *)
(* and sent.  Chains in transit may be lost, and so may a holder's own     *)
(* chain, for good.  How blocks are made and how chains travel is left to  *)
(* the implementation, and so is when.                                     *)
(***************************************************************************)
EXTENDS Naturals, Sequences

CONSTANTS
    Holder,
    First,           \* the chain everybody starts with
    Lost,            \* what is left of a chain that was lost
    Extends(_, _)    \* Extends(c, d): d is c and one valid block more

VARIABLES chain, transit
vars == <<chain, transit>>

Init ==
    /\ chain = [h \in Holder |-> First]
    /\ transit = {}

\* h goes on with some other chain, and nobody else does.
Becomes(h, c) == chain' = [chain EXCEPT ![h] = c]

Extend(h) ==
    /\ chain[h] # Lost
    /\ Extends(chain[h], chain'[h])
    /\ Becomes(h, chain'[h])
    /\ transit' \subseteq transit \cup {chain'[h]}

Adopt(h) ==
    /\ chain[h] # Lost
    /\ \E longer \in transit : Len(longer) > Len(chain[h]) /\ Becomes(h, longer)
    /\ transit' \subseteq transit

Lose(h) ==
    /\ Becomes(h, Lost)
    /\ transit' \subseteq transit

Miss ==
    /\ transit' \subseteq transit
    /\ UNCHANGED chain

Next == Miss \/ \E h \in Holder : Extend(h) \/ Adopt(h) \/ Lose(h)

Spec == Init /\ [][Next]_vars

=============================================================================
