------------------------------ MODULE MCWallet ------------------------------
(***************************************************************************)
(* Small instances of Wallet for TLC: two wallets, one or two full nodes.  *)
(***************************************************************************)
EXTENDS Wallet, TLC

MCSeed == {"a", "b"}
MCGenesisAddress == GetAddress("a")

CONSTANTS h1, h2
MCOneNode    == {h1}
MCTwoNodes   == {h1, h2}
MCOneNodeOf  == "a" :> h1 @@ "b" :> h1
MCTwoNodesOf == "a" :> h1 @@ "b" :> h2

MCAmount == {-50, 50}

MCPrivate == {}
MCSharing == {"a"}

MCNonce == {0}
MCMeetsTarget(hash) == TRUE

=============================================================================
