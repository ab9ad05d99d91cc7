------------------------- MODULE MCClientConnection -------------------------
(***************************************************************************)
(* Small instances of ClientConnection for TLC: messages of a few bytes,   *)
(* and an answer that grows with the database.                             *)
(***************************************************************************)
EXTENDS ClientConnection

CONSTANTS b1, r1
MCBroadcast == {b1}
MCRequest   == {r1}

MCDatabaseLength(blocks) == blocks + 1

MCOneByte(blocks) == 1

=============================================================================
