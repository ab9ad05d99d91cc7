------------------------------ MODULE Transfer ------------------------------
(***************************************************************************)
(* What a connection promises, and what the rounds of FullNode take a      *)
(* connection to be: a message is fixed when its sending begins, at some   *)
(* time all of it has been handed over, and after that the receiver has    *)
(* it whole, once, and unchanged.  Until then it may be lost, and then it  *)
(* is lost whole.                                                          *)
(***************************************************************************)
EXTENDS Naturals, Sequences

CONSTANT Channel     \* each carries one message, in one direction

VARIABLES
    status,          \* how far the message of a channel has come
    message,         \* the message, a sequence of at most one
    received         \* what the receiver has, likewise
vars == <<status, message, received>>

Init ==
    /\ status = [c \in Channel |-> "idle"]
    /\ message = [c \in Channel |-> <<>>]
    /\ received = [c \in Channel |-> <<>>]

Moves(c, from, to) ==
    /\ status[c] \in from
    /\ status' = [status EXCEPT ![c] = to]

\* With its first piece a message may be handed over, and may be lost.
Begin(c) ==
    /\ \E to \in {"outgoing", "incoming", "lost"} : Moves(c, {"idle"}, to)
    /\ Len(message'[c]) = 1
    /\ message' = [message EXCEPT ![c] = message'[c]]
    /\ UNCHANGED received

HandOver(c) ==
    /\ Moves(c, {"outgoing"}, "incoming")
    /\ UNCHANGED <<message, received>>

Receive(c) ==
    /\ Moves(c, {"incoming"}, "received")
    /\ received' = [received EXCEPT ![c] = message[c]]
    /\ UNCHANGED message

\* A process that ends loses what is on all of its connections.
Lose ==
    /\ \E lost \in SUBSET {c \in Channel : status[c] \in {"outgoing", "incoming"}} :
          status' = [c \in Channel |-> IF c \in lost THEN "lost" ELSE status[c]]
    /\ UNCHANGED <<message, received>>

Next == Lose \/ \E c \in Channel : Begin(c) \/ HandOver(c) \/ Receive(c)

Spec == Init /\ [][Next]_vars

=============================================================================
