------------------------- MODULE CumulativeTransfer -------------------------
(***************************************************************************)
(* What a DAG upload promises, whatever the peer, the window and the       *)
(* network do: packets are delivered in order, acknowledgments are         *)
(* cumulative and cover delivered packets only, no more than the agreed    *)
(* number of packets is unacknowledged, and success is reported only when  *)
(* everything is acknowledged.                                             *)
(***************************************************************************)
EXTENDS Integers

CONSTANTS
    Lengths,   \* the numbers of packets of the uploads, natural numbers
    MaxLimit   \* the largest window a peer may grant, at least 1

VARIABLES
    length,     \* packets to transfer
    sentCount,  \* packets handed to the network, in order
    delivered,  \* packets the receiver has verified and stored, in order
    acked,      \* packets the sender knows to be delivered
    limit,      \* packets that may be sent and not acknowledged
    outcome     \* what the sender reports

transferVars == <<length, sentCount, delivered, acked, limit, outcome>>

Init ==
    /\ length \in Lengths
    /\ sentCount = 0
    /\ delivered = 0
    /\ acked = 0
    /\ limit = 1
    /\ outcome = "running"

Send ==
    /\ outcome = "running"
    /\ sentCount < length
    /\ sentCount - acked < limit
    /\ sentCount' = sentCount + 1
    /\ UNCHANGED <<length, delivered, acked, limit, outcome>>

\* A receiver may go on storing what is on its way after the sender gave up.
Deliver ==
    /\ delivered < sentCount
    /\ delivered' = delivered + 1
    /\ UNCHANGED <<length, sentCount, acked, limit, outcome>>

\* The acknowledgment of the first packet may grant a larger window.
Acknowledge ==
    /\ outcome = "running"
    /\ acked' \in (acked + 1)..delivered
    /\ \/ limit' = limit
       \/ acked = 0 /\ limit' \in 1..MaxLimit
    /\ UNCHANGED <<length, sentCount, delivered, outcome>>

Succeed ==
    /\ outcome = "running"
    /\ length > 0
    /\ acked = length
    /\ outcome' = "ok"
    /\ UNCHANGED <<length, sentCount, delivered, acked, limit>>

Fail ==
    /\ outcome = "running"
    /\ outcome' = "err"
    /\ UNCHANGED <<length, sentCount, delivered, acked, limit>>

Next == Send \/ Deliver \/ Acknowledge \/ Succeed \/ Fail

Spec == Init /\ [][Next]_transferVars
=============================================================================
