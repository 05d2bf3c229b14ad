--------------------------- MODULE MCUploadSender ---------------------------
(***************************************************************************)
(* UploadSender on small packet sequences, with a peer that answers any of *)
(* a set of well-formed, malformed and rejecting acknowledgments at any    *)
(* time.                                                                   *)
(***************************************************************************)
EXTENDS UploadSender

CONSTANT MaxN  \* bound: packets of the longest sequence

MCAck(i, p, b) ==
    [ok |-> TRUE,
     message |-> [proto |-> "v1", index |-> i, packets |-> p, bytes |-> b]]

\* Packet sizes 1, 1, 2, 5: packets 1 and 2 fill a window of 3 bytes, and
\* packet 3 is larger than the window.
MCOffset(n) == [i \in 0..n |-> CASE i < 3 -> i [] i = 3 -> 4 [] OTHER -> 9]

MCDags ==
    {[n |-> n, offset |-> MCOffset(n), consistent |-> TRUE] : n \in {0, 1, MaxN}}
    \cup {[n |-> 2, offset |-> MCOffset(2), consistent |-> FALSE]}

\* Answers for a window of 2 packets and 3 bytes, one that offers a window of
\* a single packet, whose ackResults holds two results while the goroutine may
\* read three, a refusal and the acknowledgment of a legacy peer.
MCResponses ==
    {MCAck(i, 2, 3) : i \in 0..(MaxN - 1)}
    \cup {MCAck(0, 1, 3), Rejection, [ok |-> TRUE, message |-> LegacyAck]}
=============================================================================
