----------------------------- MODULE MCTransfer -----------------------------
(***************************************************************************)
(* Transfer on uploads of no, one and several packets, one of them larger  *)
(* than the byte window.                                                   *)
(***************************************************************************)
EXTENDS Transfer

\* Packet sizes 1, 1, 1, 1, 5, 1, 1: the packet limit of the window stops
\* packet 3, the byte limit packet 4 and, behind it, packet 5.
MCOffset(n) == [i \in 0..n |-> IF i < 5 THEN i ELSE i + 4]

MCDags ==
    {[n |-> n, offset |-> MCOffset(n), consistent |-> TRUE] :
        n \in {0, 1, 2, MaxPackets}}
    \cup {[n |-> 2, offset |-> MCOffset(2), consistent |-> FALSE]}
=============================================================================
