--------------------------- MODULE TransferWindow ---------------------------
(***************************************************************************)
(* The acknowledgment of the batched transfer protocol: what a receiver    *)
(* writes into ResponseMessage.Message and how a sender reads it           *)
(* (lib/connmgr/transfer_window.go).                                       *)
(*                                                                         *)
(* The text "scionic-window/1 <index> <packets> <bytes>" is a record here. *)
(* Field proto says which text it is:                                      *)
(*   "none"   it does not start with "scionic-window/" (a legacy peer);    *)
(*   "v1"     four fields, the first one "scionic-window/1", and the other *)
(*            three decimal integers, of any value;                        *)
(*   "other"  it starts with "scionic-window/" but is not of that form.    *)
(***************************************************************************)
EXTENDS Integers

CONSTANTS
    WindowPackets,      \* transferWindowPackets, 16 in the code
    WindowBytes,        \* transferWindowBytes, 32 MiB in the code
    MaxWindowPackets,   \* maximumWindowPackets, 64 in the code
    MaxWindowBytes      \* maximumWindowBytes, 256 MiB in the code

ASSUME WindowAssumption ==
    /\ MaxWindowPackets \in Nat
    /\ MaxWindowBytes \in Nat
    /\ WindowPackets \in 1..MaxWindowPackets
    /\ WindowBytes \in 1..MaxWindowBytes

AckMessage ==
    [proto : {"none", "v1", "other"}, index : Int, packets : Int, bytes : Int]

ResponseMessage == [ok : BOOLEAN, message : AckMessage]

\* The empty Message of a peer that does not speak the window protocol.
LegacyAck == [proto |-> "none", index |-> 0, packets |-> 0, bytes |-> 0]

encodeTransferWindowAck(index) ==
    [proto |-> "v1", index |-> index,
     packets |-> WindowPackets, bytes |-> WindowBytes]

\* The three results of the parser: not window metadata, an error, an ack.
parseTransferWindowAck(m) ==
    IF m.proto = "none" THEN "legacy"
    ELSE IF /\ m.proto = "v1"
            /\ m.index >= 0
            /\ m.packets \in 1..MaxWindowPackets
            /\ m.bytes \in 1..MaxWindowBytes
         THEN "ack"
         ELSE "malformed"

\* Every error of a read or of a rejecting peer ends the upload the same way:
\* a failed read is delivered as a response that is not Ok.
Rejection == [ok |-> FALSE, message |-> LegacyAck]
=============================================================================
