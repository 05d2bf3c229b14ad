------------------------------ MODULE Transfer ------------------------------
(***************************************************************************)
(* Both ends of the batched transfer: the sender of UploadSender and the   *)
(* receive loop of PacketReceiver, on one stream.                          *)
(*                                                                         *)
(* The relay that receives an upload is not part of this repository. It is *)
(* taken to run the receive loop of this package, as a relay that imports  *)
(* it does; a relay older than the window protocol runs the same loop and  *)
(* does not see the packet counters (oldPeer).                             *)
(*                                                                         *)
(* Sent messages stay in sent and taken counts those the receiver has      *)
(* read, so a message may be read after the sender is gone. What the       *)
(* receiver writes is in replies, which is the fromPeer of the sender.     *)
(***************************************************************************)
EXTENDS TransferWindow, Sequences, FiniteSets

CONSTANTS Dags, MaxPackets, Owner, NoKey

\* Dags and MaxPackets are what UploadSender assumes of them, and MaxPackets
\* bounds the packets of one upload.
ASSUME TransferAssumption ==
    /\ MaxPackets \in Nat \ {0}
    /\ \A d \in Dags :
           /\ d.n \in 0..MaxPackets
           /\ d.offset \in [0..d.n -> Nat]
           /\ \A i, j \in 0..d.n : i < j => d.offset[i] < d.offset[j]
           /\ d.consistent \in BOOLEAN

VARIABLES
    dag, pc, sent, nextPacket, highestAck, inFlight, inFlightBytes, window,
    progress, report, reader, remaining, held, ackResults, closed, ctxDone,
    rpc, publicKey, signature, total, next, windowed, finalized, seenLeaves,
    leafs, accepted, verified, replies,
    taken,     \* messages of the sender the receiver has read
    oldPeer,   \* the receiver does not know the window protocol
    faulty     \* faults may happen in this run; never changes

\* The leaf of packet i is named i, and leaf 0 is the root.
LeafNames == 0..(MaxPackets - 1)

(***************************************************************************)
(* The upload message u as the receiver decodes it. To an old peer the     *)
(* counters do not exist, which reads as zero.                             *)
(***************************************************************************)
Wire(u, old) ==
    [root |-> 0,
     publicKey |-> IF u.signed THEN Owner ELSE NoKey,
     signature |-> IF u.signed THEN Owner ELSE NoKey,
     final |-> u.final,
     index |-> IF old THEN 0 ELSE u.index,
     total |-> IF old THEN 0 ELSE u.total,
     leaves |-> <<u.index>>,
     parents |-> [h \in {u.index} |-> IF h = 0 THEN -1 ELSE 0],
     rootLeaf |-> IF u.index = 0 THEN 0 ELSE -1]

WireMessages ==
    {Wire(u, old) : u \in [index : LeafNames, total : {d.n : d \in Dags},
                           final : BOOLEAN, signed : BOOLEAN],
                    old \in BOOLEAN}

S == INSTANCE UploadSender WITH
         fromPeer <- replies,
         Responses <- ResponseMessage,
         MaxPending <- MaxPackets

R == INSTANCE PacketReceiver WITH
         Hashes <- LeafNames, Root <- 0, NoHash <- -1, Keys <- {Owner},
         Messages <- WireMessages

\* closed and replies belong to both ends.
senderOnly == <<dag, pc, sent, nextPacket, highestAck, inFlight, inFlightBytes,
                window, progress, report, reader, remaining, held, ackResults,
                ctxDone>>
receiverOnly == <<rpc, publicKey, signature, total, next, windowed, finalized,
                  seenLeaves, leafs, accepted, verified, taken>>
setting == <<oldPeer, faulty>>
vars == <<senderOnly, receiverOnly, closed, replies, setting>>

Init ==
    /\ S!Init /\ R!Init /\ taken = 0
    /\ oldPeer \in BOOLEAN /\ faulty \in BOOLEAN
-----------------------------------------------------------------------------
\* A step of the sender's side leaves the receiver alone.
Sender(A) == A /\ UNCHANGED <<receiverOnly, setting>>

\* DownloadDag closes the stream when it returns.
ClosesOnReturn == closed' = (closed \/ rpc' \in {"done", "failed"})

\* A step of the receiver leaves the sender alone.
Receiver(A) ==
    /\ A
    /\ ClosesOnReturn
    /\ UNCHANGED <<senderOnly, setting>>

\* The receiver reads the next message and handles it. applied and whole are
\* the verdicts of the DAG library.
Deliver(applied, whole) ==
    /\ rpc \in {"first", "next"}
    /\ taken < Len(sent)
    /\ taken' = taken + 1
    /\ Receiver(R!Receive(Wire(sent[taken + 1], oldPeer), applied, whole))

DeliverAckFails(whole) ==
    /\ rpc \in {"first", "next"}
    /\ taken < Len(sent)
    /\ taken' = taken + 1
    /\ Receiver(R!AckFails(Wire(sent[taken + 1], oldPeer), whole))

\* The stream is closed and everything written to it was read.
EndOfStream == closed /\ taken = Len(sent)

Request == Receiver(R!Request) /\ UNCHANGED taken
Reported == Receiver(R!Reported) /\ UNCHANGED taken
ReceiverFails == Receiver(R!ReceiveFails \/ R!RequestFails) /\ UNCHANGED taken

\* The transfer when the network, the caller and the DAG library are fine.
CleanNext ==
    \/ Sender(S!SenderStep)
    \/ Sender(S!ReaderStep)
    \/ Sender(S!Consume)
    \/ Request
    \/ Deliver(TRUE, TRUE)
    \/ Reported
    \/ EndOfStream /\ ReceiverFails

Fault ==
    /\ faulty
    /\ \/ Sender(S!SenderFault)
       \/ Sender(S!ReaderFails)
       \/ Sender(S!StreamBreaks)
       \/ Sender(S!Cancel)
       \/ \E applied, whole \in BOOLEAN : Deliver(applied, whole)
       \/ \E whole \in BOOLEAN : DeliverAckFails(whole)
       \/ ReceiverFails

Next == CleanNext \/ Fault

(***************************************************************************)
(* Each goroutine comes to its next step, or to a failure where there are  *)
(* faults, and the consumers of the progress reports keep receiving. The   *)
(* network only promises to deliver where there are none.                  *)
(***************************************************************************)
Fairness ==
    /\ WF_vars(Sender(S!SenderStep \/ (faulty /\ S!SenderFault)))
    /\ WF_vars(Sender(S!ReaderStep \/ (faulty /\ S!ReaderFails)))
    /\ WF_vars(Sender(S!Consume))
    /\ WF_vars(Request)
    /\ WF_vars(Reported)
    /\ WF_vars(~faulty /\ Deliver(TRUE, TRUE))
    /\ WF_vars((faulty \/ EndOfStream) /\ ReceiverFails)

Spec == Init /\ [][Next]_vars /\ Fairness
-----------------------------------------------------------------------------
(* Correctness.                                                            *)

\* Acknowledgments that are on their way to readAck, oldest first.
AcksUnderway ==
    ackResults \o (IF reader = "offering" THEN <<held>> ELSE <<>>) \o replies

\* An acknowledgment never runs ahead of the receiver, wherever it is: what
\* the sender reports as progress, and every answer still under way, covers
\* packets the receiver has verified and committed.
AckMeansVerified ==
    /\ progress < Len(accepted)
    /\ \A i \in DOMAIN AcksUnderway :
           AcksUnderway[i].ok => AcksUnderway[i].message.index < Len(accepted)

\* When the upload reports success the receiver holds the whole DAG: all its
\* packets committed, the final one included, and the DAG verified.
SuccessMeansFinalized ==
    pc \in {"returnOk", "ok"} =>
        /\ finalized /\ verified
        /\ Len(accepted) = dag.n
        /\ leafs = 0..(dag.n - 1)

\* The readers that are made for one answer, and replaced by another reader
\* afterwards, lose nothing: when one of them reads there is no second answer
\* it could read ahead, and the stream is empty when the last is replaced.
NoAckDiscarded ==
    /\ pc \in {"rootAck", "legacyAck"} => Len(replies) <= 1
    /\ pc \in {"legacy", "launch"} => replies = <<>>

\* The buffer of ackResults is large enough: the acknowledgment goroutine
\* always finds room for its answer and so never has to wait for readAck.
AckBufferSuffices ==
    reader = "offering" => Len(ackResults) < S!AckCapacity

\* Both ends come to an end, one way or the other; and without a fault both
\* succeed, windowed or legacy.
BothEnd ==
    /\ <>(pc \in {"ok", "err"} /\ rpc \in {"done", "failed"})
    /\ S!SequenceOK /\ ~faulty ~> pc = "ok" /\ rpc = "done"

\* The abstract transfer this protocol implements.
Abstract == INSTANCE CumulativeTransfer WITH
    Lengths <- {d.n : d \in Dags},
    MaxLimit <- MaxWindowPackets,
    length <- dag.n,
    sentCount <- Len(sent),
    delivered <- Len(accepted),
    acked <- progress + 1,
    limit <- IF window.packets = 0 THEN 1 ELSE window.packets,
    outcome <- IF pc \in {"ok", "err"} THEN pc ELSE "running"

ImplementsCumulativeTransfer == Abstract!Spec
-----------------------------------------------------------------------------
(* The inductive invariant behind the safety properties, in named parts.   *)

\* The packets the receiver may have acknowledged: those it committed, but not
\* the last one of a DAG that did not verify.
Covered == IF finalized /\ ~verified THEN Len(accepted) - 1 ELSE Len(accepted)

ReceiverTypeOK ==
    /\ rpc \in {"start", "first", "next", "report", "done", "failed"}
    /\ accepted \in Seq(WireMessages)
    /\ windowed \in BOOLEAN /\ finalized \in BOOLEAN /\ verified \in BOOLEAN
    /\ oldPeer \in BOOLEAN /\ faulty \in BOOLEAN

\* Where the receiver stands in the packets of the sender: it commits what it
\* reads, one by one, until it fails.
ReceiverCursors ==
    /\ Len(sent) <= dag.n
    /\ taken \in 0..Len(sent)
    /\ Len(accepted) <= taken /\ next = Len(accepted)
    /\ rpc \in {"start", "first"} => taken = 0
    /\ rpc \in {"next", "report", "done"} => taken = Len(accepted)
    /\ windowed <=> accepted # <<>> /\ ~oldPeer
    /\ finalized <=> accepted # <<>> /\ Len(accepted) = dag.n
    /\ leafs = 0..(Len(accepted) - 1)

\* An answer that is not a refusal is the acknowledgment of a covered packet.
Genuine(a) == a.ok => \E k \in 1..Covered : a = R!acknowledgment(k, ~oldPeer)

AnswersGenuine ==
    /\ progress + 1 <= Covered
    /\ \A i \in DOMAIN ackResults : Genuine(ackResults[i])
    /\ Genuine(held)
    /\ \A i \in DOMAIN replies : Genuine(replies[i])
    /\ \A i \in DOMAIN replies : ~replies[i].ok => rpc = "failed"

\* Before the acknowledgment goroutine exists each message read by the receiver
\* is worth one answer, and the answers are to the packets after progress.
StopAndWait ==
    pc \in {"start", "rootAck", "legacy", "legacyAck", "launch"} =>
        /\ progress + 1 + Len(replies) <= taken
        /\ rpc # "failed" => progress + 1 + Len(replies) = taken
        /\ \A i \in DOMAIN replies : replies[i].ok => progress + 1 + i <= Covered
        /\ pc = "launch" => ~oldPeer

\* The answers that go through the acknowledgment goroutine, in the order they
\* will be taken: what ackResults holds, what is offered, what is unread.
Offered == IF reader = "offering" /\ held.ok THEN 1 ELSE 0

StillInOrder == reader = "offering" => held.ok

Pipeline ==
    reader \in {"reading", "offering"} =>
        /\ ~oldPeer /\ window.packets > 0
        /\ progress + 1 + Len(ackResults) + Offered + Len(replies) <= taken
        /\ pc = "window" =>
               /\ \A i \in DOMAIN ackResults :
                      ackResults[i].ok /\ ackResults[i].message.index = progress + i
               /\ reader = "offering" /\ held.ok =>
                      held.message.index = progress + Len(ackResults) + 1
               /\ StillInOrder =>
                      /\ rpc # "failed" =>
                             progress + 1 + Len(ackResults) + Offered + Len(replies)
                                 = taken
                      /\ \A i \in DOMAIN replies : replies[i].ok =>
                             replies[i].message.index =
                                 progress + Len(ackResults) + Offered + i

IInv ==
    /\ S!IInv
    /\ ReceiverTypeOK /\ ReceiverCursors
    /\ AnswersGenuine /\ StopAndWait /\ Pipeline
=============================================================================
