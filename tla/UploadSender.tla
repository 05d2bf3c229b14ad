---------------------------- MODULE UploadSender ----------------------------
(***************************************************************************)
(* One call of UploadDagSingle (lib/connmgr/upload.go): the caller's       *)
(* goroutine inside sendBatchedUpload (lib/connmgr/transfer_window.go),    *)
(* the goroutine it starts to read cumulative acknowledgments, the         *)
(* consumer of the progress channel, and a peer that may answer anything.  *)
(*                                                                         *)
(* Packet 0 (the root) is sent alone. If its acknowledgment carries no     *)
(* window the remaining packets are sent one by one, each waiting for its  *)
(* answer; otherwise up to window.packets packets are pipelined.           *)
(*                                                                         *)
(* A message of the peer is read whole or not at all: decoding, retries    *)
(* and timeouts of one read are abstracted to "a message" or "an error".   *)
(***************************************************************************)
EXTENDS TransferWindow, Sequences, FiniteSets

CONSTANTS
    Dags,        \* the packet sequences that may be uploaded, see DagAssumption
    Responses,   \* the answers the peer may give
    MaxPending   \* bound: answers of the peer not read yet

(***************************************************************************)
(* A packet sequence: n packets, packet i (from 0, as in the code) taking  *)
(* bytes offset[i] .. offset[i+1] of the whole, so that the size of a run  *)
(* of packets is a difference. transferPacketSize is at least 128 for any  *)
(* packet, hence positive. consistent is FALSE when a packet is nil or its *)
(* PacketIndex or TotalPackets is not its place in the sequence.           *)
(***************************************************************************)
ASSUME DagAssumption ==
    \A d \in Dags :
        /\ d.n \in Nat
        /\ d.offset \in [0..d.n -> Nat]
        /\ \A i, j \in 0..d.n : i < j => d.offset[i] < d.offset[j]
        /\ d.consistent \in BOOLEAN

ASSUME PeerAssumption ==
    /\ Responses \subseteq ResponseMessage
    /\ MaxPending \in Nat

VARIABLES
    dag,            \* the sequence being uploaded; never changes
    pc,             \* where the caller's goroutine is
    sent,           \* history: every upload message handed to the stream
    nextPacket,     \* nextPacket, or the loop index of the legacy path
    highestAck,     \* highestAck
    inFlight,       \* the keys of inFlightSizes
    inFlightBytes,  \* inFlightBytes
    window,         \* ack.Packets and ack.Bytes, 0 until negotiated
    progress,       \* the packet index of the last onAck call, -1 before
    report,         \* the caller is blocked in onAck, sending to progressChan
    reader,         \* where the acknowledgment goroutine is
    remaining,      \* its loop counter
    held,           \* the result it offers to ackResults
    ackResults,     \* the buffered channel ackResults
    fromPeer,       \* what the peer wrote and nobody read
    closed,         \* the stream was closed, by either side or by the network
    ctxDone         \* the caller's context was cancelled

mainVars == <<dag, pc, sent, nextPacket, highestAck, inFlight, inFlightBytes,
              window, progress, report>>
readerVars == <<reader, remaining, held, ackResults>>
netVars == <<fromPeer, closed, ctxDone>>
vars == <<mainVars, readerVars, netVars>>

N == dag.n
Size(i) == dag.offset[i + 1] - dag.offset[i]

\* The wire form of packet i: only the root packet is signed.
UploadMessage(i) ==
    [index |-> i, total |-> N, final |-> i = N - 1, signed |-> i = 0]

UploadMessages ==
    [index : Nat, total : Nat, final : BOOLEAN, signed : BOOLEAN]

\* sendBatchedUpload has returned, which also closed its channel done.
Returned == pc \in {"returnOk", "returnErr", "ok", "err"}

Init ==
    /\ dag \in Dags
    /\ pc = "start"
    /\ sent = <<>>
    /\ nextPacket = 0
    /\ highestAck = 0
    /\ inFlight = {}
    /\ inFlightBytes = 0
    /\ window = [packets |-> 0, bytes |-> 0]
    /\ progress = -1
    /\ report = FALSE
    /\ reader = "off"
    /\ remaining = 0
    /\ held = Rejection
    /\ ackResults = <<>>
    /\ fromPeer = <<>>
    /\ closed = FALSE
    /\ ctxDone = FALSE
-----------------------------------------------------------------------------
(* The caller's goroutine.                                                 *)

SequenceOK == N > 0 /\ dag.consistent

\* UploadDagSingle fails before sendBatchedUpload: no stream, no private key,
\* or a signature that cannot be made or verified.
SigningFails ==
    /\ pc = "start"
    /\ pc' = "err"
    /\ closed' = TRUE
    /\ UNCHANGED <<dag, sent, nextPacket, highestAck, inFlight, inFlightBytes,
                   window, progress, report, readerVars, fromPeer, ctxDone>>

RejectSequence ==
    /\ pc = "start"
    /\ ~SequenceOK
    /\ pc' = "returnErr"
    /\ UNCHANGED <<dag, sent, nextPacket, highestAck, inFlight, inFlightBytes,
                   window, progress, report, readerVars, netVars>>

\* writePacket(nextPacket) succeeds.
WritePacket ==
    /\ ~closed
    /\ sent' = Append(sent, UploadMessage(nextPacket))
    /\ nextPacket' = nextPacket + 1

WriteRoot ==
    /\ pc = "start"
    /\ SequenceOK
    /\ WritePacket
    /\ pc' = "rootAck"
    /\ UNCHANGED <<dag, highestAck, inFlight, inFlightBytes, window, progress,
                   report, readerVars, netVars>>

(***************************************************************************)
(* Read one answer with a MessageReader made for it alone. Its decoder may *)
(* have read ahead; what it read beyond the first message goes with it.    *)
(***************************************************************************)
ReadWithFreshReader ==
    /\ fromPeer # <<>>
    /\ \E k \in 1..Len(fromPeer) :
           fromPeer' = SubSeq(fromPeer, k + 1, Len(fromPeer))
    /\ UNCHANGED <<closed, ctxDone>>

\* Mutant: the acknowledgment of the root is believed whatever it covers.
RootAckUnchecked ==
    /\ pc = "rootAck"
    /\ ReadWithFreshReader
    /\ LET r == Head(fromPeer) IN
       /\ r.ok /\ parseTransferWindowAck(r.message) = "ack"
       /\ progress' = 0
       /\ report' = TRUE
       /\ highestAck' = r.message.index
       /\ window' = [packets |-> r.message.packets, bytes |-> r.message.bytes]
       /\ IF N = 1
          THEN pc' = "returnOk"
          ELSE pc' = "launch"
    /\ UNCHANGED <<dag, sent, nextPacket, inFlight, inFlightBytes, readerVars>>

(***************************************************************************)
(* The answer to the root packet decides the rest of the upload. onAck(0)  *)
(* is called before the index of a window acknowledgment is looked at.     *)
(***************************************************************************)
RootAck ==
    /\ pc = "rootAck"
    /\ ReadWithFreshReader
    /\ LET r == Head(fromPeer)
           kind == parseTransferWindowAck(r.message)
       IN \/ /\ ~r.ok \/ kind = "malformed"
             /\ pc' = "returnErr"
             /\ UNCHANGED <<progress, report, window>>
          \/ /\ r.ok /\ kind # "malformed"
             /\ progress' = 0
             /\ report' = TRUE
             /\ \/ /\ kind = "legacy"
                   /\ pc' = IF N = 1 THEN "returnOk" ELSE "legacy"
                   /\ UNCHANGED window
                \/ /\ kind = "ack" /\ r.message.index # 0
                   /\ pc' = "returnErr"
                   /\ UNCHANGED window
                \/ /\ kind = "ack" /\ r.message.index = 0
                   /\ pc' = IF N = 1 THEN "returnOk" ELSE "launch"
                   /\ window' = [packets |-> r.message.packets,
                                 bytes |-> r.message.bytes]
    /\ UNCHANGED <<dag, sent, nextPacket, highestAck, inFlight, inFlightBytes,
                   readerVars>>

\* Mutant: the packets of a legacy transfer are pipelined.
LegacyPipelined ==
    /\ pc = "legacy"
    /\ ~report
    /\ WritePacket
    /\ pc' = IF nextPacket' = N THEN "legacyAck" ELSE "legacy"
    /\ UNCHANGED <<dag, highestAck, inFlight, inFlightBytes, window, progress,
                   report, readerVars, netVars>>

LegacyWrite ==
    /\ pc = "legacy"
    /\ ~report
    /\ WritePacket
    /\ pc' = "legacyAck"
    /\ UNCHANGED <<dag, highestAck, inFlight, inFlightBytes, window, progress,
                   report, readerVars, netVars>>

\* The message of a legacy answer is not parsed: Ok is all that matters.
LegacyAckStep ==
    /\ pc = "legacyAck"
    /\ ReadWithFreshReader
    /\ IF Head(fromPeer).ok
       THEN /\ progress' = nextPacket - 1
            /\ report' = TRUE
            /\ pc' = IF nextPacket = N THEN "returnOk" ELSE "legacy"
       ELSE /\ pc' = "returnErr"
            /\ UNCHANGED <<progress, report>>
    /\ UNCHANGED <<dag, sent, nextPacket, highestAck, inFlight, inFlightBytes,
                   window, readerVars>>

\* The channels and the acknowledgment goroutine are made after onAck(0).
LaunchReader ==
    /\ pc = "launch"
    /\ ~report
    /\ pc' = "window"
    /\ reader' = "reading"
    /\ remaining' = N - 1
    /\ UNCHANGED <<dag, sent, nextPacket, highestAck, inFlight, inFlightBytes,
                   window, progress, report, held, ackResults, netVars>>

\* Mutant: a packet larger than the byte window is never sent.
CanSendNoEscape ==
    /\ nextPacket < N
    /\ Cardinality(inFlight) < window.packets
    /\ inFlightBytes + Size(nextPacket) <= window.bytes

\* Mutant: the packet capacity is off by one.
CanSendOneMore ==
    /\ nextPacket < N
    /\ Cardinality(inFlight) <= window.packets
    /\ \/ inFlightBytes + Size(nextPacket) <= window.bytes
       \/ inFlight = {}

\* packetCapacity and byteCapacity: an idle window admits any one packet.
CanSend ==
    /\ nextPacket < N
    /\ Cardinality(inFlight) < window.packets
    /\ \/ inFlightBytes + Size(nextPacket) <= window.bytes
       \/ inFlight = {}

InWindow == pc = "window" /\ ~report /\ highestAck < N - 1

\* The caller's goroutine is in readAck.
Waiting == InWindow /\ ~CanSend

\* Mutant: the size of a packet is not added to the bytes in flight.
SendNextUncounted ==
    /\ InWindow
    /\ CanSend
    /\ WritePacket
    /\ inFlight' = inFlight \cup {nextPacket}
    /\ UNCHANGED <<dag, pc, highestAck, inFlightBytes, window, progress, report,
                   readerVars, netVars>>

SendNext ==
    /\ InWindow
    /\ CanSend
    /\ WritePacket
    /\ inFlight' = inFlight \cup {nextPacket}
    /\ inFlightBytes' = inFlightBytes + Size(nextPacket)
    /\ UNCHANGED <<dag, pc, highestAck, window, progress, report, readerVars,
                   netVars>>

\* Mutant: an acknowledgment may repeat or regress.
AdvancesUnchecked(r) ==
    /\ r.ok
    /\ parseTransferWindowAck(r.message) = "ack"
    /\ r.message.packets = window.packets /\ r.message.bytes = window.bytes
    /\ r.message.index < nextPacket

\* readAck accepts r: it covers packets in flight, and at least one.
Advances(r) ==
    /\ r.ok
    /\ parseTransferWindowAck(r.message) = "ack"
    /\ r.message.packets = window.packets /\ r.message.bytes = window.bytes
    /\ r.message.index > highestAck
    /\ r.message.index < nextPacket /\ r.message.index < N
    /\ (highestAck + 1)..r.message.index \subseteq inFlight

\* readAck takes a result. What it deletes before an error is never read.
TakeAck ==
    /\ Waiting
    /\ ackResults # <<>>
    /\ ackResults' = Tail(ackResults)
    /\ LET r == Head(ackResults)
           index == r.message.index
       IN \/ /\ Advances(r)
             /\ inFlight' = inFlight \ ((highestAck + 1)..index)
             /\ inFlightBytes' = inFlightBytes
                    - (dag.offset[index + 1] - dag.offset[highestAck + 1])
             /\ highestAck' = index
             /\ progress' = index
             /\ report' = TRUE
             /\ UNCHANGED pc
          \/ /\ ~Advances(r)
             /\ pc' = "returnErr"
             /\ UNCHANGED <<highestAck, inFlight, inFlightBytes, progress, report>>
    /\ UNCHANGED <<dag, sent, nextPacket, window, reader, remaining, held, netVars>>

\* readAck sees the caller's context, or the stream's, which is the same one.
WaitCancelled ==
    /\ Waiting
    /\ ctxDone
    /\ pc' = "returnErr"
    /\ UNCHANGED <<dag, sent, nextPacket, highestAck, inFlight, inFlightBytes,
                   window, progress, report, readerVars, netVars>>

Complete ==
    /\ pc = "window"
    /\ ~report
    /\ highestAck = N - 1
    /\ pc' = "returnOk"
    /\ UNCHANGED <<dag, sent, nextPacket, highestAck, inFlight, inFlightBytes,
                   window, progress, report, readerVars, netVars>>

\* UploadDagSingle returns, and its deferred Close runs.
Finish ==
    /\ pc = "returnOk"
    /\ ~report
    /\ pc' = "ok"
    /\ closed' = TRUE
    /\ UNCHANGED <<dag, sent, nextPacket, highestAck, inFlight, inFlightBytes,
                   window, progress, report, readerVars, fromPeer, ctxDone>>

\* The error goes to the consumer of progressChan before the stream is closed.
ReportError ==
    /\ pc = "returnErr"
    /\ ~report
    /\ pc' = "err"
    /\ closed' = TRUE
    /\ UNCHANGED <<dag, sent, nextPacket, highestAck, inFlight, inFlightBytes,
                   window, progress, report, readerVars, fromPeer, ctxDone>>

\* A write fails for good: the packet may have left all the same, and a write
\* that timed out closed the stream.
WriteFails ==
    /\ \/ pc = "start" /\ SequenceOK
       \/ pc = "legacy" /\ ~report
       \/ InWindow /\ CanSend
    /\ pc' = "returnErr"
    /\ sent' \in {sent, Append(sent, UploadMessage(nextPacket))}
    /\ closed' \in {closed, TRUE}
    /\ UNCHANGED <<dag, nextPacket, highestAck, inFlight, inFlightBytes, window,
                   progress, report, readerVars, fromPeer, ctxDone>>

\* A read by the caller's goroutine fails for good: a remote error, a closed
\* stream, or a timeout, which closes the stream.
ReadFails ==
    /\ pc \in {"rootAck", "legacyAck"}
    /\ pc' = "returnErr"
    /\ closed' \in {closed, TRUE}
    /\ UNCHANGED <<dag, sent, nextPacket, highestAck, inFlight, inFlightBytes,
                   window, progress, report, readerVars, fromPeer, ctxDone>>
-----------------------------------------------------------------------------
(* The acknowledgment goroutine.                                           *)

ReaderReceives ==
    /\ reader = "reading"
    /\ fromPeer # <<>>
    /\ held' = Head(fromPeer)
    /\ fromPeer' = Tail(fromPeer)
    /\ reader' = "offering"
    /\ UNCHANGED <<mainVars, remaining, ackResults, closed, ctxDone>>

ReaderFails ==
    /\ reader = "reading"
    /\ held' = Rejection
    /\ closed' \in {closed, TRUE}
    /\ reader' = "offering"
    /\ UNCHANGED <<mainVars, remaining, ackResults, fromPeer, ctxDone>>

\* Mutant: no place is reserved for an error.
AckCapacityTight == window.packets

\* The capacity of ackResults: a full window, and one error.
AckCapacity == window.packets + 1

\* Mutant: after an error the goroutine leaves without delivering it.
ReaderOffersOnlyOk ==
    /\ reader = "offering"
    /\ Len(ackResults) < AckCapacity
    /\ held' = Rejection
    /\ IF held.ok
       THEN /\ ackResults' = Append(ackResults, held)
            /\ remaining' = remaining - 1
            /\ reader' = IF remaining = 1 THEN "exited" ELSE "reading"
       ELSE reader' = "exited" /\ UNCHANGED <<remaining, ackResults>>
    /\ UNCHANGED <<mainVars, netVars>>

ReaderOffers ==
    /\ reader = "offering"
    /\ Len(ackResults) < AckCapacity
    /\ ackResults' = Append(ackResults, held)
    /\ held' = Rejection
    /\ IF held.ok
       THEN /\ remaining' = remaining - 1
            /\ reader' = IF remaining = 1 THEN "exited" ELSE "reading"
       ELSE reader' = "exited" /\ UNCHANGED remaining
    /\ UNCHANGED <<mainVars, netVars>>

\* Mutant: done is closed only when the upload succeeds.
ReaderQuitsOnSuccess ==
    /\ reader = "offering"
    /\ pc \in {"returnOk", "ok"}
    /\ reader' = "exited"
    /\ held' = Rejection
    /\ UNCHANGED <<mainVars, remaining, ackResults, netVars>>

\* done is closed.
ReaderQuits ==
    /\ reader = "offering"
    /\ Returned
    /\ reader' = "exited"
    /\ held' = Rejection
    /\ UNCHANGED <<mainVars, remaining, ackResults, netVars>>
-----------------------------------------------------------------------------
(* The consumer of the progress channel, the peer and the network.         *)

Consume ==
    /\ report
    /\ report' = FALSE
    /\ UNCHANGED <<dag, pc, sent, nextPacket, highestAck, inFlight,
                   inFlightBytes, window, progress, readerVars, netVars>>

PeerResponds ==
    /\ ~closed
    /\ Len(fromPeer) < MaxPending
    /\ \E r \in Responses : fromPeer' = Append(fromPeer, r)
    /\ UNCHANGED <<mainVars, readerVars, closed, ctxDone>>

StreamBreaks ==
    /\ ~closed
    /\ closed' = TRUE
    /\ UNCHANGED <<mainVars, readerVars, fromPeer, ctxDone>>

\* Cancelling the context of an upload that returned changes nothing.
Cancel ==
    /\ ~ctxDone
    /\ ~Returned
    /\ ctxDone' = TRUE
    /\ UNCHANGED <<mainVars, readerVars, fromPeer, closed>>
-----------------------------------------------------------------------------
\* What the caller's goroutine does when nothing goes wrong around it.
SenderStep ==
    \/ RejectSequence \/ WriteRoot \/ RootAck \/ LegacyWrite \/ LegacyAckStep
    \/ LaunchReader \/ SendNext \/ TakeAck \/ Complete \/ Finish \/ ReportError

SenderFault == SigningFails \/ WriteFails \/ ReadFails \/ WaitCancelled

ReaderStep == ReaderReceives \/ ReaderOffers \/ ReaderQuits

Next ==
    \/ SenderStep \/ SenderFault
    \/ ReaderStep \/ ReaderFails
    \/ Consume
    \/ PeerResponds \/ StreamBreaks \/ Cancel

(***************************************************************************)
(* Every read and write has a timeout, so the caller's goroutine and the   *)
(* acknowledgment goroutine always come to their next step, if only to a   *)
(* failure. The consumer is assumed to keep receiving. The peer may stop   *)
(* for ever, the stream need not break and the context need not end.       *)
(***************************************************************************)
Fairness ==
    /\ WF_vars(SenderStep \/ SenderFault)
    /\ WF_vars(ReaderStep \/ ReaderFails)
    /\ WF_vars(Consume)

Spec == Init /\ [][Next]_vars /\ Fairness
-----------------------------------------------------------------------------
(* Correctness.                                                            *)

\* Every variable stays in the values the code can give it.
TypeOK ==
    /\ dag \in Dags
    /\ pc \in {"start", "rootAck", "legacy", "legacyAck", "launch", "window",
              "returnOk", "returnErr", "ok", "err"}
    /\ sent \in Seq(UploadMessages)
    /\ nextPacket \in 0..N
    /\ highestAck \in 0..N
    /\ inFlight \in SUBSET (1..N)
    /\ inFlightBytes \in Nat
    /\ window \in [packets : 0..MaxWindowPackets, bytes : 0..MaxWindowBytes]
    /\ progress \in -1..N
    /\ report \in BOOLEAN
    /\ reader \in {"off", "reading", "offering", "exited"}
    /\ remaining \in 0..N
    /\ held \in Responses \cup {Rejection}
    /\ ackResults \in Seq(Responses \cup {Rejection})
    /\ fromPeer \in Seq(Responses)
    /\ closed \in BOOLEAN
    /\ ctxDone \in BOOLEAN

(***************************************************************************)
(* The negotiated window, both of its limits, bounds what is on the wire   *)
(* and not acknowledged, a packet whose write failed included; the only    *)
(* way over the byte limit is a packet that is outstanding alone. Before   *)
(* the negotiation, and with a legacy peer, one packet is outstanding.     *)
(***************************************************************************)
WindowRespected ==
    LET outstanding == Len(sent) - (progress + 1)
    IN  \/ outstanding <= 1
        \/ /\ outstanding <= window.packets
           /\ dag.offset[Len(sent)] - dag.offset[progress + 1] <= window.bytes

\* The map of packets in flight and the counter of their bytes agree with the
\* two cursors, so readAck never meets a packet it does not know, and its
\* "skipped unknown packet" error is unreachable.
InFlightExact ==
    pc = "window" =>
        /\ inFlight = (highestAck + 1)..(nextPacket - 1)
        /\ inFlightBytes = dag.offset[nextPacket] - dag.offset[highestAck + 1]

\* readAck is never called with nothing in flight: whatever the sizes of the
\* packets and the byte limit, there is an acknowledgment to wait for.
NeverWaitsForNothing == Waiting => inFlight # {}

\* While readAck waits on an empty ackResults, the goroutine that fills it is
\* alive: it never leaves early, neither by its loop count nor by an error it
\* kept to itself.
SenderNeverStranded ==
    Waiting /\ ackResults = <<>> => reader \in {"reading", "offering"}

\* The upload reports success only after every packet was sent, once and in
\* order, the last one marked final, and the peer acknowledged the last one.
SuccessMeansAllAcked ==
    pc \in {"returnOk", "ok"} =>
        /\ sent = [i \in 1..N |-> UploadMessage(i - 1)]
        /\ N > 0
        /\ progress = N - 1

\* Progress never goes back, and a new report covers at least one new packet.
ProgressMonotone ==
    [][ /\ progress' >= progress
        /\ highestAck' >= highestAck
        /\ report' /\ ~report => progress' > progress ]_vars

\* Whatever the peer and the network do, the upload ends, and its acknowledgment
\* goroutine does not outlive it for ever.
Terminates ==
    /\ <>(pc \in {"ok", "err"})
    /\ reader = "reading" ~> reader = "exited"
-----------------------------------------------------------------------------
(* The inductive invariant behind the safety properties, in named parts.   *)

\* The messages sent are the packets before nextPacket, in order; a write that
\* failed may have sent one more.
SentInOrder ==
    /\ \A i \in DOMAIN sent : sent[i] = UploadMessage(i - 1)
    /\ IF pc \in {"returnErr", "err"}
       THEN Len(sent) \in {nextPacket, nextPacket + 1}
       ELSE Len(sent) = nextPacket

\* Where nextPacket, highestAck and progress stand at each point of the upload.
Cursors ==
    /\ pc \notin {"start", "returnErr", "err"} => N > 0
    /\ pc = "start" => nextPacket = 0 /\ progress = -1
    /\ pc = "rootAck" => nextPacket = 1 /\ progress = -1
    /\ pc = "legacy" => nextPacket \in 1..(N - 1) /\ progress = nextPacket - 1
    /\ pc = "legacyAck" => nextPacket \in 2..N /\ progress = nextPacket - 2
    /\ pc = "launch" =>
           nextPacket = 1 /\ progress = 0 /\ N > 1 /\ window.packets > 0
    /\ pc \in {"start", "rootAck", "legacy", "legacyAck", "launch"} =>
           highestAck = 0 /\ inFlight = {} /\ inFlightBytes = 0
    /\ pc = "window" =>
           /\ progress = highestAck /\ highestAck < nextPacket
           /\ window.packets > 0
    /\ pc \in {"returnOk", "ok"} => nextPacket = N /\ progress = N - 1
    /\ InFlightExact

\* What is still to come to readAck covers what is still to be acknowledged:
\* every answer delivered or counted by the goroutine is worth one packet.
ReaderCounts ==
    /\ pc \in {"start", "rootAck", "legacy", "legacyAck", "launch"} =>
           reader = "off" /\ ackResults = <<>>
    /\ pc = "window" =>
           /\ reader # "off"
           /\ highestAck + Len(ackResults) + remaining >= N - 1
           /\ reader = "exited" =>
                  \/ remaining = 0
                  \/ ackResults # <<>> /\ ~ackResults[Len(ackResults)].ok
    /\ reader \in {"reading", "offering"} => remaining >= 1

IInv == TypeOK /\ SentInOrder /\ Cursors /\ WindowRespected /\ ReaderCounts
=============================================================================
