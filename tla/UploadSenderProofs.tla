------------------------- MODULE UploadSenderProofs -------------------------
(***************************************************************************)
(* Proofs about UploadSender, for every set of packet sequences, every set *)
(* of answers of the peer and every bound.                                 *)
(***************************************************************************)
EXTENDS UploadSender, TLAPS, SequenceTheorems, FiniteSetTheorems

LEMMA DagFacts ==
    ASSUME dag \in Dags
    PROVE  /\ N \in Nat
           /\ dag.offset \in [0..N -> Nat]
           /\ \A i, j \in 0..N : i < j => dag.offset[i] < dag.offset[j]
BY DagAssumption DEF N

\* Offsets grow, so the size of a run of packets is a natural number.
LEMMA OffsetsGrow ==
    ASSUME dag \in Dags, NEW i \in 0..N, NEW j \in 0..N, i <= j
    PROVE  /\ dag.offset[i] \in Nat
           /\ dag.offset[j] \in Nat
           /\ dag.offset[i] <= dag.offset[j]
<1>1. CASE i = j
  BY <1>1, DagFacts
<1>2. CASE i < j
  BY <1>2, DagFacts
<1> QED
  BY <1>1, <1>2, DagFacts

LEMMA ResponseFacts ==
    ASSUME NEW r \in Responses \cup {Rejection}
    PROVE  /\ r \in ResponseMessage
           /\ r.ok \in BOOLEAN
           /\ r.message.index \in Int
           /\ parseTransferWindowAck(r.message) = "ack" =>
                  /\ r.message.packets \in 1..MaxWindowPackets
                  /\ r.message.bytes \in 1..MaxWindowBytes
<1>1. Rejection \in ResponseMessage
  BY DEF Rejection, LegacyAck, ResponseMessage, AckMessage
<1>2. r \in ResponseMessage
  BY <1>1, PeerAssumption
<1>3. r.ok \in BOOLEAN /\ r.message \in AckMessage
  BY <1>2 DEF ResponseMessage
<1>4. r.message.index \in Int
  BY <1>3 DEF AckMessage
<1> QED
  BY <1>2, <1>3, <1>4 DEF parseTransferWindowAck

LEMMA FreshReaderFacts ==
    ASSUME fromPeer \in Seq(Responses), ReadWithFreshReader
    PROVE  /\ Head(fromPeer) \in Responses
           /\ fromPeer' \in Seq(Responses)
           /\ closed' = closed /\ ctxDone' = ctxDone
<1>1. PICK k \in 1..Len(fromPeer) : fromPeer' = SubSeq(fromPeer, k + 1, Len(fromPeer))
  BY DEF ReadWithFreshReader
<1>2. fromPeer' \in Seq(Responses)
  BY <1>1, SubSeqProperties, LenProperties
<1>3. fromPeer # <<>>
  BY DEF ReadWithFreshReader
<1> QED
  BY <1>2, <1>3, HeadTailProperties DEF ReadWithFreshReader

LEMMA UploadMessageType ==
    ASSUME dag \in Dags, NEW i \in Nat
    PROVE  UploadMessage(i) \in UploadMessages
BY DagFacts DEF UploadMessage, UploadMessages

LEMMA FixedDag ==
    ASSUME [Next]_vars
    PROVE  dag' = dag /\ N' = N
<1>1. dag' = dag
  BY DEF Next, SenderStep, SenderFault, ReaderStep, vars, mainVars,
     RejectSequence, WriteRoot, RootAck, LegacyWrite, LegacyAckStep,
     LaunchReader, SendNext, TakeAck, Complete, Finish, ReportError,
     SigningFails, WriteFails, ReadFails, WaitCancelled, ReaderReceives,
     ReaderOffers, ReaderQuits, ReaderFails, Consume, PeerResponds,
     StreamBreaks, Cancel
<1> QED
  BY <1>1 DEF N

-----------------------------------------------------------------------------
LEMMA TypeStep ==
    ASSUME TypeOK, Cursors, ReaderCounts, [Next]_vars
    PROVE  TypeOK'
<1> USE WindowAssumption
<1>0. /\ dag' = dag /\ N' = N /\ N \in Nat
  BY FixedDag, DagFacts DEF TypeOK
<1>0b. nextPacket \in 0..N /\ highestAck \in 0..N /\ progress \in -1..N
  BY DEF TypeOK
<1>0a. ASSUME WritePacket, nextPacket < N
       PROVE  sent' \in Seq(UploadMessages) /\ nextPacket' \in 0..N
  BY <1>0, <1>0a, UploadMessageType, AppendProperties
     DEF WritePacket, TypeOK
<1>1. CASE RejectSequence
  BY <1>0, <1>1 DEF RejectSequence, readerVars, netVars, TypeOK
<1>2. CASE WriteRoot
  <2>1. nextPacket < N
    BY <1>2, <1>0 DEF WriteRoot, SequenceOK, Cursors
  <2> QED
    BY <2>1, <1>0, <1>0a, <1>2 DEF WriteRoot, readerVars, netVars, TypeOK
<1>3. CASE RootAck
  <2>1. /\ Head(fromPeer) \in Responses
        /\ fromPeer' \in Seq(Responses)
        /\ closed' = closed /\ ctxDone' = ctxDone
    BY <1>3, FreshReaderFacts DEF RootAck, TypeOK
  <2>2. window' \in [packets : 0..MaxWindowPackets, bytes : 0..MaxWindowBytes]
    <3>1. CASE window' = window
      BY <3>1 DEF TypeOK
    <3>2. CASE window' # window
      <4> DEFINE r == Head(fromPeer)
      <4>1. /\ parseTransferWindowAck(r.message) = "ack"
            /\ window' = [packets |-> r.message.packets, bytes |-> r.message.bytes]
        BY <1>3, <3>2 DEF RootAck
      <4>2. /\ r.message.packets \in 1..MaxWindowPackets
            /\ r.message.bytes \in 1..MaxWindowBytes
        BY <2>1, <4>1, ResponseFacts
      <4> HIDE DEF r
      <4> QED
        BY <4>1, <4>2
    <3> QED
      BY <3>1, <3>2
  <2>3. /\ progress' = progress \/ progress' = 0
        /\ report' = report \/ report' = TRUE
    BY <1>3 DEF RootAck
  <2>4. pc' \in {"returnErr", "returnOk", "legacy", "launch"}
    BY <1>3 DEF RootAck
  <2>5. report' \in BOOLEAN
    BY <2>3 DEF TypeOK
  <2>6. progress' \in -1..N
    BY <2>3, <1>0, <1>0b
  <2> QED
    BY <2>1, <2>2, <2>4, <2>5, <2>6, <1>0, <1>3 DEF RootAck, readerVars, TypeOK
<1>4. CASE LegacyWrite
  <2>1. nextPacket < N
    BY <1>4, <1>0 DEF LegacyWrite, Cursors, TypeOK
  <2> QED
    BY <2>1, <1>0, <1>0a, <1>4 DEF LegacyWrite, readerVars, netVars, TypeOK
<1>5. CASE LegacyAckStep
  <2>1. /\ fromPeer' \in Seq(Responses)
        /\ closed' = closed /\ ctxDone' = ctxDone
    BY <1>5, FreshReaderFacts DEF LegacyAckStep, TypeOK
  <2>2. /\ progress' = progress \/ progress' = nextPacket - 1
        /\ report' = report \/ report' = TRUE
    BY <1>5 DEF LegacyAckStep
  <2>3. pc' \in {"returnErr", "returnOk", "legacy"}
    BY <1>5 DEF LegacyAckStep
  <2>4. report' \in BOOLEAN
    BY <2>2 DEF TypeOK
  <2>5. progress' \in -1..N
    BY <2>2, <1>0, <1>0b
  <2> QED
    BY <2>1, <2>3, <2>4, <2>5, <1>0, <1>5 DEF LegacyAckStep, readerVars, TypeOK
<1>6. CASE LaunchReader
  BY <1>0, <1>6 DEF LaunchReader, Cursors, netVars, TypeOK
<1>7. CASE SendNext
  <2>1. nextPacket < N
    BY <1>7 DEF SendNext, CanSend, TypeOK
  <2>2. Size(nextPacket) \in Nat
    <3>1. nextPacket \in 0..N /\ nextPacket + 1 \in 0..N /\ nextPacket <= nextPacket + 1
      BY <2>1, <1>0, <1>0b
    <3>2. /\ dag.offset[nextPacket] \in Nat /\ dag.offset[nextPacket + 1] \in Nat
          /\ dag.offset[nextPacket] <= dag.offset[nextPacket + 1]
      BY <3>1, OffsetsGrow DEF TypeOK
    <3> QED
      BY <3>2 DEF Size
  <2>3. inFlight' \in SUBSET (1..N)
    <3>1. nextPacket \in 1..N
      BY <1>0, <1>7 DEF SendNext, InWindow, Cursors, TypeOK
    <3> QED
      BY <3>1, <1>0, <1>7 DEF SendNext, TypeOK
  <2> QED
    BY <2>1, <2>2, <2>3, <1>0, <1>0a, <1>7 DEF SendNext, readerVars, netVars, TypeOK
<1>8. CASE TakeAck
  <2>1. Head(ackResults) \in Responses \cup {Rejection}
    BY <1>8, HeadTailProperties DEF TakeAck, TypeOK
  <2>2. ackResults' \in Seq(Responses \cup {Rejection})
    BY <1>8, HeadTailProperties DEF TakeAck, TypeOK
  <2> DEFINE r == Head(ackResults)
  <2>3. CASE Advances(r)
    <3>1. /\ r.message.index \in (highestAck + 1)..(nextPacket - 1)
          /\ r.message.index < N
      BY <2>1, <2>3, <1>0b, ResponseFacts DEF Advances
    <3>2. /\ highestAck' = r.message.index
          /\ progress' = r.message.index
          /\ inFlight' = inFlight \ ((highestAck + 1)..r.message.index)
          /\ inFlightBytes' = inFlightBytes
                - (dag.offset[r.message.index + 1] - dag.offset[highestAck + 1])
          /\ pc' = pc /\ report' = TRUE
      BY <2>3, <1>8 DEF TakeAck
    <3>3. inFlightBytes = dag.offset[nextPacket] - dag.offset[highestAck + 1]
      BY <1>8 DEF TakeAck, Waiting, InWindow, Cursors, InFlightExact
    <3>4. inFlightBytes' \in Nat
      <4>1. /\ dag.offset[r.message.index + 1] \in Nat
            /\ dag.offset[nextPacket] \in Nat
            /\ dag.offset[r.message.index + 1] <= dag.offset[nextPacket]
        <5>1. /\ r.message.index + 1 \in 0..N
              /\ r.message.index + 1 <= nextPacket
          BY <3>1, <1>0, <1>0b
        <5> QED
          BY <5>1, OffsetsGrow DEF TypeOK
      <4>2. dag.offset[highestAck + 1] \in Nat
        BY <3>1, <1>0, OffsetsGrow DEF TypeOK
      <4> HIDE DEF r
      <4> QED
        BY <3>2, <3>3, <4>1, <4>2
    <3>5. highestAck' \in 0..N /\ progress' \in -1..N
      BY <3>1, <3>2, <1>0, <1>0b
    <3>6. inFlight' \in SUBSET (1..N)
      BY <3>2 DEF TypeOK
    <3> HIDE DEF r
    <3> QED
      BY <3>2, <3>4, <3>5, <3>6, <2>2, <1>0, <1>8 DEF TakeAck, netVars, TypeOK
  <2>4. CASE ~Advances(r)
    BY <2>2, <2>4, <1>0, <1>8 DEF TakeAck, netVars, TypeOK
  <2> QED
    BY <2>3, <2>4
<1>9. CASE Complete
  BY <1>0, <1>9 DEF Complete, readerVars, netVars, TypeOK
<1>10. CASE Finish
  BY <1>0, <1>10 DEF Finish, readerVars, netVars, TypeOK
<1>11. CASE ReportError
  BY <1>0, <1>11 DEF ReportError, readerVars, netVars, TypeOK
<1>12. CASE SigningFails
  BY <1>0, <1>12 DEF SigningFails, readerVars, netVars, TypeOK
<1>13. CASE WriteFails
  <2>1. nextPacket \in Nat /\ Append(sent, UploadMessage(nextPacket)) \in Seq(UploadMessages)
    BY <1>0, UploadMessageType, AppendProperties DEF TypeOK
  <2> QED
    BY <2>1, <1>0, <1>13 DEF WriteFails, readerVars, TypeOK
<1>14. CASE ReadFails
  BY <1>0, <1>14 DEF ReadFails, readerVars, netVars, TypeOK
<1>15. CASE WaitCancelled
  BY <1>0, <1>15 DEF WaitCancelled, readerVars, netVars, TypeOK
<1>16. CASE ReaderReceives
  BY <1>0, <1>16 DEF ReaderReceives, mainVars, TypeOK
<1>17. CASE ReaderOffers
  <2>1. ackResults' \in Seq(Responses \cup {Rejection})
    BY <1>17, AppendProperties DEF ReaderOffers, TypeOK
  <2>2. CASE held.ok
    <3>1. remaining >= 1
      BY <1>17 DEF ReaderOffers, ReaderCounts, TypeOK
    <3> QED
      BY <3>1, <2>1, <2>2, <1>0, <1>17 DEF ReaderOffers, mainVars, netVars, TypeOK
  <2>3. CASE ~held.ok
    BY <2>1, <2>3, <1>0, <1>17 DEF ReaderOffers, mainVars, netVars, TypeOK
  <2> QED
    BY <2>2, <2>3
<1>18. CASE ReaderQuits
  BY <1>0, <1>18 DEF ReaderQuits, mainVars, netVars, TypeOK
<1>19. CASE ReaderFails
  BY <1>0, <1>19 DEF ReaderFails, mainVars, TypeOK
<1>20. CASE Consume
  BY <1>0, <1>20 DEF Consume, readerVars, netVars, TypeOK
<1>21. CASE PeerResponds
  BY <1>0, <1>21 DEF PeerResponds, mainVars, readerVars, TypeOK
<1>22. CASE StreamBreaks
  BY <1>0, <1>22 DEF StreamBreaks, mainVars, readerVars, TypeOK
<1>23. CASE Cancel
  BY <1>0, <1>23 DEF Cancel, mainVars, readerVars, TypeOK
<1>24. CASE UNCHANGED vars
  BY <1>0, <1>24 DEF vars, mainVars, readerVars, netVars, TypeOK
<1> QED
  BY <1>1, <1>2, <1>3, <1>4, <1>5, <1>6, <1>7, <1>8, <1>9, <1>10, <1>11, <1>12,
     <1>13, <1>14, <1>15, <1>16, <1>17, <1>18, <1>19, <1>20, <1>21, <1>22, <1>23, <1>24
     DEF Next, SenderStep, SenderFault, ReaderStep

-----------------------------------------------------------------------------
\* The variables the cursors are about, which only the caller's goroutine writes.
cursorVars == <<dag, pc, sent, nextPacket, highestAck, inFlight, inFlightBytes,
                window, progress>>

CallerAction ==
    \/ SenderStep \/ SenderFault

LEMMA QuietSteps ==
    ASSUME [Next]_vars, ~CallerAction
    PROVE  UNCHANGED cursorVars
BY DEF CallerAction, Next, ReaderStep, vars, mainVars, cursorVars,
   ReaderReceives, ReaderOffers, ReaderQuits, ReaderFails, Consume,
   PeerResponds, StreamBreaks, Cancel

\* What appending the packet at nextPacket does to a complete history.
LEMMA AppendUpload ==
    ASSUME sent \in Seq(UploadMessages), nextPacket \in Nat, dag \in Dags,
           Len(sent) = nextPacket,
           \A i \in DOMAIN sent : sent[i] = UploadMessage(i - 1),
           NEW s, s = Append(sent, UploadMessage(nextPacket))
    PROVE  /\ Len(s) = nextPacket + 1
           /\ \A i \in DOMAIN s : s[i] = UploadMessage(i - 1)
<1>1. UploadMessage(nextPacket) \in UploadMessages
  BY UploadMessageType
<1>2. /\ s \in Seq(UploadMessages)
      /\ Len(s) = nextPacket + 1
      /\ s[nextPacket + 1] = UploadMessage(nextPacket)
      /\ \A i \in 1..nextPacket : s[i] = sent[i]
  BY <1>1, AppendProperties
<1>3. DOMAIN s = 1..(nextPacket + 1) /\ DOMAIN sent = 1..nextPacket
  BY <1>2, LenProperties
<1> QED
  BY <1>2, <1>3

LEMMA SentStep ==
    ASSUME TypeOK, SentInOrder, [Next]_vars
    PROVE  SentInOrder'
<1>0. /\ dag' = dag /\ N' = N /\ dag \in Dags
      /\ \A i : UploadMessage(i)' = UploadMessage(i)
      /\ nextPacket \in Nat /\ sent \in Seq(UploadMessages)
  BY FixedDag, DagFacts DEF TypeOK, UploadMessage
<1>1. ASSUME WritePacket, pc \notin {"returnErr", "err"},
             pc' \notin {"returnErr", "err"}
      PROVE  SentInOrder'
  <2>1. /\ Len(sent') = nextPacket'
        /\ \A i \in DOMAIN sent' : sent'[i] = UploadMessage(i - 1)
    BY <1>0, <1>1, AppendUpload DEF SentInOrder, WritePacket
  <2> QED
    BY <1>0, <1>1, <2>1 DEF SentInOrder
<1>2. CASE WriteRoot \/ LegacyWrite \/ SendNext
  BY <1>1, <1>2 DEF WriteRoot, LegacyWrite, SendNext, InWindow
<1>3. CASE WriteFails
  <2>1. /\ Len(sent) = nextPacket /\ nextPacket' = nextPacket
        /\ pc' = "returnErr"
    BY <1>3 DEF WriteFails, InWindow, SentInOrder
  <2>2. CASE sent' = sent
    BY <1>0, <2>1, <2>2 DEF SentInOrder
  <2>3. CASE sent' = Append(sent, UploadMessage(nextPacket))
    <3>1. /\ Len(sent') = nextPacket + 1
          /\ \A i \in DOMAIN sent' : sent'[i] = UploadMessage(i - 1)
      BY <1>0, <2>1, <2>3, AppendUpload DEF SentInOrder
    <3> QED
      BY <1>0, <2>1, <3>1 DEF SentInOrder
  <2> QED
    BY <1>3, <2>2, <2>3 DEF WriteFails
<1>4. ASSUME sent' = sent, nextPacket' = nextPacket,
             pc \in {"returnErr", "err"} => pc' \in {"returnErr", "err"}
      PROVE  SentInOrder'
  BY <1>0, <1>4 DEF SentInOrder
<1>5. CASE \/ RejectSequence \/ RootAck \/ LegacyAckStep \/ LaunchReader
           \/ TakeAck \/ Complete \/ Finish \/ ReportError \/ SigningFails
           \/ ReadFails \/ WaitCancelled
  BY <1>4, <1>5 DEF RejectSequence, RootAck, LegacyAckStep, LaunchReader,
     TakeAck, Waiting, InWindow, Complete, Finish, ReportError, SigningFails,
     ReadFails, WaitCancelled
<1>6. CASE ~CallerAction
  BY <1>4, <1>6, QuietSteps DEF cursorVars
<1> QED
  BY <1>2, <1>3, <1>5, <1>6 DEF CallerAction, SenderStep, SenderFault

LEMMA CursorStep ==
    ASSUME TypeOK, Cursors, [Next]_vars
    PROVE  Cursors'
<1> USE DEF Cursors, InFlightExact
<1>0. /\ dag' = dag /\ N' = N /\ N \in Nat /\ dag \in Dags
  BY FixedDag, DagFacts DEF TypeOK
<1>0b. /\ nextPacket \in 0..N /\ highestAck \in 0..N /\ progress \in -1..N
  BY DEF TypeOK
<1>1. CASE RejectSequence
  BY <1>0, <1>0b, <1>1 DEF RejectSequence
<1>2. CASE WriteRoot
  BY <1>0, <1>0b, <1>2 DEF WriteRoot, WritePacket, SequenceOK
<1>3. CASE RootAck
  <2>1. N > 0 /\ nextPacket = 1 /\ progress = -1
        /\ highestAck = 0 /\ inFlight = {} /\ inFlightBytes = 0
    BY <1>3 DEF RootAck
  <2>2. UNCHANGED <<nextPacket, highestAck, inFlight, inFlightBytes>>
    BY <1>3 DEF RootAck
  <2>3. Head(fromPeer) \in Responses
    BY <1>3, FreshReaderFacts DEF RootAck, TypeOK
  <2>4. \/ pc' = "returnErr"
        \/ pc' = "returnOk" /\ progress' = 0 /\ N = 1
        \/ pc' = "legacy" /\ progress' = 0 /\ N # 1
        \/ pc' = "launch" /\ progress' = 0 /\ N # 1 /\ window'.packets > 0
    BY <1>3, <2>3, ResponseFacts, WindowAssumption DEF RootAck
  <2> QED
    BY <2>1, <2>2, <2>4, <1>0
<1>4. CASE LegacyWrite
  BY <1>0, <1>0b, <1>4 DEF LegacyWrite, WritePacket
<1>5. CASE LegacyAckStep
  BY <1>0, <1>0b, <1>5 DEF LegacyAckStep
<1>6. CASE LaunchReader
  <2>1. nextPacket = 1 /\ highestAck = 0 /\ inFlight = {} /\ inFlightBytes = 0
    BY <1>6 DEF LaunchReader
  <2>2. dag.offset[1] - dag.offset[1] = 0
    <3>1. 1 \in 0..N
      BY <2>1, <1>0b
    <3> QED
      BY <3>1, <1>0, OffsetsGrow
  <2>3. (0 + 1)..(1 - 1) = {}
    OBVIOUS
  <2> QED
    BY <2>1, <2>2, <2>3, <1>0, <1>6 DEF LaunchReader
<1>7. CASE SendNext
  <2>1. /\ nextPacket < N /\ nextPacket' = nextPacket + 1
        /\ inFlight' = inFlight \cup {nextPacket}
        /\ inFlightBytes' = inFlightBytes + Size(nextPacket)
        /\ pc = "window" /\ pc' = pc
        /\ UNCHANGED <<highestAck, window, progress>>
    BY <1>7 DEF SendNext, CanSend, InWindow, WritePacket
  <2>2. /\ highestAck < nextPacket
        /\ inFlight = (highestAck + 1)..(nextPacket - 1)
        /\ inFlightBytes = dag.offset[nextPacket] - dag.offset[highestAck + 1]
    BY <2>1
  <2>3. inFlight' = (highestAck + 1)..nextPacket
    BY <2>1, <2>2, <1>0b
  <2>4. inFlightBytes' = dag.offset[nextPacket + 1] - dag.offset[highestAck + 1]
    <3>1. /\ nextPacket \in 0..N /\ nextPacket + 1 \in 0..N
          /\ highestAck + 1 \in 0..N
      BY <2>1, <1>0, <1>0b
    <3>2. /\ dag.offset[nextPacket] \in Nat /\ dag.offset[nextPacket + 1] \in Nat
          /\ dag.offset[highestAck + 1] \in Nat
      BY <3>1, <1>0, OffsetsGrow
    <3> QED
      BY <2>1, <2>2, <3>2 DEF Size
  <2> QED
    BY <2>1, <2>2, <2>3, <2>4, <1>0, <1>0b
<1>8. CASE TakeAck
  <2> DEFINE r == Head(ackResults)
             index == r.message.index
  <2>1. r \in Responses \cup {Rejection}
    BY <1>8, HeadTailProperties DEF TakeAck, TypeOK
  <2>2. /\ pc = "window" /\ highestAck < nextPacket /\ N > 0
        /\ inFlight = (highestAck + 1)..(nextPacket - 1)
        /\ inFlightBytes = dag.offset[nextPacket] - dag.offset[highestAck + 1]
    BY <1>8 DEF TakeAck, Waiting, InWindow
  <2>3. CASE Advances(r)
    <3>1. index \in (highestAck + 1)..(nextPacket - 1) /\ index < N
      BY <2>1, <2>3, <1>0b, ResponseFacts DEF Advances
    <3>2. /\ highestAck' = index /\ progress' = index /\ pc' = pc
          /\ inFlight' = inFlight \ ((highestAck + 1)..index)
          /\ inFlightBytes' = inFlightBytes
                - (dag.offset[index + 1] - dag.offset[highestAck + 1])
          /\ UNCHANGED <<nextPacket, window>>
      BY <2>3, <1>8 DEF TakeAck
    <3> HIDE DEF index
    <3>3. inFlight' = (index + 1)..(nextPacket - 1)
      BY <2>2, <3>1, <3>2, <1>0b
    <3>4. inFlightBytes' = dag.offset[nextPacket] - dag.offset[index + 1]
      <4>1. /\ index + 1 \in 0..N /\ nextPacket \in 0..N
            /\ highestAck + 1 \in 0..N
        BY <3>1, <1>0, <1>0b
      <4>2. /\ dag.offset[index + 1] \in Nat /\ dag.offset[nextPacket] \in Nat
            /\ dag.offset[highestAck + 1] \in Nat
        BY <4>1, <1>0, OffsetsGrow
      <4> QED
        BY <2>2, <3>2, <4>2
    <3> QED
      BY <2>2, <3>1, <3>2, <3>3, <3>4, <1>0, <1>0b
  <2>4. CASE ~Advances(r)
    <3>1. pc' = "returnErr"
      BY <2>4, <1>8 DEF TakeAck
    <3> QED
      BY <3>1
  <2> QED
    BY <2>3, <2>4
<1>9. CASE Complete
  BY <1>0, <1>0b, <1>9 DEF Complete
<1>10. CASE Finish
  BY <1>0, <1>0b, <1>10 DEF Finish
<1>11. CASE ReportError
  BY <1>0, <1>0b, <1>11 DEF ReportError
<1>12. CASE SigningFails
  BY <1>0, <1>0b, <1>12 DEF SigningFails
<1>13. CASE WriteFails
  <2>1. pc' = "returnErr"
    BY <1>13 DEF WriteFails
  <2> QED
    BY <2>1
<1>14. CASE ReadFails
  BY <1>0, <1>0b, <1>14 DEF ReadFails
<1>15. CASE WaitCancelled
  BY <1>0, <1>0b, <1>15 DEF WaitCancelled
<1>16. CASE ~CallerAction
  <2>1. UNCHANGED cursorVars
    BY <1>16, QuietSteps
  <2> QED
    BY <2>1, <1>0 DEF cursorVars
<1> QED
  BY <1>1, <1>2, <1>3, <1>4, <1>5, <1>6, <1>7, <1>8, <1>9, <1>10, <1>11, <1>12, <1>13, <1>14, <1>15, <1>16
     DEF CallerAction, SenderStep, SenderFault

-----------------------------------------------------------------------------
\* CanSend leaves room in the window for one more packet, whether its write
\* succeeds or fails halfway.
LEMMA RoomForOne ==
    ASSUME TypeOK, SentInOrder, Cursors, InWindow, CanSend
    PROVE  LET outstanding == Len(sent) + 1 - (progress + 1)
           IN  \/ outstanding <= 1
               \/ /\ outstanding <= window.packets
                  /\ dag.offset[Len(sent) + 1] - dag.offset[progress + 1] <= window.bytes
<1>1. /\ nextPacket \in 0..N /\ highestAck \in 0..N /\ N \in Nat /\ dag \in Dags
      /\ Len(sent) = nextPacket /\ progress = highestAck
      /\ highestAck < nextPacket /\ nextPacket < N
      /\ window.packets \in Nat /\ window.bytes \in Nat
  BY DagFacts, WindowAssumption
     DEF TypeOK, SentInOrder, Cursors, InWindow, CanSend
<1>2. /\ inFlight = (highestAck + 1)..(nextPacket - 1)
      /\ inFlightBytes = dag.offset[nextPacket] - dag.offset[highestAck + 1]
      /\ Cardinality(inFlight) < window.packets
      /\ inFlightBytes + Size(nextPacket) <= window.bytes \/ inFlight = {}
  BY DEF Cursors, InFlightExact, InWindow, CanSend
<1>3. nextPacket - highestAck <= window.packets
  <2>1. highestAck + 1 \in Int /\ nextPacket - 1 \in Int
    BY <1>1
  <2>2. Cardinality(inFlight) =
            IF highestAck + 1 > nextPacket - 1 THEN 0
            ELSE (nextPacket - 1) - (highestAck + 1) + 1
    BY <1>2, <2>1, FS_Interval
  <2> QED
    BY <1>1, <1>2, <2>2
<1>4. CASE inFlight = {}
  <2>1. highestAck + 1 \notin (highestAck + 1)..(nextPacket - 1)
    BY <1>2, <1>4
  <2>2. nextPacket = highestAck + 1
    BY <1>1, <2>1
  <2> QED
    BY <1>1, <2>2
<1>5. CASE inFlightBytes + Size(nextPacket) <= window.bytes
  <2>1. /\ nextPacket + 1 \in 0..N /\ highestAck + 1 \in 0..N
    BY <1>1
  <2>2. /\ dag.offset[nextPacket] \in Nat /\ dag.offset[nextPacket + 1] \in Nat
        /\ dag.offset[highestAck + 1] \in Nat
    BY <1>1, <2>1, OffsetsGrow
  <2>3. dag.offset[nextPacket + 1] - dag.offset[highestAck + 1] <= window.bytes
    BY <1>1, <1>2, <1>5, <2>2 DEF Size
  <2> QED
    BY <1>1, <1>3, <2>3
<1> QED
  BY <1>2, <1>4, <1>5

LEMMA WindowStep ==
    ASSUME TypeOK, SentInOrder, Cursors, WindowRespected, [Next]_vars
    PROVE  WindowRespected'
<1>0. /\ dag' = dag /\ N \in Nat /\ dag \in Dags
      /\ nextPacket \in 0..N /\ highestAck \in 0..N /\ progress \in -1..N
      /\ sent \in Seq(UploadMessages)
      /\ window.packets \in Nat /\ window.bytes \in Nat
  BY FixedDag, DagFacts, WindowAssumption DEF TypeOK
<1>1. ASSUME UNCHANGED <<sent, progress, window>>
      PROVE  WindowRespected'
  BY <1>0, <1>1 DEF WindowRespected
<1>2. ASSUME Len(sent') - (progress' + 1) <= 1
      PROVE  WindowRespected'
  BY <1>2 DEF WindowRespected
<1>3. Len(Append(sent, UploadMessage(nextPacket))) = Len(sent) + 1
  <2>1. UploadMessage(nextPacket) \in UploadMessages
    BY <1>0, UploadMessageType
  <2> QED
    BY <1>0, <2>1, AppendProperties
<1>4. CASE WriteRoot \/ LegacyWrite
  <2>1. /\ Len(sent') = nextPacket + 1 /\ progress' = progress
        /\ progress = nextPacket - 1
    BY <1>0, <1>3, <1>4
       DEF WriteRoot, LegacyWrite, WritePacket, SentInOrder, Cursors
  <2> QED
    BY <2>1, <1>0, <1>2
<1>5. CASE RootAck
  <2>1. Len(sent') = 1 /\ (progress' = -1 \/ progress' = 0)
    BY <1>5 DEF RootAck, SentInOrder, Cursors
  <2>2. Len(sent') - (progress' + 1) <= 1
    BY <2>1
  <2> QED
    BY <2>2, <1>2
<1>6. CASE LegacyAckStep
  <2>1. /\ Len(sent') = nextPacket
        /\ progress' = nextPacket - 2 \/ progress' = nextPacket - 1
    BY <1>6 DEF LegacyAckStep, SentInOrder, Cursors
  <2>2. Len(sent') - (progress' + 1) <= 1
    BY <2>1, <1>0
  <2> QED
    BY <2>2, <1>2
<1>7. CASE SendNext
  <2>1. Len(sent') = Len(sent) + 1 /\ UNCHANGED <<progress, window>>
    BY <1>3, <1>7 DEF SendNext, WritePacket
  <2> QED
    BY <2>1, <1>0, <1>7, RoomForOne DEF SendNext, WindowRespected
<1>8. CASE TakeAck
  <2> DEFINE r == Head(ackResults)
             index == r.message.index
  <2>1. CASE Advances(r)
    <3>1. r \in Responses \cup {Rejection}
      BY <1>8, HeadTailProperties DEF TakeAck, TypeOK
    <3>2. index \in (highestAck + 1)..(nextPacket - 1) /\ index < N
      BY <2>1, <3>1, <1>0, ResponseFacts DEF Advances
    <3>3. progress' = index /\ sent' = sent /\ window' = window
      BY <2>1, <1>8 DEF TakeAck
    <3>4. progress = highestAck /\ Len(sent) = nextPacket
      BY <1>8 DEF TakeAck, Waiting, InWindow, Cursors, SentInOrder
    <3> HIDE DEF index
    <3>5. CASE nextPacket - (progress + 1) <= 1
      BY <3>2, <3>3, <3>4, <3>5, <1>0, <1>2
    <3>6. CASE /\ nextPacket - (progress + 1) <= window.packets
               /\ dag.offset[nextPacket] - dag.offset[progress + 1] <= window.bytes
      <4>1. /\ highestAck + 1 \in 0..N /\ index + 1 \in 0..N
            /\ highestAck + 1 <= index + 1
        BY <3>2, <1>0
      <4>2. /\ dag.offset[highestAck + 1] <= dag.offset[index + 1]
            /\ dag.offset[highestAck + 1] \in Nat /\ dag.offset[index + 1] \in Nat
            /\ dag.offset[nextPacket] \in Nat
        BY <4>1, <1>0, OffsetsGrow
      <4>3. /\ nextPacket - (index + 1) <= window.packets
            /\ dag.offset[nextPacket] - dag.offset[index + 1] <= window.bytes
        BY <3>2, <3>4, <3>6, <4>2, <1>0
      <4> QED
        BY <4>3, <3>3, <3>4, <1>0 DEF WindowRespected
    <3> QED
      BY <3>4, <3>5, <3>6 DEF WindowRespected
  <2>2. CASE ~Advances(r)
    <3>1. UNCHANGED <<sent, progress, window>>
      BY <2>2, <1>8 DEF TakeAck
    <3> QED
      BY <3>1, <1>1
  <2> QED
    BY <2>1, <2>2
<1>9. CASE WriteFails
  <2>1. UNCHANGED <<progress, window>>
    BY <1>9 DEF WriteFails
  <2>2. CASE sent' = sent
    BY <2>1, <2>2, <1>1
  <2>3. CASE sent' = Append(sent, UploadMessage(nextPacket))
    <3>1. Len(sent') = Len(sent) + 1 /\ Len(sent) = nextPacket
      BY <2>3, <1>3, <1>9 DEF WriteFails, SentInOrder, InWindow
    <3>2. CASE InWindow /\ CanSend
      BY <2>1, <3>1, <3>2, <1>0, RoomForOne DEF WindowRespected
    <3>3. CASE pc \in {"start", "legacy"}
      <4>1. progress = nextPacket - 1
        BY <3>3, <1>0 DEF Cursors
      <4> QED
        BY <4>1, <3>1, <2>1, <1>0, <1>2
    <3> QED
      BY <3>2, <3>3, <1>9 DEF WriteFails
  <2> QED
    BY <2>2, <2>3, <1>9 DEF WriteFails
<1>10. CASE \/ RejectSequence \/ LaunchReader \/ Complete \/ Finish \/ ReportError
            \/ SigningFails \/ ReadFails \/ WaitCancelled
  <2>1. UNCHANGED <<sent, progress, window>>
    BY <1>10 DEF RejectSequence, LaunchReader, Complete, Finish, ReportError,
       SigningFails, ReadFails, WaitCancelled
  <2> QED
    BY <2>1, <1>1
<1>11. CASE ~CallerAction
  BY <1>1, <1>11, QuietSteps DEF cursorVars
<1> QED
  BY <1>4, <1>5, <1>6, <1>7, <1>8, <1>9, <1>10, <1>11
     DEF CallerAction, SenderStep, SenderFault

-----------------------------------------------------------------------------
LEMMA ReaderStepKeeps ==
    ASSUME TypeOK, Cursors, ReaderCounts, [Next]_vars
    PROVE  ReaderCounts'
<1>0. /\ dag' = dag /\ N' = N /\ N \in Nat
      /\ nextPacket \in 0..N /\ highestAck \in 0..N /\ remaining \in 0..N
      /\ ackResults \in Seq(Responses \cup {Rejection})
      /\ Len(ackResults) \in Nat
  BY FixedDag, DagFacts, LenProperties DEF TypeOK
<1>1. ASSUME UNCHANGED <<highestAck, readerVars>>,
             pc' = "window" => pc = "window",
             pc' \in {"start", "rootAck", "legacy", "legacyAck", "launch"} =>
                 pc \in {"start", "rootAck", "legacy", "legacyAck", "launch"}
      PROVE  ReaderCounts'
  BY <1>0, <1>1 DEF ReaderCounts, readerVars
<1>2. CASE \/ RejectSequence \/ WriteRoot \/ RootAck \/ LegacyWrite
           \/ LegacyAckStep \/ SendNext \/ Complete \/ Finish \/ ReportError
           \/ SigningFails \/ WriteFails \/ ReadFails \/ WaitCancelled
           \/ Consume \/ PeerResponds \/ StreamBreaks \/ Cancel \/ UNCHANGED vars
  BY <1>1, <1>2
     DEF RejectSequence, WriteRoot, RootAck, LegacyWrite, LegacyAckStep,
     SendNext, InWindow, Complete, Finish, ReportError, SigningFails,
     WriteFails, ReadFails, WaitCancelled, Consume, PeerResponds,
     StreamBreaks, Cancel, vars, mainVars, readerVars
<1>3. CASE LaunchReader
  <2>1. ackResults' = <<>> /\ remaining' = N - 1 /\ reader' = "reading"
        /\ pc' = "window" /\ highestAck' = 0 /\ N > 1
    BY <1>3 DEF LaunchReader, ReaderCounts, Cursors
  <2> QED
    BY <2>1, <1>0 DEF ReaderCounts
<1>4. CASE TakeAck
  <2> DEFINE r == Head(ackResults)
             index == r.message.index
  <2>1. /\ ackResults # <<>> /\ ackResults' = Tail(ackResults) /\ pc = "window"
        /\ reader' = reader /\ remaining' = remaining
    BY <1>4 DEF TakeAck, Waiting, InWindow
  <2>2. /\ r \in Responses \cup {Rejection} /\ r = ackResults[1]
        /\ Len(ackResults') = Len(ackResults) - 1
        /\ \A i \in 1..Len(ackResults') : ackResults'[i] = ackResults[i + 1]
        /\ Len(ackResults) >= 1
    BY <1>0, <2>1, HeadTailProperties, EmptySeq
  <2>3. CASE Advances(r)
    <3>1. index >= highestAck + 1 /\ index \in Int
      BY <2>2, <2>3, <1>0, ResponseFacts DEF Advances
    <3>2. highestAck' = index /\ pc' = pc
      BY <2>3, <1>4 DEF TakeAck
    <3>3. r.ok
      BY <2>3 DEF Advances
    <3> HIDE DEF index
    <3>4. reader # "off" /\ highestAck + Len(ackResults) + remaining >= N - 1
      BY <2>1 DEF ReaderCounts
    <3>5. highestAck' + Len(ackResults') + remaining' >= N - 1
      BY <2>1, <2>2, <3>1, <3>2, <3>4, <1>0
    <3>6. ASSUME reader = "exited", remaining # 0
          PROVE  ackResults' # <<>> /\ ~ackResults'[Len(ackResults')].ok
      <4>1. ~ackResults[Len(ackResults)].ok
        BY <2>1, <3>6 DEF ReaderCounts
      <4>2. Len(ackResults) # 1
        BY <2>2, <3>3, <4>1
      <4>3. Len(ackResults') \in 1..Len(ackResults')
            /\ ackResults'[Len(ackResults')] = ackResults[Len(ackResults)]
        BY <2>2, <4>2, <1>0
      <4> QED
        BY <4>1, <4>3
    <3> QED
      BY <2>1, <3>2, <3>4, <3>5, <3>6, <1>0 DEF ReaderCounts
  <2>4. CASE ~Advances(r)
    <3>1. pc' = "returnErr"
      BY <2>4, <1>4 DEF TakeAck
    <3> QED
      BY <3>1, <2>1 DEF ReaderCounts
  <2> QED
    BY <2>3, <2>4
<1>5. CASE ReaderReceives \/ ReaderFails
  <2>1. /\ pc' = pc /\ highestAck' = highestAck /\ remaining' = remaining
        /\ ackResults' = ackResults /\ reader = "reading" /\ reader' = "offering"
    BY <1>5 DEF ReaderReceives, ReaderFails, mainVars
  <2> QED
    BY <2>1, <1>0 DEF ReaderCounts
<1>6. CASE ReaderOffers
  <2>1. /\ pc' = pc /\ highestAck' = highestAck /\ reader = "offering"
        /\ ackResults' = Append(ackResults, held)
        /\ reader' # "off"
    BY <1>6 DEF ReaderOffers, mainVars
  <2>2. /\ Len(ackResults') = Len(ackResults) + 1
        /\ ackResults'[Len(ackResults')] = held
        /\ ackResults' # <<>>
    BY <2>1, <1>0, AppendProperties DEF TypeOK
  <2>3. CASE held.ok
    <3>1. /\ remaining' = remaining - 1
          /\ reader' = IF remaining = 1 THEN "exited" ELSE "reading"
      BY <2>3, <1>6 DEF ReaderOffers
    <3> QED
      BY <2>1, <2>2, <3>1, <1>0 DEF ReaderCounts
  <2>4. CASE ~held.ok
    <3>1. remaining' = remaining /\ reader' = "exited"
      BY <2>4, <1>6 DEF ReaderOffers
    <3> QED
      BY <2>1, <2>2, <2>4, <3>1, <1>0 DEF ReaderCounts
  <2> QED
    BY <2>3, <2>4
<1>7. CASE ReaderQuits
  <2>1. pc' = pc /\ Returned /\ reader' = "exited"
    BY <1>7 DEF ReaderQuits, mainVars
  <2> QED
    BY <2>1 DEF ReaderCounts, Returned
<1> QED
  BY <1>2, <1>3, <1>4, <1>5, <1>6, <1>7
     DEF Next, SenderStep, SenderFault, ReaderStep

-----------------------------------------------------------------------------
LEMMA InitHolds ==
    ASSUME Init
    PROVE  IInv
<1>1. dag \in Dags /\ N \in Nat
  BY DagFacts DEF Init
<1>2. TypeOK
  <2>1. window \in [packets : 0..MaxWindowPackets, bytes : 0..MaxWindowBytes]
    BY WindowAssumption DEF Init
  <2>2. /\ sent \in Seq(UploadMessages) /\ fromPeer \in Seq(Responses)
        /\ ackResults \in Seq(Responses \cup {Rejection})
    BY EmptySeq DEF Init
  <2>3. /\ nextPacket \in 0..N /\ highestAck \in 0..N /\ progress \in -1..N
        /\ inFlight \in SUBSET (1..N) /\ inFlightBytes \in Nat
        /\ remaining \in 0..N
    BY <1>1 DEF Init
  <2> QED
    BY <1>1, <2>1, <2>2, <2>3 DEF Init, TypeOK
<1>3. SentInOrder /\ Cursors /\ WindowRespected /\ ReaderCounts
  BY <1>1 DEF Init, SentInOrder, Cursors, InFlightExact, WindowRespected,
     ReaderCounts
<1> QED
  BY <1>2, <1>3 DEF IInv

\* The inductive invariant holds in every reachable state.
THEOREM UploadInvariant == Spec => []IInv
<1>1. Init => IInv
  BY InitHolds
<1>2. IInv /\ [Next]_vars => IInv'
  BY TypeStep, SentStep, CursorStep, WindowStep, ReaderStepKeeps DEF IInv
<1> QED
  BY <1>1, <1>2, PTL DEF Spec

\* Every variable of an upload keeps its type.
THEOREM UploadTypeCorrect == Spec => []TypeOK
<1>1. IInv => TypeOK
  BY DEF IInv
<1> QED
  BY <1>1, UploadInvariant, PTL

\* For any packet sizes and any window the peer grants, what is sent and not
\* acknowledged stays within the window (transfer_window.go:253-267).
THEOREM UploadWindow == Spec => []WindowRespected
<1>1. IInv => WindowRespected
  BY DEF IInv
<1> QED
  BY <1>1, UploadInvariant, PTL

\* The in-flight bookkeeping is exact, so "skipped unknown packet" is dead code
\* (transfer_window.go:238-245).
THEOREM UploadInFlightExact == Spec => []InFlightExact
<1>1. IInv => InFlightExact
  BY DEF IInv, Cursors
<1> QED
  BY <1>1, UploadInvariant, PTL

\* readAck is called with a packet in flight (transfer_window.go:253-270).
THEOREM UploadNeverWaitsForNothing == Spec => []NeverWaitsForNothing
<1>1. IInv => NeverWaitsForNothing
  <2> SUFFICES ASSUME IInv, Waiting, inFlight = {}
               PROVE  FALSE
    BY DEF NeverWaitsForNothing
  <2>1. /\ highestAck < nextPacket /\ highestAck < N - 1 /\ window.packets > 0
        /\ inFlight = (highestAck + 1)..(nextPacket - 1)
        /\ nextPacket \in 0..N /\ highestAck \in 0..N /\ N \in Nat
    BY DagFacts DEF IInv, TypeOK, Cursors, InFlightExact, Waiting, InWindow
  <2>2. highestAck + 1 \notin (highestAck + 1)..(nextPacket - 1)
    BY <2>1
  <2>3. nextPacket = highestAck + 1
    BY <2>1, <2>2
  <2>4. nextPacket < N
    BY <2>1, <2>3
  <2>5. Cardinality(inFlight) = 0
    BY FS_EmptySet
  <2> QED
    BY <2>1, <2>4, <2>5 DEF Waiting, CanSend
<1> QED
  BY <1>1, UploadInvariant, PTL

\* While readAck waits for a result there is a goroutine to deliver one
\* (transfer_window.go:185-198).
THEOREM UploadSenderNeverStranded == Spec => []SenderNeverStranded
<1>1. IInv => SenderNeverStranded
  <2> SUFFICES ASSUME IInv, Waiting, ackResults = <<>>
               PROVE  reader \in {"reading", "offering"}
    BY DEF SenderNeverStranded
  <2>1. /\ highestAck < N - 1 /\ pc = "window"
        /\ highestAck \in 0..N /\ N \in Nat /\ remaining \in 0..N
    BY DagFacts DEF IInv, TypeOK, Waiting, InWindow
  <2>2. Len(ackResults) = 0
    OBVIOUS
  <2>3. remaining # 0
    BY <2>1, <2>2 DEF IInv, ReaderCounts
  <2> QED
    BY <2>1, <2>3 DEF IInv, ReaderCounts, TypeOK
<1> QED
  BY <1>1, UploadInvariant, PTL

\* Success is reported only when all packets were sent in order and the last
\* one is acknowledged (upload.go:66-78, transfer_window.go:253-272).
THEOREM UploadSuccess == Spec => []SuccessMeansAllAcked
<1>1. IInv => SuccessMeansAllAcked
  <2> SUFFICES ASSUME IInv, pc \in {"returnOk", "ok"}
               PROVE  /\ sent = [i \in 1..N |-> UploadMessage(i - 1)]
                      /\ N > 0 /\ progress = N - 1
    BY DEF SuccessMeansAllAcked
  <2>1. /\ N > 0 /\ progress = N - 1 /\ Len(sent) = N
        /\ \A i \in DOMAIN sent : sent[i] = UploadMessage(i - 1)
        /\ sent \in Seq(UploadMessages)
    BY DEF IInv, Cursors, SentInOrder, TypeOK
  <2>2. DOMAIN sent = 1..N /\ sent = [i \in DOMAIN sent |-> sent[i]]
    BY <2>1, LenProperties
  <2>3. sent = [i \in 1..N |-> UploadMessage(i - 1)]
    BY <2>1, <2>2
  <2> QED
    BY <2>1, <2>3
<1> QED
  BY <1>1, UploadInvariant, PTL

\* Progress and the cumulative cursor never go back, and each report covers
\* new packets (transfer_window.go:232-249).
THEOREM UploadProgress == Spec => ProgressMonotone
<1>1. IInv /\ [Next]_vars =>
          [ /\ progress' >= progress
            /\ highestAck' >= highestAck
            /\ report' /\ ~report => progress' > progress ]_vars
  <2> SUFFICES ASSUME IInv, [Next]_vars
               PROVE  /\ progress' >= progress
                      /\ highestAck' >= highestAck
                      /\ report' /\ ~report => progress' > progress
    OBVIOUS
  <2>0. /\ nextPacket \in 0..N /\ highestAck \in 0..N /\ progress \in -1..N
        /\ N \in Nat
    BY DagFacts DEF IInv, TypeOK
  <2>1. ASSUME UNCHANGED <<progress, highestAck>>, report' => report
        PROVE  /\ progress' >= progress
               /\ highestAck' >= highestAck
               /\ report' /\ ~report => progress' > progress
    BY <2>0, <2>1
  <2>2. CASE RootAck
    <3>1. progress = -1 /\ highestAck' = highestAck
      BY <2>2 DEF RootAck, IInv, Cursors
    <3>2. \/ UNCHANGED <<progress, report>>
          \/ progress' = 0
      BY <2>2 DEF RootAck
    <3> QED
      BY <3>1, <3>2, <2>0
  <2>3. CASE LegacyAckStep
    <3>1. progress = nextPacket - 2 /\ highestAck' = highestAck
      BY <2>3 DEF LegacyAckStep, IInv, Cursors
    <3>2. \/ UNCHANGED <<progress, report>>
          \/ progress' = nextPacket - 1
      BY <2>3 DEF LegacyAckStep
    <3> QED
      BY <3>1, <3>2, <2>0
  <2>4. CASE TakeAck
    <3> DEFINE r == Head(ackResults)
               index == r.message.index
    <3>1. r \in Responses \cup {Rejection}
      BY <2>4, HeadTailProperties DEF TakeAck, IInv, TypeOK
    <3>2. CASE Advances(r)
      <4>1. index > highestAck /\ index \in Int
        BY <3>1, <3>2, ResponseFacts DEF Advances
      <4>2. progress' = index /\ highestAck' = index /\ progress = highestAck
        BY <3>2, <2>4 DEF TakeAck, Waiting, InWindow, IInv, Cursors
      <4> QED
        BY <4>1, <4>2, <2>0
    <3>3. CASE ~Advances(r)
      BY <2>1, <3>3, <2>4 DEF TakeAck
    <3> QED
      BY <3>2, <3>3
  <2>5. CASE \/ RejectSequence \/ WriteRoot \/ LegacyWrite \/ LaunchReader
             \/ SendNext \/ Complete \/ Finish \/ ReportError \/ SenderFault
    <3>1. UNCHANGED <<progress, highestAck, report>>
      BY <2>5 DEF RejectSequence, WriteRoot, LegacyWrite, LaunchReader, SendNext,
         Complete, Finish, ReportError, SenderFault, SigningFails, WriteFails,
         ReadFails, WaitCancelled
    <3> QED
      BY <2>1, <3>1
  <2>6. CASE \/ ReaderStep \/ ReaderFails \/ PeerResponds \/ StreamBreaks
             \/ Cancel \/ UNCHANGED vars
    <3>1. UNCHANGED <<progress, highestAck, report>>
      BY <2>6 DEF ReaderStep, ReaderReceives, ReaderOffers, ReaderQuits,
         ReaderFails, PeerResponds, StreamBreaks, Cancel, vars, mainVars
    <3> QED
      BY <2>1, <3>1
  <2>7. CASE Consume
    <3>1. UNCHANGED <<progress, highestAck>> /\ report' = FALSE
      BY <2>7 DEF Consume
    <3> QED
      BY <3>1, <2>0
  <2> QED
    BY <2>2, <2>3, <2>4, <2>5, <2>6, <2>7 DEF Next, SenderStep
<1> QED
  BY <1>1, UploadInvariant, PTL DEF Spec, ProgressMonotone
=============================================================================
