--------------------------- MODULE TransferProofs ---------------------------
(***************************************************************************)
(* Proofs about Transfer, for every set of packet sequences and every      *)
(* window of the receiver. The sender's invariant is not proved again:     *)
(* SP is UploadSenderProofs with the sender's variables of Transfer, and   *)
(* its step lemmas are cited.                                              *)
(***************************************************************************)
EXTENDS Transfer, TLAPS, SequenceTheorems, FiniteSetTheorems

SP == INSTANCE UploadSenderProofs WITH
         fromPeer <- replies,
         Responses <- ResponseMessage,
         MaxPending <- MaxPackets

LEMMA SenderAssumptions ==
    SP!DagAssumption /\ SP!PeerAssumption /\ SP!WindowAssumption
<1>1. SP!DagAssumption
  BY TransferAssumption DEF SP!DagAssumption
<1>2. SP!PeerAssumption
  BY TransferAssumption DEF SP!PeerAssumption, SP!ResponseMessage,
     ResponseMessage, SP!AckMessage, AckMessage
<1>3. SP!WindowAssumption
  BY WindowAssumption DEF SP!WindowAssumption
<1> QED
  BY <1>1, <1>2, <1>3

\* The definitions of the two instances are the same formulas.
LEMMA SameInvariant == S!IInv <=> SP!IInv
<1> USE DEF S!N, SP!N
<1>1. S!TypeOK <=> SP!TypeOK
  BY DEF S!TypeOK, SP!TypeOK, S!UploadMessages, SP!UploadMessages, S!Rejection,
     SP!Rejection, S!LegacyAck, SP!LegacyAck
<1>2. S!SentInOrder <=> SP!SentInOrder
  BY DEF S!SentInOrder, SP!SentInOrder, S!UploadMessage, SP!UploadMessage
<1>3. S!Cursors <=> SP!Cursors
  BY DEF S!Cursors, SP!Cursors, S!InFlightExact, SP!InFlightExact
<1>4. S!WindowRespected <=> SP!WindowRespected
  BY DEF S!WindowRespected, SP!WindowRespected
<1>5. S!ReaderCounts <=> SP!ReaderCounts
  BY DEF S!ReaderCounts, SP!ReaderCounts
<1> QED
  BY <1>1, <1>2, <1>3, <1>4, <1>5 DEF S!IInv, SP!IInv

LEMMA SameCanSend == S!CanSend <=> SP!CanSend
<1>1. S!Cardinality(inFlight) = SP!Cardinality(inFlight)
  BY DEF S!Cardinality, SP!Cardinality
<1> QED
  BY <1>1 DEF S!CanSend, SP!CanSend, S!N, SP!N, S!Size, SP!Size

LEMMA SameNext == S!Next => SP!Next
<1> USE DEF S!N, SP!N, S!readerVars, SP!readerVars, S!netVars, SP!netVars,
            S!mainVars, SP!mainVars, S!UploadMessage, SP!UploadMessage,
            S!WritePacket, SP!WritePacket, S!SequenceOK, SP!SequenceOK,
            S!Size, SP!Size, S!InWindow, SP!InWindow,
            S!Waiting, SP!Waiting, S!Rejection, SP!Rejection, S!LegacyAck, SP!LegacyAck,
            S!Returned, SP!Returned, S!AckCapacity, SP!AckCapacity,
            S!ReadWithFreshReader, SP!ReadWithFreshReader,
            S!parseTransferWindowAck, SP!parseTransferWindowAck
<1>1. S!SenderStep => SP!SenderStep
  <2>1. S!RejectSequence => SP!RejectSequence
    BY DEF S!RejectSequence, SP!RejectSequence
  <2>2. S!WriteRoot => SP!WriteRoot
    BY DEF S!WriteRoot, SP!WriteRoot
  <2>3. S!RootAck => SP!RootAck
    BY DEF S!RootAck, SP!RootAck
  <2>4. S!LegacyWrite => SP!LegacyWrite
    BY DEF S!LegacyWrite, SP!LegacyWrite
  <2>5. S!LegacyAckStep => SP!LegacyAckStep
    BY DEF S!LegacyAckStep, SP!LegacyAckStep
  <2>6. S!LaunchReader => SP!LaunchReader
    BY DEF S!LaunchReader, SP!LaunchReader
  <2>7. S!SendNext => SP!SendNext
    BY SameCanSend DEF S!SendNext, SP!SendNext
  <2>8. S!TakeAck => SP!TakeAck
    BY SameCanSend DEF S!TakeAck, SP!TakeAck, S!Advances, SP!Advances
  <2>9. S!Complete => SP!Complete
    BY DEF S!Complete, SP!Complete
  <2>10. S!Finish => SP!Finish
    BY DEF S!Finish, SP!Finish
  <2>11. S!ReportError => SP!ReportError
    BY DEF S!ReportError, SP!ReportError
  <2> QED
    BY <2>1, <2>2, <2>3, <2>4, <2>5, <2>6, <2>7, <2>8, <2>9, <2>10, <2>11
       DEF S!SenderStep, SP!SenderStep
<1>2. S!SenderFault => SP!SenderFault
  BY SameCanSend DEF S!SenderFault, SP!SenderFault, S!SigningFails, SP!SigningFails,
     S!WriteFails, SP!WriteFails, S!ReadFails, SP!ReadFails, S!WaitCancelled,
     SP!WaitCancelled
<1>3. S!ReaderStep => SP!ReaderStep
  BY DEF S!ReaderStep, SP!ReaderStep, S!ReaderReceives, SP!ReaderReceives,
     S!ReaderOffers, SP!ReaderOffers, S!ReaderQuits, SP!ReaderQuits
<1>4. /\ S!ReaderFails => SP!ReaderFails
      /\ S!Consume => SP!Consume
      /\ S!PeerResponds => SP!PeerResponds
      /\ S!StreamBreaks => SP!StreamBreaks
      /\ S!Cancel => SP!Cancel
  BY DEF S!ReaderFails, SP!ReaderFails, S!Consume, SP!Consume, S!PeerResponds,
     SP!PeerResponds, S!StreamBreaks, SP!StreamBreaks, S!Cancel, SP!Cancel
<1> QED
  BY <1>1, <1>2, <1>3, <1>4 DEF S!Next, SP!Next

-----------------------------------------------------------------------------
(* The sender's invariant.                                                 *)

LEMMA SenderKeeps ==
    ASSUME S!IInv, S!Next
    PROVE  S!IInv'
<1>1. SP!TypeOK /\ SP!SentInOrder /\ SP!Cursors /\ SP!WindowRespected /\ SP!ReaderCounts
  BY SameInvariant DEF SP!IInv
<1>2. [SP!Next]_SP!vars
  BY SameNext
<1>3. SP!TypeOK'
  BY <1>1, <1>2, SenderAssumptions, SP!TypeStep
<1>4. SP!SentInOrder' /\ SP!Cursors'
  BY <1>1, <1>2, SenderAssumptions, SP!SentStep, SP!CursorStep
<1>5. SP!WindowRespected' /\ SP!ReaderCounts'
  BY <1>1, <1>2, SenderAssumptions, SP!WindowStep, SP!ReaderStepKeeps
<1>6. SP!IInv'
  BY <1>3, <1>4, <1>5 DEF SP!IInv
<1>7. (S!IInv <=> SP!IInv)'
  BY SameInvariant, PTL
<1> QED
  BY <1>6, <1>7

\* The receiver writes answers and closes the stream, and nothing else that the
\* sender sees.
LEMMA SenderUndisturbed ==
    ASSUME S!IInv, UNCHANGED senderOnly,
           replies' \in Seq(ResponseMessage), closed' \in BOOLEAN
    PROVE  S!IInv'
<1> USE DEF senderOnly, S!N
<1>1. S!TypeOK'
  BY DEF S!IInv, S!TypeOK
<1>2. S!SentInOrder'
  BY DEF S!IInv, S!SentInOrder, S!UploadMessage
<1>3. S!Cursors'
  BY DEF S!IInv, S!Cursors, S!InFlightExact
<1>4. S!WindowRespected' /\ S!ReaderCounts'
  BY DEF S!IInv, S!WindowRespected, S!ReaderCounts
<1> QED
  BY <1>1, <1>2, <1>3, <1>4 DEF S!IInv

-----------------------------------------------------------------------------
(* What the receiver does with a message.                                  *)

\* The message the receiver reads next.
Incoming == Wire(sent[taken + 1], oldPeer)

\* It turns the message down,
Refused ==
    /\ UNCHANGED <<next, windowed, finalized, leafs, accepted, verified>>
    /\ rpc' = "failed"
    /\ replies' = replies \/ replies' = Append(replies, Rejection)

\* or commits it, and then answers, or fails, with or without an answer.
Committed ==
    /\ ~finalized
    /\ accepted' = Append(accepted, Incoming)
    /\ next' = next + 1
    /\ windowed' = ~oldPeer
    /\ finalized' = (taken + 1 = dag.n)
    /\ leafs' = leafs \cup {taken}
    /\ verified' \in BOOLEAN
    /\ \/ /\ rpc' = "report" \/ rpc' = "failed"
          /\ finalized' => verified'
          /\ replies' = Append(replies, R!acknowledgment(taken + 1, ~oldPeer))
       \/ rpc' = "failed" /\ replies' = replies
       \/ rpc' = "failed" /\ replies' = Append(replies, Rejection)

Read ==
    /\ rpc \in {"first", "next"} /\ taken < Len(sent) /\ taken' = taken + 1
    /\ closed' \in BOOLEAN
    /\ UNCHANGED <<senderOnly, setting>>

LEMMA DagFacts ==
    ASSUME S!IInv
    PROVE  /\ dag \in Dags /\ dag.n \in 0..MaxPackets /\ dag.n \in Nat
           /\ MaxPackets \in Nat
BY TransferAssumption DEF S!IInv, S!TypeOK

\* What the receiver reads is the packet after those it has read.
LEMMA IncomingIs ==
    ASSUME IInv, taken < Len(sent)
    PROVE  /\ Incoming \in WireMessages
           /\ Incoming = Wire(S!UploadMessage(taken), oldPeer)
           /\ taken \in 0..(dag.n - 1) /\ dag.n \in Nat
<1>1. /\ dag \in Dags /\ dag.n \in 0..MaxPackets /\ MaxPackets \in Nat
      /\ Len(sent) <= dag.n /\ taken \in 0..Len(sent) /\ oldPeer \in BOOLEAN
  BY DagFacts DEF IInv, ReceiverCursors, ReceiverTypeOK
<1>2. sent \in Seq(S!UploadMessages) /\ \A i \in DOMAIN sent : sent[i] = S!UploadMessage(i - 1)
  BY DEF IInv, S!IInv, S!TypeOK, S!SentInOrder
<1>3. taken + 1 \in DOMAIN sent /\ taken \in 0..(dag.n - 1)
  BY <1>1, <1>2, LenProperties
<1>4. sent[taken + 1] = S!UploadMessage(taken)
  <2>1. (taken + 1) - 1 = taken
    BY <1>1
  <2> QED
    BY <1>2, <1>3, <2>1
<1>5. S!UploadMessage(taken) \in [index : LeafNames, total : {d.n : d \in Dags},
                                  final : BOOLEAN, signed : BOOLEAN]
  BY <1>1, <1>3 DEF S!UploadMessage, S!N, LeafNames
<1> QED
  BY <1>1, <1>3, <1>4, <1>5 DEF Incoming, WireMessages

LEMMA CommitIs ==
    ASSUME IInv, Read, NEW whole, R!Commit(Incoming, whole), whole \in BOOLEAN
    PROVE  /\ ~finalized
           /\ accepted' = Append(accepted, Incoming)
           /\ next' = next + 1 /\ next' = taken + 1
           /\ windowed' = ~oldPeer
           /\ finalized' = (taken + 1 = dag.n)
           /\ leafs' = leafs \cup {taken}
           /\ verified' \in BOOLEAN
           /\ Incoming.final => (whole <=> verified')
           /\ Incoming.final <=> finalized'
<1>1. /\ taken \in 0..(dag.n - 1) /\ dag.n \in Nat /\ taken = Len(accepted)
      /\ next = taken /\ oldPeer \in BOOLEAN
      /\ Incoming = Wire(S!UploadMessage(taken), oldPeer)
      /\ windowed <=> accepted # <<>> /\ ~oldPeer
  <2>1. taken = Len(accepted) /\ next = taken
    <3>1. accepted \in Seq(WireMessages) /\ Len(accepted) <= taken
          /\ next = Len(accepted)
      BY DEF IInv, ReceiverTypeOK, ReceiverCursors
    <3> QED
      BY <3>1, LenProperties DEF Read, IInv, ReceiverCursors
  <2> QED
    BY <2>1, IncomingIs DEF Read, IInv, ReceiverCursors, ReceiverTypeOK
<1>2. /\ Incoming.final = (taken = dag.n - 1)
      /\ Incoming.total = IF oldPeer THEN 0 ELSE dag.n
      /\ Incoming.leaves = <<taken>>
  BY <1>1 DEF Wire, S!UploadMessage, S!N
<1>3. R!LeafSet(Incoming) = {taken}
  BY <1>2 DEF R!LeafSet
<1>4. R!Windowed(Incoming) = ~oldPeer
  <2>1. taken = 0 <=> accepted = <<>>
    BY <1>1, EmptySeq, LenProperties DEF IInv, ReceiverTypeOK
  <2>2. windowed \in BOOLEAN
    BY DEF IInv, ReceiverTypeOK
  <2> QED
    BY <1>1, <1>2, <2>1, <2>2 DEF R!Windowed
<1>5. ~finalized
  BY DEF R!Commit, R!validate
<1>6. /\ accepted' = Append(accepted, Incoming) /\ next' = next + 1
      /\ windowed' = R!Windowed(Incoming) /\ finalized' = Incoming.final
      /\ leafs' = leafs \cup R!LeafSet(Incoming)
      /\ verified' = (Incoming.final /\ whole)
  BY DEF R!Commit, R!commit
<1> QED
  BY <1>1, <1>2, <1>3, <1>4, <1>5, <1>6

LEMMA DeliverIs ==
    ASSUME IInv,
           \/ \E applied, whole \in BOOLEAN : Deliver(applied, whole)
           \/ \E whole \in BOOLEAN : DeliverAckFails(whole)
    PROVE  Read /\ (Refused \/ Committed)
<1>1. Read
  BY DEF Deliver, DeliverAckFails, Receiver, ClosesOnReturn, Read, IInv,
     S!IInv, S!TypeOK
<1>2. ASSUME NEW applied \in BOOLEAN, NEW whole \in BOOLEAN, Deliver(applied, whole)
      PROVE  Refused \/ Committed
  <2>1. \/ R!RejectRoot(Incoming)
        \/ R!RejectPacket(Incoming, applied)
        \/ R!AcceptPacket(Incoming, whole)
        \/ R!RejectDag(Incoming, whole)
    BY <1>2 DEF Deliver, Receiver, R!Receive, Incoming
  <2>2. R!Rejection = Rejection
    BY DEF R!Rejection, Rejection, R!LegacyAck, LegacyAck
  <2>3. CASE R!RejectRoot(Incoming) \/ R!RejectPacket(Incoming, applied)
    BY <2>2, <2>3 DEF R!RejectRoot, R!RejectPacket, R!Reject, R!stateVars, Refused
  <2>4. CASE R!AcceptPacket(Incoming, whole)
    BY <1>1, <2>4, CommitIs DEF R!AcceptPacket, Committed
  <2>5. CASE R!RejectDag(Incoming, whole)
    BY <1>1, <2>2, <2>5, CommitIs DEF R!RejectDag, R!Reject, Committed
  <2> QED
    BY <2>1, <2>3, <2>4, <2>5
<1>3. ASSUME NEW whole \in BOOLEAN, DeliverAckFails(whole)
      PROVE  Refused \/ Committed
  BY <1>1, <1>3, CommitIs
     DEF DeliverAckFails, Receiver, R!AckFails, Incoming, Committed
<1> QED
  BY <1>1, <1>2, <1>3

\* The steps of the receiver that read and write nothing.
Silent ==
    /\ \/ rpc' = "failed"
       \/ rpc = "start" /\ rpc' = "first"
       \/ rpc = "report" /\ rpc' \in {"next", "done"}
    /\ closed' \in BOOLEAN
    /\ UNCHANGED <<next, windowed, finalized, leafs, accepted, verified, replies,
                   taken, senderOnly, setting>>

LEMMA SilentIs ==
    ASSUME IInv, Request \/ Reported \/ ReceiverFails
    PROVE  Silent
<1>1. closed \in BOOLEAN
  BY DEF IInv, S!IInv, S!TypeOK
<1> QED
  BY <1>1 DEF Request, Reported, ReceiverFails, Receiver, ClosesOnReturn,
     R!Request, R!Reported, R!ReceiveFails, R!RequestFails, R!stateVars, Silent

ReceiverStep == Silent \/ (Read /\ Refused) \/ (Read /\ Committed)

\* The acknowledgment of packet k - 1 is an answer like any other.
LEMMA AcknowledgmentFacts ==
    ASSUME NEW k \in Nat, oldPeer \in BOOLEAN
    PROVE  LET a == R!acknowledgment(k, ~oldPeer)
           IN  /\ a \in ResponseMessage
               /\ a.ok
               /\ ~oldPeer => a.message.index = k - 1
               /\ oldPeer => a.message.index = 0
               /\ oldPeer => a.message.proto = "none"
<1> USE WindowAssumption DEF R!acknowledgment, ResponseMessage, AckMessage
<1>1. CASE oldPeer
  BY <1>1 DEF R!LegacyAck, LegacyAck
<1>2. CASE ~oldPeer
  BY <1>2 DEF R!encodeTransferWindowAck
<1> QED
  BY <1>1, <1>2

LEMMA RejectionFacts == Rejection \in ResponseMessage /\ ~Rejection.ok
BY DEF Rejection, LegacyAck, ResponseMessage, AckMessage

LEMMA TransferTypes ==
    ASSUME IInv
    PROVE  /\ dag.n \in Nat
           /\ Len(sent) \in Nat /\ taken \in Nat /\ Len(accepted) \in Nat
           /\ Len(replies) \in Nat /\ Len(ackResults) \in Nat
           /\ DOMAIN replies = 1..Len(replies)
           /\ DOMAIN ackResults = 1..Len(ackResults)
           /\ progress \in Int /\ progress >= -1
           /\ replies \in Seq(ResponseMessage)
           /\ ackResults \in Seq(ResponseMessage)
           /\ held \in ResponseMessage
           /\ Covered \in Int /\ Covered <= Len(accepted)
           /\ Offered \in 0..1
<1>1. /\ sent \in Seq(S!UploadMessages) /\ replies \in Seq(ResponseMessage)
      /\ ackResults \in Seq(ResponseMessage \cup {S!Rejection})
      /\ held \in ResponseMessage \cup {S!Rejection}
      /\ progress \in -1..dag.n
  BY DEF IInv, S!IInv, S!TypeOK, S!N
<1>2. accepted \in Seq(WireMessages) /\ taken \in 0..Len(sent)
  BY DEF IInv, ReceiverTypeOK, ReceiverCursors
<1>3. S!Rejection \in ResponseMessage
  BY RejectionFacts DEF S!Rejection, Rejection, S!LegacyAck, LegacyAck
<1>4. ackResults \in Seq(ResponseMessage) /\ held \in ResponseMessage
  <2>1. ResponseMessage \cup {S!Rejection} = ResponseMessage
    BY <1>3
  <2> QED
    BY <1>1, <2>1
<1>5. /\ Len(sent) \in Nat /\ taken \in Nat /\ Len(accepted) \in Nat
      /\ Len(replies) \in Nat /\ Len(ackResults) \in Nat
      /\ DOMAIN replies = 1..Len(replies)
      /\ DOMAIN ackResults = 1..Len(ackResults)
  BY <1>1, <1>2, <1>4, LenProperties
<1>6. dag.n \in Nat
  BY DagFacts DEF IInv
<1> QED
  BY <1>1, <1>4, <1>5, <1>6 DEF Covered, Offered

LEMMA ReceiverStepTypes ==
    ASSUME IInv, ReceiverStep
    PROVE  ReceiverTypeOK' /\ replies' \in Seq(ResponseMessage) /\ S!IInv'
<1>0. taken \in Nat /\ oldPeer \in BOOLEAN /\ replies \in Seq(ResponseMessage)
  BY TransferTypes DEF IInv, ReceiverTypeOK
<1>1. replies' \in Seq(ResponseMessage)
  <2>1. Append(replies, Rejection) \in Seq(ResponseMessage)
    BY <1>0, RejectionFacts, AppendProperties
  <2>2. Append(replies, R!acknowledgment(taken + 1, ~oldPeer)) \in Seq(ResponseMessage)
    BY <1>0, AcknowledgmentFacts, AppendProperties
  <2> QED
    BY <1>0, <2>1, <2>2 DEF ReceiverStep, Silent, Refused, Committed
<1>2. ReceiverTypeOK'
  <2>1. CASE Silent
    BY <2>1 DEF Silent, setting, IInv, ReceiverTypeOK
  <2>2. CASE Read /\ Refused
    BY <2>2 DEF Read, Refused, setting, IInv, ReceiverTypeOK
  <2>3. CASE Read /\ Committed
    <3>1. accepted' \in Seq(WireMessages)
      BY <2>3, IncomingIs, AppendProperties
         DEF Read, Committed, IInv, ReceiverTypeOK
    <3> QED
      BY <3>1, <2>3 DEF Read, Committed, setting, IInv, ReceiverTypeOK
  <2> QED
    BY <2>1, <2>2, <2>3 DEF ReceiverStep
<1>3. S!IInv'
  BY <1>1, SenderUndisturbed DEF ReceiverStep, Silent, Read, IInv
<1> QED
  BY <1>1, <1>2, <1>3

\* What a receiver that reads has committed is what it has read.
LEMMA ReaderIsAbreast ==
    ASSUME IInv, rpc \in {"first", "next"}
    PROVE  taken = Len(accepted)
BY TransferTypes DEF IInv, ReceiverCursors

LEMMA ReceiverStepCursors ==
    ASSUME IInv, ReceiverStep
    PROVE  ReceiverCursors'
<1>0. dag.n \in Nat /\ Len(sent) \in Nat /\ taken \in Nat /\ Len(accepted) \in Nat
  BY TransferTypes
<1>1. dag' = dag /\ sent' = sent /\ oldPeer' = oldPeer
  BY DEF ReceiverStep, Silent, Read, senderOnly, setting
<1>2. CASE Silent
  BY <1>0, <1>1, <1>2 DEF Silent, IInv, ReceiverCursors
<1>3. CASE Read /\ Refused
  BY <1>0, <1>1, <1>3, ReaderIsAbreast DEF Read, Refused, IInv, ReceiverCursors
<1>4. CASE Read /\ Committed
  <2>1. /\ accepted' # <<>> /\ Len(accepted') = Len(accepted) + 1
    BY <1>4, IncomingIs, AppendProperties DEF Read, Committed, IInv, ReceiverTypeOK
  <2>2. taken = Len(accepted) /\ taken' = taken + 1 /\ taken < Len(sent)
    BY <1>4, ReaderIsAbreast DEF Read
  <2>3. leafs' = 0..(Len(accepted') - 1)
    BY <1>0, <1>4, <2>1, <2>2 DEF Committed, IInv, ReceiverCursors
  <2>4. finalized' <=> accepted' # <<>> /\ Len(accepted') = dag'.n
    BY <1>1, <1>4, <2>1, <2>2 DEF Committed
  <2>5. windowed' <=> accepted' # <<>> /\ ~oldPeer'
    BY <1>1, <1>4, <2>1 DEF Committed
  <2>6. rpc' \in {"report", "failed"} /\ next' = Len(accepted')
    BY <1>4, <2>1 DEF Committed, IInv, ReceiverCursors
  <2> QED
    BY <1>0, <1>1, <2>1, <2>2, <2>3, <2>4, <2>5, <2>6 DEF IInv, ReceiverCursors
<1> QED
  BY <1>2, <1>3, <1>4 DEF ReceiverStep

LEMMA CoveredGrows ==
    ASSUME IInv, ReceiverStep
    PROVE  /\ Covered' \in Int /\ Covered' >= Covered
           /\ Committed /\ Read /\ (finalized' => verified') =>
                  Covered' = taken + 1
<1>0. Len(accepted) \in Nat /\ Covered \in Int /\ Covered <= Len(accepted)
  BY TransferTypes
<1>1. CASE Silent \/ (Read /\ Refused)
  <2>1. Covered' = Covered
    BY <1>1 DEF Silent, Refused, Covered
  <2>2. ~Committed
    <3>1. Len(accepted) # Len(accepted) + 1
      BY <1>0
    <3>2. Committed /\ Read => Len(accepted') = Len(accepted) + 1
      BY IncomingIs, AppendProperties DEF Read, Committed, IInv, ReceiverTypeOK
    <3>3. Committed /\ Silent => FALSE
      <4>1. Committed /\ Silent => windowed' = windowed /\ next' = next
        BY DEF Silent
      <4>2. next \in Nat
        BY <1>0 DEF IInv, ReceiverCursors
      <4> QED
        BY <4>1, <4>2 DEF Committed
    <3> QED
      BY <3>1, <3>2, <3>3, <1>1 DEF Refused
  <2> QED
    BY <1>0, <2>1, <2>2
<1>2. CASE Read /\ Committed
  <2>1. Len(accepted') = taken + 1 /\ taken = Len(accepted)
    BY <1>2, IncomingIs, AppendProperties, ReaderIsAbreast
       DEF Read, Committed, IInv, ReceiverTypeOK
  <2> QED
    BY <1>0, <1>2, <2>1 DEF Covered, Committed
<1> QED
  BY <1>1, <1>2 DEF ReceiverStep

\* How the answers on their way change: at most one is added, at the end, and it
\* is either a refusal, the last thing written, or the acknowledgment of the
\* packet read, which is covered from then on.
LEMMA ReceiverAnswers ==
    ASSUME IInv, ReceiverStep
    PROVE  \/ replies' = replies /\ taken' = taken /\ (rpc = "failed" => rpc' = "failed")
           \/ /\ taken' = taken + 1 /\ rpc # "failed" /\ rpc' = "failed"
              /\ replies' = replies
           \/ /\ taken' = taken + 1 /\ rpc # "failed" /\ rpc' = "failed"
              /\ replies' = Append(replies, Rejection)
           \/ /\ taken' = taken + 1 /\ rpc # "failed"
              /\ replies' = Append(replies, R!acknowledgment(taken + 1, ~oldPeer))
              /\ Covered' = taken + 1
<1>1. CASE Silent
  BY <1>1 DEF Silent
<1>2. CASE Read /\ Refused
  BY <1>2 DEF Read, Refused
<1>3. CASE Read /\ Committed
  BY <1>3, CoveredGrows DEF Read, Committed
<1> QED
  BY <1>1, <1>2, <1>3 DEF ReceiverStep

LEMMA ReceiverStepGenuine ==
    ASSUME IInv, ReceiverStep
    PROVE  AnswersGenuine'
<1>0. /\ Covered \in Int /\ Covered' \in Int /\ Covered' >= Covered
      /\ progress \in Int /\ replies \in Seq(ResponseMessage)
      /\ DOMAIN replies = 1..Len(replies) /\ Len(replies) \in Nat
      /\ taken \in Nat /\ oldPeer \in BOOLEAN
      /\ UNCHANGED <<progress, ackResults, held, oldPeer>>
  BY CoveredGrows, TransferTypes
     DEF ReceiverStep, Silent, Read, senderOnly, setting, IInv, ReceiverTypeOK
<1> DEFINE GenuineThen(a) ==
        a.ok => \E k \in 1..Covered' : a = R!acknowledgment(k, ~oldPeer)
<1>1. \A a : Genuine(a) => GenuineThen(a)
  BY <1>0 DEF Genuine
<1>2. progress' + 1 <= Covered'
  BY <1>0 DEF IInv, AnswersGenuine
<1>3. /\ \A i \in DOMAIN ackResults' : GenuineThen(ackResults'[i])
      /\ GenuineThen(held')
  <2> HIDE DEF GenuineThen
  <2> QED
    BY <1>0, <1>1 DEF IInv, AnswersGenuine
<1>4. /\ \A i \in DOMAIN replies' : GenuineThen(replies'[i])
      /\ \A i \in DOMAIN replies' : ~replies'[i].ok => rpc' = "failed"
  <2>0. /\ \A i \in DOMAIN replies : GenuineThen(replies[i])
        /\ \A i \in DOMAIN replies : ~replies[i].ok => rpc = "failed"
    <3> HIDE DEF GenuineThen
    <3> QED
      BY <1>1 DEF IInv, AnswersGenuine
  <2>1. CASE replies' = replies /\ (rpc = "failed" => rpc' = "failed")
    <3> HIDE DEF GenuineThen
    <3> QED
      BY <2>0, <2>1
  <2>2. ASSUME NEW a \in ResponseMessage, replies' = Append(replies, a),
               GenuineThen(a), ~a.ok => rpc' = "failed", rpc # "failed"
        PROVE  <1>4!1 /\ <1>4!2
    <3>1. /\ DOMAIN replies' = 1..(Len(replies) + 1)
          /\ replies'[Len(replies) + 1] = a
          /\ \A i \in 1..Len(replies) : replies'[i] = replies[i]
      BY <1>0, <2>2, AppendProperties, LenProperties
    <3>2. \A i \in DOMAIN replies' : i \in DOMAIN replies \/ i = Len(replies) + 1
      BY <1>0, <3>1
    <3> HIDE DEF GenuineThen
    <3> QED
      BY <1>0, <2>0, <2>2, <3>1, <3>2
  <2>3. CASE replies' = Append(replies, Rejection) /\ rpc' = "failed" /\ rpc # "failed"
    BY <2>2, <2>3, RejectionFacts
  <2>4. CASE /\ replies' = Append(replies, R!acknowledgment(taken + 1, ~oldPeer))
             /\ Covered' = taken + 1 /\ rpc # "failed"
    <3> DEFINE a == R!acknowledgment(taken + 1, ~oldPeer)
    <3>1. a \in ResponseMessage /\ a.ok
      BY <1>0, AcknowledgmentFacts
    <3>2. GenuineThen(a)
      <4>1. taken + 1 \in 1..Covered'
        BY <1>0, <2>4
      <4> QED
        BY <4>1
    <3> HIDE DEF GenuineThen, a
    <3>3. replies' = Append(replies, a)
      BY <2>4 DEF a
    <3> QED
      BY <2>2, <2>4, <3>1, <3>2, <3>3
  <2> QED
    <3> HIDE DEF GenuineThen
    <3> QED
      BY <2>1, <2>3, <2>4, ReceiverAnswers
<1> QED
  BY <1>0, <1>2, <1>3, <1>4 DEF AnswersGenuine, Genuine

LEMMA ReceiverStepStopAndWait ==
    ASSUME IInv, ReceiverStep
    PROVE  StopAndWait'
<1> SUFFICES ASSUME pc \in {"start", "rootAck", "legacy", "legacyAck", "launch"}
             PROVE  /\ progress + 1 + Len(replies') <= taken'
                    /\ rpc' # "failed" => progress + 1 + Len(replies') = taken'
                    /\ \A i \in DOMAIN replies' :
                           replies'[i].ok => progress + 1 + i <= Covered'
                    /\ pc = "launch" => ~oldPeer
  BY DEF ReceiverStep, Silent, Read, senderOnly, setting, StopAndWait
<1>0. /\ Covered \in Int /\ Covered' \in Int /\ Covered' >= Covered
      /\ progress \in Int /\ replies \in Seq(ResponseMessage)
      /\ DOMAIN replies = 1..Len(replies) /\ Len(replies) \in Nat
      /\ taken \in Nat /\ oldPeer \in BOOLEAN
  BY CoveredGrows, TransferTypes DEF IInv, ReceiverTypeOK
<1>1. /\ progress + 1 + Len(replies) <= taken
      /\ rpc # "failed" => progress + 1 + Len(replies) = taken
      /\ \A i \in DOMAIN replies : replies[i].ok => progress + 1 + i <= Covered
      /\ pc = "launch" => ~oldPeer
  BY DEF IInv, StopAndWait
<1>2. CASE replies' = replies /\ taken' = taken /\ (rpc = "failed" => rpc' = "failed")
  BY <1>0, <1>1, <1>2
<1>3. CASE taken' = taken + 1 /\ rpc' = "failed" /\ replies' = replies
  BY <1>0, <1>1, <1>3
<1>4. ASSUME NEW a \in ResponseMessage, replies' = Append(replies, a),
             taken' = taken + 1, rpc # "failed", a.ok => Covered' = taken + 1
      PROVE  /\ progress + 1 + Len(replies') <= taken'
             /\ rpc' # "failed" => progress + 1 + Len(replies') = taken'
             /\ \A i \in DOMAIN replies' :
                    replies'[i].ok => progress + 1 + i <= Covered'
  <2>1. /\ DOMAIN replies' = 1..(Len(replies) + 1)
        /\ Len(replies') = Len(replies) + 1
        /\ replies'[Len(replies) + 1] = a
        /\ \A i \in 1..Len(replies) : replies'[i] = replies[i]
    BY <1>0, <1>4, AppendProperties, LenProperties
  <2>2. ASSUME NEW i \in DOMAIN replies', replies'[i].ok
        PROVE  progress + 1 + i <= Covered'
    <3>1. CASE i \in DOMAIN replies
      BY <1>0, <1>1, <2>1, <2>2, <3>1
    <3>2. CASE i = Len(replies) + 1
      BY <1>0, <1>1, <1>4, <2>1, <2>2, <3>2
    <3> QED
      BY <1>0, <2>1, <3>1, <3>2
  <2> QED
    BY <1>0, <1>1, <1>4, <2>1, <2>2
<1>5. CASE /\ taken' = taken + 1 /\ rpc # "failed"
           /\ replies' = Append(replies, Rejection)
  BY <1>1, <1>4, <1>5, RejectionFacts
<1>6. CASE /\ taken' = taken + 1 /\ rpc # "failed"
           /\ replies' = Append(replies, R!acknowledgment(taken + 1, ~oldPeer))
           /\ Covered' = taken + 1
  <2> DEFINE a == R!acknowledgment(taken + 1, ~oldPeer)
  <2>1. a \in ResponseMessage
    BY <1>0, AcknowledgmentFacts
  <2> HIDE DEF a
  <2>2. replies' = Append(replies, a)
    BY <1>6 DEF a
  <2> QED
    BY <1>1, <1>4, <1>6, <2>1, <2>2
<1> QED
  BY <1>2, <1>3, <1>5, <1>6, ReceiverAnswers

LEMMA ReceiverStepPipeline ==
    ASSUME IInv, ReceiverStep
    PROVE  Pipeline'
<1>a. /\ UNCHANGED <<reader, held, oldPeer, window, progress, ackResults, pc>>
      /\ Offered' = Offered /\ StillInOrder' = StillInOrder
  BY DEF ReceiverStep, Silent, Read, senderOnly, setting, Offered, StillInOrder
<1> SUFFICES ASSUME reader \in {"reading", "offering"}
             PROVE  /\ progress + 1 + Len(ackResults) + Offered + Len(replies') <= taken'
                    /\ pc = "window" /\ StillInOrder =>
                         /\ rpc' # "failed" =>
                              progress + 1 + Len(ackResults) + Offered + Len(replies')
                                  = taken'
                         /\ \A i \in DOMAIN replies' : replies'[i].ok =>
                                replies'[i].message.index =
                                    progress + Len(ackResults) + Offered + i
  BY <1>a DEF IInv, Pipeline
<1>0. /\ progress \in Int /\ replies \in Seq(ResponseMessage)
      /\ DOMAIN replies = 1..Len(replies) /\ Len(replies) \in Nat
      /\ taken \in Nat /\ oldPeer \in BOOLEAN /\ Len(ackResults) \in Nat
      /\ Offered \in Int
  BY TransferTypes DEF IInv, ReceiverTypeOK
<1> DEFINE base == progress + Len(ackResults) + Offered
<1>b. base \in Int /\ base + 1 = progress + 1 + Len(ackResults) + Offered
  BY <1>0
<1>1. /\ base + 1 + Len(replies) <= taken
      /\ pc = "window" /\ StillInOrder =>
             /\ rpc # "failed" => base + 1 + Len(replies) = taken
             /\ \A i \in DOMAIN replies :
                    replies[i].ok => replies[i].message.index = base + i
      /\ ~oldPeer
  BY <1>0 DEF IInv, Pipeline
<1>c. SUFFICES /\ base + 1 + Len(replies') <= taken'
               /\ pc = "window" /\ StillInOrder =>
                    /\ rpc' # "failed" => base + 1 + Len(replies') = taken'
                    /\ \A i \in DOMAIN replies' :
                           replies'[i].ok => replies'[i].message.index = base + i
  BY <1>b
<1> HIDE DEF base
<1>2. CASE replies' = replies /\ taken' = taken /\ (rpc = "failed" => rpc' = "failed")
  BY <1>0, <1>1, <1>2
<1>3. CASE taken' = taken + 1 /\ rpc' = "failed" /\ replies' = replies
  BY <1>0, <1>b, <1>1, <1>3
<1>4. ASSUME NEW a \in ResponseMessage, replies' = Append(replies, a),
             taken' = taken + 1, rpc # "failed", a.ok => a.message.index = taken
      PROVE  /\ base + 1 + Len(replies') <= taken'
             /\ pc = "window" /\ StillInOrder =>
                    /\ rpc' # "failed" => base + 1 + Len(replies') = taken'
                    /\ \A i \in DOMAIN replies' :
                           replies'[i].ok => replies'[i].message.index = base + i
  <2>1. /\ DOMAIN replies' = 1..(Len(replies) + 1)
        /\ Len(replies') = Len(replies) + 1
        /\ replies'[Len(replies) + 1] = a
        /\ \A i \in 1..Len(replies) : replies'[i] = replies[i]
    BY <1>0, <1>4, AppendProperties, LenProperties
  <2>2. ASSUME pc = "window", StillInOrder, NEW i \in DOMAIN replies', replies'[i].ok
        PROVE  replies'[i].message.index = base + i
    <3>1. CASE i \in DOMAIN replies
      BY <1>0, <1>1, <2>1, <2>2, <3>1
    <3>2. CASE i = Len(replies) + 1
      BY <1>0, <1>b, <1>1, <1>4, <2>1, <2>2, <3>2
    <3> QED
      BY <1>0, <2>1, <3>1, <3>2
  <2> QED
    BY <1>0, <1>b, <1>1, <1>4, <2>1, <2>2
<1>5. CASE /\ taken' = taken + 1 /\ rpc # "failed"
           /\ replies' = Append(replies, Rejection)
  BY <1>4, <1>5, RejectionFacts
<1>6. CASE /\ taken' = taken + 1 /\ rpc # "failed"
           /\ replies' = Append(replies, R!acknowledgment(taken + 1, ~oldPeer))
  <2> DEFINE a == R!acknowledgment(taken + 1, ~oldPeer)
  <2>1. a \in ResponseMessage /\ a.message.index = (taken + 1) - 1
    BY <1>0, <1>1, AcknowledgmentFacts
  <2> HIDE DEF a
  <2>2. replies' = Append(replies, a)
    BY <1>6 DEF a
  <2>3. a.message.index = taken
    BY <1>0, <2>1
  <2> QED
    BY <1>4, <1>6, <2>1, <2>2, <2>3
<1> QED
  BY <1>2, <1>3, <1>5, <1>6, ReceiverAnswers

LEMMA ReceiverStepKeeps ==
    ASSUME IInv, ReceiverStep
    PROVE  IInv'
BY ReceiverStepTypes, ReceiverStepCursors, ReceiverStepGenuine,
   ReceiverStepStopAndWait, ReceiverStepPipeline DEF IInv

-----------------------------------------------------------------------------
(* What the sender's side does to the rest of the transfer.                *)

SenderAction ==
    \/ S!SenderStep \/ S!SenderFault \/ S!ReaderStep \/ S!ReaderFails
    \/ S!Consume \/ S!StreamBreaks \/ S!Cancel

\* The steps of the caller's goroutine that only decide where it goes next, and
\* those of the world around it: neither touches an answer or a packet. They
\* never bring the caller back to a point before.
Aside ==
    /\ UNCHANGED <<dag, sent, nextPacket, highestAck, window, progress, reader,
                   remaining, held, ackResults, replies>>
    /\ pc' = pc \/ pc' \in {"returnOk", "returnErr", "ok", "err"}

LEMMA AsideIs ==
    ASSUME \/ S!RejectSequence \/ S!Complete \/ S!Finish \/ S!ReportError
           \/ S!SigningFails \/ S!ReadFails \/ S!WaitCancelled
           \/ S!Consume \/ S!StreamBreaks \/ S!Cancel
    PROVE  Aside
BY DEF Aside, S!RejectSequence, S!Complete, S!Finish, S!ReportError,
   S!SigningFails, S!ReadFails, S!WaitCancelled, S!Consume, S!StreamBreaks,
   S!Cancel, S!mainVars, S!readerVars, S!netVars

\* A write hands over the next packet, or, when it fails, perhaps.
Write ==
    /\ nextPacket < dag.n /\ Len(sent) = nextPacket
    /\ sent' \in {sent, Append(sent, S!UploadMessage(nextPacket))}
    /\ UNCHANGED <<dag, highestAck, window, progress, reader, remaining, held,
                   ackResults, replies>>
    /\ \/ pc = "start" /\ pc' = "rootAck"
       \/ pc = "legacy" /\ pc' = "legacyAck"
       \/ pc = "window" /\ pc' = "window"
       \/ pc' = "returnErr"

LEMMA WriteIs ==
    ASSUME IInv, S!WriteRoot \/ S!LegacyWrite \/ S!SendNext \/ S!WriteFails
    PROVE  Write
<1>1. /\ S!SentInOrder /\ S!Cursors /\ dag.n \in Nat
      /\ nextPacket \in 0..dag.n
  BY DagFacts DEF IInv, S!IInv, S!TypeOK, S!N
<1>2. Len(sent) = nextPacket
  BY <1>1 DEF S!SentInOrder, S!WriteRoot, S!LegacyWrite, S!SendNext, S!WriteFails,
     S!InWindow
<1>3. nextPacket < dag.n
  <2>1. CASE pc = "start" /\ S!SequenceOK
    BY <1>1, <2>1 DEF S!Cursors, S!SequenceOK, S!N
  <2>2. CASE pc = "legacy"
    BY <1>1, <2>2 DEF S!Cursors, S!N
  <2>3. CASE S!CanSend
    BY <2>3 DEF S!CanSend, S!N
  <2> QED
    BY <2>1, <2>2, <2>3 DEF S!WriteRoot, S!LegacyWrite, S!SendNext, S!WriteFails
<1> QED
  BY <1>2, <1>3 DEF Write, S!WriteRoot, S!LegacyWrite, S!SendNext, S!WriteFails,
     S!WritePacket, S!InWindow, S!readerVars, S!netVars

LEMMA WriteLengths ==
    ASSUME IInv, Write
    PROVE  Len(sent') >= Len(sent) /\ Len(sent') <= dag.n /\ Len(sent') \in Nat
<1>1. /\ sent \in Seq(S!UploadMessages) /\ nextPacket \in Nat /\ dag.n \in Nat
      /\ Len(sent) <= dag.n /\ Len(sent) \in Nat
  BY DagFacts, TransferTypes DEF IInv, S!IInv, S!TypeOK, S!N, ReceiverCursors
<1>2. S!UploadMessage(nextPacket) \in S!UploadMessages
  BY <1>1 DEF S!UploadMessage, S!UploadMessages, S!N
<1>3. Len(Append(sent, S!UploadMessage(nextPacket))) = Len(sent) + 1
  BY <1>1, <1>2, AppendProperties
<1> QED
  BY <1>1, <1>3 DEF Write

\* An answer read with a reader made for it alone: it was the only one.
FreshRead ==
    /\ replies # <<>> /\ Len(replies) = 1 /\ replies' = <<>>
    /\ UNCHANGED <<dag, sent, nextPacket, highestAck, reader, remaining, held,
                   ackResults>>

LEMMA StopAndWaitLengths ==
    ASSUME IInv
    PROVE  /\ pc \in {"rootAck", "legacyAck"} => Len(replies) <= 1
           /\ pc \in {"legacy", "launch"} => replies = <<>>
<1>1. /\ S!SentInOrder /\ S!Cursors /\ nextPacket \in Nat
      /\ taken <= Len(sent) /\ Len(sent) \in Nat /\ taken \in Nat
      /\ progress \in Int /\ Len(replies) \in Nat /\ replies \in Seq(ResponseMessage)
  BY TransferTypes DEF IInv, S!IInv, S!TypeOK, ReceiverCursors
<1>2. pc \in {"rootAck", "legacy", "legacyAck", "launch"} =>
          /\ Len(sent) = nextPacket
          /\ progress + 1 + Len(replies) <= nextPacket
  BY <1>1 DEF S!SentInOrder, IInv, StopAndWait
<1>3. pc \in {"rootAck", "legacyAck"} => Len(replies) <= 1
  BY <1>1, <1>2 DEF S!Cursors
<1>4. pc \in {"legacy", "launch"} => Len(replies) = 0
  BY <1>1, <1>2 DEF S!Cursors
<1> QED
  BY <1>1, <1>3, <1>4, EmptySeq

LEMMA FreshReadIs ==
    ASSUME IInv, S!RootAck \/ S!LegacyAckStep
    PROVE  FreshRead
<1>1. /\ pc \in {"rootAck", "legacyAck"} /\ S!ReadWithFreshReader
      /\ UNCHANGED <<dag, sent, nextPacket, highestAck, reader, remaining, held,
                     ackResults>>
  BY DEF S!RootAck, S!LegacyAckStep, S!readerVars
<1>2. /\ replies # <<>> /\ replies \in Seq(ResponseMessage) /\ Len(replies) \in Nat
  BY <1>1, TransferTypes DEF S!ReadWithFreshReader
<1>3. Len(replies) = 1
  <2>1. Len(replies) <= 1
    BY <1>1, StopAndWaitLengths
  <2>2. Len(replies) # 0
    BY <1>2, EmptySeq
  <2> QED
    BY <1>2, <2>1, <2>2
<1>4. replies' = SubSeq(replies, 2, 1)
  BY <1>1, <1>3 DEF S!ReadWithFreshReader
<1>5. replies' = <<>>
  BY <1>2, <1>4, SubSeqProperties, EmptySeq
<1> QED
  BY <1>1, <1>2, <1>3, <1>5 DEF FreshRead

LEMMA SenderStepCursors ==
    ASSUME IInv, Sender(SenderAction)
    PROVE  ReceiverTypeOK' /\ ReceiverCursors'
<1>1. UNCHANGED <<receiverOnly, setting>>
  BY DEF Sender
<1>2. ReceiverTypeOK'
  BY <1>1 DEF receiverOnly, setting, IInv, ReceiverTypeOK
<1>3. /\ Len(sent) \in Nat /\ taken \in 0..Len(sent) /\ dag.n \in Nat
      /\ Len(sent) <= dag.n
  BY TransferTypes DEF IInv, ReceiverCursors
<1>4. ASSUME dag' = dag, Len(sent') \in Nat, Len(sent') >= Len(sent),
             Len(sent') <= dag.n
      PROVE  ReceiverCursors'
  BY <1>1, <1>3, <1>4 DEF receiverOnly, setting, IInv, ReceiverCursors
<1>5. CASE S!WriteRoot \/ S!LegacyWrite \/ S!SendNext \/ S!WriteFails
  BY <1>2, <1>4, <1>5, WriteIs, WriteLengths DEF Write
<1>6. CASE \/ S!RejectSequence \/ S!Complete \/ S!Finish \/ S!ReportError
           \/ S!SigningFails \/ S!ReadFails \/ S!WaitCancelled
           \/ S!Consume \/ S!StreamBreaks \/ S!Cancel
  BY <1>2, <1>3, <1>4, <1>6, AsideIs DEF Aside
<1>7. CASE \/ S!RootAck \/ S!LegacyAckStep \/ S!LaunchReader \/ S!TakeAck
           \/ S!ReaderStep \/ S!ReaderFails
  <2>1. dag' = dag /\ sent' = sent
    BY <1>7 DEF S!RootAck, S!LegacyAckStep, S!LaunchReader, S!TakeAck, S!ReaderStep,
       S!ReaderReceives, S!ReaderOffers, S!ReaderQuits, S!ReaderFails, S!mainVars
  <2> QED
    BY <2>1, <1>2, <1>3, <1>4
<1> QED
  BY <1>5, <1>6, <1>7 DEF Sender, SenderAction, S!SenderStep, S!SenderFault

\* Answers move from replies through held to ackResults; none is made up but
\* the refusal that stands for a failed read.
LEMMA AnswersMove ==
    ASSUME IInv, SenderAction
    PROVE  /\ \A i \in DOMAIN replies' : \E j \in DOMAIN replies : replies'[i] = replies[j]
           /\ \A i \in DOMAIN ackResults' :
                  \/ ackResults'[i] = held
                  \/ \E j \in DOMAIN ackResults : ackResults'[i] = ackResults[j]
           /\ \/ held' = held \/ held' = S!Rejection
              \/ \E j \in DOMAIN replies : held' = replies[j]
<1>0. /\ DOMAIN replies = 1..Len(replies) /\ Len(replies) \in Nat
      /\ DOMAIN ackResults = 1..Len(ackResults) /\ Len(ackResults) \in Nat
      /\ replies \in Seq(ResponseMessage) /\ ackResults \in Seq(ResponseMessage)
      /\ held \in ResponseMessage
  BY TransferTypes
<1>1. CASE UNCHANGED <<replies, ackResults, held>>
  BY <1>1
<1>2. CASE S!WriteRoot \/ S!LegacyWrite \/ S!SendNext \/ S!WriteFails
  BY <1>1, <1>2, WriteIs DEF Write
<1>3. CASE \/ S!RejectSequence \/ S!Complete \/ S!Finish \/ S!ReportError
           \/ S!SigningFails \/ S!ReadFails \/ S!WaitCancelled
           \/ S!Consume \/ S!StreamBreaks \/ S!Cancel
  BY <1>1, <1>3, AsideIs DEF Aside
<1>4. CASE S!RootAck \/ S!LegacyAckStep
  <2>1. replies' = <<>> /\ UNCHANGED <<ackResults, held>>
    BY <1>4, FreshReadIs DEF FreshRead
  <2> QED
    BY <2>1
<1>5. CASE S!LaunchReader
  BY <1>1, <1>5 DEF S!LaunchReader, S!netVars
<1>6. CASE S!TakeAck
  <2>1. ackResults # <<>> /\ ackResults' = Tail(ackResults) /\ UNCHANGED <<replies, held>>
    BY <1>6 DEF S!TakeAck, S!netVars
  <2>2. /\ DOMAIN ackResults' = 1..(Len(ackResults) - 1)
        /\ \A i \in 1..(Len(ackResults) - 1) : ackResults'[i] = ackResults[i + 1]
    BY <1>0, <2>1, HeadTailProperties, LenProperties
  <2>3. \A i \in 1..(Len(ackResults) - 1) : i + 1 \in DOMAIN ackResults
    BY <1>0
  <2> QED
    BY <2>1, <2>2, <2>3
<1>7. CASE S!ReaderReceives
  <2>1. /\ replies # <<>> /\ replies' = Tail(replies) /\ held' = Head(replies)
        /\ ackResults' = ackResults
    BY <1>7 DEF S!ReaderReceives, S!mainVars
  <2>2. /\ DOMAIN replies' = 1..(Len(replies) - 1)
        /\ \A i \in 1..(Len(replies) - 1) : replies'[i] = replies[i + 1]
        /\ held' = replies[1] /\ 1 \in DOMAIN replies
    BY <1>0, <2>1, HeadTailProperties, LenProperties, EmptySeq
  <2>3. \A i \in 1..(Len(replies) - 1) : i + 1 \in DOMAIN replies
    BY <1>0
  <2> QED
    BY <2>1, <2>2, <2>3
<1>8. CASE S!ReaderFails \/ S!ReaderQuits
  <2>1. held' = S!Rejection /\ UNCHANGED <<replies, ackResults>>
    BY <1>8 DEF S!ReaderFails, S!ReaderQuits, S!mainVars, S!netVars
  <2> QED
    BY <2>1
<1>9. CASE S!ReaderOffers
  <2>1. /\ held' = S!Rejection /\ replies' = replies
        /\ ackResults' = Append(ackResults, held)
    BY <1>9 DEF S!ReaderOffers, S!mainVars, S!netVars
  <2>2. /\ DOMAIN ackResults' = 1..(Len(ackResults) + 1)
        /\ ackResults'[Len(ackResults) + 1] = held
        /\ \A i \in 1..Len(ackResults) : ackResults'[i] = ackResults[i]
    BY <1>0, <2>1, AppendProperties, LenProperties
  <2>3. \A i \in DOMAIN ackResults' : i \in DOMAIN ackResults \/ i = Len(ackResults) + 1
    BY <1>0, <2>2
  <2> QED
    BY <1>0, <2>1, <2>2, <2>3
<1> QED
  BY <1>2, <1>3, <1>4, <1>5, <1>6, <1>7, <1>8, <1>9
     DEF SenderAction, S!SenderStep, S!SenderFault, S!ReaderStep

\* What a genuine answer says that readAck accepts.
LEMMA GenuineAdvance ==
    ASSUME IInv, NEW r, Genuine(r), r.ok, S!parseTransferWindowAck(r.message) = "ack"
    PROVE  ~oldPeer /\ r.message.index + 1 <= Covered
<1>0. Covered \in Int /\ oldPeer \in BOOLEAN
  BY TransferTypes DEF IInv, ReceiverTypeOK
<1>1. PICK k \in 1..Covered : r = R!acknowledgment(k, ~oldPeer)
  BY DEF Genuine
<1>2. k \in Nat
  BY <1>0
<1>3. r.message.proto # "none"
  BY DEF S!parseTransferWindowAck
<1>4. ~oldPeer /\ r.message.index = k - 1
  BY <1>0, <1>1, <1>2, <1>3, AcknowledgmentFacts
<1> QED
  BY <1>0, <1>1, <1>4

\* An acknowledgment taken by readAck: it heads ackResults and is genuine.
LEMMA TakenAck ==
    ASSUME IInv, S!TakeAck
    PROVE  LET r == Head(ackResults)
           IN  /\ r = ackResults[1] /\ 1 \in DOMAIN ackResults /\ Genuine(r)
               /\ Len(ackResults') = Len(ackResults) - 1
               /\ DOMAIN ackResults' = 1..(Len(ackResults) - 1)
               /\ \A i \in 1..(Len(ackResults) - 1) : ackResults'[i] = ackResults[i + 1]
               /\ \/ /\ S!Advances(r) /\ r.message.index + 1 <= Covered
                     /\ progress' = r.message.index
                     /\ progress = highestAck /\ r.message.index > highestAck
                     /\ pc' = pc
                  \/ /\ ~S!Advances(r) /\ progress' = progress /\ pc' = "returnErr"
<1> DEFINE r == Head(ackResults)
<1>0. /\ DOMAIN ackResults = 1..Len(ackResults) /\ Len(ackResults) \in Nat
      /\ ackResults \in Seq(ResponseMessage)
  BY TransferTypes
<1>1. ackResults # <<>> /\ ackResults' = Tail(ackResults) /\ pc = "window"
  BY DEF S!TakeAck, S!Waiting, S!InWindow
<1>2. /\ r = ackResults[1] /\ 1 \in DOMAIN ackResults
      /\ Len(ackResults') = Len(ackResults) - 1
      /\ DOMAIN ackResults' = 1..(Len(ackResults) - 1)
      /\ \A i \in 1..(Len(ackResults) - 1) : ackResults'[i] = ackResults[i + 1]
  BY <1>0, <1>1, HeadTailProperties, LenProperties, EmptySeq
<1>3. Genuine(r)
  BY <1>2 DEF IInv, AnswersGenuine
<1>4. CASE S!Advances(r)
  <2>1. r.ok /\ S!parseTransferWindowAck(r.message) = "ack" /\ r.message.index > highestAck
    BY <1>4 DEF S!Advances
  <2>2. r.message.index + 1 <= Covered
    <3> HIDE DEF r
    <3> QED
      BY <1>3, <2>1, GenuineAdvance
  <2>3. progress' = r.message.index /\ pc' = pc
    BY <1>4 DEF S!TakeAck
  <2>4. progress = highestAck
    BY <1>1 DEF IInv, S!IInv, S!Cursors
  <2> QED
    BY <1>2, <1>3, <1>4, <2>1, <2>2, <2>3, <2>4
<1>5. CASE ~S!Advances(r)
  <2>1. progress' = progress /\ pc' = "returnErr"
    BY <1>5 DEF S!TakeAck
  <2> QED
    BY <1>2, <1>3, <1>5, <2>1
<1> QED
  BY <1>4, <1>5

\* The answer read with a reader of its own covers the packet after progress.
LEMMA FreshAnswer ==
    ASSUME IInv, S!RootAck \/ S!LegacyAckStep
    PROVE  \/ pc' = "returnErr" /\ progress' = progress
           \/ /\ progress' = progress + 1 /\ progress + 2 <= Covered
              /\ pc' \in {"returnOk", "returnErr", "legacy", "launch"}
              /\ pc' = "launch" => ~oldPeer
              /\ progress + 2 <= taken
              /\ rpc # "failed" => progress + 2 = taken
<1>0. /\ progress \in Int /\ Covered \in Int /\ taken \in Nat /\ nextPacket \in Nat
      /\ DOMAIN replies = 1..Len(replies) /\ replies \in Seq(ResponseMessage)
  BY TransferTypes DEF IInv, S!IInv, S!TypeOK
<1>1. replies # <<>> /\ Len(replies) = 1
  BY FreshReadIs DEF FreshRead
<1>2. Head(replies) = replies[1] /\ 1 \in DOMAIN replies
  BY <1>0, <1>1, HeadTailProperties
<1>3. pc \in {"rootAck", "legacyAck"}
  BY DEF S!RootAck, S!LegacyAckStep
<1>4. /\ progress + 2 <= taken
      /\ rpc # "failed" => progress + 2 = taken
      /\ Head(replies).ok => progress + 2 <= Covered
  <2>1. /\ progress + 1 + 1 <= taken
        /\ rpc # "failed" => progress + 1 + 1 = taken
        /\ replies[1].ok => progress + 1 + 1 <= Covered
    BY <1>1, <1>2, <1>3 DEF IInv, StopAndWait
  <2> QED
    BY <1>0, <1>2, <2>1
<1>5. Genuine(Head(replies))
  BY <1>2 DEF IInv, AnswersGenuine
<1>6. CASE S!RootAck
  <2>1. progress = -1 /\ pc = "rootAck"
    BY <1>6 DEF S!RootAck, IInv, S!IInv, S!Cursors
  <2>2. \/ pc' = "returnErr" /\ progress' = progress
        \/ /\ Head(replies).ok /\ progress' = 0
           /\ pc' \in {"returnOk", "returnErr", "legacy", "launch"}
           /\ pc' = "launch" => S!parseTransferWindowAck(Head(replies).message) = "ack"
    BY <1>6 DEF S!RootAck
  <2>3. Head(replies).ok /\ pc' = "launch" => ~oldPeer
    BY <1>5, <2>1, <2>2, GenuineAdvance
  <2> QED
    BY <1>0, <1>4, <2>1, <2>2, <2>3
<1>7. CASE S!LegacyAckStep
  <2>1. progress = nextPacket - 2
    BY <1>7 DEF S!LegacyAckStep, IInv, S!IInv, S!Cursors
  <2>2. \/ pc' = "returnErr" /\ progress' = progress
        \/ /\ Head(replies).ok /\ progress' = nextPacket - 1
           /\ pc' \in {"returnOk", "legacy"}
    BY <1>7 DEF S!LegacyAckStep
  <2> QED
    BY <1>0, <1>4, <2>1, <2>2
<1> QED
  BY <1>6, <1>7

\* The steps that leave the reported progress where it was.
LEMMA ProgressStays ==
    ASSUME IInv, SenderAction, ~S!RootAck, ~S!LegacyAckStep, ~S!TakeAck
    PROVE  progress' = progress
<1>1. CASE S!WriteRoot \/ S!LegacyWrite \/ S!SendNext \/ S!WriteFails
  BY <1>1, WriteIs DEF Write
<1>2. CASE \/ S!RejectSequence \/ S!Complete \/ S!Finish \/ S!ReportError
           \/ S!SigningFails \/ S!ReadFails \/ S!WaitCancelled
           \/ S!Consume \/ S!StreamBreaks \/ S!Cancel
  BY <1>2, AsideIs DEF Aside
<1>3. CASE S!LaunchReader \/ S!ReaderStep \/ S!ReaderFails
  BY <1>3 DEF S!LaunchReader, S!ReaderStep, S!ReaderReceives, S!ReaderOffers,
     S!ReaderQuits, S!ReaderFails, S!mainVars
<1> QED
  BY <1>1, <1>2, <1>3 DEF SenderAction, S!SenderStep, S!SenderFault

LEMMA SenderStepGenuine ==
    ASSUME IInv, Sender(SenderAction)
    PROVE  AnswersGenuine'
<1>0. /\ UNCHANGED <<rpc, oldPeer>> /\ Covered' = Covered /\ SenderAction
      /\ progress \in Int /\ Covered \in Int
  BY TransferTypes DEF Sender, receiverOnly, setting, Covered
<1>1. \A a : Genuine(a) <=> (a.ok => \E k \in 1..Covered' : a = R!acknowledgment(k, ~oldPeer'))
  BY <1>0 DEF Genuine
<1>2. progress' + 1 <= Covered'
  <2>1. progress + 1 <= Covered
    BY DEF IInv, AnswersGenuine
  <2>2. CASE S!RootAck \/ S!LegacyAckStep
    BY <1>0, <2>1, <2>2, FreshAnswer
  <2>3. CASE S!TakeAck
    BY <1>0, <2>1, <2>3, TakenAck
  <2> QED
    BY <1>0, <2>1, <2>2, <2>3, ProgressStays
<1>3. /\ \A i \in DOMAIN replies : Genuine(replies[i])
      /\ \A i \in DOMAIN replies : ~replies[i].ok => rpc = "failed"
      /\ \A i \in DOMAIN ackResults : Genuine(ackResults[i])
      /\ Genuine(held) /\ Genuine(S!Rejection)
  <2>1. Genuine(S!Rejection)
    BY DEF Genuine, S!Rejection
  <2> QED
    BY <2>1 DEF IInv, AnswersGenuine
<1>4. /\ \A i \in DOMAIN replies' : Genuine(replies'[i])
      /\ \A i \in DOMAIN replies' : ~replies'[i].ok => rpc = "failed"
      /\ \A i \in DOMAIN ackResults' : Genuine(ackResults'[i])
      /\ Genuine(held')
  BY <1>0, <1>3, AnswersMove
<1>5. /\ (\A i \in DOMAIN replies : Genuine(replies[i]))'
      /\ (\A i \in DOMAIN ackResults : Genuine(ackResults[i]))'
      /\ Genuine(held)'
  <2>1. \A i \in DOMAIN replies' :
            replies'[i].ok => \E k \in 1..Covered' : replies'[i] = R!acknowledgment(k, ~oldPeer')
    BY <1>1, <1>4
  <2>2. \A i \in DOMAIN ackResults' :
            ackResults'[i].ok =>
                \E k \in 1..Covered' : ackResults'[i] = R!acknowledgment(k, ~oldPeer')
    BY <1>1, <1>4
  <2>3. held'.ok => \E k \in 1..Covered' : held' = R!acknowledgment(k, ~oldPeer')
    BY <1>1, <1>4
  <2> QED
    BY <2>1, <2>2, <2>3 DEF Genuine
<1> QED
  BY <1>0, <1>2, <1>4, <1>5 DEF AnswersGenuine

\* While the sender stops and waits there is no acknowledgment goroutine.
LEMMA NoReaderYet ==
    ASSUME IInv, pc \in {"start", "rootAck", "legacy", "legacyAck", "launch"}
    PROVE  reader = "off" /\ ackResults = <<>>
BY DEF IInv, S!IInv, S!ReaderCounts

LEMMA SenderStepStopAndWait ==
    ASSUME IInv, Sender(SenderAction)
    PROVE  StopAndWait'
<1> DEFINE sync == {"start", "rootAck", "legacy", "legacyAck", "launch"}
<1>0. /\ UNCHANGED <<rpc, taken, oldPeer>> /\ Covered' = Covered /\ SenderAction
      /\ progress \in Int /\ Covered \in Int /\ taken \in Nat
  BY TransferTypes DEF Sender, receiverOnly, setting, Covered
<1>1. ASSUME UNCHANGED <<progress, replies>>, pc' \in sync => pc \in sync,
             pc' = "launch" => pc = "launch"
      PROVE  StopAndWait'
  BY <1>0, <1>1 DEF IInv, StopAndWait
<1>2. CASE S!WriteRoot \/ S!LegacyWrite \/ S!SendNext \/ S!WriteFails
  BY <1>1, <1>2, WriteIs DEF Write
<1>3. CASE \/ S!RejectSequence \/ S!Complete \/ S!Finish \/ S!ReportError
           \/ S!SigningFails \/ S!ReadFails \/ S!WaitCancelled
           \/ S!Consume \/ S!StreamBreaks \/ S!Cancel
  BY <1>1, <1>3, AsideIs DEF Aside
<1>4. CASE S!RootAck \/ S!LegacyAckStep
  <2>1. replies' = <<>> /\ Len(replies') = 0 /\ DOMAIN replies' = {}
    BY <1>4, FreshReadIs, EmptySeq DEF FreshRead
  <2>2. CASE pc' = "returnErr"
    BY <2>2 DEF StopAndWait
  <2>3. CASE /\ progress' = progress + 1 /\ progress + 2 <= taken
             /\ pc' = "launch" => ~oldPeer
             /\ rpc # "failed" => progress + 2 = taken
    BY <1>0, <2>1, <2>3 DEF StopAndWait
  <2> QED
    BY <1>4, <2>2, <2>3, FreshAnswer
<1>5. CASE S!LaunchReader \/ S!TakeAck
  <2>1. pc' \notin sync
    BY <1>5 DEF S!LaunchReader, S!TakeAck, S!Waiting, S!InWindow
  <2> QED
    BY <2>1 DEF StopAndWait
<1>6. CASE S!ReaderStep \/ S!ReaderFails
  <2>1. pc' = pc /\ reader # "off"
    BY <1>6 DEF S!ReaderStep, S!ReaderReceives, S!ReaderOffers, S!ReaderQuits,
       S!ReaderFails, S!mainVars
  <2>2. pc' \notin sync
    BY <2>1, NoReaderYet
  <2> QED
    BY <2>2 DEF StopAndWait
<1> QED
  BY <1>0, <1>2, <1>3, <1>4, <1>5, <1>6
     DEF SenderAction, S!SenderStep, S!SenderFault

LEMMA SenderStepPipeline ==
    ASSUME IInv, Sender(SenderAction)
    PROVE  Pipeline'
<1>0. /\ UNCHANGED <<rpc, taken, oldPeer>> /\ SenderAction
      /\ progress \in Int /\ taken \in Nat /\ Offered \in 0..1
      /\ DOMAIN replies = 1..Len(replies) /\ Len(replies) \in Nat
      /\ DOMAIN ackResults = 1..Len(ackResults) /\ Len(ackResults) \in Nat
      /\ replies \in Seq(ResponseMessage) /\ ackResults \in Seq(ResponseMessage)
      /\ held \in ResponseMessage
  BY TransferTypes DEF Sender, receiverOnly, setting
<1>1. ASSUME UNCHANGED <<progress, replies, ackResults, held, reader, window>>,
             pc' = "window" => pc = "window"
      PROVE  Pipeline'
  BY <1>0, <1>1 DEF IInv, Pipeline, Offered, StillInOrder
<1>2. CASE S!WriteRoot \/ S!LegacyWrite \/ S!SendNext \/ S!WriteFails
  BY <1>1, <1>2, WriteIs DEF Write
<1>3. CASE \/ S!RejectSequence \/ S!Complete \/ S!Finish \/ S!ReportError
           \/ S!SigningFails \/ S!ReadFails \/ S!WaitCancelled
           \/ S!Consume \/ S!StreamBreaks \/ S!Cancel
  BY <1>1, <1>3, AsideIs DEF Aside
<1>4. CASE S!RootAck \/ S!LegacyAckStep
  <2>1. reader' = "off"
    BY <1>4, NoReaderYet DEF S!RootAck, S!LegacyAckStep, S!readerVars
  <2> QED
    BY <2>1 DEF Pipeline
<1>5. CASE S!LaunchReader
  <2>1. /\ pc = "launch" /\ reader' = "reading" /\ pc' = "window"
        /\ UNCHANGED <<progress, window, ackResults, replies>>
    BY <1>5 DEF S!LaunchReader, S!netVars
  <2>2. ackResults' = <<>> /\ Len(ackResults') = 0 /\ DOMAIN ackResults' = {}
    BY <1>0, <2>1, NoReaderYet, EmptySeq
  <2>3. replies' = <<>> /\ Len(replies') = 0 /\ DOMAIN replies' = {}
    BY <1>0, <2>1, StopAndWaitLengths, EmptySeq
  <2>4. window'.packets > 0
    BY <2>1 DEF IInv, S!IInv, S!Cursors
  <2>5. /\ progress + 1 + Len(replies) <= taken
        /\ rpc # "failed" => progress + 1 + Len(replies) = taken
        /\ ~oldPeer
    BY <2>1 DEF IInv, StopAndWait
  <2>6. Offered' = 0
    BY <2>1 DEF Offered
  <2> QED
    BY <1>0, <2>1, <2>2, <2>3, <2>4, <2>5, <2>6 DEF Pipeline
<1>6. CASE S!TakeAck
  <2> DEFINE r == Head(ackResults)
  <2>1. UNCHANGED <<reader, held, window, replies>>
    BY <1>6 DEF S!TakeAck, S!netVars
  <2>2. /\ r = ackResults[1] /\ 1 \in DOMAIN ackResults
        /\ Len(ackResults') = Len(ackResults) - 1
        /\ DOMAIN ackResults' = 1..(Len(ackResults) - 1)
        /\ \A i \in 1..(Len(ackResults) - 1) : ackResults'[i] = ackResults[i + 1]
    BY <1>6, TakenAck
  <2>3. pc = "window" /\ Offered' = Offered /\ StillInOrder' = StillInOrder
    BY <1>6, <2>1 DEF S!TakeAck, S!Waiting, S!InWindow, Offered, StillInOrder
  <2>4. \/ /\ r.message.index = progress' /\ pc' = pc
        \/ progress' = progress /\ pc' = "returnErr"
    BY <1>6, TakenAck
  <2> HIDE DEF r
  <2> SUFFICES ASSUME reader \in {"reading", "offering"}
               PROVE  Pipeline'
    BY <2>1 DEF Pipeline
  <2>5. /\ ~oldPeer /\ window.packets > 0
        /\ progress + 1 + Len(ackResults) + Offered + Len(replies) <= taken
        /\ \A i \in DOMAIN ackResults :
               ackResults[i].ok /\ ackResults[i].message.index = progress + i
        /\ reader = "offering" /\ held.ok =>
               held.message.index = progress + Len(ackResults) + 1
        /\ StillInOrder =>
               /\ rpc # "failed" =>
                      progress + 1 + Len(ackResults) + Offered + Len(replies) = taken
               /\ \A i \in DOMAIN replies : replies[i].ok =>
                      replies[i].message.index = progress + Len(ackResults) + Offered + i
    BY <2>3 DEF IInv, Pipeline
  <2>6. CASE progress' = progress /\ pc' = "returnErr"
    BY <1>0, <2>1, <2>2, <2>3, <2>5, <2>6 DEF Pipeline
  <2>7. CASE r.message.index = progress' /\ pc' = pc
    <3>1. progress' = progress + 1
      BY <2>2, <2>5, <2>7
    <3>2. progress' + Len(ackResults') = progress + Len(ackResults)
      BY <1>0, <2>2, <3>1
    <3>3. \A i \in DOMAIN ackResults' :
              ackResults'[i].ok /\ ackResults'[i].message.index = progress' + i
      <4> SUFFICES ASSUME NEW i \in 1..(Len(ackResults) - 1)
                   PROVE  /\ ackResults'[i].ok
                          /\ ackResults'[i].message.index = progress' + i
        BY <2>2
      <4>1. i + 1 \in DOMAIN ackResults /\ ackResults'[i] = ackResults[i + 1]
        BY <1>0, <2>2
      <4>2. progress' + i = progress + (i + 1)
        BY <1>0, <3>1
      <4> QED
        BY <2>5, <4>1, <4>2
    <3>4. /\ progress' + 1 + Len(ackResults') + Offered + Len(replies) <= taken
          /\ reader = "offering" /\ held.ok =>
                 held.message.index = progress' + Len(ackResults') + 1
          /\ StillInOrder =>
                 /\ rpc # "failed" =>
                        progress' + 1 + Len(ackResults') + Offered + Len(replies) = taken
                 /\ \A i \in DOMAIN replies : replies[i].ok =>
                        replies[i].message.index = progress' + Len(ackResults') + Offered + i
      BY <1>0, <2>2, <2>5, <3>1, <3>2
    <3> QED
      BY <1>0, <2>1, <2>3, <2>5, <3>3, <3>4 DEF Pipeline
  <2> QED
    BY <2>4, <2>6, <2>7
<1>7. CASE S!ReaderReceives
  <2>1. /\ reader = "reading" /\ replies # <<>> /\ replies' = Tail(replies)
        /\ held' = Head(replies) /\ reader' = "offering"
        /\ UNCHANGED <<ackResults, window, progress, pc>>
    BY <1>7 DEF S!ReaderReceives, S!mainVars
  <2>2. /\ Len(replies') = Len(replies) - 1
        /\ DOMAIN replies' = 1..(Len(replies) - 1)
        /\ \A i \in 1..(Len(replies) - 1) : replies'[i] = replies[i + 1]
        /\ held' = replies[1] /\ 1 \in DOMAIN replies
    BY <1>0, <2>1, HeadTailProperties, LenProperties, EmptySeq
  <2>3. Offered = 0 /\ StillInOrder
    BY <2>1 DEF Offered, StillInOrder
  <2>4. /\ ~oldPeer /\ window.packets > 0
        /\ progress + 1 + Len(ackResults) + Len(replies) <= taken
        /\ pc = "window" =>
             /\ \A i \in DOMAIN ackResults :
                    ackResults[i].ok /\ ackResults[i].message.index = progress + i
             /\ rpc # "failed" => progress + 1 + Len(ackResults) + Len(replies) = taken
             /\ \A i \in DOMAIN replies :
                    replies[i].ok => replies[i].message.index = progress + Len(ackResults) + i
    BY <1>0, <2>1, <2>3 DEF IInv, Pipeline
  <2>5. (Offered' = 1 /\ held'.ok) \/ (Offered' = 0 /\ ~held'.ok)
    BY <2>1 DEF Offered
  <2>6. StillInOrder' => held'.ok
    BY <2>1 DEF StillInOrder
  <2>7. progress + 1 + Len(ackResults) + Offered' + Len(replies') <= taken
    BY <1>0, <2>2, <2>4, <2>5
  <2>8. ASSUME pc = "window", held'.ok
        PROVE  /\ held'.message.index = progress + Len(ackResults) + 1
               /\ rpc # "failed" =>
                      progress + 1 + Len(ackResults) + Offered' + Len(replies') = taken
               /\ \A i \in DOMAIN replies' : replies'[i].ok =>
                      replies'[i].message.index = progress + Len(ackResults) + Offered' + i
    <3>1. held'.message.index = progress + Len(ackResults) + 1
      BY <2>2, <2>4, <2>8
    <3>2. Offered' = 1
      BY <2>5, <2>8
    <3>3. ASSUME NEW i \in 1..(Len(replies) - 1), replies'[i].ok
          PROVE  replies'[i].message.index = progress + Len(ackResults) + 1 + i
      <4>1. i + 1 \in DOMAIN replies /\ replies'[i] = replies[i + 1]
        BY <1>0, <2>2
      <4>2. replies[i + 1].message.index = progress + Len(ackResults) + (i + 1)
        BY <2>4, <2>8, <3>3, <4>1
      <4>3. progress + Len(ackResults) + (i + 1) = progress + Len(ackResults) + 1 + i
        BY <1>0
      <4> QED
        BY <4>1, <4>2, <4>3
    <3>4. rpc # "failed" => progress + 1 + Len(ackResults) + 1 + Len(replies') = taken
      BY <1>0, <2>2, <2>4, <2>8
    <3> QED
      BY <2>2, <3>1, <3>2, <3>3, <3>4
  <2> QED
    BY <1>0, <2>1, <2>4, <2>6, <2>7, <2>8 DEF Pipeline
<1>8. CASE S!ReaderFails
  <2>1. /\ reader = "reading" /\ held' = S!Rejection /\ reader' = "offering"
        /\ UNCHANGED <<replies, ackResults, window, progress, pc>>
    BY <1>8 DEF S!ReaderFails, S!mainVars
  <2>2. ~held'.ok /\ Offered' = 0 /\ Offered = 0 /\ ~StillInOrder'
    BY <2>1 DEF Offered, StillInOrder, S!Rejection
  <2> QED
    BY <1>0, <2>1, <2>2 DEF IInv, Pipeline
<1>9. CASE S!ReaderOffers
  <2>1. /\ reader = "offering" /\ ackResults' = Append(ackResults, held)
        /\ held' = S!Rejection /\ UNCHANGED <<replies, window, progress, pc>>
        /\ reader' \in {"reading", "exited"}
        /\ reader' = "reading" => held.ok
    BY <1>9 DEF S!ReaderOffers, S!mainVars, S!netVars
  <2> SUFFICES ASSUME reader' = "reading"
               PROVE  Pipeline'
    BY <2>1 DEF Pipeline
  <2>2. /\ Len(ackResults') = Len(ackResults) + 1
        /\ DOMAIN ackResults' = 1..(Len(ackResults) + 1)
        /\ ackResults'[Len(ackResults) + 1] = held
        /\ \A i \in 1..Len(ackResults) : ackResults'[i] = ackResults[i]
    BY <1>0, <2>1, AppendProperties, LenProperties
  <2>3. held.ok /\ Offered = 1 /\ StillInOrder /\ Offered' = 0
    BY <2>1 DEF Offered, StillInOrder
  <2>4. /\ ~oldPeer /\ window.packets > 0
        /\ progress + 1 + Len(ackResults) + 1 + Len(replies) <= taken
        /\ pc = "window" =>
             /\ \A i \in DOMAIN ackResults :
                    ackResults[i].ok /\ ackResults[i].message.index = progress + i
             /\ held.message.index = progress + Len(ackResults) + 1
             /\ rpc # "failed" => progress + 1 + Len(ackResults) + 1 + Len(replies) = taken
             /\ \A i \in DOMAIN replies : replies[i].ok =>
                    replies[i].message.index = progress + Len(ackResults) + 1 + i
    BY <1>0, <2>1, <2>3 DEF IInv, Pipeline
  <2>5. ASSUME pc = "window", NEW i \in DOMAIN ackResults'
        PROVE  ackResults'[i].ok /\ ackResults'[i].message.index = progress + i
    <3>1. CASE i \in DOMAIN ackResults
      BY <1>0, <2>2, <2>4, <2>5, <3>1
    <3>2. CASE i = Len(ackResults) + 1
      BY <1>0, <2>2, <2>3, <2>4, <2>5, <3>2
    <3> QED
      BY <1>0, <2>2, <3>1, <3>2
  <2> QED
    BY <1>0, <2>1, <2>2, <2>3, <2>4, <2>5 DEF Pipeline
<1>10. CASE S!ReaderQuits
  <2>1. reader' = "exited"
    BY <1>10 DEF S!ReaderQuits
  <2> QED
    BY <2>1 DEF Pipeline
<1> QED
  BY <1>0, <1>2, <1>3, <1>4, <1>5, <1>6, <1>7, <1>8, <1>9, <1>10
     DEF SenderAction, S!SenderStep, S!SenderFault, S!ReaderStep

-----------------------------------------------------------------------------
(* The invariant, and what it says.                                        *)

LEMMA StepIs ==
    ASSUME IInv, Next
    PROVE  Sender(SenderAction) \/ ReceiverStep
<1>1. Request \/ Reported \/ ReceiverFails => ReceiverStep
  BY SilentIs DEF ReceiverStep
<1>2. (\/ \E applied, whole \in BOOLEAN : Deliver(applied, whole)
       \/ \E whole \in BOOLEAN : DeliverAckFails(whole)) => ReceiverStep
  BY DeliverIs DEF ReceiverStep
<1>3. \/ Sender(S!SenderStep) \/ Sender(S!ReaderStep) \/ Sender(S!Consume)
      \/ Sender(S!SenderFault) \/ Sender(S!ReaderFails) \/ Sender(S!StreamBreaks)
      \/ Sender(S!Cancel)
      => Sender(SenderAction)
  BY DEF Sender, SenderAction
<1>4. Deliver(TRUE, TRUE) => \E applied, whole \in BOOLEAN : Deliver(applied, whole)
  OBVIOUS
<1> QED
  BY <1>1, <1>2, <1>3, <1>4 DEF Next, CleanNext, Fault

LEMMA SenderStepKeeps ==
    ASSUME IInv, Sender(SenderAction)
    PROVE  IInv'
<1>1. S!Next
  BY DEF Sender, SenderAction, S!Next
<1>2. S!IInv'
  BY <1>1, SenderKeeps DEF IInv
<1> QED
  BY <1>2, SenderStepCursors, SenderStepGenuine, SenderStepStopAndWait,
     SenderStepPipeline DEF IInv

LEMMA StutterKeeps ==
    ASSUME IInv, UNCHANGED vars
    PROVE  IInv'
<1>1. /\ replies' \in Seq(ResponseMessage) /\ closed' \in BOOLEAN
      /\ UNCHANGED senderOnly
  BY TransferTypes DEF vars, IInv, S!IInv, S!TypeOK
<1>2. S!IInv'
  BY <1>1, SenderUndisturbed DEF IInv
<1>3. ReceiverTypeOK' /\ ReceiverCursors'
  BY DEF vars, senderOnly, receiverOnly, setting, IInv, ReceiverTypeOK, ReceiverCursors
<1>4. AnswersGenuine' /\ StopAndWait' /\ Pipeline'
  BY DEF vars, senderOnly, receiverOnly, setting, IInv, AnswersGenuine, Genuine,
     Covered, StopAndWait, Pipeline, Offered, StillInOrder
<1> QED
  BY <1>2, <1>3, <1>4 DEF IInv

LEMMA InitHolds ==
    ASSUME Init
    PROVE  IInv
<1>0. S!Init /\ R!Init /\ taken = 0 /\ oldPeer \in BOOLEAN /\ faulty \in BOOLEAN
  BY DEF Init
<1>1. S!IInv
  <2>1. SP!Init
    BY <1>0 DEF S!Init, SP!Init, S!Rejection, SP!Rejection, S!LegacyAck, SP!LegacyAck
  <2> QED
    BY <2>1, SenderAssumptions, SP!InitHolds, SameInvariant
<1>2. dag.n \in Nat
  BY <1>1, DagFacts
<1>3. /\ sent = <<>> /\ Len(sent) = 0 /\ accepted = <<>> /\ Len(accepted) = 0
      /\ replies = <<>> /\ Len(replies) = 0 /\ DOMAIN replies = {}
      /\ ackResults = <<>> /\ DOMAIN ackResults = {}
      /\ accepted \in Seq(WireMessages)
  BY <1>0, EmptySeq DEF S!Init, R!Init
<1>4. /\ rpc = "start" /\ next = 0 /\ leafs = {}
      /\ windowed = FALSE /\ finalized = FALSE /\ verified = FALSE
      /\ pc = "start" /\ progress = -1 /\ reader = "off"
      /\ held.ok = FALSE
  BY <1>0 DEF S!Init, R!Init, S!Rejection
<1>5. ReceiverTypeOK
  BY <1>0, <1>3, <1>4 DEF ReceiverTypeOK
<1>6. ReceiverCursors
  BY <1>0, <1>2, <1>3, <1>4 DEF ReceiverCursors
<1>7. AnswersGenuine
  BY <1>3, <1>4 DEF AnswersGenuine, Genuine, Covered
<1>8. StopAndWait /\ Pipeline
  BY <1>0, <1>3, <1>4 DEF StopAndWait, Pipeline
<1> QED
  BY <1>1, <1>5, <1>6, <1>7, <1>8 DEF IInv

\* The inductive invariant of the two ends together.
THEOREM TransferInvariant == Spec => []IInv
<1>1. Init => IInv
  BY InitHolds
<1>2. IInv /\ [Next]_vars => IInv'
  BY StepIs, SenderStepKeeps, ReceiverStepKeeps, StutterKeeps
<1> QED
  BY <1>1, <1>2, PTL DEF Spec

\* An acknowledgment never runs ahead of the receiver: the progress the sender
\* reports and every answer under way cover only packets that the receiver has
\* verified and committed (download.go:184-207, transfer_window.go:222-249).
THEOREM TransferAckMeansVerified == Spec => []AckMeansVerified
<1>1. IInv => AckMeansVerified
  <2> SUFFICES ASSUME IInv
               PROVE  AckMeansVerified
    OBVIOUS
  <2>0. /\ progress \in Int /\ Covered \in Int /\ Covered <= Len(accepted)
        /\ Len(accepted) \in Nat /\ oldPeer \in BOOLEAN
        /\ replies \in Seq(ResponseMessage) /\ ackResults \in Seq(ResponseMessage)
        /\ held \in ResponseMessage
    BY TransferTypes DEF IInv, ReceiverTypeOK
  <2>1. progress < Len(accepted)
    BY <2>0 DEF IInv, AnswersGenuine
  <2>2. ASSUME NEW a, Genuine(a), a.ok
        PROVE  a.message.index < Len(accepted)
    <3>1. PICK k \in 1..Covered : a = R!acknowledgment(k, ~oldPeer)
      BY <2>2 DEF Genuine
    <3>2. k \in Nat /\ k >= 1 /\ k <= Len(accepted)
      BY <2>0
    <3>3. a.message.index = k - 1 \/ a.message.index = 0
      BY <2>0, <3>1, <3>2, AcknowledgmentFacts
    <3> QED
      BY <2>0, <3>2, <3>3
  <2>3. ASSUME NEW i \in DOMAIN AcksUnderway
        PROVE  Genuine(AcksUnderway[i])
    <3> DEFINE h == IF reader = "offering" THEN <<held>> ELSE <<>>
    <3>1. h \in Seq(ResponseMessage) /\ \A j \in DOMAIN h : h[j] = held
      BY <2>0, EmptySeq
    <3> HIDE DEF h
    <3>2. AcksUnderway = ackResults \o h \o replies
      BY DEF AcksUnderway, h
    <3>3. /\ ackResults \o h \in Seq(ResponseMessage)
          /\ Len(ackResults \o h) = Len(ackResults) + Len(h)
          /\ \A j \in 1..(Len(ackResults) + Len(h)) :
                 (ackResults \o h)[j] =
                     IF j <= Len(ackResults) THEN ackResults[j]
                     ELSE h[j - Len(ackResults)]
      BY <2>0, <3>1, ConcatProperties
    <3>4. /\ Len(AcksUnderway) = Len(ackResults \o h) + Len(replies)
          /\ AcksUnderway \in Seq(ResponseMessage)
          /\ \A j \in 1..(Len(ackResults \o h) + Len(replies)) :
                 AcksUnderway[j] =
                     IF j <= Len(ackResults \o h) THEN (ackResults \o h)[j]
                     ELSE replies[j - Len(ackResults \o h)]
      BY <2>0, <3>2, <3>3, ConcatProperties
    <3>5. /\ DOMAIN AcksUnderway = 1..Len(AcksUnderway)
          /\ DOMAIN ackResults = 1..Len(ackResults) /\ DOMAIN h = 1..Len(h)
          /\ DOMAIN replies = 1..Len(replies)
          /\ Len(ackResults) \in Nat /\ Len(h) \in Nat /\ Len(replies) \in Nat
      BY <2>0, <3>1, <3>4, LenProperties
    <3>6. /\ \A j \in DOMAIN ackResults : Genuine(ackResults[j])
          /\ \A j \in DOMAIN h : Genuine(h[j])
          /\ \A j \in DOMAIN replies : Genuine(replies[j])
      BY <3>1 DEF IInv, AnswersGenuine
    <3>7. CASE i <= Len(ackResults)
      BY <3>3, <3>4, <3>5, <3>6, <3>7
    <3>8. CASE i > Len(ackResults) /\ i <= Len(ackResults) + Len(h)
      <4>1. i - Len(ackResults) \in DOMAIN h
        BY <3>4, <3>5, <3>8
      <4> QED
        BY <3>3, <3>4, <3>5, <3>6, <3>8, <4>1
    <3>9. CASE i > Len(ackResults) + Len(h)
      <4>1. i - Len(ackResults \o h) \in DOMAIN replies
        BY <3>3, <3>4, <3>5, <3>9
      <4> QED
        BY <3>3, <3>4, <3>5, <3>6, <3>9, <4>1
    <3> QED
      BY <3>4, <3>5, <3>7, <3>8, <3>9
  <2> QED
    BY <2>1, <2>2, <2>3 DEF AckMeansVerified
<1> QED
  BY <1>1, TransferInvariant, PTL

\* A successful upload leaves the whole DAG, verified, with the receiver
\* (upload.go:66-78, download.go:184-227).
THEOREM TransferSuccess == Spec => []SuccessMeansFinalized
<1>1. IInv => SuccessMeansFinalized
  <2> SUFFICES ASSUME IInv, pc \in {"returnOk", "ok"}
               PROVE  /\ finalized /\ verified
                      /\ Len(accepted) = dag.n
                      /\ leafs = 0..(dag.n - 1)
    BY DEF SuccessMeansFinalized
  <2>0. /\ dag.n \in Nat /\ Len(accepted) \in Nat /\ accepted \in Seq(WireMessages)
        /\ Len(sent) \in Nat /\ taken \in Nat
    BY TransferTypes DEF IInv, ReceiverTypeOK
  <2>1. dag.n > 0 /\ progress = dag.n - 1
    BY DEF IInv, S!IInv, S!Cursors, S!N
  <2>2. dag.n <= Covered
    BY <2>0, <2>1 DEF IInv, AnswersGenuine
  <2>3. Len(accepted) <= dag.n
    BY <2>0 DEF IInv, ReceiverCursors
  <2>4. Len(accepted) = dag.n /\ ~(finalized /\ ~verified)
    BY <2>0, <2>2, <2>3 DEF Covered
  <2>5. accepted # <<>>
    BY <2>0, <2>1, <2>4, EmptySeq
  <2> QED
    BY <2>4, <2>5 DEF IInv, ReceiverCursors
<1> QED
  BY <1>1, TransferInvariant, PTL

\* A reader made for one answer discards none: there is no second answer when it
\* reads, and none left when it is replaced (transfer_window.go:121-137, 160-182).
THEOREM TransferNoAckDiscarded == Spec => []NoAckDiscarded
<1>1. IInv => NoAckDiscarded
  BY StopAndWaitLengths DEF NoAckDiscarded
<1> QED
  BY <1>1, TransferInvariant, PTL

\* The acknowledgment goroutine always finds room in ackResults
\* (transfer_window.go:184-214).
THEOREM TransferAckBuffer == Spec => []AckBufferSuffices
<1>1. IInv => AckBufferSuffices
  <2> SUFFICES ASSUME IInv, reader = "offering"
               PROVE  Len(ackResults) < window.packets + 1
    BY DEF AckBufferSuffices, S!AckCapacity
  <2>0. /\ progress \in Int /\ taken \in Nat /\ Len(sent) \in Nat
        /\ Len(ackResults) \in Nat /\ Len(replies) \in Nat /\ Offered \in 0..1
        /\ taken <= Len(sent) /\ window.packets \in Int
    BY TransferTypes DEF IInv, S!IInv, S!TypeOK, ReceiverCursors
  <2>1. /\ window.packets > 0
        /\ progress + 1 + Len(ackResults) + Offered + Len(replies) <= taken
    BY DEF IInv, Pipeline
  <2>2. \/ Len(sent) - (progress + 1) <= 1
        \/ Len(sent) - (progress + 1) <= window.packets
    BY DEF IInv, S!IInv, S!WindowRespected
  <2> QED
    BY <2>0, <2>1, <2>2
<1> QED
  BY <1>1, TransferInvariant, PTL

-----------------------------------------------------------------------------
(* The refinement of CumulativeTransfer, step by step.                     *)

Limit == IF window.packets = 0 THEN 1 ELSE window.packets
Outcome == IF pc \in {"ok", "err"} THEN pc ELSE "running"

LEMMA AbstractFacts ==
    ASSUME IInv
    PROVE  /\ dag.n \in Nat /\ Len(sent) \in Nat /\ Len(accepted) \in Nat
           /\ progress \in Int /\ progress + 1 <= Covered
           /\ Covered \in Int /\ Covered <= Len(accepted)
           /\ window.packets \in 0..MaxWindowPackets /\ MaxWindowPackets \in Nat
           /\ Limit \in Nat /\ Limit >= 1
BY TransferTypes, WindowAssumption
   DEF IInv, AnswersGenuine, S!IInv, S!TypeOK, Limit

\* A step that changes nothing the abstract specification sees.
LEMMA Unseen ==
    ASSUME UNCHANGED <<dag, sent, accepted, progress, window>>, Outcome' = Outcome
    PROVE  [Abstract!Next]_Abstract!transferVars
BY DEF Abstract!transferVars, Outcome

LEMMA ReceiverStepMaps ==
    ASSUME IInv, ReceiverStep
    PROVE  [Abstract!Next]_Abstract!transferVars
<1>1. UNCHANGED <<dag, sent, progress, window>> /\ Outcome' = Outcome /\ pc' = pc
  BY DEF ReceiverStep, Silent, Read, senderOnly, Outcome
<1>2. CASE Silent \/ (Read /\ Refused)
  BY <1>1, <1>2, Unseen DEF Silent, Refused
<1>3. CASE Read /\ Committed
  <2>1. Len(accepted') = Len(accepted) + 1 /\ Len(accepted) < Len(sent)
    BY <1>3, IncomingIs, AppendProperties, ReaderIsAbreast
       DEF Read, Committed, IInv, ReceiverTypeOK
  <2>2. Abstract!Deliver
    BY <1>1, <2>1 DEF Abstract!Deliver
  <2> QED
    BY <2>2 DEF Abstract!Next
<1> QED
  BY <1>2, <1>3 DEF ReceiverStep

\* The window leaves room for the packet a write hands over.
LEMMA WriteHasRoom ==
    ASSUME IInv, S!WriteRoot \/ S!LegacyWrite \/ S!SendNext \/ S!WriteFails
    PROVE  Len(sent) - (progress + 1) < Limit
<1>0. /\ S!SentInOrder /\ S!Cursors /\ Len(sent) \in Nat /\ progress \in Int
      /\ Limit \in Nat /\ Limit >= 1 /\ window.packets \in Nat
      /\ window.packets <= Limit
  BY AbstractFacts DEF IInv, S!IInv, Limit
<1>1. CASE pc \in {"start", "legacy"}
  <2>1. Len(sent) = nextPacket /\ progress = nextPacket - 1
    BY <1>0, <1>1 DEF S!SentInOrder, S!Cursors
  <2> QED
    BY <1>0, <2>1
<1>2. CASE S!InWindow /\ S!CanSend
  <2>1. SP!TypeOK /\ SP!SentInOrder /\ SP!Cursors
    BY SameInvariant DEF IInv, SP!IInv
  <2>2. SP!InWindow /\ SP!CanSend
    BY <1>2, SameCanSend DEF S!InWindow, SP!InWindow, S!N, SP!N
  <2>3. \/ Len(sent) + 1 - (progress + 1) <= 1
        \/ Len(sent) + 1 - (progress + 1) <= window.packets
    BY <2>1, <2>2, SenderAssumptions, SP!RoomForOne
  <2> QED
    BY <1>0, <2>3
<1> QED
  BY <1>1, <1>2 DEF S!WriteRoot, S!LegacyWrite, S!SendNext, S!WriteFails

LEMMA WriteMaps ==
    ASSUME IInv, Sender(S!WriteRoot \/ S!LegacyWrite \/ S!SendNext \/ S!WriteFails)
    PROVE  [Abstract!Next]_Abstract!transferVars
<1>0. accepted' = accepted /\ Write
  BY WriteIs DEF Sender, receiverOnly
<1>1. Outcome = "running" /\ Outcome' = "running"
  BY DEF Sender, Outcome, S!WriteRoot, S!LegacyWrite, S!SendNext, S!WriteFails,
     S!InWindow
<1>2. CASE sent' = sent
  BY <1>0, <1>1, <1>2, Unseen DEF Write
<1>3. CASE sent' = Append(sent, S!UploadMessage(nextPacket))
  <2>1. sent \in Seq(S!UploadMessages) /\ nextPacket \in Nat /\ dag.n \in Nat
    BY DagFacts DEF IInv, S!IInv, S!TypeOK, S!N
  <2>2. S!UploadMessage(nextPacket) \in S!UploadMessages
    BY <2>1 DEF S!UploadMessage, S!UploadMessages, S!N
  <2>3. Len(sent') = Len(sent) + 1
    BY <1>3, <2>1, <2>2, AppendProperties
  <2>4. Len(sent) < dag.n /\ Len(sent) - (progress + 1) < Limit
    BY <1>0, WriteHasRoom DEF Write, Sender
  <2>5. Abstract!Send
    BY <1>0, <1>1, <2>3, <2>4 DEF Abstract!Send, Write, Limit, Outcome
  <2> QED
    BY <2>5 DEF Abstract!Next
<1> QED
  BY <1>0, <1>2, <1>3 DEF Write

\* The report of progress and the window that comes with the first one.
LEMMA AcknowledgeMaps ==
    ASSUME IInv, UNCHANGED <<dag, sent, accepted>>,
           Outcome = "running", Outcome' = "running",
           progress' \in Int, progress' > progress, progress' + 1 <= Covered,
           \/ window' = window
           \/ progress = -1 /\ window'.packets \in 1..MaxWindowPackets
    PROVE  [Abstract!Next]_Abstract!transferVars
<1>1. progress' + 1 \in (progress + 1 + 1)..Len(accepted)
  BY AbstractFacts
<1>2. \/ Limit' = Limit
      \/ progress + 1 = 0 /\ Limit' \in 1..MaxWindowPackets
  BY AbstractFacts DEF Limit
<1>3. Abstract!Acknowledge
  BY <1>1, <1>2 DEF Abstract!Acknowledge, Limit, Outcome
<1> QED
  BY <1>3 DEF Abstract!Next

LEMMA RootAckWindow ==
    ASSUME IInv, S!RootAck
    PROVE  \/ window' = window
           \/ progress = -1 /\ window'.packets \in 1..MaxWindowPackets
<1>1. progress = -1
  BY DEF S!RootAck, IInv, S!IInv, S!Cursors
<1>2. \/ window' = window
      \/ /\ S!parseTransferWindowAck(Head(replies).message) = "ack"
         /\ window' = [packets |-> Head(replies).message.packets,
                       bytes |-> Head(replies).message.bytes]
  BY DEF S!RootAck
<1> QED
  BY <1>1, <1>2 DEF S!parseTransferWindowAck

\* The window is set only together with a report that covers the root.
LEMMA RootAckStays ==
    ASSUME IInv, S!RootAck, progress' = progress
    PROVE  window' = window
<1>1. progress = -1
  BY DEF S!RootAck, IInv, S!IInv, S!Cursors
<1> QED
  BY <1>1 DEF S!RootAck

LEMMA SenderStepMaps ==
    ASSUME IInv, Sender(SenderAction)
    PROVE  [Abstract!Next]_Abstract!transferVars
<1>0. accepted' = accepted /\ progress \in Int /\ Covered \in Int
  BY AbstractFacts DEF Sender, receiverOnly
<1>1. CASE S!WriteRoot \/ S!LegacyWrite \/ S!SendNext \/ S!WriteFails
  BY <1>1, WriteMaps DEF Sender
<1>2. CASE S!RootAck \/ S!LegacyAckStep
  <2>1. UNCHANGED <<dag, sent>> /\ Outcome = "running"
    BY <1>2 DEF S!RootAck, S!LegacyAckStep, Outcome
  <2>2. CASE pc' = "returnErr" /\ progress' = progress
    <3>1. window' = window
      BY <1>2, <2>2, <1>0, RootAckStays DEF S!LegacyAckStep
    <3> QED
      BY <1>0, <2>1, <2>2, <3>1, Unseen DEF Outcome
  <2>3. CASE /\ progress' = progress + 1 /\ progress + 2 <= Covered
             /\ pc' \in {"returnOk", "returnErr", "legacy", "launch"}
    <3>1. \/ window' = window
          \/ progress = -1 /\ window'.packets \in 1..MaxWindowPackets
      BY <1>2, RootAckWindow DEF S!LegacyAckStep
    <3>2. Outcome' = "running"
      BY <2>3 DEF Outcome
    <3>3. progress' \in Int /\ progress' > progress /\ progress' + 1 <= Covered
      BY <1>0, <2>3
    <3> QED
      BY <1>0, <2>1, <3>1, <3>2, <3>3, AcknowledgeMaps
  <2> QED
    BY <1>2, <2>2, <2>3, FreshAnswer
<1>3. CASE S!TakeAck
  <2> DEFINE r == Head(ackResults)
  <2>1. /\ UNCHANGED <<dag, sent, window>> /\ pc = "window"
    BY <1>3 DEF S!TakeAck, S!Waiting, S!InWindow
  <2>2. \/ /\ r.message.index + 1 <= Covered /\ progress' = r.message.index
           /\ progress = highestAck /\ r.message.index > highestAck
           /\ pc' = pc
        \/ progress' = progress /\ pc' = "returnErr"
    BY <1>3, TakenAck
  <2>3. r.message.index \in Int
    <3>1. r \in ResponseMessage
      BY <1>3, TransferTypes, TakenAck
    <3> QED
      BY <3>1 DEF ResponseMessage, AckMessage
  <2> HIDE DEF r
  <2>4. Outcome = "running" /\ Outcome' = "running"
    BY <2>1, <2>2 DEF Outcome
  <2>5. CASE progress' = progress
    BY <1>0, <2>1, <2>4, <2>5, Unseen
  <2>6. CASE /\ progress' \in Int /\ progress' > progress
             /\ progress' + 1 <= Covered
    BY <1>0, <2>1, <2>4, <2>6, AcknowledgeMaps
  <2> QED
    BY <2>2, <2>3, <2>5, <2>6
<1>4. CASE S!Finish
  <2>1. /\ pc = "returnOk" /\ pc' = "ok"
        /\ UNCHANGED <<dag, sent, window, progress>>
    BY <1>4 DEF S!Finish
  <2>2. dag.n > 0 /\ progress + 1 = dag.n
    BY <1>0, <2>1, DagFacts DEF IInv, S!IInv, S!Cursors, S!N
  <2>3. Abstract!Succeed
    BY <1>0, <2>1, <2>2 DEF Abstract!Succeed
  <2> QED
    BY <2>3 DEF Abstract!Next
<1>5. CASE S!ReportError \/ S!SigningFails
  <2>1. /\ pc \in {"start", "returnErr"} /\ pc' = "err"
        /\ UNCHANGED <<dag, sent, window, progress>>
    BY <1>5 DEF S!ReportError, S!SigningFails
  <2>2. Abstract!Fail
    BY <1>0, <2>1 DEF Abstract!Fail
  <2> QED
    BY <2>2 DEF Abstract!Next
<1>6. CASE \/ S!RejectSequence \/ S!LaunchReader \/ S!Complete \/ S!ReadFails
           \/ S!WaitCancelled \/ S!Consume \/ S!StreamBreaks \/ S!Cancel
           \/ S!ReaderStep \/ S!ReaderFails
  <2>1. /\ UNCHANGED <<dag, sent, window, progress>>
        /\ \/ pc' = pc
           \/ pc \notin {"ok", "err"} /\ pc' \notin {"ok", "err"}
    BY <1>6 DEF S!RejectSequence, S!LaunchReader, S!Complete, S!ReadFails,
       S!WaitCancelled, S!Waiting, S!InWindow, S!Consume, S!StreamBreaks, S!Cancel,
       S!ReaderStep, S!ReaderReceives, S!ReaderOffers, S!ReaderQuits, S!ReaderFails,
       S!mainVars
  <2>2. Outcome' = Outcome
    BY <2>1 DEF Outcome
  <2> QED
    BY <1>0, <2>1, <2>2, Unseen
<1> QED
  BY <1>1, <1>2, <1>3, <1>4, <1>5, <1>6
     DEF Sender, SenderAction, S!SenderStep, S!SenderFault

\* The batched transfer, whatever the peer's age, the window, the faults and the
\* interleaving, is the cumulative transfer of CumulativeTransfer (upload.go,
\* download.go, transfer_window.go).
THEOREM TransferImplements == Spec => ImplementsCumulativeTransfer
<1>1. Init => Abstract!Init
  <2> SUFFICES ASSUME Init
               PROVE  Abstract!Init
    OBVIOUS
  <2>1. /\ dag \in Dags /\ pc = "start" /\ sent = <<>> /\ accepted = <<>>
        /\ window.packets = 0 /\ progress = -1
    BY DEF Init, S!Init, R!Init
  <2>2. Len(sent) = 0 /\ Len(accepted) = 0
    BY <2>1, EmptySeq
  <2> QED
    BY <2>1, <2>2 DEF Abstract!Init
<1>2. IInv /\ [Next]_vars => [Abstract!Next]_Abstract!transferVars
  <2> SUFFICES ASSUME IInv, [Next]_vars
               PROVE  [Abstract!Next]_Abstract!transferVars
    OBVIOUS
  <2>1. CASE Next
    BY <2>1, StepIs, SenderStepMaps, ReceiverStepMaps
  <2>2. CASE UNCHANGED vars
    BY <2>2, Unseen DEF vars, senderOnly, receiverOnly, Outcome
  <2> QED
    BY <2>1, <2>2
<1> QED
  BY <1>1, <1>2, TransferInvariant, PTL DEF Spec, ImplementsCumulativeTransfer,
     Abstract!Spec
=============================================================================
