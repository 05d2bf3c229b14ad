------------------------ MODULE PacketReceiverProofs ------------------------
(***************************************************************************)
(* Proofs about PacketReceiver, for every set of messages a peer may send  *)
(* and every verdict of the DAG library.                                   *)
(***************************************************************************)
EXTENDS PacketReceiver, TLAPS, SequenceTheorems

LEMMA MessageFacts ==
    ASSUME NEW m \in Messages
    PROVE  /\ m.index \in Int /\ m.total \in Int /\ m.final \in BOOLEAN
           /\ m.publicKey \in Keys \cup {NoKey}
           /\ m.signature \in Keys \cup {NoKey}
           /\ LeafSet(m) \subseteq Hashes \cup {NoHash}
           /\ m.rootLeaf # NoHash => m.rootLeaf \in LeafSet(m)
<1>1. m \in UploadMessageOf({m.parents})
  BY ReceiverAssumption
<1>2. /\ m.index \in Int /\ m.total \in Int /\ m.final \in BOOLEAN
      /\ m.publicKey \in Keys \cup {NoKey}
      /\ m.signature \in Keys \cup {NoKey}
      /\ m.leaves \in Seq(Hashes \cup {NoHash})
  BY <1>1 DEF UploadMessageOf
<1>3. LeafSet(m) \subseteq Hashes \cup {NoHash}
  BY <1>2, ElementOfSeq DEF LeafSet
<1>4. m.rootLeaf # NoHash => m.rootLeaf \in LeafSet(m)
  BY ReceiverAssumption DEF LeafSet
<1> QED
  BY <1>2, <1>3, <1>4

LEMMA ReplyTypes ==
    /\ Rejection \in ResponseMessage
    /\ \A n \in Nat, w \in BOOLEAN : acknowledgment(n, w) \in ResponseMessage
    /\ \A n \in Nat, w \in BOOLEAN : acknowledgment(n, w).ok
    /\ ~Rejection.ok
<1>1. LegacyAck \in AckMessage
  BY DEF LegacyAck, AckMessage
<1>2. ASSUME NEW n \in Nat
      PROVE  encodeTransferWindowAck(n - 1) \in AckMessage
  BY WindowAssumption DEF encodeTransferWindowAck, AckMessage
<1> QED
  BY <1>1, <1>2 DEF Rejection, ResponseMessage, acknowledgment

\* The history after a commit.
LEMMA AcceptedAppend ==
    ASSUME accepted \in Seq(Messages), NEW m \in Messages,
           accepted' = Append(accepted, m)
    PROVE  /\ accepted' \in Seq(Messages)
           /\ accepted' # <<>>
           /\ Len(accepted) \in Nat
           /\ Len(accepted') = Len(accepted) + 1
           /\ DOMAIN accepted = 1..Len(accepted)
           /\ DOMAIN accepted' = 1..(Len(accepted) + 1)
           /\ accepted'[Len(accepted) + 1] = m
           /\ \A i \in 1..Len(accepted) : accepted'[i] = accepted[i]
BY AppendProperties, LenProperties

-----------------------------------------------------------------------------
(* What a commit preserves.                                                *)

\* Facts every commit starts from.
LEMMA CommitStart ==
    ASSUME IInv, NEW m \in Messages, NEW whole \in BOOLEAN, Commit(m, whole)
    PROVE  /\ rpc \in {"first", "next"} /\ ~finalized
           /\ rpc = "first" <=> next = 0
           /\ next = Len(accepted) /\ Len(replies) = Len(accepted)
           /\ validate(m)
<1>1. rpc \in {"first", "next"}
  BY DEF Commit, Arrives
<1>2. accepted \in Seq(Messages) /\ next = Len(accepted)
  BY DEF IInv, TypeOK, AcceptedInOrder
<1>3. rpc = "first" => accepted = <<>> /\ replies = <<>>
  BY DEF IInv, LoopState
<1>4. rpc = "next" => accepted # <<>> /\ Len(replies) = Len(accepted)
  BY DEF IInv, LoopState
<1>5. Len(accepted) = 0 <=> accepted = <<>>
  BY <1>2, EmptySeq
<1> QED
  BY <1>1, <1>2, <1>3, <1>4, <1>5 DEF Commit, validate

LEMMA CommitTypes ==
    ASSUME IInv, NEW m \in Messages, NEW whole \in BOOLEAN, Commit(m, whole)
    PROVE  /\ publicKey' \in Keys \cup {NoKey} /\ signature' \in Keys \cup {NoKey}
           /\ total' \in Nat /\ next' \in Nat /\ windowed' \in BOOLEAN
           /\ finalized' \in BOOLEAN
           /\ seenLeaves' \in SUBSET Hashes /\ leafs' \in SUBSET Hashes
           /\ accepted' \in Seq(Messages)
           /\ verified' \in BOOLEAN
<1>1. publicKey' \in Keys \cup {NoKey} /\ signature' \in Keys \cup {NoKey}
  BY MessageFacts DEF IInv, TypeOK, Commit, Arrives
<1>2. total' \in Nat /\ next' \in Nat
  BY MessageFacts DEF IInv, TypeOK, Commit, commit, Total
<1>3. windowed' \in BOOLEAN /\ finalized' \in BOOLEAN /\ verified' \in BOOLEAN
  BY MessageFacts DEF IInv, TypeOK, Commit, commit, Windowed
<1>4. LeafSet(m) \subseteq Hashes
  BY MessageFacts DEF Commit, validate, ValidLeaves
<1>5. seenLeaves' \in SUBSET Hashes /\ leafs' \in SUBSET Hashes
  BY <1>4 DEF IInv, TypeOK, Commit, commit
<1>6. accepted' \in Seq(Messages)
  BY AcceptedAppend DEF IInv, TypeOK, Commit
<1> QED
  BY <1>1, <1>2, <1>3, <1>5, <1>6

LEMMA CommitOrder ==
    ASSUME IInv, NEW m \in Messages, NEW whole \in BOOLEAN, Commit(m, whole)
    PROVE  AcceptedInOrder'
<1>1. /\ accepted' = Append(accepted, m) /\ accepted \in Seq(Messages)
      /\ next' = next + 1 /\ next = Len(accepted)
      /\ windowed' = Windowed(m) /\ total' = Total(m) /\ ValidCounters(m)
      /\ total \in Nat /\ windowed \in BOOLEAN
  BY DEF IInv, TypeOK, AcceptedInOrder, Commit, commit, validate
<1>2. next' = Len(accepted')
  BY <1>1, AcceptedAppend
<1>3. \A i \in DOMAIN accepted' : accepted'[i].final => i = Len(accepted')
  <2>1. \A i \in DOMAIN accepted : ~accepted[i].final
    <3>1. \A i \in DOMAIN accepted : accepted[i].final => i = Len(accepted)
      BY DEF IInv, AcceptedInOrder
    <3>2. accepted # <<>> => ~accepted[Len(accepted)].final
      BY CommitStart DEF IInv, LoopState
    <3>3. DOMAIN accepted = 1..Len(accepted)
      BY <1>1, LenProperties
    <3>4. accepted = <<>> => DOMAIN accepted = {}
      OBVIOUS
    <3> QED
      BY <3>1, <3>2, <3>4
  <2> QED
    BY <1>1, <2>1, AcceptedAppend
<1>4. ASSUME windowed'
      PROVE  \A i \in DOMAIN accepted' :
                 /\ accepted'[i].index = i - 1
                 /\ accepted'[i].total = total'
                 /\ accepted'[i].final <=> i = total'
  <2>1. /\ m.total = Total(m) /\ m.index = next /\ m.index < Total(m)
        /\ m.final <=> m.index = Total(m) - 1
        /\ m.index \in Int /\ Total(m) \in Int
    BY <1>1, <1>4, MessageFacts DEF ValidCounters, Total
  <2>2. CASE next = 0
    <3>1. DOMAIN accepted' = {1} /\ accepted'[1] = m
      BY <1>1, <2>2, AcceptedAppend
    <3>2. m.index = 0 /\ m.total = total' /\ (m.final <=> 1 = total')
      BY <1>1, <2>1, <2>2
    <3> QED
      BY <3>1, <3>2
  <2>3. CASE next # 0
    <3>1. windowed /\ total' = total
      BY <1>1, <1>4, <2>3 DEF Windowed, Total
    <3>2. \A i \in DOMAIN accepted :
              /\ accepted[i].index = i - 1
              /\ accepted[i].total = total
              /\ accepted[i].final <=> i = total
      BY <3>1 DEF IInv, AcceptedInOrder
    <3>3. /\ DOMAIN accepted' = DOMAIN accepted \cup {Len(accepted) + 1}
          /\ accepted'[Len(accepted) + 1] = m
          /\ \A i \in DOMAIN accepted : accepted'[i] = accepted[i]
          /\ Len(accepted) \in Nat
      BY <1>1, AcceptedAppend
    <3>4. /\ m.index = (Len(accepted) + 1) - 1
          /\ m.total = total'
          /\ m.final <=> Len(accepted) + 1 = total'
      BY <1>1, <2>1, <3>1, <3>3
    <3>5. \A i \in DOMAIN accepted :
              /\ accepted'[i].index = i - 1
              /\ accepted'[i].total = total'
              /\ accepted'[i].final <=> i = total'
      BY <3>1, <3>2, <3>3
    <3> QED
      BY <3>3, <3>4, <3>5
  <2> QED
    BY <2>2, <2>3
<1> QED
  BY <1>2, <1>3, <1>4 DEF AcceptedInOrder

LEMMA CommitLeaves ==
    ASSUME IInv, NEW m \in Messages, NEW whole \in BOOLEAN, Commit(m, whole)
    PROVE  LeavesOnce'
<1>1. /\ accepted' = Append(accepted, m) /\ accepted \in Seq(Messages)
      /\ seenLeaves' = seenLeaves \cup LeafSet(m)
      /\ leafs' = leafs \cup LeafSet(m)
      /\ LeafSet(m) \cap seenLeaves = {}
  BY DEF IInv, TypeOK, Commit, commit, validate, ValidLeaves
<1>2. /\ \A i, j \in DOMAIN accepted :
             i # j => LeafSet(accepted[i]) \cap LeafSet(accepted[j]) = {}
      /\ seenLeaves = UNION {LeafSet(accepted[i]) : i \in DOMAIN accepted}
      /\ leafs = seenLeaves
  BY DEF IInv, LeavesOnce
<1>3. /\ DOMAIN accepted = 1..Len(accepted) /\ Len(accepted) \in Nat
      /\ DOMAIN accepted' = 1..(Len(accepted) + 1)
      /\ accepted'[Len(accepted) + 1] = m
      /\ \A i \in 1..Len(accepted) : accepted'[i] = accepted[i]
  BY <1>1, AcceptedAppend
<1>4. \A i \in DOMAIN accepted : LeafSet(accepted[i]) \cap LeafSet(m) = {}
  BY <1>1, <1>2
<1>5. \A i, j \in DOMAIN accepted' :
          i # j => LeafSet(accepted'[i]) \cap LeafSet(accepted'[j]) = {}
  <2> SUFFICES ASSUME NEW i \in DOMAIN accepted', NEW j \in DOMAIN accepted', i # j
               PROVE  LeafSet(accepted'[i]) \cap LeafSet(accepted'[j]) = {}
    OBVIOUS
  <2>1. CASE i \in DOMAIN accepted /\ j \in DOMAIN accepted
    BY <1>2, <1>3, <2>1
  <2>2. CASE i = Len(accepted) + 1 /\ j \in DOMAIN accepted
    BY <1>3, <1>4, <2>2
  <2>3. CASE i \in DOMAIN accepted /\ j = Len(accepted) + 1
    BY <1>3, <1>4, <2>3
  <2> QED
    BY <1>3, <2>1, <2>2, <2>3
<1>6. seenLeaves' = UNION {LeafSet(accepted'[i]) : i \in DOMAIN accepted'}
  <2>1. ASSUME NEW h \in seenLeaves'
        PROVE  h \in UNION {LeafSet(accepted'[i]) : i \in DOMAIN accepted'}
    <3>1. CASE h \in LeafSet(m)
      BY <1>3, <3>1
    <3>2. CASE h \in seenLeaves
      <4>1. PICK i \in DOMAIN accepted : h \in LeafSet(accepted[i])
        BY <1>2, <3>2
      <4>2. i \in DOMAIN accepted' /\ accepted'[i] = accepted[i]
        BY <1>3
      <4> QED
        BY <4>1, <4>2
    <3> QED
      BY <1>1, <3>1, <3>2
  <2>2. ASSUME NEW i \in DOMAIN accepted', NEW h \in LeafSet(accepted'[i])
        PROVE  h \in seenLeaves'
    <3>1. CASE i = Len(accepted) + 1
      BY <1>1, <1>3, <3>1
    <3>2. CASE i \in DOMAIN accepted
      BY <1>1, <1>2, <1>3, <3>2
    <3> QED
      BY <1>3, <3>1, <3>2
  <2> QED
    BY <2>1, <2>2
<1> QED
  BY <1>1, <1>2, <1>5, <1>6 DEF LeavesOnce, LeafSet

LEMMA CommitOwner ==
    ASSUME IInv, NEW m \in Messages, NEW whole \in BOOLEAN, Commit(m, whole)
    PROVE  OneOwner'
<1>1. /\ accepted' = Append(accepted, m) /\ accepted \in Seq(Messages)
      /\ seenLeaves' = seenLeaves \cup LeafSet(m)
      /\ next = Len(accepted)
  BY DEF IInv, TypeOK, AcceptedInOrder, Commit, commit
<1>2. /\ DOMAIN accepted' = 1..(Len(accepted) + 1) /\ Len(accepted) \in Nat
      /\ accepted'[Len(accepted) + 1] = m
      /\ \A i \in 1..Len(accepted) : accepted'[i] = accepted[i]
  BY <1>1, AcceptedAppend
<1>3. CASE next = 0
  <2>1. rpc = "first" /\ validate(m)
    BY <1>3, CommitStart
  <2>2. Authentic(m) /\ publicKey' = m.publicKey
    BY <2>1 DEF Commit, Arrives
  <2>3. Root \in LeafSet(m)
    BY <1>3, <2>1, MessageFacts, ReceiverAssumption DEF validate, ValidFirst
  <2>4. DOMAIN accepted' = {1} /\ accepted'[1] = m
    BY <1>1, <1>2, <1>3
  <2> QED
    BY <1>1, <2>2, <2>3, <2>4 DEF OneOwner, Authentic
<1>4. CASE next # 0
  <2>1. rpc = "next" /\ validate(m)
    BY <1>4, CommitStart
  <2>2. publicKey' = publicKey /\ m.publicKey \in {NoKey, publicKey}
    BY <1>4, <2>1 DEF Commit, Arrives, validate, SameOwner
  <2>3. /\ Authentic(accepted[1]) /\ publicKey = accepted[1].publicKey
        /\ Root \in seenLeaves
        /\ \A i \in DOMAIN accepted :
               accepted[i].publicKey \in {NoKey, accepted[1].publicKey}
    BY <2>1 DEF IInv, LoopState, OneOwner
  <2>4. accepted'[1] = accepted[1] /\ DOMAIN accepted = 1..Len(accepted)
    BY <1>1, <1>2, <1>4, LenProperties
  <2> QED
    BY <1>1, <1>2, <2>2, <2>3, <2>4 DEF OneOwner, Authentic
<1> QED
  BY <1>3, <1>4

-----------------------------------------------------------------------------
(* What is written as an answer.                                           *)

\* The acknowledgments already written stay right after a commit.
LEMMA OldReplies ==
    ASSUME IInv, NEW m \in Messages, NEW whole \in BOOLEAN, Commit(m, whole)
    PROVE  \A k \in DOMAIN replies :
               /\ k <= Len(accepted)
               /\ replies[k] = acknowledgment(k, windowed')
<1>1. /\ rpc \in {"first", "next"}
      /\ rpc = "first" => replies = <<>>
  BY CommitStart DEF IInv, LoopState
<1>2. \A k \in DOMAIN replies :
          k <= Len(accepted) /\ replies[k] = acknowledgment(k, windowed)
  <2>1. \A k \in DOMAIN replies :
            \/ k <= Len(accepted) /\ replies[k] = acknowledgment(k, windowed)
            \/ rpc = "failed"
    BY DEF IInv, AcksMatchCommits
  <2> QED
    BY <1>1, <2>1
<1>3. rpc = "next" => windowed' = windowed
  <2>1. rpc = "next" => next # 0
    BY CommitStart
  <2>2. windowed \in BOOLEAN /\ windowed' = Windowed(m)
    BY DEF IInv, TypeOK, Commit
  <2> QED
    BY <2>1, <2>2, Zenon DEF Windowed
<1>4. replies = <<>> => DOMAIN replies = {}
  OBVIOUS
<1>5. CASE rpc = "first"
  BY <1>1, <1>4, <1>5
<1>6. CASE rpc = "next"
  BY <1>2, <1>3, <1>6
<1> QED
  BY <1>1, <1>5, <1>6

\* Writing acknowledgment, rejection or nothing after a commit.
LEMMA CommitReplies ==
    ASSUME IInv, NEW m \in Messages, NEW whole \in BOOLEAN, Commit(m, whole),
           NEW ack, ack = acknowledgment(next', windowed'),
           \/ /\ replies' = Append(replies, ack)
              /\ m.final => whole
              /\ rpc' \in {"report", "failed"}
           \/ replies' \in {replies, Append(replies, Rejection)} /\ rpc' = "failed"
    PROVE  IInv'
<1>0. /\ replies \in Seq(ResponseMessage) /\ accepted \in Seq(Messages)
      /\ Len(replies) = Len(accepted) /\ next = Len(accepted) /\ next' = next + 1
      /\ next' \in Nat /\ windowed' \in BOOLEAN
      /\ finalized' = m.final /\ verified' = (m.final /\ whole)
      /\ accepted' = Append(accepted, m)
  BY CommitStart, CommitTypes DEF IInv, TypeOK, Commit, commit
<1>1. /\ DOMAIN replies = 1..Len(replies) /\ Len(replies) \in Nat
      /\ Len(accepted') = Len(accepted) + 1 /\ accepted' # <<>>
      /\ accepted'[Len(accepted')] = m
  BY <1>0, LenProperties, AcceptedAppend
<1>2. ack \in ResponseMessage /\ ack.ok /\ Rejection \in ResponseMessage /\ ~Rejection.ok
  BY <1>0, ReplyTypes
<1>3. ASSUME NEW r \in ResponseMessage, replies' = Append(replies, r)
      PROVE  /\ replies' \in Seq(ResponseMessage)
             /\ Len(replies') = Len(replies) + 1
             /\ DOMAIN replies' = 1..(Len(replies) + 1)
             /\ replies'[Len(replies) + 1] = r
             /\ \A i \in 1..Len(replies) : replies'[i] = replies[i]
  BY <1>0, <1>3, AppendProperties, LenProperties
<1>4. AcceptedInOrder' /\ LeavesOnce' /\ OneOwner'
  BY CommitOrder, CommitLeaves, CommitOwner
<1>5. TypeOK'
  <2>1. replies' \in Seq(ResponseMessage)
    BY <1>0, <1>2, <1>3
  <2> QED
    BY <2>1, CommitTypes DEF TypeOK
<1>6. LoopState'
  <2>1. finalized' <=> accepted' # <<>> /\ accepted'[Len(accepted')].final
    BY <1>0, <1>1, MessageFacts
  <2>2. Len(replies') \in {Len(replies), Len(replies) + 1}
    BY <1>2, <1>3
  <2>3. rpc' = "report" => Len(replies') = Len(accepted')
    BY <1>0, <1>1, <1>2, <1>3
  <2> QED
    BY <2>1, <2>2, <2>3, <1>0, <1>1 DEF LoopState
<1>7. AcksMatchCommits'
  <2>1. \A k \in DOMAIN replies :
            k <= Len(accepted') /\ replies[k] = acknowledgment(k, windowed')
    BY <1>0, <1>1, OldReplies
  <2>2. SUFFICES \A k \in DOMAIN replies' :
            \/ k <= Len(accepted') /\ replies'[k] = acknowledgment(k, windowed')
            \/ replies'[k] = Rejection /\ k = Len(replies') /\ rpc' = "failed"
    BY DEF AcksMatchCommits, acknowledgment, encodeTransferWindowAck
  <2>3. CASE replies' = replies
    BY <2>1, <2>3
  <2>4. CASE replies' = Append(replies, ack)
    <3>1. ack = acknowledgment(Len(replies) + 1, windowed')
      BY <1>0
    <3>2. /\ DOMAIN replies' = DOMAIN replies \cup {Len(replies) + 1}
          /\ replies'[Len(replies) + 1] = ack
          /\ \A k \in DOMAIN replies : replies'[k] = replies[k]
      <4>1. /\ DOMAIN replies' = 1..(Len(replies) + 1)
            /\ replies'[Len(replies) + 1] = ack
            /\ \A i \in 1..Len(replies) : replies'[i] = replies[i]
        BY <1>2, <1>3, <2>4, Zenon
      <4>2. 1..(Len(replies) + 1) = 1..Len(replies) \cup {Len(replies) + 1}
        BY <1>1
      <4> QED
        BY <1>1, <4>1, <4>2, Zenon
    <3>3. Len(replies) + 1 <= Len(accepted')
      BY <1>0, <1>1
    <3> QED
      BY <2>1, <3>1, <3>2, <3>3
  <2>5. CASE replies' = Append(replies, Rejection) /\ rpc' = "failed"
    <3>1. /\ DOMAIN replies' = DOMAIN replies \cup {Len(replies) + 1}
          /\ replies'[Len(replies) + 1] = Rejection
          /\ Len(replies') = Len(replies) + 1
          /\ \A k \in DOMAIN replies : replies'[k] = replies[k]
      BY <1>1, <1>2, <1>3, <2>5
    <3> QED
      BY <2>1, <2>5, <3>1
  <2> QED
    BY <2>3, <2>4, <2>5
<1>8. FinalAckMeansVerified'
  <2>1. CASE replies' = replies
    BY <1>0, <1>1, <2>1 DEF FinalAckMeansVerified
  <2>2. CASE replies' = Append(replies, Rejection)
    BY <1>0, <1>1, <1>2, <1>3, <2>2 DEF FinalAckMeansVerified
  <2>3. CASE replies' = Append(replies, ack) /\ (m.final => whole)
    BY <1>0, <2>3 DEF FinalAckMeansVerified
  <2> QED
    BY <2>1, <2>2, <2>3
<1> QED
  BY <1>4, <1>5, <1>6, <1>7, <1>8 DEF IInv

\* A step that commits nothing and may write a rejection as it fails.
LEMMA RejectKeeps ==
    ASSUME IInv, rpc \in {"first", "next"}, Reject,
           UNCHANGED <<total, next, windowed, finalized, seenLeaves, leafs,
                       accepted, verified>>,
           publicKey' \in Keys \cup {NoKey}, signature' \in Keys \cup {NoKey},
           rpc = "next" => publicKey' = publicKey
    PROVE  IInv'
<1>0. /\ replies \in Seq(ResponseMessage) /\ accepted \in Seq(Messages)
      /\ rpc' = "failed" /\ Rejection \in ResponseMessage /\ ~Rejection.ok
      /\ rpc = "first" => accepted = <<>> /\ replies = <<>>
      /\ Len(replies) = Len(accepted) /\ ~finalized
      /\ Len(replies) \in Nat /\ Len(accepted) \in Nat
  <2>1. /\ replies \in Seq(ResponseMessage) /\ accepted \in Seq(Messages)
        /\ rpc = "first" => accepted = <<>> /\ replies = <<>>
        /\ rpc = "next" => Len(replies) = Len(accepted) /\ ~finalized
        /\ accepted = <<>> => ~finalized
    BY DEF IInv, TypeOK, LoopState
  <2> QED
    BY <2>1, ReplyTypes, LenProperties DEF Reject
<1>1. \/ replies' = replies
      \/ /\ replies' \in Seq(ResponseMessage)
         /\ DOMAIN replies' = 1..(Len(replies) + 1)
         /\ Len(replies') = Len(replies) + 1
         /\ replies'[Len(replies) + 1] = Rejection
         /\ \A i \in 1..Len(replies) : replies'[i] = replies[i]
  BY <1>0, AppendProperties, LenProperties DEF Reject
<1>2. AcceptedInOrder' /\ LeavesOnce'
  <2>1. AcceptedInOrder'
    BY DEF IInv, AcceptedInOrder
  <2>2. LeavesOnce'
    BY DEF IInv, LeavesOnce, LeafSet
  <2> QED
    BY <2>1, <2>2
<1>3. OneOwner'
  BY <1>0 DEF IInv, OneOwner, Authentic
<1>4. TypeOK'
  BY <1>0, <1>1 DEF IInv, TypeOK
<1>5. LoopState'
  BY <1>0, <1>1 DEF IInv, LoopState
<1>6. AcksMatchCommits'
  <2>1. DOMAIN replies = 1..Len(replies)
    BY <1>0, LenProperties
  <2>2. \A k \in DOMAIN replies :
            k <= Len(accepted) /\ replies[k] = acknowledgment(k, windowed)
    BY DEF IInv, AcksMatchCommits
  <2> QED
    BY <1>0, <1>1, <2>1, <2>2
       DEF AcksMatchCommits, acknowledgment, encodeTransferWindowAck
<1>7. FinalAckMeansVerified'
  BY <1>0 DEF FinalAckMeansVerified
<1> QED
  BY <1>2, <1>3, <1>4, <1>5, <1>6, <1>7 DEF IInv

\* A step that only moves the control state.
LEMMA ControlKeeps ==
    ASSUME IInv, rpc' \in {"start", "first", "next", "report", "done", "failed"},
           UNCHANGED <<stateVars, leafs, accepted, verified, replies>>,
           LoopState',
           rpc = "failed" => rpc' = "failed"
    PROVE  IInv'
<1>1. TypeOK' /\ AcceptedInOrder' /\ LeavesOnce' /\ OneOwner' /\ FinalAckMeansVerified'
  <2>1. TypeOK'
    BY DEF IInv, TypeOK, stateVars
  <2>2. AcceptedInOrder'
    BY DEF IInv, AcceptedInOrder, stateVars
  <2>3. LeavesOnce'
    BY DEF IInv, LeavesOnce, LeafSet, stateVars
  <2>4. OneOwner' /\ FinalAckMeansVerified'
    BY DEF IInv, OneOwner, Authentic, FinalAckMeansVerified, stateVars
  <2> QED
    BY <2>1, <2>2, <2>3, <2>4
<1>2. AcksMatchCommits'
  BY DEF IInv, AcksMatchCommits, acknowledgment, encodeTransferWindowAck, stateVars
<1> QED
  BY <1>1, <1>2 DEF IInv

LEMMA InitHolds ==
    ASSUME Init
    PROVE  IInv
<1>1. TypeOK
  BY EmptySeq DEF Init, TypeOK
<1>2. LoopState /\ OneOwner /\ AcceptedInOrder /\ AcksMatchCommits /\ FinalAckMeansVerified
  BY DEF Init, LoopState, OneOwner, AcceptedInOrder, AcksMatchCommits,
     FinalAckMeansVerified
<1>3. LeavesOnce
  BY DEF Init, LeavesOnce
<1> QED
  BY <1>1, <1>2, <1>3 DEF IInv

LEMMA StepKeeps ==
    ASSUME IInv, [Next]_receiverVars
    PROVE  IInv'
<1>1. CASE RequestFails \/ Request \/ ReceiveFails
  <2>1. LoopState'
    BY <1>1 DEF RequestFails, Request, ReceiveFails, IInv, LoopState, stateVars
  <2> QED
    BY <1>1, <2>1, ControlKeeps DEF RequestFails, Request, ReceiveFails
<1>2. CASE Reported
  <2>1. LoopState'
    BY <1>2 DEF Reported, IInv, LoopState, stateVars
  <2> QED
    BY <1>2, <2>1, ControlKeeps DEF Reported
<1>3. ASSUME NEW m \in Messages, RejectRoot(m)
      PROVE  IInv'
  BY <1>3, RejectKeeps DEF RejectRoot, stateVars, IInv, TypeOK
<1>4. ASSUME NEW m \in Messages, NEW applied \in BOOLEAN, RejectPacket(m, applied)
      PROVE  IInv'
  <2>1. /\ rpc \in {"first", "next"} /\ (rpc = "next" => publicKey' = publicKey)
        /\ publicKey' \in Keys \cup {NoKey} /\ signature' \in Keys \cup {NoKey}
    BY <1>4, MessageFacts DEF RejectPacket, Arrives, IInv, TypeOK
  <2> QED
    BY <1>4, <2>1, RejectKeeps DEF RejectPacket
<1>5. ASSUME NEW m \in Messages, NEW whole \in BOOLEAN,
             AcceptPacket(m, whole) \/ AckFails(m, whole) \/ RejectDag(m, whole)
      PROVE  IInv'
  <2>1. Commit(m, whole)
    BY <1>5 DEF AcceptPacket, AckFails, RejectDag
  <2>2. \/ /\ replies' = Append(replies, acknowledgment(next', windowed'))
           /\ m.final => whole
           /\ rpc' \in {"report", "failed"}
        \/ replies' \in {replies, Append(replies, Rejection)} /\ rpc' = "failed"
    BY <1>5 DEF AcceptPacket, AckFails, RejectDag, Reject
  <2> QED
    BY <2>1, <2>2, CommitReplies
<1>6. CASE UNCHANGED receiverVars
  <2>1. LoopState'
    BY <1>6 DEF IInv, LoopState, receiverVars, stateVars
  <2> QED
    BY <1>6, <2>1, ControlKeeps DEF IInv, TypeOK, receiverVars
<1> QED
  BY <1>1, <1>2, <1>3, <1>4, <1>5, <1>6 DEF Next, Receive

-----------------------------------------------------------------------------
\* The inductive invariant holds in every reachable state.
THEOREM ReceiverInvariant == Spec => []IInv
<1>1. Init => IInv
  BY InitHolds
<1>2. IInv /\ [Next]_receiverVars => IInv'
  BY StepKeeps
<1> QED
  BY <1>1, <1>2, PTL DEF Spec

\* Every variable of a download keeps its type.
THEOREM ReceiverTypeCorrect == Spec => []TypeOK
<1>1. IInv => TypeOK
  BY DEF IInv
<1> QED
  BY <1>1, ReceiverInvariant, PTL

\* The packets committed form one numbered sequence without gap or repetition
\* (transfer_window.go:325-341).
THEOREM ReceiverOrder == Spec => []AcceptedInOrder
<1>1. IInv => AcceptedInOrder
  BY DEF IInv
<1> QED
  BY <1>1, ReceiverInvariant, PTL

\* No leaf is delivered twice (transfer_window.go:342-371).
THEOREM ReceiverLeavesOnce == Spec => []LeavesOnce
<1>1. IInv => LeavesOnce
  BY DEF IInv
<1> QED
  BY <1>1, ReceiverInvariant, PTL

\* The k-th acknowledgment covers packet k-1, which was committed, and nothing
\* is written after a refusal (download.go:80-113).
THEOREM ReceiverAcks == Spec => []AcksMatchCommits
<1>1. IInv => AcksMatchCommits
  BY DEF IInv
<1> QED
  BY <1>1, ReceiverInvariant, PTL

\* The last acknowledgment is written only for a verified DAG
\* (download.go:99-110).
THEOREM ReceiverFinalAck == Spec => []FinalAckMeansVerified
<1>1. IInv => FinalAckMeansVerified
  BY DEF IInv
<1> QED
  BY <1>1, ReceiverInvariant, PTL

\* A download that returns a DAG received the whole of it, from one owner
\* (download.go:54-130).
THEOREM ReceiverComplete == Spec => []DownloadComplete
<1>1. IInv => DownloadComplete
  <2> SUFFICES ASSUME IInv, rpc = "done"
               PROVE  DownloadComplete
    BY DEF DownloadComplete
  <2>1. /\ accepted # <<>> /\ finalized /\ Len(replies) = Len(accepted)
        /\ accepted[Len(accepted)].final
        /\ accepted \in Seq(Messages) /\ replies \in Seq(ResponseMessage)
    BY DEF IInv, LoopState, TypeOK
  <2>2. /\ Len(accepted) \in DOMAIN accepted
        /\ Len(replies) \in DOMAIN replies
    BY <2>1, LenProperties, EmptySeq
  <2>3. windowed => Len(accepted) = total
    BY <2>1, <2>2 DEF IInv, AcceptedInOrder
  <2>4. Root \in leafs
    BY <2>1 DEF IInv, OneOwner, LeavesOnce
  <2>5. replies[Len(replies)].ok
    <3>1. replies[Len(replies)] = acknowledgment(Len(replies), windowed)
      BY <2>2 DEF IInv, AcksMatchCommits
    <3> QED
      BY <3>1 DEF acknowledgment
  <2>6. verified
    BY <2>1, <2>5 DEF IInv, FinalAckMeansVerified
  <2> QED
    BY <2>1, <2>3, <2>4, <2>6 DEF DownloadComplete, IInv, OneOwner
<1> QED
  BY <1>1, ReceiverInvariant, PTL

\* validate never meets a finalized receive state (transfer_window.go:296-298).
THEOREM ReceiverNoPacketAfterFinal == Spec => []NoPacketAfterFinal
<1>1. IInv => NoPacketAfterFinal
  BY DEF IInv, LoopState, NoPacketAfterFinal
<1> QED
  BY <1>1, ReceiverInvariant, PTL

\* The "incomplete packet stream" branch is dead code (download.go:100-104).
THEOREM ReceiverIncompleteUnreachable == Spec => []IncompleteStreamUnreachable
<1>1. IInv => IncompleteStreamUnreachable
  <2> SUFFICES ASSUME IInv, NEW m \in Messages, validate(m), Incomplete(m)
               PROVE  FALSE
    BY DEF IncompleteStreamUnreachable
  <2>1. /\ m.final /\ Windowed(m) /\ next + 1 # Total(m)
        /\ m.index = next /\ (m.final <=> m.index = Total(m) - 1)
        /\ next \in Nat /\ Total(m) \in Int
    BY MessageFacts
       DEF Incomplete, validate, ValidCounters, IInv, TypeOK, Total
  <2>2. next = Total(m) - 1
    BY <2>1
  <2> QED
    BY <2>1, <2>2
<1> QED
  BY <1>1, ReceiverInvariant, PTL
=============================================================================
