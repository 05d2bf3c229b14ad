--------------------------- MODULE PacketReceiver ---------------------------
(***************************************************************************)
(* One call of DownloadDag (lib/connmgr/download.go): the authentication   *)
(* of the root packet, then the loop that validates, applies, commits and  *)
(* acknowledges one packet at a time with a packetReceiveState             *)
(* (lib/connmgr/transfer_window.go).                                       *)
(*                                                                         *)
(* A hash is a value of Hashes. Signatures are abstracted to who signed:   *)
(* the signature of a key over the requested root is the key itself.       *)
(* What the Merkle DAG library answers is chosen freely: whether a packet  *)
(* applies (applied) and whether the finished DAG verifies (whole) are     *)
(* parameters of the step.                                                 *)
(***************************************************************************)
EXTENDS TransferWindow, Sequences

CONSTANTS
    Hashes,     \* leaf hashes
    Root,       \* the requested root
    NoHash,     \* the empty hash, a nil leaf, and the empty parent of a root
    Keys,       \* public keys
    NoKey,      \* the empty key or signature
    Messages    \* the upload messages the peer may send

\* leaves is Packet.Leaves, parents is Packet.Relationships and rootLeaf what
\* Packet.GetRootLeaf returns (NoHash for nil).
UploadMessageOf(parents) ==
    [root : Hashes, publicKey : Keys \cup {NoKey},
     signature : Keys \cup {NoKey}, final : BOOLEAN, index : Int, total : Int,
     leaves : Seq(Hashes \cup {NoHash}), parents : parents,
     rootLeaf : Hashes \cup {NoHash}]

ASSUME ReceiverAssumption ==
    /\ Root \in Hashes /\ NoHash \notin Hashes /\ NoKey \notin Keys
    /\ \A m \in Messages :
           /\ m.parents \in [DOMAIN m.parents -> Hashes \cup {NoHash}]
           /\ m \in UploadMessageOf({m.parents})
           /\ m.rootLeaf # NoHash =>
                  \E i \in DOMAIN m.leaves : m.leaves[i] = m.rootLeaf

VARIABLES
    rpc,        \* where the loop is
    publicKey,  \* publicKey of the receive state, and signature, which are
    signature,  \*   those of the root packet
    total,      \* total
    next,       \* next
    windowed,   \* windowed
    finalized,  \* finalized
    seenLeaves, \* seenLeaves
    leafs,      \* the keys of dag.Leafs
    accepted,   \* history: the messages committed
    verified,   \* history: dag.Verify has succeeded on the finished DAG
    replies     \* the responses written to the stream

stateVars == <<publicKey, signature, total, next, windowed, finalized, seenLeaves>>
receiverVars == <<rpc, stateVars, leafs, accepted, verified, replies>>

Init ==
    /\ rpc = "start"
    /\ publicKey = NoKey /\ signature = NoKey
    /\ total = 0
    /\ next = 0
    /\ windowed = FALSE
    /\ finalized = FALSE
    /\ seenLeaves = {}
    /\ leafs = {}
    /\ accepted = <<>>
    /\ verified = FALSE
    /\ replies = <<>>

LeafSet(m) == {m.leaves[i] : i \in DOMAIN m.leaves}
-----------------------------------------------------------------------------
(* packetReceiveState.                                                     *)

\* The root packet decides whether the transfer is windowed.
Windowed(m) == windowed \/ (next = 0 /\ m.total > 0)
Total(m) == IF next = 0 /\ m.total > 0 THEN m.total ELSE total

\* Mutant: the first packet need not contain the root.
FirstUnrooted(m) == m.total >= 0 /\ m.index = 0

ValidFirst(m) ==
    /\ m.total >= 0 /\ m.index = 0
    /\ m.rootLeaf = Root

SameOwner(m) ==
    /\ m.publicKey \in {NoKey, publicKey}
    /\ m.signature \in {NoKey, signature}

\* Mutant: a packet may skip some indexes.
CountersSkip(m) ==
    IF Windowed(m)
    THEN /\ m.total = Total(m)
         /\ m.index >= next /\ m.index < Total(m)
         /\ m.final <=> m.index = Total(m) - 1
    ELSE m.total = 0 /\ m.index = 0

ValidCounters(m) ==
    IF Windowed(m)
    THEN /\ m.total = Total(m)
         /\ m.index = next
         /\ m.index >= 0 /\ m.index < Total(m)
         /\ m.final <=> m.index = Total(m) - 1
    ELSE m.total = 0 /\ m.index = 0

\* Mutant: leaves are compared within a packet only.
LeavesUnseen(m) ==
    /\ NoHash \notin LeafSet(m)
    /\ \A i, j \in DOMAIN m.leaves : m.leaves[i] = m.leaves[j] => i = j
    /\ LeafSet(m) \subseteq DOMAIN m.parents
    /\ \A h \in LeafSet(m) : m.parents[h] = NoHash => h = Root

ValidLeaves(m) ==
    /\ NoHash \notin LeafSet(m)
    /\ \A i, j \in DOMAIN m.leaves : m.leaves[i] = m.leaves[j] => i = j
    /\ LeafSet(m) \cap seenLeaves = {}
    /\ LeafSet(m) \subseteq DOMAIN m.parents
    /\ \A h \in LeafSet(m) : m.parents[h] = NoHash => h = Root

validate(m) ==
    /\ ~finalized
    /\ m.leaves # <<>>
    /\ m.root = Root
    /\ IF next = 0 THEN ValidFirst(m) ELSE SameOwner(m)
    /\ ValidCounters(m)
    /\ ValidLeaves(m)

commit(m) ==
    /\ seenLeaves' = seenLeaves \cup LeafSet(m)
    /\ next' = next + 1
    /\ finalized' = m.final

\* Mutant: the acknowledgment names the packet that is expected next.
AckAhead(n, win) ==
    [ok |-> TRUE, message |-> IF win THEN encodeTransferWindowAck(n) ELSE LegacyAck]

\* acknowledgment(), after a commit that made next what it is.
acknowledgment(n, win) ==
    [ok |-> TRUE,
     message |-> IF win THEN encodeTransferWindowAck(n - 1) ELSE LegacyAck]
-----------------------------------------------------------------------------
(* DownloadDag.                                                            *)

\* GetStream, the signature of the request, or writing it fails.
RequestFails ==
    /\ rpc = "start"
    /\ rpc' = "failed"
    /\ UNCHANGED <<stateVars, leafs, accepted, verified, replies>>

Request ==
    /\ rpc = "start"
    /\ rpc' = "first"
    /\ UNCHANGED <<stateVars, leafs, accepted, verified, replies>>

\* reject: the caller fails whether or not the refusal could be written.
Reject ==
    /\ rpc' = "failed"
    /\ replies' \in {replies, Append(replies, Rejection)}

\* The message and the signature of the root are checked before the loop.
Authentic(m) ==
    /\ m.root = Root
    /\ m.publicKey # NoKey
    /\ m.signature = m.publicKey

RejectRoot(m) ==
    /\ rpc = "first"
    /\ ~Authentic(m)
    /\ Reject
    /\ UNCHANGED <<stateVars, leafs, accepted, verified>>

\* A message comes to the head of the loop, where the receive state exists.
Arrives(m) ==
    \/ rpc = "first" /\ Authentic(m)
       /\ publicKey' = m.publicKey /\ signature' = m.signature
    \/ rpc = "next"
       /\ UNCHANGED <<publicKey, signature>>

\* validate or ApplyAndVerifyBatchedTransmissionPacket fails. What a failed
\* validate has set is left out: the receive state dies with the call.
RejectPacket(m, applied) ==
    /\ Arrives(m)
    /\ ~(validate(m) /\ applied)
    /\ Reject
    /\ UNCHANGED <<total, next, windowed, finalized, seenLeaves, leafs, accepted,
                   verified>>

Commit(m, whole) ==
    /\ Arrives(m)
    /\ validate(m)
    /\ commit(m)
    /\ windowed' = Windowed(m)
    /\ total' = Total(m)
    /\ leafs' = leafs \cup LeafSet(m)
    /\ accepted' = Append(accepted, m)
    /\ verified' = (m.final /\ whole)

\* Mutant: a DAG that does not verify is acknowledged like any other.
AcceptUnverified(m, whole) ==
    /\ Commit(m, whole)
    /\ replies' = Append(replies, acknowledgment(next', windowed'))
    /\ rpc' = "report"

\* Mutant: the acknowledgment is made before the commit.
AckBeforeCommit(m, whole) ==
    /\ Commit(m, whole)
    /\ m.final => whole
    /\ replies' = Append(replies, acknowledgment(next, windowed'))
    /\ rpc' = "report"

\* The final packet completes the counters, and then the DAG must verify.
Incomplete(m) == m.final /\ Windowed(m) /\ next + 1 # Total(m)

AcceptPacket(m, whole) ==
    /\ Commit(m, whole)
    /\ m.final => ~Incomplete(m) /\ whole
    /\ replies' = Append(replies, acknowledgment(next', windowed'))
    /\ rpc' = "report"

RejectDag(m, whole) ==
    /\ Commit(m, whole)
    /\ m.final
    /\ Incomplete(m) \/ ~whole
    /\ Reject

\* The acknowledgment cannot be written; it may have left all the same.
AckFails(m, whole) ==
    /\ Commit(m, whole)
    /\ m.final => ~Incomplete(m) /\ whole
    /\ replies' \in {replies, Append(replies, acknowledgment(next', windowed'))}
    /\ rpc' = "failed"

\* The consumer takes the progress report; the final packet ends the loop.
Reported ==
    /\ rpc = "report"
    /\ rpc' = IF finalized THEN "done" ELSE "next"
    /\ UNCHANGED <<stateVars, leafs, accepted, verified, replies>>

\* Mutant: only the first read has a timeout.
ReceiveFailsFirst ==
    /\ rpc = "first"
    /\ rpc' = "failed"
    /\ UNCHANGED <<stateVars, leafs, accepted, verified, replies>>

\* A read fails for good: remote error, closed stream, timeout.
ReceiveFails ==
    /\ rpc \in {"first", "next"}
    /\ rpc' = "failed"
    /\ UNCHANGED <<stateVars, leafs, accepted, verified, replies>>

\* What the receiver does with message m.
Receive(m, applied, whole) ==
    \/ RejectRoot(m)
    \/ RejectPacket(m, applied)
    \/ applied /\ AcceptPacket(m, whole)
    \/ applied /\ RejectDag(m, whole)

Next ==
    \/ RequestFails \/ Request
    \/ \E m \in Messages, applied, whole \in BOOLEAN : Receive(m, applied, whole)
    \/ \E m \in Messages, whole \in BOOLEAN : AckFails(m, whole)
    \/ Reported
    \/ ReceiveFails

(***************************************************************************)
(* Reads and writes have timeouts, hence the request ends and a read that  *)
(* finds no message fails; the consumer of the progress reports is assumed *)
(* to keep receiving. The peer may stop for ever.                          *)
(***************************************************************************)
ReceiverFairness ==
    /\ WF_receiverVars(RequestFails \/ Request)
    /\ WF_receiverVars(Reported)
    /\ WF_receiverVars(ReceiveFails)

Spec == Init /\ [][Next]_receiverVars /\ ReceiverFairness
-----------------------------------------------------------------------------
(* Correctness.                                                            *)

\* Every variable stays in the values the code can give it.
TypeOK ==
    /\ rpc \in {"start", "first", "next", "report", "done", "failed"}
    /\ publicKey \in Keys \cup {NoKey}
    /\ signature \in Keys \cup {NoKey}
    /\ total \in Nat
    /\ next \in Nat
    /\ windowed \in BOOLEAN
    /\ finalized \in BOOLEAN
    /\ seenLeaves \in SUBSET Hashes
    /\ leafs \in SUBSET Hashes
    /\ accepted \in Seq(Messages)
    /\ verified \in BOOLEAN
    /\ replies \in Seq(ResponseMessage)

\* The packets committed are exactly the prefix of one numbered sequence, and
\* the cursor is their number: no gap, no repetition, one total, and the final
\* marker on the last packet and on no other.
AcceptedInOrder ==
    /\ next = Len(accepted)
    /\ windowed =>
           \A i \in DOMAIN accepted :
               /\ accepted[i].index = i - 1
               /\ accepted[i].total = total
               /\ accepted[i].final <=> i = total
    /\ \A i \in DOMAIN accepted : accepted[i].final => i = Len(accepted)

\* No leaf is delivered twice, in one packet or in two, and the receive state
\* and the DAG under construction know the same leaves.
LeavesOnce ==
    /\ \A i, j \in DOMAIN accepted :
           i # j => LeafSet(accepted[i]) \cap LeafSet(accepted[j]) = {}
    /\ seenLeaves = UNION {LeafSet(accepted[i]) : i \in DOMAIN accepted}
    /\ leafs = seenLeaves

\* A download that returns a DAG received the whole transfer: every packet up
\* to the announced total, the declared root first, authenticated by one owner
\* who never changed.
DownloadComplete ==
    rpc = "done" =>
        /\ accepted # <<>> /\ finalized
        /\ windowed => Len(accepted) = total
        /\ Root \in leafs
        /\ verified
        /\ Authentic(accepted[1])
        /\ \A i \in DOMAIN accepted :
               accepted[i].publicKey \in {NoKey, accepted[1].publicKey}

\* Replies are cumulative: the k-th acknowledgment covers packet k-1, which was
\* committed, and a refusal is the last thing written.
AcksMatchCommits ==
    \A k \in DOMAIN replies :
        \/ /\ k <= Len(accepted)
           /\ replies[k] = acknowledgment(k, windowed)
        \/ replies[k] = Rejection /\ k = Len(replies) /\ rpc = "failed"

\* The final packet is acknowledged only after the whole DAG verified: a sender
\* that reads the last acknowledgment may rely on it.
FinalAckMeansVerified ==
    finalized /\ Len(replies) = Len(accepted) /\ replies[Len(replies)].ok
        => verified

\* The "incomplete packet stream" branch of DownloadDag is never taken: the
\* counters and the final marker were already compared by validate.
IncompleteStreamUnreachable ==
    rpc \in {"first", "next"} =>
        \A m \in Messages : validate(m) => ~Incomplete(m)

\* validate never meets a finalized receive state: the loop ends first.
NoPacketAfterFinal == rpc \in {"first", "next"} => ~finalized

\* Every download ends.
DownloadTerminates == <>(rpc \in {"done", "failed"})
-----------------------------------------------------------------------------
(* The inductive invariant behind the safety properties.                   *)

\* What has been accepted and answered at each point of the loop.
LoopState ==
    /\ rpc \in {"start", "first"} =>
           accepted = <<>> /\ replies = <<>> /\ ~windowed
    /\ rpc \in {"next", "report", "done"} =>
           accepted # <<>> /\ Len(replies) = Len(accepted)
    /\ rpc = "next" => ~finalized
    /\ rpc = "done" => finalized
    /\ Len(replies) <= Len(accepted) + 1
    /\ finalized <=> accepted # <<>> /\ accepted[Len(accepted)].final

\* One owner, who signed the root, for all the packets.
OneOwner ==
    accepted # <<>> =>
        /\ Authentic(accepted[1])
        /\ publicKey = accepted[1].publicKey
        /\ Root \in seenLeaves
        /\ \A i \in DOMAIN accepted :
               accepted[i].publicKey \in {NoKey, accepted[1].publicKey}

IInv ==
    /\ TypeOK /\ LoopState /\ OneOwner /\ AcceptedInOrder /\ LeavesOnce
    /\ AcksMatchCommits /\ FinalAckMeansVerified
=============================================================================
