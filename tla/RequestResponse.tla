-------------------------- MODULE RequestResponse --------------------------
(***************************************************************************)
(* One request on a stream of its own: ClaimOwnership, QueryDag, and the   *)
(* request of DownloadDag with the messages that answer it. It is written  *)
(* by MessageWriter and answered through a MessageReader, and the stream   *)
(* they share is closed when the function returns.                         *)
(*                                                                         *)
(* The relay answers a request it received whole, before anything else;    *)
(* without one it sends an error at most. A stream passes every Write on,  *)
(* except that of a websocket, which keeps it in a buffer.                 *)
(***************************************************************************)
EXTENDS Keys, Sequences, FiniteSets

CONSTANTS
    Requests,    \* the calls: their op, private key (0: nil) and root
    Feeds, MaxRetries, MaxOrphans

ASSUME RequestAssumption ==
    /\ \A r \in Requests : /\ r.op \in {"claim", "query", "download"}
                          /\ r.key \in 0..(Order - 1) /\ r.root \in Nat
    /\ Feeds \subseteq Seq({"message", "foreign", "error", "broken"})
    /\ MaxRetries \in Nat /\ MaxOrphans \in Nat

VARIABLES
    request,     \* the call's arguments; never changes
    transport,   \* "stream", or "websocket"; never changes
    pc,          \* "start", "write", "read", "done" or "failed"
    written, writes, writers, late, wire,
    feed, arrived, ended, closed, decoded, call, attempt, orphans, raced,
    timeouts, returned, skipped

W == INSTANCE MessageWriter WITH
         call <- written, attempt <- writes, orphans <- writers, broken <- ended

R == INSTANCE MessageReader

setting == <<request, transport>>
writerVars == <<written, writes, writers, late, wire>>
readerVars == <<feed, arrived, decoded, call, attempt, orphans, raced,
                timeouts, returned, skipped>>
vars == <<setting, pc, writerVars, readerVars, ended, closed>>

Init ==
    /\ request \in Requests
    /\ transport \in {"stream", "websocket"}
    /\ pc = "start"
    /\ W!Init /\ R!Init
-----------------------------------------------------------------------------
\* Mutant: the root is signed as it is written, not as the CID it stands for.
ClaimOfText ==
    [root |-> request.root,
     publicKey |-> SerializePublicKey(PubKey(request.key)),
     signature |-> SignData(request.root, request.key)]

ClaimOwnershipMessage ==
    [root |-> request.root,
     publicKey |-> SerializePublicKey(PubKey(request.key)),
     signature |-> SignSerializedCid(request.root, request.key)]

\* A claim needs a key and a root that is a CID.
Prepared == request.op = "claim" => request.key # 0 /\ request.root # 0

\* The stream is closed on every return but that of a GetStream that failed.
Returns(outcome) ==
    /\ pc' = outcome
    /\ closed' = TRUE
    /\ UNCHANGED <<setting, writerVars, readerVars, ended>>

GetStreamFails ==
    /\ pc = "start" /\ pc' = "failed"
    /\ UNCHANGED <<setting, writerVars, readerVars, ended, closed>>

Refuse == pc = "start" /\ ~Prepared /\ Returns("failed")

Begin ==
    /\ pc = "start" /\ Prepared /\ pc' = "write"
    /\ UNCHANGED <<setting, writerVars, readerVars, ended, closed>>

WriteStep ==
    /\ pc = "write" /\ transport = "stream"
    /\ W!Retry \/ W!Write
    /\ UNCHANGED <<setting, pc, readerVars>>

\* A websocket's Write cannot wait or fail, be the connection up or not.
BufferWrite ==
    /\ pc = "write" /\ transport = "websocket"
    /\ written = "writing" /\ written' = "ok"
    /\ wire' = Append(wire, "whole")
    /\ UNCHANGED <<setting, pc, readerVars, writes, writers, late, ended, closed>>

\* The answer is read, or, of a download, the next part of it.
StartRead ==
    /\ \/ pc = "write" /\ written = "ok"
       \/ pc = "read" /\ request.op = "download"
    /\ pc' = "read"
    /\ R!StartCall
    /\ UNCHANGED <<setting, writerVars>>

ReadStep ==
    /\ pc = "read"
    /\ R!Retry \/ R!Decode
    /\ UNCHANGED <<setting, pc, writerVars>>

\* A claim fails when the answer says no, which is up to the relay.
Answered ==
    /\ pc = "read" /\ call = "idle"
    /\ \/ Returns("done")
       \/ request.op = "claim" /\ Returns("failed")

GivesUp ==
    /\ \/ pc = "write" /\ written = "failed"
       \/ pc = "read" /\ call = "failed"
    /\ Returns("failed")

WriterEnds == W!OrphanEnds /\ UNCHANGED <<setting, pc, readerVars>>
ReaderEnds == R!OrphanEnds /\ UNCHANGED <<setting, pc, writerVars>>
-----------------------------------------------------------------------------
(* The relay and the network.                                              *)

\* What has left this end of the stream.
Sent == IF transport = "websocket" THEN <<>> ELSE wire

RequestReceived == Sent # <<>> /\ Sent[1] = "whole"

Answer ==
    /\ R!Arrive
    /\ RequestReceived \/ feed[arrived + 1] = "error"
    /\ UNCHANGED <<setting, pc, writerVars>>

StreamEnds == R!StreamEnds /\ UNCHANGED <<setting, pc, writerVars>>

Call == GetStreamFails \/ Refuse \/ Begin \/ StartRead \/ Answered \/ GivesUp

Next ==
    \/ Call \/ WriteStep \/ BufferWrite \/ ReadStep \/ WriterEnds \/ ReaderEnds
    \/ Answer \/ StreamEnds

(***************************************************************************)
(* The function goes on: an attempt ends, by its timer if by nothing else, *)
(* a delay passes, and a Write or Decode on a closed stream returns. A     *)
(* download takes the end of its packets at some time. Nothing is promised *)
(* of the relay.                                                           *)
(***************************************************************************)
Fairness ==
    /\ WF_vars(Call) /\ SF_vars(Answered)
    /\ WF_vars(WriteStep \/ BufferWrite) /\ WF_vars(ReadStep)
    /\ WF_vars(WriterEnds) /\ WF_vars(ReaderEnds)

Spec == Init /\ [][Next]_vars /\ Fairness
-----------------------------------------------------------------------------
(* Correctness.                                                            *)

\* MessageReader: reusing the decoder loses nothing, until a timeout.
NothingLostWithoutTimeout == R!NothingLostWithoutTimeout

\* MessageReader: a timeout loses one message at the most.
TimeoutLosesOne == R!TimeoutLosesOne

\* MessageReader: "must have exactly one reading goroutine" (stream.go:119).
OneReadingGoroutine == R!OneReadingGoroutine

\* MessageWriter: the relay never gets the request twice.
NeverTwice == W!NeverTwice

\* MessageWriter: a write that succeeds put the request on the stream last.
SuccessWritesLast == W!SuccessWritesLast

\* Every call returns, whatever the relay does and however many attempts time
\* out, and leaves no goroutine in a Decode or an Encode behind.
RequestEnds == <>[](pc \in {"done", "failed"} /\ orphans = 0 /\ writers = 0)

\* The claim verifies as the relay would check it, with this package.
ClaimVerifiesFor(message) ==
    LET key == DeserializePublicKey(message.publicKey)
    IN  key # Error /\ VerifySerializedCIDSignature(message.signature, message.root, key)

\* A claim that is on its way verifies at a relay that reads the key and checks
\* the signature with this package, for a key of either parity.
ClaimVerifies ==
    request.op = "claim" /\ pc \in {"write", "read"} =>
        ClaimVerifiesFor(ClaimOwnershipMessage)

\* The texts of the caller's key lead back to it (signing_test.go).
KeyRoundTrips == request.key # 0 => RoundTrip(request.key)

\* A request whose write succeeded has left for the relay: "Create and send
\* the claim ownership message" (claim.go:41).
RequestSent == written = "ok" => \E i \in DOMAIN Sent : Sent[i] = "whole"
-----------------------------------------------------------------------------
(* The inductive invariant behind the safety properties, in named parts.   *)

RequestTypeOK ==
    /\ request \in Requests /\ transport \in {"stream", "websocket"}
    /\ pc \in {"start", "write", "read", "done", "failed"}

\* Nothing is written, and nobody left behind, by a websocket that has not
\* accepted the request, and the caller has what the request needs.
Setting ==
    /\ pc \in {"write", "read"} => Prepared
    /\ transport = "websocket" =>
           ~late /\ writers = 0 /\ (written = "writing" => wire = <<>>)

IInv == RequestTypeOK /\ Setting /\ W!WriterInv /\ R!ReaderInv
=============================================================================
