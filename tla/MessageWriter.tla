---------------------------- MODULE MessageWriter ----------------------------
(***************************************************************************)
(* One call of WriteMessageToStream (lib/connmgr/stream.go): its attempts, *)
(* each with a goroutine that encodes the message and hands it to the      *)
(* stream in one Write, the timeout that closes the stream, the retries.   *)
(*                                                                         *)
(* wire is what the stream accepted for this message, in order: "whole"    *)
(* for the whole encoding, "part" for a proper prefix of it. The module     *)
(* that composes this one breaks the stream (RequestResponse).             *)
(***************************************************************************)
EXTENDS Integers, Sequences, FiniteSets

CONSTANT MaxRetries  \* writeOptions.maxRetries, 3 by default

VARIABLES
    call,      \* "writing", "retrying", "ok" or "failed"
    attempt,   \* attempt
    orphans,   \* goroutines in Encode whose attempt timed out
    late,      \* one of them started before the stream was closed
    closed,    \* a timeout has closed the stream
    broken,    \* the peer or the network has ended it
    wire

orphanVars == <<orphans, late>>
streamVars == <<closed, broken>>

Open == ~closed /\ ~broken

Init ==
    /\ call = "writing" /\ attempt = 0
    /\ orphans = 0 /\ late = FALSE
    /\ closed = FALSE /\ broken = FALSE
    /\ wire = <<>>
-----------------------------------------------------------------------------
FailAttempt(terminal) ==
    /\ call' = IF terminal \/ attempt = MaxRetries THEN "failed" ELSE "retrying"
    /\ UNCHANGED attempt

\* After retryDelay.
Retry ==
    /\ call = "retrying"
    /\ call' = "writing"
    /\ attempt' = attempt + 1
    /\ UNCHANGED <<orphanVars, streamVars, wire>>

\* Mutant: a short write counts as a success.
ShortWriteSucceeds ==
    /\ call = "writing" /\ Open
    /\ wire' \in {Append(wire, "part"), Append(wire, "whole")}
    /\ call' = "ok"
    /\ UNCHANGED <<attempt, orphanVars, streamVars>>

WriteSucceeds ==
    /\ call = "writing" /\ Open
    /\ wire' = Append(wire, "whole")
    /\ call' = "ok"
    /\ UNCHANGED <<attempt, orphanVars, streamVars>>

\* The stream reports an error, terminal or not, after it accepted a part of
\* the message or nothing.
WriteFails ==
    /\ call = "writing"
    /\ wire' = wire \/ (Open /\ wire' = Append(wire, "part"))
    /\ \E terminal \in BOOLEAN : FailAttempt(terminal)
    /\ UNCHANGED <<orphanVars, streamVars>>

\* Mutant: the stream stays open after a timeout.
TimeoutKeepsOpen ==
    /\ call = "writing"
    /\ orphans' = orphans + 1 /\ late' = TRUE
    /\ FailAttempt(FALSE)
    /\ UNCHANGED <<streamVars, wire>>

Timeout ==
    /\ call = "writing"
    /\ closed' = TRUE
    /\ orphans' = orphans + 1 /\ late' = (late \/ ~closed)
    /\ FailAttempt(FALSE)
    /\ UNCHANGED <<broken, wire>>

(***************************************************************************)
(* The goroutine of an attempt that timed out ends with an error. Only one *)
(* of an attempt made before the stream was closed can have written, and   *)
(* that even the whole message, accepted as the timer fired.               *)
(***************************************************************************)
OrphanEnds ==
    /\ orphans > 0 /\ ~Open
    /\ orphans' = orphans - 1
    /\ \/ UNCHANGED <<wire, late>>
       \/ /\ late /\ late' = FALSE
          /\ wire' \in {Append(wire, "part"), Append(wire, "whole")}
    /\ UNCHANGED <<call, attempt, streamVars>>

Write == WriteSucceeds \/ WriteFails \/ Timeout
-----------------------------------------------------------------------------
(* Correctness.                                                            *)

Wholes == {i \in DOMAIN wire : wire[i] = "whole"}

\* However many attempts there were, and however late one of them writes, the
\* peer never gets the message twice.
NeverTwice == Cardinality(Wholes) <= 1

\* A call that succeeds has written the whole message, as the last thing of
\* this call: nothing of an earlier attempt comes after it.
SuccessWritesLast == call = "ok" => wire # <<>> /\ Wholes = {Len(wire)}
-----------------------------------------------------------------------------
\* The inductive invariant. There is no more than one goroutine left behind
\* for each attempt. The whole message is on the wire because the last attempt
\* wrote it, or because a goroutine did that a timeout had given up; as long as
\* such a goroutine may still write, it is not.
WriterInv ==
    /\ call \in {"writing", "retrying", "ok", "failed"}
    /\ attempt \in 0..MaxRetries /\ (call = "retrying" => attempt < MaxRetries)
    /\ orphans \in 0..(IF call = "writing" THEN attempt ELSE attempt + 1)
    /\ late \in BOOLEAN /\ closed \in BOOLEAN
    /\ wire \in Seq({"part", "whole"})
    /\ late => closed /\ call # "ok" /\ Wholes = {}
    /\ SuccessWritesLast
    /\ call # "ok" /\ Wholes # {} => closed /\ \E w \in Wholes : Wholes = {w}
=============================================================================
