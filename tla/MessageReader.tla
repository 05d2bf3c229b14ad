---------------------------- MODULE MessageReader ----------------------------
(***************************************************************************)
(* A MessageReader (lib/connmgr/stream.go): a caller that reads messages   *)
(* one after the other with ReadMessageFromReader, its retries, and the    *)
(* goroutine that ReadEnvelope starts for every attempt. A goroutine whose *)
(* attempt timed out is an orphan: nothing waits for it, and until it ends *)
(* it uses the same decoder as the attempts that follow.                   *)
(*                                                                         *)
(* The envelopes the peer sends are numbered from 1. Their kinds are       *)
(*   "message"  decodes to what the caller asked for;                      *)
(*   "foreign"  an item that is consumed and then fails to decode, as an   *)
(*              envelope, an error payload or the payload asked for;       *)
(*   "error"    the error message of the peer;                             *)
(*   "broken"   malformed bytes, which the decoder never gets past.        *)
(***************************************************************************)
EXTENDS Integers, Sequences, FiniteSets

CONSTANTS
    Feeds,       \* sequences of kinds the peer may send
    MaxRetries,  \* readOptions.maxRetries, 3 by default
    MaxOrphans   \* bound: goroutines earlier calls have left behind

VARIABLES
    feed,       \* what the peer sends; never changes
    arrived,    \* envelopes that have reached this end of the stream
    ended,      \* the peer closed the stream, or it was reset
    closed,     \* this end was closed by a timeout
    decoded,    \* envelopes the decoder has consumed
    call,       \* "idle" between calls, "decoding" or "retrying" in one, "failed"
    attempt,    \* attempt
    orphans,    \* goroutines in Decode whose attempt timed out
    raced,      \* history: two goroutines have been in Decode at once
    timeouts,   \* history: the attempts that timed out before that
    returned,   \* history: the envelopes returned to the caller before that
    skipped     \* history: the envelopes consumed and found not decodable

streamVars == <<feed, arrived, ended, closed>>
callVars == <<call, attempt>>
history == <<timeouts, returned, skipped>>

Init ==
    /\ feed \in Feeds /\ arrived = 0
    /\ ended = FALSE /\ closed = FALSE
    /\ call = "idle" /\ attempt = 0
    /\ decoded = 0
    /\ orphans = 0 /\ timeouts = 0 /\ raced = FALSE
    /\ returned = <<>> /\ skipped = {}
-----------------------------------------------------------------------------
(* The caller.                                                             *)

\* The callers of this package give up at the first call that fails.
StartCall ==
    /\ call = "idle" /\ orphans <= MaxOrphans
    /\ call' = "decoding" /\ attempt' = 0
    /\ UNCHANGED <<streamVars, decoded, orphans, raced, history>>

\* An attempt fails with an error that is terminal or not.
FailAttempt(terminal) ==
    /\ call' = IF terminal \/ attempt = MaxRetries THEN "failed" ELSE "retrying"
    /\ UNCHANGED attempt

\* Mutant: attempts are not counted.
RetryUncounted ==
    /\ call = "retrying" /\ call' = "decoding"
    /\ UNCHANGED <<streamVars, attempt, decoded, orphans, raced, history>>

\* After retryDelay.
Retry ==
    /\ call = "retrying" /\ call' = "decoding"
    /\ attempt' = attempt + 1
    /\ UNCHANGED <<streamVars, decoded, orphans, raced, history>>

\* Once closed, what the decoder has buffered can still be decoded; what it
\* has not cannot. Both happen.
HasNext == decoded < arrived
Kind == feed[decoded + 1]
Finds(kind) == call = "decoding" /\ HasNext /\ Kind = kind

\* The call returns the envelope that comes next.
Return ==
    /\ returned' = IF raced THEN returned ELSE Append(returned, decoded + 1)
    /\ call' = "idle"
    /\ UNCHANGED <<streamVars, attempt, orphans, timeouts, raced, skipped>>

\* Mutant: a decoder is made for every attempt and drops what it read ahead.
DecodeAfresh ==
    Finds("message") /\ decoded' \in (decoded + 1)..arrived /\ Return

DecodeMessage == Finds("message") /\ decoded' = decoded + 1 /\ Return

\* The item is gone and the next attempt reads the one after it.
DecodeForeign ==
    /\ Finds("foreign")
    /\ decoded' = decoded + 1
    /\ skipped' = skipped \cup {decoded + 1}
    /\ FailAttempt(FALSE)
    /\ UNCHANGED <<streamVars, orphans, timeouts, raced, returned>>

DecodeError ==
    /\ Finds("error")
    /\ decoded' = decoded + 1
    /\ call' = "failed"
    /\ UNCHANGED <<streamVars, attempt, orphans, raced, history>>

DecodeBroken ==
    /\ Finds("broken")
    /\ FailAttempt(FALSE)
    /\ UNCHANGED <<streamVars, decoded, orphans, raced, history>>

\* The read under Decode fails. At the end of the stream, or after a reset
\* that dropped what had arrived, the error is terminal (isTerminalError);
\* that of a stream closed at this end may not be recognised.
DecodeFails ==
    /\ call = "decoding"
    /\ \/ ended /\ FailAttempt(TRUE)
       \/ closed /\ \E terminal \in BOOLEAN : FailAttempt(terminal)
    /\ UNCHANGED <<streamVars, decoded, orphans, raced, history>>

(***************************************************************************)
(* Two goroutines in one decoder are a data race: the attempt may return   *)
(* something or fail, and the decoder may go on from any place, a place it *)
(* had already left included.                                              *)
(***************************************************************************)
DecodeRacing ==
    /\ call = "decoding" /\ orphans > 0
    /\ raced' = TRUE
    /\ decoded' \in 0..arrived
    /\ \/ call' = "idle" /\ UNCHANGED attempt
       \/ \E terminal \in BOOLEAN : FailAttempt(terminal)
    /\ UNCHANGED <<streamVars, orphans, history>>

\* The attempt is given up and the stream closed; the goroutine is not
\* waited for.
TimesOut ==
    /\ call = "decoding"
    /\ closed' = TRUE
    /\ orphans' = orphans + 1
    /\ timeouts' = IF raced THEN timeouts ELSE timeouts + 1
    /\ FailAttempt(FALSE)
    /\ UNCHANGED <<feed, arrived, ended, raced, returned, skipped>>

\* Mutant: a timeout gives the reader a new decoder, and what the old one had
\* read ahead goes with it.
TimeoutRenewsDecoder == TimesOut /\ decoded' \in decoded..arrived

Timeout == TimesOut /\ UNCHANGED decoded

\* An orphan decodes an envelope nobody will see, or fails.
OrphanEnds ==
    /\ orphans > 0
    /\ orphans' = orphans - 1
    /\ \/ HasNext /\ Kind # "broken" /\ decoded' = decoded + 1
       \/ /\ (HasNext /\ Kind = "broken") \/ closed \/ ended
          /\ UNCHANGED decoded
    /\ UNCHANGED <<streamVars, callVars, raced, history>>
-----------------------------------------------------------------------------
(* The peer and the network.                                               *)

Arrive ==
    /\ ~closed /\ ~ended
    /\ arrived < Len(feed) /\ arrived' = arrived + 1
    /\ UNCHANGED <<feed, ended, closed, callVars, decoded, orphans, raced, history>>

StreamEnds ==
    /\ ~ended /\ ended' = TRUE
    /\ UNCHANGED <<feed, arrived, closed, callVars, decoded, orphans, raced, history>>
-----------------------------------------------------------------------------
Decode ==
    \/ DecodeMessage \/ DecodeForeign \/ DecodeError \/ DecodeBroken \/ DecodeFails
    \/ DecodeRacing \/ Timeout
-----------------------------------------------------------------------------
(* Correctness.                                                            *)

\* As long as no attempt timed out, reusing the decoder loses nothing: an
\* envelope that was consumed was returned, once and in order, or could not be
\* decoded, or was the error that ended the last call.
NothingLostWithoutTimeout ==
    ~closed =>
        /\ \A i, j \in DOMAIN returned : i < j => returned[i] < returned[j]
        /\ 1..decoded =
               {returned[i] : i \in DOMAIN returned} \cup skipped
               \cup {i \in {decoded} \ {0} : feed[i] = "error" /\ call = "failed"}

\* The messages that were consumed and never returned.
LostMessages ==
    {i \in 1..decoded : feed[i] = "message"} \ {returned[j] : j \in DOMAIN returned}

\* Until two goroutines meet in the decoder, a timeout loses one message at the
\* most, the one its goroutine takes when it ends, over all calls and retries on
\* the reader: those whose goroutine is still in Decode have lost none yet.
TimeoutLosesOne == ~raced => Cardinality(LostMessages) + orphans <= timeouts

\* "A MessageReader must have exactly one reading goroutine" (stream.go:119).
OneReadingGoroutine == orphans + (IF call = "decoding" THEN 1 ELSE 0) <= 1
-----------------------------------------------------------------------------
(* The inductive invariant behind the safety properties, in named parts.   *)

ReaderTypeOK ==
    /\ feed \in Seq({"message", "foreign", "error", "broken"})
    /\ arrived \in 0..Len(feed) /\ decoded \in 0..arrived
    /\ closed \in BOOLEAN /\ raced \in BOOLEAN
    /\ orphans \in Nat /\ timeouts \in Nat
    /\ call \in {"idle", "decoding", "retrying", "failed"}
    /\ attempt \in 0..MaxRetries /\ (call = "retrying" => attempt < MaxRetries)
    /\ returned \in Seq(1..Len(feed)) /\ skipped \subseteq 1..Len(feed)

\* What was returned and what was skipped is what it was taken for, and a
\* decoder that no two goroutines have met in is past what it returned.
Accounted ==
    /\ orphans > 0 \/ raced => closed
    /\ \A i \in DOMAIN returned : feed[returned[i]] = "message"
    /\ \A i \in skipped : feed[i] = "foreign"
    /\ ~raced => \A i \in DOMAIN returned : returned[i] <= decoded

ReaderInv ==
    ReaderTypeOK /\ Accounted /\ NothingLostWithoutTimeout /\ TimeoutLosesOne
=============================================================================
