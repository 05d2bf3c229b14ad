----------------------------- MODULE EventQuery -----------------------------
(***************************************************************************)
(* QueryEvents and SendUniversalEventSingle (lib/connmgr/universal.go): a  *)
(* request to a relay, and the messages read from it in return, until EOSE *)
(* for a query, a single one for an event. Every message is read by        *)
(* ReadJsonMessageFromStream (stream.go) with a json.Decoder of its own,   *)
(* and what a decoder took from the stream and did not decode goes with it.*)
(*                                                                         *)
(* A message counts for two units of the stream, so that a read may end    *)
(* inside one. The kinds of messages are "event", "notice" and "eose", OK  *)
(* as "accept" or "reject", "other" for any other type, and "bad" for      *)
(* everything that makes both functions return an error: an event of       *)
(* another subscription and a message that does not parse or has the wrong *)
(* length.                                                                 *)
(***************************************************************************)
EXTENDS Integers, Sequences

CONSTANTS
    Feeds,   \* the sequences of messages a relay may send to a query
    Answers  \* and to an event

ASSUME QueryAssumption ==
    Feeds \cup Answers \subseteq
        Seq({"event", "notice", "eose", "accept", "reject", "other", "bad"})

VARIABLES
    op,        \* "query" or "send"; never changes
    feed,      \* what the relay sends; never changes
    arrived,   \* units that have reached this end
    ended,     \* the relay closed the stream, or it was reset
    consumed,  \* units the decoders have taken
    pc,        \* "idle", "select", "decoding", "ok" or "failed"
    expired,   \* the timer of the call in progress fired
    events,    \* events, as positions in feed
    dropped,   \* history: a decoder was dropped with units in its buffer
    refused    \* history: why the operation failed

streamVars == <<op, feed, arrived, ended>>
readVars == <<consumed, dropped>>
resultVars == <<events, refused>>
vars == <<streamVars, readVars, resultVars, pc, expired>>

Init ==
    /\ \/ op = "query" /\ feed \in Feeds
       \/ op = "send" /\ feed \in Answers
    /\ arrived = 0 /\ ended = FALSE
    /\ consumed = 0 /\ dropped = FALSE
    /\ pc = "idle" /\ expired = FALSE
    /\ events = <<>> /\ refused = "no"

Fail(why) ==
    /\ pc' = "failed"
    /\ refused' = why
    /\ UNCHANGED <<expired, events>>

\* The next call of ReadJsonMessageFromStream has a timer of its own.
NextMessage ==
    /\ pc' = "select"
    /\ expired' = FALSE
    /\ UNCHANGED refused

Succeed ==
    /\ pc' = "ok"
    /\ UNCHANGED <<expired, resultVars>>
-----------------------------------------------------------------------------
(* The request.                                                            *)

Request ==
    /\ pc = "idle"
    /\ pc' = "select"
    /\ UNCHANGED <<streamVars, readVars, resultVars, expired>>

RequestFails == pc = "idle" /\ Fail("request") /\ UNCHANGED <<streamVars, readVars>>
-----------------------------------------------------------------------------
(* ReadJsonMessageFromStream.                                              *)

\* The timer is looked at before Decode, which returns only with a value or
\* an error.
StartDecode ==
    /\ pc = "select" /\ ~expired
    /\ pc' = "decoding"
    /\ UNCHANGED <<streamVars, readVars, resultVars, expired>>

TimedOut ==
    /\ pc = "select" /\ expired
    /\ Fail("timeout")
    /\ UNCHANGED <<streamVars, readVars>>

AtBoundary == consumed % 2 = 0
Kind == feed[consumed \div 2 + 1]

\* A read hands over what has arrived, to the decoder's capacity.
Consumes == consumed' \in (consumed + 2)..arrived

\* A decoder made at a message boundary decodes the next message.
Decodes ==
    /\ pc = "decoding" /\ AtBoundary
    /\ consumed + 2 <= arrived
    /\ Consumes
    /\ dropped' = (dropped \/ consumed' # consumed + 2)
    /\ UNCHANGED streamVars

\* The stream ended before the message did.
EndsInMessage ==
    /\ pc = "decoding" /\ ended
    /\ arrived < consumed + (IF AtBoundary THEN 2 ELSE 1)
    /\ UNCHANGED <<streamVars, readVars>>

\* Mutant: a stream that ended is read again.
DecodeRetries == EndsInMessage /\ NextMessage /\ UNCHANGED events

DecodeFails == EndsInMessage /\ Fail("ended")

\* A decoder made in the middle of a message fails on the rest of it, which
\* is not the array of a message.
DecodeTorn ==
    /\ pc = "decoding" /\ ~AtBoundary
    /\ consumed < arrived
    /\ Fail("torn")
    /\ UNCHANGED <<streamVars, readVars>>
-----------------------------------------------------------------------------
(* The switch of QueryEvents.                                              *)

QueryDecodes(kinds) == op = "query" /\ Decodes /\ Kind \in kinds

\* Mutant: an event is taken in before the ones read earlier.
EventMisplaced ==
    /\ QueryDecodes({"event"})
    /\ events' = <<consumed \div 2 + 1>> \o events
    /\ NextMessage

ReceiveEvent ==
    /\ QueryDecodes({"event"})
    /\ events' = Append(events, consumed \div 2 + 1)
    /\ NextMessage

\* Mutant: a type the switch has no case for is an error.
RefuseOther == QueryDecodes({"other", "accept", "reject"}) /\ Fail("message")

IgnoreOther ==
    /\ QueryDecodes({"other", "accept", "reject"})
    /\ NextMessage
    /\ UNCHANGED events

ReceiveNotice == QueryDecodes({"notice", "bad"}) /\ Fail("message")

ReceiveEose == QueryDecodes({"eose"}) /\ Succeed
-----------------------------------------------------------------------------
(* The switch of SendUniversalEventSingle, which reads one message. The id *)
(* of the event in an OK is not compared with that of the event sent.      *)

Accepted == op = "send" /\ Decodes /\ Kind = "accept" /\ Succeed

\* A notice, a rejection and every type but OK are errors.
NotAccepted == op = "send" /\ Decodes /\ Kind # "accept" /\ Fail("message")
-----------------------------------------------------------------------------
(* The relay, the stream and the timer.                                    *)

Arrive ==
    /\ ~ended
    /\ arrived < 2 * Len(feed)
    /\ arrived' = arrived + 1
    /\ UNCHANGED <<op, feed, ended, readVars, resultVars, pc, expired>>

StreamEnds ==
    /\ ~ended
    /\ ended' = TRUE
    /\ UNCHANGED <<op, feed, arrived, readVars, resultVars, pc, expired>>

TimerFires ==
    /\ pc \in {"select", "decoding"}
    /\ ~expired
    /\ expired' = TRUE
    /\ UNCHANGED <<streamVars, readVars, resultVars, pc>>
-----------------------------------------------------------------------------
Client ==
    \/ Request \/ RequestFails
    \/ StartDecode \/ TimedOut
    \/ ReceiveEvent \/ IgnoreOther \/ ReceiveNotice \/ ReceiveEose
    \/ Accepted \/ NotAccepted
    \/ DecodeFails \/ DecodeTorn

Next == Client \/ Arrive \/ StreamEnds \/ TimerFires

\* The client runs when it can; a relay owes nothing.
Spec == Init /\ [][Next]_vars /\ WF_vars(Client)
-----------------------------------------------------------------------------
Returned == pc \in {"ok", "failed"}

\* The messages before the first EOSE.
BeforeEose == {i \in 1..Len(feed) : \A j \in 1..i : feed[j] # "eose"}
EventsSent == {i \in BeforeEose : feed[i] = "event"}
EventsReturned == {events[k] : k \in DOMAIN events}

\* A query returns no event twice and none before one the relay sent earlier,
\* and one whose decoders read nothing ahead returns every event the relay
\* sent before EOSE and no other.
CompleteUnlessDropped ==
    /\ \A k, l \in DOMAIN events : k < l => events[k] < events[l]
    /\ op = "query" /\ pc = "ok" /\ ~dropped => EventsReturned = EventsSent

\* A query that ends with EOSE returns every event the relay sent before it,
\* as it would if "bytes belonging to the next envelope" (stream.go:117) were
\* not discarded between two messages.
EventsComplete == op = "query" /\ pc = "ok" => EventsReturned = EventsSent

\* An operation fails only because of the stream, the request or the timer,
\* or, a query that reads nothing ahead, for a message it has to refuse
\* before EOSE: types it does not know do not end it, and no message is found
\* torn. An event, for which nothing is read ahead that is still wanted,
\* fails otherwise only if the relay's first message does not accept it, and
\* succeeds only if it does.
FailureHasCause ==
    /\ pc = "failed" /\ (op = "send" \/ ~dropped) =>
        \/ refused \in {"request", "timeout"}
        \/ refused = "ended" /\ ended
        \/ op = "query" /\ \E i \in BeforeEose : feed[i] \in {"notice", "bad"}
        \/ op = "send" /\ Head(feed) # "accept"
    /\ op = "send" /\ pc = "ok" => Head(feed) = "accept"

\* Every operation ends once its stream has.
EndsWithStream == ended ~> Returned
-----------------------------------------------------------------------------
(* The inductive invariant behind the safety properties, in named parts.   *)

TypeOK ==
    /\ op \in {"query", "send"}
    /\ feed \in Seq({"event", "notice", "eose", "accept", "reject", "other", "bad"})
    /\ arrived \in 0..(2 * Len(feed)) /\ consumed \in 0..arrived
    /\ ended \in BOOLEAN /\ dropped \in BOOLEAN /\ expired \in BOOLEAN
    /\ pc \in {"idle", "select", "decoding", "ok", "failed"}
    /\ refused \in {"no", "request", "timeout", "ended", "torn", "message"}
    /\ events \in Seq(1..Len(feed))

Messages == consumed \div 2

\* The events are among the messages that were taken, in their order.
InOrder ==
    /\ \A k \in DOMAIN events : events[k] <= Messages /\ feed[events[k]] = "event"
    /\ \A k, l \in DOMAIN events : k < l => events[k] < events[l]

\* An event waits for the first message, and what that is decides.
Answer ==
    op = "send" =>
        /\ ~Returned => consumed = 0 /\ ~dropped
        /\ pc = "ok" => Head(feed) = "accept"
        /\ refused = "message" => Head(feed) # "accept"

\* A query that reads nothing ahead is between two messages, and has passed
\* over all of them but the one that ended it.
Ending == pc = "ok" \/ refused = "message"
Passed == IF Ending THEN 1..(Messages - 1) ELSE 1..Messages
PassedOver ==
    /\ AtBoundary
    /\ \A i \in Passed : feed[i] \in {"event", "other", "accept", "reject"}
    /\ EventsReturned = {i \in Passed : feed[i] = "event"}
    /\ Ending => Messages > 0
    /\ pc = "ok" => feed[Messages] = "eose"
    /\ refused = "message" => feed[Messages] \in {"notice", "bad"}

Query == op = "query" /\ ~dropped => PassedOver

Refusals ==
    /\ pc = "failed" <=> refused # "no"
    /\ refused = "ended" => ended
    /\ refused = "torn" => op = "query" /\ dropped

IInv == TypeOK /\ InOrder /\ Answer /\ Query /\ Refusals
=============================================================================
