-------------------------- MODULE EventQueryProofs --------------------------
(***************************************************************************)
(* Proofs about EventQuery, for every sequence of messages a relay may     *)
(* send and whatever the decoders read ahead.                              *)
(***************************************************************************)
EXTENDS EventQuery, TLAPS, SequenceTheorems

Kinds == {"event", "notice", "eose", "accept", "reject", "other", "bad"}

LEMMA Halves ==
    ASSUME NEW c \in Nat, NEW d \in Nat, c % 2 = 0, d >= c + 2
    PROVE  /\ c \div 2 \in Nat /\ d \div 2 \in Nat /\ c = 2 * (c \div 2)
           /\ d \div 2 >= c \div 2 + 1
           /\ d = c + 2 => d \div 2 = c \div 2 + 1 /\ d % 2 = 0
<1>1. c \div 2 \in Nat /\ d \div 2 \in Nat
  OBVIOUS
<1>2. c = 2 * (c \div 2)
  OBVIOUS
<1>3. d \div 2 >= c \div 2 + 1
  OBVIOUS
<1>4. d = c + 2 => d \div 2 = c \div 2 + 1
  OBVIOUS
<1>5. d = c + 2 => d % 2 = 0
  OBVIOUS
<1> QED
  BY <1>1, <1>2, <1>3, <1>4, <1>5

\* A decoder takes the next message and maybe more; if nothing is dropped, just
\* that message.
LEMMA Decoded ==
    ASSUME TypeOK, Decodes
    PROVE  /\ pc = "decoding" /\ UNCHANGED streamVars
           /\ Messages \in Nat /\ Messages' \in Nat /\ Len(feed) \in Nat
           /\ consumed = 2 * Messages /\ Messages + 1 \in 1..Len(feed)
           /\ Kind = feed[Messages + 1] /\ Messages' >= Messages + 1
           /\ consumed' \in 0..arrived /\ dropped' \in BOOLEAN
           /\ ~dropped' => ~dropped /\ Messages' = Messages + 1 /\ AtBoundary'
<1>1. /\ pc = "decoding" /\ UNCHANGED streamVars /\ consumed % 2 = 0
      /\ consumed' \in (consumed + 2)..arrived /\ consumed + 2 <= arrived
      /\ dropped' = (dropped \/ consumed' # consumed + 2)
  BY DEF Decodes, Consumes, AtBoundary
<1>2. /\ Len(feed) \in Nat /\ arrived \in 0..(2 * Len(feed)) /\ consumed \in 0..arrived
      /\ dropped \in BOOLEAN
  BY LenProperties DEF TypeOK
<1>3. consumed \in Nat /\ consumed' \in Nat /\ arrived \in Nat
  BY <1>1, <1>2
<1>4. /\ consumed \div 2 \in Nat /\ consumed' \div 2 \in Nat /\ consumed = 2 * (consumed \div 2)
      /\ consumed' \div 2 >= consumed \div 2 + 1
      /\ consumed' = consumed + 2 => consumed' \div 2 = consumed \div 2 + 1 /\ consumed' % 2 = 0
  <2>1. consumed' >= consumed + 2
    BY <1>1, <1>3
  <2> QED
    BY <1>1, <1>3, <2>1, Halves
<1>5. consumed \div 2 + 1 \in 1..Len(feed)
  BY <1>1, <1>2, <1>4
<1>6. dropped' \in BOOLEAN /\ (~dropped' => ~dropped /\ consumed' = consumed + 2)
  BY <1>1, <1>2
<1>7. Messages = consumed \div 2 /\ Messages' = consumed' \div 2
  BY DEF Messages
<1>8. Kind = feed[Messages + 1] /\ (AtBoundary' <=> consumed' % 2 = 0)
  BY <1>7 DEF Kind, AtBoundary
<1>9. consumed' \in 0..arrived
  BY <1>1, <1>3
<1> QED
  BY <1>1, <1>2, <1>4, <1>5, <1>6, <1>7, <1>8, <1>9

LEMMA MessagesInFeed ==
    ASSUME TypeOK
    PROVE  /\ Len(feed) \in Nat /\ Messages \in 0..Len(feed)
           /\ \A i \in 1..Len(feed) : feed[i] \in Kinds
<1>1. /\ Len(feed) \in Nat /\ consumed \in Nat /\ consumed <= 2 * Len(feed)
  BY LenProperties DEF TypeOK
<1>2. \A i \in 1..Len(feed) : feed[i] \in Kinds
  BY ElementOfSeq DEF TypeOK, Kinds
<1> QED
  BY <1>1, <1>2 DEF Messages

\* What changes neither what was read nor how it ended keeps what was read.
LEMMA Quiet ==
    ASSUME InOrder, Query, UNCHANGED <<op, feed, readVars, events>>,
           (pc' = "ok") <=> (pc = "ok"), (refused' = "message") <=> (refused = "message")
    PROVE  InOrder' /\ Query'
<1>1. UNCHANGED <<Messages, AtBoundary, Ending, EventsReturned>>
  BY DEF readVars, Messages, AtBoundary, Ending, EventsReturned
<1>2. UNCHANGED Passed
  BY <1>1 DEF Passed
<1>3. InOrder'
  BY <1>1 DEF InOrder
<1>4. Query'
  BY <1>1, <1>2 DEF Query, PassedOver, readVars
<1> QED
  BY <1>3, <1>4
-----------------------------------------------------------------------------
(* The switch of QueryEvents, after a message was decoded.                 *)

\* One position more, beyond those a sequence of positions has in order.
LEMMA Extended ==
    ASSUME NEW L \in Nat, NEW s \in Seq(1..L), NEW n \in Nat, n + 1 \in 1..L, NEW t,
           t = Append(s, n + 1),
           \A k \in DOMAIN s : s[k] <= n,
           \A k, l \in DOMAIN s : k < l => s[k] < s[l]
    PROVE  /\ t \in Seq(1..L)
           /\ {t[k] : k \in DOMAIN t} = {s[k] : k \in DOMAIN s} \cup {n + 1}
           /\ \A k \in DOMAIN t : t[k] <= n + 1
           /\ \A k, l \in DOMAIN t : k < l => t[k] < t[l]
<1> DEFINE m == Len(s)
<1>1. /\ t \in Seq(1..L) /\ Len(t) = m + 1 /\ t[m + 1] = n + 1
      /\ \A k \in 1..m : t[k] = s[k]
  BY AppendProperties
<1>2. m \in Nat /\ DOMAIN s = 1..m /\ DOMAIN t = 1..(m + 1)
  BY <1>1, LenProperties
<1>3. \A k \in 1..m : s[k] \in 1..L
  BY <1>2, ElementOfSeq
<1> HIDE DEF m
<1>4. \A k \in 1..(m + 1) : k \in 1..m \/ k = m + 1
  BY <1>2
<1>5. {t[k] : k \in DOMAIN t} = {s[k] : k \in DOMAIN s} \cup {n + 1}
  BY <1>1, <1>2, <1>4
<1>6. \A k \in DOMAIN t : t[k] <= n + 1
  BY <1>1, <1>2, <1>3, <1>4
<1>7. \A k, l \in DOMAIN t : k < l => t[k] < t[l]
  <2> TAKE k, l \in DOMAIN t
  <2> HAVE k < l
  <2>1. k \in 1..m
    BY <1>2
  <2>2. t[k] = s[k] /\ s[k] <= n /\ s[k] \in Nat
    BY <1>1, <1>2, <1>3, <2>1
  <2>3. CASE l = m + 1
    BY <1>1, <2>2, <2>3
  <2>4. CASE l \in 1..m
    BY <1>1, <1>2, <2>1, <2>4
  <2> QED
    BY <1>2, <1>4, <2>3, <2>4
<1> QED
  BY <1>1, <1>5, <1>6, <1>7

\* A message that does not end the query.
LEMMA PassesOver ==
    ASSUME IInv, op = "query", Decodes, Kind \in {"event", "other", "accept", "reject"},
           pc' = "select", UNCHANGED refused,
           events' = IF Kind = "event" THEN Append(events, Messages + 1) ELSE events
    PROVE  events' \in Seq(1..Len(feed)) /\ InOrder' /\ Query'
<1> DEFINE n == Messages
<1>1. TypeOK /\ InOrder /\ Query /\ Refusals
  BY DEF IInv
<1>2. /\ pc = "decoding" /\ UNCHANGED <<op, feed>>
      /\ n \in Nat /\ Messages' \in Nat /\ Len(feed) \in Nat
      /\ n + 1 \in 1..Len(feed) /\ Kind = feed[n + 1] /\ Messages' >= n + 1
      /\ ~dropped' => ~dropped /\ Messages' = n + 1 /\ AtBoundary'
  BY <1>1, Decoded DEF streamVars
<1>3. ~Ending /\ ~Ending'
  BY <1>1, <1>2 DEF Ending, Refusals
<1>4. events \in Seq(1..Len(feed))
  BY <1>1 DEF TypeOK
<1>5. /\ \A k \in DOMAIN events : events[k] <= n /\ feed[events[k]] = "event"
      /\ \A k, l \in DOMAIN events : k < l => events[k] < events[l]
  BY <1>1 DEF InOrder
<1>6. /\ events' \in Seq(1..Len(feed))
      /\ EventsReturned' = IF Kind = "event" THEN EventsReturned \cup {n + 1} ELSE EventsReturned
      /\ \A k \in DOMAIN events' : events'[k] <= n + 1
      /\ \A k, l \in DOMAIN events' : k < l => events'[k] < events'[l]
  <2>1. CASE Kind = "event"
    <3>1. events' = Append(events, n + 1)
      BY <2>1
    <3>2. /\ events' \in Seq(1..Len(feed))
          /\ {events'[k] : k \in DOMAIN events'} = {events[k] : k \in DOMAIN events} \cup {n + 1}
          /\ \A k \in DOMAIN events' : events'[k] <= n + 1
          /\ \A k, l \in DOMAIN events' : k < l => events'[k] < events'[l]
      <4> HIDE DEF n
      <4> QED
        BY <1>2, <1>4, <1>5, <3>1, Extended
    <3> QED
      BY <2>1, <3>2 DEF EventsReturned
  <2>2. CASE Kind # "event"
    <3>1. \A k \in DOMAIN events : events[k] \in 1..Len(feed)
      BY <1>4, ElementOfSeq
    <3>2. \A k \in DOMAIN events : events[k] <= n + 1
      BY <1>2, <1>5, <3>1
    <3> QED
      BY <1>4, <1>5, <2>2, <3>2 DEF EventsReturned
  <2> QED
    BY <2>1, <2>2
<1>7. InOrder'
  <2>1. \A i \in EventsReturned' : feed[i] = "event"
    BY <1>2, <1>5, <1>6 DEF EventsReturned
  <2>2. \A k \in DOMAIN events' : events'[k] \in 1..Len(feed)
    BY <1>6, ElementOfSeq, LenProperties
  <2>3. \A k \in DOMAIN events' : events'[k] <= Messages' /\ feed'[events'[k]] = "event"
    BY <1>2, <1>6, <2>1, <2>2 DEF EventsReturned
  <2> QED
    BY <1>6, <2>3 DEF InOrder
<1> HIDE DEF n
<1>8. ASSUME ~dropped'
      PROVE  PassedOver'
  <2>1. ~dropped /\ Messages' = n + 1 /\ AtBoundary'
    BY <1>2, <1>8
  <2>2. Passed = 1..n /\ Passed' = 1..(n + 1)
    BY <1>3, <2>1 DEF Passed, n
  <2>3. /\ \A i \in 1..n : feed[i] \in {"event", "other", "accept", "reject"}
        /\ EventsReturned = {i \in 1..n : feed[i] = "event"}
    BY <1>1, <2>1, <2>2 DEF Query, PassedOver
  <2>4. \A i \in 1..(n + 1) : i \in 1..n \/ i = n + 1
    BY <1>2
  <2>5. EventsReturned' = {i \in 1..(n + 1) : feed[i] = "event"}
    BY <1>2, <1>6, <2>3, <2>4
  <2> QED
    BY <1>2, <1>3, <2>1, <2>2, <2>3, <2>4, <2>5 DEF Ending, PassedOver
<1> QED
  BY <1>6, <1>7, <1>8 DEF Query

\* The message that ends the query, well or not.
LEMMA EndsQuery ==
    ASSUME IInv, op = "query", Decodes, UNCHANGED events,
           \/ pc' = "ok" /\ UNCHANGED refused /\ Kind = "eose"
           \/ pc' = "failed" /\ refused' = "message" /\ Kind \in {"notice", "bad"}
    PROVE  InOrder' /\ Query'
<1> DEFINE n == Messages
<1>1. TypeOK /\ InOrder /\ Query /\ Refusals
  BY DEF IInv
<1>2. /\ pc = "decoding" /\ UNCHANGED <<op, feed>>
      /\ n \in Nat /\ Messages' \in Nat /\ Len(feed) \in Nat
      /\ n + 1 \in 1..Len(feed) /\ Kind = feed[n + 1] /\ Messages' >= n + 1
      /\ ~dropped' => ~dropped /\ Messages' = n + 1 /\ AtBoundary'
  BY <1>1, Decoded DEF streamVars
<1>3. ~Ending /\ Ending' /\ refused # "message"
  BY <1>1, <1>2 DEF Ending, Refusals
<1>4. InOrder'
  <2>1. \A k \in DOMAIN events : events[k] \in 1..Len(feed)
    BY <1>1, ElementOfSeq, LenProperties DEF TypeOK
  <2> QED
    BY <1>1, <1>2, <2>1 DEF InOrder
<1>5. ASSUME ~dropped'
      PROVE  PassedOver'
  <2>1. ~dropped /\ Messages' = n + 1 /\ AtBoundary'
    BY <1>2, <1>5
  <2>2. Passed = 1..n /\ Passed' = 1..n
    BY <1>2, <1>3, <2>1 DEF Passed
  <2>3. /\ \A i \in 1..n : feed[i] \in {"event", "other", "accept", "reject"}
        /\ EventsReturned = {i \in 1..n : feed[i] = "event"}
    BY <1>1, <2>1, <2>2 DEF Query, PassedOver
  <2>4. EventsReturned' = EventsReturned
    BY DEF EventsReturned
  <2>5. /\ Messages' > 0
        /\ pc' = "ok" => feed'[Messages'] = "eose"
        /\ refused' = "message" => feed'[Messages'] \in {"notice", "bad"}
    BY <1>2, <1>3, <2>1
  <2> HIDE DEF n
  <2> QED
    BY <1>2, <2>1, <2>2, <2>3, <2>4, <2>5 DEF PassedOver
<1> QED
  BY <1>4, <1>5 DEF Query
-----------------------------------------------------------------------------
LEMMA EventInit ==
    ASSUME Init
    PROVE  IInv
<1>1. /\ op \in {"query", "send"} /\ feed \in Seq(Kinds) /\ arrived = 0 /\ consumed = 0
      /\ ended = FALSE /\ dropped = FALSE /\ expired = FALSE /\ pc = "idle"
      /\ events = <<>> /\ refused = "no"
  BY QueryAssumption DEF Init, Kinds
<1>2. Len(feed) \in Nat /\ events \in Seq(1..Len(feed)) /\ DOMAIN events = {}
  BY <1>1, LenProperties, EmptySeq
<1>3. TypeOK
  <2>1. arrived \in 0..(2 * Len(feed)) /\ consumed \in 0..arrived
    BY <1>1, <1>2
  <2> QED
    BY <1>1, <1>2, <2>1 DEF TypeOK, Kinds
<1>4. InOrder
  BY <1>2 DEF InOrder
<1>5. Answer /\ Refusals
  BY <1>1 DEF Answer, Refusals
<1>6. Query
  <2>1. ~Ending /\ Messages = 0 /\ AtBoundary
    BY <1>1 DEF Ending, Messages, AtBoundary
  <2>2. Passed = {} /\ EventsReturned = {}
    BY <1>2, <2>1 DEF Passed, EventsReturned
  <2> QED
    BY <1>1, <2>1, <2>2 DEF Query, PassedOver
<1> QED
  BY <1>3, <1>4, <1>5, <1>6 DEF IInv

LEMMA EventStep ==
    ASSUME IInv, [Next]_vars
    PROVE  IInv'
<1>1. TypeOK /\ InOrder /\ Answer /\ Query /\ Refusals
  BY DEF IInv
<1>2. Len(feed) \in Nat /\ arrived \in Nat
  BY <1>1, LenProperties DEF TypeOK
<1>3. CASE Request \/ StartDecode \/ TimerFires \/ Arrive \/ StreamEnds \/ UNCHANGED vars
  <2>1. /\ UNCHANGED <<op, feed, readVars, events, refused>>
        /\ (pc' = "ok") <=> (pc = "ok")
        /\ (pc' = "failed") <=> (pc = "failed")
        /\ Returned' <=> Returned
        /\ pc' \in {pc, "select", "decoding"} /\ ended' \in {ended, TRUE}
        /\ expired' \in {expired, TRUE}
        /\ arrived' = arrived \/ (arrived < 2 * Len(feed) /\ arrived' = arrived + 1)
    BY <1>3 DEF Request, StartDecode, TimerFires, Arrive, StreamEnds, vars, streamVars,
       resultVars, Returned
  <2>2. InOrder' /\ Query'
    BY <1>1, <2>1, Quiet
  <2>3. arrived' \in 0..(2 * Len(feed)) /\ consumed \in 0..arrived'
    BY <1>1, <1>2, <2>1 DEF TypeOK
  <2>4. TypeOK'
    BY <1>1, <2>1, <2>3 DEF TypeOK, readVars
  <2>5. Answer'
    BY <1>1, <2>1 DEF Answer, readVars
  <2>6. ended => ended'
    BY <1>3 DEF Request, StartDecode, TimerFires, Arrive, StreamEnds, vars, streamVars
  <2>7. Refusals'
    BY <1>1, <2>1, <2>6 DEF Refusals, readVars
  <2> QED
    BY <2>2, <2>4, <2>5, <2>7 DEF IInv
<1>4. CASE RequestFails \/ TimedOut \/ DecodeFails \/ DecodeTorn
  <2>1. /\ UNCHANGED <<streamVars, readVars, events, expired>> /\ pc' = "failed"
        /\ refused' \in {"request", "timeout", "ended", "torn"}
        /\ pc \in {"idle", "select", "decoding"}
        /\ refused' = "ended" => ended
        /\ refused' = "torn" => ~AtBoundary
    BY <1>4 DEF RequestFails, TimedOut, DecodeFails, DecodeTorn, EndsInMessage, Fail
  <2>2. refused = "no"
    BY <1>1, <2>1 DEF Refusals
  <2>3. InOrder' /\ Query'
    BY <1>1, <2>1, <2>2, Quiet DEF streamVars
  <2>4. refused' = "torn" => op = "query" /\ dropped
    BY <1>1, <2>1 DEF Answer, Query, PassedOver, Returned, AtBoundary, TypeOK
  <2> QED
    BY <1>1, <2>1, <2>2, <2>3, <2>4
       DEF IInv, TypeOK, Answer, Refusals, Returned, streamVars, readVars
<1>5. CASE ReceiveEvent \/ IgnoreOther
  <2>1. /\ op = "query" /\ Decodes /\ Kind \in {"event", "other", "accept", "reject"}
        /\ pc' = "select" /\ expired' = FALSE /\ UNCHANGED refused
        /\ events' = IF Kind = "event" THEN Append(events, Messages + 1) ELSE events
    BY <1>5 DEF ReceiveEvent, IgnoreOther, QueryDecodes, NextMessage, Messages
  <2>2. events' \in Seq(1..Len(feed)) /\ InOrder' /\ Query'
    BY <2>1, PassesOver
  <2>3. /\ UNCHANGED streamVars /\ consumed' \in 0..arrived /\ dropped' \in BOOLEAN
        /\ pc = "decoding"
    BY <1>1, <2>1, Decoded
  <2>4. TypeOK'
    BY <1>1, <2>1, <2>2, <2>3 DEF TypeOK, streamVars
  <2>5. Answer' /\ Refusals'
    BY <1>1, <2>1, <2>3 DEF Answer, Refusals, streamVars
  <2> QED
    BY <2>2, <2>4, <2>5 DEF IInv
<1>6. CASE ReceiveNotice \/ ReceiveEose
  <2>1. /\ op = "query" /\ Decodes /\ UNCHANGED <<events, expired>>
        /\ \/ pc' = "ok" /\ UNCHANGED refused /\ Kind = "eose"
           \/ pc' = "failed" /\ refused' = "message" /\ Kind \in {"notice", "bad"}
    BY <1>6 DEF ReceiveNotice, ReceiveEose, QueryDecodes, Fail, Succeed, resultVars
  <2>2. InOrder' /\ Query'
    BY <2>1, EndsQuery
  <2>3. /\ UNCHANGED streamVars /\ consumed' \in 0..arrived /\ dropped' \in BOOLEAN
        /\ pc = "decoding"
    BY <1>1, <2>1, Decoded
  <2>4. TypeOK'
    BY <1>1, <2>1, <2>3 DEF TypeOK, streamVars
  <2>5. Answer' /\ Refusals'
    BY <1>1, <2>1, <2>3 DEF Answer, Refusals, streamVars
  <2> QED
    BY <2>2, <2>4, <2>5 DEF IInv
<1>7. CASE Accepted \/ NotAccepted
  <2>1. /\ op = "send" /\ Decodes /\ UNCHANGED <<events, expired>>
        /\ \/ pc' = "ok" /\ UNCHANGED refused /\ Kind = "accept"
           \/ pc' = "failed" /\ refused' = "message" /\ Kind # "accept"
    BY <1>7 DEF Accepted, NotAccepted, Fail, Succeed, resultVars
  <2>2. /\ UNCHANGED streamVars /\ consumed' \in 0..arrived /\ dropped' \in BOOLEAN
        /\ pc = "decoding" /\ Messages' \in Nat /\ Messages \in Nat
        /\ Messages' >= Messages + 1 /\ consumed = 2 * Messages /\ Kind = feed[Messages + 1]
    BY <1>1, <2>1, Decoded
  <2>3. consumed = 0 /\ refused = "no"
    BY <1>1, <2>1, <2>2 DEF Answer, Refusals, Returned
  <2>4. Kind = Head(feed)
    BY <1>1, <2>2, <2>3 DEF TypeOK
  <2>5. TypeOK'
    BY <1>1, <2>1, <2>2 DEF TypeOK, streamVars
  <2>6. Answer' /\ Refusals' /\ Query'
    BY <1>1, <2>1, <2>2, <2>3, <2>4 DEF Answer, Refusals, Query, Returned, streamVars
  <2>7. InOrder'
    <3>1. \A k \in DOMAIN events : events[k] \in 1..Len(feed)
      BY <1>1, ElementOfSeq, LenProperties DEF TypeOK
    <3> QED
      BY <1>1, <1>2, <2>1, <2>2, <3>1 DEF InOrder, streamVars
  <2> QED
    BY <2>5, <2>6, <2>7 DEF IInv
<1> QED
  BY <1>3, <1>4, <1>5, <1>6, <1>7 DEF Next, Client
-----------------------------------------------------------------------------
\* The inductive invariant holds in every reachable state of a query or of the
\* sending of an event (universal.go:30-202, stream.go:408-435).
THEOREM EventInvariant == Spec => []IInv
  BY EventInit, EventStep, PTL DEF Spec

\* A query returns no event twice and keeps the order of the relay; one whose
\* decoders read nothing ahead returns every event the relay sent before EOSE
\* and no other, however the stream was cut into reads (universal.go:136-202,
\* stream.go:408-435).
THEOREM EventCompleteUnlessDropped == Spec => []CompleteUnlessDropped
<1>1. ASSUME IInv, op = "query", pc = "ok", ~dropped
      PROVE  EventsReturned = EventsSent
  <2>1. /\ \A i \in Passed : feed[i] \in {"event", "other", "accept", "reject"}
        /\ EventsReturned = {i \in Passed : feed[i] = "event"}
        /\ Messages > 0 /\ feed[Messages] = "eose" /\ Passed = 1..(Messages - 1)
    BY <1>1 DEF IInv, Query, PassedOver, Passed, Ending
  <2>2. Len(feed) \in Nat /\ Messages \in 0..Len(feed)
    BY <1>1, MessagesInFeed DEF IInv
  <2>3. BeforeEose = 1..(Messages - 1)
    <3>1. ASSUME NEW i \in 1..(Messages - 1)
          PROVE  i \in BeforeEose
      <4>1. i \in 1..Len(feed) /\ \A j \in 1..i : j \in Passed
        BY <2>1, <2>2
      <4> QED
        BY <2>1, <4>1 DEF BeforeEose
    <3>2. ASSUME NEW i \in BeforeEose
          PROVE  i \in 1..(Messages - 1)
      <4>1. i \in 1..Len(feed) /\ \A j \in 1..i : feed[j] # "eose"
        BY DEF BeforeEose
      <4>2. Messages \notin 1..i
        BY <2>1, <4>1
      <4> QED
        BY <2>1, <2>2, <4>1, <4>2
    <3> QED
      BY <3>1, <3>2
  <2> QED
    BY <2>1, <2>3 DEF EventsSent
<1>2. IInv => CompleteUnlessDropped
  BY <1>1 DEF IInv, InOrder, CompleteUnlessDropped
<1> QED
  BY <1>2, EventInvariant, PTL

\* An operation fails only for the stream, the request or the timer, or for a
\* message it has to refuse; an event succeeds only if the relay's first
\* message accepts it (universal.go:56-110 and 136-202, stream.go:408-435).
THEOREM EventFailureHasCause == Spec => []FailureHasCause
<1>1. ASSUME IInv, op = "query", ~dropped, refused = "message"
      PROVE  \E i \in BeforeEose : feed[i] \in {"notice", "bad"}
  <2>1. /\ \A i \in 1..(Messages - 1) : feed[i] \in {"event", "other", "accept", "reject"}
        /\ Messages > 0 /\ feed[Messages] \in {"notice", "bad"}
    BY <1>1 DEF IInv, Query, PassedOver, Passed, Ending
  <2>2. Messages \in 1..Len(feed) /\ Len(feed) \in Nat
    BY <1>1, <2>1, MessagesInFeed DEF IInv
  <2>3. \A j \in 1..Messages : j \in 1..(Messages - 1) \/ j = Messages
    BY <2>2
  <2>4. Messages \in BeforeEose
    BY <2>1, <2>2, <2>3 DEF BeforeEose
  <2> QED
    BY <2>1, <2>4
<1>2. IInv => FailureHasCause
  BY <1>1 DEF IInv, TypeOK, Answer, Refusals, FailureHasCause
<1> QED
  BY <1>2, EventInvariant, PTL
=============================================================================
