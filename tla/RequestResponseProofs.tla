------------------------ MODULE RequestResponseProofs ------------------------
(***************************************************************************)
(* Proofs about RequestResponse, and so about MessageWriter, MessageReader *)
(* and Keys in it: for every feed, every number of retries and a curve of  *)
(* any odd order.                                                          *)
(***************************************************************************)
EXTENDS RequestResponse, TLAPS, SequenceTheorems, FiniteSetTheorems

-----------------------------------------------------------------------------
(* The writer.                                                             *)

LEMMA WholesRange ==
    ASSUME wire \in Seq({"part", "whole"})
    PROVE  W!Wholes \subseteq 1..Len(wire) /\ Len(wire) \in Nat
  BY LenProperties DEF W!Wholes

LEMMA WholesAppend ==
    ASSUME wire \in Seq({"part", "whole"}), NEW x \in {"part", "whole"},
           wire' = Append(wire, x)
    PROVE  /\ wire' \in Seq({"part", "whole"})
           /\ Len(wire') = Len(wire) + 1 /\ wire' # <<>>
           /\ W!Wholes' = IF x = "whole" THEN W!Wholes \cup {Len(wire) + 1} ELSE W!Wholes
<1>1. /\ wire' \in Seq({"part", "whole"})
      /\ Len(wire') = Len(wire) + 1 /\ wire'[Len(wire) + 1] = x
      /\ \A i \in 1..Len(wire) : wire'[i] = wire[i]
  BY AppendProperties
<1>2. Len(wire) \in Nat /\ DOMAIN wire = 1..Len(wire) /\ DOMAIN wire' = 1..(Len(wire) + 1)
  BY <1>1, LenProperties
<1>3. wire' # <<>>
  BY <1>1, <1>2, EmptySeq
<1>4. W!Wholes' = {i \in 1..(Len(wire) + 1) : wire'[i] = "whole"}
      /\ W!Wholes = {i \in 1..Len(wire) : wire[i] = "whole"}
  BY <1>2 DEF W!Wholes
<1> QED
  BY <1>1, <1>2, <1>3, <1>4

\* Closing the stream changes nothing else.
LEMMA WriterKept ==
    ASSUME W!WriterInv, UNCHANGED writerVars, closed' \in {closed, TRUE}
    PROVE  W!WriterInv'
  BY DEF W!WriterInv, writerVars, W!SuccessWritesLast, W!Wholes

LEMMA WriterSteps ==
    ASSUME W!WriterInv, W!Retry \/ W!Write
    PROVE  W!WriterInv'
<1> USE RequestAssumption
<1>1. CASE W!Retry
  BY <1>1 DEF W!Retry, W!WriterInv, W!orphanVars, W!streamVars, W!SuccessWritesLast, W!Wholes
<1>2. CASE W!WriteSucceeds
  <2>1. W!Wholes' = {Len(wire')} /\ wire' # <<>> /\ wire' \in Seq({"part", "whole"})
    BY <1>2, WholesAppend, WholesRange DEF W!WriteSucceeds, W!WriterInv, W!Open
  <2> QED
    BY <1>2, <2>1
       DEF W!WriteSucceeds, W!WriterInv, W!Open, W!orphanVars, W!streamVars,
           W!SuccessWritesLast
<1>3. CASE W!WriteFails
  <2>1. /\ W!Wholes' = W!Wholes /\ wire' \in Seq({"part", "whole"})
    BY <1>3, WholesAppend DEF W!WriteFails, W!WriterInv, W!Wholes
  <2> QED
    BY <1>3, <2>1
       DEF W!WriteFails, W!WriterInv, W!FailAttempt, W!orphanVars, W!streamVars,
           W!SuccessWritesLast
<1>4. CASE W!Timeout
  <2>1. W!Wholes' = W!Wholes
    BY <1>4 DEF W!Timeout, W!Wholes
  <2>2. late' => W!Wholes' = {}
    BY <1>4, <2>1 DEF W!Timeout, W!WriterInv
  <2> QED
    BY <1>4, <2>1, <2>2 DEF W!Timeout, W!WriterInv, W!FailAttempt, W!SuccessWritesLast
<1> QED
  BY <1>1, <1>2, <1>3, <1>4 DEF W!Write

LEMMA WriterOrphan ==
    ASSUME W!WriterInv, W!OrphanEnds
    PROVE  W!WriterInv'
<1>1. CASE UNCHANGED <<wire, late>>
  BY <1>1 DEF W!OrphanEnds, W!WriterInv, W!streamVars, W!SuccessWritesLast, W!Wholes
<1>2. CASE late /\ late' = FALSE /\ wire' \in {Append(wire, "part"), Append(wire, "whole")}
  <2>1. wire' \in Seq({"part", "whole"}) /\ W!Wholes' \in {{}, {Len(wire) + 1}}
    BY <1>2, WholesAppend DEF W!WriterInv
  <2>2. W!Wholes' # {} => \E w \in W!Wholes' : W!Wholes' = {w}
    BY <2>1
  <2>3. /\ UNCHANGED <<written, writes, closed>> /\ closed /\ written # "ok"
        /\ writers > 0 /\ writers' = writers - 1
    BY <1>2 DEF W!OrphanEnds, W!WriterInv, W!streamVars
  <2>4. /\ written' \in {"writing", "retrying", "ok", "failed"}
        /\ writes' \in 0..MaxRetries /\ (written' = "retrying" => writes' < MaxRetries)
        /\ writers' \in 0..(IF written' = "writing" THEN writes' ELSE writes' + 1)
        /\ closed' \in BOOLEAN
    BY <2>3 DEF W!WriterInv
  <2> QED
    BY <1>2, <2>1, <2>2, <2>3, <2>4 DEF W!WriterInv, W!SuccessWritesLast
<1> QED
  BY <1>1, <1>2 DEF W!OrphanEnds

LEMMA WriterBuffer ==
    ASSUME W!WriterInv, Setting, BufferWrite
    PROVE  W!WriterInv' /\ ~late
<1>1. wire = <<>> /\ ~late
  BY DEF BufferWrite, Setting
<1>2. W!Wholes = {}
  BY <1>1, EmptySeq DEF W!Wholes
<1>3. W!Wholes' = {Len(wire')} /\ wire' # <<>> /\ wire' \in Seq({"part", "whole"})
  BY <1>2, WholesAppend, WholesRange DEF BufferWrite, W!WriterInv
<1> QED
  BY <1>1, <1>3 DEF BufferWrite, W!WriterInv, W!SuccessWritesLast
-----------------------------------------------------------------------------
(* The reader.                                                             *)

\* A sequence and what is in it after Append.
LEMMA Appended ==
    ASSUME NEW S, NEW s \in Seq(S), NEW n \in S
    PROVE  /\ DOMAIN Append(s, n) = DOMAIN s \cup {Len(s) + 1}
           /\ Append(s, n)[Len(s) + 1] = n
           /\ \A i \in DOMAIN s : Append(s, n)[i] = s[i]
           /\ {Append(s, n)[i] : i \in DOMAIN Append(s, n)} = {s[i] : i \in DOMAIN s} \cup {n}
<1> DEFINE t == Append(s, n)
<1>1. Len(s) \in Nat /\ DOMAIN s = 1..Len(s)
  BY LenProperties
<1>2. /\ t \in Seq(S) /\ Len(t) = Len(s) + 1
      /\ \A i \in 1..Len(s) : t[i] = s[i]
      /\ t[Len(s) + 1] = n
  BY AppendProperties
<1>3. DOMAIN t = 1..(Len(s) + 1)
  BY <1>2, LenProperties
<1> HIDE DEF t
<1>4. DOMAIN t = DOMAIN s \cup {Len(s) + 1}
  BY <1>1, <1>3
<1>5. /\ t[Len(s) + 1] = n
      /\ \A i \in DOMAIN s : t[i] = s[i]
  BY <1>1, <1>2
<1>6. {t[i] : i \in DOMAIN t} = {s[i] : i \in DOMAIN s} \cup {n}
  BY <1>4, <1>5, Zenon
<1> QED
  BY <1>4, <1>5, <1>6 DEF t

LEMMA OneMore ==
    ASSUME NEW S, IsFiniteSet(S), NEW n, NEW T, T \subseteq S \cup {n}
    PROVE  /\ Cardinality(S) \in Nat /\ Cardinality(T) \in Nat
           /\ Cardinality(T) <= Cardinality(S) + 1
           /\ T \subseteq S => Cardinality(T) <= Cardinality(S)
<1>1. /\ IsFiniteSet(S \cup {n}) /\ Cardinality(S) \in Nat
      /\ Cardinality(S \cup {n}) <= Cardinality(S) + 1
  <2>1. Cardinality(S) \in Nat
    BY FS_CardinalityType
  <2>2. /\ IsFiniteSet(S \cup {n})
        /\ Cardinality(S \cup {n}) =
               IF n \in S THEN Cardinality(S) ELSE Cardinality(S) + 1
    BY FS_AddElement
  <2> QED
    BY <2>1, <2>2
<1>2. /\ IsFiniteSet(T) /\ Cardinality(T) <= Cardinality(S \cup {n})
      /\ T \subseteq S => Cardinality(T) <= Cardinality(S)
  BY <1>1, FS_Subset
<1>3. Cardinality(T) \in Nat /\ Cardinality(S \cup {n}) \in Nat
  BY <1>1, <1>2, FS_CardinalityType
<1> QED
  BY <1>1, <1>2, <1>3

\* The arithmetic of the next lemma: s messages lost and o goroutines left before
\* a step, t and p after it, with u and v timeouts.
LEMMA LosesBounded ==
    ASSUME NEW s \in Nat, NEW t \in Nat, NEW o \in Nat, NEW p \in Nat, NEW u \in Nat,
           NEW v \in Nat, s + o <= u,
           \/ t <= s /\ p + u <= o + v
           \/ t <= s + 1 /\ p + u + 1 <= o + v
    PROVE  t + p <= v
OBVIOUS

\* A step that loses one more message at the most, and none unless a goroutine
\* ends.
LEMMA LosesOneKept ==
    ASSUME R!ReaderInv, NEW n, orphans' \in Nat, timeouts' \in Nat, raced => raced',
           \/ /\ R!LostMessages' \subseteq R!LostMessages
              /\ orphans' + timeouts <= orphans + timeouts'
           \/ /\ R!LostMessages' \subseteq R!LostMessages \cup {n}
              /\ orphans' + timeouts + 1 <= orphans + timeouts'
    PROVE  R!TimeoutLosesOne'
<1>1. orphans \in Nat /\ timeouts \in Nat /\ decoded \in Nat
  BY DEF R!ReaderInv, R!ReaderTypeOK
<1>2. IsFiniteSet(R!LostMessages)
  <2>1. IsFiniteSet(1..decoded)
    BY <1>1, FS_Interval
  <2>2. R!LostMessages \subseteq 1..decoded
    BY DEF R!LostMessages
  <2> QED
    BY <2>1, <2>2, FS_Subset
<1>3. \A S : R!Cardinality(S) = Cardinality(S)
  BY DEF R!Cardinality, Cardinality
<1>4. PICK S, T : S = R!LostMessages /\ T = R!LostMessages'
  OBVIOUS
<1>5. /\ Cardinality(S) \in Nat /\ Cardinality(T) \in Nat
      /\ T \subseteq S \cup {n} => Cardinality(T) <= Cardinality(S) + 1
      /\ T \subseteq S => Cardinality(T) <= Cardinality(S)
  BY <1>2, <1>4, OneMore
<1>6. ~raced => Cardinality(S) + orphans <= timeouts
  BY <1>3, <1>4 DEF R!ReaderInv, R!TimeoutLosesOne
<1>7. \/ T \subseteq S /\ orphans' + timeouts <= orphans + timeouts'
      \/ T \subseteq S \cup {n} /\ orphans' + timeouts + 1 <= orphans + timeouts'
  BY <1>4
<1>8. ~raced' => Cardinality(T) + orphans' <= timeouts'
  <2> SUFFICES ASSUME ~raced'
               PROVE  Cardinality(T) + orphans' <= timeouts'
    OBVIOUS
  <2>1. Cardinality(S) + orphans <= timeouts
    BY <1>6
  <2>2. /\ Cardinality(S) \in Nat /\ Cardinality(T) \in Nat
        /\ orphans \in Nat /\ orphans' \in Nat /\ timeouts \in Nat /\ timeouts' \in Nat
    BY <1>1, <1>5
  <2>3. CASE T \subseteq S /\ orphans' + timeouts <= orphans + timeouts'
    <3>1. Cardinality(T) <= Cardinality(S)
      BY <1>5, <2>3
    <3> QED
      BY <2>1, <2>2, <2>3, <3>1, LosesBounded
  <2>4. CASE /\ T \subseteq S \cup {n}
             /\ orphans' + timeouts + 1 <= orphans + timeouts'
    <3>1. Cardinality(T) <= Cardinality(S) + 1
      BY <1>5, <2>4
    <3> QED
      BY <2>1, <2>2, <2>4, <3>1, LosesBounded
  <2> QED
    BY <1>7, <2>3, <2>4
<1> QED
  BY <1>3, <1>4, <1>8 DEF R!TimeoutLosesOne

\* All of ReaderInv but TimeoutLosesOne.
Reading == R!ReaderTypeOK /\ R!Accounted /\ R!NothingLostWithoutTimeout

\* Closing the stream only takes the promise of NothingLostWithoutTimeout away.
LEMMA ReaderKept ==
    ASSUME R!ReaderInv, UNCHANGED readerVars, closed' \in {closed, TRUE}
    PROVE  R!ReaderInv'
<1> USE DEF R!ReaderInv, readerVars
<1>1. R!ReaderTypeOK'
  BY DEF R!ReaderTypeOK
<1>2. R!Accounted'
  BY DEF R!Accounted
<1>3. R!NothingLostWithoutTimeout'
  BY DEF R!NothingLostWithoutTimeout
<1>4. R!TimeoutLosesOne'
  <2>1. R!LostMessages' = R!LostMessages
    BY DEF R!LostMessages
  <2> QED
    BY <2>1 DEF R!TimeoutLosesOne
<1> QED
  BY <1>1, <1>2, <1>3, <1>4

\* What has been accounted for so far, apart from the error of the last call.
Consumed == {returned[i] : i \in DOMAIN returned} \cup skipped

\* Until a timeout, and unless the call has failed, what the decoder consumed
\* was returned or skipped.
LEMMA ConsumedSoFar ==
    ASSUME R!ReaderInv, ~closed, call # "failed"
    PROVE  1..decoded = Consumed
  BY DEF R!ReaderInv, R!NothingLostWithoutTimeout, Consumed

LEMMA NoErrorConsumed ==
    ASSUME R!ReaderInv
    PROVE  \A i \in Consumed : feed[i] # "error"
  BY DEF R!ReaderInv, R!Accounted, Consumed

\* A step that returns nothing and stays within what arrived.
LEMMA ReaderMoves ==
    ASSUME R!ReaderInv,
           UNCHANGED <<feed, arrived, returned>>, decoded' \in 0..arrived, timeouts' \in Nat,
           closed' \in {closed, TRUE}, raced' \in BOOLEAN, orphans' \in Nat,
           call' \in {"idle", "decoding", "retrying", "failed"},
           attempt' \in 0..MaxRetries, call' = "retrying" => attempt' < MaxRetries,
           skipped' \subseteq 1..Len(feed), \A i \in skipped' : feed[i] = "foreign",
           orphans' > 0 \/ raced' => closed',
           raced => raced', raced' \/ decoded' >= decoded,
           R!NothingLostWithoutTimeout'
    PROVE  Reading'
<1>1. R!ReaderTypeOK'
  BY DEF R!ReaderInv, R!ReaderTypeOK
<1>2. R!Accounted'
  <2>1. ~raced' => \A i \in DOMAIN returned : returned[i] <= decoded'
    <3> SUFFICES ASSUME ~raced', NEW i \in DOMAIN returned
                 PROVE  returned[i] <= decoded'
      OBVIOUS
    <3>1. returned[i] <= decoded /\ decoded' >= decoded
      BY DEF R!ReaderInv, R!Accounted
    <3>2. returned[i] \in 1..Len(feed) /\ decoded \in Nat /\ decoded' \in Nat
      BY DEF R!ReaderInv, R!ReaderTypeOK
    <3> QED
      BY <3>1, <3>2
  <2> QED
    BY <2>1 DEF R!ReaderInv, R!Accounted
<1> QED
  BY <1>1, <1>2 DEF Reading

\* As long as nothing is consumed and no call fails for it, nothing is lost.
LEMMA NothingConsumed ==
    ASSUME R!ReaderInv, call # "failed", UNCHANGED <<feed, decoded, returned, skipped>>,
           closed' \in {closed, TRUE}
    PROVE  R!NothingLostWithoutTimeout'
<1> SUFFICES ASSUME ~closed'
             PROVE  /\ \A i, j \in DOMAIN returned : i < j => returned[i] < returned[j]
                    /\ 1..decoded = Consumed
                           \cup {i \in {decoded} \ {0} : feed[i] = "error" /\ call' = "failed"}
  BY DEF R!NothingLostWithoutTimeout, Consumed
<1>1. ~closed
  OBVIOUS
<1>2. 1..decoded = Consumed
  BY <1>1, ConsumedSoFar
<1>3. {i \in {decoded} \ {0} : feed[i] = "error" /\ call' = "failed"} = {}
  <2>1. decoded \in Nat
    BY DEF R!ReaderInv, R!ReaderTypeOK
  <2> QED
    BY <1>2, <2>1, NoErrorConsumed
<1>4. \A i, j \in DOMAIN returned : i < j => returned[i] < returned[j]
  BY <1>1 DEF R!ReaderInv, R!NothingLostWithoutTimeout
<1> QED
  BY <1>2, <1>3, <1>4

LEMMA ClosedLosesNothing ==
    ASSUME R!ReaderInv, closed'
    PROVE  R!NothingLostWithoutTimeout'
  BY DEF R!NothingLostWithoutTimeout

LEMMA ReaderQuiet ==
    ASSUME R!ReaderInv, call # "failed",
           UNCHANGED <<feed, arrived, decoded, raced, returned, skipped>>,
           closed' \in {closed, TRUE}, orphans' \in Nat, orphans' > orphans => closed',
           timeouts' \in Nat, call' \in {"idle", "decoding", "retrying", "failed"},
           attempt' \in 0..MaxRetries, call' = "retrying" => attempt' < MaxRetries
    PROVE  Reading'
<1>1. R!NothingLostWithoutTimeout'
  BY NothingConsumed
<1>2. /\ decoded' \in 0..arrived /\ raced' \in BOOLEAN /\ decoded' >= decoded
      /\ skipped' \subseteq 1..Len(feed)
  BY DEF R!ReaderInv, R!ReaderTypeOK
<1>3. \A i \in skipped' : feed[i] = "foreign"
  BY DEF R!ReaderInv, R!Accounted
<1>4. orphans' > 0 \/ raced' => closed'
  <2>1. orphans > 0 \/ raced => closed
    BY DEF R!ReaderInv, R!Accounted
  <2>2. closed => closed'
    OBVIOUS
  <2>3. orphans' > orphans \/ orphans > 0 \/ ~(orphans' > 0)
    BY DEF R!ReaderInv, R!ReaderTypeOK
  <2> QED
    BY <2>1, <2>2, <2>3
<1> QED
  BY <1>1, <1>2, <1>3, <1>4, ReaderMoves

LEMMA ReaderDecodeMessage ==
    ASSUME R!ReaderInv, R!DecodeMessage
    PROVE  Reading'
<1> DEFINE n == decoded + 1
<1>1. /\ call = "decoding" /\ decoded < arrived /\ feed[n] = "message" /\ decoded' = n
      /\ call' = "idle"
      /\ UNCHANGED <<feed, arrived, closed, attempt, orphans, timeouts, raced, skipped>>
      /\ returned' = IF raced THEN returned ELSE Append(returned, n)
  BY DEF R!DecodeMessage, R!Finds, R!HasNext, R!Kind, R!Return, R!streamVars
<1>2. /\ decoded \in Nat /\ n \in 1..arrived /\ n \in 1..Len(feed) /\ n \in Nat
      /\ returned \in Seq(1..Len(feed))
      /\ DOMAIN returned = 1..Len(returned) /\ Len(returned) \in Nat
      /\ \A i \in DOMAIN returned : returned[i] \in 1..Len(feed)
  BY <1>1, LenProperties, ElementOfSeq DEF R!ReaderInv, R!ReaderTypeOK
<1>3. CASE raced
  <2>1. closed
    BY <1>3 DEF R!ReaderInv, R!Accounted
  <2>2. R!ReaderTypeOK' /\ R!Accounted'
    BY <1>1, <1>2, <1>3 DEF R!ReaderInv, R!ReaderTypeOK, R!Accounted
  <2> QED
    BY <1>1, <2>1, <2>2 DEF Reading, R!NothingLostWithoutTimeout
<1>4. CASE ~raced
  <2>1. /\ returned' \in Seq(1..Len(feed)) /\ DOMAIN returned' = 1..(Len(returned) + 1)
        /\ returned'[Len(returned) + 1] = n
        /\ \A i \in DOMAIN returned : returned'[i] = returned[i]
    BY <1>1, <1>2, <1>4, AppendProperties, LenProperties
  <2>2. \A i \in DOMAIN returned : returned[i] < n
    BY <1>2, <1>4 DEF R!ReaderInv, R!Accounted
  <2> HIDE DEF n
  <2>3. ~closed => \A i, j \in DOMAIN returned' : i < j => returned'[i] < returned'[j]
    <3> SUFFICES ASSUME ~closed, NEW i \in DOMAIN returned', NEW j \in DOMAIN returned', i < j
                 PROVE  returned'[i] < returned'[j]
      OBVIOUS
    <3>1. i \in DOMAIN returned /\ (j \in DOMAIN returned \/ j = Len(returned) + 1)
      BY <1>2, <2>1
    <3>2. CASE j \in DOMAIN returned
      BY <2>1, <3>1, <3>2 DEF R!ReaderInv, R!NothingLostWithoutTimeout
    <3>3. CASE j = Len(returned) + 1
      BY <2>1, <2>2, <3>1, <3>3
    <3> QED
      BY <3>1, <3>2, <3>3
  <2>4. R!ReaderTypeOK'
    BY <1>1, <1>2, <2>1 DEF R!ReaderInv, R!ReaderTypeOK
  <2>5. R!Accounted'
    <3>1. \A i \in DOMAIN returned' : feed[returned'[i]] = "message" /\ returned'[i] <= n
      BY <1>1, <1>2, <2>1, <2>2 DEF R!ReaderInv, R!Accounted
    <3> QED
      BY <1>1, <3>1 DEF R!ReaderInv, R!Accounted
  <2>6. R!NothingLostWithoutTimeout'
    <3> SUFFICES ASSUME ~closed
                 PROVE  1..n = {returned'[i] : i \in DOMAIN returned'} \cup skipped
      BY <1>1, <2>3 DEF R!NothingLostWithoutTimeout
    <3>1. 1..decoded = {returned[i] : i \in DOMAIN returned} \cup skipped
      BY <1>1, ConsumedSoFar DEF Consumed
    <3>2. {returned'[i] : i \in DOMAIN returned'} = {returned[i] : i \in DOMAIN returned} \cup {n}
      BY <1>1, <1>2, <1>4, Appended
    <3>3. 1..n = (1..decoded) \cup {n}
      BY <1>2 DEF n
    <3> QED
      BY <3>1, <3>2, <3>3
  <2> QED
    BY <2>4, <2>5, <2>6 DEF Reading
<1> QED
  BY <1>3, <1>4

LEMMA ReaderDecodeOther ==
    ASSUME R!ReaderInv, R!DecodeForeign \/ R!DecodeError
    PROVE  Reading'
<1> DEFINE n == decoded + 1
<1>1. /\ call = "decoding" /\ decoded < arrived /\ decoded' = n
      /\ UNCHANGED <<feed, arrived, closed, orphans, timeouts, raced, returned>>
      /\ attempt' = attempt
  BY DEF R!DecodeForeign, R!DecodeError, R!Finds, R!HasNext, R!streamVars, R!history,
         R!FailAttempt
<1>2. decoded \in Nat /\ n \in 1..arrived /\ n \in 1..Len(feed)
  BY <1>1 DEF R!ReaderInv, R!ReaderTypeOK
<1>3. \/ /\ feed[n] = "foreign" /\ skipped' = skipped \cup {n}
         /\ call' = IF attempt = MaxRetries THEN "failed" ELSE "retrying"
      \/ feed[n] = "error" /\ skipped' = skipped /\ call' = "failed"
  BY DEF R!DecodeForeign, R!DecodeError, R!Finds, R!Kind, R!FailAttempt, R!history
<1>4. 1..n = (1..decoded) \cup {n}
  BY <1>2
<1> HIDE DEF n
<1>5. R!NothingLostWithoutTimeout'
  <2> SUFFICES ASSUME ~closed
               PROVE  /\ \A i, j \in DOMAIN returned : i < j => returned[i] < returned[j]
                      /\ 1..n = {returned[i] : i \in DOMAIN returned} \cup skipped'
                           \cup {i \in {n} \ {0} : feed[i] = "error" /\ call' = "failed"}
    BY <1>1 DEF R!NothingLostWithoutTimeout
  <2>1. 1..decoded = {returned[i] : i \in DOMAIN returned} \cup skipped
    BY <1>1, ConsumedSoFar DEF Consumed
  <2>2. \A i, j \in DOMAIN returned : i < j => returned[i] < returned[j]
    BY <1>1 DEF R!ReaderInv, R!NothingLostWithoutTimeout
  <2> QED
    BY <1>2, <1>3, <1>4, <2>1, <2>2
<1>6. /\ skipped' \subseteq 1..Len(feed) /\ \A i \in skipped' : feed[i] = "foreign"
  BY <1>2, <1>3 DEF R!ReaderInv, R!ReaderTypeOK, R!Accounted
<1>7. /\ call' \in {"idle", "decoding", "retrying", "failed"}
      /\ attempt' \in 0..MaxRetries /\ (call' = "retrying" => attempt' < MaxRetries)
  BY <1>1, <1>3, RequestAssumption DEF R!ReaderInv, R!ReaderTypeOK
<1>8. /\ decoded' \in 0..arrived /\ raced' \in BOOLEAN /\ orphans' \in Nat /\ decoded' >= decoded
      /\ (orphans' > 0 \/ raced' => closed') /\ timeouts' \in Nat
  BY <1>1, <1>2 DEF R!ReaderInv, R!ReaderTypeOK, R!Accounted, n
<1> QED
  BY <1>1, <1>5, <1>6, <1>7, <1>8, ReaderMoves

LEMMA ReadingSteps ==
    ASSUME R!ReaderInv,
           \/ R!StartCall \/ R!Retry \/ R!Decode \/ R!OrphanEnds
           \/ R!Arrive \/ R!StreamEnds
    PROVE  Reading'
<1> USE DEF R!streamVars, R!callVars, R!history
<1>1. /\ orphans \in Nat /\ attempt \in 0..MaxRetries /\ MaxRetries \in Nat
      /\ decoded \in Nat /\ arrived \in Nat /\ decoded <= arrived
      /\ closed \in BOOLEAN /\ raced \in BOOLEAN /\ timeouts \in Nat
  BY RequestAssumption DEF R!ReaderInv, R!ReaderTypeOK
<1>2. CASE R!StartCall
  BY <1>1, <1>2, ReaderQuiet DEF R!StartCall
<1>3. CASE R!Retry
  <2>1. attempt + 1 \in 0..MaxRetries
    BY <1>1, <1>3 DEF R!Retry, R!ReaderInv, R!ReaderTypeOK
  <2> QED
    BY <1>1, <1>3, <2>1, ReaderQuiet DEF R!Retry
<1>4. CASE R!DecodeMessage
  BY <1>4, ReaderDecodeMessage
<1>5. CASE R!DecodeForeign \/ R!DecodeError
  BY <1>5, ReaderDecodeOther
<1>6. CASE R!DecodeBroken \/ R!DecodeFails \/ R!Timeout
  <2>1. /\ call = "decoding" /\ attempt' = attempt
        /\ call' \in {"failed", "retrying"} /\ (call' = "retrying" => attempt # MaxRetries)
        /\ UNCHANGED <<feed, arrived, decoded, raced, returned, skipped>>
        /\ closed' \in {closed, TRUE}
        /\ orphans' = orphans \/ (orphans' = orphans + 1 /\ closed')
        /\ timeouts' \in {timeouts, timeouts + 1}
    BY <1>6 DEF R!DecodeBroken, R!DecodeFails, R!Timeout, R!TimesOut, R!FailAttempt, R!Finds
  <2>2. orphans' \in Nat /\ timeouts' \in Nat /\ (orphans' > orphans => closed')
    BY <1>1, <2>1
  <2>3. call' = "retrying" => attempt' < MaxRetries
    BY <1>1, <2>1
  <2> QED
    BY <1>1, <2>1, <2>2, <2>3, ReaderQuiet
<1>7. CASE R!DecodeRacing
  <2>1. /\ call = "decoding" /\ orphans > 0 /\ raced' = TRUE /\ decoded' \in 0..arrived
        /\ attempt' = attempt
        /\ call' \in {"idle", "failed", "retrying"}
        /\ (call' = "retrying" => attempt # MaxRetries)
        /\ UNCHANGED <<feed, arrived, closed, orphans, timeouts, returned, skipped>>
    BY <1>7 DEF R!DecodeRacing, R!FailAttempt
  <2>2. closed
    BY <2>1 DEF R!ReaderInv, R!Accounted
  <2>3. skipped' \subseteq 1..Len(feed) /\ \A i \in skipped' : feed[i] = "foreign"
    BY <2>1 DEF R!ReaderInv, R!ReaderTypeOK, R!Accounted
  <2>4. call' = "retrying" => attempt' < MaxRetries
    BY <1>1, <2>1
  <2> QED
    BY <1>1, <2>1, <2>2, <2>3, <2>4, ClosedLosesNothing, ReaderMoves
<1>8. CASE R!OrphanEnds
  <2>1. /\ orphans > 0 /\ orphans' = orphans - 1
        /\ decoded' = decoded \/ (decoded' = decoded + 1 /\ decoded < arrived)
        /\ UNCHANGED <<feed, arrived, closed, call, attempt, timeouts, raced, returned, skipped>>
    BY <1>8 DEF R!OrphanEnds, R!HasNext
  <2>2. closed
    BY <2>1 DEF R!ReaderInv, R!Accounted
  <2>3. decoded' \in 0..arrived /\ decoded' >= decoded /\ orphans' \in Nat
    BY <1>1, <2>1
  <2>4. skipped' \subseteq 1..Len(feed) /\ \A i \in skipped' : feed[i] = "foreign"
    BY <2>1 DEF R!ReaderInv, R!ReaderTypeOK, R!Accounted
  <2>5. /\ call' \in {"idle", "decoding", "retrying", "failed"}
        /\ attempt' \in 0..MaxRetries /\ (call' = "retrying" => attempt' < MaxRetries)
    BY <2>1 DEF R!ReaderInv, R!ReaderTypeOK
  <2> QED
    BY <1>1, <2>1, <2>2, <2>3, <2>4, <2>5, ClosedLosesNothing, ReaderMoves
<1>9. CASE R!Arrive
  <2>1. /\ arrived' = arrived + 1 /\ arrived < Len(feed)
        /\ UNCHANGED <<feed, closed, call, attempt, decoded, orphans, timeouts, raced,
                       returned, skipped>>
    BY <1>9 DEF R!Arrive
  <2>2. R!ReaderTypeOK'
    BY <1>1, <2>1, LenProperties DEF R!ReaderInv, R!ReaderTypeOK
  <2> QED
    BY <2>1, <2>2
       DEF R!ReaderInv, Reading, R!Accounted, R!NothingLostWithoutTimeout
<1>10. CASE R!StreamEnds
  BY <1>10 DEF R!StreamEnds, R!ReaderInv, Reading, R!ReaderTypeOK, R!Accounted,
       R!NothingLostWithoutTimeout
<1> QED
  BY <1>2, <1>3, <1>4, <1>5, <1>6, <1>7, <1>8, <1>9, <1>10 DEF R!Decode

\* Only a goroutine that nobody waits for takes a message nobody gets.
LEMMA LosesOneSteps ==
    ASSUME R!ReaderInv,
           \/ R!StartCall \/ R!Retry \/ R!Decode \/ R!OrphanEnds
           \/ R!Arrive \/ R!StreamEnds
    PROVE  R!TimeoutLosesOne'
<1> USE DEF R!streamVars, R!callVars, R!history
<1>1. orphans \in Nat /\ timeouts \in Nat /\ decoded \in Nat /\ returned \in Seq(1..Len(feed))
  BY DEF R!ReaderInv, R!ReaderTypeOK
<1>2. CASE \/ R!StartCall \/ R!Retry \/ R!DecodeBroken \/ R!DecodeFails
           \/ R!Arrive \/ R!StreamEnds
  <2>1. UNCHANGED <<feed, decoded, returned, orphans, timeouts, raced>>
    BY <1>2 DEF R!StartCall, R!Retry, R!DecodeBroken, R!DecodeFails, R!Arrive, R!StreamEnds
  <2>2. R!LostMessages' = R!LostMessages
    BY <2>1 DEF R!LostMessages
  <2> QED
    BY <1>1, <2>1, <2>2, LosesOneKept
<1>3. CASE R!Timeout
  <2>1. /\ UNCHANGED <<feed, decoded, returned, raced>> /\ orphans' = orphans + 1
        /\ timeouts' = IF raced THEN timeouts ELSE timeouts + 1
    BY <1>3 DEF R!Timeout, R!TimesOut
  <2>2. R!LostMessages' = R!LostMessages
    BY <2>1 DEF R!LostMessages
  <2>3. CASE raced
    BY <2>1, <2>3 DEF R!TimeoutLosesOne
  <2>4. CASE ~raced
    BY <1>1, <2>1, <2>2, <2>4, LosesOneKept
  <2> QED
    BY <2>3, <2>4
<1>4. CASE R!DecodeMessage
  <2>1. /\ UNCHANGED <<feed, orphans, timeouts, raced>> /\ decoded' = decoded + 1
        /\ returned' = IF raced THEN returned ELSE Append(returned, decoded + 1)
    BY <1>4 DEF R!DecodeMessage, R!Return
  <2>2. CASE raced
    BY <2>1, <2>2 DEF R!TimeoutLosesOne
  <2>3. CASE ~raced
    <3>1. /\ \A i \in DOMAIN returned : i \in DOMAIN returned' /\ returned'[i] = returned[i]
          /\ \E i \in DOMAIN returned' : returned'[i] = decoded + 1
      <4>1. decoded + 1 \in 1..Len(feed)
        BY <1>4, LenProperties
           DEF R!DecodeMessage, R!Finds, R!HasNext, R!ReaderInv, R!ReaderTypeOK
      <4>2. returned' = Append(returned, decoded + 1)
        BY <2>1, <2>3
      <4> QED
        BY <1>1, <4>1, <4>2, Appended
    <3>2. \A i \in 1..decoded' : i \in 1..decoded \/ i = decoded + 1
      BY <1>1, <2>1
    <3>3. R!LostMessages' \subseteq R!LostMessages
      BY <2>1, <3>1, <3>2 DEF R!LostMessages
    <3> QED
      BY <1>1, <2>1, <3>3, LosesOneKept
  <2> QED
    BY <2>2, <2>3
<1>5. CASE R!DecodeForeign \/ R!DecodeError
  <2>1. /\ UNCHANGED <<feed, returned, orphans, timeouts, raced>> /\ decoded' = decoded + 1
        /\ feed[decoded + 1] # "message"
    BY <1>5 DEF R!DecodeForeign, R!DecodeError, R!Finds, R!Kind
  <2>2. \A i \in 1..decoded' : i \in 1..decoded \/ i = decoded + 1
    BY <1>1, <2>1
  <2>3. R!LostMessages' \subseteq R!LostMessages
    BY <2>1, <2>2 DEF R!LostMessages
  <2> QED
    BY <1>1, <2>1, <2>3, LosesOneKept
<1>6. CASE R!DecodeRacing
  BY <1>6 DEF R!DecodeRacing, R!TimeoutLosesOne
<1>7. CASE R!OrphanEnds
  <2>1. /\ UNCHANGED <<feed, returned, timeouts, raced>> /\ orphans > 0 /\ orphans' = orphans - 1
        /\ decoded' \in {decoded, decoded + 1}
    BY <1>7 DEF R!OrphanEnds
  <2>2. \A i \in 1..decoded' : i \in 1..decoded \/ i = decoded + 1
    BY <1>1, <2>1
  <2>3. R!LostMessages' \subseteq R!LostMessages \cup {decoded + 1}
    BY <2>1, <2>2 DEF R!LostMessages
  <2>4. orphans' \in Nat /\ orphans' + timeouts + 1 <= orphans + timeouts'
    BY <1>1, <2>1
  <2> QED
    BY <1>1, <2>1, <2>3, <2>4, LosesOneKept
<1> QED
  BY <1>2, <1>3, <1>4, <1>5, <1>6, <1>7 DEF R!Decode

LEMMA ReaderSteps ==
    ASSUME R!ReaderInv,
           \/ R!StartCall \/ R!Retry \/ R!Decode \/ R!OrphanEnds
           \/ R!Arrive \/ R!StreamEnds
    PROVE  R!ReaderInv'
  BY ReadingSteps, LosesOneSteps DEF Reading, R!ReaderInv
-----------------------------------------------------------------------------
(* Keys.                                                                   *)

LEMMA HalfOrder ==
    /\ Order \div 2 \in Nat /\ Order = 2 * (Order \div 2) + 1
  BY OrderAssumption

LEMMA ModOrder == \A k \in 0..(Order - 1) : k % Order = k
  BY OrderAssumption

LEMMA PubKeyOnCurve ==
    ASSUME NEW k \in PrivateKeys
    PROVE  PubKey(k).x \in OnCurve /\ PubKey(k).odd \in BOOLEAN
  BY HalfOrder, OrderAssumption DEF PubKey, PrivateKeys, OnCurve

LEMMA NotError ==
    /\ \A flag, num : Bytes(flag, num) # Error
    /\ \A a, b : [x |-> a, odd |-> b] # Error
  BY DEF Bytes, Error

\* A public key is read back as the point with its x and the odd y.
LEMMA ReadBack ==
    ASSUME NEW p, p.x \in OnCurve, NEW prefix, NEW written0 \in {"hex", "bech32"}
    PROVE  DeserializePublicKey(Text(prefix, written0, Bytes(0, p.x)))
               = [x |-> p.x, odd |-> TRUE]
<1>1. DecodeKey(Text(prefix, written0, Bytes(0, p.x))) = Bytes(0, p.x)
  BY DEF DecodeKey, Text
<1>2. Bytes(0, p.x) # Error /\ Bytes(0, p.x).flag = 0 /\ Bytes(0, p.x).num = p.x
  BY NotError DEF Bytes
<1>3. ParsePubKey(3, p.x) = [x |-> p.x, odd |-> TRUE]
  BY DEF ParsePubKey
<1> QED
  BY <1>1, <1>2, <1>3 DEF DeserializePublicKey

LEMMA Renamed ==
    ASSUME NEW b
    PROVE  [Text("", "hex", b) EXCEPT !.prefix = "npub1"] = Text("npub1", "hex", b)
<1> DEFINE t == [prefix |-> "", written |-> "hex", bytes |-> b]
           u == [t EXCEPT !.prefix = "npub1"]
           v == [prefix |-> "npub1", written |-> "hex", bytes |-> b]
<1>1. DOMAIN t = {"prefix", "written", "bytes"} /\ DOMAIN v = {"prefix", "written", "bytes"}
  OBVIOUS
<1>2. t.written = "hex" /\ t.bytes = b
  OBVIOUS
<1>3. v.prefix = "npub1" /\ v.written = "hex" /\ v.bytes = b
  OBVIOUS
<1>4. v = [f \in {"prefix", "written", "bytes"} |-> v[f]]
  BY Zenon
<1> HIDE DEF t, v
<1>5. u = [f \in {"prefix", "written", "bytes"} |-> IF f = "prefix" THEN "npub1" ELSE t[f]]
  BY <1>1
<1>6. u = v
  BY <1>2, <1>3, <1>4, <1>5
<1> QED
  BY <1>6 DEF t, v, Text

\* Every private key is read back as it was, and every public key as one with
\* the same x, from each of its texts (signing.go:21-97 and
\* 166-240), on a curve of any odd order.
THEOREM KeysRoundTrip ==
    ASSUME NEW k \in PrivateKeys
    PROVE  RoundTrip(k)
<1> DEFINE p == PubKey(k)
           texts == {SerializePublicKey(p), SerializePublicKeyBech32(p),
                     [SerializePublicKey(p) EXCEPT !.prefix = "npub1"]}
           read == [x |-> p.x, odd |-> TRUE]
<1>1. ASSUME NEW prefix, NEW writing \in {"hex", "bech32"}
      PROVE  DeserializePrivateKey(Text(prefix, writing, Bytes(0, k))) = k
  <2>1. DecodeKey(Text(prefix, writing, Bytes(0, k))) = Bytes(0, k)
    BY DEF DecodeKey, Text
  <2>2. Bytes(0, k) # Error /\ Bytes(0, k).num = k
    BY NotError DEF Bytes
  <2>3. k % Order = k
    BY ModOrder, OrderAssumption DEF PrivateKeys
  <2> QED
    BY <2>1, <2>2, <2>3 DEF DeserializePrivateKey
<1>2. p.x \in OnCurve
  BY PubKeyOnCurve
<1> HIDE DEF p
<1>3. /\ SerializePublicKey(p) = Text("", "hex", Bytes(0, p.x))
      /\ SerializePublicKeyBech32(p) = Text("npub1", "bech32", Bytes(0, p.x))
      /\ [SerializePublicKey(p) EXCEPT !.prefix = "npub1"] = Text("npub1", "hex", Bytes(0, p.x))
  <2>1. /\ SerializePublicKey(p) = Text("", "hex", Bytes(0, p.x))
        /\ SerializePublicKeyBech32(p) = Text("npub1", "bech32", Bytes(0, p.x))
    BY DEF SerializePublicKey, SerializePublicKeyBech32
  <2>2. [Text("", "hex", Bytes(0, p.x)) EXCEPT !.prefix = "npub1"]
            = Text("npub1", "hex", Bytes(0, p.x))
    BY Renamed
  <2> QED
    BY <2>1, <2>2
<1>4. \A t \in texts : DeserializePublicKey(t) = read
  <2>1. \A t \in texts : t \in {Text("", "hex", Bytes(0, p.x)),
                              Text("npub1", "bech32", Bytes(0, p.x)),
                              Text("npub1", "hex", Bytes(0, p.x))}
    BY <1>3
  <2>2. DeserializePublicKey(Text("", "hex", Bytes(0, p.x))) = read
    BY <1>2, ReadBack
  <2>3. DeserializePublicKey(Text("npub1", "bech32", Bytes(0, p.x))) = read
    BY <1>2, ReadBack
  <2>4. DeserializePublicKey(Text("npub1", "hex", Bytes(0, p.x))) = read
    BY <1>2, ReadBack
  <2> HIDE DEF texts, read
  <2> QED
    BY <2>1, <2>2, <2>3, <2>4
<1> HIDE DEF texts
<1>5. \A q \in {DeserializePublicKey(t) : t \in texts} : q = read
  BY <1>4
<1>6. SerializePublicKey(read) = SerializePublicKey(p)
  BY DEF SerializePublicKey
<1>7. /\ DeserializePrivateKey(SerializePrivateKey(k)) = k
      /\ DeserializePrivateKey(SerializePrivateKeyBech32(k)) = k
  BY <1>1 DEF SerializePrivateKey, SerializePrivateKeyBech32
<1>8. /\ \A q \in {DeserializePublicKey(t) : t \in texts} :
             SerializePublicKey(q) = SerializePublicKey(p)
      /\ \A q, r \in {DeserializePublicKey(t) : t \in texts} :
             ConvertPubKeyToLibp2pPeerID(q) = ConvertPubKeyToLibp2pPeerID(r)
  BY <1>5, <1>6
<1> QED
  BY <1>7, <1>8 DEF RoundTrip, texts, p
-----------------------------------------------------------------------------
(* The request.                                                            *)

LEMMA ClaimOK ==
    ASSUME RequestTypeOK, Prepared, request.op = "claim"
    PROVE  ClaimVerifiesFor(ClaimOwnershipMessage)
<1> DEFINE p == PubKey(request.key)
           m == ClaimOwnershipMessage
<1>1. request.key \in PrivateKeys /\ request.root \in Nat \ {0}
  BY RequestAssumption, OrderAssumption DEF RequestTypeOK, Prepared, PrivateKeys
<1>2. p.x \in OnCurve
  BY <1>1, PubKeyOnCurve
<1>3. /\ m.root = request.root
      /\ m.publicKey = Text("", "hex", Bytes(0, p.x))
      /\ m.signature = [by |-> p.x, of |-> SHA256(request.root)]
  BY <1>1 DEF ClaimOwnershipMessage, SerializePublicKey, SignSerializedCid, SignData
<1> HIDE DEF p, m
<1>4. DeserializePublicKey(m.publicKey) = [x |-> p.x, odd |-> TRUE]
  BY <1>2, <1>3, ReadBack
<1>5. VerifySerializedCIDSignature(m.signature, m.root, [x |-> p.x, odd |-> TRUE])
  BY <1>1, <1>3 DEF VerifySerializedCIDSignature, VerifySignature
<1> QED
  BY <1>4, <1>5, NotError DEF ClaimVerifiesFor, m

LEMMA RequestInit ==
    ASSUME Init
    PROVE  IInv
<1>1. W!WriterInv
  <2>1. W!Wholes = {}
    BY EmptySeq DEF Init, W!Init, W!Wholes
  <2>2. /\ written = "writing" /\ writes = 0 /\ writers = 0 /\ late = FALSE /\ closed = FALSE
        /\ wire \in Seq({"part", "whole"}) /\ MaxRetries \in Nat
    BY EmptySeq, RequestAssumption DEF Init, W!Init
  <2>3. writes \in 0..MaxRetries /\ writers \in 0..(IF written = "writing" THEN writes ELSE writes + 1)
    BY <2>2
  <2>4. W!SuccessWritesLast
    BY <2>2 DEF W!SuccessWritesLast
  <2> QED
    BY <2>1, <2>2, <2>3, <2>4 DEF W!WriterInv
<1>2. R!ReaderInv
  <2>1. /\ feed \in Seq({"message", "foreign", "error", "broken"})
        /\ arrived = 0 /\ decoded = 0 /\ returned = <<>> /\ skipped = {}
        /\ DOMAIN returned = {} /\ call = "idle"
    BY RequestAssumption, EmptySeq DEF Init, R!Init
  <2>2. R!ReaderTypeOK
    <3>1. /\ Len(feed) \in Nat /\ returned \in Seq(1..Len(feed))
          /\ closed = FALSE /\ raced = FALSE /\ orphans = 0 /\ timeouts = 0
          /\ attempt = 0 /\ MaxRetries \in Nat
      BY <2>1, LenProperties, EmptySeq, RequestAssumption DEF Init, R!Init
    <3>2. arrived \in 0..Len(feed) /\ decoded \in 0..arrived /\ attempt \in 0..MaxRetries
      BY <2>1, <3>1
    <3> QED
      BY <2>1, <3>1, <3>2 DEF R!ReaderTypeOK
  <2>3. R!TimeoutLosesOne
    <3>1. R!LostMessages = {} /\ orphans = 0 /\ timeouts = 0
      BY <2>1 DEF R!LostMessages, Init, R!Init
    <3>2. \A S : R!Cardinality(S) = Cardinality(S)
      BY DEF R!Cardinality, Cardinality
    <3>3. Cardinality({}) = 0
      BY FS_EmptySet
    <3> QED
      BY <3>1, <3>2, <3>3 DEF R!TimeoutLosesOne
  <2> QED
    BY <2>1, <2>2, <2>3
       DEF Init, R!Init, R!ReaderInv, R!Accounted, R!NothingLostWithoutTimeout
<1>3. RequestTypeOK /\ Setting
  BY DEF Init, W!Init, RequestTypeOK, Setting
<1> QED
  BY <1>1, <1>2, <1>3 DEF IInv

LEMMA RequestStep ==
    ASSUME IInv, [Next]_vars
    PROVE  IInv'
<1> USE DEF setting
<1>1. RequestTypeOK /\ Setting /\ W!WriterInv /\ R!ReaderInv /\ closed \in BOOLEAN
  BY DEF IInv, W!WriterInv
<1>2. CASE GetStreamFails \/ Refuse \/ Begin \/ Answered \/ GivesUp
  <2>1. /\ UNCHANGED <<request, transport, writerVars, readerVars>> /\ closed' \in {closed, TRUE}
        /\ pc' \in {"write", "done", "failed"} /\ (pc' = "write" => Prepared)
    BY <1>2 DEF GetStreamFails, Refuse, Begin, Answered, GivesUp, Returns
  <2> QED
    BY <1>1, <2>1, WriterKept, ReaderKept
       DEF IInv, RequestTypeOK, Setting, Prepared, writerVars
<1>3. CASE StartRead
  <2>1. /\ UNCHANGED <<request, transport, writerVars, closed>> /\ R!StartCall
        /\ pc' = "read" /\ Prepared
    BY <1>1, <1>3 DEF StartRead, R!StartCall, R!streamVars, Setting
  <2> QED
    BY <1>1, <2>1, WriterKept, ReaderSteps
       DEF IInv, RequestTypeOK, Setting, Prepared, writerVars
<1>4. CASE WriteStep
  <2>1. /\ UNCHANGED <<request, transport, pc, readerVars>> /\ transport = "stream"
        /\ W!Retry \/ W!Write
    BY <1>4 DEF WriteStep
  <2>2. closed' \in {closed, TRUE}
    BY <2>1 DEF W!Retry, W!Write, W!WriteSucceeds, W!WriteFails, W!Timeout, W!streamVars
  <2> QED
    BY <1>1, <2>1, <2>2, WriterSteps, ReaderKept
       DEF IInv, RequestTypeOK, Setting, Prepared
<1>5. CASE BufferWrite
  <2>1. /\ UNCHANGED <<request, transport, pc, readerVars, writers, late, closed>>
        /\ written' = "ok"
    BY <1>5 DEF BufferWrite
  <2> QED
    BY <1>1, <1>5, <2>1, WriterBuffer, ReaderKept
       DEF IInv, RequestTypeOK, Setting, Prepared
<1>6. CASE ReadStep
  <2>1. /\ UNCHANGED <<request, transport, pc, writerVars>>
        /\ R!Retry \/ R!Decode
    BY <1>6 DEF ReadStep
  <2>2. closed' \in {closed, TRUE}
    BY <2>1 DEF R!Retry, R!Decode, R!DecodeMessage, R!Return, R!DecodeForeign, R!DecodeError,
       R!DecodeBroken, R!DecodeFails, R!DecodeRacing, R!Timeout, R!TimesOut, R!streamVars
  <2> QED
    BY <1>1, <2>1, <2>2, WriterKept, ReaderSteps
       DEF IInv, RequestTypeOK, Setting, Prepared, writerVars
<1>7. CASE WriterEnds
  <2>1. UNCHANGED <<request, transport, pc, readerVars, closed>> /\ W!OrphanEnds
    BY <1>7 DEF WriterEnds, W!OrphanEnds, W!streamVars
  <2>2. transport # "websocket"
    BY <1>1, <2>1 DEF Setting, W!OrphanEnds
  <2> QED
    BY <1>1, <2>1, <2>2, WriterOrphan, ReaderKept
       DEF IInv, RequestTypeOK, Setting, Prepared
<1>8. CASE ReaderEnds \/ Answer \/ StreamEnds
  <2>1. /\ UNCHANGED <<request, transport, pc, writerVars, closed>>
        /\ R!OrphanEnds \/ R!Arrive \/ R!StreamEnds
    BY <1>8 DEF ReaderEnds, Answer, StreamEnds, R!OrphanEnds, R!Arrive, R!StreamEnds,
       R!streamVars
  <2> QED
    BY <1>1, <2>1, WriterKept, ReaderSteps
       DEF IInv, RequestTypeOK, Setting, Prepared, writerVars
<1>9. CASE UNCHANGED vars
  <2>1. UNCHANGED <<request, transport, pc, writerVars, readerVars, closed>>
    BY <1>9 DEF vars
  <2> QED
    BY <1>1, <2>1, WriterKept, ReaderKept
       DEF IInv, RequestTypeOK, Setting, Prepared, writerVars
<1> QED
  BY <1>2, <1>3, <1>4, <1>5, <1>6, <1>7, <1>8, <1>9 DEF Next, Call
-----------------------------------------------------------------------------
(* The theorems.                                                           *)

\* The inductive invariant holds in every reachable state of a request, from
\* the call of ClaimOwnership, QueryDag or DownloadDag on: whatever the relay
\* sends, however many attempts time out (stream.go:222-253 and 344-403).
THEOREM RequestInvariant == Spec => []IInv
  BY RequestInit, RequestStep, PTL DEF Spec

\* As long as no attempt timed out, every envelope the decoder consumed was
\* returned, once and in order, or could not be decoded, or was the error that
\* ended the call: retrying loses nothing (stream.go:222-296).
THEOREM RequestNothingLost == Spec => []NothingLostWithoutTimeout
<1>1. IInv => NothingLostWithoutTimeout
  BY DEF IInv, R!ReaderInv, NothingLostWithoutTimeout
<1> QED
  BY <1>1, RequestInvariant, PTL

\* Until two goroutines meet in the decoder, the messages that were consumed and
\* never returned are as many as the timeouts at the most, and each was taken by
\* a goroutine that nobody waits for (stream.go:319-341): retries and later calls
\* on the reader lose none.
THEOREM RequestTimeoutLosesOne == Spec => []TimeoutLosesOne
<1>1. IInv => TimeoutLosesOne
  BY DEF IInv, R!ReaderInv, TimeoutLosesOne
<1> QED
  BY <1>1, RequestInvariant, PTL

\* However many attempts there were, and however late a goroutine that was
\* given up writes, the relay never gets the request twice: a timeout closes
\* the stream before the next attempt (stream.go:358-402).
THEOREM RequestNeverTwice == Spec => []NeverTwice
<1>1. \A S : S = {} \/ (\E w : S = {w}) => W!Cardinality(S) <= 1
  <2>1. \A S : W!Cardinality(S) = Cardinality(S)
    BY DEF W!Cardinality, Cardinality
  <2>2. \A S : S = {} => Cardinality(S) = 0
    BY FS_EmptySet, Zenon
  <2>3. \A S : (\E w : S = {w}) => Cardinality(S) = 1
    BY FS_Singleton, Zenon
  <2> QED
    BY <2>1, <2>2, <2>3
<1>2. IInv => W!Wholes = {} \/ (\E w : W!Wholes = {w})
  BY DEF IInv, W!WriterInv, W!SuccessWritesLast
<1>3. IInv => NeverTwice
  BY <1>1, <1>2 DEF NeverTwice, W!NeverTwice
<1> QED
  BY <1>3, RequestInvariant, PTL

\* A write that is reported as a success put the whole request on the stream,
\* and nothing of an earlier attempt comes after it (stream.go:376-393).
THEOREM RequestSuccessWritesLast == Spec => []SuccessWritesLast
<1>1. IInv => SuccessWritesLast
  BY DEF IInv, W!WriterInv, SuccessWritesLast
<1> QED
  BY <1>1, RequestInvariant, PTL

\* A claim that is on its way verifies at a relay that checks it with this
\* package, for a private key of either parity, on a curve of any odd order
\* (claim.go:25-46, signing.go:99-155): the key read back from the claim is not
\* always the caller's own, and yet verifies.
THEOREM RequestClaimVerifies == Spec => []ClaimVerifies
<1>1. IInv => ClaimVerifies
  BY ClaimOK DEF IInv, Setting, ClaimVerifies
<1> QED
  BY <1>1, RequestInvariant, PTL

\* The texts of the caller's private key, and those of its public key, lead
\* back to a key that is as good (signing.go:21-97 and 166-240).
THEOREM RequestKeyRoundTrips == Spec => []KeyRoundTrips
<1>1. IInv => KeyRoundTrips
  <2>1. IInv /\ request.key # 0 => request.key \in PrivateKeys
    BY RequestAssumption, OrderAssumption DEF IInv, RequestTypeOK, PrivateKeys
  <2> QED
    BY <2>1, KeysRoundTrip DEF KeyRoundTrips
<1> QED
  BY <1>1, RequestInvariant, PTL
=============================================================================
