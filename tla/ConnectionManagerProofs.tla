----------------------- MODULE ConnectionManagerProofs -----------------------
(***************************************************************************)
(* Proofs about ConnectionManager, for every number of callers, ids and    *)
(* connectors.                                                             *)
(***************************************************************************)
EXTENDS ConnectionManager, TLAPS, SequenceTheorems

-----------------------------------------------------------------------------
(* What the helpers of the model make of a caller.                         *)

LEMMA IdleType == Idle \in CallerStates
  BY EmptySeq DEF Idle, CallerStates, Labels, Transports

LEMMA OutcomeType ==
    ASSUME TypeOK, NEW c \in Callers, NEW ok \in BOOLEAN
    PROVE  Outcome(c, ok) \in CallerStates
<1>1. Noted(c, ok) \in [Ids -> Seq(BOOLEAN)]
  <2>1. caller[c].results \in [Ids -> Seq(BOOLEAN)]
    BY DEF TypeOK, CallerStates
  <2>2. (ok \/ caller[c].loop = "collecting") \in BOOLEAN
    OBVIOUS
  <2>3. \A i \in Ids : Append(caller[c].results[i], ok \/ caller[c].loop = "collecting")
                         \in Seq(BOOLEAN)
    BY <2>1, <2>2, AppendProperties
  <2> QED
    BY <2>1, <2>3 DEF Noted
<1>2. ASSUME NEW f \in CallerStates, NEW r \in [Ids -> Seq(BOOLEAN)]
      PROVE  [f EXCEPT !.at = "ranging", !.id = None, !.using = None,
                  !.stream = None, !.results = r] \in CallerStates
  BY DEF CallerStates, Labels, Transports
<1>3. caller[c] \in CallerStates
  BY DEF TypeOK
<1> QED
  BY <1>1, <1>2, <1>3, IdleType DEF Outcome

LEMMA UnlockType ==
    ASSUME NEW c \in Callers, NEW callers \in [Callers -> CallerStates],
           Unlock(c, callers)
    PROVE  /\ caller' \in [Callers -> CallerStates]
           /\ announced' = None /\ readers' \subseteq Callers
<1>1. \A r \in Callers : [callers[r] EXCEPT !.at = "lookup"] \in CallerStates
  BY DEF CallerStates, Labels
<1> QED
  BY <1>1, IdleType DEF Unlock

\* Transports that are opened stay transports.
LEMMA MoreTransports ==
    ASSUME TypeOK, opened' \in Nat, opened' >= opened
    PROVE  /\ Transports \subseteq Transports' /\ CallerStates \subseteq CallerStates'
           /\ 1..opened \subseteq 1..opened'
           /\ caller \in [Callers -> CallerStates']
           /\ connectors \in Seq([kind : Kinds, transport : Transports'])
<1>1. Transports \subseteq Transports' /\ 1..opened \subseteq 1..opened'
  BY DEF Transports, TypeOK
<1>2. CallerStates \subseteq CallerStates'
  BY <1>1 DEF CallerStates
<1>3. [kind : Kinds, transport : Transports] \subseteq [kind : Kinds, transport : Transports']
  BY <1>1
<1>4. connectors \in Seq([kind : Kinds, transport : Transports'])
  BY <1>3, SeqMonotonic DEF TypeOK
<1>5. caller \in [Callers -> CallerStates']
  BY <1>2 DEF TypeOK
<1> QED
  BY <1>1, <1>2, <1>4, <1>5

LEMMA SameTransports ==
    ASSUME opened' = opened
    PROVE  Transports' = Transports /\ CallerStates' = CallerStates
  BY DEF Transports, CallerStates

\* The record of a registered connector.
LEMMA ConnectorType ==
    ASSUME TypeOK, NEW k \in 1..Len(connectors)
    PROVE  connectors[k].kind \in Kinds /\ connectors[k].transport \in Transports
<1>1. connectors[k] \in [kind : Kinds, transport : Transports]
  BY ElementOfSeq DEF TypeOK
<1> QED
  BY <1>1

\* A connector whose transport is set.
LEMMA Retarget ==
    ASSUME NEW T, connectors \in Seq([kind : Kinds, transport : T]),
           NEW k \in 1..Len(connectors), NEW t \in T,
           connectors' = [connectors EXCEPT ![k].transport = t]
    PROVE  /\ connectors' \in Seq([kind : Kinds, transport : T])
           /\ Len(connectors') = Len(connectors)
           /\ connectors'[k].transport = t
           /\ \A j \in 1..Len(connectors) :
                  /\ connectors'[j].kind = connectors[j].kind
                  /\ j # k => connectors'[j] = connectors[j]
<1> DEFINE r == [connectors[k] EXCEPT !.transport = t]
<1>1. connectors[k] \in [kind : Kinds, transport : T]
  BY ElementOfSeq
<1>2. r \in [kind : Kinds, transport : T] /\ r.transport = t /\ r.kind = connectors[k].kind
  BY <1>1
<1>3. connectors' = [connectors EXCEPT ![k] = r]
  OBVIOUS
<1> HIDE DEF r
<1> QED
  BY <1>2, <1>3, ExceptSeq

\* A caller that goes on with the connector k.
LEMMA Moves ==
    ASSUME NEW c \in Callers, NEW label \in Labels, caller \in [Callers -> CallerStates'],
           NEW k \in Nat
    PROVE  /\ [caller EXCEPT ![c].at = label] \in [Callers -> CallerStates']
           /\ [caller EXCEPT ![c].at = label, ![c].using = k] \in [Callers -> CallerStates']
<1>1. caller[c] \in CallerStates'
  OBVIOUS
<1>2. /\ [caller[c] EXCEPT !.at = label] \in CallerStates'
      /\ [caller[c] EXCEPT !.at = label, !.using = k] \in CallerStates'
  BY <1>1 DEF CallerStates
<1> QED
  BY <1>2

LEMMA NotNone == \A n \in Nat : n # None
  BY ManagerAssumption
-----------------------------------------------------------------------------
(* Type correctness.                                                       *)

LEMMA CrashType ==
    ASSUME Crash
    PROVE  TypeOK'
<1>1. [Idle EXCEPT !.at = "panicked"] \in CallerStates'
  BY EmptySeq DEF Idle, CallerStates, Labels, Transports
<1> QED
  BY <1>1, EmptySeq DEF Crash, TypeOK

LEMMA NetworkKeptType ==
    ASSUME TypeOK, UNCHANGED <<connections, networkVars>>,
           announced' \in Callers \cup {None}, readers' \subseteq Callers,
           caller' \in [Callers -> CallerStates]
    PROVE  TypeOK'
  BY SameTransports DEF TypeOK, networkVars

LEMMA RegisterType ==
    ASSUME TypeOK, AllLive, NEW c \in Callers, Holds(c), Register(c)
    PROVE  TypeOK'
<1>1. /\ DOMAIN connections' \subseteq Ids
      /\ \A i \in DOMAIN connections' : connections'[i] \in 1..Len(connectors)
  BY DEF Register, TypeOK, Holds, Writing, At
<1>2. lost' \subseteq 1..opened
  <2>1. ASSUME NEW i \in DOMAIN connections, connectors[connections[i]].kind # "websocket"
        PROVE  connectors[connections[i]].transport \in 1..opened
    BY <2>1, ConnectorType DEF TypeOK, Transports, AllLive, Live
  <2> QED
    BY <2>1 DEF Register, TypeOK
<1>3. /\ caller' \in [Callers -> CallerStates]
      /\ announced' = None /\ readers' \subseteq Callers
  BY UnlockType DEF Register, TypeOK
<1> QED
  BY <1>1, <1>2, <1>3, SameTransports DEF Register, TypeOK

\* A caller whose loop forgets an id is still a caller.
LEMMA ForgetType ==
    ASSUME NEW f \in CallerStates, NEW i
    PROVE  [f EXCEPT !.seen = @ \ {i}, !.stable = @ \ {i}, !.results[i] = <<>>]
               \in CallerStates
<1>1. /\ f.seen \ {i} \in SUBSET Ids /\ f.stable \ {i} \in SUBSET Ids
      /\ f.results \in [Ids -> Seq(BOOLEAN)]
  BY DEF CallerStates
<1>2. [f.results EXCEPT ![i] = <<>>] \in [Ids -> Seq(BOOLEAN)]
  BY <1>1, EmptySeq
<1> QED
  BY <1>1, <1>2 DEF CallerStates

LEMMA DisconnectType ==
    ASSUME TypeOK, NEW c \in Callers, Holds(c), Disconnect(c) \/ DisconnectFails(c)
    PROVE  TypeOK'
<1> DEFINE i == caller[c].id
           k == connections[i]
<1>0. Disconnects(c) /\ (Shuts(k) \/ LeavesOpen(k))
  BY DEF Disconnect, DisconnectFails
<1>1. i \in DOMAIN connections /\ k \in 1..Len(connectors) /\ i \in Ids
  BY <1>0 DEF Disconnects, Known, TypeOK
<1>2. connectors[k].transport \in 1..opened
  BY <1>0, <1>1, ConnectorType DEF Disconnects, Transports
<1>3. /\ caller' \in [Callers -> CallerStates]
      /\ announced' = None /\ readers' \subseteq Callers
  <2> DEFINE callers == [r \in Callers |->
               [caller[r] EXCEPT !.seen = @ \ {i}, !.stable = @ \ {i}, !.results[i] = <<>>]]
  <2>1. callers \in [Callers -> CallerStates]
    BY ForgetType DEF TypeOK
  <2>2. Unlock(c, callers)
    BY <1>0 DEF Disconnects, Forgets
  <2> HIDE DEF callers
  <2> QED
    BY <2>1, <2>2, UnlockType
<1>4. shut' \subseteq 1..opened /\ lost' \subseteq 1..opened
  BY <1>0, <1>2 DEF Shuts, LeavesOpen, TypeOK
<1>5. /\ connectors' \in Seq([kind : Kinds, transport : Transports])
      /\ Len(connectors') = Len(connectors)
  <2>1. None \in Transports /\ connectors \in Seq([kind : Kinds, transport : Transports])
    BY DEF Transports, TypeOK
  <2>2. CASE connectors' = connectors
    BY <2>1, <2>2
  <2>3. CASE connectors' = [connectors EXCEPT ![k].transport = None]
    BY <1>1, <2>1, <2>3, Retarget
  <2> QED
    BY <1>0, <2>2, <2>3 DEF Shuts, LeavesOpen
<1>6. /\ DOMAIN connections' \subseteq Ids
      /\ \A j \in DOMAIN connections' : connections'[j] \in 1..Len(connectors)
  BY <1>0 DEF Disconnects, Forgets, Restrict, TypeOK
<1>7. opened' = opened
  BY <1>0 DEF Disconnects, Forgets
<1> QED
  BY <1>3, <1>4, <1>5, <1>6, <1>7, SameTransports DEF TypeOK

LEMMA NewTransportType ==
    ASSUME TypeOK, NEW c \in Callers, NewTransport(c)
    PROVE  TypeOK'
<1>1. PICK k \in Kinds :
        LET t == IF k = "websocket" THEN None ELSE opened + 1
        IN  /\ opened' = IF t = None THEN opened ELSE t
            /\ connectors' = Append(connectors, [kind |-> k, transport |-> t])
  BY DEF NewTransport
<1>2. opened' \in Nat /\ opened' >= opened
  BY <1>1 DEF TypeOK
<1> DEFINE t == IF k = "websocket" THEN None ELSE opened + 1
<1>3. t \in Transports'
  BY <1>1, NotNone DEF TypeOK, Transports
<1>4. /\ connectors' \in Seq([kind : Kinds, transport : Transports'])
      /\ Len(connectors') = Len(connectors) + 1
  BY <1>1, <1>2, <1>3, MoreTransports, AppendProperties
<1>5. caller' \in [Callers -> CallerStates']
  <2>1. Len(connectors) + 1 \in Nat
    BY LenProperties DEF TypeOK
  <2> QED
    BY <1>2, <2>1, MoreTransports, Moves DEF NewTransport, Labels
<1>6. /\ DOMAIN connections' \subseteq Ids
      /\ \A j \in DOMAIN connections' : connections'[j] \in 1..Len(connectors')
  BY <1>4, LenProperties DEF NewTransport, TypeOK
<1> QED
  BY <1>2, <1>4, <1>5, <1>6, MoreTransports DEF NewTransport, TypeOK, mutexVars

LEMMA DialType ==
    ASSUME TypeOK, NEW c \in Callers, Holds(c), Dial(c)
    PROVE  TypeOK'
<1> DEFINE k == caller[c].using
<1>1. k \in 1..Len(connectors)
  BY DEF Dial, Holds, At
<1>2. opened' \in Nat /\ opened' >= opened /\ opened' \in Transports'
  BY DEF Dial, TypeOK, Transports
<1>4. /\ connectors' \in Seq([kind : Kinds, transport : Transports'])
      /\ Len(connectors') = Len(connectors)
  BY <1>1, <1>2, MoreTransports, Retarget DEF Dial
<1>5. caller' \in [Callers -> CallerStates']
  BY <1>2, MoreTransports, Moves DEF Dial, Goto, Labels
<1>6. lost' \subseteq 1..opened'
  BY <1>1, <1>2, ConnectorType DEF Dial, Connector, TypeOK, Transports
<1> QED
  BY <1>2, <1>4, <1>5, <1>6, MoreTransports DEF Dial, TypeOK, mutexVars
-----------------------------------------------------------------------------
(* Mutual exclusion. Where the callers are after each kind of step.        *)

\* No caller but c moves.
OnlyMoves(c) == \A d \in Callers \ {c} : caller'[d] = caller[d]

LEMMA CallerFields ==
    ASSUME TypeOK, NEW c \in Callers
    PROVE  /\ caller[c] \in CallerStates /\ caller[c].at \in Labels
           /\ caller[c].id \in Ids \cup {None} /\ caller[c].stream \in Transports
           /\ caller[c].loop \in {"none", "untilError", "collecting"}
           /\ caller[c].stable \subseteq Ids /\ caller[c].seen \subseteq Ids
           /\ caller[c].results \in [Ids -> Seq(BOOLEAN)]
  BY DEF TypeOK, CallerStates

LEMMA OutcomeAt ==
    ASSUME TypeOK, NEW c \in Callers, NEW ok \in BOOLEAN
    PROVE  Outcome(c, ok).at \in {"idle", "ranging"}
  BY CallerFields DEF Outcome, Idle, CallerStates

LEMMA UnlockAt ==
    ASSUME NEW c \in Callers, NEW callers \in [Callers -> CallerStates],
           Unlock(c, callers)
    PROVE  /\ caller'[c] = Idle
           /\ \A r \in Callers \ {c} :
                  IF callers[r].at = "getStream"
                  THEN /\ r \in readers'
                       /\ caller'[r] = [callers[r] EXCEPT !.at = "lookup"]
                       /\ caller'[r].at = "lookup"
                  ELSE r \notin readers' /\ caller'[r] = callers[r]
<1>1. \A r \in Callers : [callers[r] EXCEPT !.at = "lookup"].at = "lookup"
  BY DEF CallerStates
<1> QED
  BY <1>1 DEF Unlock

LEMMA UnlockMutex ==
    ASSUME TypeOK, MutualExclusion, NEW c \in Callers,
           NEW label \in {"connect", "registering", "disconnect"}, Writing(c, label),
           NEW callers \in [Callers -> CallerStates],
           \A r \in Callers : callers[r].at = caller[r].at,
           Unlock(c, callers)
    PROVE  MutualExclusion'
<1>1. announced' = None /\ c \notin readers' /\ caller'[c].at = "idle" /\ announced = c
  BY DEF Unlock, Writing, At, Idle
<1>2. \A r \in Callers \ {c} :
          caller[r].at \notin {"registering", "lookup", "opening", "dialed"}
  BY DEF Writing, MutualExclusion, At
<1>3. \A r \in Callers \ {c} :
          /\ r \in readers' <=> caller'[r].at \in {"lookup", "opening", "dialed"}
          /\ caller'[r].at # "registering"
  BY <1>2, UnlockAt
<1> QED
  BY <1>1, <1>3 DEF MutualExclusion, At

\* A step of one caller that takes or gives back the read lock, or neither,
\* according to where it goes.
LEMMA MoveMutex ==
    ASSUME TypeOK, MutualExclusion, NEW c \in Callers, OnlyMoves(c),
           UNCHANGED announced, caller[c].at \notin {"registering"},
           caller[c].at \in {"connect", "disconnect"} => caller'[c].at = caller[c].at,
           caller'[c].at \notin {"registering"},
           caller'[c].at \in {"lookup", "opening", "dialed"}
               => readers' = readers \cup {c}
                  /\ (announced = None \/ c \in readers),
           caller'[c].at \notin {"lookup", "opening", "dialed"}
               => readers' = readers \ {c}
    PROVE  MutualExclusion'
<1>1. \A d \in Callers : d \in readers' <=> caller'[d].at \in {"lookup", "opening", "dialed"}
  BY DEF MutualExclusion, OnlyMoves
<1>2. announced' # None => caller'[announced'].at \in {"connect", "registering", "disconnect"}
  BY DEF MutualExclusion, OnlyMoves, TypeOK
<1>3. ASSUME NEW d \in Callers, caller'[d].at = "registering"
      PROVE  announced' = d /\ readers' = {}
  BY <1>3, NotNone, ManagerAssumption DEF MutualExclusion, OnlyMoves, At
<1> QED
  BY <1>1, <1>2, <1>3 DEF MutualExclusion, At

\* The steps of one caller: those that end with Unlock and those that move it.
Unlocks(c) ==
    \/ HostConnectFails(c) \/ MuxConnectFails(c) \/ Register(c)
    \/ Disconnect(c) \/ DisconnectFails(c) \/ ReturnsEarly(c)

Crashes(c) == ConnectPanics(c) \/ DisconnectPanics(c) \/ RangeCrashes(c)

Steps(c) ==
    \/ RLock(c)
    \/ NewTransport(c) \/ RangeNext(c) \/ RangeEnds(c)
    \/ NoConnection(c) \/ Lookup(c) \/ OpenFails(c) \/ OpenStream(c)
    \/ Dial(c) \/ WebSocketStream(c) \/ CloseStream(c)
    \/ Call(c, "connect") \/ Call(c, "disconnect") \/ Call(c, "getStream") \/ CallAll(c)

LEMMA NextSplit ==
    ASSUME Next
    PROVE  \E c \in Callers : Lock(c) \/ Unlocks(c) \/ Crashes(c) \/ Steps(c)
  BY DEF Next, Works, Unlocks, Crashes, Steps

LEMMA CrashMutex ==
    ASSUME Crash
    PROVE  MutualExclusion'
<1>1. \A c \in Callers : caller'[c].at = "panicked"
  BY DEF Crash, Idle
<1> QED
  BY <1>1 DEF Crash, MutualExclusion, At

LEMMA LockMutex ==
    ASSUME TypeOK, MutualExclusion, NEW c \in Callers, Lock(c)
    PROVE  TypeOK' /\ MutualExclusion'
<1>1. TypeOK'
  BY NetworkKeptType DEF Lock, TypeOK
<1>2. \A d \in Callers : caller[d].at # "registering"
  BY ManagerAssumption DEF Lock, MutualExclusion, At
<1> QED
  BY <1>1, <1>2 DEF Lock, MutualExclusion, At

\* What Unlock is given.
LEMMA UnlocksWhat ==
    ASSUME TypeOK, NEW c \in Callers, Unlocks(c)
    PROVE  \E label \in {"connect", "registering", "disconnect"},
              callers \in [Callers -> CallerStates] :
               /\ Writing(c, label) /\ Unlock(c, callers)
               /\ \A r \in Callers : /\ callers[r].at = caller[r].at
                                      /\ callers[r].id = caller[r].id
                                      /\ callers[r].using = caller[r].using
                                      /\ callers[r].stream = caller[r].stream
<1>1. CASE Disconnects(c)
  <2> DEFINE i == caller[c].id
             callers == [r \in Callers |->
               [caller[r] EXCEPT !.seen = @ \ {i}, !.stable = @ \ {i}, !.results[i] = <<>>]]
  <2>1. callers \in [Callers -> CallerStates]
    BY ForgetType DEF TypeOK
  <2>2. \A r \in Callers : /\ callers[r].at = caller[r].at
                           /\ callers[r].id = caller[r].id
                           /\ callers[r].using = caller[r].using
                           /\ callers[r].stream = caller[r].stream
    BY DEF TypeOK, CallerStates
  <2>3. Writing(c, "disconnect") /\ Unlock(c, callers)
    BY <1>1 DEF Disconnects, Forgets
  <2> HIDE DEF callers
  <2> QED
    BY <2>1, <2>2, <2>3
<1>2. CASE HostConnectFails(c) \/ MuxConnectFails(c) \/ Register(c) \/ ReturnsEarly(c)
  BY <1>2 DEF HostConnectFails, MuxConnectFails, Register, ReturnsEarly, TypeOK
<1> QED
  BY <1>1, <1>2 DEF Unlocks, Disconnect, DisconnectFails

LEMMA UnlocksMutex ==
    ASSUME TypeOK, MutualExclusion, AllLive, NEW c \in Callers, Unlocks(c), Holds(c)
    PROVE  TypeOK' /\ MutualExclusion'
<1>1. MutualExclusion'
  BY UnlocksWhat, UnlockMutex
<1>2. CASE HostConnectFails(c)
  <2>1. /\ caller' \in [Callers -> CallerStates]
        /\ announced' = None /\ readers' \subseteq Callers
    BY <1>2, UnlockType DEF HostConnectFails, TypeOK
  <2>2. lost' \subseteq 1..opened
    BY <1>2, ConnectorType
       DEF HostConnectFails, Connector, TypeOK, Transports, Holds, Writing, At, Live
  <2> QED
    BY <1>1, <1>2, <2>1, <2>2, SameTransports DEF HostConnectFails, TypeOK
<1>3. CASE Register(c)
  BY <1>1, <1>3, RegisterType
<1>4. CASE Disconnect(c) \/ DisconnectFails(c)
  BY <1>1, <1>4, DisconnectType
<1>5. CASE ReturnsEarly(c)
  <2>1. /\ caller' \in [Callers -> CallerStates]
        /\ announced' = None /\ readers' \subseteq Callers
    BY <1>5, UnlockType DEF ReturnsEarly, TypeOK
  <2> QED
    BY <1>1, <1>5, <2>1, NetworkKeptType DEF ReturnsEarly
<1>6. CASE MuxConnectFails(c)
  <2>1. /\ caller' \in [Callers -> CallerStates]
        /\ announced' = None /\ readers' \subseteq Callers
    BY <1>6, UnlockType DEF MuxConnectFails, TypeOK
  <2>2. /\ opened' = opened + 1 /\ lost' = lost \cup {opened + 1}
        /\ UNCHANGED <<connections, connectors, shut>>
    BY <1>6 DEF MuxConnectFails
  <2>3. opened' \in Nat /\ opened' >= opened /\ opened' \in 1..opened'
    BY <2>2 DEF TypeOK
  <2>4. /\ CallerStates \subseteq CallerStates' /\ 1..opened \subseteq 1..opened'
        /\ connectors \in Seq([kind : Kinds, transport : Transports'])
    BY <2>3, MoreTransports
  <2>5. caller' \in [Callers -> CallerStates']
    BY <2>1, <2>4
  <2>6. lost' \subseteq 1..opened' /\ shut' \subseteq 1..opened'
    BY <2>2, <2>3, <2>4 DEF TypeOK
  <2>7. /\ DOMAIN connections' \subseteq Ids
        /\ \A i \in DOMAIN connections' : connections'[i] \in 1..Len(connectors')
    BY <2>2 DEF TypeOK
  <2> QED
    BY <1>1, <2>1, <2>2, <2>3, <2>4, <2>5, <2>6, <2>7 DEF TypeOK
<1> QED
  BY <1>2, <1>3, <1>4, <1>5, <1>6 DEF Unlocks

\* A step that only moves c to another state.
LEMMA OneMoves ==
    ASSUME TypeOK, NEW c \in Callers, NEW s \in CallerStates,
           caller' = [caller EXCEPT ![c] = s]
    PROVE  /\ OnlyMoves(c) /\ caller'[c] = s
           /\ caller' \in [Callers -> CallerStates]
  BY DEF OnlyMoves, TypeOK

LEMMA StepsType ==
    ASSUME TypeOK, NEW c \in Callers, Steps(c), Holds(c)
    PROVE  TypeOK' /\ OnlyMoves(c)
<1> USE CallerFields
<1>1. CASE RLock(c)
  <2> DEFINE s == [caller[c] EXCEPT !.at = "lookup"]
  <2>1. s \in CallerStates /\ caller' = [caller EXCEPT ![c] = s]
    BY <1>1 DEF RLock, Goto, CallerStates, Labels
  <2> QED
    BY <1>1, <2>1, OneMoves, NetworkKeptType DEF RLock, TypeOK
<1>2. CASE NewTransport(c)
  BY <1>2, NewTransportType DEF NewTransport, OnlyMoves, TypeOK
<1>3. CASE RangeNext(c)
  <2>1. PICK i \in DOMAIN connections :
          caller' = [caller EXCEPT ![c].at = "getStream", ![c].id = i, ![c].seen = @ \cup {i}]
    BY <1>3 DEF RangeNext
  <2> DEFINE s == [caller[c] EXCEPT !.at = "getStream", !.id = i, !.seen = @ \cup {i}]
  <2>4. i \in Ids /\ caller[c].seen \cup {i} \in SUBSET Ids
    BY DEF TypeOK
  <2>2. s \in CallerStates
    BY <2>4 DEF CallerStates, Labels
  <2>3. caller' = [caller EXCEPT ![c] = s]
    BY <2>1 DEF TypeOK
  <2> QED
    BY <1>3, <2>2, <2>3, OneMoves, NetworkKeptType DEF RangeNext, TypeOK, mutexVars
<1>4. CASE RangeEnds(c)
  BY <1>4, IdleType, OneMoves, NetworkKeptType DEF RangeEnds, TypeOK, mutexVars
<1>5. CASE NoConnection(c) \/ OpenFails(c)
  <2>1. readers' \subseteq Callers /\ caller' = [caller EXCEPT ![c] = Outcome(c, FALSE)]
    BY <1>5 DEF NoConnection, OpenFails, RUnlock, TypeOK
  <2> QED
    BY <1>5, <2>1, OutcomeType, OneMoves, NetworkKeptType DEF NoConnection, OpenFails, TypeOK
<1>6. CASE Lookup(c)
  <2> DEFINE k == connections[caller[c].id]
             s == [caller[c] EXCEPT !.at = "opening", !.using = k,
                     !.stream = IF connectors[k].kind = "websocket" THEN None
                                ELSE connectors[k].transport]
  <2>1. k \in 1..Len(connectors) /\ k \in Nat
    BY <1>6, LenProperties DEF Lookup, Finds, Known, TypeOK
  <2>2. s \in CallerStates
    BY <2>1, ConnectorType DEF CallerStates, Labels, Transports
  <2>3. caller' = [caller EXCEPT ![c] = s]
    BY <1>6 DEF Lookup, Finds
  <2> QED
    BY <1>6, <2>2, <2>3, OneMoves, NetworkKeptType DEF Lookup, Finds, TypeOK
<1>7. CASE OpenStream(c)
  <2> DEFINE s == [caller[c] EXCEPT !.at = "open"]
  <2>1. s \in CallerStates /\ caller' = [caller EXCEPT ![c] = s] /\ readers' \subseteq Callers
    BY <1>7 DEF OpenStream, Goto, RUnlock, CallerStates, Labels, TypeOK
  <2> QED
    BY <1>7, <2>1, OneMoves, NetworkKeptType DEF OpenStream, TypeOK
<1>8. CASE Dial(c)
  BY <1>8, DialType DEF Dial, Goto, OnlyMoves, TypeOK
<1>9. CASE WebSocketStream(c)
  <2> DEFINE s == [caller[c] EXCEPT !.at = "open", !.stream = Connector(c).transport]
  <2>1. s \in CallerStates
    BY <1>9, ConnectorType DEF WebSocketStream, Holds, At, Connector, CallerStates, Labels
  <2>2. caller' = [caller EXCEPT ![c] = s] /\ readers' \subseteq Callers
    BY <1>9 DEF WebSocketStream, RUnlock, TypeOK
  <2> QED
    BY <1>9, <2>1, <2>2, OneMoves, NetworkKeptType DEF WebSocketStream, TypeOK
<1>10. CASE CloseStream(c)
  <2>1. PICK ok \in BOOLEAN : caller' = [caller EXCEPT ![c] = Outcome(c, ok)]
    BY <1>10 DEF CloseStream
  <2>2. OnlyMoves(c) /\ caller' \in [Callers -> CallerStates]
    BY <2>1, OutcomeType, OneMoves
  <2>3. shut' \subseteq 1..opened
    BY <1>10 DEF CloseStream, Holds, TypeOK, Transports, At
  <2> QED
    BY <1>10, <2>2, <2>3, SameTransports DEF CloseStream, TypeOK, mutexVars
<1>11. ASSUME NEW label \in {"connect", "disconnect", "getStream"}, Call(c, label)
       PROVE  TypeOK' /\ OnlyMoves(c)
  <2>1. PICK i \in Ids : caller' = [caller EXCEPT ![c].at = label, ![c].id = i]
    BY <1>11 DEF Call
  <2> DEFINE s == [caller[c] EXCEPT !.at = label, !.id = i]
  <2>2. s \in CallerStates /\ caller' = [caller EXCEPT ![c] = s]
    BY <2>1 DEF CallerStates, Labels
  <2> QED
    BY <1>11, <2>2, OneMoves, NetworkKeptType DEF Call, TypeOK, mutexVars
<1>12. CASE CallAll(c)
  <2>1. PICK l \in {"untilError", "collecting"} :
          caller' = [caller EXCEPT ![c].at = "ranging", ![c].loop = l,
                                   ![c].stable = DOMAIN connections]
    BY <1>12 DEF CallAll
  <2> DEFINE s == [caller[c] EXCEPT !.at = "ranging", !.loop = l,
                                    !.stable = DOMAIN connections]
  <2>2. s \in CallerStates /\ caller' = [caller EXCEPT ![c] = s]
    BY <2>1 DEF CallerStates, Labels, TypeOK
  <2> QED
    BY <1>12, <2>2, OneMoves, NetworkKeptType DEF CallAll, TypeOK, mutexVars
<1> QED
  BY <1>1, <1>2, <1>3, <1>4, <1>5, <1>6, <1>7, <1>8, <1>9, <1>10, <1>11, <1>12 DEF Steps

LEMMA StepsMutex ==
    ASSUME TypeOK, MutualExclusion, NEW c \in Callers, Steps(c), Holds(c)
    PROVE  MutualExclusion'
<1> USE StepsType, CallerFields
<1>1. CASE RLock(c)
  <2>1. caller'[c].at = "lookup" /\ caller[c].at = "getStream"
    BY <1>1 DEF RLock, Goto, At, TypeOK, CallerStates
  <2> QED
    BY <1>1, <2>1, MoveMutex DEF RLock
<1>2. CASE NewTransport(c)
  <2>1. caller'[c].at = "registering" /\ announced = c /\ readers = {}
    BY <1>2 DEF NewTransport, Writing, TypeOK, CallerStates
  <2>2. caller[c].at \notin {"lookup", "opening", "dialed"}
    BY <1>2 DEF NewTransport, Writing, At
  <2>3. UNCHANGED <<announced, readers>>
    BY <1>2 DEF NewTransport, mutexVars
  <2> QED
    BY <2>1, <2>2, <2>3 DEF MutualExclusion, OnlyMoves, At
<1>3. CASE RangeNext(c) \/ RangeEnds(c) \/ CallAll(c)
           \/ Call(c, "connect") \/ Call(c, "disconnect") \/ Call(c, "getStream")
  <2>1. /\ caller'[c].at \in {"idle", "connect", "disconnect", "getStream", "ranging"}
        /\ caller[c].at \in {"idle", "ranging"}
    <3>1. CASE RangeNext(c)
      BY <3>1 DEF RangeNext, At, TypeOK, CallerStates
    <3>2. CASE RangeEnds(c)
      BY <3>2 DEF RangeEnds, At, TypeOK, Idle
    <3>3. CASE CallAll(c)
      BY <3>3 DEF CallAll, At, TypeOK, CallerStates
    <3>4. CASE Call(c, "connect") \/ Call(c, "disconnect") \/ Call(c, "getStream")
      BY <3>4 DEF Call, At, TypeOK, CallerStates
    <3> QED
      BY <1>3, <3>1, <3>2, <3>3, <3>4
  <2>2. UNCHANGED <<announced, readers>>
    BY <1>3 DEF RangeNext, RangeEnds, CallAll, Call, mutexVars
  <2>3. readers' = readers \ {c}
    BY <2>1, <2>2 DEF MutualExclusion
  <2> QED
    BY <2>1, <2>2, <2>3, MoveMutex
<1>4. CASE NoConnection(c) \/ OpenFails(c)
  <2>1. caller'[c].at \in {"idle", "ranging"} /\ caller[c].at \in {"lookup", "opening"}
    BY <1>4, OutcomeAt DEF NoConnection, OpenFails, At, TypeOK
  <2> QED
    BY <1>4, <2>1, MoveMutex DEF NoConnection, OpenFails, RUnlock
<1>5. CASE Lookup(c) \/ Dial(c)
  <2>1. caller'[c].at \in {"opening", "dialed"} /\ caller[c].at \in {"lookup", "opening"}
    BY <1>5 DEF Lookup, Finds, Dial, Goto, At, TypeOK, CallerStates
  <2>2. UNCHANGED <<announced, readers>> /\ c \in readers
    BY <1>5, <2>1 DEF Lookup, Finds, Dial, mutexVars, MutualExclusion
  <2>3. readers' = readers \cup {c}
    BY <2>2
  <2> QED
    BY <2>1, <2>2, <2>3, MoveMutex
<1>6. CASE OpenStream(c) \/ WebSocketStream(c)
  <2>1. caller'[c].at = "open" /\ caller[c].at \in {"opening", "dialed"}
    BY <1>6 DEF OpenStream, WebSocketStream, Goto, At, TypeOK, CallerStates
  <2> QED
    BY <1>6, <2>1, MoveMutex DEF OpenStream, WebSocketStream, RUnlock
<1>7. CASE CloseStream(c)
  <2>1. caller'[c].at \in {"idle", "ranging"} /\ caller[c].at = "open"
    BY <1>7, OutcomeAt DEF CloseStream, At, TypeOK
  <2>2. UNCHANGED <<announced, readers>>
    BY <1>7 DEF CloseStream, mutexVars
  <2>3. readers' = readers \ {c}
    BY <2>1, <2>2 DEF MutualExclusion
  <2> QED
    BY <2>1, <2>2, <2>3, MoveMutex
<1> QED
  BY <1>1, <1>2, <1>3, <1>4, <1>5, <1>6, <1>7 DEF Steps
-----------------------------------------------------------------------------
(* Connectors, their transports, and what the callers hold.                *)

\* The host or mux connection of a registered connector.
Registered(x) ==
    \E i \in DOMAIN connections :
        /\ connectors[connections[i]].kind # "websocket"
        /\ connectors[connections[i]].transport = x

\* What a caller is about to register, to make a stream of or to close.
InHand(d, x) ==
    \/ (At(d, "registering") \/ At(d, "dialed")) /\ Connector(d).transport = x
    \/ At(d, "open") /\ IsWebsocket(d) /\ caller[d].stream = x

\* NothingElseLeaks, transport by transport.
Accounted ==
    \A x \in 1..opened :
        x \in lost <=> x \notin shut /\ ~Registered(x) /\ \A d \in Callers : ~InHand(d, x)

LEMMA ClosableOf ==
    /\ \A x : x \in Closable <=> Registered(x) \/ \E d \in Callers : InHand(d, x)
    /\ \A x : x \in Closable' <=> Registered(x)' \/ \E d \in Callers : InHand(d, x)'
  BY DEF Closable, Streams, Registered, InHand

LEMMA AccountedFor ==
    /\ TypeOK => (NothingElseLeaks <=> Accounted)
    /\ TypeOK' => (NothingElseLeaks' <=> Accounted')
<1>1. ASSUME TypeOK
      PROVE  NothingElseLeaks <=> Accounted
  <2>1. None \notin 1..opened /\ lost \subseteq 1..opened
    BY <1>1, NotNone DEF TypeOK
  <2> QED
    BY <2>1, ClosableOf DEF NothingElseLeaks, Accounted
<1>2. ASSUME TypeOK'
      PROVE  NothingElseLeaks' <=> Accounted'
  <2>1. None \notin 1..opened' /\ lost' \subseteq 1..opened'
    BY <1>2, NotNone DEF TypeOK
  <2> QED
    BY <2>1, ClosableOf DEF NothingElseLeaks, Accounted
<1> QED
  BY <1>1, <1>2

Owned == OneOwner /\ AllLive /\ NoneLost /\ Accounted

AllHold == \A c \in Callers : Holds(c)

\* A caller that is not moved holds what it held if nothing of the network or
\* of the registered connectors changed.
LEMMA NetworkKept ==
    ASSUME TypeOK, Owned, UNCHANGED <<connections, networkVars>>
    PROVE  /\ OneOwner' /\ AllLive' /\ NoneLost'
           /\ \A d \in Callers : Holds(d) /\ caller'[d] = caller[d] => Holds(d)'
           /\ \A d \in Callers : caller'[d] = caller[d] =>
                  \A x : InHand(d, x) <=> InHand(d, x)'
           /\ (\A d \in Callers : \A x : InHand(d, x) <=> InHand(d, x)') => Accounted'
<1>1. OneOwner' /\ AllLive' /\ NoneLost'
  BY DEF Owned, OneOwner, AllLive, NoneLost, Live, networkVars
<1>2. \A d \in Callers : Holds(d) /\ caller'[d] = caller[d] => Holds(d)'
  BY DEF Holds, networkVars, At, Connector, IsWebsocket, Known, Live
<1>3. \A d \in Callers : caller'[d] = caller[d] => \A x : InHand(d, x) <=> InHand(d, x)'
  BY DEF InHand, networkVars, At, Connector, IsWebsocket
<1>4. \A x : Registered(x) <=> Registered(x)'
  BY DEF Registered, networkVars
<1>5. ASSUME \A d \in Callers : \A x : InHand(d, x) <=> InHand(d, x)'
      PROVE  Accounted'
  BY <1>4, <1>5 DEF Owned, Accounted, networkVars
<1> QED
  BY <1>1, <1>2, <1>3, <1>5

LEMMA QuietOwned ==
    ASSUME TypeOK, Owned, AllHold, NEW c \in Callers, OnlyMoves(c),
           UNCHANGED <<connections, networkVars>>, Holds(c)',
           \A x : InHand(c, x) <=> InHand(c, x)'
    PROVE  Owned' /\ AllHold'
<1>1. \A d \in Callers : \A x : InHand(d, x) <=> InHand(d, x)'
  BY NetworkKept DEF OnlyMoves
<1>2. \A d \in Callers : Holds(d)'
  BY NetworkKept DEF AllHold, OnlyMoves
<1> QED
  BY <1>1, <1>2, NetworkKept DEF Owned, AllHold

LEMMA QuietSteps ==
    ASSUME TypeOK, Owned, AllHold, NEW c \in Callers, Steps(c),
           ~NewTransport(c), ~Dial(c), ~CloseStream(c)
    PROVE  Owned' /\ AllHold'
<1> USE CallerFields
<1>1. OnlyMoves(c) /\ TypeOK'
  BY StepsType DEF AllHold
<1>2. UNCHANGED <<connections, networkVars>>
  BY DEF Steps, RLock, RangeNext, RangeEnds, NoConnection, Lookup, Finds, OpenFails,
         OpenStream, WebSocketStream, Call, CallAll
<1>3. \A x : InHand(c, x) <=> InHand(c, x)'
  <2>1. CASE WebSocketStream(c)
    <3> DEFINE k == caller[c].using
    <3>1. caller[c].at = "dialed" /\ connectors[k].kind = "websocket"
      BY <2>1 DEF WebSocketStream, At, AllHold, Holds, IsWebsocket, Connector
    <3>2. /\ caller'[c].at = "open" /\ caller'[c].using = k
          /\ caller'[c].stream = connectors[k].transport
      BY <2>1 DEF WebSocketStream, TypeOK, CallerStates, Connector
    <3>3. connectors' = connectors
      BY <1>2 DEF networkVars
    <3> QED
      BY <3>1, <3>2, <3>3 DEF InHand, At, Connector, IsWebsocket
  <2>2. CASE OpenStream(c)
    <3>1. caller[c].at = "opening" /\ connectors[caller[c].using].kind # "websocket"
      BY <2>2 DEF OpenStream, At, IsWebsocket, Connector
    <3>2. caller'[c].at = "open" /\ caller'[c].using = caller[c].using
      BY <2>2 DEF OpenStream, Goto, TypeOK, CallerStates
    <3>3. connectors' = connectors
      BY <1>2 DEF networkVars
    <3> QED
      BY <3>1, <3>2, <3>3 DEF InHand, At, Connector, IsWebsocket
  <2>3. CASE ~WebSocketStream(c) /\ ~OpenStream(c)
    <3>1. caller[c].at \notin {"registering", "dialed", "open"}
      BY <2>3 DEF Steps, RLock, RangeNext, RangeEnds, NoConnection, Lookup, Finds,
                  OpenFails, Call, CallAll, At
    <3>2. caller'[c].at \notin {"registering", "dialed", "open"}
      <4>1. CASE RLock(c)
        BY <4>1 DEF RLock, Goto, TypeOK, CallerStates
      <4>2. CASE RangeNext(c)
        BY <4>2 DEF RangeNext, TypeOK, CallerStates
      <4>3. CASE RangeEnds(c)
        BY <4>3 DEF RangeEnds, TypeOK, Idle
      <4>4. CASE NoConnection(c) \/ OpenFails(c)
        BY <4>4, OutcomeAt DEF NoConnection, OpenFails, TypeOK
      <4>5. CASE Lookup(c)
        BY <4>5 DEF Lookup, Finds, TypeOK, CallerStates
      <4>6. CASE Call(c, "connect") \/ Call(c, "disconnect") \/ Call(c, "getStream")
        BY <4>6 DEF Call, TypeOK, CallerStates
      <4>7. CASE CallAll(c)
        BY <4>7 DEF CallAll, TypeOK, CallerStates
      <4> QED
        BY <2>3, <4>1, <4>2, <4>3, <4>4, <4>5, <4>6, <4>7 DEF Steps
    <3> QED
      BY <3>1, <3>2 DEF InHand, At
  <2> QED
    BY <2>1, <2>2, <2>3
<1>4. Holds(c)'
  <2>1. CASE RLock(c)
    <3>1. caller'[c].at = "lookup" /\ caller'[c].id \in Ids
      BY <2>1 DEF RLock, Goto, At, TypeOK, CallerStates, AllHold, Holds
    <3> QED
      BY <3>1 DEF Holds, At
  <2>2. CASE RangeNext(c)
    <3>1. PICK i \in DOMAIN connections :
            caller' = [caller EXCEPT ![c].at = "getStream", ![c].id = i,
                                     ![c].seen = @ \cup {i}]
      BY <2>2 DEF RangeNext
    <3>2. caller'[c].at = "getStream" /\ caller'[c].id \in Ids
      BY <3>1 DEF TypeOK, CallerStates
    <3> QED
      BY <3>2 DEF Holds, At
  <2>3. CASE RangeEnds(c) \/ CallAll(c) \/ NoConnection(c) \/ OpenFails(c)
    <3>1. caller'[c].at \in {"idle", "ranging"}
      <4>1. CASE RangeEnds(c)
        BY <4>1 DEF RangeEnds, TypeOK, Idle
      <4>2. CASE CallAll(c)
        BY <4>2 DEF CallAll, TypeOK, CallerStates
      <4>3. CASE NoConnection(c) \/ OpenFails(c)
        BY <4>3, OutcomeAt DEF NoConnection, OpenFails, TypeOK
      <4> QED
        BY <2>3, <4>1, <4>2, <4>3
    <3> QED
      BY <3>1 DEF Holds, At
  <2>4. CASE Lookup(c)
    <3> DEFINE k == connections[caller[c].id]
    <3>1. /\ caller'[c].at = "opening" /\ caller'[c].id = caller[c].id
          /\ caller'[c].using = k
          /\ connectors[k].kind # "websocket" =>
                 caller'[c].stream = connectors[k].transport
      BY <2>4 DEF Lookup, Finds, TypeOK, CallerStates
    <3>2. k \in 1..Len(connectors) /\ caller[c].id \in DOMAIN connections
          /\ caller[c].id \in Ids
      BY <2>4 DEF Lookup, Finds, Known, TypeOK
    <3> HIDE DEF k
    <3>3. connectors' = connectors /\ connections' = connections
      BY <1>2 DEF networkVars
    <3>4. k = connections[caller[c].id]
      BY DEF k
    <3> QED
      BY <3>1, <3>2, <3>3, <3>4 DEF Holds, At, Known, Connector, IsWebsocket
  <2>5. CASE OpenStream(c)
    <3>1. /\ caller'[c].at = "open" /\ caller'[c].using = caller[c].using
          /\ caller[c].using \in 1..Len(connectors)
          /\ connectors[caller[c].using].kind # "websocket"
      BY <2>5 DEF OpenStream, Goto, At, TypeOK, CallerStates, AllHold, Holds,
                  IsWebsocket, Connector
    <3>2. connectors' = connectors
      BY <1>2 DEF networkVars
    <3> QED
      BY <3>1, <3>2 DEF Holds, At, Connector, IsWebsocket
  <2>6. CASE WebSocketStream(c)
    <3> DEFINE k == caller[c].using
    <3>1. /\ k \in 1..Len(connectors) /\ connectors[k].kind = "websocket"
          /\ connectors[k].transport # None
      BY <2>6 DEF WebSocketStream, At, AllHold, Holds, IsWebsocket, Connector
    <3>2. /\ caller'[c].at = "open" /\ caller'[c].using = k
          /\ caller'[c].stream = connectors[k].transport
      BY <2>6 DEF WebSocketStream, TypeOK, CallerStates, Connector
    <3>3. connectors' = connectors
      BY <1>2 DEF networkVars
    <3>4. \A j \in 1..Len(connectors) : connectors[j].kind # "websocket" =>
              connectors[j].transport # connectors[k].transport
      BY <3>1 DEF Owned, OneOwner
    <3> QED
      BY <3>1, <3>2, <3>3, <3>4 DEF Holds, At, Connector, IsWebsocket
  <2>7. CASE Call(c, "connect") \/ Call(c, "disconnect") \/ Call(c, "getStream")
    <3>1. caller'[c].at \in {"connect", "disconnect", "getStream"} /\ caller'[c].id \in Ids
      BY <2>7 DEF Call, TypeOK, CallerStates
    <3> QED
      BY <3>1 DEF Holds, At
  <2> QED
    BY <2>1, <2>2, <2>3, <2>4, <2>5, <2>6, <2>7 DEF Steps
<1> QED
  BY <1>1, <1>2, <1>3, <1>4, QuietOwned

\* The transport of a connector in use is a transport of the network.
LEMMA NewTransportOwned ==
    ASSUME TypeOK, MutualExclusion, Owned, AllHold, NEW c \in Callers, NewTransport(c)
    PROVE  Owned' /\ AllHold'
<1> DEFINE n == Len(connectors)
<1>1. PICK t \in Nat \cup {None}, k \in Kinds :
        /\ \/ k = "websocket" /\ t = None /\ opened' = opened
           \/ k # "websocket" /\ t = opened + 1 /\ opened' = opened + 1
        /\ connectors' = Append(connectors, [kind |-> k, transport |-> t])
  <2>1. PICK k \in Kinds :
          LET t == IF k = "websocket" THEN None ELSE opened + 1
          IN  /\ opened' = IF t = None THEN opened ELSE t
              /\ connectors' = Append(connectors, [kind |-> k, transport |-> t])
    BY DEF NewTransport
  <2>2. CASE k = "websocket"
    BY <2>1, <2>2
  <2>3. CASE k # "websocket"
    <3>1. opened + 1 \in Nat /\ opened + 1 # None
      BY NotNone DEF TypeOK
    <3> QED
      BY <2>1, <2>3, <3>1
  <2> QED
    BY <2>2, <2>3
<1>2. /\ n \in Nat /\ Len(connectors') = n + 1
      /\ \A j \in 1..n : connectors'[j] = connectors[j]
      /\ connectors'[n + 1] = [kind |-> k, transport |-> t]
  BY <1>1, AppendProperties, LenProperties DEF TypeOK
<1>3. \A j \in 1..n : connectors[j].transport \in (1..opened) \cup {None}
  BY ConnectorType DEF Transports
<1>4. /\ caller'[c].at = "registering" /\ caller'[c].using = n + 1
      /\ caller'[c].id = caller[c].id /\ caller[c].id \in Ids
      /\ OnlyMoves(c) /\ UNCHANGED <<connections, shut, lost>>
  BY DEF NewTransport, OnlyMoves, TypeOK, CallerStates, AllHold, Holds, Writing, At
<1>5. \A d \in Callers \ {c} : caller[d].at # "registering"
  BY DEF NewTransport, Writing, MutualExclusion, At
<1>6. \A i \in DOMAIN connections : connections[i] \in 1..n
  BY DEF TypeOK
<1>7. /\ opened \in Nat /\ shut \subseteq 1..opened
      /\ t # None => t = opened + 1 /\ t \notin shut
  BY <1>1 DEF TypeOK
<1>8. Len(connectors') = n + 1 /\ n \in Nat
  BY <1>2
<1> HIDE DEF n
<1>9. OneOwner'
  <2>1. ASSUME NEW j \in 1..(n + 1), NEW m \in 1..(n + 1), j # m,
               connectors'[j].transport # None
        PROVE  connectors'[j].transport # connectors'[m].transport
    <3>1. CASE j \in 1..n /\ m \in 1..n
      BY <1>2, <2>1, <3>1 DEF Owned, OneOwner, n
    <3>2. CASE j = n + 1 /\ m \in 1..n
      BY <1>2, <1>3, <1>7, <2>1, <3>2
    <3>3. CASE j \in 1..n /\ m = n + 1
      BY <1>2, <1>3, <1>7, <2>1, <3>3
    <3> QED
      BY <1>8, <2>1, <3>1, <3>2, <3>3
  <2> QED
    BY <1>4, <1>8, <2>1 DEF Owned, OneOwner
<1>10. AllLive'
  BY <1>2, <1>4, <1>6 DEF Owned, AllLive, Live
<1>11. Accounted'
  <2>1. \A x : Registered(x) <=> Registered(x)'
    <3>1. \A i \in DOMAIN connections : connectors'[connections[i]] = connectors[connections[i]]
      BY <1>2, <1>6
    <3> QED
      BY <1>4, <3>1 DEF Registered
  <2>2. ASSUME NEW d \in Callers \ {c}, NEW x
        PROVE  InHand(d, x) <=> InHand(d, x)'
    <3>1. caller'[d] = caller[d] /\ caller[d].at \notin {"registering", "dialed"}
      BY <1>4, <1>5 DEF OnlyMoves, NewTransport, Writing, MutualExclusion
    <3>2. caller[d].at = "open" => connectors'[caller[d].using] = connectors[caller[d].using]
      BY <1>2 DEF AllHold, Holds, n
    <3> QED
      BY <3>1, <3>2 DEF InHand, At, IsWebsocket, Connector
  <2>3. \A x : ~InHand(c, x) /\ (InHand(c, x)' <=> x = t)
    BY <1>2, <1>4 DEF InHand, At, Connector, NewTransport, Writing
  <2>4. ASSUME NEW x \in 1..opened', x \notin 1..opened
        PROVE  x = t /\ x \notin lost
    BY <1>1, <1>7, <2>4, NotNone DEF TypeOK
  <2>5. ASSUME NEW x \in 1..opened
        PROVE  x # t
    BY <1>7, <2>5, NotNone
  <2>6. ASSUME NEW x \in 1..opened'
        PROVE  x \in lost' <=> /\ x \notin shut' /\ ~Registered(x)'
                              /\ \A d \in Callers : ~InHand(d, x)'
    <3>1. CASE x \in 1..opened
      BY <1>4, <2>1, <2>2, <2>3, <2>5, <3>1 DEF Owned, Accounted
    <3>2. CASE x \notin 1..opened
      BY <1>4, <2>3, <2>4, <2>6, <3>2
    <3> QED
      BY <3>1, <3>2
  <2> QED
    BY <2>6 DEF Accounted
<1>14. NoneLost'
  <2>1. t \notin lost
    BY <1>7, NotNone DEF TypeOK
  <2>2. ASSUME NEW j \in 1..(n + 1), connectors'[j].kind = "websocket"
        PROVE  connectors'[j].transport \notin lost
    <3>1. CASE j \in 1..n
      BY <1>2, <2>2, <3>1 DEF Owned, NoneLost, n
    <3>2. CASE j = n + 1
      BY <1>2, <2>1, <3>2
    <3> QED
      BY <1>8, <2>2, <3>1, <3>2
  <2> QED
    BY <1>4, <1>8, <2>2 DEF NoneLost

<1>12. Holds(c)'
  <2>1. connectors'[n + 1].kind # "websocket" =>
            connectors'[n + 1].transport \notin shut' \cup {None}
    BY <1>1, <1>2, <1>4, <1>7, NotNone
  <2>2. \A i \in DOMAIN connections' : connections'[i] # n + 1
    BY <1>4, <1>6, <1>8
  <2>3. connectors'[n + 1].kind = "websocket" => connectors'[n + 1].transport = None
    BY <1>1, <1>2
  <2> QED
    BY <1>4, <1>8, <2>1, <2>2, <2>3 DEF Holds, At, Live, IsWebsocket, Connector
<1>13. ASSUME NEW d \in Callers \ {c}
       PROVE  Holds(d)'
  <2>1. Holds(d) /\ caller'[d] = caller[d] /\ caller[d].at # "registering"
    BY <1>4, <1>5 DEF AllHold, OnlyMoves
  <2>2. caller[d].at \notin {"opening", "dialed"}
    BY <1>13 DEF NewTransport, Writing, MutualExclusion
  <2>3. CASE At(d, "open")
    <3>1. caller[d].using \in 1..n /\ caller[d].stream \in Transports
      BY <2>1, <2>3, CallerFields DEF Holds, At, n
    <3>2. connectors'[caller[d].using] = connectors[caller[d].using]
      BY <1>2, <3>1
    <3>3. ASSUME caller[d].stream # None, NEW j \in 1..(n + 1),
                 connectors'[j].kind # "websocket", connectors[caller[d].using].kind = "websocket"
          PROVE  connectors'[j].transport # caller[d].stream
      BY <1>2, <1>7, <2>1, <2>3, <3>1, <3>3 DEF Holds, At, n, IsWebsocket, Connector, Transports
    <3> QED
      BY <1>8, <2>1, <2>3, <3>1, <3>2, <3>3 DEF Holds, At, IsWebsocket, Connector
  <2>4. CASE ~At(d, "open")
    BY <2>1, <2>2, <2>4 DEF Holds, At
  <2> QED
    BY <2>3, <2>4
<1> QED
  BY <1>9, <1>10, <1>11, <1>12, <1>13, <1>14 DEF Owned, AllHold

LEMMA DialOwned ==
    ASSUME TypeOK, MutualExclusion, Owned, AllHold, NEW c \in Callers, Dial(c)
    PROVE  Owned' /\ AllHold'
<1> DEFINE k == caller[c].using
<1>1. /\ k \in 1..Len(connectors) /\ connectors[k].kind = "websocket"
      /\ caller[c].id \in DOMAIN connections /\ connections[caller[c].id] = k
  BY DEF Dial, At, AllHold, Holds, IsWebsocket, Connector, Known
<1>2. /\ opened' = opened + 1 /\ opened' \in Nat /\ opened' # None
      /\ \A j \in 1..Len(connectors) : connectors[j].transport # opened'
      /\ \A d \in Callers : caller[d].stream # opened'
  <2>1. opened \in Nat /\ opened' = opened + 1
    BY DEF Dial, TypeOK
  <2>2. opened' # None /\ opened' \notin Transports
    BY <2>1, NotNone DEF Transports
  <2> QED
    BY <2>1, <2>2, ConnectorType, CallerFields
<1>3. /\ Len(connectors') = Len(connectors) /\ connectors'[k].transport = opened'
      /\ \A j \in 1..Len(connectors) :
             /\ connectors'[j].kind = connectors[j].kind
             /\ j # k => connectors'[j] = connectors[j]
  <2>1. opened' \in Transports' /\ connectors \in Seq([kind : Kinds, transport : Transports'])
    BY <1>2, MoreTransports DEF Transports, TypeOK
  <2> QED
    BY <1>1, <2>1, Retarget DEF Dial
<1>4. /\ caller'[c].at = "dialed" /\ caller'[c].using = k /\ caller'[c].id = caller[c].id
      /\ OnlyMoves(c) /\ UNCHANGED <<connections, shut>>
      /\ lost' = lost \cup ({connectors[k].transport} \ (shut \cup Streams \cup {None}))
  BY DEF Dial, Goto, OnlyMoves, TypeOK, CallerStates, Connector
<1>5. \A d \in Callers : caller[d].at # "registering"
  BY DEF Dial, MutualExclusion, At
<1>6. \A i \in DOMAIN connections : connections[i] \in 1..Len(connectors)
  BY DEF TypeOK
<1>7. caller[c].id \in Ids
  BY DEF Dial, At, AllHold, Holds
<1> HIDE DEF k
<1>9. OneOwner'
  BY <1>1, <1>2, <1>3, <1>4 DEF Owned, OneOwner
<1>10. AllLive'
  BY <1>1, <1>3, <1>4, <1>6 DEF Owned, AllLive, Live
<1>11. Accounted'
  <2>0. PICK old : old = connectors[k].transport
    OBVIOUS
  <2>1. \A x : Registered(x) <=> Registered(x)'
    <3>1. \A j \in 1..Len(connectors) :
              /\ connectors'[j].kind = connectors[j].kind
              /\ connectors[j].kind # "websocket" => connectors'[j] = connectors[j]
      BY <1>1, <1>3
    <3> QED
      BY <1>4, <1>6, <3>1 DEF Registered
  <2>2. ~Registered(old) \/ old = None
    BY <2>0, <1>1, <1>6 DEF Registered, Owned, OneOwner
  <2>3. \A x : ~InHand(c, x) /\ (InHand(c, x)' <=> x = opened')
    BY <1>3, <1>4 DEF InHand, At, Connector, Dial
  <2>4. ASSUME NEW d \in Callers \ {c}
        PROVE  /\ caller'[d] = caller[d] /\ caller[d].at # "registering"
               /\ caller[d].at \in {"dialed", "open"} =>
                      /\ caller[d].using \in 1..Len(connectors)
                      /\ IsWebsocket(d)' <=> IsWebsocket(d)
               /\ caller[d].at = "dialed" =>
                      Connector(d)'.transport = IF caller[d].using = k THEN opened'
                                                ELSE Connector(d).transport
    BY <1>3, <1>4, <1>5 DEF OnlyMoves, AllHold, Holds, IsWebsocket, Connector
  <2>5. ASSUME NEW d \in Callers \ {c}, NEW x, x # old, x # opened'
        PROVE  InHand(d, x) <=> InHand(d, x)'
    <3>1. CASE caller[d].at = "dialed"
      <4>1. CASE caller[d].using = k
        BY <2>0, <2>4, <2>5, <3>1, <4>1 DEF InHand, At, Connector
      <4>2. CASE caller[d].using # k
        BY <2>4, <3>1, <4>2 DEF InHand, At
      <4> QED
        BY <4>1, <4>2
    <3>2. CASE caller[d].at # "dialed"
      BY <2>4, <3>2 DEF InHand, At
    <3> QED
      BY <3>1, <3>2
  <2>6. ASSUME old # None
        PROVE  (\E d \in Callers : InHand(d, old)') <=> old \in Streams
    <3>1. old # opened'
      BY <1>1, <1>2, <2>0
    <3>2. ASSUME NEW d \in Callers \ {c}, InHand(d, old)'
          PROVE  old \in Streams
      <4>1. caller[d].at # "dialed"
        <5>1. ASSUME caller[d].at = "dialed", caller[d].using # k
              PROVE  Connector(d).transport # old
          BY <1>1, <2>0, <2>4, <2>6, <5>1 DEF Connector, Owned, OneOwner
        <5> QED
          BY <2>4, <3>1, <3>2, <5>1 DEF InHand, At
      <4>2. caller[d].at = "open" /\ IsWebsocket(d) /\ caller[d].stream = old
        BY <2>4, <3>2, <4>1 DEF InHand, At
      <4> QED
        BY <4>2 DEF Streams, At
    <3>3. ASSUME old \in Streams
          PROVE  \E d \in Callers : InHand(d, old)'
      <4>1. PICK d \in Callers : At(d, "open") /\ IsWebsocket(d) /\ caller[d].stream = old
        BY <3>3 DEF Streams
      <4>2. d # c
        BY <4>1 DEF Dial, At
      <4> QED
        BY <2>4, <4>1, <4>2 DEF InHand, At
    <3> QED
      BY <2>3, <3>1, <3>2, <3>3
  <2>7. old \in Streams => \E d \in Callers : InHand(d, old)
    BY DEF Streams, InHand
  <2>8. ASSUME NEW x \in 1..opened, x # old
        PROVE  x \in lost' <=> /\ x \notin shut' /\ ~Registered(x)'
                              /\ \A d \in Callers : ~InHand(d, x)'
    <3>1. x # opened'
      BY <1>2 DEF TypeOK
    <3> QED
      BY <1>4, <2>0, <2>1, <2>3, <2>5, <2>8, <3>1 DEF Owned, Accounted
  <2>9. ASSUME old \in 1..opened
        PROVE  old \in lost' <=> /\ old \notin shut' /\ ~Registered(old)'
                                /\ \A d \in Callers : ~InHand(d, old)'
    <3>1. old # None
      BY <2>9, NotNone DEF TypeOK
    <3>2. old \in lost' <=> old \in lost \/ old \notin shut \cup Streams
      BY <1>4, <2>0, <3>1
    <3>3. ~Registered(old)' /\ ((\E d \in Callers : InHand(d, old)') <=> old \in Streams)
      BY <2>1, <2>2, <2>6, <3>1
    <3>4. old \in lost => old \notin shut \cup Streams
      BY <2>7, <2>9 DEF Owned, Accounted
    <3> QED
      BY <1>4, <3>2, <3>3, <3>4
  <2>10. opened' \notin lost'
    <3>1. opened' \notin lost /\ old # opened'
      BY <1>1, <1>2, <2>0 DEF TypeOK
    <3> QED
      BY <1>4, <2>0, <3>1
  <2>11. \A x \in 1..opened' : x = opened' \/ x \in 1..opened
    BY <1>2 DEF TypeOK
  <2> QED
    BY <2>3, <2>8, <2>9, <2>10, <2>11 DEF Accounted
<1>14. NoneLost'
  <2>1. opened' \notin lost /\ opened' # connectors[k].transport
    BY <1>1, <1>2 DEF TypeOK
  <2>2. ASSUME NEW j \in 1..Len(connectors), connectors'[j].kind = "websocket"
        PROVE  connectors'[j].transport \notin lost'
    <3>1. CASE j = k
      BY <1>3, <1>4, <2>1, <3>1
    <3>2. CASE j # k
      <4>1. connectors'[j] = connectors[j] /\ connectors[j].transport \notin lost
        BY <1>3, <2>2, <3>2 DEF Owned, NoneLost
      <4>2. connectors[k].transport # None => connectors[k].transport # connectors[j].transport
        BY <1>1, <3>2 DEF Owned, OneOwner
      <4> QED
        BY <1>4, <4>1, <4>2
    <3> QED
      BY <3>1, <3>2
  <2> QED
    BY <1>3, <2>2 DEF NoneLost

<1>12. Holds(c)'
  BY <1>1, <1>2, <1>3, <1>4, <1>7 DEF Holds, At, Known, IsWebsocket, Connector
<1>13. ASSUME NEW d \in Callers \ {c}
       PROVE  Holds(d)'
  <2>1. Holds(d) /\ caller'[d] = caller[d] /\ caller[d].at # "registering"
    BY <1>4, <1>5 DEF AllHold, OnlyMoves
  <2>2. CASE caller[d].at \in {"opening", "dialed"}
    BY <1>1, <1>2, <1>3, <1>4, <2>1, <2>2 DEF Holds, At, Known, IsWebsocket, Connector
  <2>3. CASE At(d, "open")
    <3>1. caller[d].using \in 1..Len(connectors)
      BY <2>1, <2>3 DEF Holds, At
    <3>2. \A j \in 1..Len(connectors) :
              connectors'[j].kind # "websocket" => connectors'[j] = connectors[j]
      BY <1>1, <1>3
    <3> QED
      BY <1>3, <2>1, <2>3, <3>1, <3>2 DEF Holds, At, IsWebsocket, Connector
  <2>4. CASE caller[d].at \notin {"opening", "dialed", "open"}
    BY <2>1, <2>4 DEF Holds, At
  <2> QED
    BY <2>2, <2>3, <2>4 DEF At
<1> QED
  BY <1>9, <1>10, <1>11, <1>12, <1>13, <1>14 DEF Owned, AllHold

LEMMA CloseStreamOwned ==
    ASSUME TypeOK, Owned, AllHold, NEW c \in Callers, CloseStream(c)
    PROVE  Owned' /\ AllHold'
<1>1. PICK ok \in BOOLEAN : caller' = [caller EXCEPT ![c] = Outcome(c, ok)]
  BY DEF CloseStream
<1>2. caller'[c].at \in {"idle", "ranging"} /\ OnlyMoves(c)
  BY <1>1, OutcomeAt DEF OnlyMoves, TypeOK
<1>3. UNCHANGED <<connections, connectors, opened, lost>>
  BY DEF CloseStream
<1>4. shut \subseteq shut' /\ \A k \in 1..Len(connectors) : Live(k) => Live(k)'
  BY DEF CloseStream, AllHold, Holds, At, Live, IsWebsocket
<1>5. OneOwner'
  BY <1>3 DEF Owned, OneOwner
<1>6. AllLive'
  <2>1. ASSUME NEW i \in DOMAIN connections
        PROVE  Live(connections[i])'
    BY <1>3, <1>4 DEF Owned, AllLive, TypeOK
  <2> QED
    BY <1>3, <2>1 DEF AllLive
<1>7. Accounted'
  <2> DEFINE t == caller[c].stream
  <2>1. \A x : Registered(x) <=> Registered(x)'
    BY <1>3 DEF Registered
  <2>2. \A d \in Callers \ {c} : \A x : InHand(d, x) <=> InHand(d, x)'
    BY <1>2, <1>3 DEF InHand, OnlyMoves, At, IsWebsocket, Connector
  <2>3. \A x : ~InHand(c, x)'
    BY <1>2 DEF InHand, At
  <2>4. CASE IsWebsocket(c)
    <3>1. shut' = shut \cup {t} /\ (\A x : InHand(c, x) <=> x = t)
      BY <2>4 DEF CloseStream, InHand, At
    <3> HIDE DEF t
    <3>2. t \in 1..opened => t \notin lost
      BY <3>1 DEF Owned, Accounted
    <3>3. ASSUME NEW x \in 1..opened
          PROVE  x \in lost <=> /\ x \notin shut' /\ ~Registered(x)'
                               /\ \A d \in Callers : ~InHand(d, x)'
      BY <2>1, <2>2, <2>3, <3>1, <3>2 DEF Owned, Accounted
    <3> QED
      BY <1>3, <3>3 DEF Accounted
  <2>5. CASE ~IsWebsocket(c)
    <3>1. shut' = shut /\ \A x : ~InHand(c, x)
      BY <2>5 DEF CloseStream, InHand, At
    <3> QED
      BY <1>3, <2>1, <2>2, <2>3, <3>1 DEF Owned, Accounted
  <2> QED
    BY <2>4, <2>5
<1>10. NoneLost'
  BY <1>3 DEF Owned, NoneLost

<1>8. Holds(c)'
  BY <1>2 DEF Holds, At
<1>9. ASSUME NEW d \in Callers \ {c}
      PROVE  Holds(d)'
  <2>1. Holds(d) /\ caller'[d] = caller[d]
    BY <1>2 DEF AllHold, OnlyMoves
  <2>2. At(d, "registering") => Live(caller[d].using)'
    BY <1>3, <1>4, <2>1 DEF Holds, At, Live
  <2> QED
    BY <1>3, <2>1, <2>2 DEF Holds, At, Live, Connector, IsWebsocket, Known
<1> QED
  BY <1>5, <1>6, <1>7, <1>8, <1>9, <1>10 DEF Owned, AllHold

\* An Unlock finds no other caller under the lock, and lets some in.
LEMMA UnlockOthers ==
    ASSUME TypeOK, MutualExclusion, NEW c \in Callers,
           NEW label \in {"connect", "registering", "disconnect"}, Writing(c, label),
           NEW callers \in [Callers -> CallerStates],
           \A r \in Callers : /\ callers[r].at = caller[r].at
                              /\ callers[r].id = caller[r].id
                              /\ callers[r].using = caller[r].using
                              /\ callers[r].stream = caller[r].stream,
           Unlock(c, callers)
    PROVE  /\ caller'[c].at = "idle"
           /\ \A d \in Callers \ {c} :
                  /\ caller[d].at \notin {"registering", "lookup", "opening", "dialed"}
                  /\ caller'[d].at = IF caller[d].at = "getStream" THEN "lookup"
                                     ELSE caller[d].at
                  /\ caller'[d].id = caller[d].id /\ caller'[d].using = caller[d].using
                  /\ caller'[d].stream = caller[d].stream
<1>1. caller'[c].at = "idle"
  BY UnlockAt DEF Idle
<1>2. ASSUME NEW d \in Callers \ {c}
      PROVE  caller[d].at \notin {"registering", "lookup", "opening", "dialed"}
  BY DEF Writing, MutualExclusion, At
<1>3. ASSUME NEW d \in Callers \ {c}
      PROVE  /\ caller'[d].at = IF caller[d].at = "getStream" THEN "lookup"
                                ELSE caller[d].at
             /\ caller'[d].id = caller[d].id /\ caller'[d].using = caller[d].using
             /\ caller'[d].stream = caller[d].stream
  <2>1. callers[d] \in CallerStates
    OBVIOUS
  <2>2. CASE caller[d].at = "getStream"
    <3>1. caller'[d] = [callers[d] EXCEPT !.at = "lookup"]
      BY <2>2, UnlockAt
    <3> QED
      BY <2>1, <2>2, <3>1 DEF CallerStates
  <2>3. CASE caller[d].at # "getStream"
    BY <2>3, UnlockAt
  <2> QED
    BY <2>2, <2>3
<1> QED
  BY <1>1, <1>2, <1>3

LEMMA UnlocksHold ==
    ASSUME TypeOK, MutualExclusion, AllHold, NEW c \in Callers, Unlocks(c),
           Len(connectors') = Len(connectors),
           \A k \in 1..Len(connectors) :
               /\ connectors'[k].kind = connectors[k].kind
               /\ \/ connectors'[k].transport = connectors[k].transport
                  \/ connectors'[k].transport = None
    PROVE  /\ AllHold'
           /\ \A x : ~InHand(c, x)'
           /\ \A x : InHand(c, x) <=> At(c, "registering") /\ Connector(c).transport = x
           /\ \A d \in Callers \ {c} : \A x :
                  /\ InHand(d, x) <=> InHand(d, x)'
                  /\ InHand(d, x) =>
                         \A k \in 1..Len(connectors) :
                             connectors[k].kind # "websocket" => connectors[k].transport # x
<1>3. PICK label \in {"connect", "registering", "disconnect"},
           callers \in [Callers -> CallerStates] :
        /\ Writing(c, label) /\ Unlock(c, callers)
        /\ \A r \in Callers : /\ callers[r].at = caller[r].at
                               /\ callers[r].id = caller[r].id
                               /\ callers[r].using = caller[r].using
                               /\ callers[r].stream = caller[r].stream
  BY UnlocksWhat
<1>4. /\ caller'[c].at = "idle"
      /\ \A d \in Callers \ {c} :
             /\ caller[d].at \notin {"registering", "lookup", "opening", "dialed"}
             /\ caller'[d].at = IF caller[d].at = "getStream" THEN "lookup"
                                ELSE caller[d].at
             /\ caller'[d].id = caller[d].id /\ caller'[d].using = caller[d].using
             /\ caller'[d].stream = caller[d].stream
  BY <1>3, UnlockOthers
<1>5. Holds(c)'
  BY <1>4 DEF Holds, At
<1>6. ASSUME NEW d \in Callers \ {c}
      PROVE  Holds(d)'
  <2>1. CASE At(d, "open")
    <3>1. caller'[d].at = "open" /\ caller'[d].using = caller[d].using
          /\ caller'[d].stream = caller[d].stream
          /\ caller[d].using \in 1..Len(connectors)
      BY <1>4, <2>1 DEF AllHold, Holds, At
    <3> QED
      BY <2>1, <3>1 DEF AllHold, Holds, At, IsWebsocket, Connector
  <2>2. CASE ~At(d, "open")
    BY <1>4, <2>2 DEF AllHold, Holds, At
  <2> QED
    BY <2>1, <2>2
<1>7. ASSUME NEW d \in Callers \ {c}, NEW x
      PROVE  /\ InHand(d, x) <=> InHand(d, x)'
             /\ InHand(d, x) =>
                    \A k \in 1..Len(connectors) :
                        connectors[k].kind # "websocket" => connectors[k].transport # x
  <2>1. CASE At(d, "open")
    <3>1. caller'[d].at = "open" /\ caller'[d].using = caller[d].using
          /\ caller'[d].stream = caller[d].stream
          /\ caller[d].using \in 1..Len(connectors)
      BY <1>4, <2>1 DEF AllHold, Holds, At
    <3>2. IsWebsocket(d)' <=> IsWebsocket(d)
      BY <3>1 DEF IsWebsocket, Connector
    <3> QED
      BY <2>1, <3>1, <3>2 DEF AllHold, Holds, InHand, At
  <2>2. CASE ~At(d, "open")
    BY <1>4, <2>2 DEF InHand, At
  <2> QED
    BY <2>1, <2>2
<1>8. caller[c].at \in {"connect", "registering", "disconnect"}
  BY <1>3 DEF Writing, At
<1>9. \A x : ~InHand(c, x)'
  BY <1>4 DEF InHand, At
<1>12. \A x : InHand(c, x) <=> At(c, "registering") /\ Connector(c).transport = x
  BY <1>8 DEF InHand, At
<1>10. AllHold'
  BY <1>5, <1>6 DEF AllHold
<1>11. \A d \in Callers \ {c} : \A x :
           /\ InHand(d, x) <=> InHand(d, x)'
           /\ InHand(d, x) =>
                  \A k \in 1..Len(connectors) :
                      connectors[k].kind # "websocket" => connectors[k].transport # x
  BY <1>7
<1> QED
  BY <1>9, <1>10, <1>11, <1>12

LEMMA CrashOwned ==
    ASSUME Crash
    PROVE  Owned' /\ AllHold'
<1>1. \A c \in Callers : caller'[c].at = "panicked"
  BY DEF Crash, Idle
<1>2. DOMAIN connections' = {} /\ Len(connectors') = 0 /\ opened' = 0
  BY EmptySeq DEF Crash
<1>3. OneOwner' /\ AllLive' /\ NoneLost' /\ Accounted'
  BY <1>2 DEF OneOwner, AllLive, NoneLost, Accounted
<1> QED
  BY <1>1, <1>3 DEF Owned, AllHold, Holds, At

LEMMA RegisterOwned ==
    ASSUME TypeOK, MutualExclusion, Owned, AllHold, NEW c \in Callers, Register(c)
    PROVE  Owned' /\ AllHold'
<1> DEFINE i == caller[c].id
           k == caller[c].using
           Replaced(x) == /\ i \in DOMAIN connections
                          /\ connectors[connections[i]].kind # "websocket"
                          /\ connectors[connections[i]].transport = x
<1>1. /\ k \in 1..Len(connectors) /\ Live(k)
      /\ \A j \in DOMAIN connections : connections[j] # k
      /\ connectors[k].kind = "websocket" => connectors[k].transport = None
      /\ At(c, "registering")
  BY DEF Register, Writing, At, AllHold, Holds, IsWebsocket, Connector
<1>2. /\ connections' = [j \in DOMAIN connections \cup {i} |->
                            IF j = i THEN k ELSE connections[j]]
      /\ UNCHANGED <<connectors, opened, shut>>
      /\ \A x : x \in lost' <=> x \in lost \/ Replaced(x)
  BY DEF Register
<1>3. /\ AllHold'
      /\ \A x : ~InHand(c, x)' /\ (InHand(c, x) <=> x = connectors[k].transport)
      /\ \A d \in Callers \ {c} : \A x :
             /\ InHand(d, x) <=> InHand(d, x)'
             /\ InHand(d, x) =>
                    \A j \in 1..Len(connectors) :
                        connectors[j].kind # "websocket" => connectors[j].transport # x
  BY <1>1, <1>2, UnlocksHold DEF Unlocks, Connector
<1>4. \A j \in DOMAIN connections : connections[j] \in 1..Len(connectors)
  BY DEF TypeOK
<1> HIDE DEF i, k
<1>5. OneOwner'
  BY <1>1, <1>2 DEF Owned, OneOwner
<1>6. AllLive'
  <2>1. \A j \in DOMAIN connections : Live(connections[j])
    BY DEF Owned, AllLive
  <2> QED
    BY <1>1, <1>2, <2>1 DEF AllLive, Live
<1>7. ASSUME NEW x \in 1..opened
      PROVE  x \in lost' <=> /\ x \notin shut' /\ ~Registered(x)'
                            /\ \A d \in Callers : ~InHand(d, x)'
  <2>1. x # None
    BY <1>7, NotNone DEF TypeOK
  <2>2. Registered(x)' <=> \/ connectors[k].kind # "websocket" /\ connectors[k].transport = x
                           \/ Registered(x) /\ ~Replaced(x)
    <3>1. ASSUME NEW j \in DOMAIN connections, j # i, Replaced(x)
          PROVE  connectors[connections[j]].transport # x
      BY <1>4, <2>1, <3>1 DEF Owned, OneOwner
    <3>2. /\ DOMAIN connections' = DOMAIN connections \cup {i} /\ connections'[i] = k
          /\ \A j \in DOMAIN connections \ {i} : connections'[j] = connections[j]
      BY <1>2
    <3>3. CASE Replaced(x)
      BY <1>2, <3>1, <3>2, <3>3 DEF Registered
    <3>4. CASE ~Replaced(x)
      BY <1>2, <3>2, <3>4 DEF Registered
    <3> QED
      BY <3>3, <3>4
  <2>3. Replaced(x) => /\ Registered(x) /\ x \notin shut /\ x # connectors[k].transport
                       /\ \A d \in Callers \ {c} : ~InHand(d, x)
    BY <1>1, <1>3, <1>4, <2>1 DEF Registered, Owned, AllLive, Live, OneOwner
  <2>4. x = connectors[k].transport => connectors[k].kind # "websocket"
    BY <1>1, <2>1
  <2>5. x \in lost <=> /\ x \notin shut /\ ~Registered(x)
                       /\ x # connectors[k].transport
                       /\ \A d \in Callers \ {c} : ~InHand(d, x)
    BY <1>3 DEF Owned, Accounted
  <2>6. (\A d \in Callers : ~InHand(d, x)') <=> \A d \in Callers \ {c} : ~InHand(d, x)
    BY <1>3
  <2> HIDE DEF Replaced
  <2> QED
    BY <1>2, <2>2, <2>3, <2>4, <2>5, <2>6
<1>8. NoneLost'
  <2>1. ASSUME NEW j \in 1..Len(connectors), connectors[j].kind = "websocket"
        PROVE  ~Replaced(connectors[j].transport)
    BY <1>4, <2>1 DEF Owned, OneOwner, AllLive, Live
  <2> HIDE DEF Replaced
  <2> QED
    BY <1>2, <2>1 DEF Owned, NoneLost
<1> QED
  BY <1>2, <1>3, <1>5, <1>6, <1>7, <1>8 DEF Owned, Accounted

LEMMA DisconnectOwned ==
    ASSUME TypeOK, MutualExclusion, Owned, AllHold, NEW c \in Callers,
           Disconnect(c) \/ DisconnectFails(c)
    PROVE  Owned' /\ AllHold'
<1> DEFINE i == caller[c].id
           k == connections[i]
<1>t. PICK t : t = connectors[k].transport
  OBVIOUS
<1>0. Disconnects(c) /\ (Shuts(k) \/ LeavesOpen(k))
  BY DEF Disconnect, DisconnectFails
<1>1. /\ k \in 1..Len(connectors) /\ i \in DOMAIN connections
      /\ t # None
      /\ caller[c].at = "disconnect"
  BY <1>0, <1>t DEF Disconnects, Known, TypeOK, Writing, At
<1>2. /\ DOMAIN connections' = DOMAIN connections \ {i}
      /\ \A j \in DOMAIN connections' : connections'[j] = connections[j]
      /\ opened' = opened
      /\ \/ shut' = shut \cup {t} /\ lost' = lost
         \/ shut' = shut /\ lost' = lost \cup {t} /\ connectors[k].kind = "hyperswarm"
  BY <1>0, <1>t DEF Disconnects, Forgets, Restrict, Shuts, LeavesOpen
<1>3. /\ Len(connectors') = Len(connectors)
      /\ \A j \in 1..Len(connectors) :
             /\ connectors'[j].kind = connectors[j].kind
             /\ j # k => connectors'[j] = connectors[j]
             /\ \/ connectors'[j].transport = connectors[j].transport
                \/ connectors'[j].transport = None
  <2>1. CASE connectors' = connectors
    BY <2>1
  <2>2. CASE connectors' = [connectors EXCEPT ![k].transport = None]
    <3>1. None \in Transports /\ connectors \in Seq([kind : Kinds, transport : Transports])
      BY DEF Transports, TypeOK
    <3> QED
      BY <1>1, <2>2, <3>1, Retarget
  <2> QED
    BY <1>0, <2>1, <2>2 DEF Shuts, LeavesOpen
<1>4. /\ AllHold'
      /\ \A x : ~InHand(c, x)' /\ ~InHand(c, x)
      /\ \A d \in Callers \ {c} : \A x :
             /\ InHand(d, x) <=> InHand(d, x)'
             /\ InHand(d, x) =>
                    \A j \in 1..Len(connectors) :
                        connectors[j].kind # "websocket" => connectors[j].transport # x
  BY <1>1, <1>3, UnlocksHold DEF Unlocks, At
<1>5. \A j \in DOMAIN connections :
          connections[j] \in 1..Len(connectors) /\ (j # i => connections[j] # k)
  BY <1>1 DEF Owned, OneOwner, TypeOK
<1> HIDE DEF i, k
<1>6. OneOwner'
  <2>1. ASSUME NEW j \in 1..Len(connectors), NEW m \in 1..Len(connectors), j # m,
               connectors'[j].transport # None
        PROVE  connectors'[j].transport # connectors'[m].transport
    BY <1>3, <2>1 DEF Owned, OneOwner
  <2>2. \A j, m \in DOMAIN connections' : j # m => connections'[j] # connections'[m]
    BY <1>2 DEF Owned, OneOwner
  <2> QED
    BY <1>3, <2>1, <2>2 DEF OneOwner
<1>7. ASSUME NEW j \in DOMAIN connections'
      PROVE  /\ connectors'[connections'[j]] = connectors[connections[j]]
             /\ Live(connections[j])
             /\ connectors[connections[j]].transport # t
  BY <1>t, <1>1, <1>2, <1>3, <1>5 DEF Owned, AllLive, OneOwner
<1>8. AllLive'
  BY <1>2, <1>7 DEF AllLive, Live
<1>9. NoneLost'
  <2>1. ASSUME NEW j \in 1..Len(connectors), connectors[j].kind = "websocket"
        PROVE  connectors'[j].transport \notin lost'
    <3>1. connectors[j].transport \notin lost
      BY <2>1 DEF Owned, NoneLost
    <3>3. None \notin lost
      <4>1. None \notin 1..opened /\ lost \subseteq 1..opened
        BY NotNone DEF TypeOK
      <4> QED
        BY <4>1
    <3>2. connectors[k].kind = "hyperswarm" => connectors[j].transport # t
      BY <1>t, <1>1, <2>1 DEF Owned, OneOwner
    <3> QED
      BY <1>t, <1>2, <1>3, <2>1, <3>1, <3>2, <3>3
  <2> QED
    BY <1>3, <2>1 DEF NoneLost
<1>10. ASSUME NEW x \in 1..opened, x # t
       PROVE  x \in lost' <=> /\ x \notin shut' /\ ~Registered(x)'
                             /\ \A d \in Callers : ~InHand(d, x)'
  <2>1. Registered(x) <=> Registered(x)'
    <3>1. connections[i] = k /\ connectors[k].transport = t
      BY <1>t DEF k
    <3> QED
      BY <1>2, <1>7, <1>10, <3>1 DEF Registered
  <2>2. x \in lost <=> /\ x \notin shut /\ ~Registered(x)
                       /\ \A d \in Callers : ~InHand(d, x)
    BY DEF Owned, Accounted
  <2>3. (\A d \in Callers : ~InHand(d, x)) <=> \A d \in Callers : ~InHand(d, x)'
    BY <1>4
  <2> QED
    BY <1>2, <1>10, <2>1, <2>2, <2>3
<1>11. ASSUME t \in 1..opened
       PROVE  t \in lost' <=> /\ t \notin shut' /\ ~Registered(t)'
                             /\ \A d \in Callers : ~InHand(d, t)'
  <2>1. ~Registered(t)'
    BY <1>2, <1>7 DEF Registered
  <2>2. CASE shut' = shut \cup {t} /\ lost' = lost
    <3>1. CASE connectors[k].kind = "websocket"
      BY <1>t, <1>1, <2>2, <3>1 DEF Owned, NoneLost
    <3>2. CASE connectors[k].kind # "websocket"
      <4>1. Registered(t)
        BY <1>t, <1>1, <3>2 DEF Registered, k
      <4> QED
        BY <1>11, <2>2, <4>1 DEF Owned, Accounted
    <3> QED
      BY <3>1, <3>2
  <2>3. CASE shut' = shut /\ lost' = lost \cup {t} /\ connectors[k].kind = "hyperswarm"
    <3>1. t \notin shut
      BY <1>t, <1>1, <2>3 DEF Owned, AllLive, Live, k
    <3>2. \A d \in Callers : ~InHand(d, t)'
      BY <1>t, <1>1, <1>4, <2>3
    <3> QED
      BY <2>1, <2>3, <3>1, <3>2
  <2> QED
    BY <1>2, <2>2, <2>3
<1>12. Accounted'
  BY <1>2, <1>10, <1>11 DEF Accounted
<1> QED
  BY <1>4, <1>6, <1>8, <1>9, <1>12 DEF Owned

LEMMA ConnectFailsOwned ==
    ASSUME TypeOK, MutualExclusion, Owned, AllHold, NEW c \in Callers,
           HostConnectFails(c) \/ MuxConnectFails(c)
    PROVE  Owned' /\ AllHold'
<1>1. UNCHANGED <<connections, connectors, shut>>
  BY DEF HostConnectFails, MuxConnectFails
<1>2. /\ AllHold'
      /\ \A x : ~InHand(c, x)'
      /\ \A x : InHand(c, x) <=> At(c, "registering") /\ Connector(c).transport = x
      /\ \A d \in Callers \ {c} : \A x :
             /\ InHand(d, x) <=> InHand(d, x)'
             /\ InHand(d, x) =>
                    \A j \in 1..Len(connectors) :
                        connectors[j].kind # "websocket" => connectors[j].transport # x
  BY <1>1, UnlocksHold DEF Unlocks
<1>3. OneOwner' /\ AllLive'
  BY <1>1 DEF Owned, OneOwner, AllLive, Live
<1>4. \A x : Registered(x) <=> Registered(x)'
  BY <1>1 DEF Registered
<1>5. CASE HostConnectFails(c)
  <2> DEFINE k == caller[c].using
  <2>t. PICK t : t = connectors[k].transport
    OBVIOUS
  <2>1. /\ opened' = opened /\ lost' = lost \cup {t}
        /\ connectors[k].kind = "libp2p" /\ At(c, "registering")
    BY <1>5, <2>t DEF HostConnectFails, Connector, Writing
  <2>2. /\ k \in 1..Len(connectors) /\ t \notin shut /\ t # None
        /\ \A i \in DOMAIN connections : connections[i] # k
    BY <2>1, <2>t DEF AllHold, Holds, Live, At
  <2>3. \A x : InHand(c, x) <=> x = t
    BY <1>2, <2>1, <2>t DEF Connector
  <2> HIDE DEF k
  <2>4. ~Registered(t)
    BY <2>2, <2>t DEF Registered, Owned, OneOwner, TypeOK
  <2>5. \A d \in Callers : ~InHand(d, t)'
    BY <1>2, <2>1, <2>2, <2>t
  <2>6. NoneLost'
    BY <1>1, <2>1, <2>2, <2>t DEF Owned, NoneLost, OneOwner
  <2>7. ASSUME NEW x \in 1..opened
        PROVE  x \in lost' <=> /\ x \notin shut' /\ ~Registered(x)'
                              /\ \A d \in Callers : ~InHand(d, x)'
    <3>1. CASE x = t
      BY <1>1, <1>4, <2>1, <2>2, <2>4, <2>5, <3>1
    <3>2. CASE x # t
      <4>1. (\A d \in Callers : ~InHand(d, x)) <=> \A d \in Callers : ~InHand(d, x)'
        BY <1>2, <2>3, <3>2
      <4> QED
        BY <1>1, <1>4, <2>1, <3>2, <4>1 DEF Owned, Accounted
    <3> QED
      BY <3>1, <3>2
  <2> QED
    BY <1>2, <1>3, <2>1, <2>6, <2>7 DEF Owned, Accounted
<1>6. CASE MuxConnectFails(c)
  <2> DEFINE t == opened + 1
  <2>1. opened' = t /\ lost' = lost \cup {t} /\ caller[c].at = "connect"
    BY <1>6 DEF MuxConnectFails, Writing, At
  <2>2. /\ t \notin shut /\ t # None /\ opened \in Nat
        /\ \A x \in 1..t : x \in 1..opened \/ x = t
        /\ \A x \in 1..opened : x # t
    BY NotNone DEF TypeOK
  <2>3. t \notin Transports
    BY <2>2 DEF Transports
  <2>4. \A k \in 1..Len(connectors) : connectors[k].transport # t
    BY <2>3, ConnectorType
  <2>5. ~Registered(t) /\ \A d \in Callers : ~InHand(d, t)
    BY <2>3, <2>4, CallerFields DEF Registered, InHand, TypeOK, AllHold, Holds, Connector, At
  <2>6. \A x : (\A d \in Callers : ~InHand(d, x)) <=> \A d \in Callers : ~InHand(d, x)'
    BY <1>2, <2>1 DEF At
  <2> HIDE DEF t
  <2>7. NoneLost'
    BY <1>1, <2>1, <2>4 DEF Owned, NoneLost
  <2>8. ASSUME NEW x \in 1..t
        PROVE  x \in lost' <=> /\ x \notin shut' /\ ~Registered(x)'
                              /\ \A d \in Callers : ~InHand(d, x)'
    BY <1>1, <1>4, <2>1, <2>2, <2>5, <2>6 DEF Owned, Accounted
  <2> QED
    BY <1>2, <1>3, <2>1, <2>7, <2>8 DEF Owned, Accounted
<1> QED
  BY <1>5, <1>6

LEMMA UnlocksOwned ==
    ASSUME TypeOK, MutualExclusion, Owned, AllHold, NEW c \in Callers, Unlocks(c)
    PROVE  Owned' /\ AllHold'
<1>1. CASE HostConnectFails(c) \/ MuxConnectFails(c)
  BY <1>1, ConnectFailsOwned
<1>2. CASE Register(c)
  BY <1>2, RegisterOwned
<1>3. CASE Disconnect(c) \/ DisconnectFails(c)
  BY <1>3, DisconnectOwned
<1>4. CASE ReturnsEarly(c)
  <2>1. UNCHANGED <<connections, networkVars>> /\ UNCHANGED connectors
        /\ caller[c].at \in {"connect", "disconnect"}
    BY <1>4 DEF ReturnsEarly, Writing, At, networkVars
  <2>2. /\ AllHold'
        /\ \A d \in Callers : \A x : InHand(d, x) <=> InHand(d, x)'
    BY <2>1, UnlocksHold DEF At
  <2> QED
    BY <2>1, <2>2, NetworkKept DEF Owned
<1> QED
  BY <1>1, <1>2, <1>3, <1>4 DEF Unlocks

-----------------------------------------------------------------------------
(* The loops.                                                              *)

AllLoop == \A c \in Callers : Looping(c)

\* A caller that stays within its work on one connection.
LEMMA LoopKept ==
    ASSUME NEW d \in Callers, Looping(d),
           caller[d].at \notin {"idle", "ranging"}, caller'[d].at \notin {"idle", "ranging"},
           caller'[d].id = caller[d].id, caller'[d].loop = caller[d].loop,
           caller'[d].stable = caller[d].stable, caller'[d].seen = caller[d].seen,
           caller'[d].results = caller[d].results
    PROVE  Looping(d)'
  BY DEF Looping, At

LEMMA LoopSame ==
    ASSUME NEW d \in Callers, Looping(d), caller'[d] = caller[d]
    PROVE  Looping(d)'
  BY DEF Looping, At

LEMMA LoopIdle ==
    ASSUME NEW c \in Callers, caller'[c] = Idle
    PROVE  Looping(c)'
  BY DEF Looping, At, Idle

LEMMA CrashLoops ==
    ASSUME Crash
    PROVE  AllLoop'
<1>1. ASSUME NEW c \in Callers
      PROVE  /\ caller'[c].at = "panicked" /\ caller'[c].loop = "none"
             /\ caller'[c].stable = {} /\ caller'[c].seen = {}
             /\ \A i \in Ids : caller'[c].results[i] = <<>>
  BY DEF Crash, Idle
<1> QED
  BY <1>1 DEF AllLoop, Looping, At

\* What a loop makes of an outcome.
LEMMA OutcomeLoops ==
    ASSUME TypeOK, NEW c \in Callers, NEW ok \in BOOLEAN, Looping(c),
           caller[c].at \notin {"idle", "ranging"},
           caller'[c] = Outcome(c, ok)
    PROVE  Looping(c)'
<1> USE CallerFields
<1>1. CASE Outcome(c, ok) = Idle
  BY <1>1, LoopIdle
<1>2. CASE Outcome(c, ok) # Idle
  <2>1. /\ caller[c].loop # "none" /\ (caller[c].loop = "untilError" => ok)
        /\ Outcome(c, ok) = [caller[c] EXCEPT !.at = "ranging", !.id = None, !.using = None,
                                  !.stream = None, !.results = Noted(c, ok)]
    BY <1>2 DEF Outcome
  <2>2. /\ caller'[c].at = "ranging" /\ caller'[c].loop = caller[c].loop
        /\ caller'[c].stable = caller[c].stable /\ caller'[c].seen = caller[c].seen
        /\ caller'[c].results = Noted(c, ok)
    BY <2>1 DEF CallerStates
  <2>3. ASSUME NEW i \in Ids
        PROVE  IF i \in caller[c].stable \cap caller[c].seen
               THEN /\ Len(Noted(c, ok)[i]) = 1
                    /\ caller[c].loop = "untilError" => Noted(c, ok)[i][1]
               ELSE Noted(c, ok)[i] = <<>>
    <3>1. CASE i = caller[c].id /\ i \in caller[c].stable
      <4>1. i \in caller[c].seen /\ caller[c].results[i] = <<>>
        BY <3>1 DEF Looping, At
      <4> DEFINE e == ok \/ caller[c].loop = "collecting"
      <4>2. Noted(c, ok)[i] = Append(<<>>, e)
        BY <3>1, <4>1 DEF Noted
      <4>3. e \in BOOLEAN /\ (caller[c].loop = "untilError" => e)
        BY <2>1
      <4> HIDE DEF e
      <4>4. Len(Append(<<>>, e)) = 1 /\ Append(<<>>, e)[1] = e
        BY <4>3, EmptySeq, AppendProperties
      <4> QED
        BY <3>1, <4>1, <4>2, <4>3, <4>4
    <3>2. CASE ~(i = caller[c].id /\ i \in caller[c].stable)
      <4>1. Noted(c, ok)[i] = caller[c].results[i]
        BY <3>2 DEF Noted
      <4> QED
        BY <3>2, <4>1 DEF Looping, At
    <3> QED
      BY <3>1, <3>2
  <2> QED
    BY <2>1, <2>2, <2>3 DEF Looping, At
<1> QED
  BY <1>1, <1>2

LEMMA StepsLoop ==
    ASSUME TypeOK, AllHold, AllLoop, NEW c \in Callers, Steps(c)
    PROVE  AllLoop'
<1> USE CallerFields
<1>1. OnlyMoves(c)
  BY StepsType DEF AllHold
<1>2. Looping(c)'
  <2>1. CASE RLock(c) \/ OpenStream(c) \/ Dial(c)
    <3>1. /\ caller[c].at \notin {"idle", "ranging"}
          /\ caller'[c].at \notin {"idle", "ranging"}
      BY <2>1 DEF RLock, OpenStream, Dial, Goto, At, TypeOK, CallerStates
    <3>2. PICK label \in {"lookup", "open", "dialed"} :
             caller' = [caller EXCEPT ![c].at = label]
      BY <2>1 DEF RLock, OpenStream, Dial, Goto
    <3>3. /\ caller'[c].id = caller[c].id /\ caller'[c].loop = caller[c].loop
          /\ caller'[c].stable = caller[c].stable /\ caller'[c].seen = caller[c].seen
          /\ caller'[c].results = caller[c].results
      BY <3>2 DEF TypeOK, CallerStates
    <3> QED
      BY <3>1, <3>3, LoopKept DEF AllLoop
  <2>2. CASE NewTransport(c) \/ Lookup(c) \/ WebSocketStream(c)
    <3>1. /\ caller[c].at \notin {"idle", "ranging"}
          /\ caller'[c].at \notin {"idle", "ranging"}
          /\ caller'[c].id = caller[c].id /\ caller'[c].loop = caller[c].loop
          /\ caller'[c].stable = caller[c].stable /\ caller'[c].seen = caller[c].seen
          /\ caller'[c].results = caller[c].results
      <4>1. CASE NewTransport(c)
        BY <4>1 DEF NewTransport, Writing, At, TypeOK, CallerStates
      <4>2. CASE Lookup(c)
        BY <4>2 DEF Lookup, Finds, At, TypeOK, CallerStates
      <4>3. CASE WebSocketStream(c)
        BY <4>3 DEF WebSocketStream, At, TypeOK, CallerStates
      <4> QED
        BY <2>2, <4>1, <4>2, <4>3
    <3> QED
      BY <3>1, LoopKept DEF AllLoop
  <2>3. CASE RangeNext(c)
    <3>1. PICK i \in DOMAIN connections \ caller[c].seen :
            caller' = [caller EXCEPT ![c].at = "getStream", ![c].id = i,
                                     ![c].seen = @ \cup {i}]
      BY <2>3 DEF RangeNext
    <3>2. /\ caller'[c].at = "getStream" /\ caller'[c].id = i
          /\ caller'[c].loop = caller[c].loop /\ caller'[c].stable = caller[c].stable
          /\ caller'[c].seen = caller[c].seen \cup {i}
          /\ caller'[c].results = caller[c].results
      BY <3>1 DEF TypeOK, CallerStates
    <3>3. caller[c].at = "ranging" /\ i \in Ids /\ i \notin caller[c].seen
      BY <2>3 DEF RangeNext, At, TypeOK
    <3>4. Looping(c) /\ caller[c].loop # "none"
      BY <3>3 DEF AllLoop, Looping, At
    <3> QED
      BY <3>2, <3>3, <3>4 DEF Looping, At
  <2>4. CASE RangeEnds(c)
    BY <2>4, LoopIdle DEF RangeEnds, TypeOK
  <2>5. CASE NoConnection(c) \/ OpenFails(c) \/ CloseStream(c)
    <3>1. \E ok \in BOOLEAN : caller'[c] = Outcome(c, ok)
      BY <2>5 DEF NoConnection, OpenFails, CloseStream, TypeOK
    <3>2. caller[c].at \in {"lookup", "opening", "open"}
      BY <2>5 DEF NoConnection, OpenFails, CloseStream, At
    <3> QED
      BY <3>1, <3>2, OutcomeLoops DEF AllLoop
  <2>6. CASE Call(c, "connect") \/ Call(c, "disconnect") \/ Call(c, "getStream")
    <3>1. /\ caller'[c].at \in {"connect", "disconnect", "getStream"}
          /\ caller'[c].loop = caller[c].loop
          /\ caller'[c].stable = caller[c].stable /\ caller'[c].seen = caller[c].seen
          /\ caller'[c].results = caller[c].results
      BY <2>6 DEF Call, TypeOK, CallerStates
    <3>2. caller[c].at = "idle"
      BY <2>6 DEF Call, At
    <3> QED
      BY <3>1, <3>2 DEF AllLoop, Looping, At
  <2>7. CASE CallAll(c)
    <3>1. /\ caller'[c].at = "ranging" /\ caller'[c].loop # "none"
          /\ caller'[c].seen = caller[c].seen
          /\ caller'[c].results = caller[c].results
      BY <2>7 DEF CallAll, TypeOK, CallerStates
    <3>2. caller[c].at = "idle"
      BY <2>7 DEF CallAll, At
    <3> QED
      BY <3>1, <3>2 DEF AllLoop, Looping, At
  <2> QED
    BY <2>1, <2>2, <2>3, <2>4, <2>5, <2>6, <2>7 DEF Steps
<1> QED
  BY <1>1, <1>2, LoopSame DEF AllLoop, OnlyMoves

\* Looping speaks of a caller's record alone.
LoopingState(r) ==
    /\ r.loop = "none" => r.stable = {} /\ r.seen = {}
    /\ r.at = "idle" => r.loop = "none"
    /\ r.at = "ranging" => r.loop # "none"
    /\ r.at # "ranging" /\ r.id \in r.stable => r.id \in r.seen
    /\ \A i \in Ids :
           IF i \in r.stable \cap r.seen /\ (r.at = "ranging" \/ i # r.id)
           THEN /\ Len(r.results[i]) = 1
                /\ r.loop = "untilError" => r.results[i][1]
           ELSE r.results[i] = <<>>

LEMMA LoopingRecord == \A c \in Callers : Looping(c) <=> LoopingState(caller[c])
  BY DEF Looping, LoopingState, At

LEMMA Admitted ==
    ASSUME NEW r \in CallerStates, LoopingState(r), r.at = "getStream"
    PROVE  LoopingState([r EXCEPT !.at = "lookup"])
  BY DEF LoopingState, CallerStates

LEMMA Forgotten ==
    ASSUME NEW r \in CallerStates, LoopingState(r), NEW i \in Ids
    PROVE  LoopingState([r EXCEPT !.seen = @ \ {i}, !.stable = @ \ {i}, !.results[i] = <<>>])
<1> DEFINE f == [r EXCEPT !.seen = @ \ {i}, !.stable = @ \ {i}, !.results[i] = <<>>]
<1>1. /\ f.at = r.at /\ f.id = r.id /\ f.loop = r.loop
      /\ f.seen = r.seen \ {i} /\ f.stable = r.stable \ {i}
      /\ f.results[i] = <<>>
      /\ \A j \in Ids \ {i} : f.results[j] = r.results[j]
  BY DEF CallerStates
<1> HIDE DEF f
<1>2. ASSUME NEW j \in Ids
      PROVE  IF j \in f.stable \cap f.seen /\ (f.at = "ranging" \/ j # f.id)
             THEN /\ Len(f.results[j]) = 1
                  /\ f.loop = "untilError" => f.results[j][1]
             ELSE f.results[j] = <<>>
  <2>1. CASE j = i
    BY <1>1, <2>1
  <2>2. CASE j # i
    BY <1>1, <2>2 DEF LoopingState
  <2> QED
    BY <2>1, <2>2
<1>3. LoopingState(f)
  BY <1>1, <1>2 DEF LoopingState
<1> QED
  BY <1>3 DEF f

LEMMA UnlocksLoop ==
    ASSUME TypeOK, AllLoop, NEW c \in Callers, Unlocks(c)
    PROVE  AllLoop'
<1>1. PICK callers \in [Callers -> CallerStates] :
        /\ Unlock(c, callers)
        /\ \A r \in Callers : LoopingState(callers[r])
  <2>1. CASE Disconnects(c)
    <3> DEFINE i == caller[c].id
               callers == [r \in Callers |->
               [caller[r] EXCEPT !.seen = @ \ {i}, !.stable = @ \ {i}, !.results[i] = <<>>]]
    <3>1. callers \in [Callers -> CallerStates]
      BY ForgetType DEF TypeOK
    <3>2. i \in Ids
      BY <2>1 DEF Disconnects, Known, TypeOK
    <3>3. ASSUME NEW r \in Callers
          PROVE  LoopingState(callers[r])
      <4>1. caller[r] \in CallerStates /\ LoopingState(caller[r])
        BY CallerFields, LoopingRecord DEF AllLoop
      <4> QED
        BY <3>2, <4>1, Forgotten
    <3>4. Unlock(c, callers)
      BY <2>1 DEF Disconnects, Forgets
    <3> QED
      BY <3>1, <3>3, <3>4
  <2>2. CASE HostConnectFails(c) \/ MuxConnectFails(c) \/ Register(c) \/ ReturnsEarly(c)
    BY <2>2, LoopingRecord
       DEF HostConnectFails, MuxConnectFails, Register, ReturnsEarly, TypeOK, AllLoop
  <2> QED
    BY <2>1, <2>2 DEF Unlocks, Disconnect, DisconnectFails
<1>2. ASSUME NEW d \in Callers \ {c}
      PROVE  LoopingState(caller'[d])
  <2>1. callers[d] \in CallerStates /\ LoopingState(callers[d])
    BY <1>1
  <2>2. CASE callers[d].at = "getStream"
    <3>1. caller'[d] = [callers[d] EXCEPT !.at = "lookup"]
      BY <1>1, <2>2, UnlockAt
    <3>2. LoopingState([callers[d] EXCEPT !.at = "lookup"])
      BY <2>1, <2>2, Admitted
    <3> QED
      BY <3>1, <3>2
  <2>3. CASE callers[d].at # "getStream"
    BY <1>1, <2>1, <2>3, UnlockAt
  <2> QED
    BY <2>2, <2>3
<1>3. Looping(c)'
  BY <1>1, UnlockAt, LoopIdle
<1>4. ASSUME NEW d \in Callers \ {c}
      PROVE  Looping(d)'
  BY <1>2 DEF Looping, LoopingState, At
<1> QED
  BY <1>3, <1>4 DEF AllLoop
-----------------------------------------------------------------------------
(* The theorems.                                                           *)

LEMMA InvParts ==
    /\ IInv <=> TypeOK /\ MutualExclusion /\ Owned /\ AllHold /\ AllLoop
    /\ IInv' <=> TypeOK' /\ MutualExclusion' /\ Owned' /\ AllHold' /\ AllLoop'
  BY AccountedFor DEF IInv, Owned, AllHold, AllLoop

LEMMA InvInit ==
    ASSUME Init
    PROVE  IInv
<1>1. TypeOK
  BY IdleType, EmptySeq DEF Init, TypeOK
<1>2. \A c \in Callers : caller[c] = Idle /\ caller[c].at = "idle"
  BY DEF Init, Idle
<1>3. MutualExclusion
  BY <1>2 DEF Init, MutualExclusion, At
<1>4. DOMAIN connections = {} /\ Len(connectors) = 0 /\ opened = 0
  BY EmptySeq DEF Init
<1>5. Owned
  BY <1>4 DEF Owned, OneOwner, AllLive, NoneLost, Accounted
<1>6. AllHold
  BY <1>2 DEF AllHold, Holds, At
<1>7. AllLoop
  BY <1>2 DEF AllLoop, Looping, At, Idle
<1> QED
  BY <1>1, <1>3, <1>5, <1>6, <1>7, InvParts

LEMMA InvStep ==
    ASSUME IInv, [Next]_vars
    PROVE  IInv'
<1>1. TypeOK /\ MutualExclusion /\ Owned /\ AllHold /\ AllLoop
  BY InvParts
<1>2. SUFFICES TypeOK' /\ MutualExclusion' /\ Owned' /\ AllHold' /\ AllLoop'
  BY InvParts
<1>3. CASE UNCHANGED vars
  <2>1. TypeOK' /\ MutualExclusion'
    BY <1>1, <1>3, SameTransports
       DEF TypeOK, MutualExclusion, vars, networkVars, mutexVars, At
  <2>2. Owned' /\ AllHold'
    BY <1>1, <1>3, NetworkKept DEF vars, Owned, AllHold
  <2>3. AllLoop'
    BY <1>1, <1>3, LoopSame DEF vars, AllLoop
  <2> QED
    BY <2>1, <2>2, <2>3
<1>4. ASSUME NEW c \in Callers, Lock(c)
      PROVE  TypeOK' /\ MutualExclusion' /\ Owned' /\ AllHold' /\ AllLoop'
  <2>1. TypeOK' /\ MutualExclusion'
    BY <1>1, <1>4, LockMutex
  <2>2. Owned' /\ AllHold'
    BY <1>1, <1>4, NetworkKept DEF Lock, Owned, AllHold
  <2>3. AllLoop'
    BY <1>1, <1>4, LoopSame DEF Lock, AllLoop
  <2> QED
    BY <2>1, <2>2, <2>3
<1>5. ASSUME NEW c \in Callers, Unlocks(c)
      PROVE  TypeOK' /\ MutualExclusion' /\ Owned' /\ AllHold' /\ AllLoop'
  BY <1>1, <1>5, UnlocksMutex, UnlocksOwned, UnlocksLoop DEF AllHold, Owned
<1>6. ASSUME NEW c \in Callers, Crashes(c)
      PROVE  TypeOK' /\ MutualExclusion' /\ Owned' /\ AllHold' /\ AllLoop'
  <2>1. Crash
    BY <1>6 DEF Crashes, ConnectPanics, DisconnectPanics, RangeCrashes
  <2> QED
    BY <2>1, CrashType, CrashMutex, CrashOwned, CrashLoops
<1>7. ASSUME NEW c \in Callers, Steps(c)
      PROVE  TypeOK' /\ MutualExclusion' /\ Owned' /\ AllHold' /\ AllLoop'
  <2>1. TypeOK' /\ MutualExclusion' /\ AllLoop'
    BY <1>1, <1>7, StepsType, StepsMutex, StepsLoop DEF AllHold
  <2>2. Owned' /\ AllHold'
    BY <1>1, <1>7, NewTransportOwned, DialOwned, CloseStreamOwned, QuietSteps
  <2> QED
    BY <2>1, <2>2
<1> QED
  BY <1>3, <1>4, <1>5, <1>6, <1>7, NextSplit

\* The inductive invariant: the types, who holds the mutex of
\* GenericConnectionManager (connmgr.go:30-40) and for what, that a transport
\* has one connector and a connector one id, that what can be used is open,
\* where every open transport is or how it was lost, and how far each loop over all connections has come.
THEOREM ManagerInvariant == Spec => []IInv
<1>1. Init => IInv
  BY InvInit
<1>2. IInv /\ [Next]_vars => IInv'
  BY InvStep
<1> QED
  BY <1>1, <1>2, PTL DEF Spec

\* The lock of GenericConnectionManager excludes: whoever makes or registers a
\* connector (connmgr.go:56-97) is the only caller under the lock, and no
\* caller is between GetStream and the end of OpenStream (connmgr.go:112-122)
\* meanwhile.
THEOREM ManagerMutualExclusion ==
    Spec => [](\A c, d \in Callers :
                   /\ At(c, "registering")
                   /\ caller[d].at \in {"registering", "lookup", "opening", "dialed"}
                   => c = d)
<1>1. IInv => \A c, d \in Callers :
                  /\ At(c, "registering")
                  /\ caller[d].at \in {"registering", "lookup", "opening", "dialed"}
                  => c = d
  BY DEF IInv, MutualExclusion, At
<1> QED
  BY <1>1, ManagerInvariant, PTL

\* No caller opens a stream on a host or a mux connection that was closed
\* (libp2p/connector.go, hyperswarm/connector.go), whatever was connected and
\* disconnected while it waited for the lock.
THEOREM ManagerOpensLive == Spec => []OpensLive
<1>1. IInv => OpensLive
  <2> SUFFICES ASSUME IInv, NEW c \in Callers, At(c, "opening"), ~IsWebsocket(c)
               PROVE  caller[c].stream \notin shut \cup {None}
    BY DEF OpensLive
  <2>1. /\ Known(c) /\ connections[caller[c].id] = caller[c].using
        /\ caller[c].stream = Connector(c).transport
    BY DEF IInv, Holds, At
  <2>2. Live(caller[c].using)
    BY <2>1 DEF IInv, AllLive, Known
  <2> QED
    BY <2>1, <2>2 DEF Live, Connector, IsWebsocket
<1> QED
  BY <1>1, ManagerInvariant, PTL

\* The manager and its connectors leave open what nobody can close any more in
\* the five ways named at NothingElseLeaks and in no other: when ConnectWithLibp2p
\* fails or an id is given to another connector (connmgr.go:56-97), when the
\* sidecar's answer to a connect is lost or it does not close what Disconnect gave
\* up (hyperswarm/connector.go:34-67), and when two callers dial one websocket
\* connector (websocket/connector.go:31-43).
THEOREM ManagerNothingElseLeaks == Spec => []NothingElseLeaks
<1>1. IInv => NothingElseLeaks
  BY DEF IInv
<1> QED
  BY <1>1, ManagerInvariant, PTL

\* A loop over all connections (upload.go, claim.go, event.go) that ends without
\* an error has one outcome of every connection that was there from its
\* beginning to its end.
THEOREM ManagerLoopsCover == Spec => LoopsCover
<1> DEFINE Covers(c) ==
        \A i \in caller[c].stable :
            /\ Len(caller[c].results[i]) = 1
            /\ caller[c].loop = "untilError" => caller[c].results[i][1]
<1>1. ASSUME IInv, Next, NEW c \in Callers, At(c, "ranging"), caller'[c].at = "idle"
      PROVE  Covers(c)
  <2>0. TypeOK /\ MutualExclusion /\ AllHold /\ AllLoop
    BY <1>1, InvParts
  <2>1. RangeEnds(c)
    <3>1. ASSUME NEW d \in Callers, Lock(d)
          PROVE  FALSE
      BY <1>1, <3>1 DEF Lock, At
    <3>2. ASSUME NEW d \in Callers, Unlocks(d)
          PROVE  FALSE
      <4>1. PICK label \in {"connect", "registering", "disconnect"},
                 callers \in [Callers -> CallerStates] :
              /\ Writing(d, label) /\ Unlock(d, callers)
              /\ \A r \in Callers : /\ callers[r].at = caller[r].at
                                     /\ callers[r].id = caller[r].id
                                     /\ callers[r].using = caller[r].using
                                     /\ callers[r].stream = caller[r].stream
        BY <2>0, <3>2, UnlocksWhat
      <4>2. c # d
        BY <1>1, <4>1 DEF Writing, At
      <4>3. caller'[c].at = caller[c].at
        BY <1>1, <2>0, <4>1, <4>2, UnlockOthers DEF At
      <4> QED
        BY <1>1, <4>3 DEF At
    <3>3. ASSUME NEW d \in Callers, Crashes(d)
          PROVE  FALSE
      <4>1. caller'[c].at = "panicked"
        BY <3>3 DEF Crashes, ConnectPanics, DisconnectPanics, RangeCrashes, Crash, Idle
      <4> QED
        BY <1>1, <4>1
    <3>4. ASSUME NEW d \in Callers, Steps(d)
          PROVE  Steps(c)
      BY <1>1, <2>0, <3>4, StepsType DEF AllHold, OnlyMoves, At
    <3>5. Steps(c)
      BY <1>1, <3>1, <3>2, <3>3, <3>4, NextSplit
    <3>6. ASSUME RangeNext(c)
          PROVE  FALSE
      <4>1. PICK i \in DOMAIN connections :
              caller' = [caller EXCEPT ![c].at = "getStream", ![c].id = i,
                                       ![c].seen = @ \cup {i}]
        BY <3>6 DEF RangeNext
      <4>2. caller'[c].at = "getStream"
        BY <2>0, <4>1 DEF TypeOK, CallerStates
      <4> QED
        BY <1>1, <4>2
    <3> QED
      BY <1>1, <3>5, <3>6
         DEF Steps, RLock, NewTransport, NoConnection, Lookup, Finds, OpenFails, OpenStream,
             Dial, WebSocketStream, CloseStream, Call, CallAll, Writing, At
  <2>2. caller[c].stable \subseteq caller[c].seen /\ caller[c].stable \subseteq Ids
    BY <2>0, <2>1, CallerFields DEF RangeEnds
  <2> QED
    BY <1>1, <2>0, <2>2 DEF AllLoop, Looping
<1>2. IInv /\ [Next]_vars =>
          [ \A c \in Callers : At(c, "ranging") /\ caller'[c].at = "idle" => Covers(c) ]_vars
  BY <1>1
<1> QED
  BY <1>2, ManagerInvariant, PTL DEF Spec, LoopsCover
=============================================================================
