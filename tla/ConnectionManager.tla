-------------------------- MODULE ConnectionManager --------------------------
(***************************************************************************)
(* GenericConnectionManager (lib/connmgr/connmgr.go) and its connectors    *)
(* (lib/connmgr/libp2p, websocket and hyperswarm): goroutines that connect,*)
(* disconnect and open streams, each under one sync.RWMutex that is held   *)
(* while the connector works on the network; and the operations that loop  *)
(* over all connections (UploadDag, SendUniversalEvent, ClaimOwnershipAll),*)
(* which range over the manager's live map without its lock.               *)
(*                                                                         *)
(* A transport is what a connector holds or dials: the libp2p host, the    *)
(* mux connection of the hyperswarm sidecar, one websocket connection. It  *)
(* is shut when this program closes it. That the network breaks a          *)
(* transport shows as a stream that fails to open.                         *)
(***************************************************************************)
EXTENDS Integers, FiniteSets, Functions, Sequences

CONSTANTS
    Callers,        \* goroutines that use the manager
    Loopers,        \* those of them that loop over all connections
    Ids,            \* connection ids
    Kinds,          \* the kinds of connectors in use
    MaxConnectors,  \* bound: connectors that are made
    MaxTransports,  \* bound: transports that are opened
    None

ASSUME ManagerAssumption ==
    /\ Loopers \subseteq Callers
    /\ Kinds \subseteq {"libp2p", "websocket", "hyperswarm"}
    /\ MaxConnectors \in Nat /\ MaxTransports \in Nat
    /\ None \notin Callers \cup Ids \cup Nat

VARIABLES
    connections,  \* gcm.connections: a partial map from Ids to connectors
    connectors,   \* every connector made: its kind, and its Host, Conn or
                  \* connectionID as transport, None when there is none
    opened,       \* transports opened, numbered from 1
    shut,         \* transports closed
    announced,    \* mutex: the writer that waits for the readers or has the lock
    readers,      \* mutex: the holders of the read lock
    caller,       \* what each goroutine is doing
    lost          \* history: open transports that were let go of without closing

networkVars == <<connectors, opened, shut, lost>>
mutexVars == <<announced, readers>>
vars == <<connections, networkVars, mutexVars, caller>>

(***************************************************************************)
(* A caller is at some point of a call on the connection id, using a       *)
(* connector and holding a stream on a transport. In a loop over all       *)
(* connections, seen holds the ids the iteration will not produce again,   *)
(* stable those registered ever since it began, and results their outcomes.*)
(***************************************************************************)
Idle == [at |-> "idle", id |-> None, using |-> None, stream |-> None,
         loop |-> "none", stable |-> {}, seen |-> {},
         results |-> [i \in Ids |-> <<>>]]

Init ==
    /\ connections = <<>>
    /\ connectors = <<>>
    /\ opened = 0 /\ shut = {} /\ lost = {}
    /\ announced = None /\ readers = {}
    /\ caller = [c \in Callers |-> Idle]

At(c, label) == caller[c].at = label
Goto(c, label) == caller' = [caller EXCEPT ![c].at = label]
Connector(c) == connectors[caller[c].using]
IsWebsocket(c) == Connector(c).kind = "websocket"
Known(c) == caller[c].id \in DOMAIN connections

\* The connections of the websocket streams in use, each of which its stream's
\* Close will close.
Streams == {caller[c].stream : c \in {d \in Callers : At(d, "open") /\ IsWebsocket(d)}}
-----------------------------------------------------------------------------
(* sync.RWMutex. A writer announces itself, which stops new readers, and   *)
(* waits for those it found; unlocking admits the readers that wait before *)
(* the next writer can announce itself.                                    *)

Lock(c) ==
    /\ At(c, "connect") \/ At(c, "disconnect")
    /\ announced = None
    /\ announced' = c
    /\ UNCHANGED <<connections, networkVars, readers, caller>>

RLock(c) ==
    /\ At(c, "getStream")
    /\ announced = None
    /\ readers' = readers \cup {c}
    /\ Goto(c, "lookup")
    /\ UNCHANGED <<connections, networkVars, announced>>

Writing(c, label) == At(c, label) /\ announced = c /\ readers = {}

\* The deferred Unlock, with the return to the caller; callers is what the
\* call did to the others.
Unlock(c, callers) ==
    LET admitted == {r \in Callers : callers[r].at = "getStream"}
    IN  /\ announced' = None
        /\ readers' = admitted
        /\ caller' = [r \in Callers |->
             IF r = c THEN Idle
             ELSE IF r \in admitted THEN [callers[r] EXCEPT !.at = "lookup"]
             ELSE callers[r]]

\* Mutant: a return that forgets the lock.
ReturnForgetsRUnlock(c, label) ==
    readers' = (IF label = "open" THEN readers \ {c} ELSE readers)

\* The deferred RUnlock, on the way to label.
RUnlock(c, label) == readers' = readers \ {c}

\* A panic, or an error the Go runtime does not let a program recover from:
\* the process is gone, and what it had with it.
Crash ==
    /\ caller' = [c \in Callers |-> [Idle EXCEPT !.at = "panicked"]]
    /\ connections' = <<>> /\ connectors' = <<>>
    /\ opened' = 0 /\ shut' = {} /\ lost' = {}
    /\ announced' = None /\ readers' = {}
-----------------------------------------------------------------------------
(* ConnectWithLibp2p, ConnectWithWebsocket, ConnectWithHyperswarm.         *)

Call(c, label) ==
    /\ At(c, "idle")
    /\ \E i \in Ids : caller' = [caller EXCEPT ![c].at = label, ![c].id = i]
    /\ UNCHANGED <<connections, networkVars, mutexVars>>

\* A host is made and a mux connection is asked for under the lock; a
\* websocket connector opens nothing before its first stream.
NewTransport(c) ==
    /\ Writing(c, "connect")
    /\ Len(connectors) < MaxConnectors
    /\ \E k \in Kinds :
        LET t == IF k = "websocket" THEN None ELSE opened + 1
        IN  /\ t # None => t <= MaxTransports
            /\ opened' = IF t = None THEN opened ELSE t
            /\ connectors' = Append(connectors, [kind |-> k, transport |-> t])
    /\ caller' = [caller EXCEPT ![c].at = "registering",
                                ![c].using = Len(connectors) + 1]
    /\ UNCHANGED <<connections, shut, lost, mutexVars>>

\* The error message of a hyperswarm connector that gets no answer slices
\* its remote key, which panics on a key shorter than 16 characters.
ConnectPanics(c) == Writing(c, "connect") /\ "hyperswarm" \in Kinds /\ Crash

\* The host exists and its peer cannot be reached: it stays open.
HostConnectFails(c) ==
    /\ Writing(c, "registering")
    /\ Connector(c).kind = "libp2p"
    /\ lost' = lost \cup {Connector(c).transport}
    /\ Unlock(c, caller)
    /\ UNCHANGED <<connections, connectors, opened, shut>>

\* The sidecar opened the mux connection, and its answer was lost or came when
\* the caller's context was done: nobody knows its connectionID.
MuxConnectFails(c) ==
    /\ Writing(c, "connect")
    /\ "hyperswarm" \in Kinds /\ opened < MaxTransports
    /\ opened' = opened + 1
    /\ lost' = lost \cup {opened + 1}
    /\ Unlock(c, caller)
    /\ UNCHANGED <<connections, connectors, shut>>

\* A connector that had the id is dropped as it is, with its host or its mux
\* connection. The connection of a websocket connector is closed already, or
\* is that of a stream.
Register(c) ==
    /\ Writing(c, "registering")
    /\ connections' = [i \in DOMAIN connections \cup {caller[c].id} |->
                          IF i = caller[c].id THEN caller[c].using ELSE connections[i]]
    /\ lost' = lost \cup {connectors[k].transport : k \in
                             {j \in {connections[i] : i \in DOMAIN connections \cap {caller[c].id}} :
                                  connectors[j].kind # "websocket"}}
    /\ Unlock(c, caller)
    /\ UNCHANGED <<connectors, opened, shut>>
-----------------------------------------------------------------------------
(* Disconnect.                                                             *)

\* Mutant: the connector is only forgotten.
ShutsNothing(k) == UNCHANGED <<shut, connectors, lost>>

\* A hyperswarm connector forgets its connectionID with it.
Shuts(k) ==
    /\ shut' = shut \cup {connectors[k].transport}
    /\ connectors' = IF connectors[k].kind = "hyperswarm"
                       THEN [connectors EXCEPT ![k].transport = None] ELSE connectors
    /\ UNCHANGED lost

\* The sidecar does not close the mux connection, and the connector forgets
\* its connectionID all the same. The Close of a host or of a websocket
\* connection releases it even if it reports an error.
LeavesOpen(k) ==
    /\ connectors[k].kind = "hyperswarm"
    /\ lost' = lost \cup {connectors[k].transport}
    /\ connectors' = [connectors EXCEPT ![k].transport = None]
    /\ UNCHANGED shut

\* The id goes even if the connector reports an error. An iteration that has
\* seen it may see it again if it comes back.
Forgets(c) ==
    LET i == caller[c].id
    IN  /\ connections' = Restrict(connections, DOMAIN connections \ {i})
        /\ Unlock(c, [r \in Callers |->
                        [caller[r] EXCEPT !.seen = @ \ {i}, !.stable = @ \ {i},
                                          !.results[i] = <<>>]])
        /\ UNCHANGED opened

Disconnects(c) ==
    /\ Writing(c, "disconnect") /\ Known(c)
    /\ connectors[connections[caller[c].id]].transport # None
    /\ Forgets(c)

Disconnect(c) == Disconnects(c) /\ Shuts(connections[caller[c].id])

DisconnectFails(c) == Disconnects(c) /\ LeavesOpen(connections[caller[c].id])

\* Nothing to disconnect; or a connect that opened nothing, because of a
\* malformed address or of an error of the sidecar.
ReturnsEarly(c) ==
    /\ Writing(c, "connect") \/ (Writing(c, "disconnect") /\ ~Known(c))
    /\ Unlock(c, caller)
    /\ UNCHANGED <<connections, networkVars>>

\* Conn of a websocket connector that never opened a stream is nil, and
\* closing it panics.
DisconnectPanics(c) ==
    /\ Writing(c, "disconnect") /\ Known(c)
    /\ connectors[connections[caller[c].id]].transport = None
    /\ Crash
-----------------------------------------------------------------------------
(* The loops over all connections. UploadDag and SendUniversalEvent go on  *)
(* until one connection fails, ClaimOwnershipAll collects what each says.  *)

CallAll(c) ==
    /\ At(c, "idle") /\ c \in Loopers
    /\ \E l \in {"untilError", "collecting"} :
         caller' = [caller EXCEPT ![c].at = "ranging", ![c].loop = l,
                                  ![c].stable = DOMAIN connections]
    /\ UNCHANGED <<connections, networkVars, mutexVars>>

RangeNext(c) ==
    /\ At(c, "ranging")
    /\ \E i \in DOMAIN connections \ caller[c].seen :
         caller' = [caller EXCEPT ![c].at = "getStream", ![c].id = i,
                                  ![c].seen = @ \cup {i}]
    /\ UNCHANGED <<connections, networkVars, mutexVars>>

\* Every key is produced that was there from the beginning; one that was
\* added meanwhile may be skipped.
RangeEnds(c) ==
    /\ At(c, "ranging")
    /\ caller[c].stable \subseteq caller[c].seen
    /\ caller' = [caller EXCEPT ![c] = Idle]
    /\ UNCHANGED <<connections, networkVars, mutexVars>>

\* "concurrent map iteration and map write"
RangeCrashes(c) ==
    /\ At(c, "ranging")
    /\ \E d \in Callers : \/ Writing(d, "registering")
                          \/ Writing(d, "disconnect") /\ Known(d)
    /\ Crash

\* A loop that collects makes nothing of the outcome.
Noted(c, ok) ==
    [i \in Ids |-> IF i = caller[c].id /\ i \in caller[c].stable
                     THEN Append(caller[c].results[i], ok \/ caller[c].loop = "collecting")
                     ELSE caller[c].results[i]]

\* Mutant: a loop that should stop goes on after a failure.
GoesOn(c, ok) ==
    IF caller[c].loop = "none" THEN Idle
    ELSE [caller[c] EXCEPT !.at = "ranging", !.id = None, !.using = None,
              !.stream = None, !.results = Noted(c, ok)]

\* What a caller goes on with after its work on one connection.
Outcome(c, ok) ==
    IF caller[c].loop = "none" \/ (caller[c].loop = "untilError" /\ ~ok) THEN Idle
    ELSE [caller[c] EXCEPT !.at = "ranging", !.id = None, !.using = None,
              !.stream = None, !.results = Noted(c, ok)]
-----------------------------------------------------------------------------
(* GetStream and OpenStream.                                               *)

NoConnection(c) ==
    /\ At(c, "lookup") /\ ~Known(c)
    /\ RUnlock(c, "idle")
    /\ caller' = [caller EXCEPT ![c] = Outcome(c, FALSE)]
    /\ UNCHANGED <<connections, networkVars, announced>>

\* The connector is found, and what OpenStream goes on with is read: the
\* host, or the connectionID under the connector's own mutex. A websocket
\* connector goes on with nothing it has.
Finds(c) ==
    /\ At(c, "lookup") /\ Known(c)
    /\ LET k == connections[caller[c].id]
       IN  caller' = [caller EXCEPT ![c].at = "opening", ![c].using = k,
             ![c].stream = IF connectors[k].kind = "websocket" THEN None
                           ELSE connectors[k].transport]
    /\ UNCHANGED <<connections, networkVars, announced>>

\* Mutant: GetStream gives the lock back before OpenStream.
LookupUnlocks(c) == Finds(c) /\ readers' = readers \ {c}

Lookup(c) == Finds(c) /\ UNCHANGED readers

OpenFails(c) ==
    /\ At(c, "opening")
    /\ RUnlock(c, "idle")
    /\ caller' = [caller EXCEPT ![c] = Outcome(c, FALSE)]
    /\ UNCHANGED <<connections, networkVars, announced>>

OpenStream(c) ==
    /\ At(c, "opening") /\ ~IsWebsocket(c)
    /\ RUnlock(c, "open")
    /\ Goto(c, "open")
    /\ UNCHANGED <<connections, networkVars, announced>>

\* wsc.Conn = conn, under a lock that other readers share: the connection of
\* one that has dialed and made no stream yet is lost.
Dial(c) ==
    /\ At(c, "opening") /\ IsWebsocket(c)
    /\ opened < MaxTransports
    /\ opened' = opened + 1
    /\ lost' = lost \cup ({Connector(c).transport} \ (shut \cup Streams \cup {None}))
    /\ connectors' = [connectors EXCEPT ![caller[c].using].transport = opened']
    /\ Goto(c, "dialed")
    /\ UNCHANGED <<connections, shut, mutexVars>>

\* The stream is made of wsc.Conn, whoever set it last.
WebSocketStream(c) ==
    /\ At(c, "dialed")
    /\ RUnlock(c, "open")
    /\ caller' = [caller EXCEPT ![c].at = "open", ![c].stream = Connector(c).transport]
    /\ UNCHANGED <<connections, networkVars, announced>>

\* The caller is done with its stream, and its work there succeeded or not.
\* A websocket stream closes its connection, the others only themselves.
CloseStream(c) ==
    /\ At(c, "open")
    /\ shut' = IF IsWebsocket(c) THEN shut \cup {caller[c].stream} ELSE shut
    /\ \E ok \in BOOLEAN : caller' = [caller EXCEPT ![c] = Outcome(c, ok)]
    /\ UNCHANGED <<connections, connectors, opened, lost, mutexVars>>
-----------------------------------------------------------------------------
Works(c) ==
    \/ Lock(c) \/ RLock(c)
    \/ NewTransport(c) \/ HostConnectFails(c) \/ MuxConnectFails(c) \/ Register(c)
    \/ ConnectPanics(c) \/ ReturnsEarly(c)
    \/ Disconnect(c) \/ DisconnectFails(c) \/ DisconnectPanics(c)
    \/ RangeNext(c) \/ RangeEnds(c) \/ RangeCrashes(c)
    \/ NoConnection(c) \/ Lookup(c) \/ OpenFails(c) \/ OpenStream(c)
    \/ Dial(c) \/ WebSocketStream(c) \/ CloseStream(c)

Next ==
    \E c \in Callers :
        \/ Works(c)
        \/ Call(c, "connect") \/ Call(c, "disconnect") \/ Call(c, "getStream")
        \/ CallAll(c)

\* Calls of the network return, and a goroutine that can run runs. The
\* mutex is fair to a waiting writer (SF: others may take it first).
Spec == Init /\ [][Next]_vars /\ \A c \in Callers : SF_vars(Works(c))
-----------------------------------------------------------------------------
\* A stream is opened only on the host or the mux connection of a connector
\* that no Disconnect has closed meanwhile, although OpenStream reads its
\* connectionID under a mutex it gives back before it uses it.
OpensLive ==
    \A c \in Callers :
        At(c, "opening") /\ ~IsWebsocket(c) => caller[c].stream \notin shut \cup {None}

\* What somebody is going to close: the host or mux connection of a registered
\* connector, and what a caller is about to register, to make a stream of or to
\* close with its stream. That a connector knows its last websocket connection
\* does not count.
Closable ==
    {connectors[k].transport : k \in {j \in {connections[i] : i \in DOMAIN connections} :
                                          connectors[j].kind # "websocket"}}
    \cup {Connector(c).transport : c \in {d \in Callers : At(d, "registering") \/ At(d, "dialed")}}
    \cup Streams

\* The transports that stay open and that nobody can close any more are those
\* lost in five ways, and no others: the host of a failed connect, the mux
\* connection whose connect got no answer, the one whose close failed, the host
\* or mux connection of a connector whose id was given to another, and the
\* websocket connection dialed over before its stream was made. In particular
\* a websocket connection is lost by two callers that open streams of one
\* connector at once and in no other way.
NothingElseLeaks == (1..opened) \ (shut \cup Closable \cup {None}) = lost

\* A loop over all connections that returns without an error has worked on
\* every relay that stayed connected exactly once, whatever was connected and
\* disconnected meanwhile, and unless it collects outcomes none has failed.
LoopsCover ==
    [][ \A c \in Callers :
          At(c, "ranging") /\ caller'[c].at = "idle" =>
              \A i \in caller[c].stable :
                  /\ Len(caller[c].results[i]) = 1
                  /\ caller[c].loop = "untilError" => caller[c].results[i][1] ]_vars

\* Every call ends, the loops included, whatever the others do, unless the
\* program crashed.
CallsEnd == \A c \in Callers : ~At(c, "idle") ~> At(c, "idle") \/ At(c, "panicked")

\* Two websocket streams in use have a connection each.
StreamOwnsConnection ==
    \A c, d \in Callers :
        /\ c # d
        /\ At(c, "open") /\ At(d, "open")
        /\ IsWebsocket(c) /\ IsWebsocket(d)
        => caller[c].stream # caller[d].stream
-----------------------------------------------------------------------------
(* The inductive invariant behind the safety properties, in named parts.   *)

Labels == {"idle", "connect", "registering", "disconnect", "getStream", "lookup",
           "opening", "dialed", "open", "ranging", "panicked"}

Transports == (1..opened) \cup {None}

CallerStates ==
    [at : Labels, id : Ids \cup {None}, using : Nat \cup {None}, stream : Transports,
     loop : {"none", "untilError", "collecting"},
     stable : SUBSET Ids, seen : SUBSET Ids, results : [Ids -> Seq(BOOLEAN)]]

TypeOK ==
    /\ opened \in Nat /\ shut \subseteq 1..opened /\ lost \subseteq 1..opened
    /\ connectors \in Seq([kind : Kinds, transport : Transports])
    /\ DOMAIN connections \subseteq Ids
    /\ \A i \in DOMAIN connections : connections[i] \in 1..Len(connectors)
    /\ announced \in Callers \cup {None} /\ readers \subseteq Callers
    /\ caller \in [Callers -> CallerStates]

\* The lock is shared by the callers between GetStream and the return of
\* OpenStream, and only its writer, alone, makes and registers connectors.
MutualExclusion ==
    /\ \A c \in Callers : c \in readers <=> caller[c].at \in {"lookup", "opening", "dialed"}
    /\ announced # None => caller[announced].at \in {"connect", "registering", "disconnect"}
    /\ \A c \in Callers : At(c, "registering") => announced = c /\ readers = {}

\* A transport belongs to one connector, and a connector to one id, if any.
OneOwner ==
    /\ \A j, k \in 1..Len(connectors) :
           j # k /\ connectors[j].transport # None =>
               connectors[j].transport # connectors[k].transport
    /\ \A i, j \in DOMAIN connections : i # j => connections[i] # connections[j]

\* The host or mux connection of a connector is open as long as it can be used.
Live(k) ==
    connectors[k].kind # "websocket" => connectors[k].transport \notin shut \cup {None}

AllLive == \A i \in DOMAIN connections : Live(connections[i])

\* The connection a websocket connector knows was not lost.
NoneLost ==
    \A k \in 1..Len(connectors) :
        connectors[k].kind = "websocket" => connectors[k].transport \notin lost

\* What a caller works with at each point of its call.
Holds(c) ==
    /\ caller[c].at \in {"connect", "registering", "disconnect", "getStream", "lookup",
                         "opening", "dialed"} => caller[c].id \in Ids
    /\ caller[c].at \in {"registering", "opening", "dialed", "open"} =>
           caller[c].using \in 1..Len(connectors)
    /\ At(c, "registering") =>
           /\ Live(caller[c].using)
           /\ IsWebsocket(c) => Connector(c).transport = None
           /\ \A i \in DOMAIN connections : connections[i] # caller[c].using
    /\ caller[c].at \in {"opening", "dialed"} =>
           Known(c) /\ connections[caller[c].id] = caller[c].using
    /\ At(c, "opening") /\ ~IsWebsocket(c) => caller[c].stream = Connector(c).transport
    /\ At(c, "dialed") => IsWebsocket(c) /\ Connector(c).transport # None
    /\ At(c, "open") /\ IsWebsocket(c) =>
           /\ caller[c].stream # None
           /\ \A k \in 1..Len(connectors) :
                  connectors[k].kind # "websocket" =>
                      connectors[k].transport # caller[c].stream

\* How far a loop has come: the ids of stable it has seen, the one it works on
\* excepted, have one outcome each, and the other ids have none.
Looping(c) ==
    /\ caller[c].loop = "none" => caller[c].stable = {} /\ caller[c].seen = {}
    /\ At(c, "idle") => caller[c].loop = "none"
    /\ At(c, "ranging") => caller[c].loop # "none"
    /\ ~At(c, "ranging") /\ caller[c].id \in caller[c].stable =>
           caller[c].id \in caller[c].seen
    /\ \A i \in Ids :
           IF i \in caller[c].stable \cap caller[c].seen /\ (At(c, "ranging") \/ i # caller[c].id)
           THEN /\ Len(caller[c].results[i]) = 1
                /\ caller[c].loop = "untilError" => caller[c].results[i][1]
           ELSE caller[c].results[i] = <<>>

IInv ==
    /\ TypeOK /\ MutualExclusion /\ OneOwner /\ AllLive /\ NoneLost /\ NothingElseLeaks
    /\ \A c \in Callers : Holds(c) /\ Looping(c)
=============================================================================
