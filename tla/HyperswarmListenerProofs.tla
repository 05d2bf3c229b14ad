---------------------- MODULE HyperswarmListenerProofs ----------------------
(***************************************************************************)
(* Proofs about HyperswarmListener, for every number of sidecars, protocols*)
(* and TCP listeners.                                                      *)
(***************************************************************************)
EXTENDS HyperswarmListener, TLAPS

LEMMA NotNone == \A n \in Nat : n # None
  BY ListenerAssumption

LEMMA MoreHandlers ==
    ASSUME TypeOK, made' \in Nat, made' >= made
    PROVE  /\ Handlers \subseteq Handlers' /\ 1..made \subseteq 1..made'
           /\ listeners \in Handlers' /\ ports \in [Sidecars -> Handlers']
<1>1. 1..made \subseteq 1..made'
  BY DEF TypeOK
<1>2. Handlers \subseteq Handlers'
  BY <1>1 DEF Handlers
<1> QED
  BY <1>1, <1>2 DEF TypeOK

LEMMA NoPortsType == NoPorts \in Handlers
  BY DEF NoPorts, Handlers

\* What Reattach and Close leave of the sidecar's registrations.
LEMMA ServesType ==
    ASSUME TypeOK, NEW s \in Sidecars, NEW done \in SUBSET Protocols, Serves(s, done)
    PROVE  /\ ports' \in [Sidecars -> Handlers] /\ servers' \subseteq alive'
           /\ alive' = alive /\ s \in servers'
           /\ \A p \in done : ports'[s][p] = listeners[p]
<1>1. [p \in Protocols |-> IF p \in done THEN listeners[p] ELSE None] \in Handlers
  BY DEF TypeOK, Handlers
<1> QED
  BY <1>1 DEF Serves, TypeOK

LEMMA ServerClosesType ==
    ASSUME TypeOK, OwnServer, ServerCloses, UNCHANGED alive
    PROVE  /\ ports' \in [Sidecars -> Handlers] /\ servers' \subseteq alive'
           /\ unsure' \in BOOLEAN
  BY NoPortsType DEF ServerCloses, OwnServer, TypeOK

LEMMA TypeInit ==
    ASSUME Init
    PROVE  IInv
<1>1. Registered = {}
  BY DEF Init, Registered, NoPorts
<1>2. TypeOK
  BY NoPortsType DEF Init, TypeOK, Handlers, NoPorts
<1> QED
  BY <1>1, <1>2 DEF Init, IInv, OwnServer, OpenUntilClosed, NoUnknownServer,
                    HandlersReachable, AnnouncedOnOwnServer

\* A new TCP listener is none of the earlier ones.
LEMMA MadeListener ==
    ASSUME TypeOK, made' = made + 1
    PROVE  /\ made' \in Nat /\ made' >= made /\ made' \in 1..made' /\ made' # None
           /\ made' \notin 1..made
  BY NotNone DEF TypeOK

\* SetStreamHandler, which succeeds or fails once it has its listener.
LEMMA HandlerStep ==
    ASSUME IInv, NEW p \in Protocols, SetStreamHandler(p) \/ SetStreamHandlerFails(p)
    PROVE  IInv'
<1>1. /\ made' = made + 1 /\ serverID \in Sidecars /\ serverID = client
      /\ UNCHANGED <<client, serverID, cancelled, closed, alive, servers, snapshot, announced>>
  BY DEF SetStreamHandler, SetStreamHandlerFails, serverVars, closeVars, announceVars,
         IInv, OwnServer, TypeOK
<1>2. /\ made' \in Nat /\ made' >= made /\ made' \in 1..made' /\ made' # None
      /\ 1..made \subseteq 1..made'
      /\ listeners \in Handlers' /\ ports \in [Sidecars -> Handlers']
  BY <1>1, MadeListener, MoreHandlers DEF IInv
<1>3. [ports EXCEPT ![serverID][p] = made'] \in [Sidecars -> Handlers']
  BY <1>1, <1>2 DEF Handlers
<1>4. [listeners EXCEPT ![p] = made'] \in Handlers'
  BY <1>2 DEF Handlers
<1>5. TypeOK'
  BY <1>1, <1>2, <1>3, <1>4 DEF SetStreamHandler, SetStreamHandlerFails, IInv, TypeOK
<1>6. OwnServer' /\ NoUnknownServer'
  BY <1>1, ListenerAssumption DEF IInv, OwnServer, NoUnknownServer, AnnouncedOnOwnServer
<1>7. CASE SetStreamHandler(p)
  <2>1. /\ listeners'[p] = made' /\ open' = open \cup {made'}
        /\ \A q \in Protocols \ {p} : listeners'[q] = listeners[q]
        /\ ports'[client][p] = made' /\ unsure' = unsure
        /\ \A q \in Protocols \ {p} : ports'[client][q] = ports[client][q]
    BY <1>1, <1>7 DEF SetStreamHandler, IInv, TypeOK, Handlers
  <2>2. OpenUntilClosed'
    BY <1>1, <2>1 DEF IInv, OpenUntilClosed, Registered
  <2>3. HandlersReachable'
    BY <1>1, <2>1 DEF IInv, HandlersReachable, Registered
  <2> QED
    BY <1>5, <1>6, <2>2, <2>3 DEF IInv
<1>8. CASE SetStreamHandlerFails(p)
  <2>1. unsure' /\ UNCHANGED <<listeners, open>>
    BY <1>8 DEF SetStreamHandlerFails
  <2> QED
    BY <1>1, <1>5, <1>6, <2>1
       DEF IInv, OpenUntilClosed, HandlersReachable, Registered
<1> QED
  BY <1>7, <1>8

LEMMA ReattachStep ==
    ASSUME IInv, NEW s \in Sidecars, Reattach(s) \/ ReattachFails(s)
    PROVE  IInv'
<1>1. Registered \in SUBSET Protocols
  BY DEF Registered
<1>2. CASE Reattach(s)
  <2>1. /\ ~cancelled /\ Serves(s, Registered) /\ client' = s /\ serverID' = s /\ unsure' = FALSE
        /\ UNCHANGED <<listeners, made, open, accepting, cancelled, closed, snapshot, announced>>
    BY <1>2 DEF Reattach, MovesTo, handlerVars, closeVars, announceVars
  <2>2. /\ ports' \in [Sidecars -> Handlers] /\ servers' \subseteq alive' /\ alive' = alive
        /\ s \in servers' /\ \A p \in Registered : ports'[s][p] = listeners[p]
    BY <1>1, <2>1, ServesType DEF IInv
  <2>3. TypeOK'
    BY <2>1, <2>2 DEF IInv, TypeOK, Handlers
  <2>4. OwnServer' /\ OpenUntilClosed' /\ NoUnknownServer'
    BY <2>1, ListenerAssumption
       DEF IInv, OwnServer, OpenUntilClosed, NoUnknownServer, AnnouncedOnOwnServer, Registered
  <2>5. HandlersReachable'
    BY <2>1, <2>2 DEF IInv, OpenUntilClosed, HandlersReachable, Registered
  <2> QED
    BY <2>3, <2>4, <2>5 DEF IInv
<1>3. CASE ReattachFails(s)
  <2>1. /\ unsure' = TRUE
        /\ UNCHANGED <<client, serverID, listeners, made, open, accepting, cancelled, closed,
                       snapshot, announced>>
    BY <1>3 DEF ReattachFails, localVars, serverVars, handlerVars, closeVars, announceVars
  <2>2. ports' \in [Sidecars -> Handlers] /\ servers' \subseteq alive' /\ alive' = alive
    BY <1>1, <1>3, ServesType DEF ReattachFails, IInv, TypeOK, sidecarVars
  <2>3. TypeOK'
    BY <2>1, <2>2 DEF IInv, TypeOK, Handlers
  <2> QED
    BY <2>1, <2>3
       DEF IInv, OwnServer, OpenUntilClosed, NoUnknownServer, AnnouncedOnOwnServer, Registered,
           HandlersReachable
<1> QED
  BY <1>2, <1>3

LEMMA InvStep ==
    ASSUME IInv, [Next]_vars
    PROVE  IInv'
<1> USE DEF IInv, OwnServer, OpenUntilClosed, NoUnknownServer, HandlersReachable,
            AnnouncedOnOwnServer, Registered, localVars, serverVars, handlerVars, closeVars,
            announceVars, sidecarVars
<1>1. CASE CreateServer \/ CreateServerFails
  <2>1. TypeOK'
    BY <1>1, NoPortsType DEF CreateServer, CreateServerFails, TypeOK, Handlers
  <2> QED
    BY <1>1, <2>1, ListenerAssumption DEF CreateServer, CreateServerFails, TypeOK
<1>2. ASSUME NEW p \in Protocols, SetStreamHandler(p) \/ SetStreamHandlerFails(p)
      PROVE  IInv'
  BY <1>2, HandlerStep
<1>3. ASSUME NEW s \in Sidecars, Reattach(s) \/ ReattachFails(s)
      PROVE  IInv'
  BY <1>3, ReattachStep
<1>4. CASE Cancel
  BY <1>4 DEF Cancel, TypeOK, Handlers
<1>5. CASE CloseRest
  <2>1. TypeOK'
    BY <1>5, ServerClosesType DEF CloseRest, TypeOK, Handlers
  <2> QED
    BY <1>5, <2>1 DEF CloseRest, ServerCloses
<1>6. CASE AnnounceReads
  BY <1>6 DEF AnnounceReads, TypeOK, Handlers
<1>7. CASE AnnounceCalls
  BY <1>7 DEF AnnounceCalls, Announces, TypeOK, Handlers
<1>8. ASSUME NEW l \in accepting, AcceptFails(l)
      PROVE  IInv'
  BY <1>8 DEF AcceptFails, TypeOK, Handlers
<1>9. ASSUME NEW s \in Sidecars, SidecarDies(s)
      PROVE  IInv'
  <2>1. TypeOK'
    BY <1>9, NoPortsType DEF SidecarDies, TypeOK, Handlers
  <2> QED
    BY <1>9, <2>1 DEF SidecarDies, TypeOK
<1>10. CASE UNCHANGED vars
  BY <1>10 DEF vars, TypeOK, Handlers
<1> QED
  BY <1>1, <1>2, <1>3, <1>4, <1>5, <1>6, <1>7, <1>8, <1>9, <1>10 DEF Next
-----------------------------------------------------------------------------
(* The theorems.                                                           *)

\* The inductive invariant: the types, that serverID is a server of client,
\* that the handlers' listeners are open until Close, and that no server is
\* left unknown without a failed call.
THEOREM ListenerInvariant == Spec => []IInv
<1>1. Init => IInv
  BY TypeInit
<1>2. IInv /\ [Next]_vars => IInv'
  BY InvStep
<1> QED
  BY <1>1, <1>2, PTL DEF Spec

\* Unless a call failed since, every protocol with a handler (SetStreamHandler,
\* listener.go:147-180) is reached through the sidecar the listener points at.
THEOREM ListenerHandlersReachable == Spec => []HandlersReachable
<1>1. IInv => HandlersReachable
  BY DEF IInv
<1> QED
  BY <1>1, ListenerInvariant, PTL

\* Announce (listener.go:204-212) calls a sidecar with the server it has there.
THEOREM ListenerAnnouncedOnOwnServer == Spec => []AnnouncedOnOwnServer
<1>1. IInv => AnnouncedOnOwnServer
  BY DEF IInv, OwnServer
<1> QED
  BY <1>1, ListenerInvariant, PTL

\* Reattach changes the client with the server, and not before every protocol
\* is registered there (listener.go:97).
THEOREM ListenerClientMovesWhole == Spec => ClientMovesWhole
<1>1. ASSUME IInv, Next, client' # client
      PROVE  /\ serverID' = client'
             /\ \A p \in Registered : ports'[client'][p] = listeners[p]
  <2>1. PICK s \in Sidecars : Reattach(s)
    BY <1>1 DEF Next, CreateServer, CreateServerFails, SetStreamHandler, SetStreamHandlerFails,
       ReattachFails, Cancel, CloseRest, AnnounceReads, AnnounceCalls, Announces, AcceptFails,
       SidecarDies, localVars, serverVars
  <2>2. Registered \in SUBSET Protocols
    BY DEF Registered
  <2> QED
    BY <1>1, <2>1, <2>2, ServesType DEF Reattach, MovesTo, IInv
<1>2. IInv /\ [Next]_vars =>
        [ client' # client =>
            /\ serverID' = client'
            /\ \A p \in Registered : ports'[client'][p] = listeners[p] ]_vars
  BY <1>1
<1> QED
  BY <1>2, ListenerInvariant, PTL DEF Spec, ClientMovesWhole

\* Close (listener.go:228-250) closes the listener of every protocol, and leaves no
\* server on the sidecar it points at unless a call failed.
THEOREM ListenerCloseEndsServing == Spec => CloseEndsServing
<1>1. ASSUME IInv, Next, closed' # closed
      PROVE  /\ \A p \in Registered : listeners[p] \notin open'
             /\ unsure' \/ client \notin servers'
  <2>1. CloseRest
    BY <1>1 DEF Next, CreateServer, CreateServerFails, SetStreamHandler, SetStreamHandlerFails,
       Reattach, ReattachFails, Cancel, AnnounceReads, AnnounceCalls, Announces, AcceptFails,
       SidecarDies, localVars, closeVars
  <2>2. \A p \in Registered : listeners[p] \notin open'
    BY <2>1 DEF CloseRest
  <2>3. unsure' \/ client \notin servers'
    BY <1>1, <2>1 DEF CloseRest, ServerCloses, IInv, OwnServer, NoUnknownServer, TypeOK
  <2> QED
    BY <2>2, <2>3
<1>2. IInv /\ [Next]_vars =>
        [ closed' # closed =>
            /\ \A p \in Registered : listeners[p] \notin open'
            /\ unsure' \/ client \notin servers' ]_vars
  BY <1>1
<1> QED
  BY <1>2, ListenerInvariant, PTL DEF Spec, CloseEndsServing
=============================================================================
