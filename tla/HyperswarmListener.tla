------------------------- MODULE HyperswarmListener -------------------------
(***************************************************************************)
(* A HyperswarmListener (lib/connmgr/hyperswarm/listener.go): the DHT      *)
(* server it keeps on a sidecar process, one local TCP listener with an    *)
(* accept loop per protocol, and its move to another sidecar (Reattach).   *)
(*                                                                         *)
(* The methods hold mu from beginning to end, so each is one step, with an *)
(* outcome per remote call that can fail. A call that fails may have been  *)
(* carried out all the same: only its answer is lost. Close cancels the    *)
(* context before it takes mu, and Announce calls after it has released    *)
(* mu: these are two steps.                                                *)
(*                                                                         *)
(* A TCP listener is a number, its port and its handler go with it. A      *)
(* server has one key, that of the seed, and is named by its sidecar.      *)
(***************************************************************************)
EXTENDS Integers, FiniteSets

CONSTANTS
    Protocols,
    Sidecars,      \* sidecar processes, reached by one client each
    None,          \* no server, no listener
    MaxListeners   \* bound: TCP listeners made

ASSUME ListenerAssumption ==
    /\ None \notin Sidecars \cup Nat
    /\ MaxListeners \in Nat

VARIABLES
    client,     \* client
    serverID,   \* the sidecar serverID is a server of, or None
    listeners,  \* listeners, and handlers: the TCP listener of each protocol
    made,       \* TCP listeners made so far
    open,       \* those not closed
    accepting,  \* those whose accept loop runs
    cancelled,  \* ctx is done
    closed,     \* Close has returned
    alive,      \* sidecars that have not died
    servers,    \* sidecars that run the server
    ports,      \* ports[s][p]: where sidecar s proxies the streams of protocol p
    unsure,     \* history: a call failed, and none repaired what it left
    snapshot,   \* the client and the server Announce has read, or None
    announced   \* history: the pairs Announce was called with

serverVars == <<client, serverID>>
handlerVars == <<listeners, made, open, accepting>>
closeVars == <<cancelled, closed>>
localVars == <<serverVars, handlerVars, closeVars>>
sidecarVars == <<alive, servers, ports>>
announceVars == <<snapshot, announced>>
vars == <<localVars, sidecarVars, unsure, announceVars>>

NoPorts == [p \in Protocols |-> None]

Init ==
    /\ client \in Sidecars /\ serverID = None
    /\ listeners = NoPorts
    /\ made = 0 /\ open = {} /\ accepting = {}
    /\ cancelled = FALSE /\ closed = FALSE
    /\ alive = Sidecars /\ servers = {}
    /\ ports = [s \in Sidecars |-> NoPorts]
    /\ unsure = FALSE
    /\ snapshot = None /\ announced = {}

Registered == {p \in Protocols : listeners[p] # None}
-----------------------------------------------------------------------------
(* CreateServer and CreateServerFromSeed, called until one succeeds, before*)
(* the handlers are set. A server that is created starts without protocols *)
(* and replaces one of the same key.                                       *)

CreateServer ==
    /\ serverID = None /\ client \in alive
    /\ servers' = servers \cup {client}
    /\ ports' = [ports EXCEPT ![client] = NoPorts]
    /\ serverID' = client
    /\ unsure' = FALSE
    /\ UNCHANGED <<client, handlerVars, closeVars, alive, announceVars>>

CreateServerFails ==
    /\ serverID = None
    /\ servers' \in {servers, servers \cup ({client} \cap alive)}
    /\ unsure' = TRUE
    /\ UNCHANGED <<localVars, alive, ports, announceVars>>
-----------------------------------------------------------------------------
(* SetStreamHandler. A closed listener is not refused.                     *)

\* The listener of an earlier call for p stays open, and its loop runs on.
SetStreamHandler(p) ==
    /\ serverID # None /\ client \in alive
    /\ made < MaxListeners
    /\ made' = made + 1
    /\ open' = open \cup {made'}
    /\ ports' = [ports EXCEPT ![serverID][p] = made']
    /\ listeners' = [listeners EXCEPT ![p] = made']
    /\ accepting' = accepting \cup {made'}
    /\ UNCHANGED <<serverVars, closeVars, alive, servers, unsure, announceVars>>

\* The protocol cannot be registered, or the answer does not come: the new
\* listener is closed.
SetStreamHandlerFails(p) ==
    /\ serverID # None
    /\ made < MaxListeners
    /\ made' = made + 1
    /\ \/ UNCHANGED ports
       \/ client \in alive /\ ports' = [ports EXCEPT ![serverID][p] = made']
    /\ unsure' = TRUE
    /\ UNCHANGED <<serverVars, listeners, open, accepting, closeVars, alive, servers,
                   announceVars>>
-----------------------------------------------------------------------------
(* Reattach to the client of sidecar s, which may be the same process.     *)

\* The sidecar gets a new server, with the protocols of done.
Serves(s, done) ==
    /\ s \in alive
    /\ servers' = servers \cup {s}
    /\ ports' = [ports EXCEPT ![s] =
                    [p \in Protocols |-> IF p \in done THEN listeners[p] ELSE None]]
    /\ UNCHANGED alive

MovesTo(s) == client' = s /\ serverID' = s

\* Mutant: the protocols of the previous sidecar are not registered.
ReattachForgets(s) ==
    /\ ~cancelled
    /\ Serves(s, {})
    /\ MovesTo(s)
    /\ unsure' = FALSE
    /\ UNCHANGED <<handlerVars, closeVars, announceVars>>

Reattach(s) ==
    /\ ~cancelled
    /\ Serves(s, Registered)
    /\ MovesTo(s)
    /\ unsure' = FALSE
    /\ UNCHANGED <<handlerVars, closeVars, announceVars>>

\* Mutant: the new client is kept before the protocols are registered.
ReattachFailsLate(s) ==
    /\ ~cancelled
    /\ \E done \in SUBSET Registered : Serves(s, done)
    /\ MovesTo(s)
    /\ unsure' = TRUE
    /\ UNCHANGED <<handlerVars, closeVars, announceVars>>

\* It fails before the server is created, or having registered some protocols,
\* the last of them perhaps without knowing.
ReattachFails(s) ==
    /\ ~cancelled
    /\ \/ UNCHANGED sidecarVars
       \/ \E done \in SUBSET Registered : Serves(s, done)
    /\ unsure' = TRUE
    /\ UNCHANGED <<localVars, announceVars>>
-----------------------------------------------------------------------------
(* Close.                                                                  *)

Cancel ==
    /\ ~cancelled
    /\ cancelled' = TRUE
    /\ UNCHANGED <<serverVars, handlerVars, closed, sidecarVars, unsure, announceVars>>

\* The sidecar is asked to unregister the protocols and to close the server.
ServerCloses ==
    \/ /\ serverID # None /\ client \in alive
       /\ servers' = servers \ {serverID}
       /\ ports' = [ports EXCEPT ![serverID] = NoPorts]
       /\ UNCHANGED unsure
    \/ serverID = None /\ UNCHANGED <<servers, ports, unsure>>
    \/ serverID # None /\ unsure' = TRUE /\ UNCHANGED <<servers, ports>>

\* Mutant: Close returns at the first protocol that cannot be unregistered.
CloseStops ==
    /\ cancelled /\ ~closed
    /\ closed' = TRUE
    /\ ServerCloses
    /\ open' = IF client \in alive THEN open \ {listeners[p] : p \in Registered} ELSE open
    /\ UNCHANGED <<serverVars, listeners, made, accepting, cancelled, alive,
                   announceVars>>

\* The maps are kept. The errors of UnregisterProtocol are dropped, that of
\* CloseServer is returned.
CloseRest ==
    /\ cancelled /\ ~closed
    /\ closed' = TRUE
    /\ ServerCloses
    /\ open' = open \ {listeners[p] : p \in Registered}
    /\ UNCHANGED <<serverVars, listeners, made, accepting, cancelled, alive,
                   announceVars>>
-----------------------------------------------------------------------------
(* Announce.                                                               *)

\* mu is held while both fields are read.
AnnounceReads ==
    /\ snapshot = None
    /\ snapshot' = [client |-> client, server |-> serverID]
    /\ UNCHANGED <<localVars, sidecarVars, unsure, announced>>

Announces(a) ==
    /\ snapshot # None /\ snapshot' = None
    /\ announced' = announced \cup {a}
    /\ UNCHANGED <<localVars, sidecarVars, unsure>>

\* Mutant: the server is read again after mu was released.
AnnounceRereads == Announces([snapshot EXCEPT !.server = serverID])

AnnounceCalls == Announces(snapshot)
-----------------------------------------------------------------------------
(* The accept loops and the sidecars.                                      *)

\* Accept fails: the loop ends, and the listener is not closed.
AcceptFails(l) ==
    /\ l \in accepting
    /\ accepting' = accepting \ {l}
    /\ UNCHANGED <<serverVars, listeners, made, open, closeVars, sidecarVars, unsure,
                   announceVars>>

SidecarDies(s) ==
    /\ s \in alive
    /\ alive' = alive \ {s}
    /\ servers' = servers \ {s}
    /\ ports' = [ports EXCEPT ![s] = NoPorts]
    /\ UNCHANGED <<localVars, unsure, announceVars>>
-----------------------------------------------------------------------------
Next ==
    \/ CreateServer \/ CreateServerFails
    \/ \E p \in Protocols : SetStreamHandler(p) \/ SetStreamHandlerFails(p)
    \/ \E s \in Sidecars : Reattach(s) \/ ReattachFails(s)
    \/ Cancel \/ CloseRest
    \/ AnnounceReads \/ AnnounceCalls
    \/ \E l \in accepting : AcceptFails(l)
    \/ \E s \in Sidecars : SidecarDies(s)

Spec == Init /\ [][Next]_vars
-----------------------------------------------------------------------------
(* Correctness.                                                            *)

\* The streams of every protocol reach its latest handler: the sidecar the
\* listener points at runs the server and proxies each protocol to the open
\* listener of its last SetStreamHandler. A call that failed can spoil this,
\* and a Reattach that succeeds restores it, whatever failed before.
HandlersReachable ==
    serverID # None /\ client \in alive /\ ~unsure /\ ~cancelled =>
        /\ client \in servers
        /\ \A p \in Registered :
               ports[client][p] = listeners[p] /\ listeners[p] \in open

\* "If any step fails, the listener keeps pointing at the previous client"
\* (listener.go:97): until the new sidecar has every protocol, and then both
\* fields change together.
ClientMovesWhole ==
    [][ client' # client =>
            /\ serverID' = client'
            /\ \A p \in Registered : ports'[client'][p] = listeners[p] ]_vars

\* Announce names a server of the client it calls, whatever is reattached
\* between its reading and its calling.
AnnouncedOnOwnServer == \A a \in announced : a.server \in {None, a.client}

\* "Close shuts down all protocol listeners and the DHT server"
\* (listener.go:227): the latest listener of each protocol is closed even if
\* the sidecar does not answer, and a Close after which nothing is in doubt
\* leaves no server on the sidecar the listener points at. A listener whose
\* protocol was registered again, and a server on a sidecar it has left, are
\* not among what it closes.
CloseEndsServing ==
    [][ closed' # closed =>
            /\ \A p \in Registered : listeners[p] \notin open'
            /\ unsure' \/ client \notin servers' ]_vars
-----------------------------------------------------------------------------
(* The inductive invariant behind the properties, in named parts.          *)

Handlers == [Protocols -> (1..made) \cup {None}]

TypeOK ==
    /\ client \in Sidecars
    /\ made \in Nat /\ listeners \in Handlers
    /\ open \subseteq 1..made /\ accepting \subseteq 1..made
    /\ cancelled \in BOOLEAN /\ closed \in BOOLEAN /\ unsure \in BOOLEAN
    /\ servers \subseteq alive /\ alive \subseteq Sidecars
    /\ ports \in [Sidecars -> Handlers]

\* The listener has a server of its client, or none yet, and then no handlers;
\* what Announce has read agrees in the same way.
OwnServer ==
    /\ serverID \in {None, client}
    /\ serverID = None => Registered = {}
    /\ snapshot # None => snapshot.server \in {None, snapshot.client}
    /\ AnnouncedOnOwnServer

\* Only Close closes the latest listener of a protocol, and it comes after the
\* context is cancelled.
OpenUntilClosed ==
    /\ closed => cancelled
    /\ ~closed => \A p \in Registered : listeners[p] \in open

\* Without a failed call there is no server the listener does not know of.
NoUnknownServer == serverID = None /\ ~unsure => client \notin servers

IInv ==
    /\ TypeOK /\ OwnServer /\ OpenUntilClosed /\ NoUnknownServer
    /\ HandlersReachable
=============================================================================
