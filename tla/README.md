# Verification of HDK-Nostr-Go

HDK is a Go client library for Hornet Storage relays: it uploads and downloads
Scionic Merkle DAGs packet by packet, queries nostr events, and reaches relays
over libp2p, websocket and hyperswarm connections. This directory holds TLA+
models of its stateful parts, the TLC configurations that check them on small
instances, and TLAPS proofs of their safety properties for instances of any
size.
`PROJECT.json` lists every run, mutant, theorem and hazard, and maps each
definition to the lines of the source it models.

Paths below are relative to `src/lib/connmgr/`.

## The system

| Component | State | Operations | Module |
|---|---|---|---|
| Transfer window codec (`transfer_window.go` 22-60) | none | encode, parse an acknowledgment | `TransferWindow` |
| Batched upload (`upload.go`, `transfer_window.go` 62-273) | packet cursors, bytes in flight, `ackResults`, progress channel | send the root, negotiate, pipeline, read acknowledgments, cancel, report | `UploadSender` |
| Packet receive state and download (`download.go`, `transfer_window.go` 275-378) | owner, counters, seen leaves, DAG under construction | request, authenticate, validate, commit, acknowledge | `PacketReceiver` |
| Both ends together | one stream with two directions | | `Transfer`, abstractly `CumulativeTransfer` |
| Message reading (`stream.go` 116-342) | decoder, attempts, abandoned goroutines | read with timeout and retries | `MessageReader` |
| Message writing (`stream.go` 344-406) | attempts, abandoned goroutines | write with timeout and retries | `MessageWriter` |
| DAG queries, ownership claims (`query.go`, `claim.go`) | one request on a stream of its own | sign, write, read the answer, close | `RequestResponse` |
| Stream wrappers (`*/interface.go`) | websocket: a write buffer | read, write, close | partly, in `RequestResponse` |
| Signing and keys (`../signing/signing.go`) | none | read and write keys, sign, verify, peer IDs | `Keys` |
| Event queries (`universal.go` 31-202, `stream.go` 408-436) | a json.Decoder per message, the events gathered | request, read until EOSE; send an event, read its OK | `EventQuery` |
| Connection manager and connectors (`connmgr.go`, `*/connector.go`) | map of connectors under an RWMutex, transports | connect, disconnect, open a stream | `ConnectionManager` |
| Operations on every connection (`UploadDag`, `SendUniversalEvent`, `ClaimOwnershipAll`) | the live map of connections | loop and stop, or collect | `ConnectionManager` |
| Hyperswarm listener (`hyperswarm/listener.go`) | server, TCP listener per protocol, sidecar client | create, register, reattach, announce, close | `HyperswarmListener` |
| Test client (`../../services/client/main.go`) | the command under way, its host, its progress goroutine | the command loop, interrupt | `TestClient` |
| `../blossom/`, `../types.go` | none | HTTP requests; declarations | no |

How they interact. Upload and download ask the connection manager for a stream
under its read lock, then own that stream. They read and write whole messages
through `MessageReader` and `WriteMessageToStream`, which run every decode and
encode on a goroutine and race it with a timer. The sender's second goroutine
feeds acknowledgments to the first over a channel. Progress goes to the caller
over an unbuffered channel. A query or a claim is one request and one answer on
a stream of its own. The operations on every connection range over the
manager's map while other goroutines may change it. A hyperswarm listener serves the other direction:
a sidecar process proxies the streams of each protocol to a local TCP port.

What is hard about it: two goroutines with a channel, a cancellation and a
progress consumer in the upload; cumulative acknowledgments against two limits
at once (packets and bytes); a peer that may speak the old protocol, answer
nonsense or nothing; decoders that read ahead; timeouts whose goroutine is
still there when the retry comes; a lock held across network calls; a sidecar
that dies, or whose answer is lost. `hazards` in `PROJECT.json` lists these
places by line.

What makes each component correct, in a sentence:

- upload: the window is never exceeded, the sender never waits for something
  that cannot come, success means that everything was acknowledged, it ends;
- download: what is committed is one gapless sequence of one owner, a final
  acknowledgment means a verified DAG, only whole DAGs are returned, it ends;
- both: acknowledgments never run ahead of what is stored, success at the
  sender means a verified DAG at the receiver, and without faults both succeed;
- reader: messages come in order, once, none lost while nothing times out and
  one at the most by each timeout, and no call or goroutine stays behind;
- writer: never twice, and a success is the last thing on the wire;
- request: it is there once, its answer comes back or an error does, the call
  and its goroutines end, and a claim verifies at a relay that checks it with
  this package, whatever the parity of the key;
- event query: all events up to EOSE, in order, or an error with a cause;
- manager: no stream is opened on a closed transport, leaks are known, calls
  end; a loop over all connections that succeeds has worked once on every
  relay that stayed;
- listener: a handler that was set is reachable, a failed move changes nothing
  at the old sidecar, a move that succeeds repairs everything, a close ends
  what is served;
- client: a command ends, with its host closed and its goroutine gone.

## Modules and code

Every state-changing operation of the code is one action, or several where the
code lets another goroutine in between. Names follow the source. Operators
whose comment begins with "Mutant:" are faulty variants of an operator of the
same module; no specification uses them. Replacing the one by the other must
break the property that `mutants` names: that shows that the property is about
the code. Variables marked "history" do not influence any step.

**TransferWindow.** An acknowledgment text is a record of what
`parseTransferWindowAck` tells apart: its protocol, index and the window it
offers. Parsing rejects windows out of range and other protocols, and takes a
text it does not know for a legacy acknowledgment.

**UploadSender.** The caller's goroutine (`pc`), the acknowledgment goroutine
(`reader`), the consumer of the progress channel (`Consume`) and an arbitrary
peer. `SendNext` and `TakeAck` are the two halves of the pipelining loop:
filling the window, and one `readAck`. Packet sizes enter as offsets into the
whole upload, so that the bytes of a run of packets are a difference and no
recursive sum is needed. A message is read or written whole, or fails; how that
comes about is `MessageReader` and `MessageWriter`. `NeverTwice` (run
`request`) justifies that a write is one step. One case it does not justify: a short write
with a non-terminal error followed by a successful retry reports success for a
message the peer cannot decode.

**PacketReceiver.** `validate` is a predicate made of the parts of the function
(`ValidFirst`, `SameOwner`, `ValidCounters`, `ValidLeaves`), `commit` and
`acknowledgment` are its two companions. Signature checks, DAG operations and
the final verification are verdicts chosen freely. A committed packet whose
acknowledgment fails to be written (`AckFails`), and a DAG that does not verify
(`RejectDag`), are actions of their own.

**Transfer.** `UploadSender` and `PacketReceiver` on one stream, each as an
INSTANCE, with `sent` and `replies` as the two directions. The relay itself is
not in the repository: it is taken to run this package's receive loop, in the
windowed mode or in the legacy mode (`oldPeer`). **CumulativeTransfer** is the
abstract specification: deliver in order, acknowledge what was delivered, never
exceed the limit, report success when all is acknowledged. `Transfer`
implements it under the mapping at the end of that module. `faulty` says
whether faults may happen in a behaviour, so that one specification answers
both what faults cannot break and what works without them.

**RequestResponse.** The calls of `ClaimOwnership` and `QueryDag`, and the first
message of a download with the answers that follow it. It has no reading or
writing of its own: it composes **MessageWriter** (one call of
`WriteMessageToStream`) and **MessageReader** (the calls on one reader) by
INSTANCE. They share the stream: a timeout of either closes it for both, and
the end of the stream (`ended`) is the end for both. Neither has a
specification of its own. In the reader, `orphans` counts the goroutines left in
`Decode` by attempts that timed out; they go on using the decoder. The result of
two goroutines in one decoder is undefined, so after that (`raced`) the model
takes any decode outcome, and the properties speak of what came before it.
`timeouts` counts the attempts that timed out until then: `TimeoutLosesOne`
compares it with the messages that were consumed and not returned, those that
goroutines in `Decode` may still consume included.
In the writer, `wire` is what the stream took, whole or in part, including late
writes of an orphan. The relay answers only a request it got whole
(`RequestReceived`). With `transport = "websocket"` a write goes to the buffer
that nothing flushes (`BufferWrite`, `Sent`); such calls end by the read's
timeout, which `RequestEnds` covers.

**Keys.** The functions of `signing.go` on a curve small enough to enumerate: a
private key `k` and `Order - k` have points that differ in the parity of `y`
alone. Texts are records of prefix, encoding and bytes. What the model keeps is
what the package does with parity: public key texts drop it,
`DeserializePublicKey` reads a text without it as the odd point, signatures do
not depend on it and peer IDs do. So a claim verifies for both parities
(`ClaimVerifies`), and all texts of a key lead to one peer ID (`KeyRoundTrips`),
which is not that of the key itself when its point is even. A text of 64 hex
digits is taken as hex; that a bech32 text could be one too is left out.

**EventQuery.** `Consumes` is the heart: a decoder takes from the stream any
number of units beyond the message it returns, and they are gone with it. A
message counts for two units so that the loss can begin inside one. The op
"send" is `SendUniversalEventSingle`, which reads one message with such a decoder
and takes it for the answer if it is an OK.

**ConnectionManager.** The goroutines of an application. `sync.RWMutex` is
modelled as documented, with its preference for a waiting writer and the
readers it then admits. `NewTransport` to `Register` is a connect, with the
places where it may fail; the websocket `OpenStream` has two steps, because
readers share the lock. The sidecar of a hyperswarm connection may open one and
lose the answer (`MuxConnectFails`), and may fail to close one, whose connector
forgets its id all the same (`DisconnectFails`): both stay open. The `Close` of
a libp2p host and that of a websocket connection release it even when they
return an error, which is external code. `lost` collects the open
transports that were let go of, in five ways; `NothingElseLeaks` says that these
are exactly the ones nobody can close any more. `DisconnectPanics` is the nil connection of a websocket
connector that never opened a stream. The callers in `Loopers` also run the
loops over all connections: `CallAll` starts one and each iteration
(`RangeNext`) is a `GetStream` like any other, after which the loop goes on or
stops (`Outcome`). The loop ranges over the live map, as Go does it: a key that
was there from the beginning and stays is produced once, one that is added may
be. That the runtime ends a program that writes the map during an iteration is a
step too (`RangeCrashes`), as are the panics of the connectors: after each, the
process is gone and `CallsEnd` asks nothing more of it.

**HyperswarmListener.** Its methods hold `mu` from beginning to end and are one
step each; `Close` cancels before it takes the lock and `Announce` calls after
it has given it back, so these have two. Remote calls fail with or without
effect. `unsure` remembers that a call failed and no `Reattach` followed.
`CreateServer` has a guard the code does not have: callers are taken to call it
until it succeeds, and not again. A second one would leave the registered
protocols on the old server.

**TestClient.** The loop that reads commands, the command under way, the
goroutine of a transfer that prints what the unbuffered progress channel brings,
and the signal handler. A command makes a manager with one libp2p host, and
every error ends the process (`Fatal`). Of a command, the calls of the library
are one step, with the progress reports before it. `UploadEvent` never
disconnects; `sent` counts its calls and `HostsReleased` says that nothing else
leaves a host behind. At the end of its input the real loop spins on an empty
command, which changes nothing.

## Runs

| Run | Question | Bounds |
|---|---|---|
| `upload` | safety of a sender against an arbitrary peer, its end and that of its goroutine | uploads of 0, 1 and 4 packets of sizes 1, 1, 2, 5 and an inconsistent one; window 2 packets or 1, 3 bytes; 1 unread answer |
| `download` | safety and end of a receiver against arbitrary messages | a few hundred messages: all counters, markers, owners over three packets and three leaves |
| `transfer` | what faults at any point cannot break; the end of both; their success without faults; the refinement of `CumulativeTransfer` | up to 7 packets of sizes 1, 1, 1, 1, 5, 1, 1; both modes; window of 2 packets, 3 bytes |
| `request` | writing once, whole and last; order of answers, their loss without a timeout (none) and by timeouts; the end of the call and its goroutines; claims and keys | 2 retries on each side, at most 1 reading goroutine left behind by earlier calls when a call starts, feeds of up to 5 messages, keys of both parities, a nil key, a root that is no CID, stream and websocket |
| `event_query` | completeness and end of a query, the answer to an event | all feeds of up to 4 messages, all chunkings in half messages |
| `connections` | no stream on a closed transport, the five leaks and no other, what the loops cover, the end of calls | 2 goroutines, 1 of them looping, 2 ids, all kinds, 2 connectors, 2 transports |
| `listener` | the listener's safety, the end of what it serves | 2 protocols, 2 sidecars, 3 TCP listeners |
| `test_client` | hosts released, commands ended | 4 commands, 2 reports, 2 DAGs found |

Why these bounds are enough. With 4 packets and a window of 2, the window fills,
moves and empties, a packet meets the packet limit, another the byte limit, and
one is larger than the whole byte window. Three packets with two owners and
three leaves give every first, middle and final packet, each repetition, gap
and change of owner. Seven packets let the window of `transfer` move on after
the packet that is larger than it. With two retries an attempt that timed out
is followed by one more that can succeed and one that can exhaust the call. Two
goroutines are enough for any pair of calls to overlap and for one to take the
id of the other, and two ids for a loop to have one connection behind it, or
skipped, while the other changes. Three TCP listeners let a protocol be
registered again and one registration fail. Four commands let a goroutine of one
transfer see the end of its channel after the next commands began. The real limits (`MaxWindowPackets`, window sizes)
are parameters; the theorems hold for all of them.

Deadlock checking is off in every run, since each models calls that return and
are not made again, or that stop with the program. Ends are stated as liveness
properties where they matter.

Four runs end in a violation. Each shows a place where the code does not do
what the repository says of it:

- `one_reading_goroutine`: "A MessageReader must have exactly one reading
  goroutine" (`stream.go:119`). A timed-out attempt is retried beside the
  goroutine it left in `Decode`.
- `request_never_sent`: "Create and send the claim ownership message"
  (`claim.go:41`). `WebSocketStream.Write` appends to a buffer and only `Flush`
  sends it, which nothing calls: on a websocket no request leaves, and its
  caller waits until the read times out.
- `query_loses_events`: the comment at `stream.go:116` explains that replacing
  a decoder discards bytes when a peer pipelines; `ReadJsonMessageFromStream`
  makes one per message, and a relay that sends events back to back loses some.
- `websocket_shared`: "WebSocket connections are established per-stream"
  (`websocket/connector.go:22`). Two concurrent `OpenStream` calls go through
  the shared field `Conn` and can return the same connection twice.

Two more disagreements are visible in the models and have no run. The timer of
`ReadJsonMessageFromStream` ("WaitForMessage timed out", `stream.go:419`) is
looked at before `Decode` blocks and never again, so a silent relay holds a
query for ever; `EndsWithStream` therefore speaks of streams that end. And a
protocol that is registered twice leaves its first TCP listener open after
`Close` (`hyperswarm/listener.go:227`: "Close shuts down all protocol
listeners").

`IInv` of `UploadSender` and `PacketReceiver` contains their type invariants.
The other modules have an `IInv` too, with their types in it, which their proof
modules prove; TLC finds each of them true under the configuration of its
module's run, and the runs name only what goes beyond types.

## Fairness

- Upload and download: weak fairness of each goroutine's next
  step, a failure included. Every read and write has a timer that ends it, so a
  goroutine always comes to *some* next step. The peer, the network and the
  caller's context promise nothing. The consumer of a progress channel is
  assumed to go on receiving: nothing in the code frees a sender whose consumer
  stopped.
- `Transfer`: the same of each goroutine. Where a behaviour has no faults
  (`faulty` is false) the fairness is on the steps without failure, and the
  network delivers; where it has, a goroutine's next step may be its failure and
  nothing is promised of the network.
- `RequestResponse`: weak fairness of the call, of the writing and the reading
  attempt, and of the abandoned goroutines, which return once the stream is
  closed. Strong fairness of `Answered`: a download reads on for as long as
  there are packets and takes their end at some time; `PacketReceiver` says why
  it ends. Nothing is promised of the relay.
- `EventQuery`: the client runs. The relay owes nothing; `EndsWithStream` is
  about streams that have ended.
- `ConnectionManager`: strong fairness per caller. Network calls return (their
  contexts and transports see to it), and a waiting writer is not overtaken for
  ever, which is what `sync.RWMutex` promises. This is also the assumption that
  a hanging dial would break: the lock is held meanwhile.
- `HyperswarmListener` states no liveness: its methods wait on nothing but
  remote calls.
- `TestClient`: the library's calls return, with success or an error, and the
  printing goroutine runs. Nothing is promised of the user.

## Proofs

Every safety property of every passing run, and every action property, is a
theorem. So is the refinement: `Transfer` implements `CumulativeTransfer`. The
theorems hold for all values of the constants that satisfy the named ASSUMEs of
the modules, and each follows from an invariant `IInv` of its module that is
proved inductive.

| Proof module | About | Theorems besides `Spec => []IInv` |
|---|---|---|
| `UploadSenderProofs` | `UploadSender` | `WindowRespected`, `NeverWaitsForNothing`, `SenderNeverStranded`, `SuccessMeansAllAcked`, `ProgressMonotone`, types, `InFlightExact` |
| `PacketReceiverProofs` | `PacketReceiver` | `AcceptedInOrder`, `LeavesOnce`, `AcksMatchCommits`, `FinalAckMeansVerified`, `DownloadComplete`, types, two branches are dead |
| `TransferProofs` | `Transfer` | `AckMeansVerified`, `SuccessMeansFinalized`, `NoAckDiscarded`, `AckBufferSuffices`, `ImplementsCumulativeTransfer` |
| `RequestResponseProofs` | `RequestResponse`, and `MessageWriter`, `MessageReader`, `Keys` in it | `NothingLostWithoutTimeout`, `TimeoutLosesOne`, `NeverTwice`, `SuccessWritesLast`, `ClaimVerifies`, `KeyRoundTrips`, `KeysRoundTrip` |
| `EventQueryProofs` | `EventQuery` | `CompleteUnlessDropped`, `FailureHasCause` |
| `ConnectionManagerProofs` | `ConnectionManager` | mutual exclusion, `OpensLive`, `NothingElseLeaks`, `LoopsCover` |
| `HyperswarmListenerProofs` | `HyperswarmListener` | `HandlersReachable`, `AnnouncedOnOwnServer`, `ClientMovesWhole`, `CloseEndsServing` |
| `TestClientProofs` | `TestClient` | `HostsReleased`, a report that is being sent is taken |

What is assumed. Sequences number their packets and sizes are positive
(`transferPacketSize` is at least 128); limits, retries and bounds are naturals;
messages have the fields of an upload message; feeds are sequences of the kinds
the module names. The order of the curve is odd and greater than 2, as a large
prime is, and private keys are below it (`signing.go` reduces them). `None`, the
absent value, is no id, caller, sidecar or number.

The sender. `IInv` strengthens the properties with three things.
`SentInOrder` says that what went out is the packets before `nextPacket`.
`Cursors` ties `nextPacket`, `highestAck` and `progress` to the point the code
has reached, and includes `InFlightExact`: the map of packets in flight is the
interval between the two cursors. `ReaderCounts` is the argument that nobody is
stranded: acknowledgments taken, buffered and still to be read always cover
what is to be acknowledged, and a goroutine that left early left an error at
the end of the buffer. `WindowRespected` alone is not inductive, because
`CanSend` compares with the counters and not with what is on the wire; it needs
the first two. The lemmas follow the conjuncts (`TypeStep`, `SentStep`,
`CursorStep`, `WindowStep`, `ReaderStepKeeps`), one step per action.

The receiver. `LoopState` says what was accepted and answered at each point of
the loop, `OneOwner` that the first packet authenticated the owner of all the
others. With them, `AcceptedInOrder`, `LeavesOnce`, `AcksMatchCommits` and
`FinalAckMeansVerified` are inductive: the lemmas `Commit*` show that a
validated packet extends each of them, `RejectKeeps` and `ControlKeeps` that
nothing else touches them. That the "incomplete packet stream" branch of
`DownloadDag` is dead, and that `validate` never meets a finalized state, are
corollaries, and so is the completeness of a DAG that is returned.

Both ends. The sender's invariant is not proved again: `TransferProofs`
instantiates `UploadSenderProofs` with the replies under way as the peer's
answers and cites its step lemmas. What is new ties the ends together.
`ReceiverCursors` says that the receiver has committed a prefix of what was
sent. `AnswersGenuine` says that an answer is, wherever it is (unread, held by the
goroutine, in `ackResults`), the acknowledgment of a committed and verified
packet. `StopAndWait` and `Pipeline` count: progress, the answers in each of
these places and the messages the receiver has read balance, in either mode,
until one end fails. `AckMeansVerified` is not inductive without the counts,
since an answer says which packet it is for only by its place in the order. For
the refinement, each action of `Transfer` is shown to be a step of
`CumulativeTransfer` or a stutter under the mapping.

The request. `WriterInv` accounts for the whole messages on the wire: there is
at most one, either the last thing of a call that succeeded or the late write of
an abandoned goroutine on a stream that the timeout had closed; as long as such
a goroutine may still write there is none. `ReaderInv` adds to the properties
that orphans exist only after a timeout and that a decoder no two goroutines
have met in is past all it returned. `TimeoutLosesOne` is inductive with them:
a step that loses a message (`OrphanEnds`) takes one goroutine out of `Decode`
(`LosesOneKept`). A call that fails with an error message of the peer loses no
message. The composition keeps both because the one
variable they share, `closed`, is only ever set. `Setting` says what a websocket
rules out and what a claim was given.

Keys. `KeysRoundTrip` and `ClaimVerifies` use of the order that it is odd: `k`
and `Order - k` are then never the same key, and exactly one of them has the
even point. That the point read back may be the negative of the caller's makes
no difference to either.

The event query. `Query` says that a query that dropped nothing stands at a
message boundary, has passed over every message before but the one that ended
it, and returned the events among them (`PassedOver`). `InOrder` holds even if
something was dropped: reading ahead loses events and never repeats or reorders
them. `Answer` says that the sending of an event decides by the first message.

The connection manager. `MutualExclusion` (who holds the lock and at what point)
and `OneOwner` (a transport has one connector, a connector one id) are what
`AllLive` needs: a connector found under the read lock cannot be closed by a
writer, nor through another id, before `OpenStream` returns. `Holds` says what
each caller works with at each point, and `NoneLost` that the connection a
websocket connector knows was not lost; `NothingElseLeaks`, an equality, is
inductive with them. Its lemmas take it transport by transport (`Accounted`):
lost is what is open, what no registered connector has (`Registered`) and no
caller has in hand (`InHand`).
`Looping` gives each loop its outcomes: one of each connection that was there
from its beginning and was produced, none of the others; `LoopsCover` follows
when the range ends. Websocket connectors are excepted from `Live`, as
`OpenStream` makes their connection itself.

The listener. `OwnServer` ties `serverID` to the client it was made at, and what
`Announce` has read with it; `OpenUntilClosed` says that the latest listener of a
protocol stays open until `Close`; `NoUnknownServer` that only a failed call
leaves a server behind.

The client. `OneHost` counts the hosts at every point of a command and not only
at the prompt; `ReportsTaken` ties the goroutine to the transfer.

Only model-checked: liveness (`Terminates`, `DownloadTerminates`, `BothEnd`,
`RequestEnds`, `EndsWithStream`, `CallsEnd`, `CommandsEnd`), which rests on
fairness and ENABLED and is beyond the proof system used here.

## Not modelled

- A websocket's `Read`, which fills the decoder's buffer from one message and
  goes on with the next message, losing the end of a longer one: as no request
  leaves on a websocket, only an error of the relay could arrive there. The
  `Read`, `Write` and `Close` of the other wrappers pass the call on.
- The blossom client: one HTTP request per function, and no state.
- `types.go`: declarations. The fields that matter are those of the records of
  the other modules.
- Formatting, logging, contents of leaves, what the test client prints and
  writes to files, its metadata processor and its unused `TimeCheck`, and the
  cryptography behind a verdict or a signature.

## Plan

Done, in this order: `TransferWindow`, `UploadSender`, `PacketReceiver`,
`Transfer` with `CumulativeTransfer`, the first proofs, `MessageReader`,
`MessageWriter`, `HyperswarmListener`, `EventQuery`, `ConnectionManager`; then
the loops over all connections, `SendUniversalEventSingle`, `Keys`,
`RequestResponse` as the composition of writer, reader and keys, and
`TestClient`. What remains to be modelled is little: a composition of
`MessageReader` with `UploadSender`'s three readers, in place of the atomic read.

The proof modules came in this order: the two ends, `TransferProofs`,
`ConnectionManagerProofs`, `HyperswarmListenerProofs`, `RequestResponseProofs`,
`TestClientProofs`, `EventQueryProofs`. No module uses a RECURSIVE operator, so
all are open to proofs. What remains to be proved: abstract specifications for
the manager (a registry of live connections) and for the reader and writer (one
message in order, or an error), with their refinements; and the step from the
atomic read of `UploadSender` to a `MessageReader`.
