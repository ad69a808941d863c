# A verification project for xace (custom_rpcx)

xace is an RPC framework in Go, derived from rpcx: one TCP connection carries
many concurrent calls, answered in any order and matched by number. This
directory holds TLA+ models of its connections, its server, the service client above
them with its discovery and selectors, and the bytes they exchange; the TLC
configurations that check the models; and proofs for TLAPS. References of the form `client.go:498` are to
files under `src/xace`. There are no tests in the repository; what the program
promises is taken from its comments.

## 1. The system

| part | state | operations | hard because |
|---|---|---|---|
| `client/client.go` Client | pending calls by number, `seq`, `closing`, `shutdown`, `pluginClosed`, the connection, `ServerMessageChan` | Go, Call, SendRaw, one-way calls, heartbeat, input loop, Close | every caller, the heartbeat, the input loop and Close complete calls concurrently; the lock is released between registering a call and writing it |
| `client/connection.go` | the socket | Connect | sequential; starts the two loops |
| `server/server.go` Server | listener, `activeConn`, `inShutdown`, `doneChan`, `handlerMsgNum`, per connection `writeCh` | Serve, serveConn, processOneRequest, serveAsyncWrite, Shutdown, Close, SendMessage | a goroutine per request, connections accepted during a shutdown, deferred calls whose order matters |
| `server/service.go` | services by name, methods by lower-case name | register, lookup, call | naming rules differ between registration and lookup |
| `client/xclient.go` XClient | cache of clients by address, list of servers, selector | Call, Go, SendRaw under four fail modes; Broadcast, Fork, Inform; Close | retries and backup calls, removal of a client others use, fan-out goroutines |
| `client/cache_client_builder.go` | process-wide cache of connections | find, set, delete, generate | shared by XClients that close independently |
| `client/circuit_breaker.go` | failures, last failure | Call, Ready, Fail, Success | atomics composed without a lock |
| `client/selector.go` and helpers | list of servers, position, weights | Select, UpdateServer | fairness and stability of the choice |
| `client/ace_discovery.go`, `acecenterclient.go` | list of servers, watchers | lookup, watch, RemoveWatcher, Close | updates delivered by a goroutine each; the centre is asked through an xClient that depends on its answers |
| `client/oneclient.go`, `aceclient.go` | XClients by service, settings | calls, SetPlugins, Auth, SetSelector, Close | created on demand while settings change; a failed creation is stored |
| `protocol/*` | a message | pack, unpack, pools | optional trailing fields |
| `codec/*` | bytes | encode, decode | variable-length integers, unknown fields |
| `protocol/pool.go`, `util/buffer_pool.go`, `server/pool.go` | pooled messages, buffers by size class, pooled objects | get, put | arrays reused while others still read them; class boundaries |
| `share`, `errors`, `log`, `util/net.go`, `example` | - | - | support code |

Interactions: an application calls an XClient, which selects a server, takes or
builds a Client and calls it; the Client writes to the connection and its input
loop reads what the server writes back or pushes. The server's accept loop starts
a serveConn per connection, which starts a processOneRequest per request; both
write to the connection, directly or through a serveAsyncWrite. Discovery feeds
the list of servers of the XClient.

What makes each part correct:

* Client: each call ends once, with its own reply or an error; nobody waits for
  ever on a closed client; the end of the connection is handled once.
* Server: requests being processed are answered before a graceful shutdown closes
  their connection; connections are never out of reach of Shutdown; nobody is
  served afterwards; goroutines end.
* XClient: the error a caller sees is the outcome of the attempts; no answered call is
  sent again; the cache holds the connections there are; every call and every fan-out
  goroutine ends.
* Discovery, selectors, OneClient: xClients end up with the servers the centre knows;
  selectors choose among exactly those, in fair rounds; settings reach every xClient.
* Wire and codec: a service gets the arguments its caller passed, converted; a caller
  gets the reply to its own call, although messages and buffers are reused.

`PROJECT.json` lists all parts under `components` and the hazards, each at its line,
under `hazards`.

## 2. Modules

| module | models | composed with |
|---|---|---|
| `RpcSession` | abstract: what a connection promises to its callers | |
| `XaceClient` | `client/client.go` | refines RpcSession |
| `XaceClient_proofs` | theorems about XaceClient | |
| `XaceSession_proofs` | what callers are told, and the refinement of RpcSession | extends XaceClient_proofs |
| `XaceServer` | `server/server.go`, the writing half of `server/context.go` | |
| `XaceServer_proofs` | theorems about XaceServer | |
| `XaceXClient` | the calls of `client/xclient.go`, `cache_client_builder.go`, `circuit_breaker.go` | |
| `XaceXClient_proofs` | theorems about XaceXClient | |
| `XaceFanout` | Broadcast, Fork, Inform of `client/xclient.go` | extends XaceXClient: same cache, lock and connections |
| `XaceFanout_proofs` | theorems about XaceFanout | extends XaceXClient_proofs |
| `XaceDirectory` | `ace_discovery.go`, `acecenterclient.go`, the watch loop of `xclient.go`, `selector.go`, `smooth_weighted_round_robin.go` | |
| `XaceSums` | lemmas: induction over numbers and finite sets, and sums over a finite set | |
| `XaceDirectory_proofs` | theorems about XaceDirectory | extends XaceSums |
| `XaceOneClient` | `oneclient.go`, as wrapped by `aceclient.go` | extends XaceDirectory: it makes and closes its xClients |
| `XaceOneClient_proofs` | theorems about XaceOneClient | extends XaceDirectory_proofs |
| `XaceCodec` | `codec/encode.go`, `decode.go`, `packdata.go`: operators only | |
| `XaceWire` | `protocol/message.go`, `header_serialize.go`, `pool.go`, `util/buffer_pool.go`, the payloads of `client.go` and `server.go` | extends XaceCodec |
| `MCXaceClient`, `MCXaceServer`, `MCXaceFanout`, `MCXaceOneClient`, `MCXaceWire` | instances for TLC | |

### XaceClient

One action is what one goroutine does between two points where another can
interfere: a critical section of `client.mutex`, a read or write of the connection,
a channel operation.

* `pending` (the map) is the set of calls in it, `seqOf[c]` the number of call c,
  `At(s)` the lookup `pending[s]`. `Enter` is the assignment `pending[s] = call`,
  which forgets a call that held the same number.
* `pc[c]` is where the goroutine of call c is. `send()` is cut into `Refuse` (it
  completes the call at once: 501-518), `Register` (520-531), `EncodeFail`
  (556-564), `WriteOk`, `WriteFail` (579-596) and `OnewayDone` (598-609); `SendRaw`
  has its own registration (`RegisterRaw`, 395-401), which looks at no flag. A call
  waits in `wait` and leaves by `Receive` or `Cancel`.
* `done[c]` counts the copies of the call in its Done channel; `Signal` is
  `Call.done()`, which drops the copy when the channel is full (capacity 1 for Call,
  10 for Go and SendRaw).
* The input loop is `ipc`: `ReadResponse` takes the call out of `pending` under the
  lock, `Dispatch` stores the reply and completes the call outside it, `DispatchEmpty`
  completes it without storing anything (an empty payload or the code -90006, 699-722),
  `DispatchBad` is a payload the codec refuses, or one for a one-way call that was still
  in pending (which ends the loop, 706-712), `ReadError` the end
  of the connection, `Terminate` the last critical section (740-762), which completes
  the pending calls and leaves them in the map.
* `ReadPush`, `PushQueued`, `PushDropped`, `PushRecovered` are handleServerRequest:
  blocking or dropping, and recovering from a closed channel.
* `Close` and the heartbeat's use of it share `CloseBody`. The heartbeat is
  `HeartbeatTick`, a one-way Go, and `HeartbeatCheck`.
* History variables: `signals`, `registered`, `late`, `written`, `answered`, `hollow`,
  `notified`, `result`. The context of a call may end at any time after the call has
  begun (`CtxExpire`), also while it encodes or writes; only `Cancel` looks at it, when
  the call waits.
* `Answerable` is the one thing the wire format contributes: a header without
  metadata whose number is 0 loses its call type, so that one-way request is answered.

### RpcSession

A call is new, live, doomed (begun after the end), ok or failed; it ends once, ok
only if it was served, and a doomed one can only fail. Served means that a response
arrived for it, or that it was written one way; whether the server ran its method is not
on the wire (section 4). `RefinesSession` maps the client's state to it: `result`, `pc`
and `late` give the status, `reply`, `hollow` and `written` what was served,
`closing \/ shutdown` the end.

### XaceServer

* The accept loop: `Accept`, `Reject` (DoPostConnAccept), `Register` (activeConn under
  the lock, 299-301), `AcceptFail`, `ServeReturn`. A connection between Accept and
  Register is known to nobody.
* `cpc[c]` is serveConn: `Start` (the first isShutdown), `Loop` (the one before each
  read), `ReadRequest`, `ReadFail`, then `Limit` (ErrReqReachLimit), `AuthFail` or
  `Submit` (a goroutine, or the pool; `SubmitPanics` on a stopped pool), `Reply` for
  the answers serveConn writes itself. On return: `CloseCh` (the deferred close of
  writeCh), `Defer` (isShutdown and the wait for doneChan, `AwaitDone`), `Forget` and
  `CloseConn` (closeConn under and outside the lock).
* `rpc[r]` is processOneRequest: `Begin` counts the request in handlerMsgNum, `Finish`
  counts it out; between them `Heartbeat`, `Handle`, `Respond`, `RespondPanics` (send on a
  closed writeCh, recovered) and `EndSilently`: a panic that only processOneRequest
  recovers (492-499: of the codec on a reply it cannot encode, of a plugin, of a router
  handler), or a handler that writes nothing. `silent` remembers these requests.
* `WriterTake`, `WriterWrite`, `WriterStop` are serveAsyncWrite; `select` may take the
  closed doneChan while a response waits.
* Shutdown is `ShutdownBegin` (compare-and-swap), `ShutdownStop` (listener and
  CloseRead), `ShutdownPoll` or `ShutdownExpire`, `ShutdownFinal`; Close is `Close`
  and, with a pool, `PoolStopped`, until which it holds the lock (`MutexFree`).
* Verdicts of plugins and of AuthFunc, and peers that leave, are free choices.
  `broken` remembers the connections the server gave up for such a reason. A
  configuration says whether the application calls Shutdown and Close, and whether there is
  an AuthFunc and a rate limit (`guard`).

### XaceXClient

A connection is open, lost or closed; how it completes the calls on it is XaceClient's
subject. A request on it ends in nil, a ServiceError, an error of its context, or any
other error (`Ends`), only the first two by an answer.

* `op[a]` is one call: `pc`, and the local variables of Call, Go and SendRaw under the
  source's names. `cont` says where `getCachedClient` returns to, as it is called from
  the first selection, a retry, and each `Go` of Failbackup.
* `Enter` reads isShutdown without the lock, `Select` is selectClient, `Check` the second
  look at isShutdown and the breaker, `Reset` its reset, `FindCached` the read-locked
  lookup, `LockCached` the one under the lock, and `DialOk`, `DialFail` end the dialling
  during which `xClient.mu` stays held (`Locked`).
* `Loop` is the head of the loops of Failtry and Failover, `Attempt` wrapCall or
  wrapSendRaw, `RemoveClient` removeClient and the way to the next attempt. SendRaw's
  shadowed `err` (727, 754) shows in `Attempt` and `Outcome`.
* `FirstGo`, `BackupWait`, `SecondGo`, `BackupRefused` are Failbackup.
* `Place` says whose map an entry lives in: the xClient's, or that of a registered
  builder, which xClients share while each takes its own lock.
* History: `sent`, `served`, `late`, `lateDials`, `knocks`.

### XaceFanout

`Gather` collects a connection to every server under the lock (398-422, 859-874) and
starts the goroutines (`Start`): of the servers without a usable connection (`Stale`) any
may turn out to be reachable, and `Reconnect` is what becomes of the cache, the
connections and the breakers; `Collect`, `FanTimeout` and `Verdict` are the caller. A goroutine
goes through `WorkerCall`, `WorkerSignal`, `WorkerRemove`, `WorkerAppend`, `WorkerReply`
and, for Inform, `WorkerReceipt`, in the order of its kind: Fork stores the reply before
it signals, Broadcast and Inform after, and all append the error after. The channel of
verdicts and the MultiError are `done` and `errs`.

### XaceDirectory

* A discovery asks (`Ask`, `AskFail`), stores the pairs (`Store`) and starts a goroutine
  for each watcher (`Tell`); `flight[x]` holds what these carry, and `Deliver` lets any
  of them go next, into a full channel (dropped after a minute) or a closed one
  (recovered). The loop `Receive` replaces servers and selector under the lock.
* An xClient takes its list (`GetServices`) before it watches (`WatchService`).
  `MarkClosed`, `RemoveWatcher`, `CloseChannel` are what Close does to both sides.
* `Announce` and `SetInitAceClient` are InitializeAceCenter: the centre is asked through
  an xClient whose own servers come from that discovery. `Stranded`: it has none left,
  after which no lookup succeeds.
* A selector is a record; `Selections(s)` are the servers Select may return with the
  selector afterwards, `Updated` is UpdateServer. A random number, a hash and a selector
  of the application may each return any candidate. `Prepare` and `Install` are the two
  halves of SetSelector and ConfigGeoSelector.

### XaceOneClient

getXClient (`Lookup`, `LookupLocked`) and newXClient (`Create`, `Configure`, `Swap`,
`Locate`, `Place`, `StoreXClient`; `CreateFail` and `SwapPanics` when Clone or the application's selector
fails) hold `c.mu`; Auth and SetPlugins set a field (`SetField`) and then go through the
map (`SetLoop`), ConfigGeoSelector likewise, one xClient at a time (`SetMode`,
`LocateBegin`, `LocateOne`, `LocateEnd`); SetSelector and Close. `entry` tells a missing xClient from a nil one.
Constructing an xClient is XaceDirectory's `ListAs` and `WatchService`. The xClients of the
map are nobody else's (`MapAssumption`): OneClient's getXClient is not exported. AceClient
hands them out (`aceclient.go:146`); a caller who then sets a selector past the AceClient
is left out.

### XaceCodec

`EncodeArgs` and `DecodeArgs` over bytes and Go types. A decoding step gives the next
position and a value, or fails, which stands for a panic: DecodeArgs recovers it into an
error. `Convert` is the reference: what a value of one type has to become in a receiver
of another, defined without bytes. A kind without a case in the encoder (`Uncoded`: int8,
interface, a pointer to a pointer, and those like them) is written as nothing, neither type
nor value. `Skews` names what the decoder cannot read past, such values among it. What the
decoder reads is a slice: bytes that count, and behind them the rest of the array, which
slicing reaches (`Cut`) and indexing does not.

### XaceWire

* A caller takes its number and encodes (`Encode`), writes and gives its buffer back
  (`Write`), and deletes a one-way call from pending (`Forget`), until when a response to
  it would be decoded into the nil it has for a Reply (`Reception`); the server reads into
  a pooled message (`Read`), decodes the arguments and
  runs the service (`Run`), encodes the response (`Respond`) and frees the message
  (`Free`), in a goroutine per request; `WriteQueued` is serveAsyncWrite, `Input` the
  client's loop.
* `PackHeader` leaves trailing empty fields out (`FieldNum`), `UnpackHeader` fills in the
  defaults. `Decoded` reuses the message's array and copies over the first bytes,
  including those of a message shorter than the 8 bytes read ahead. The payload is a slice
  of that array up to its capacity (`PayloadSlice`).
* Arrays are sequences in `msgs` and `bufs`; whoever holds a pooled one by mistake sees
  it overwritten. `Levels`, `FindPool`, `FindPutPool` are the size classes.

## 3. What the runs check

| run | instance | shows |
|---|---|---|
| `client_safety` | a Call, a Go and a SendRaw with number 1, which the client hands out too; one Close; codec known or not | the invariants of XaceClient below |
| `client_session` | Call, one-way Call, one-way SendRaw with a number of its own; one Close | refinement of RpcSession; nobody stranded |
| `client_liveness` | a Call and a heartbeat (the Close is the heartbeat's), an application that listens, both modes of the channel, contexts that end at any time | the liveness properties of XaceClient |
| `client_signal` | one Go and one Close; a violation | `SignalledOnce` fails |
| `server_safety` | two connections, a call and a one-way request on one, a heartbeat on the other; Shutdown; no AsyncWrite | the invariants of XaceServer |
| `server_liveness` | one connection, a call and a routed request; with pool, Close and Shutdown, with AsyncWrite and Shutdown, or with AsyncWrite and Close | liveness of XaceServer, and `AnsweredOnce` and `LateConnsTurnedAway` under these configurations |
| `server_graceful` | one connection, one call; a violation | `ShutdownInterruptsNothing` fails |
| `server_drain` | one connection, one call, AsyncWrite; a violation | `InflightDrained` fails with AsyncWrite |
| `xclient_calls` | twelve configurations: each fail mode of Call and of SendRaw, beside a second call, Close, breakers or a shared builder; Broadcast, Fork and Inform to two servers | the properties of XaceXClient and XaceFanout |
| `xclient_broadcast` | Broadcast to two servers; a violation | `BroadcastNeedsAll` fails |
| `directory` | seventeen configurations: the centre and its own xClient, watchers and Close, each selector, selectors replaced, and three calls on a OneClient | the properties of XaceDirectory and XaceOneClient |
| `wire` | 26 values, three of them of kinds that are not written, into 12 receivers, one call each; seven pairs of concurrent calls; AsyncWrite or not | the properties of XaceWire |

XaceClient, safety: `NoCallerStranded` (on an ended client every waiting caller has its
signal or the input loop holds its call), `ReplyIsOwn`, `OkMeansAnswered` (a caller told
of success had a response to its own request, and has its own reply unless that response
held none), `CancelTakesOwn`, `ClosedOnce`. `Unshared(c)` excludes calls whose number a SendRaw
also uses: for those the code guarantees nothing, and the `client_safety` instance
contains them so that everybody else is checked in their presence. `CancelTakesOwn`
leaves out the number 0, because a refused call cancels whatever call holds it
(321-330 with `*seq` unset).
Liveness: `ClosedCallsFinish`; `CancelledCallsFinish` (a call whose context ends while it
encodes, writes, completes or waits returns, also when the input loop holds it or is
stuck; only its own Conn.Write, which knows no context, keeps it while the connection is
open); `LoopFailureReachesCallers`, with one exception, `BlockedOnLastPush`: with
BidirectionalBlock, a full channel and no reader the input loop never gets to complete the
pending calls; and `InputLoopEnds` (once this side has closed the connection the input
goroutine ends, unless it blocks on such a channel).

XaceServer, safety: `InflightDrained` (without AsyncWrite, a request counted when
Shutdown began, of a service, a router handler or a heartbeat, is answered before its
connection is closed, unless its own processing ended without trying to answer it
(`silent`), the context expires, Close is called or the peer broke the connection off),
`AnsweredOnce`,
`OpenConnsTracked`, `LateConnsTurnedAway` (a connection that is still open when Shutdown
has returned is never served: it is not registered yet, at its first check, or on its way
out).
Liveness: `ShutdownCompletes`, `ConnsReleased`, `HandlersFinish`. Their exceptions are
states the code really gets stuck in: `SelfBlocked` (serveConn waits for a place in
writeCh that only the stopped writer could make, and only serveConn would close the
channel) and `MissedByClose` (a response that waits for the stopped writer of a connection
registered after Close, which does not set inShutdown: it holds up its handler, and a
later Shutdown). The third configuration of `server_liveness` has AsyncWrite together with
Close.

XaceXClient and XaceFanout, safety: `ErrorIsOutcome` (nil exactly if a server answered
so, a ServiceError exactly if one reported it; not asked of SendRaw and of a Failbackup
whose second request is refused, see section 4), `AnswerEndsRetries`,
`CacheTracksConnections`, `CloseLeavesLateDials` and `OpenBreakerStopsDials` (what the
checks made without a lock may let through: one dial for each call after a Close, and one
for each call and server past an open breaker), `FanErrorIsOutcome` (what Broadcast, Fork
and Inform return is what the requests came to, except while errors are still to be
recorded), `VerdictsFit` (no goroutine of a fan-out waits to deliver its verdict).
Liveness: `CallsReturn`, `FanoutEnds`.

XaceDirectory and XaceOneClient, safety: `SelectorTracksServers`, `RoundsAreFair`,
`SettingsReachCallers`. Each names what the code leaves out: a server whose metadata
became empty and the consistent hash (`selector.go:279`), a selector set while a list was
taking effect, an xClient whose making panicked, a setter that panicked. `RoundsAreFair`
says of the smooth weighted selector what `nextWeighted` keeps for any number of servers:
none is a whole call ahead of its share; none is behind by more calls than there are
others; at the end of each round all shares are exact. That none is a whole call *behind*
either, as one might expect, is false from five servers on: with weights 5, 5, 50, 1, 50
one of them falls 1.117 calls behind.
Liveness: `WatchersSettle`, whose exception is `Stranded`.

XaceWire: `MessagesArrive`, `ArgsConverted`, `RepliesArrive`. They ask nothing of what
follows a value the decoder cannot read past or that was never written (`Skews`), nor of
methods that return errors.

An exception a property names is behaviour the property does *not* catch; `PROJECT.json`
says so at each hazard concerned.

### Bounds

Every property relates at most two or three actors: a call, a second call that could
disturb it, and one of Close, heartbeat or the end of input. Three calls of different
kinds give every pair; one Close suffices because the input loop and the heartbeat
close too. `MaxPush = 1` and `ChanCap = 1` are enough to fill the channel, because the
loop's last message is a second one. Numbers are small; the client's uint64 never
wraps in practice. For the server, two connections give one that is served while
another arrives; two responses fill a writeCh of one place whose writer stopped.
`PoolSize = PoolCap = 1` makes the second request wait. There is no symmetry: the
actors differ.

XaceXClient: `Retries = 1` gives a first attempt, a retry and its end; `Threshold = 1`
lets one failure open a breaker, so that a second call is in the middle of its check;
`MaxDials = 3` is a connection for each attempt of two calls, or for two servers and a
replacement; a fan-out to two servers has a first and a last verdict.
XaceDirectory: `MaxFlights = 2` and `Capacity = 1` let deliveries overtake each other and
be dropped; `MaxChanges = 1` suffices because the first list is one itself and discovery
repeats what it finds for ever; three servers, in two groups or none (`Groups`,
`NoGroup`), give each kind of selector a choice; `MaxPicks = 6` is more than a round of weights 3, 1, 1;
`MaxFaults`, `MaxCreates = 1` are one failed lookup, one failed creation. Three calls on a
OneClient are two that want the same xClient and one that changes a setting, the
selector, or closes.
XaceWire: a byte is below 32 and the continuation bit 16 (`Half`), so that two- and
three-byte varints appear at small numbers; `Word = 2048` and `Word32 = 256` make 64- and
32-bit integers overflow; `MinBuf = 16`, `MaxBuf = 32` and `MaxKeep = 24` give two size
classes, a message too long for them and one too long to be pooled. Conversions are of
one argument followed by a number, which shows where decoding stopped.

### Fairness

Client: a goroutine in the middle of an operation goes on; nobody has to start a call
or to read the channel of Go; the server has to answer nothing. A write on an open
connection may block for ever (it has no deadline without IdleTimeout), and so may a read;
both fail once this side has closed the connection (a closed socket returns from either).
Server: goroutines go on, services and handlers return, a write to a peer ends, the
pool stops within its deadline (it has one: 904). Nobody has to connect, send, leave or
call Shutdown; a read fails only after CloseRead or Close of the connection.
XClient: a call that has begun goes on; a request is answered, or its connection is lost,
or its context ends (each a disjunct of the same step); the one-minute timer of a fan-out
runs out (910, 919, 1006, 1124). Nobody has to begin a call, to close, or to let a
breaker's window pass.
Directory: discovery's ticker goes on (131-139), a delivery is received or dropped after a
minute (122), watch loops and constructors go on, an operation of OneClient that has begun
goes on. Changes and failures are bounded, so after some moment there are none; nobody has
to call, select, set or close.
All of it is weak fairness on the steps of one goroutine.
`CHECK_DEADLOCK FALSE` everywhere: a client or a server that has ended stops for good, a
call that has returned stays so, and a wire instance ends when its calls have.

## 4. Where code and comments part

* `client_signal`: Register, Close, EncodeFail sends the call twice into the Done
  channel of Go (`client.go:561`, `757-760`, `855-861`), against the comments at
  `client.go:261` and `client.go:284`.
* `server_graceful`: read, go processOneRequest, Shutdown polls zero and closes the
  connection, then the request is counted and answers into a closed connection
  (`server.go:501`), against `server.go:927` and `server.go:956`.
* `server_drain`: with AsyncWrite, serveConn closes writeCh before it waits for
  doneChan (`server.go:393` and `363-373`), and the request in flight panics when it
  answers, against `server.go:367`.

* `xclient_broadcast`: a goroutine of Broadcast delivers its failed verdict
  (`xclient.go:895`), the collector stops and finds the MultiError still empty (917, 927),
  and the caller gets nil, against "Success only when all servers return OK"
  (`xclient.go:836`). Servers that cannot be dialled are skipped without a word (862-864).

Others were met and are no run; the models contain what they describe unless section 7
says otherwise. In the client and server:

* the heartbeat looks at no answer (`client.go:809`, though `client.go:202` says "check
  responses"); PostConnClose plugins hear of a connection from Shutdown and again from its
  serveConn (`server.go:994`, `638`).
* A response without a payload, or with the code -90006, completes its call with a nil
  error and leaves Reply as the caller passed it (`client.go:700`, `721`): a nil error
  says that a response came, no more. `OkMeansAnswered` claims just that.
* A request whose own processing panics outside its method (the codec on its reply, a
  plugin) is recovered without an answer (`server.go:492-499`), and its caller waits until
  its context or the connection ends. `InflightDrained` excepts it.

In the xClient:

* Failbackup whose second Go is refused returns the first Go's nil error with the reply
  untouched (616-623); SendRaw returns nil after every server failed (727, 754, 786).
* A call that passed isShutdown before Close dials after it; the connection is cached and
  stays open (279, 314), though Close says it closes the "underlying connections" (1282).
* Two xClients that share a builder may both dial; the second entry replaces the first,
  whose connection no cache knows any more.

In discovery, selectors and OneClient:

* The centre's own xClient takes its servers from the centre: a list without it leaves
  nobody to ask, for good. A group (`Option.Group`) has the same effect: pairs of
  AceDiscovery carry no group, so the filter removes every one.
* The consistent hash forgets a server that stays and whose metadata becomes empty
  (`selector.go:279`). `CalculateWeight` gives 1 up to 999 ms and 0 from 1000 on, also for
  a failed measurement (`ping_utils.go:81-95`).
* A nil xClient in OneClient's map makes SetPlugins, Auth, SetSelector and Close panic
  with `c.mu` held (`oneclient.go:161`); Close then closes nothing, against its comment (241).
* A selector set before its xClient is made loses to ConfigGeoSelector (`oneclient.go:135-141`),
  one set afterwards wins.
* `AceDiscovery.Close` closes a channel that was never made (144); nothing calls it.
  InitializeAceCenter uses a nil client when the centre cannot be dialled
  (`acecenterclient.go:112-113`).

On the wire:

* The status of a message is not among the header's fields, so a response of Error status
  takes the branch of a success (`client.go:658`): the caller of a method that does not
  exist, or whose arguments cannot be decoded, gets a nil error and only the return code
  -90006. XaceXClient still lets a request end in a ServiceError: the input loop makes one
  of a payload it cannot decode (711). Its other case, an unknown codec (703), cannot
  happen while the serialisation type stays off the wire: it is read as 0, which is known.
* A method that returns an error has no return code before its reply (`server.go:753`,
  `769`); the client takes the reply's first number for one.
* Fields the receiver does not have lose their type and not their value
  (`decode.go:330-332`), and a float is written but never read: what follows is read from
  the wrong place. Text into an unsigned number panics (249-251), which ends the call with
  an error.
* A value of a kind the encoder has no case for is written as nothing, without an error
  (`encode.go:145-170`, `182-248`): an int8, an interface inside a struct, a pointer to a
  pointer. The receiver reads the next argument in its place; a reply of this kind after a
  short return code leaves a payload of less than four bytes, of which the code is not
  read (`message.go:353-363`), and the caller gets -90006.
* A length beyond the end of a message is bounded by the capacity of the pooled array
  (`decode.go:113`, `158`): it may read bytes of an earlier message instead of failing.
* Eight bytes are read before the length is known (`message.go:313-318`), and the shortest
  message has seven: a one-way request numbered 0 without path, method, metadata and
  arguments. Its read takes a byte of the next message or waits for one. No instance sends
  it: it names no service, and only the first call of a client is numbered 0.
* A value that cannot be encoded (a nil pointer, a uint8, a slice of bools) panics. In the
  client that is the caller's panic, with the call left in pending; in the server it is
  recovered and no response is sent.
* A one-way call with number 0 and no metadata arrives as an ordinary request
  (`header_serialize.go:16-34`).

## 5. What is proved

Every theorem holds for all values of the constants that the named assumptions of its
modules allow: any number of calls, connections, servers, requests, retries, paths,
settings and places in a channel, any weights, and any set of configurations. The assumptions give the constants their types
(`KindAssumption`, `RawSeqAssumption`, `BoundAssumption`, `OptionAssumption`,
`ConnOfAssumption`, `PoolAssumption`, `XOfAssumption`, `NumberAssumption`,
`XOfFanAssumption`, `FanKindAssumption`, `DirectoryAssumption`, `BoundsAssumption`,
`OneAssumption`; `ListsAssumption` for lists of servers, which are finitely many), keep names apart (`NameAssumption`: the shared
builder is no xClient, "no server" no server), and make the requests of a server and the
servers of an xClient finite sets (`FiniteAssumption`), which are counted. `MapAssumption`
keeps the application's hands off the xClients of a OneClient (section 2). TLC evaluates
each of them in the runs.

Each proof goes: the initial states, one lemma for each action or goroutine, one step
theorem over `Next`, a temporal step. What the code keeps straight is in the inductive
invariants; these are, with the reason for each part:

XaceClient (`XaceClient_proofs`)

* `TypeCorrect` (`TypeOK`), inductive as it stands.
* `ClosesOnce` (`ClosedOnce`). `FlagInv` ties both flags and the connection to
  `pluginClosed`: without it a Close that finds `pluginClosed` set could not be seen to
  find the connection closed as well.
* `NobodyStranded` (`NoCallerStranded`). When Close runs, a waiting call must be *in*
  pending to be completed. `StrandInv` says that the numbers the client handed out are
  below `seq` and distinct, so nobody else takes a call out under its number (`KeyInv`);
  that a registered call is in pending, held by the input loop, or was signalled
  (`KeptInv`); that a goroutine waits only for a call that was registered or completed at
  once (`WaitInv`); what pending can still hold once the client has ended (`DrainInv`);
  and that a signal stays in the channel until its own caller takes it (`DoneInv`). Calls
  that share a number with a SendRaw are outside it, as in the property.

XaceClient (`XaceSession_proofs`, on top of the above)

* `RepliesAreOwn` (`ReplyIsOwn`), `SuccessMeansAnswered` (`OkMeansAnswered`), `CancelsOwn`
  (`CancelTakesOwn`). `ToldInv` says what an unregistered call may have been told
  (`UnregisteredInv`: nothing but an error, and its number is still 0), where a goroutine
  with something to show is (`PlaceInv`), that what the input loop holds is held under the
  number of a request that was written and answered (`WireInv`), and what a call with a
  number of its own was told: success only after its own response, with its own reply or in
  `hollow` (`OwnInv`). That numbers stay distinct is `StrandInv`'s.
* `ClientRefines`: every step of the client is a step of RpcSession or a stutter, stated
  under the hypothesis that at no time a call shares its number with a SendRaw (`[]Apart`);
  such calls get each other's replies. `RefinesWithoutSendRaw` discharges it for clients
  that make no SendRaw: the client numbers its calls apart by itself.

XaceServer (`XaceServer_proofs`), by `Inv`

* `ConnsTracked` (`OpenConnsTracked`) and `LateConnsNeverServed` (`LateConnsTurnedAway`)
  are parts of `Tracked`, which adds that the writer of a connection starts with its
  serveConn and that Shutdown sets inShutdown first.
* `NoSecondAnswer` (`AnsweredOnce`), from `Held` and `Answers`: a request is in one hand
  at a time, serveConn's, its goroutine's, the channel's or the writer's, and only a hand
  that has not answered passes it on.
* `ShutdownDrains` (`InflightDrained`), under `~option.async`, which the code
  needs: with AsyncWrite TLC finds it violated (`server_drain`). It needs all parts: the order in which Shutdown
  and Close set what others read (`Downs`); that a connection which only Shutdown may
  close stays open until doneChan is closed (`Kept`); that handlerMsgNum is the number of
  requests being processed, so that a poll of zero means they are over (`Drained`); and
  that a request over was answered, unless it is among the `silent` (`Ended`).
* `ServerTypeCorrect` (`TypeOK`): inductive only with `Drained`, as a counter that is
  decreased must be known to be positive.

XaceXClient (`XaceXClient_proofs`), by `Inv`

* `ErrorsAreOutcomes` (`ErrorIsOutcome`) and `RetriesEnd` (`AnswerEndsRetries`), from
  `CallInv`: at each place in the code what a call may have sent and been given, and what
  error it carries, by fail mode and by where `getCachedClient` returns to.
* `CacheTracks` (`CacheTracksConnections`), from `CacheInv` (a connection is in one place
  of one cache and not closed there; what is about to be dialled is not cached), `DialInv`
  (one dial at a time for an xClient) and `HomeInv`: a connection that a call will remove,
  if cached at all, is so where that call removes it. Without the last, a removal could
  close a connection that another place still hands out.
* `CloseLeavesLate` (`CloseLeavesLateDials`), from `LateInv`: a call that dialled after
  Close is past the check for good. `BreakersStopDials` (`OpenBreakerStopsDials`), from
  `KnockInv`: likewise for a call that dialled past an open breaker, until it lets go.
* `XTypeCorrect` (`TypeOK`).

XaceFanout (`XaceFanout_proofs`), by `FanInv`, which contains XaceXClient's `Inv`

* `FanErrorsAreOutcomes` (`FanErrorIsOutcome`). One fan-out is described by its kind,
  caller, goroutines, channel, errors and reply alone, so that lemmas about it are free of
  the rest (`FanSound`): how far a goroutine is tells what became of its request
  (`OnWay`); the collector counts exactly the verdicts that are still owed (`Counts`); the
  errors are of failed requests (`Recorded`); a verdict of failure means one failed, a
  reply one that succeeded (`Heard`); Fork has its reply before it hears of a success
  (`Forked`); why the collector stopped (`Stopped`); what was returned (`FanTold`).
* `VerdictsAlwaysFit` (`VerdictsFit`): verdicts in the channel and verdicts owed are
  together no more than its places (`Counts`), also after the collector has left.
* `CallsBesideFans`: the five invariants proved of calls hold of calls made beside
  fan-outs. `Reconnect` and `WorkerRemove` keep `Inv` (`GatherCalls`, `RemoveCalls`), the
  latter because the connections of the goroutines are at home too (`WorkerHomes`), which
  no step of a call changes (`NextHomes`).
* `FanTypeCorrect` (`FanTypeOK`).

XaceSums, lemmas only

* The community modules define a sum over a finite set by recursion on the set.
  `SumOfAny` (a sum is any one term and the sum of the rest), `SumOfChange`, `SumAtLeast`,
  `SumOfBoth` and the others are what the proofs about weights and counts need.
* The library's induction theorems take a predicate, which no prover here can instantiate.
  `LeastElement`, from NatLessThanWellFounded and WFMin, which do not, gives induction over
  a *set* of cases instead: `NumbersInduction` and `SubsetsInduction`.

XaceDirectory (`XaceDirectory_proofs`), by `DirInv`: types (`CentreTyped`, `WireTyped`,
`ClientsTyped`) and, for each xClient, `ClientOK`, of its selector and the one it is about
to be given alike, since `Install` makes the second the first

* `SelectorsTrackServers` (`SelectorTracksServers`). `Sound`: the order of a selector lists
  exactly the servers it may choose, each once, and the servers missing from its hash have
  no metadata. `Tracks`: unless a list overtook the selector, its list is the xClient's.
  `Updated` and `NewSelector` keep `Sound` whatever the kind.
* `RoundsStayFair` (`RoundsAreFair`). `InTurn`: counts differ by one between the places the
  index has passed in this round and those it has not, also when the index was kept from a
  longer list (`Rounds`). `ByWeight`: what a server is behind is its current weight, the
  current weights add up to 0, and each stays above the negated total. That each is also
  less than the total times the number of other servers follows from the sum; the end of a
  round, because current weights are then multiples of the total, none of them negative,
  that add up to 0.
* `DirTypeCorrect` (`DirTypeOK`): the selections counted are the sum of the counts.

XaceOneClient (`XaceOneClient_proofs`), by `OneInv`, which contains `DirInv`

* Every step on an xClient is one of the directory's operations (`StepTouches`), so `DirInv`
  is kept, and `MapTracksServers` and `MapRoundsFair` hold of xClients made on demand.
* `SettingsAlwaysReach` (`SettingsReachCallers`), from: who is where (`Doing`) and holds
  `c.mu` how (`Locks`); that an xClient is made once, by a call that has the map to itself,
  and handed to every caller (`Maps`); that an xClient complete or about to be stored has
  the field's value of each setting, or a setter is on its way with the field already set
  (`Fields`); and that its selector is its path's or closest, or SetSelector or
  ConfigGeoSelector is on its way (`Moded`, `Selected`). The last needs to know whose each
  pending selector is: one of the application's is held by a writer (`Awaits`), so the
  readers that ConfigGeoSelector's loop is among install none but its own, and an xClient
  the loop has reached and installed is closest (`Locates`).
* `OneTypeCorrect` (`OneTypeOK`).

Only model-checked: all liveness properties (the proof system has no rules for fairness
and ENABLED), among them `WatchersSettle`; and the properties of XaceWire, which rests on
XaceCodec, recursive throughout like the code and so out of the provers' reach.

## 6. Plan

Every safety property that a run checks of the client, the server, the xClient, the
fan-outs, the directory and OneClient is proved. What is left:

1. XaceWire and XaceCodec: their definitions as recursive functions instead of RECURSIVE
   operators, which would open them to the provers. `MessagesArrive` would come first: it
   needs no recursion over types, only that packing and unpacking a header agree.
2. Calls that follow other calls: SendFile, DownloadFile and Stream (section 7).

## 7. Not modelled, and why

* Metadata beyond what the header does with it, compression, tracing, logging: no property
  is about them, and the compression type is not sent.
* Deadlines of the sockets (a timeout is a failed read or write; the server ignores the
  error of a failed write), TLS handshakes, listeners: I/O.
* ServeHTTP, which registers a connection as the accept loop does; SendMessage (one
  write); Restart (it starts a process and calls Shutdown); a second concurrent Shutdown,
  which returns at once; a Shutdown before Serve, which panics; a handler that writes
  several answers.
* Registration of services (`service.go`), sequential reflection; registerFunction writes
  into a map that was never made (237), which its first call shows.
* The object pool (`server/pool.go`): off by default, it changes which object the arguments
  are decoded into. A `[]byte` argument is a slice of the pooled message
  (`decode.go:260-261`): a service that keeps it after returning sees it overwritten;
  services of the model keep nothing.
* SendFile, DownloadFile, Stream: a call, then a connection of its own.
* The breaker's `Call` with its timeout (32-65): nothing calls it.
* The calls of OneClient and AceClient once their xClient is found, which only pass on.
* Panics of a sequential caller: `AceDiscovery.Close`, and InitializeAceCenter with a centre
  it cannot dial. PostConnClose reports are not counted.
* ICMP, coordinates and hash values, as numbers: the models take round-trip times and
  distances as given and let a hash fall on any server of the ring.
* The codecs for JSON, raw bytes and the like (library calls), Decode and PeekField.
* The heartbeat and raw messages on the wire: in XaceClient they are calls like others.
* Data races on `ServerMessageChan`, `isShutdown` and the selector, taken as atomic
  accesses. The worker pool is a library, modelled from its use: a bounded queue and a
  number of workers. Plugins are callbacks whose verdicts are free choices.
