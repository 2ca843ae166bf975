# go-tarantool: TLA+ models, checks and proofs

This directory specifies go-tarantool, the Go client of the Tarantool database: what a `Connection`
does with requests, with a socket that breaks and with the watchers of a key, how a session with the
server begins and what its requests look like on the wire, and how the pool and `ConnectionMulti`
keep several connections. The modules are translated from the source; `PROJECT.json` maps every
definition to the lines it stands for.

## 1. The system

| Part | State | Operations | Interacts with |
|---|---|---|---|
| `Connection`: requests (`connection.go`, `future.go`) | shards with two future lists and a buffer each, `requestCnt`, the `rlimit` channel | `send` (`newFuture`, `contextWatchdog`, `putFuture`), `fetchFuture`, `peekFuture`, `markDone`, `timeouts`, `closeConnection` | reader and writer share the shards with every caller |
| `Connection`: life cycle | `state`, `c`, `mutex`/`cond`, `control`, `shutdownWatcher` | `Connect`, `createConnection`, `dial`, `reconnect`, `Close`, `shutdown`, `pinger` | clears the futures; subscribes to `box.shutdown` through the watchers |
| `Connection`: watchers (`watch.go`) | `watchMap` of one-element channels that hold a `watchState` | `NewWatcher`, `Unregister`, the eventer, the resubscription in `dial` | sends WATCH/UNWATCH as asynchronous requests |
| Writer and buffers (`smallbuf.go`) | `dirtyShard`, a buffer per shard | `writer`, `putFuture` | `closeConnection` resets the buffers |
| `Future` and iterator | `pushes`, `resp`, `err`, `ready`, `done` | `AppendPush`, `SetResponse`, `SetError`, `Next` | filled by the reader |
| Dialing (`dial.go`, `auth.go`, `protocol.go`) | none that lasts | greeting, ID, authentication, feature check | called by `dial` |
| Schema (`schema.go`) | the maps of spaces and indexes | `loadSchema`, `ResolveSpaceIndex` | loaded by `Connect`, read by every request's `Body` |
| Request objects (`request.go`, `stream.go`, `prepared.go`, `watch.go`) | the fields their setters assign | constructors, setters, `Body`, `pack` | packed into the shards' buffers |
| Responses (`response.go`, `box_error.go`) | code, buffer, decoded fields | `decodeBody`, `decodeBodyTyped`, `encodeBoxError` | decoded by `Get` and the iterator |
| Pool (`connection_pool/`) | three round-robin lists, a checker goroutine per address, roles, pool watchers | `fillPools`, `updateConnection`, `tryConnect`, `reconnect`, `Close`, `NewWatcher` | owns Connections, calls the user's `ConnectionHandler` |
| Multi (`multi/`) | a map of connections, a fallback | `checker`, `getCurrentConnection`, `Close` | owns Connections |
| CRUD, settings, queue | little or none | build requests, decode answers | sit on a `Connector` |
| Types: decimal, datetime, interval, uuid | none | conversions to and from msgpack | used by the encoder |

What is hard here is concurrency. Five kinds of goroutines take futures out of the same lists;
`createConnection` releases the connection's mutex while it sleeps; the first dial runs without
that mutex; the rate limiter's channel is received from under the shards' locks; watch states
are copied, used after a callback and shared by watchers that come and go; WATCH and UNWATCH
get no answer and may be lost with a buffer. The pool and `ConnectionMulti` add goroutines of their
own, which connect, ask for roles and call the user's handler between critical sections. What is
built for one request is easy to get wrong too: lengths written before the entries they count, slots
of options, state that a second `Get` or a second send finds changed. `PROJECT.json` lists the hazards, each at its line.

What makes the parts correct: a future has one owner, is never lost and keeps the error that explains its end; nothing is
queued on a dead connection; counters and tokens are accounted for; a graceful shutdown kills no
request and ends; `state`, socket and `control` agree and a broken connection always has somebody
who works on it; a running watcher is reachable through `watchMap` and subscribed; a callback sees
the latest value; the handler of a pool is told of an end for every beginning, a write goes to a
master, no connection is forgotten open, and a pool heals; every accepted request is one well-formed
packet on the socket it was accepted for; an iterator hands out everything once and in order.

## 2. Modules

| Module | Models | Uses |
|---|---|---|
| `Requests` | the life of requests and futures on one Connection | |
| `Lifecycle` | connecting, breaking, reconnecting, shutting down, closing | |
| `Watch` | the watchers of one key | |
| `Transport` | buffers, dirty shards and the writers of successive sockets | |
| `Response` | what is decoded from a response, and box errors | |
| `Future` | pushes, the outcome, iterators and `Get` of one future | extends `Response` |
| `Schema` | rows of `_vspace` and `_vindex`, resolution of names | |
| `Wire` | request objects, their setters, bodies and packets | extends `Schema` |
| `Crud` | the requests and options of the crud module | extends `Wire` |
| `Session` | dial, the load of the schema, requests built and sent | extends `Crud`, instance of `Response` |
| `Reader` | an independent reader of the packets, and what it must find in them | extends `Session` |
| `ConnSet` | what a list of the pool promises: a map of connections | |
| `RoundRobin` | `RoundRobinStrategy` as the code has it | refines `ConnSet` |
| `Pool` | the connection pool, its handler and its watchers | its lists are those of `ConnSet` |
| `Multi` | `ConnectionMulti` | |
| `RequestsProofs`, `LifecycleProofs`, `WatchProofs`, `TransportProofs`, `RoundRobinProofs`, `PoolProofs`, `MultiProofs` | theorems about the module of that name | that module, `TLAPS` |
| `MessageProofs` | theorems about `Future` and `Session`, which decode responses alike | both, `TLAPS` |
| `MC...` | the same for TLC: the values of constants, symmetry of watchers | |

`Session` composes the handshake, the schema and the encoding; `Future` composes the iterator with the
decoder of responses; `Pool` stands on the abstract list that `RoundRobin` is shown to implement.
The goroutines of one Connection are split into `Requests`, `Lifecycle`, `Transport` and `Watch`, each of
which takes the others as environment: a dial succeeds or fails, a future is settled by somebody.

An operator whose comment says *Mutant* stands before the definition it is a plausible wrong
version of; nothing but the mutation tests uses it.

### Requests

One action is one critical section of a shard's mutex, one channel operation or one atomic access.
`pc[r]` is where `send` is for request `r`: `limit` (RLimitDrop's token), `load` (the state is read
under `rmut`), `add` (the rest of that critical section, `rmut` still held), `wait1`/`wait2`
(RLimitWait), `ctx` (second look at the context), `put` (`putFuture`), `cancel`, `packerr`,
`packwait`, `async`, and how it returned. A future is in `requests` or `requestsWithCtx`, or it is
in `got` (fetched by a goroutine that settles it next) or in `marking` (settled, `markDone` comes
next), or nobody has it any more. `closing` is the error `closeConnection` is handing out; it
clears one future at a time because `markDone` may block between two. `RLocked`/`BufLocked` derive
who holds a shard's locks from the other variables.

Abstracted: bodies and schema (a request packs or does not: `BadIds`), the order inside one future
list (`ClearsBefore` keeps the order of `closeConnection`), the clock of `timeouts` (any queued
request without a context may expire), identifiers that wrap, the writer (see `Transport`; a packed request may be
answered). `lockShards` is one step: the goroutines that hold a shard's lock never wait for another
shard's. After a reconnect the old reader may still deliver what it has read, so answers are
not tied to the connection they were sent on; a stale one finds no future.

### Lifecycle

Sockets are numbered. Each has a reader and a writer (`run`, then `reconnect`, then perhaps the
`createConnection` loop). `Connector` is the goroutine `Connect` starts after a failed first dial,
`Shutter` is `shutdown()`. `mutex` is held across the steps in which the code holds `conn.mutex`;
a loop in `lock` is asleep without it. `err` has the goroutines whose named result `err` still
holds the error of an earlier attempt. The handshake succeeds or fails; requests are reduced to
what `requestCnt` sees of them. The Opts.Reconnect setting is an initial choice (`reconnect`), so
that one run has both cases. `ShutdownEvent` waits for the previous `shutdown()` to end.
`conn.notify` is left out here: it never blocks; `Pool` and `Multi` have its receivers.

### Watch

A `watchState` lives in a channel of capacity one; taking it out, changing it and putting it back
is one step. A watch state is named by the `NewWatcher` call that stored it. `local[w]` is the copy
the goroutine holds: its `changed` channel is the one it waits on. The channels `changed` and
`unready` are numbers, 0 is nil. `events[d]` holds the notifications of connection `d` on their way
through the socket, the reader's channel and the eventer; a disconnect keeps any prefix of them.
The server is external: a first WATCH is answered by an event, another WATCH is an acknowledgement
and is answered at once if the value has changed, a broadcast is sent to a subscriber that has
acknowledged. Keys are independent of each other, so there is one.

### Transport

A request is accepted for the socket that is current in `newFuture` (`epoch`), packed under `bufmut`
and announced in `dirtyShard` by the sender that found the buffer empty. Every dial starts a writer;
the writer of a lost socket lives on until it notices. `packet` is what a writer has swapped out,
`wbuf` what its buffered writer holds, `out` what has left. A full `dirtyShard` blocks senders and
writers, as in the code; a writer that puts a shard back holds its `bufmut`, and a dial, which publishes
the new socket with all shards locked (`connection.go:550`), waits for it. `Dial` takes all the locks in
one step. Outcomes of futures are reduced to `settled`. `closeConnection` fails what is in the lists
(`Listed`): a future that a watchdog has fetched (`connection.go:491`) and not yet failed is `cancelled`,
in no list and not done, and may be packed for the next socket.

### Response and Future

A body is a sequence of pairs of a key and a value, where a value may fail to decode (`Absent`).
`DecodePair` says what a pair does (nothing, an error, an assignment to a field or to a local variable),
`AllPairs` is the loop over them (in the metadata of a column a value of another type than expected is a
panic, `MetaFault`), and `DecodeBody` and `DecodeBodyTyped` add the special cases for
statements and for the answer to ID; `Rewound` is the deferred `Seek`. In `Future` an
iterator reads the list under the mutex, waits for a token of `ready` or its timer, and decodes
outside of the mutex; of its error it is only kept whether it came from the future or from a body.
`Get` is one step: two concurrent ones are a data race on the buffer.

### Schema, Wire, Crud and Session

Values are tagged tuples, nested at most three deep (`Encode`, `Encode2`, `Encode1`: a list of operations
with a key as argument), bytes are msgpack tokens. `Body` and `Pack` write tokens with the lengths the
code computes; `Packets` of `Reader` knows msgpack and nothing of requests, so that a wrong length,
a doubled key or a missing value shows. An encoder that fails or panics leaves what
it wrote, as in the code. Request objects keep their fields between two sends. `Session` runs `Dial` step by
step, each of which may fail, against a server whose protocol is chosen at the beginning and does not depend
on what the client records: it answers the ID request with the truth, with an error or beside the point. It
loads the schema, `maxSchemas` rows of each kind, while another client creates and drops spaces, and sends
requests from constructors and setters in any order, with spaces and indexes of any type; an SQL request may
be answered with one of `Bodies` or fail in the client. Strings, hashes and digits are atoms; the password is an atom of its own, told apart from its scramble.

### ConnSet, RoundRobin, Pool and Multi

`RoundRobin` has the slice, the map of indices and the counter `current`, whose increment under a read
lock is two steps; its counter has `Width` values so that it overflows. In `Pool` one critical section
of `poolsMutex` is one action, and the handler's callbacks are actions between them. A connection is
`up`, `down` (it reconnects by itself) or `closed`; what happens inside is `Lifecycle`'s. Failures, role
changes and refusals together are bounded by `MaxFaults`. `late` is a history variable: the entries of
`NewWatcher` for connections that had left the subpool when it came to them. `getNextConnection`, `Do` and
`NewWatcher` do not take `poolsMutex`, so they can also see the lists between the steps of one `addConnection`
or `deleteConnection` (`connection_pool.go:798`), a connection in `anyPool` and not in the list of its role or
the reverse. What they take from a list was in it before the whole action or is in it after, so that
`RoutedToDiscovered` is not touched; but a call that looks at two lists (`PreferRW`, `PreferRO`, the connection
of a statement) may find its connection in neither and fail where the model finds it in one. In
`Multi` the checker calls `Connect` without the mutex, one action before the result is put into the pool;
`displaced` is a history variable. `WarmUp` leaves out a connection that `Connect` returns while it is still
down (`multi.go:121`) and addresses that are given twice (`multi.go:118`).

## 3. Runs

| Run | Shows | Bounds |
|---|---|---|
| `requests_safety` | `SoleOwner`, `NoLostFuture`, `NoPanic`; `requestCnt` is exact (`CounterAccounting`), a graceful shutdown kills nobody (`GracefulDrain`), responses reach their future (`AnsweredLeavesQueue`), nothing is queued on a dead connection (`UnusableQueueEmpty`) | 3 requests in one shard (one asynchronous, one that cannot be packed), RLimitWait with 1 token, 1 push, 2 dials, Timeout |
| `requests_liveness` | token accounting and at most RateLimit requests on the wire (`RateLimited`); every request without a context ends (`EventuallySettled`), one with a context ends once that is done (`CtxSettles`), `closeConnection` returns (`CloseTerminates`), a graceful shutdown waits for requests with a context only (`ShutdownCompletes`) | 2 requests, RLimitDrop with 1 token, 1 push, 2 dials, Timeout |
| `lifecycle` | socket, state and `control` agree (`StateConsistent`), somebody reconnects (`SomebodyReconnects`), closed is for ever and all goroutines end after it (`CloseIsFinal`), a lost wake-up of `shutdown()` is made good (`ShutdownWakes`) | 2 sockets, 1 shutdown, 1 user, with and without Reconnect, endless reconnects, refusals |
| `watch_safety` | `WatchMapConsistent`: running watchers are in `watchMap`, `cnt` is right, version 0 means no event | 2 watchers, 2 connections, 1 broadcast, versions up to 2 so that they overflow, refusals, overtaking |
| `watch_liveness` | the server is subscribed (`Subscribed`), `unready` ends (`UnreadyEnds`), a lone watcher sees the latest value (`AloneCalledWithLatest`) | 2 watchers, 1 connection, 2 broadcasts, delivery in order |
| `watch_missed` | expects a violation, see below | 2 watchers, 1 connection |
| `roundrobin` | `RoundRobin` implements `ConnSet` (`ImplementsMap`), its index is a bijection and undisturbed callers are served in turn (`ListConsistent`) | 3 addresses, 4 connections, 2 callers, a counter of 8 values |
| `pool` | Discovered and Deactivated are paired (`HandlersPaired`), requests reach discovered connections of the right role (`RoutedToDiscovered`), no connection and no watcher is forgotten (`NoLeakedConnection`, `WatchersFollow`), the pool heals and Close ends everything (`Settles`) | 2 addresses, 1 watcher of mode RW, 2 faults of any kind, a handler that may refuse |
| `multi` | no nil connection (`CurrentNotNil`), what may leak and that the pool follows the addresses (`ConnectionsKept`), it heals or the checker ends (`Settles`) | 2 addresses at first, two other lists, 2 faults, 7 connections per address, 2 waiting events each |
| `transport` | a buffer with bytes is announced and how full `dirtyShard` gets (`ShardsAnnounced`), packets go out once and to their own socket (`SentOnce`), and eventually, unless they are over (`EventuallyOut`) | 2 requests (one with a context) in 1 shard, 2 sockets |
| `future` | iterators hand out everything in order and errors last (`HandedOutInOrder`), no outcome is left to timers (`SomeoneSeesAll`), repeated `Get`s agree in data and error and box errors survive (`OutcomeKept`) | 2 iterators, 2 pushes, 9 kinds of answers |
| `session` | failed handshakes close the socket, requirements are met, no password in the clear (`HandshakeSound`), packets can be parsed (`PacketsParse`), iterators, names and options arrive as asked (`SentAsAsked`), panics are the known ones (`PanicsExplained`) | all options of dial, 12 protocols, 9 spaces, selects of 5 rows (`maxSchemas`), 2 changes of the schema, at most 2 requests and 3 setters, at most 2 crud options at a time |

A property that is a conjunction names its parts, each of which has its own comment; mutants of the
code break each part.

Two requests are enough for two goroutines to meet on one future while a third is active, three for
a full rate limit and a bystander. Two sockets give old readers and writers next to new ones and two
loops at once. Two watchers give the last one that leaves against one that joins. Two faults let a
connection of the pool break while another one's role changes, or break again after it was replaced. In
`session` the bounds of requests and setters are traded against each other: two requests show that one
that fails to pack leaves the other intact, three setters that their order does not matter.
MaxReconnects is 0 in `lifecycle`, so that the
limit itself is not part of the run.

Deadlock is not checked in `requests_safety`, because with RLimitWait the client really can stop (see
below), nor in the runs of `Pool`, `Multi`, `Transport` and `Session`, which end when everything is closed or the
bound of requests is reached. Everywhere else it is; `Rest` is the step of a system in which everything has ended.

### Where the code does not do what it says

`watch_missed` (`CalledWithLatest`) expects a violation: after its callback a watcher waits on the
`changed` channel of a second copy of the watch state. An event applied during the callback has set it
to nil; the watcher then waits for ever, although its documentation promises another call
(`connection.go:1392`).

The following properties, too, state what a comment of the source promises, and TLC finds each of them violated
when it takes the place of the properties in the configuration that is named here. No run lists them, so that the
runs stay as many as there are questions; the properties of the runs except exactly these cases.

| Property, configuration | The promise | What the code does |
|---|---|---|
| `TimeoutSparesContexts` in `requests_safety.cfg` | Opts.Timeout does not affect a request with a context (`connection.go:243`) | a push moves its future to the list that the timeouts goroutine looks through (`connection.go:1100`); its response is dropped too |
| `PackErrorWins` in `requests_safety.cfg` | a packing error is more important than a connection error (`connection.go:1059`) | it is set on a future that is done, where SetError does nothing (`connection.go:1062`) |
| `DropsOnlyInFly` in `requests_liveness.cfg` | RateLimit counts requests that are queued and not over (`connection.go:264`) | a request refused for the state of the connection keeps its token (`connection.go:914`), so that after RateLimit refusals every request is dropped |
| `ShutdownAfterRequests` in `requests_liveness.cfg` | a graceful shutdown ends once all requests are finished (`connection.go:135`) | a request whose context is done inside `newFuture` stays counted for ever (`connection.go:946`) |
| `ReconnectPossible` in `transport.cfg`, with ReqIds = {2, 3, 4} | after a disconnect a new connect attempt is made (`connection.go:250`) | the last writer waits with `bufmut` held for room in a full `dirtyShard` (`connection.go:769`); `dial` waits for `bufmut` and nobody makes room |
| `EveryOpenWatched` in `pool.cfg`, with MaxFaults = 3 | a pool watcher is one watcher for each connection of a suitable role (`connection_pool.go:672`) | `NewWatcher` stores an entry for a connection that was deleted meanwhile; `watch` then takes the next connection to that address for watched (`watcher.go:110`) |
| `OnlySuitedWatched` in `pool.cfg` | the same | a connection whose role changes between `GetConnections` and `watch` is watched although it does not suit (`connection_pool.go:718`) |
| `ErrorReturned` in `session.cfg` | `ExecuteTyped` returns an error (`request.go:366`) | it dereferences the response of a request that has none (`request.go:371`) |
| `EveryOptionByName` in `session.cfg` | each option of `crud.get` has its meaning (`crud/get.go:17`) | most are written one slot too early, the fields never (`crud/get.go:43`); likewise `crud.select` (`crud/select.go:65`) |

Met while modelling, these included; the modules do as the code does, and the properties except exactly these cases:

* The first four rows of the table. `TokenAccounting` counts the
  leaked tokens and `CounterAccounting` the abandoned requests, each as a term of its own,
  `ShutdownCompletes` excepts the abandoned requests, and `AnsweredLeavesQueue` the request with a context
  that a push has moved (`Moved`), and no other.
* With RLimitWait a future is queued before it has a token, but `markDone` takes one for every queued
  future (`connection.go:1085`); `closeConnection` then blocks with all shards locked. `CloseTerminates`
  is checked with RLimitDrop for this reason.
* A `createConnection` loop that slept while another goroutine reconnected returns the error of its last
  attempt (`connection.go:644`), and its caller closes the good connection although MaxReconnects is 0.
* With RLimitWait a request that ends while it waits gives back a token it never took
  (`connection.go:1087`), so that more than RateLimit requests can fly.
* A loop makes MaxReconnects + 2 attempts before it gives up (`connection.go:631`), and several
  loops may be at work, each with its own count.
* A refused WATCH for the shutdown event makes `dial` fail after it has published the connection
  (`connection.go:560`); the loop then sleeps once and the connection is closed.
* `Connect`'s first dial tests and sets `shutdownWatcher` without the mutex (`connection.go:559`); a
  reader that reconnects meanwhile subscribes too, and one of the watchers is never unregistered.
* `dial` skips a key whose first WATCH is still being sent (`connection.go:528`); if that WATCH was
  lost with the old connection the watcher is never subscribed. `Subscribed` is checked on one
  connection for this reason.
* An UNWATCH may be overtaken by the WATCH of the next watcher when they are packed into different
  shards (`connection.go:1080`), which unsubscribes that watcher: `Overtakes` is off in
  `watch_liveness`.
* An acknowledgement refused by the rate limit is never repeated (`connection.go:1459`).
* The eventer of an old connection may apply an old value after a newer one (`connection.go:871`).
* A late event of a closed connection makes the checker of `ConnectionMulti` connect to an address that
  has a good connection already (`multi.go:173`); the good one is overwritten and never closed.
  `LeakedOnlyIfDisplaced` has these as `displaced`. A `Connect` that ends after `Close` likewise puts an
  open connection into the closed pool, although "there is no way to reopen" it (`multi.go:260`).
* `WatchersCoverPool` excepts the entries that `NewWatcher` made for a connection which had left the subpool
  (`late`), the cause of the rows about `Pool`.
* A watchdog takes a future out of its list and fails it in a second step (`connection.go:490`). A
  `closeConnection` in between does not see it (`connection.go:674`), so that `putFuture` may find it not done and pack it
  for the next socket, where it is written although its user is told that its context is done. `OnOwnSocket`
  excepts exactly the requests that were cancelled before they were packed.
* `closeImpl` calls the handler, and `deleteConnection` unregisters watchers, with `poolsMutex` held: a
  callback that uses the pool waits for itself (`connection_pool.go:222`).
* A response with the error bit whose code without it is `OkCode` or `PushCode` is an error for the first `Get`
  only (`response.go:265`): `RepeatedGetsAgree` excepts such an error (`Fading`), and compares the data of all.
* One of several iterators of a future may miss the token of a push and see it after its timeout
  (`future.go:70`).
* `PanicsExplained` lists where the client panics. A space created between the two selects of `loadSchema`, or
  one beyond the 10000 rows they return, is a nil dereference (`schema.go:328`), and so is `ExecuteTyped` of a
  request that fails, while it is packed or later (`request.go:371`). A slice of another type than
  `[]interface{}` or `[]KeyValueBind` as SQL arguments (`request.go:543`) and a space or an index of another
  type than the documented ones (`schema.go:383`, `schema.go:429`) panic with the shard's buffer locked.
  Metadata with a value of another type fails a type assertion (`response.go:55`).
* SQL arguments that are nil or a scalar write no value (`request.go:578`), and `encodeOptions` ignores an
  option that cannot be encoded (`crud/options.go:321`): the packet is malformed (`LacksValue`).
* `OptionsByName` excepts the misplaced options of `crud.get` and `crud.select` (`Misplaced`), the cause of
  the last row.
* A prepared statement is accepted by its Connection after a reconnect, when the server no longer knows it.

### Fairness

`Requests`: the client's own goroutines run (the sender's steps, `timeouts`, watchdogs,
`closeConnection`, settling); nothing is assumed of users, contexts, the network or the server. Weak
fairness is enough since a shard's lock that stays free is taken by Go's mutex. `Lifecycle`: the
goroutines run, a reader of a closed socket fails, the ticker of the pinger ticks, and every request
ends, which `Requests` shows for Opts.Timeout. `Watch`: goroutines run, callbacks return and a
connection that stays up delivers; nothing is assumed of disconnects, Unregister or broadcasts.
`Transport`: senders, writers and watchdogs run and a broken socket is noticed. `Pool`: the checkers run, their
tickers tick, and a connection that may reconnect comes back or gives up; nothing is assumed of users,
instances or watchers. `Multi`: the same; strong fairness of `Tick`, since the `select` of the checker takes
the timer at random among what is ready, and not never.

## 4. Proofs

Every safety invariant that a run checks is proved with TLAPS for all values of the constants, except
`PacketsParse` and `SentAsAsked`; so is the refinement of `ConnSet` and the safety part of the
action properties. The bounds of the runs (faults, dials, pushes, connections) are constants of the
theorems, natural numbers like any other.

| Module | Theorems | Inductive invariant | From |
|---|---|---|---|
| `RequestsProofs` | `Typing`, `SafetyInvariance`, `SoleOwnerHolds`, `NoLostFutureHolds`, `UnusableQueueEmptyHolds`, `NoPanicHolds`, `CounterAccountingHolds`, `GracefulDrainHolds`, `RateLimitedHolds`, `AnsweredLeavesQueueHolds` | `SafetyInv`, with `CounterAccounting`, `DrainInv`, `NobodyWaits` and `InOwnList` on top | identifiers are natural numbers, finitely many requests, `Concurrency > 0`, options in their ranges |
| `LifecycleProofs` | `StateConsistentHolds`, `SomebodyReconnectsHolds`, `MutexHeldInsideHolds`, `ClosedForGoodHolds` | `LifecycleInv` | `LifecycleAssumption`: options in their ranges, the pinger is no user |
| `WatchProofs` | `WatchMapConsistentHolds`, `SubscribedHolds` | `WatchInv`, `SubscribedInv` | `WatchAssumption`: finitely many watchers, more than one version |
| `TransportProofs` | `SentOnceHolds`, `ShardsAnnouncedHolds` | `PathInv`, `TransportInv` | natural numbers, `Concurrency > 0` |
| `MessageProofs` (`Future`) | `HandedOutInOrderHolds`, `SomeoneSeesAllHolds`, `BoxErrorRoundTrip`, `OutcomeIsKept` | `FutureInv`, `SomebodyUpToDate`, `OutcomeInv` | there is an iterator (for the second only); `AnswersAssumption`, `StacksAssumption` (for the last only) |
| `MessageProofs` (`Session`) | `HandshakeIsSound`, `PanicsAreExplained` | `HandshakeInv`, `PanicsInv` | `InfosAssumption` for the first; `RowsAssumption`, `BodiesAssumption`, `GoValuesAssumption`, `FreshAssumption`, `ValuesAssumption` for the second |
| `RoundRobinProofs` | `ListConsistentHolds`, `ImplementsMapHolds` | `RoundRobinInv` | a connection has one address and is not nil |
| `PoolProofs` | `HandlersPairedHolds`, `NoLeakedConnectionHolds`, `RoutedToDiscoveredHolds`, `WatchersFollowHolds` | `PoolInv`, `WatcherInv`, `EntriesKept` | nil is no connection and no role; modes are modes |
| `MultiProofs` | `CurrentNotNilHolds`, `ConnectionsKeptHolds` | `MultiInv` | addresses come from `Addrs`, nil is no connection, an address has room for a connection |

Each of these proofs goes the same way: `Init` implies the inductive invariant, a lemma per action shows
that it is kept, and the property follows from it. TLC has checked each inductive invariant on the
instance of the module's run before it was proved. Inductions over data (the pairs of a
body, the parts of a list) rest on `SetInduction` of `MessageProofs`, about sets of numbers
and derived from well-foundedness: the library's induction theorems take an operator as a parameter, which
the provers cannot instantiate. No property is inductive as it stands; what had to be added, and why:

* `Requests`. `SafetyInv` adds `EntryFresh` (no goroutine knows a future before `newFuture` queued it),
  `AddHoldsLock` (no `closeConnection` while a request is between the check of the state and `addFuture`,
  which is what makes `UnusableQueueEmpty` hold when that request is queued) and `PackedFirst` (nobody
  answers a request that was not packed, from which `NoPanic` follows). `CounterAccounting` and
  `TokenAccounting` go by cardinalities: every step adds one request to the set, removes one, or moves one
  within it. `DrainInv` says that once `shutdown()` has seen `requestCnt = 0` no request is counted beyond
  the check of the state, and none gets past it. `AnsweredLeavesQueue` needs `InOwnList`: a future is in
  the list in which its identifier is looked up, or a push has moved it.
* `RateLimitedHolds` assumes `~LimitWaits`: with RLimitWait a request that ends while it waits
  gives back somebody else's token, and TLC finds more than RateLimit requests on the wire (section 3).
* `Lifecycle`. Nothing else runs during the first dial (`BootAlone`, `ConnectorLast`), a socket's goroutines
  start when it is published (`NotYetStarted`), and `conn.mutex` really excludes the loops
  (`MutexHeldInside`, a theorem of its own). `SomebodyReconnects` must hold from the first dial on
  (`DisconnectedAttended`).
* `Watch`. A watch state that is not ready has one owner, who alone may store, announce or delete it
  (`OwnState`, `OneOwner`); only the state in `watchMap` is ready (`ReadyInMap`). Then no watcher joins a
  state that was removed, and `cnt` stays exact. `Subscribed` follows the queue to the server: the last
  request in it is WATCH whenever a state is offered (`WillWatch`).
  `SubscribedHolds` assumes one connection and no overtaking, the two ways in which
  the code does lose a subscription (section 3).
* `Transport`. A future that is neither done nor cancelled belongs to the current socket
  (`PendingIsCurrent`), therefore what is in a buffer does too unless it was cancelled (`BufferIsCurrent`), and a writer of a lost socket can only have taken what was its
  own. The announcements are counted: a shard is in hand of as many goroutines and places of the channel
  as its buffer and its resets account for.
* `Future`. `Position` relates an iterator's place, its pointer and the future as one look found them;
  `Handed` says what it has handed out in terms of `curPos`. For `SomeoneSeesAll`: when the last token is
  taken, whoever took it is about to look. For `OutcomeKept`, `OutcomeInv` says of each `Get` so far that its
  data and error are what its decoder would return on the response as it is now (`Right`). The step is that decoding
  changes nothing the next decoding depends on but the code's error bit, whose loss both kinds of `Get`
  survive unless the code is then `OkCode` or `PushCode`. That is shown for bodies with any number
  of pairs by induction along the loop: two runs over the same pairs end with the same local variables and
  the same error, and with the same message unless no pair has one (`Alike`); a message left
  by an earlier decoding comes from such a pair (`IsResp`).
  From `StacksAssumption`, an error in full is one that `encodeBoxError` writes and comes with
  its message only, as a server of the protocol sends it; `BoxErrorRoundTrip` then gives the stack back.
  `AnswersAssumption`: codes have sixteen bits, and the keys of a body, a msgpack map, differ.
* `Session`, the handshake. `HandshakeInv` adds that the socket is open in every phase in which Connect goes on
  (`SocketHeld`), that the protocol in `info` is the server's own, none if it does not know IPROTO_ID (`ServerKnown`, from what each
  answer to ID tells the decoder: `AnswersTell`) and was checked before the client authenticates
  (`ServerChecked`). `PasswordKept` is about all tokens of `out`, hence
  about every encoder that writes one: the ID request, the AUTH request with a scramble, and what `Pack`
  puts around them hold no password, and `MayAuth` lets the password itself through on "ssl" only.
* `Session`, panics. `PanicsInv` adds what the panics depend on: between the two selects the spaces
  are the first ones of the server unless it raced (`SpacesSeen`), so that an index finds its space
  unless there are more of them;
  and the request at hand has the fields of its type, with values a user can give
  (`RequestSound`, kept by every setter). That `Pack` panics only at a slice of SQL arguments or at a space or an index of an
  unknown type (`Unpackable`) is shown for every body of every request, one lemma for each `fill...`; for lists of any length by induction along
  the concatenation of their parts. That an answer panics only in metadata with a value of another type goes along
  the decoder's loop over the pairs (`PairFails`, `MetaDataPanics`). The assumptions say that an index lies under the identifier of its space,
  that a part of a value is a value, and that requests come from the constructors with such values.
* `RoundRobin`. The connection at an address's index is one to that address (`InItsPlace`), a caller
  between its two steps keeps the list from being emptied (`FilledWhileLocked`), and the calls served are
  the places before `current`, modulo the size (`ServedBefore`). For the refinement every step of the
  slice is shown to be the step of the map of the same name, or a stutter.
* `Pool`. What a checker holds is determined by where it is (`Holds`), what is in the subpools and what the
  handler knows follow from that (`InPools`, `HandlerKnows`), and the numbers of connections from the
  faults paid for them (`Paid`). For the watchers, `WatcherInv` adds that the container has exactly the
  watchers between add and remove, once (`Listed`), and `NothingMissed`: what `addConnection` did not
  show to a watcher, because it came before the container's add, is in the snapshot of `NewWatcher`. An entry
  is for the connection that the subpool has or `late` (`EntriesKept`): the unwatch of `deleteConnection`
  takes away every entry that was made in time.
* `Multi`. Connections are numbered as they are made (`Numbered`), the checker connects only where there is
  no open connection (`Targeted`), and where the pool may have entries depends on how far the checker is in
  replacing the list (`Listed`).

Only model-checked, and why:

* Liveness: `EventuallySettled`, `CtxSettles`, `CloseTerminates`, `ShutdownCompletes`, `ShutdownWakes`,
  the goroutines' end in `CloseIsFinal`, `UnreadyEnds`, `AloneCalledWithLatest`, `EventuallyOut` and both
  `Settles`. Fairness is out of the prover's reach.
* `PacketsParse` and `SentAsAsked`: the reader of `Reader` is a recursive descent over tokens, and the
  prover cannot reason about recursive operators. The encoder has none: its values nest three deep.
* `CalledWithLatest` and the properties of the table in section 3, which the code does not have.

## 5. Not modelled, and the plan

Not modelled, with the reasons:

* TLS (`ssl.go`): hands certificates and keys to a library, has no state.
* The queue client (`queue/`): a call of a stored procedure for every method, and a status copied from its
  answer; the states of tasks live in the server.
* Decimal, datetime, interval and uuid: conversions of digits and dates without state, over domains far
  beyond what TLC enumerates; `timezones.go` is a generated table.
* The decoders of crud results (`crud/result.go`, `crud/error.go`, `crud/stats.go`) and the String methods.
* Test helpers.
* The links inside `futureList`, the wrap-around of request identifiers, and the bytes of the buffers
  that the readers of two sockets share.

What is worth doing next:

1. A composition of `Pool` with `RoundRobin`, through the refinement that is proved for one list.
2. The status of a queue task as its methods report it; decimal's BCD and the arithmetic of intervals as
   operators with a bounded check.
3. `PacketsParse` for all requests: a reader as a function of the position, and the lengths that the
   encoder writes against what it reads.
