------------------------------ MODULE Requests ------------------------------
(***************************************************************************)
(* The life of a request on one Connection: Connection.send (newFuture,    *)
(* contextWatchdog, putFuture), the reader, the timeouts goroutine and     *)
(* closeConnection all take futures out of the shards' lists and settle    *)
(* them, while requestCnt and the rlimit channel count what is active.     *)
(*                                                                         *)
(* A future is known by its requestId.  Odd identifiers belong to requests *)
(* with a context, even ones to requests without (nextRequestId).  Each    *)
(* action is one critical section of a shard's mutex, one channel          *)
(* operation or one atomic access.  The identifiers never wrap.            *)
(***************************************************************************)
EXTENDS Integers, FiniteSets

CONSTANTS
    ReqIds,         \* the requests the users make, by requestId
    AsyncIds,       \* those whose Async() is true (WATCH, UNWATCH)
    BadIds,         \* those whose Body() returns an error
    Concurrency,    \* Opts.Concurrency, rounded up to a power of two
    Timeout,        \* whether Opts.Timeout > 0
    Reconnect,      \* whether Opts.Reconnect > 0
    RateLimit,      \* Opts.RateLimit, 0 when there is no rlimit channel
    RLimitAction,   \* "drop" (RLimitDrop) or "wait" (RLimitWait)
    MaxPushes,      \* bound: pushes the server sends
    MaxDials        \* bound: successful dials

ASSUME ReqIdsAssumption == ReqIds \subseteq Nat /\ IsFiniteSet(ReqIds)
ASSUME KindsAssumption == AsyncIds \subseteq ReqIds /\ BadIds \subseteq ReqIds
ASSUME ConcurrencyAssumption == Concurrency \in Nat \ {0}
ASSUME OptsAssumption ==
    /\ Timeout \in BOOLEAN
    /\ Reconnect \in BOOLEAN
    /\ RateLimit \in Nat
    /\ RLimitAction \in {"drop", "wait"}
ASSUME BoundsAssumption == MaxPushes \in Nat /\ MaxDials \in Nat

VARIABLES
    state,           \* conn.state
    closing,         \* the error closeConnection is handing out, or "no"
    drained,         \* shutdown() saw requestCnt = 0 and is about to close
    requests,        \* futures in the shards' requests lists
    requestsWithCtx, \* futures in the shards' requestsWithCtx lists
    got,             \* <<goroutine, future>>: fetched, to be settled next
    marking,         \* <<goroutine, future>>: settled, markDone comes next
    pc,              \* where send() is for each request
    fut,             \* outcome of each future, "pending" until done is closed
    ctxDone,         \* requests whose context is done
    watchdog,        \* requests whose contextWatchdog goroutine is alive
    wire,            \* "none", "sent" once packed, "answered" once read
    rlimit,          \* number of tokens in conn.rlimit
    requestCnt,      \* conn.requestCnt
    pushes,          \* pushes read so far
    dials            \* successful dials so far, each with a reader of its own

vars == <<state, closing, drained, requests, requestsWithCtx, got, marking, pc,
          fut, ctxDone, watchdog, wire, rlimit, requestCnt, pushes, dials>>

connVars == <<state, closing, drained, dials>>
listVars == <<requests, requestsWithCtx>>
ctxVars  == <<ctxDone, watchdog>>
wireVars == <<wire, pushes>>

Goroutines == {"reader", "timeouts", "closer", "watchdog", "sender"}
States == {"connected", "disconnected", "shutdown", "closed"}
Returned == {"limited", "refused", "abandoned", "packfailed", "returned"}
PCs == {"idle", "limit", "load", "add", "wait1", "wait2", "ctx", "put",
        "cancel", "packerr", "packwait", "async"} \cup Returned
CloseErrors == {"errNet", "errClosed", "errDrained"}
Outcomes == {"pending", "resp", "errRateLimited", "errClosed", "errNotReady",
             "errShutdown", "errTimeouted", "errCtx", "errPack", "errNet",
             "errDrained"}

-----------------------------------------------------------------------------
(* Helpers.                                                                *)

HasCtx(r) == r % 2 = 1
ShardOf(r) == r % Concurrency
LimitDrops == RateLimit > 0 /\ RLimitAction = "drop"
LimitWaits == RateLimit > 0 /\ RLimitAction = "wait"

Done(r) == fut[r] # "pending"
Queued == requests \cup requestsWithCtx
ByGoroutine(g) == {r \in ReqIds : <<g, r>> \in got \cup marking}

\* shard.bufmut: timeouts and closeConnection hold it while markDone may block.
BufLocked(s) ==
    \/ closing # "no"
    \/ \E r \in ReqIds : ShardOf(r) = s /\ <<"timeouts", r>> \in marking

\* Mutant: newFuture gives rmut back between its check of the state and addFuture.
RLockedNot(s) == BufLocked(s)

\* shard.rmut: they hold it too, and newFuture from its check of the state on.
RLocked(s) ==
    \/ BufLocked(s)
    \/ \E r \in ReqIds : ShardOf(r) = s /\ pc[r] = "add"

ShardsFree == \A r \in ReqIds : ~RLocked(ShardOf(r))
MutexFree == closing = "no" /\ ~drained

\* Mutant: getFutureImp mistakes the parity of the identifier.
FoundSwapped(r) == r \in IF HasCtx(r) THEN requests ELSE requestsWithCtx

\* getFutureImp looks into one list only, by the parity of the identifier.
Found(r) == r \in IF HasCtx(r) THEN requestsWithCtx ELSE requests

\* Mutant: findFuture returns the future and leaves it in the list.
FetchKeeps(r) == UNCHANGED listVars

\* getFutureImp(reqid, true).
Fetch(r) ==
    IF HasCtx(r)
    THEN requestsWithCtx' = requestsWithCtx \ {r} /\ UNCHANGED requests
    ELSE requests' = requests \ {r} /\ UNCHANGED requestsWithCtx

\* SetResponse and SetError do nothing once done is closed.
Set(r, v) == fut' = IF Done(r) THEN fut ELSE [fut EXCEPT ![r] = v]

\* Mutant: addFuture is called for the requests without a context only.
EnqueueNoCtx(r) ==
    IF HasCtx(r) THEN UNCHANGED listVars
    ELSE requests' = requests \cup {r} /\ UNCHANGED requestsWithCtx

\* addFuture, to the list for the request's kind.
Enqueue(r) ==
    IF HasCtx(r)
    THEN requestsWithCtx' = requestsWithCtx \cup {r} /\ UNCHANGED requests
    ELSE requests' = requests \cup {r} /\ UNCHANGED requestsWithCtx

\* Mutant: the request is never uncounted.
UncountNot == UNCHANGED requestCnt

\* decrementRequestCnt.
Uncount == requestCnt' = requestCnt - 1

\* Mutant: the channel is made one too large.
TokenFreeOneMore == rlimit <= RateLimit

TokenFree == rlimit < RateLimit

\* Mutant: markDone forgets the token.
ReleaseTokenNot == UNCHANGED rlimit

\* <-conn.rlimit in markDone, which blocks while the channel is empty.
ReleaseToken ==
    IF RateLimit > 0 THEN rlimit > 0 /\ rlimit' = rlimit - 1 ELSE UNCHANGED rlimit

GoTo(r, l) == pc' = [pc EXCEPT ![r] = l]

\* Where send() goes on once newFuture has queued the future.
AfterNewFuture(r) == IF HasCtx(r) THEN "ctx" ELSE "put"

-----------------------------------------------------------------------------
Init ==
    /\ \/ state = "connected" /\ dials = 1
       \/ Reconnect /\ state = "disconnected" /\ dials = 0
    /\ closing = "no" /\ drained = FALSE
    /\ requests = {} /\ requestsWithCtx = {}
    /\ got = {} /\ marking = {}
    /\ pc = [r \in ReqIds |-> "idle"]
    /\ fut = [r \in ReqIds |-> "pending"]
    /\ ctxDone = {} /\ watchdog = {}
    /\ wire = [r \in ReqIds |-> "none"]
    /\ rlimit = 0 /\ requestCnt = 0 /\ pushes = 0

-----------------------------------------------------------------------------
(* send() and newFuture().                                                 *)

Send(r) ==
    /\ pc[r] = "idle"
    /\ requestCnt' = requestCnt + 1
    /\ GoTo(r, IF LimitDrops THEN "limit" ELSE "load")
    /\ UNCHANGED <<connVars, listVars, got, marking, fut, ctxVars, wireVars, rlimit>>

\* RLimitDrop: a token or an immediate error, which undoes the count.
LimitDrop(r) ==
    /\ pc[r] = "limit"
    /\ \/ /\ TokenFree
          /\ rlimit' = rlimit + 1
          /\ GoTo(r, "load")
          /\ UNCHANGED <<fut, requestCnt>>
       \/ /\ ~TokenFree
          /\ Set(r, "errRateLimited")
          /\ Uncount
          /\ GoTo(r, "limited")
          /\ UNCHANGED rlimit
    /\ UNCHANGED <<connVars, listVars, got, marking, ctxVars, wireVars>>

RefusalOf == [closed |-> "errClosed", disconnected |-> "errNotReady",
              shutdown |-> "errShutdown"]

\* Mutant: newFuture has no case for connShutdown.
AcceptsShutdown == state \in {"connected", "shutdown"}

Accepts == state = "connected"

\* newFuture locks rmut and loads conn.state; it keeps the lock only when the
\* connection is usable.  A token taken by LimitDrop is not given back.
LoadState(r) ==
    /\ pc[r] = "load"
    /\ ~RLocked(ShardOf(r))
    /\ \/ /\ Accepts
          /\ GoTo(r, "add")
          /\ UNCHANGED <<fut, requestCnt>>
       \/ /\ ~Accepts
          /\ Set(r, RefusalOf[state])
          /\ Uncount
          /\ GoTo(r, "refused")
    /\ UNCHANGED <<connVars, listVars, got, marking, ctxVars, wireVars, rlimit>>

\* The rest of the critical section.  A context that is done already settles
\* the future without queueing it: send() then finds nothing to cancel.
AddFuture(r) ==
    /\ pc[r] = "add"
    /\ \/ /\ HasCtx(r) /\ r \in ctxDone
          /\ Set(r, "errCtx")
          /\ GoTo(r, "abandoned")
          /\ UNCHANGED listVars
       \/ /\ ~(HasCtx(r) /\ r \in ctxDone)
          /\ Enqueue(r)
          /\ GoTo(r, IF LimitWaits THEN "wait1" ELSE AfterNewFuture(r))
          /\ UNCHANGED fut
    /\ UNCHANGED <<connVars, got, marking, ctxVars, wireVars, rlimit, requestCnt>>

\* RLimitWait, with the future queued already: first a try, then a wait for a
\* token or for the future's end.
LimitWait(r) ==
    /\ pc[r] \in {"wait1", "wait2"}
    /\ \/ /\ TokenFree
          /\ rlimit' = rlimit + 1
          /\ GoTo(r, AfterNewFuture(r))
       \/ /\ pc[r] = "wait1" /\ ~TokenFree
          /\ GoTo(r, "wait2")
          /\ UNCHANGED rlimit
       \/ /\ pc[r] = "wait2" /\ Done(r)
          /\ GoTo(r, AfterNewFuture(r))
          /\ UNCHANGED rlimit
    /\ UNCHANGED <<connVars, listVars, got, marking, fut, ctxVars, wireVars, requestCnt>>

\* Mutant: the watchdog is not started.
StartWatchdogNot(r) == UNCHANGED watchdog

StartWatchdog(r) == watchdog' = watchdog \cup {r}

\* send() looks at the context again, then starts the watchdog.
CheckCtx(r) ==
    /\ pc[r] = "ctx"
    /\ IF r \in ctxDone
       THEN GoTo(r, "cancel") /\ UNCHANGED watchdog
       ELSE GoTo(r, "put") /\ StartWatchdog(r)
    /\ UNCHANGED <<connVars, listVars, got, marking, fut, ctxDone, wireVars, rlimit,
                   requestCnt>>

\* Mutant: what was packed before the error stays in the buffer.
TruncNot(r) == wire' = [wire EXCEPT ![r] = "sent"]

\* shard.buf.Trunc after a packing error.
Trunc(r) == UNCHANGED wire

\* putFuture up to bufmut.Unlock.
PutFuture(r) ==
    /\ pc[r] = "put"
    /\ ~BufLocked(ShardOf(r))
    /\ \/ /\ Done(r)
          /\ GoTo(r, "returned")
          /\ UNCHANGED wire
       \/ /\ ~Done(r) /\ r \in BadIds
          /\ GoTo(r, "packerr")
          /\ Trunc(r)
       \/ /\ ~Done(r) /\ r \notin BadIds
          /\ wire' = [wire EXCEPT ![r] = "sent"]
          /\ GoTo(r, IF r \in AsyncIds THEN "async" ELSE "returned")
    /\ UNCHANGED <<connVars, listVars, got, marking, fut, ctxVars, pushes, rlimit,
                   requestCnt>>

\* cancelFuture, the error path and the async path of putFuture: fetchFuture
\* and, when the future is gone already, what is done instead.
SenderFetch(r) ==
    /\ pc[r] \in {"cancel", "packerr", "async"}
    /\ r \notin ByGoroutine("sender")
    /\ ~RLocked(ShardOf(r))
    /\ IF Found(r)
       THEN Fetch(r) /\ got' = got \cup {<<"sender", r>>} /\ UNCHANGED pc
       ELSE /\ GoTo(r, IF pc[r] = "packerr" THEN "packwait" ELSE "returned")
            /\ UNCHANGED <<listVars, got>>
    /\ UNCHANGED <<connVars, marking, fut, ctxVars, wireVars, rlimit, requestCnt>>

ClientErrors == {"errClosed", "errTimeouted", "errDrained"}

\* The packing error comes second: fut.wait(), then SetError on a future that
\* is done, when its error is a ClientError.
PackWait(r) ==
    /\ pc[r] = "packwait"
    /\ Done(r)
    /\ IF fut[r] \in ClientErrors THEN Set(r, "errPack") ELSE UNCHANGED fut
    /\ GoTo(r, "packfailed")
    /\ UNCHANGED <<connVars, listVars, got, marking, ctxVars, wireVars, rlimit,
                   requestCnt>>

-----------------------------------------------------------------------------
(* Settling a fetched future, whoever fetched it.                          *)

\* The reader and the async path answer; the packing error path reports its
\* error; a cancelled future gets the context's.
Result(g, r) ==
    IF g = "reader" \/ (g = "sender" /\ pc[r] = "async") THEN "resp"
    ELSE IF g = "sender" /\ pc[r] = "packerr" THEN "errPack"
    ELSE "errCtx"

Settle(g, r) ==
    /\ <<g, r>> \in got
    /\ got' = got \ {<<g, r>>}
    /\ marking' = marking \cup {<<g, r>>}
    /\ Set(r, Result(g, r))
    /\ UNCHANGED <<connVars, listVars, pc, ctxVars, wireVars, rlimit, requestCnt>>

\* markDone: a token comes out of rlimit, if there is one to take, and the
\* request no longer counts.
MarkDone(g, r) ==
    /\ <<g, r>> \in marking
    /\ ReleaseToken
    /\ Uncount
    /\ marking' = marking \ {<<g, r>>}
    /\ pc' = IF g = "sender" THEN [pc EXCEPT ![r] = "returned"] ELSE pc
    /\ UNCHANGED <<connVars, listVars, got, fut, ctxVars, wireVars>>

-----------------------------------------------------------------------------
(* The other goroutines.                                                   *)

\* A reader is free: one per dial, the old ones included, and a blocked
\* markDone blocks its reader.
ReaderFree == Cardinality(ByGoroutine("reader")) < dials

\* A response without a queued future is dropped (LogUnexpectedResultId).
ReadResponse(r) ==
    /\ wire[r] = "sent"
    /\ ReaderFree
    /\ ~RLocked(ShardOf(r))
    /\ wire' = [wire EXCEPT ![r] = "answered"]
    /\ IF Found(r)
       THEN Fetch(r) /\ got' = got \cup {<<"reader", r>>}
       ELSE UNCHANGED <<listVars, got>>
    /\ UNCHANGED <<connVars, marking, pc, fut, ctxVars, pushes, rlimit, requestCnt>>

\* peekFuture: with a timeout the future goes to the end of shard.requests,
\* whatever list it was found in.
ReadPush(r) ==
    /\ wire[r] = "sent"
    /\ ReaderFree
    /\ pushes < MaxPushes
    /\ ~RLocked(ShardOf(r))
    /\ pushes' = pushes + 1
    /\ IF Timeout /\ Found(r)
       THEN /\ requestsWithCtx' = requestsWithCtx \ {r}
            /\ requests' = requests \cup {r}
       ELSE UNCHANGED listVars
    /\ UNCHANGED <<connVars, got, marking, pc, fut, ctxVars, wire, rlimit, requestCnt>>

\* Mutant: the timer is not reset while a shutdown is in progress.
TimerFiresConnected == Timeout /\ state = "connected"

TimerFires == Timeout

\* timeouts(): it looks into shard.requests only and keeps the shard locked
\* until markDone returns.
Expire(r) ==
    /\ TimerFires
    /\ ByGoroutine("timeouts") = {}
    /\ r \in requests
    /\ ~RLocked(ShardOf(r))
    /\ requests' = requests \ {r}
    /\ Set(r, "errTimeouted")
    /\ marking' = marking \cup {<<"timeouts", r>>}
    /\ UNCHANGED <<connVars, requestsWithCtx, got, pc, ctxVars, wireVars, rlimit,
                   requestCnt>>

CtxExpire(r) ==
    /\ HasCtx(r)
    /\ r \notin ctxDone
    /\ ctxDone' = ctxDone \cup {r}
    /\ UNCHANGED <<connVars, listVars, got, marking, pc, fut, watchdog, wireVars, rlimit,
                   requestCnt>>

\* contextWatchdog returns once the future is done, or cancels it.
WatchdogDone(r) ==
    /\ r \in watchdog
    /\ Done(r)
    /\ watchdog' = watchdog \ {r}
    /\ UNCHANGED <<connVars, listVars, got, marking, pc, fut, ctxDone, wireVars, rlimit,
                   requestCnt>>

WatchdogCancel(r) ==
    /\ r \in watchdog /\ r \in ctxDone
    /\ ~Done(r)
    /\ ~RLocked(ShardOf(r))
    /\ watchdog' = watchdog \ {r}
    /\ IF Found(r)
       THEN Fetch(r) /\ got' = got \cup {<<"watchdog", r>>}
       ELSE UNCHANGED <<listVars, got>>
    /\ UNCHANGED <<connVars, marking, pc, fut, ctxDone, wireVars, rlimit, requestCnt>>

-----------------------------------------------------------------------------
(* conn.state.  closeConnection locks every shard, stores the state and    *)
(* clears the lists one future at a time, under conn.mutex.                *)

CloseBegin(err, s) ==
    /\ closing = "no"
    /\ ShardsFree
    /\ closing' = err
    /\ state' = s
    /\ drained' = FALSE
    /\ UNCHANGED <<listVars, got, marking, pc, fut, ctxVars, wireVars, rlimit,
                   requestCnt, dials>>

\* reconnectImpl closes for good unless Reconnect is set.
AfterFailure == IF Reconnect THEN "disconnected" ELSE "closed"

\* Close, the schema that cannot be loaded, the last reconnect that failed.
UserClose == MutexFree /\ state # "closed" /\ CloseBegin("errClosed", "closed")

\* The reader or the writer of the current connection fails.
NetFailure ==
    /\ MutexFree
    /\ state \in {"connected", "shutdown"}
    /\ CloseBegin("errNet", AfterFailure)

\* The order in which closeConnection walks the lists.
ClearKey(r) == (2 * ShardOf(r) + IF r \in requests THEN 0 ELSE 1)
ClearsBefore(q, r) ==
    \/ ClearKey(q) < ClearKey(r)
    \/ ClearKey(q) = ClearKey(r) /\ q < r

\* Mutant: clear neither unlinks nor marks what it settles, and goes round for ever.
ClearOneAgain(r) ==
    /\ closing # "no" /\ r \in Queued
    /\ Set(r, closing)
    /\ UNCHANGED <<connVars, listVars, got, marking, pc, ctxVars, wireVars, rlimit, requestCnt>>

\* One turn of clear's loop: the future is unlinked and settled; markDone follows.
ClearOne(r) ==
    /\ closing # "no"
    /\ ByGoroutine("closer") = {}
    /\ r \in Queued
    /\ \A q \in Queued \ {r} : ClearsBefore(r, q)
    /\ requests' = requests \ {r}
    /\ requestsWithCtx' = requestsWithCtx \ {r}
    /\ Set(r, closing)
    /\ marking' = marking \cup {<<"closer", r>>}
    /\ UNCHANGED <<connVars, got, pc, ctxVars, wireVars, rlimit, requestCnt>>

CloseEnd ==
    /\ closing # "no"
    /\ Queued = {} /\ ByGoroutine("closer") = {}
    /\ closing' = "no"
    /\ UNCHANGED <<state, drained, dials, listVars, got, marking, pc, fut, ctxVars,
                   wireVars, rlimit, requestCnt>>

\* dial() inside createConnection, once the handshake has succeeded.
Dial ==
    /\ MutexFree /\ ShardsFree
    /\ state = "disconnected"
    /\ dials < MaxDials
    /\ state' = "connected"
    /\ dials' = dials + 1
    /\ UNCHANGED <<closing, drained, listVars, got, marking, pc, fut, ctxVars, wireVars,
                   rlimit, requestCnt>>

\* shutdown() forbids new requests without taking the shards' locks, waits
\* until none is active and closes the connection to reconnect.
Shutdown ==
    /\ MutexFree
    /\ state = "connected"
    /\ state' = "shutdown"
    /\ UNCHANGED <<closing, drained, dials, listVars, got, marking, pc, fut, ctxVars,
                   wireVars, rlimit, requestCnt>>

ShutdownDrained ==
    /\ MutexFree
    /\ state = "shutdown"
    /\ requestCnt = 0
    /\ drained' = TRUE
    /\ UNCHANGED <<state, closing, dials, listVars, got, marking, pc, fut, ctxVars,
                   wireVars, rlimit, requestCnt>>

ShutdownReconnect == drained /\ CloseBegin("errDrained", AfterFailure)

-----------------------------------------------------------------------------
\* Everything has come to an end: the only state the system may rest in.
Rest ==
    /\ \A r \in ReqIds : pc[r] \in Returned
    /\ Queued = {} /\ got = {} /\ marking = {} /\ watchdog = {}
    /\ closing = "no"
    /\ UNCHANGED vars

RequestStep(r) ==
    \/ LimitDrop(r) \/ LoadState(r) \/ AddFuture(r) \/ LimitWait(r) \/ CheckCtx(r)
    \/ PutFuture(r) \/ SenderFetch(r) \/ PackWait(r)

ClientStep(r) ==
    \/ RequestStep(r)
    \/ \E g \in Goroutines : Settle(g, r) \/ MarkDone(g, r)
    \/ Expire(r) \/ WatchdogDone(r) \/ WatchdogCancel(r) \/ ClearOne(r)

Next ==
    \/ \E r \in ReqIds :
          Send(r) \/ ClientStep(r) \/ ReadResponse(r) \/ ReadPush(r) \/ CtxExpire(r)
    \/ UserClose \/ NetFailure \/ CloseEnd \/ Dial
    \/ Shutdown \/ ShutdownDrained \/ ShutdownReconnect
    \/ Rest

Spec == Init /\ [][Next]_vars

\* The client's own goroutines run; nothing is assumed of users, of contexts,
\* of the network or of the server.
Fairness ==
    /\ \A r \in ReqIds :
          /\ WF_vars(RequestStep(r)) /\ WF_vars(ClearOne(r)) /\ WF_vars(Expire(r))
          /\ WF_vars(WatchdogDone(r)) /\ WF_vars(WatchdogCancel(r))
          /\ \A g \in Goroutines : WF_vars(Settle(g, r)) /\ WF_vars(MarkDone(g, r))
    /\ WF_vars(CloseEnd)
    /\ WF_vars(ShutdownDrained) /\ WF_vars(ShutdownReconnect)

FairSpec == Spec /\ Fairness

-----------------------------------------------------------------------------
TypeOK ==
    /\ state \in States
    /\ closing \in {"no"} \cup CloseErrors
    /\ drained \in BOOLEAN
    /\ requests \subseteq ReqIds
    /\ requestsWithCtx \subseteq ReqIds
    /\ got \subseteq Goroutines \X ReqIds
    /\ marking \subseteq Goroutines \X ReqIds
    /\ pc \in [ReqIds -> PCs]
    /\ fut \in [ReqIds -> Outcomes]
    /\ ctxDone \subseteq ReqIds
    /\ watchdog \subseteq ReqIds
    /\ wire \in [ReqIds -> {"none", "sent", "answered"}]
    /\ rlimit \in 0..RateLimit
    /\ requestCnt \in Int
    /\ pushes \in Nat
    /\ dials \in Nat

Owned(r) == \E g \in Goroutines : <<g, r>> \in got \cup marking
Entered == {"idle", "limit", "load", "add"}

\* A future is in one list or in the hands of one goroutine, and whoever holds
\* it before settling it finds it pending: findFuture's removal under rmut makes
\* the reader, the timeouts goroutine, the watchdog, the sender and
\* closeConnection exclude one another.
SoleOwner ==
    /\ requests \cap requestsWithCtx = {}
    /\ got \cap marking = {}
    /\ \A r \in ReqIds :
          /\ r \in Queued => ~Owned(r) /\ ~Done(r)
          /\ \A g \in Goroutines : <<g, r>> \in got => ~Done(r)
          /\ \A g, h \in Goroutines :
                <<g, r>> \in got \cup marking /\ <<h, r>> \in got \cup marking => g = h

\* No future is forgotten: once newFuture has queued it, it is settled, still
\* queued or held by a goroutine that settles it next.
NoLostFuture ==
    \A r \in ReqIds : pc[r] \notin Entered /\ ~Done(r) =>
        r \in Queued \/ \E g \in Goroutines : <<g, r>> \in got

\* After closeConnection nothing is queued on a connection nobody reads:
\* newFuture's check of the state and its addFuture are one critical section.
UnusableQueueEmpty ==
    closing = "no" /\ state \in {"disconnected", "closed"} => Queued = {}

\* The two panics of newFuture and putFuture are unreachable: a future that ends
\* before its request is packed ends with an error.
NoPanic ==
    \A r \in ReqIds : pc[r] \in {"wait2", "packwait"} /\ Done(r) => fut[r] # "resp"

\* requestCnt counts the requests inside newFuture, the queued futures, the
\* futures being settled - and, for ever, the requests newFuture abandoned because
\* their context was done.
Counted == {r \in ReqIds : pc[r] \in {"limit", "load", "add", "abandoned"}
                            \/ r \in Queued \/ Owned(r)}
CounterAccounting == requestCnt = Cardinality(Counted)

\* With RLimitDrop the tokens in rlimit are those of the requests that passed
\* the limit and were not marked done - the refused and the abandoned included.
Tokens == {r \in ReqIds : pc[r] \in {"load", "add", "refused", "abandoned"}
                           \/ r \in Queued \/ Owned(r)}
TokenAccounting == LimitDrops => rlimit = Cardinality(Tokens)

\* RateLimit bounds the requests that are sent and neither answered nor timed
\* out.
InFlyBounded ==
    RateLimit > 0 =>
        Cardinality({r \in Queued : wire[r] # "none"}) <= RateLimit

\* A graceful shutdown kills no request: whatever passed newFuture's check of
\* the state is counted before shutdown() can see requestCnt = 0.
GracefulDrain == \A r \in ReqIds : fut[r] # "errDrained"

\* Where a push leaves a request with a context: in the list of the others.
Moved(r) == Timeout /\ pushes > 0 /\ HasCtx(r) /\ r \in requests

\* A response that was read is never lost on a future that stays queued: the
\* list getFutureImp searches is the list the future is in.  The exception is the
\* request with a context that a push has moved to the list of the others.
AnsweredLeavesQueue ==
    \A r \in ReqIds : wire[r] = "answered" /\ r \in Queued => Moved(r)

\* With Opts.Timeout every request without a context comes to an end, whatever
\* the server and the network do.
EventuallySettled ==
    \A r \in ReqIds : ~HasCtx(r) => (pc[r] # "idle" ~> Done(r))

\* A request whose context is done comes to an end, with or without a timeout.
CtxSettles ==
    \A r \in ReqIds : (pc[r] # "idle" /\ r \in ctxDone) ~> Done(r)

\* closeConnection returns, and with it Close and the reconnect.
CloseTerminates == (closing # "no") ~> (closing = "no")

\* With Opts.Timeout a graceful shutdown waits for ever for nothing but requests
\* with a context: those nobody answers, and those newFuture abandoned.
ShutdownCompletes ==
    (state = "shutdown") ~> (state # "shutdown" \/ \E r \in Counted : HasCtx(r))

\* The rate limit works: rlimit holds exactly the tokens that were taken and
\* not given back, within its capacity, and bounds what is on the wire.
RateLimited == TypeOK /\ TokenAccounting /\ InFlyBounded

-----------------------------------------------------------------------------
(* What the comments of connection.go say and its code does not do: TLC    *)
(* finds each of these violated (README, section 3).                       *)

\* Opts.Timeout "does not affect the lifetime of the request" when it has a
\* context (connection.go:244).
TimeoutSparesContexts == \A r \in ReqIds : HasCtx(r) => fut[r] # "errTimeouted"

\* "packing error is more important than connection error" (connection.go:1059):
\* it takes the place of a ClientError that came first.
PackErrorWins == \A r \in ReqIds : pc[r] = "packfailed" => fut[r] \notin ClientErrors

\* The request is over: send() has returned and nobody holds or queues its future.
Over(r) == pc[r] \in Returned /\ r \notin Queued /\ ~Owned(r)

\* RateLimit counts requests "put into requests queue, but not yet answered by
\* server or timeouted" (connection.go:264): none is dropped when all others are over.
DropsOnlyInFly ==
    [][\A r \in ReqIds : fut[r] # "errRateLimited" /\ fut'[r] = "errRateLimited" =>
          \E q \in ReqIds \ {r} : pc[q] # "idle" /\ ~Over(q)]_vars

\* A graceful shutdown ends once "all client requests" are finished
\* (connection.go:135).
ShutdownAfterRequests ==
    (state = "shutdown") ~> (state # "shutdown" \/ \E r \in ReqIds : pc[r] # "idle" /\ ~Over(r))
=============================================================================
