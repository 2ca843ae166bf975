------------------------------ MODULE Lifecycle -----------------------------
(***************************************************************************)
(* The life of a Connection: Connect's first dial, which runs without      *)
(* conn.mutex, the reader and the writer of every socket that dial()       *)
(* publishes, reconnect and its createConnection loop, which gives the     *)
(* mutex away while it sleeps, Close, the server's graceful shutdown with  *)
(* its condition variable, and the pinger.                                 *)
(*                                                                         *)
(* Sockets are numbered in the order of the dials that succeed.  Requests  *)
(* are reduced to what requestCnt sees of them; their futures are the      *)
(* subject of module Requests.                                             *)
(***************************************************************************)
EXTENDS Naturals, FiniteSets

CONSTANTS
    Users,          \* goroutines that make requests
    ReconnectOpts,  \* whether Opts.Reconnect > 0: the cases to consider
    MaxReconnects,  \* Opts.MaxReconnects, 0 means endlessly
    Watchable,      \* whether the server supports WatchersFeature
    MayRefuse,      \* whether the rate limit may refuse the shutdown WATCH
    MaxDials,       \* bound: successful dials
    MaxShutdowns    \* bound: shutdown events

ASSUME LifecycleAssumption ==
    /\ ReconnectOpts \subseteq BOOLEAN /\ Watchable \in BOOLEAN /\ MayRefuse \in BOOLEAN
    /\ MaxReconnects \in Nat /\ MaxDials \in Nat \ {0} /\ MaxShutdowns \in Nat
    /\ IsFiniteSet(Users) /\ "pinger" \notin Users

VARIABLES
    reconnect,   \* whether Opts.Reconnect > 0, never changed
    boot,        \* where Connect is
    mutex,       \* the goroutine that holds conn.mutex, or Free
    state,       \* conn.state
    c,           \* conn.c: a socket, or 0 for nil
    open,        \* the sockets that are not closed
    dials,       \* successful dials so far
    pc,          \* where each goroutine is
    err,         \* goroutines whose createConnection remembers an error
    reconnects,  \* the local counter of each createConnection
    controls,    \* how often conn.control was closed
    watcher,     \* whether conn.shutdownWatcher is set
    watchers,    \* shutdown watchers registered and not unregistered
    active,      \* who is counted in requestCnt
    broadcasts,  \* who saw requestCnt drop to 0 and is about to Broadcast
    shutC,       \* the socket shutdown() waits on
    shutdowns    \* shutdown events so far

vars == <<reconnect, boot, mutex, state, c, open, dials, pc, err, reconnects, controls,
          watcher, watchers, active, broadcasts, shutC, shutdowns>>

bootVars == <<reconnect, boot>>
sockVars == <<c, open, dials>>
loopVars == <<err, reconnects>>
watcherVars == <<watcher, watchers>>
countVars == <<active, broadcasts>>
shutVars == <<shutC, shutdowns>>

Conns == 1..MaxDials
Connector == <<"connect", 0>>    \* the goroutine Connect starts after a failure
Shutter == <<"shutdown", 0>>     \* the goroutine of shutdown()
Free == <<"free", 0>>
IO == {"reader", "writer"} \X Conns
Threads == IO \cup {Connector, Shutter}
Clients == Users \cup {"pinger"}

PCs == {"off", "run", "reconnect", "lock", "loop", "subscribe", "giveup", "check",
        "prewait", "waiting", "relock", "done"}

-----------------------------------------------------------------------------
(* Helpers.                                                                *)

\* conn.cond.Broadcast().
Woken == [t \in Threads |-> IF pc[t] = "waiting" THEN "relock" ELSE pc[t]]

\* Mutant: closeConnection closes control although the connection is closed.
NotYetClosedNot == TRUE

NotYetClosed == state # "closed"

\* closeConnection(neterr, true): the socket goes, and the first time control,
\* the state and the shutdown watcher too.  It frees the watcher it knows of.
CloseForever ==
    /\ controls' = controls + IF NotYetClosed THEN 1 ELSE 0
    /\ state' = "closed"
    /\ watcher' = FALSE
    /\ watchers' = watchers - IF NotYetClosed /\ watcher THEN 1 ELSE 0
    /\ open' = open \ {c}
    /\ c' = 0

\* closeConnection(neterr, false).
CloseForNow ==
    /\ state' = "disconnected"
    /\ open' = open \ {c}
    /\ c' = 0
    /\ UNCHANGED <<controls, watcherVars>>

\* dial() once the handshake is done: the socket is published under the
\* shards' locks and its reader and writer start.
Publish(t, l) ==
    /\ dials < MaxDials
    /\ dials' = dials + 1
    /\ c' = dials + 1
    /\ open' = open \cup {dials + 1}
    /\ state' = "connected"
    /\ pc' = [Woken EXCEPT ![<<"reader", dials + 1>>] = "run",
                           ![<<"writer", dials + 1>>] = "run", ![t] = l]

-----------------------------------------------------------------------------
Init ==
    /\ reconnect \in ReconnectOpts
    /\ boot = "dial"
    /\ mutex = Free /\ state = "disconnected" /\ c = 0 /\ open = {} /\ dials = 0
    /\ pc = [t \in Threads |-> "off"]
    /\ err = {} /\ reconnects = [t \in Threads |-> 0] /\ controls = 0
    /\ watcher = FALSE /\ watchers = 0
    /\ active = {} /\ broadcasts = {} /\ shutC = 0 /\ shutdowns = 0

-----------------------------------------------------------------------------
(* Connect, without conn.mutex.                                            *)

\* Mutant: Connect does not start the goroutine that reconnects.
BootFailedNoLoop(refused) == boot' = "up" /\ UNCHANGED pc

\* What Connect does about an error of createConnection(false).  Without
\* Reconnect, or when the server refuses the user, it returns the error.
BootFailed(refused) ==
    IF reconnect /\ ~refused
    THEN boot' = "up" /\ pc' = [pc EXCEPT ![Connector] = "lock"]
    ELSE boot' = "failed" /\ UNCHANGED pc

BootDialFails ==
    /\ boot = "dial"
    /\ \E refused \in BOOLEAN : BootFailed(refused)
    /\ UNCHANGED <<reconnect, mutex, state, sockVars, loopVars, controls, watcherVars,
                   countVars, shutVars>>

BootDial ==
    /\ boot = "dial"
    /\ Publish(Connector, "off")
    /\ boot' = IF Watchable THEN "subscribe" ELSE "up"
    /\ UNCHANGED <<reconnect, mutex, loopVars, controls, watcherVars, countVars, shutVars>>

\* The shutdown watcher of the first dial, unless there is one.
BootCheck ==
    /\ boot = "subscribe"
    /\ boot' = IF watcher THEN "up" ELSE "watch"
    /\ UNCHANGED <<reconnect, mutex, state, sockVars, pc, loopVars, controls, watcherVars,
                   countVars, shutVars>>

\* The WATCH is refused when the connection is connected no longer.
BootSubscribe ==
    /\ boot = "watch"
    /\ \/ /\ state = "connected"
          /\ watcher' = TRUE /\ watchers' = watchers + 1
          /\ boot' = "up"
          /\ UNCHANGED pc
       \/ /\ state # "connected" \/ MayRefuse
          /\ BootFailed(FALSE)
          /\ UNCHANGED <<watcherVars>>
    /\ UNCHANGED <<reconnect, mutex, state, sockVars, loopVars, controls, countVars,
                   shutVars>>

\* Close, or loadSchema's failure, which closes the connection in the same way.
Close ==
    /\ boot = "up" /\ mutex = Free
    /\ CloseForever
    /\ pc' = Woken
    /\ UNCHANGED <<bootVars, mutex, dials, loopVars, countVars, shutVars>>

-----------------------------------------------------------------------------
(* Readers and writers.                                                    *)

\* A read or a write fails, as it does sooner or later on a closed socket.
IOFails(t) ==
    /\ t \in IO /\ pc[t] = "run"
    /\ pc' = [pc EXCEPT ![t] = "reconnect"]
    /\ UNCHANGED <<bootVars, mutex, state, sockVars, loopVars, controls, watcherVars,
                   countVars, shutVars>>

\* Mutant: the writer's select has no case for control.
SeesControlNot == FALSE

SeesControl == controls > 0

\* The writer ends when control is closed, or when a dirty shard makes it look at
\* conn.c and it finds another socket there; the reader when it has read a
\* message and the connection is closed.
WriterControl(t) == t[1] = "writer" /\ SeesControl
IOStale(t) == IF t[1] = "writer" THEN c # t[2] ELSE state = "closed"
IOEnds(t) ==
    /\ t \in IO /\ pc[t] = "run"
    /\ WriterControl(t) \/ IOStale(t)
    /\ pc' = [pc EXCEPT ![t] = "done"]
    /\ UNCHANGED <<bootVars, mutex, state, sockVars, loopVars, controls, watcherVars,
                   countVars, shutVars>>

\* Mutant: reconnectImpl does not compare its socket with conn.c.
IsCurrentNot(s) == TRUE

IsCurrent(s) == s = c

\* reconnect: only the first of a socket's goroutines to fail closes it.
ReconnectIO(t) ==
    /\ t \in IO /\ pc[t] = "reconnect"
    /\ mutex = Free
    /\ \/ /\ reconnect /\ IsCurrent(t[2])
          /\ mutex' = t
          /\ CloseForNow
          /\ pc' = [Woken EXCEPT ![t] = "loop"]
       \/ /\ reconnect /\ ~IsCurrent(t[2])
          /\ pc' = [Woken EXCEPT ![t] = "done"]
          /\ UNCHANGED <<mutex, state, c, open, controls, watcherVars>>
       \/ /\ ~reconnect
          /\ CloseForever
          /\ pc' = [Woken EXCEPT ![t] = "done"]
          /\ UNCHANGED mutex
    /\ UNCHANGED <<bootVars, dials, loopVars, countVars, shutVars>>

-----------------------------------------------------------------------------
(* createConnection(true), in a reader, a writer, shutdown() or Connector. *)

\* Mutant: a loop that wakes up does not look at conn.c.
MustDialNot == state \in {"connected", "disconnected"}

MustDial == c = 0 /\ state = "disconnected"

\* The mutex again after the sleep, or for the first time.
LockLoop(t) ==
    /\ pc[t] = "lock" /\ mutex = Free
    /\ mutex' = t
    /\ pc' = [pc EXCEPT ![t] = "loop"]
    /\ UNCHANGED <<bootVars, state, sockVars, loopVars, controls, watcherVars, countVars,
                   shutVars>>

GivesUp(t) == MaxReconnects > 0 /\ reconnects[t] > MaxReconnects

\* A failed dial: give up, or count it and sleep without the mutex.  The counter
\* matters only when there is a maximum.
DialFailed(t) ==
    /\ err' = err \cup {t}
    /\ IF GivesUp(t)
       THEN pc' = [pc EXCEPT ![t] = "giveup"] /\ UNCHANGED <<mutex, reconnects>>
       ELSE /\ pc' = [pc EXCEPT ![t] = "lock"]
            /\ mutex' = Free
            /\ reconnects' = [reconnects EXCEPT ![t] =
                                 IF MaxReconnects > 0 THEN @ + 1 ELSE @]

LoopDialFails(t) ==
    /\ pc[t] = "loop" /\ mutex = t /\ MustDial
    /\ DialFailed(t)
    /\ UNCHANGED <<bootVars, state, sockVars, controls, watcherVars, countVars, shutVars>>

\* The end of a goroutine's createConnection: shutdown() may be called again.
EndOf(t) == IF t = Shutter THEN "off" ELSE "done"

LoopDial(t) ==
    /\ pc[t] = "loop" /\ mutex = t /\ MustDial
    /\ IF Watchable /\ ~watcher
       THEN Publish(t, "subscribe") /\ UNCHANGED <<mutex, loopVars>>
       ELSE /\ Publish(t, EndOf(t))
            /\ mutex' = Free
            /\ err' = err \ {t} /\ reconnects' = [reconnects EXCEPT ![t] = 0]
    /\ UNCHANGED <<bootVars, controls, watcherVars, countVars, shutVars>>

\* The shutdown watcher, with the mutex held: a failure counts as a failed dial
\* although conn.c is set.
LoopSubscribe(t) ==
    /\ pc[t] = "subscribe"
    /\ \/ /\ watcher' = TRUE /\ watchers' = watchers + 1
          /\ mutex' = Free
          /\ pc' = [pc EXCEPT ![t] = EndOf(t)]
          /\ err' = err \ {t} /\ reconnects' = [reconnects EXCEPT ![t] = 0]
       \/ /\ MayRefuse
          /\ DialFailed(t)
          /\ UNCHANGED <<watcherVars>>
    /\ UNCHANGED <<bootVars, state, sockVars, controls, countVars, shutVars>>

\* The loop's condition is false: somebody else has connected or closed.  The
\* error of the last attempt is still in err.
LoopExit(t) ==
    /\ pc[t] = "loop" /\ mutex = t /\ ~MustDial
    /\ IF state = "closed" \/ t \in err
       THEN pc' = [pc EXCEPT ![t] = "giveup"] /\ UNCHANGED <<mutex, reconnects>>
       ELSE /\ pc' = [pc EXCEPT ![t] = EndOf(t)] /\ mutex' = Free
            /\ reconnects' = [reconnects EXCEPT ![t] = 0]
    /\ UNCHANGED <<bootVars, state, sockVars, err, controls, watcherVars, countVars,
                   shutVars>>

\* createConnection returned an error.
GiveUp(t) ==
    /\ pc[t] = "giveup" /\ mutex = t
    /\ CloseForever
    /\ pc' = [Woken EXCEPT ![t] = EndOf(t)]
    /\ mutex' = Free
    /\ err' = err \ {t} /\ reconnects' = [reconnects EXCEPT ![t] = 0]
    /\ UNCHANGED <<bootVars, dials, countVars, shutVars>>

-----------------------------------------------------------------------------
(* shutdown().                                                             *)

\* The event reaches the watcher's callback, which starts the goroutine.
ShutdownEvent ==
    /\ watchers > 0 /\ c # 0
    /\ shutdowns < MaxShutdowns /\ pc[Shutter] = "off"
    /\ shutdowns' = shutdowns + 1
    /\ pc' = [pc EXCEPT ![Shutter] = "reconnect"]
    /\ UNCHANGED <<bootVars, mutex, state, sockVars, loopVars, controls, watcherVars,
                   countVars, shutC>>

ShutdownBegin ==
    /\ pc[Shutter] = "reconnect" /\ mutex = Free
    /\ IF state = "connected"
       THEN /\ state' = "shutdown" /\ mutex' = Shutter /\ shutC' = c
            /\ pc' = [pc EXCEPT ![Shutter] = "check"]
       ELSE /\ pc' = [pc EXCEPT ![Shutter] = "off"]
            /\ UNCHANGED <<state, mutex, shutC>>
    /\ UNCHANGED <<bootVars, sockVars, loopVars, controls, watcherVars, countVars,
                   shutdowns>>

\* One round of the wait loop: somebody else has taken over, a request is
\* active, or the connection is closed in order to reconnect.
ShutdownCheck ==
    /\ pc[Shutter] = "check"
    /\ \/ /\ state # "shutdown" \/ c # shutC
          /\ pc' = [pc EXCEPT ![Shutter] = "off"] /\ mutex' = Free
          /\ UNCHANGED <<state, c, open, controls, watcherVars>>
       \/ /\ state = "shutdown" /\ c = shutC /\ active # {}
          /\ pc' = [pc EXCEPT ![Shutter] = "prewait"]
          /\ UNCHANGED <<mutex, state, c, open, controls, watcherVars>>
       \/ /\ state = "shutdown" /\ c = shutC /\ active = {}
          /\ IF reconnect
             THEN CloseForNow /\ pc' = [pc EXCEPT ![Shutter] = "loop"] /\ UNCHANGED mutex
             ELSE CloseForever /\ pc' = [pc EXCEPT ![Shutter] = "off"] /\ mutex' = Free
    /\ UNCHANGED <<bootVars, dials, loopVars, countVars, shutVars>>

\* cond.Wait: a Broadcast between the load of requestCnt and this step is lost.
ShutdownWait ==
    /\ pc[Shutter] = "prewait"
    /\ pc' = [pc EXCEPT ![Shutter] = "waiting"]
    /\ mutex' = Free
    /\ UNCHANGED <<bootVars, state, sockVars, loopVars, controls, watcherVars, countVars,
                   shutVars>>

ShutdownRelock ==
    /\ pc[Shutter] = "relock" /\ mutex = Free
    /\ mutex' = Shutter
    /\ pc' = [pc EXCEPT ![Shutter] = "check"]
    /\ UNCHANGED <<bootVars, state, sockVars, loopVars, controls, watcherVars, countVars,
                   shutVars>>

-----------------------------------------------------------------------------
(* requestCnt, as users and the pinger change it.                          *)

\* Mutant: the pinger pauses while the connection is not connected.
PingerTicksConnected == controls = 0 /\ state = "connected"

PingerTicks == controls = 0

RequestStart(u) ==
    /\ boot = "up"
    /\ u \notin active \cup broadcasts
    /\ u = "pinger" => PingerTicks
    /\ active' = active \cup {u}
    /\ UNCHANGED <<bootVars, mutex, state, sockVars, pc, loopVars, controls, watcherVars,
                   broadcasts, shutVars>>

\* decrementRequestCnt: refused, answered, timed out or cleared.
RequestEnd(u) ==
    /\ u \in active
    /\ active' = active \ {u}
    /\ broadcasts' = IF active = {u} THEN broadcasts \cup {u} ELSE broadcasts
    /\ UNCHANGED <<bootVars, mutex, state, sockVars, pc, loopVars, controls, watcherVars,
                   shutVars>>

RequestBroadcast(u) ==
    /\ u \in broadcasts
    /\ broadcasts' = broadcasts \ {u}
    /\ pc' = Woken
    /\ UNCHANGED <<bootVars, mutex, state, sockVars, loopVars, controls, watcherVars,
                   active, shutVars>>

-----------------------------------------------------------------------------
\* Connect has returned an error, or everything has ended after Close.
Rest ==
    /\ boot = "failed" \/ state = "closed"
    /\ UNCHANGED vars

Loop(t) ==
    LockLoop(t) \/ LoopDialFails(t) \/ LoopDial(t) \/ LoopSubscribe(t) \/ LoopExit(t)
    \/ GiveUp(t)

ShutdownStep == ShutdownBegin \/ ShutdownCheck \/ ShutdownWait \/ ShutdownRelock

Next ==
    \/ BootDialFails \/ BootDial \/ BootCheck \/ BootSubscribe \/ Close
    \/ \E t \in Threads : IOFails(t) \/ IOEnds(t) \/ ReconnectIO(t) \/ Loop(t)
    \/ ShutdownEvent \/ ShutdownStep
    \/ \E u \in Clients : RequestStart(u) \/ RequestEnd(u) \/ RequestBroadcast(u)
    \/ Rest

Spec == Init /\ [][Next]_vars

\* The goroutines run, and get the mutex when it stays free; a closed socket
\* fails its reader; the ticker ticks and every request ends (an answer, a
\* timeout or a close).
Fairness ==
    /\ WF_vars(BootDialFails \/ BootDial) /\ WF_vars(BootCheck) /\ WF_vars(BootSubscribe)
    /\ \A t \in Threads :
          /\ WF_vars(ReconnectIO(t)) /\ WF_vars(Loop(t)) 
          /\ WF_vars(WriterControl(t) /\ IOEnds(t))
          /\ WF_vars(t[1] = "reader" /\ t[2] \notin open /\ IOFails(t))
    /\ WF_vars(ShutdownStep)
    /\ WF_vars(RequestStart("pinger"))
    /\ \A u \in Clients : WF_vars(RequestEnd(u)) /\ WF_vars(RequestBroadcast(u))

FairSpec == Spec /\ Fairness

-----------------------------------------------------------------------------
TypeOK ==
    /\ reconnect \in BOOLEAN
    /\ boot \in {"dial", "subscribe", "watch", "up", "failed"}
    /\ mutex \in Threads \cup {Free}
    /\ state \in {"connected", "disconnected", "shutdown", "closed"}
    /\ c \in Conns \cup {0}
    /\ open \subseteq Conns
    /\ dials \in 0..MaxDials
    /\ pc \in [Threads -> PCs]
    /\ err \subseteq Threads
    /\ reconnects \in [Threads -> Nat]
    /\ controls \in {0, 1}
    /\ watcher \in BOOLEAN /\ watchers \in Nat
    /\ active \subseteq Clients /\ broadcasts \subseteq Clients
    /\ shutC \in Conns \cup {0} /\ shutdowns \in 0..MaxShutdowns

\* conn.c, conn.state and the sockets agree: a usable state has a socket, the
\* others have none, and no socket but conn.c is open.
SocketMatchesState ==
    /\ (c # 0) <=> state \in {"connected", "shutdown"}
    /\ open = IF c = 0 THEN {} ELSE {c}

\* control is closed once, exactly when the connection is closed for good: a
\* second close would panic.
ControlClosedOnce == controls = IF state = "closed" THEN 1 ELSE 0

\* "After this method called, there is no way to reopen this Connection."
ClosedForGood == [][state = "closed" => state' = "closed"]_vars

\* Somebody works on a broken connection: a disconnected Connection has a
\* goroutine that dials, sleeps before it dials again, or is about to close it.
SomebodyReconnects ==
    boot = "up" /\ state = "disconnected" =>
        \E t \in Threads : pc[t] \in {"lock", "loop", "giveup"}

\* A shutdown() that sleeps although no request is active is woken, unless users
\* go on making requests: the wake-up it may have missed between its load of
\* requestCnt and cond.Wait is made good by the pinger.
ShutdownWakes ==
    (pc[Shutter] = "waiting" /\ active = {}) ~>
        (pc[Shutter] # "waiting" \/ active \cap Users # {})

\* After Close every reader, writer and reconnect loop ends.
GoroutinesEnd ==
    (state = "closed") ~>
        (\A t \in Threads : pc[t] \in {"off", "done"})

\* What the fields of a Connection say of each other, in every interleaving of
\* readers, writers, loops, shutdown and Close: state, conn.c, the sockets and
\* the control channel agree.
StateConsistent == TypeOK /\ SocketMatchesState /\ ControlClosedOnce

\* A closed connection stays closed, and every goroutine notices.
CloseIsFinal == ClosedForGood /\ GoroutinesEnd
=============================================================================
