------------------------------- MODULE Watch --------------------------------
(***************************************************************************)
(* The watchers of one key of a Connection: subscribeWatchChannel, the     *)
(* goroutine newWatcherImpl starts, Unregister, the eventer of every       *)
(* connection and the resubscription in dial().                            *)
(*                                                                         *)
(* A watch state is a record in a channel of capacity one, so taking it    *)
(* out and putting it back is one step.  It is known by the NewWatcher     *)
(* call that stored it in watchMap.  Values are numbered in the order of   *)
(* the broadcasts, 0 being the value of a key that was never broadcast.    *)
(* The server is external: it notifies a subscriber once, and again only   *)
(* after the subscriber has acknowledged with another WATCH.               *)
(***************************************************************************)
EXTENDS Integers, Sequences, SequencesExt, FiniteSets

CONSTANTS
    Watchers,       \* the calls of NewWatcher for the key
    None,           \* no watch state
    MaxVersion,     \* math.MaxUint64
    MayRefuse,      \* whether Do may fail on a connection that stays (RLimitDrop)
    Overtakes,      \* whether a request may overtake one packed into another shard
    MaxDials,       \* bound: connections
    MaxBroadcasts   \* bound: values broadcast

ASSUME WatchAssumption ==
    /\ IsFiniteSet(Watchers) /\ None \notin Watchers
    /\ MaxVersion \in Nat \ {0}
    /\ MayRefuse \in BOOLEAN /\ Overtakes \in BOOLEAN
    /\ MaxDials \in Nat \ {0} /\ MaxBroadcasts \in Nat

VARIABLES
    conn,       \* "up", "down", "dialing" or "closed"
    dials,      \* connections so far
    watchMap,   \* the watch state of the key, or None
    states,     \* the watch states
    closed,     \* <<s, u>>: unready channel u of watch state s is closed
    pc,         \* where NewWatcher and then its goroutine are
    st,         \* the watch state each of them uses
    local,      \* each goroutine's copy of the watch state
    version,    \* the version each goroutine has called back with
    delivered,  \* the value each callback was last called with
    done,       \* watchers whose done channel is closed
    out,        \* requests packed and not yet seen by the server
    events,     \* by connection: notifications not yet applied by its eventer
    server,     \* what the server knows of the subscription
    value       \* the last value broadcast

vars == <<conn, dials, watchMap, states, closed, pc, st, local, version, delivered, done,
          out, events, server, value>>

clientVars == <<watchMap, states, closed, pc, st, local, version, delivered>>
connVars == <<conn, dials>>
netVars == <<out, events, server, value>>

Dials == 1..MaxDials
NoValue == -1

\* The channels unready and changed are numbered per watch state, 0 is nil.  A
\* changed channel other than the current one has been closed.
Fresh == [value |-> NoValue, version |-> 0, ack |-> FALSE, cnt |-> 0, changed |-> 0,
          made |-> 0, unready |-> 1]

Subscribing == {"load", "store", "take", "wait", "watch", "undo", "ready"}
Running == {"read", "callback", "recheck", "ack", "select"}
PCs == {"idle", "failed", "unwatch", "delete", "finished"} \cup Subscribing \cup Running

Update(s, f, v) == [states EXCEPT ![s][f] = v]
GoTo(w, l) == pc' = [pc EXCEPT ![w] = l]

-----------------------------------------------------------------------------
(* Requests and the server.                                                *)

\* conn.Do(req).Get() of an async request: an error, or packed into a buffer.
Do(req, w, sent, failed) ==
    \/ /\ conn = "up"
       /\ out' = Append(out, req)
       /\ GoTo(w, sent)
    \/ /\ conn # "up" \/ MayRefuse
       /\ GoTo(w, failed)
       /\ UNCHANGED out

\* The server, for the newest connection.
Unsubscribed == [watching |-> FALSE, sent |-> NoValue, acked |-> FALSE]

Notify(v) ==
    /\ events' = [events EXCEPT ![dials] = Append(@, v)]
    /\ server' = [watching |-> TRUE, sent |-> v, acked |-> FALSE]

ServerWatch ==
    IF server.watching /\ server.sent = value
    THEN server' = [server EXCEPT !.acked = TRUE] /\ UNCHANGED events
    ELSE Notify(value)

ServerUnwatch == server' = Unsubscribed /\ UNCHANGED events

ServerReceive ==
    /\ \E i \in DOMAIN out :
          /\ i = 1 \/ Overtakes
          /\ out' = RemoveAt(out, i)
          /\ IF out[i] = "WATCH" THEN ServerWatch ELSE ServerUnwatch
    /\ UNCHANGED <<connVars, clientVars, done, value>>

Broadcast ==
    /\ value < MaxBroadcasts
    /\ value' = value + 1
    /\ IF server.watching /\ server.acked THEN Notify(value + 1)
       ELSE UNCHANGED <<events, server>>
    /\ UNCHANGED <<connVars, clientVars, done, out>>

-----------------------------------------------------------------------------
Init ==
    /\ conn = "up" /\ dials = 1
    /\ watchMap = None
    /\ states = [s \in Watchers |-> Fresh]
    /\ closed = {}
    /\ pc = [w \in Watchers |-> "idle"]
    /\ st = [w \in Watchers |-> None]
    /\ local = [w \in Watchers |-> Fresh]
    /\ version = [w \in Watchers |-> 0]
    /\ delivered = [w \in Watchers |-> NoValue]
    /\ done = {}
    /\ out = << >> /\ events = [d \in Dials |-> << >>]
    /\ server = Unsubscribed /\ value = 0

-----------------------------------------------------------------------------
(* subscribeWatchChannel.                                                  *)

NewWatcher(w) ==
    /\ pc[w] = "idle"
    /\ GoTo(w, "load")
    /\ UNCHANGED <<connVars, watchMap, states, closed, st, local, version, delivered,
                   done, netVars>>

Load(w) ==
    /\ pc[w] = "load"
    /\ st' = [st EXCEPT ![w] = watchMap]
    /\ GoTo(w, IF watchMap = None THEN "store" ELSE "take")
    /\ UNCHANGED <<connVars, watchMap, states, closed, local, version, delivered, done,
                   netVars>>

\* LoadOrStore of a new watch state.
LoadOrStore(w) ==
    /\ pc[w] = "store"
    /\ watchMap' = IF watchMap = None THEN w ELSE watchMap
    /\ st' = [st EXCEPT ![w] = watchMap']
    /\ GoTo(w, IF watchMap = None THEN "watch" ELSE "take")
    /\ UNCHANGED <<connVars, states, closed, local, version, delivered, done, netVars>>

SubscribeDo(w) ==
    /\ pc[w] = "watch"
    /\ Do("WATCH", w, "ready", "undo")
    /\ UNCHANGED <<connVars, watchMap, states, closed, st, local, version, delivered,
                   done, events, server, value>>

\* Mutant: the waiters of a subscription that failed are not woken.
CloseUnreadyNot(w) == UNCHANGED closed

\* close(state.unready), by the goroutine that made the channel.
CloseUnready(w) == closed' = closed \cup {<<st[w], states[st[w]].unready>>}

SubscribeFailed(w) ==
    /\ pc[w] = "undo"
    /\ watchMap' = None
    /\ CloseUnready(w)
    /\ GoTo(w, "failed")
    /\ UNCHANGED <<connVars, states, st, local, version, delivered, done, netVars>>

SubscribeReady(w) ==
    /\ pc[w] = "ready"
    /\ CloseUnready(w)
    /\ states' = [states EXCEPT ![w].cnt = 1, ![w].unready = 0]
    /\ GoTo(w, "read")
    /\ UNCHANGED <<connVars, watchMap, st, local, version, delivered, done, netVars>>

\* Mutant: a watcher joins a watch state although it is unready.
IsReadyNot(s) == TRUE

IsReady(s) == states[s].unready = 0

\* An existing watch state: join it, or wait until it is ready or gone.
Join(w) ==
    /\ pc[w] = "take"
    /\ IF IsReady(st[w])
       THEN /\ states' = Update(st[w], "cnt", states[st[w]].cnt + 1)
            /\ GoTo(w, "read")
            /\ UNCHANGED local
       ELSE /\ local' = [local EXCEPT ![w] = states[st[w]]]
            /\ GoTo(w, "wait")
            /\ UNCHANGED states
    /\ UNCHANGED <<connVars, watchMap, closed, st, version, delivered, done, netVars>>

Retry(w) ==
    /\ pc[w] = "wait"
    /\ <<st[w], local[w].unready>> \in closed
    /\ GoTo(w, "load")
    /\ UNCHANGED <<connVars, watchMap, states, closed, st, local, version, delivered,
                   done, netVars>>

-----------------------------------------------------------------------------
(* The goroutine of a watcher.                                             *)

\* The top of its loop: make changed if there is none, call back if the
\* version is a new one.
ReadState(w) ==
    /\ pc[w] = "read"
    /\ LET s == states[st[w]]
           t == IF s.changed # 0 THEN s
                ELSE [s EXCEPT !.changed = s.made + 1, !.made = s.made + 1]
       IN  /\ states' = [states EXCEPT ![st[w]] = t]
           /\ local' = [local EXCEPT ![w] = t]
           /\ GoTo(w, IF s.version # version[w] THEN "callback" ELSE "select")
    /\ UNCHANGED <<connVars, watchMap, closed, st, version, delivered, done, netVars>>

\* The callback has run.
Callback(w) ==
    /\ pc[w] = "callback"
    /\ delivered' = [delivered EXCEPT ![w] = local[w].value]
    /\ version' = [version EXCEPT ![w] = local[w].version]
    /\ GoTo(w, "recheck")
    /\ UNCHANGED <<connVars, watchMap, states, closed, st, local, done, netVars>>

\* Mutant: nobody acknowledges.
MustAckNot(w, s) == FALSE

MustAck(w, s) == ~s.ack /\ version[w] = s.version

\* The watch state is read again, changed included; the first watcher to have
\* called back with its version acknowledges.
Recheck(w) ==
    /\ pc[w] = "recheck"
    /\ LET s == states[st[w]] IN
          /\ local' = [local EXCEPT ![w] = s]
          /\ IF MustAck(w, s)
             THEN states' = Update(st[w], "ack", TRUE) /\ GoTo(w, "ack")
             ELSE UNCHANGED states /\ GoTo(w, "select")
    /\ UNCHANGED <<connVars, watchMap, closed, st, version, delivered, done, netVars>>

SendAck(w) ==
    /\ pc[w] = "ack"
    /\ Do("WATCH", w, "select", "select")
    /\ UNCHANGED <<connVars, watchMap, states, closed, st, local, version, delivered,
                   done, events, server, value>>

\* case <-state.changed, of the copy: never when it is nil.
SelectChanged(w) ==
    /\ pc[w] = "select"
    /\ local[w].changed # 0 /\ local[w].changed # states[st[w]].changed
    /\ GoTo(w, "read")
    /\ UNCHANGED <<connVars, watchMap, states, closed, st, local, version, delivered,
                   done, netVars>>

\* Mutant: every watcher that goes sends UNWATCH.
IsLastAlways(n) == TRUE

IsLast(n) == n = 0

\* case <-done: the last watcher makes the watch state unready and unwatches.
SelectDone(w) ==
    /\ pc[w] = "select" /\ w \in done
    /\ LET n == states[st[w]].cnt - 1 IN
          /\ states' = [states EXCEPT ![st[w]].cnt = n,
                                      ![st[w]].unready = IF IsLast(n) THEN 2 ELSE @]
          /\ GoTo(w, IF IsLast(n) THEN "unwatch" ELSE "finished")
    /\ UNCHANGED <<connVars, watchMap, closed, st, local, version, delivered, done, netVars>>

Unwatch(w) ==
    /\ pc[w] = "unwatch"
    /\ Do("UNWATCH", w, "delete", "delete")
    /\ UNCHANGED <<connVars, watchMap, states, closed, st, local, version, delivered,
                   done, events, server, value>>

Forget(w) ==
    /\ pc[w] = "delete"
    /\ watchMap' = None
    /\ CloseUnready(w)
    /\ GoTo(w, "finished")
    /\ UNCHANGED <<connVars, states, st, local, version, delivered, done, netVars>>

\* Unregister closes done; it returns when the goroutine has finished.
Unregister(w) ==
    /\ pc[w] \in Running /\ w \notin done
    /\ done' = done \cup {w}
    /\ UNCHANGED <<connVars, clientVars, netVars>>

-----------------------------------------------------------------------------
(* The connection.                                                         *)

\* Mutant: the version wraps around to the initial one.
NextVersionWraps(v) == IF v = MaxVersion THEN 0 ELSE v + 1

\* Mutant: the version overflows.
NextVersionOver(v) == v + 1

NextVersion(v) == IF v = MaxVersion THEN 1 ELSE v + 1

\* eventer: an event of a key nobody watches is dropped.
ApplyEvent(d) ==
    /\ events[d] # << >>
    /\ conn = "dialing" => d # dials
    /\ events' = [events EXCEPT ![d] = Tail(@)]
    /\ states' = IF watchMap = None THEN states
                 ELSE [states EXCEPT ![watchMap].value = Head(events[d]),
                                     ![watchMap].version = NextVersion(@),
                                     ![watchMap].ack = FALSE,
                                     ![watchMap].changed = 0]
    /\ UNCHANGED <<connVars, watchMap, closed, pc, st, local, version, delivered, done,
                   out, server, value>>

\* closeConnection empties the buffers.  The events that were read from the
\* socket are still with its eventer, the others are lost.
Disconnect(s) ==
    /\ conn = "up"
    /\ s = "down" => dials < MaxDials
    /\ conn' = s
    /\ out' = << >>
    /\ server' = Unsubscribed
    /\ \E n \in 0..Len(events[dials]) :
          events' = [events EXCEPT ![dials] = SubSeq(@, 1, n)]
    /\ UNCHANGED <<dials, clientVars, done, value>>

\* dial(): the resubscription on the new socket, before the connection is up.
DialWatch ==
    /\ conn = "down"
    /\ conn' = "dialing"
    /\ dials' = dials + 1
    /\ IF watchMap # None /\ IsReady(watchMap)
       THEN out' = <<"WATCH">> /\ states' = Update(watchMap, "ack", TRUE)
       ELSE UNCHANGED <<out, states>>
    /\ UNCHANGED <<watchMap, closed, pc, st, local, version, delivered, done, events, server,
                   value>>

DialPublish ==
    /\ conn = "dialing"
    /\ conn' = "up"
    /\ UNCHANGED <<dials, clientVars, done, netVars>>

-----------------------------------------------------------------------------
Subscribe(w) ==
    Load(w) \/ LoadOrStore(w) \/ SubscribeDo(w) \/ SubscribeFailed(w) \/ SubscribeReady(w)
    \/ Join(w) \/ Retry(w)

Goroutine(w) ==
    ReadState(w) \/ Callback(w) \/ Recheck(w) \/ SendAck(w) \/ SelectChanged(w)
    \/ SelectDone(w) \/ Unwatch(w) \/ Forget(w)

\* Watchers that wait for an event that may never come.
Rest == (\A w \in Watchers : pc[w] \in {"select", "failed", "finished"}) /\ UNCHANGED vars

Next ==
    \/ \E w \in Watchers : NewWatcher(w) \/ Subscribe(w) \/ Goroutine(w) \/ Unregister(w)
    \/ \E d \in Dials : ApplyEvent(d)
    \/ \E s \in {"down", "closed"} : Disconnect(s)
    \/ DialWatch \/ DialPublish \/ ServerReceive \/ Broadcast
    \/ Rest

Spec == Init /\ [][Next]_vars

\* Goroutines run, callbacks return, and a connection that stays up delivers.
Fairness ==
    /\ \A w \in Watchers : WF_vars(Subscribe(w)) /\ WF_vars(Goroutine(w))
    /\ \A d \in Dials : WF_vars(ApplyEvent(d))
    /\ WF_vars(DialWatch) /\ WF_vars(DialPublish) /\ WF_vars(ServerReceive)

FairSpec == Spec /\ Fairness

-----------------------------------------------------------------------------
WatchState ==
    [value : {NoValue} \cup Nat, version : 0..MaxVersion, ack : BOOLEAN, cnt : Nat,
     changed : Nat, made : Nat, unready : 0..2]

TypeOK ==
    /\ conn \in {"up", "down", "dialing", "closed"}
    /\ dials \in Dials
    /\ watchMap \in Watchers \cup {None}
    /\ states \in [Watchers -> WatchState]
    /\ closed \subseteq Watchers \X (1..2)
    /\ pc \in [Watchers -> PCs]
    /\ st \in [Watchers -> Watchers \cup {None}]
    /\ local \in [Watchers -> WatchState]
    /\ version \in [Watchers -> 0..MaxVersion]
    /\ delivered \in [Watchers -> {NoValue} \cup Nat]
    /\ done \subseteq Watchers
    /\ out \in Seq({"WATCH", "UNWATCH"})
    /\ events \in [Dials -> Seq(Nat)]
    /\ server \in [watching : BOOLEAN, sent : {NoValue} \cup Nat, acked : BOOLEAN]
    /\ value \in 0..MaxBroadcasts

Registered(s) == {w \in Watchers : pc[w] \in Running /\ st[w] = s}

\* No watcher is left on a watch state that nobody updates: as long as its
\* goroutine runs, its watch state is ready and is the one in watchMap, where
\* the eventer and dial() look for it.
RegisteredInMap ==
    \A w \in Watchers : pc[w] \in Running => watchMap = st[w] /\ IsReady(st[w])

\* cnt counts the goroutines that use the watch state, so that exactly the last
\* one unwatches.
CntCountsWatchers ==
    \A s \in Watchers : states[s].cnt = Cardinality(Registered(s))

\* The initial version stands for "no event yet", also after an overflow: a
\* watcher that joins calls back at once exactly when there is a value.
InitialVersionMeansNoEvent ==
    \A s \in Watchers : states[s].version = 0 <=> states[s].value = NoValue

\* NewWatcher does not wait for ever for a subscription or an unsubscription of
\* another goroutine, whether or not that one succeeds.
UnreadyEnds == \A w \in Watchers : pc[w] = "wait" ~> pc[w] # "wait"

\* On one connection that delivers in order the server knows of the subscription
\* of a running watcher once it has seen what was sent to it: an UNWATCH of the
\* watchers that left never comes after the WATCH of those that are there.
Subscribed ==
    conn = "up" /\ out = << >> /\ (\E w \in Watchers : pc[w] \in Running) =>
        server.watching

Alone(w) == \A x \in Watchers \ {w} : pc[x] = "idle"

\* The only watcher of a key, on a connection that stays, is called with every
\* value that stays, the latest included: its acknowledgements keep the server
\* sending, and no event is missed between its callback and its wait.
AloneCalledWithLatest ==
    \A w \in Watchers : \A v \in 0..MaxBroadcasts :
        (pc[w] \in Running /\ Alone(w) /\ value = v /\ conn = "up") ~>
            (delivered[w] = v \/ value # v \/ ~Alone(w) \/ w \in done \/ conn # "up")

-----------------------------------------------------------------------------
(* What comments say of the code and the code does not do.                 *)

\* "If the key is updated while the watcher callback is running, the callback
\* will be invoked again with the latest value as soon as it returns": every
\* watcher on a connection that stays is called with the last value broadcast.
CalledWithLatest ==
    \A w \in Watchers : \A v \in 0..MaxBroadcasts :
        (pc[w] \in Running /\ value = v /\ conn = "up") ~>
            (delivered[w] = v \/ value # v \/ w \in done \/ conn # "up")

\* watchMap is right although watch states are copied, shared and replaced: it
\* leads to every running watcher, counts them, and knows whether the key has
\* a value.
WatchMapConsistent == TypeOK /\ RegisteredInMap /\ CntCountsWatchers /\ InitialVersionMeansNoEvent
=============================================================================
