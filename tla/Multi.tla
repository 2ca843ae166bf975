------------------------------- MODULE Multi --------------------------------
(***************************************************************************)
(* ConnectionMulti: requests go to the first connected address of a list,  *)
(* or to the fallback; one checker goroutine opens connections again when  *)
(* they are closed, on their events and on a timer, and follows the list   *)
(* of addresses the cluster reports.  The checker calls Connect without    *)
(* the mutex, so that Close may come in between.                           *)
(***************************************************************************)
EXTENDS Integers, SequencesExt

CONSTANTS
    InitAddrs,   \* the addresses given to Connect, a sequence
    Discovered,  \* address lists the function NodesGetFunctionName may return
    Reconnect,   \* whether connOpts.Reconnect > 0
    MaxFaults,   \* bound: lost connections, failed calls of Connect, new lists
    MaxConns,    \* bound: connections made to an address
    MaxEvents,   \* bound: events of a connection that wait in notify
    None         \* nil

ASSUME BoundsAssumption == {MaxFaults, MaxEvents} \subseteq Nat /\ MaxConns \in Nat \ {0}
ASSUME ReconnectAssumption == Reconnect \in BOOLEAN

Addrs == ToSet(InitAddrs) \cup UNION {ToSet(l) : l \in Discovered}
Conns == Addrs \X (1 .. MaxConns)
AddrOf(c) == c[1]

ASSUME AddrsAssumption == InitAddrs \in Seq(Addrs) /\ Discovered \subseteq Seq(Addrs)
ASSUME NoneAssumption == None \notin Conns

VARIABLES
    state,      \* "new", "connected", "closed", or "failed" when Connect fails
    addrs,      \* connMulti.addrs
    pool,       \* connMulti.pool, None where the map has no entry
    fallback,   \* connMulti.fallback
    made, status, \* connections made per address; "none", "up", "down", "closed"
    events,     \* events of each connection that wait in connMulti.notify
    pc,         \* where the checker is
    todo,       \* addresses the loop of the checker has still to visit
    target,     \* the address it is connecting to
    newConn,    \* what Connect returned, until it is put into the pool
    newAddrs,   \* the list that replaces addrs
    displaced,   \* history: open connections an event took out of the pool
    faults

conns == <<made, status, events>>
checkerVars == <<pc, todo, target, newConn, newAddrs>>
vars == <<state, addrs, pool, fallback, conns, checkerVars, displaced, faults>>

Open(c) == c # None /\ status[c] \in {"up", "down"}
Connected(c) == c # None /\ status[c] = "up"
Pooled == {pool[a] : a \in Addrs} \ {None}
Fault == faults < MaxFaults /\ faults' = faults + 1

\* conn.notify: an event is dropped when the channel is full.
Notify(c) == IF events[c] < MaxEvents THEN [events EXCEPT ![c] = @ + 1] ELSE events

Init ==
    /\ state = "new" /\ addrs = InitAddrs
    /\ pool = [a \in Addrs |-> None] /\ fallback = None
    /\ made = [a \in Addrs |-> 0] /\ status = [c \in Conns |-> "none"]
    /\ events = [c \in Conns |-> 0]
    /\ pc = "start" /\ todo = {} /\ target = None /\ newConn = None /\ newAddrs = <<>>
    /\ displaced = {} /\ faults = 0

\* Mutant: warmUp does not set the fallback.
FirstOfNot(alive) == None

\* warmUp: the first connection made is the fallback.
FirstOf(alive) == <<InitAddrs[Min({i \in DOMAIN InitAddrs : InitAddrs[i] \in alive})], 1>>

\* ConnectWithOpts: the instances in alive answer; when there are none,
\* Connect closes what it has and fails.
WarmUp ==
    /\ state = "new"
    /\ \E alive \in SUBSET ToSet(InitAddrs) :
        IF alive = {}
        THEN state' = "failed" /\ UNCHANGED <<pool, fallback, made, status, events, pc>>
        ELSE /\ state' = "connected" /\ pc' = "idle"
             /\ fallback' = FirstOf(alive)
             /\ pool' = [a \in Addrs |-> IF a \in alive THEN <<a, 1>> ELSE None]
             /\ made' = [a \in Addrs |-> IF a \in alive THEN 1 ELSE 0]
             /\ status' = [c \in Conns |-> IF c \in alive \X {1} THEN "up" ELSE "none"]
             /\ events' = [c \in Conns |-> IF c \in alive \X {1} THEN 1 ELSE 0]
    /\ UNCHANGED <<addrs, todo, target, newConn, newAddrs, displaced, faults>>

-----------------------------------------------------------------------------
(* The checker.                                                            *)

\* Mutant: the checker does not look at the state.
IsClosedNever == FALSE

\* getState() == connClosed.
IsClosed == state = "closed"

\* An event: a closed connection whose address is in the pool is opened again.
Event(c) ==
    /\ pc = "idle" /\ events[c] > 0
    /\ events' = [events EXCEPT ![c] = @ - 1]
    /\ IF IsClosed THEN pc' = "ended" /\ UNCHANGED target
       ELSE IF status[c] = "closed" /\ pool[AddrOf(c)] # None
            THEN pc' = "event" /\ target' = AddrOf(c)
            ELSE UNCHANGED <<pc, target>>
    /\ UNCHANGED <<state, addrs, pool, fallback, made, status, todo, newConn, newAddrs,
                   displaced, faults>>

Tick ==
    /\ pc = "idle"
    /\ pc' = "tick" /\ todo' = ToSet(addrs)
    /\ UNCHANGED <<state, addrs, pool, fallback, conns, target, newConn, newAddrs, displaced,
                   faults>>

NeedsConnection(a) == ~Open(pool[a])

\* One turn of the timer's loop, and its end.
TickOne ==
    /\ pc = "tick"
    /\ \/ /\ IsClosed /\ todo # {}
          /\ pc' = "ended" /\ UNCHANGED <<todo, target>>
       \/ /\ ~IsClosed
          /\ \E a \in todo :
              /\ todo' = todo \ {a}
              /\ IF NeedsConnection(a) THEN pc' = "retry" /\ target' = a
                 ELSE UNCHANGED <<pc, target>>
       \/ /\ todo = {}
          /\ pc' = "idle" /\ UNCHANGED <<todo, target>>
    /\ UNCHANGED <<state, addrs, pool, fallback, conns, newConn, newAddrs, displaced, faults>>

\* The list of addresses has changed; the call goes to a connected instance.
Refresh ==
    /\ pc = "idle" /\ ~IsClosed
    /\ \E c \in Pooled : Connected(c)
    /\ Fault
    /\ \E l \in Discovered :
        newAddrs' = l /\ todo' = ToSet(l) \ ToSet(addrs)
    /\ pc' = "refresh"
    /\ UNCHANGED <<state, addrs, pool, fallback, conns, target, newConn, displaced>>

RefreshOne ==
    /\ pc = "refresh"
    /\ \/ \E a \in todo :
           /\ target' = a /\ todo' = todo \ {a}
           /\ pc' = "join"
       \/ /\ todo = {}
          /\ todo' = ToSet(addrs) \ ToSet(newAddrs)
          /\ pc' = "clear" /\ UNCHANGED target
    /\ UNCHANGED <<state, addrs, pool, fallback, conns, newConn, newAddrs, displaced, faults>>

\* tarantool.Connect, which may fail, and the loop it returns to.
After == [event |-> "idle", retry |-> "tick", join |-> "refresh"]

Connect ==
    /\ pc \in DOMAIN After /\ newConn = None
    /\ \/ /\ made[target] < MaxConns
          /\ LET c == <<target, made[target] + 1>> IN
             /\ made' = [made EXCEPT ![target] = @ + 1]
             /\ status' = [status EXCEPT ![c] = "up"]
             /\ events' = Notify(c)
             /\ newConn' = c
          /\ UNCHANGED <<pool, pc, target, displaced, faults>>
       \/ /\ Fault
          /\ IF pc = "event"
             THEN /\ pool' = [pool EXCEPT ![target] = None]
                  /\ displaced' = displaced \cup {c \in {pool[target]} : Open(c)}
             ELSE UNCHANGED <<pool, displaced>>
          /\ pc' = After[pc] /\ target' = None
          /\ UNCHANGED <<made, status, events, newConn>>
    /\ UNCHANGED <<state, addrs, fallback, todo, newAddrs>>

\* Mutant: the connection is put under no address.
SetConnectionNot == UNCHANGED pool

SetConnection == pool' = [pool EXCEPT ![target] = newConn]

\* setConnectionToPool.
SetToPool ==
    /\ newConn # None
    /\ SetConnection
    /\ displaced' = displaced \cup {c \in {pool[target]} : pc = "event" /\ Open(c)}
    /\ pc' = After[pc] /\ newConn' = None /\ target' = None
    /\ UNCHANGED <<state, addrs, fallback, conns, todo, newAddrs, faults>>

\* Mutant: an obsolete address loses its entry, its connection stays open.
CloseObsoleteNot(c) == UNCHANGED <<status, events>>

CloseObsolete(c) ==
    IF Open(c)
    THEN status' = [status EXCEPT ![c] = "closed"] /\ events' = Notify(c)
    ELSE UNCHANGED <<status, events>>

\* Mutant: an obsolete address keeps its entry.
DeleteObsoleteNot(a) == UNCHANGED pool

DeleteObsolete(a) == pool' = [pool EXCEPT ![a] = None]

\* The obsolete addresses, and the new list at last.
Clear ==
    /\ pc = "clear"
    /\ \/ \E a \in todo :
           /\ CloseObsolete(pool[a])
           /\ DeleteObsolete(a)
           /\ todo' = todo \ {a}
           /\ UNCHANGED <<addrs, pc, newAddrs>>
       \/ /\ todo = {}
          /\ addrs' = newAddrs /\ newAddrs' = <<>>
          /\ pc' = "idle"
          /\ UNCHANGED <<pool, status, events, todo>>
    /\ UNCHANGED <<state, fallback, made, target, newConn, displaced, faults>>

\* The loop's condition, and control in its select.
CheckerEnds ==
    /\ pc = "idle" /\ IsClosed
    /\ pc' = "ended"
    /\ UNCHANGED <<state, addrs, pool, fallback, conns, todo, target, newConn, newAddrs,
                   displaced, faults>>

-----------------------------------------------------------------------------
(* The users.                                                              *)

\* The places of addrs where the pool has a connection, and where it is up.
InOrder == {i \in DOMAIN addrs : pool[addrs[i]] # None}
UpInOrder == {i \in InOrder : Connected(pool[addrs[i]])}

\* getCurrentConnection remembers the last connection it passed over as the
\* fallback, under the read lock, ...
PassedOver ==
    LET passed == {i \in InOrder : \A j \in UpInOrder : i < j}
    IN IF passed = {} THEN fallback ELSE pool[addrs[Max(passed)]]

\* ... and returns the first that is connected, or else the fallback.
Current == IF UpInOrder # {} THEN pool[addrs[Min(UpInOrder)]] ELSE PassedOver

\* Any request: Ping, Select, Insert, ..., Do.
Request ==
    /\ state \in {"connected", "closed"}
    /\ fallback' = PassedOver
    /\ UNCHANGED <<state, addrs, pool, conns, checkerVars, displaced, faults>>

Close ==
    /\ state = "connected" /\ state' = "closed"
    /\ LET shut == {c \in Pooled \cup {fallback} : Open(c)} IN
       /\ status' = [c \in Conns |-> IF c \in shut THEN "closed" ELSE status[c]]
       /\ events' = [c \in Conns |-> IF c \in shut THEN Notify(c)[c] ELSE events[c]]
    /\ UNCHANGED <<addrs, pool, fallback, made, checkerVars, displaced, faults>>

\* A connection by itself: it breaks, connects again or gives up.
Break(c) ==
    /\ status[c] = "up" /\ Fault
    /\ status' = [status EXCEPT ![c] = IF Reconnect THEN "down" ELSE "closed"]
    /\ events' = Notify(c)
    /\ UNCHANGED <<state, addrs, pool, fallback, made, checkerVars, displaced>>

Settle(c) ==
    /\ status[c] = "down"
    /\ \E s \in {"up", "closed"} : status' = [status EXCEPT ![c] = s]
    /\ events' = Notify(c)
    /\ UNCHANGED <<state, addrs, pool, fallback, made, checkerVars, displaced, faults>>

-----------------------------------------------------------------------------
Checker == Tick \/ TickOne \/ Refresh \/ RefreshOne \/ Connect \/ SetToPool \/ Clear
           \/ CheckerEnds \/ \E c \in Conns : Event(c)

Next ==
    \/ WarmUp \/ Checker \/ Request \/ Close
    \/ \E c \in Conns : Break(c) \/ Settle(c)

Spec == Init /\ [][Next]_vars

\* The checker's goroutine runs, its timer fires again and again and an event
\* that waits is taken; a connection that reconnects comes to an end of it.
Fairness ==
    /\ WF_vars(WarmUp) /\ WF_vars(Connect) /\ WF_vars(SetToPool) /\ WF_vars(Clear)
    /\ WF_vars(TickOne) /\ WF_vars(RefreshOne) /\ WF_vars(CheckerEnds) /\ SF_vars(Tick)
    /\ \A c \in Conns : WF_vars(Settle(c))

FairSpec == Spec /\ Fairness

-----------------------------------------------------------------------------
(* Properties.                                                             *)

\* getCurrentConnection never returns nil, on which every method would panic:
\* there is a fallback as soon as Connect has returned, whatever the checker
\* removes from the pool.
CurrentNotNil == state \in {"connected", "closed"} => Current # None

\* Every open connection is in the pool, where Close finds it, or on its way
\* into it, unless a late event of an older connection to its address took it
\* out of the pool.
LeakedOnlyIfDisplaced ==
    \A c \in Conns : Open(c) => c \in Pooled \cup {newConn} \cup displaced

\* Between two turns of the checker the pool holds connections to addresses of
\* the current list only, also after the list has changed while connections to
\* obsolete addresses were closing.
PoolFollowsAddrs ==
    pc = "idle" => \A a \in Addrs : pool[a] # None => a \in ToSet(addrs)

\* When nothing fails any more every address has a connection that is up, until
\* the user closes the multi connection.
HealsItself ==
    <>(state \in {"closed", "failed"})
    \/ <>[](\A a \in ToSet(addrs) : Connected(pool[a]))

\* After Close the checker ends.
CheckerTerminates == (state = "closed") ~> (pc = "ended")

\* Whatever the events, the timer and the discovery of addresses do to the
\* pool, it has all open connections, but for the displaced, and no others.
ConnectionsKept == LeakedOnlyIfDisplaced /\ PoolFollowsAddrs

\* A multi connection that stays open comes to serve every address, the
\* checker of one that is closed ends.
Settles == HealsItself /\ CheckerTerminates
=============================================================================
