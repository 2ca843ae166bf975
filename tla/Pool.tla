-------------------------------- MODULE Pool --------------------------------
(***************************************************************************)
(* ConnectionPool: one checker goroutine per address opens a connection,   *)
(* asks the instance for its role, offers the connection to the user's     *)
(* handler and keeps it in the subpools, while connections break, roles    *)
(* change, watchers of the pool come and go and the pool is closed.        *)
(*                                                                         *)
(* A critical section of poolsMutex is one action: whoever waits for the   *)
(* mutex sees only its end.  The handler's callbacks run outside of it     *)
(* (except in closeImpl) and are actions of their own.  The subpools are   *)
(* the maps of module ConnSet, which RoundRobin implements.                *)
(***************************************************************************)
EXTENDS Integers, SequencesExt

CONSTANTS
    Addrs,       \* connPool.addrs, without duplicates
    Watchers,    \* the pool watchers the users create
    ModeOf,      \* the Mode of each watcher
    Reconnect,   \* whether connOpts.Reconnect > 0
    Refuses,     \* whether ConnectionHandler.Discovered may return an error
    MaxFaults,   \* bound: failures and role changes, of all kinds together
    None         \* nil

ASSUME FlagsAssumption == Reconnect \in BOOLEAN /\ Refuses \in BOOLEAN
ASSUME BoundAssumption == MaxFaults \in Nat

Modes == {"ANY", "RW", "RO", "PreferRW", "PreferRO"}
Roles == {"Master", "Replica"}

ASSUME ModesAssumption == ModeOf \in [Watchers -> Modes]

\* The n-th connection made to an address; every one but the first costs a fault.
Conns == Addrs \X (1 .. MaxFaults + 1)
AddrOf(c) == c[1]

ASSUME NoneAssumption == None \notin Conns \cup Roles

VARIABLES
    state,     \* connPool.state
    done,      \* whether connPool.done is closed
    anyPool, rwPool, roPool,  \* the connection of each address, or None
    server,    \* the role of the instance at each address
    made,      \* connections made to each address so far
    status,    \* "none", "up", "down" (reconnecting by itself) or "closed"
    notify,    \* whether an event waits in the notify channel of the address
    pc,        \* where the checker of each address is
    conn, role,          \* connState: s.conn and s.role
    newConn, newRole,    \* the connection being offered and its role
    live,      \* the role a connection has for the handler, or None
    paired,    \* history: every Deactivated answered its own Discovered
    container, \* watcherContainer: the watchers, the youngest first
    wpc,       \* where each watcher is
    todo,      \* connections NewWatcher has still to watch
    watchers,  \* poolWatcher.watchers: the connection watched per address
    active,    \* <<w, c>>: c has a watcher of its own that works for w
    late,      \* history: <<w, c>> whose entry NewWatcher made when c had left the subpool
    faults     \* faults so far

pools == <<anyPool, rwPool, roPool>>
env == <<server, made, status, notify>>
handler == <<live, paired>>
watch == <<container, wpc, todo, watchers, active, late>>
local == <<conn, role, newConn, newRole>>
vars == <<state, done, pools, env, pc, local, handler, watch, faults>>

Fault == faults < MaxFaults /\ faults' = faults + 1
GoTo(a, l) == pc' = [pc EXCEPT ![a] = l]
Put(f, a, v) == [f EXCEPT ![a] = v]

\* Connection.Close: the Closed event goes to the notify channel, once.
CloseConn(c) ==
    /\ status' = Put(status, c, "closed")
    /\ notify' = IF status[c] = "closed" THEN notify ELSE Put(notify, AddrOf(c), TRUE)

Discovered(c, r) == live' = Put(live, c, r) /\ paired' = (paired /\ live[c] = None)
Deactivated(c, r) == live' = Put(live, c, None) /\ paired' = (paired /\ live[c] = r)

Init ==
    /\ state = "unknown" /\ done = FALSE
    /\ anyPool = [a \in Addrs |-> None]
    /\ rwPool = anyPool /\ roPool = anyPool
    /\ server \in [Addrs -> Roles]
    /\ made = [a \in Addrs |-> 0] /\ status = [c \in Conns |-> "none"]
    /\ notify = [a \in Addrs |-> FALSE]
    /\ pc = [a \in Addrs |-> "fill"]
    /\ conn = [a \in Addrs |-> None] /\ role = conn /\ newConn = conn /\ newRole = conn
    /\ live = [c \in Conns |-> None] /\ paired = TRUE
    /\ container = <<>> /\ wpc = [w \in Watchers |-> "new"]
    /\ todo = [w \in Watchers |-> {}]
    /\ watchers = [w \in Watchers |-> [a \in Addrs |-> None]]
    /\ active = {} /\ late = {} /\ faults = 0

-----------------------------------------------------------------------------
(* The subpools and the watchers.                                          *)

RemoveFromPools(a) ==
    /\ anyPool' = Put(anyPool, a, None)
    /\ rwPool' = Put(rwPool, a, None)
    /\ roPool' = Put(roPool, a, None)

\* Mutant: the entry is deleted before the connection's watcher is ended.
UnwatchForgets(ws, a) ==
    /\ watchers' = [w \in Watchers |-> IF w \in ws THEN Put(watchers[w], a, None)
                                       ELSE watchers[w]]
    /\ late' = late \ {<<w, watchers[w][a]>> : w \in ws}
    /\ UNCHANGED active

\* poolWatcher.unwatch by the watchers in ws: the map is keyed by address.
Unwatch(ws, a) ==
    /\ watchers' = [w \in Watchers |-> IF w \in ws THEN Put(watchers[w], a, None)
                                       ELSE watchers[w]]
    /\ active' = active \ {<<w, watchers[w][a]>> : w \in ws}
    /\ late' = late \ {<<w, watchers[w][a]>> : w \in ws}

\* deleteConnection; the caller holds poolsMutex.
DeleteConnection(a) ==
    IF anyPool[a] = None THEN UNCHANGED <<pools, watch>>
    ELSE /\ RemoveFromPools(a)
         /\ Unwatch(ToSet(container), a)
         /\ UNCHANGED <<container, wpc, todo>>

\* Mutant: a replica goes to the master subpool too.
AddToPoolsRw(a, c, r) ==
    /\ anyPool' = Put(anyPool, a, c)
    /\ rwPool' = Put(rwPool, a, c)
    /\ roPool' = IF r = "Replica" THEN Put(roPool, a, c) ELSE roPool

AddToPools(a, c, r) ==
    /\ anyPool' = Put(anyPool, a, c)
    /\ rwPool' = IF r = "Master" THEN Put(rwPool, a, c) ELSE rwPool
    /\ roPool' = IF r = "Replica" THEN Put(roPool, a, c) ELSE roPool

\* Mutant: the roles are swapped for a watcher with mode RW.
SuitsReplica(w, r) == r = "Replica"

Suits(w, r) == CASE ModeOf[w] = "RW" -> r = "Master"
                 [] ModeOf[w] = "RO" -> r = "Replica"
                 [] OTHER -> TRUE

\* poolWatcher.watch by the watchers in ws, which have no error: one that has
\* an entry for the address returns at once.
WatchAll(ws, c) ==
    LET a == AddrOf(c)
        fresh == {w \in ws : watchers[w][a] = None}
    IN /\ watchers' = [w \in Watchers |-> IF w \in fresh THEN Put(watchers[w], a, c)
                                          ELSE watchers[w]]
       /\ active' = active \cup {<<w, c>> : w \in fresh}

\* addConnection: every watcher in the container that the role suits watches
\* the connection, or none of them does and the connection is not added.
AddConnection(a, c, r, ok) ==
    LET suited == {i \in DOMAIN container : Suits(container[i], r)}
        fresh == {i \in suited : watchers[container[i]][a] = None}
    IN \/ /\ ok
          /\ fresh = {} \/ status[c] = "up"
          /\ WatchAll({container[i] : i \in suited}, c)
          /\ AddToPools(a, c, r)
          /\ UNCHANGED <<container, wpc, todo, late, faults>>
       \/ /\ ~ok
          /\ \E i \in fresh :
              /\ IF status[c] = "up" THEN Fault ELSE UNCHANGED faults
              /\ Unwatch({container[j] : j \in {k \in suited : k < i}}, a)
          /\ UNCHANGED <<pools, container, wpc, todo>>

-----------------------------------------------------------------------------
(* ConnectWithOpts.                                                        *)

NewConn(a) == <<a, made[a] + 1>>

\* getConnectionRole: the role box.info tells; ro is a Boolean.  A call that
\* fails, and an instance that is not running, are faults of the callers.
GetConnectionRole(a) == server[a]

\* fillPools for one address.  There are no watchers yet, so that
\* addConnection cannot fail.  A connection that is refused by the handler,
\* whose role is unknown or that is lost at once is closed again.
FillOne(a) ==
    /\ state = "unknown" /\ pc[a] = "fill"
    /\ GoTo(a, "filled")
    /\ LET c == NewConn(a) IN
       \/ /\ AddToPools(a, c, GetConnectionRole(a))
          /\ made' = Put(made, a, made[a] + 1)
          /\ status' = Put(status, c, "up")
          /\ conn' = Put(conn, a, c) /\ role' = Put(role, a, GetConnectionRole(a))
          /\ Discovered(c, GetConnectionRole(a))
          /\ UNCHANGED <<notify, faults>>
       \/ /\ Fault
          /\ \/ UNCHANGED <<made, status, notify>>
             \/ /\ made' = Put(made, a, made[a] + 1)
                /\ status' = Put(status, c, "closed")
                /\ notify' = Put(notify, a, TRUE)
          /\ UNCHANGED <<pools, conn, role, handler>>
    /\ UNCHANGED <<state, done, server, newConn, newRole, watch>>

\* Every address has been tried: the checkers start, unless nobody is alive.
Start ==
    /\ state = "unknown" /\ \A a \in Addrs : pc[a] = "filled"
    /\ IF \E a \in Addrs : conn[a] # None
       THEN /\ state' = "connected"
            /\ pc' = [a \in Addrs |-> "idle"]
            /\ UNCHANGED done
       ELSE /\ state' = "closed" /\ done' = TRUE
            /\ pc' = [a \in Addrs |-> "ended"]
    /\ UNCHANGED <<pools, env, local, handler, watch, faults>>

-----------------------------------------------------------------------------
(* checker, tryConnect, updateConnection and reconnect.                    *)

\* tryConnect, up to the first Unlock: Connect and the question for the role
\* happen under the mutex.  A connection whose role is unknown is closed.
TryConnect(a) ==
    /\ \/ pc[a] = "idle" /\ conn[a] = None
       \/ pc[a] = "try"
    /\ LET c == NewConn(a) IN
       \/ /\ state = "connected"
          /\ made' = Put(made, a, made[a] + 1)
          /\ status' = Put(status, c, "up")
          /\ newConn' = Put(newConn, a, c) /\ newRole' = Put(newRole, a, GetConnectionRole(a))
          /\ GoTo(a, "offer")
          /\ UNCHANGED <<notify, faults>>
       \/ /\ state = "connected" /\ Fault
          /\ \/ UNCHANGED <<made, status, notify>>
             \/ /\ made' = Put(made, a, made[a] + 1)
                /\ status' = Put(status, c, "closed")
                /\ notify' = Put(notify, a, TRUE)
          /\ GoTo(a, "idle")
          /\ UNCHANGED <<newConn, newRole>>
       \/ /\ state # "connected" /\ pc[a] = "try"
          /\ GoTo(a, "idle")
          /\ UNCHANGED <<made, status, notify, newConn, newRole, faults>>
    /\ UNCHANGED <<state, done, pools, server, conn, role, handler, watch>>

\* handlerDiscovered, without the mutex.
Offer(a) ==
    /\ pc[a] = "offer"
    /\ \/ /\ Discovered(newConn[a], newRole[a])
          /\ GoTo(a, "add")
          /\ UNCHANGED faults
       \/ /\ Refuses /\ Fault
          /\ GoTo(a, "refused")
          /\ UNCHANGED handler
    /\ UNCHANGED <<state, done, pools, env, local, watch>>

\* Mutant: the state of the pool is not looked at again.
StillConnectedNot == TRUE

StillConnected == state = "connected"

\* The second critical section of tryConnect and updateConnection.
Add(a) ==
    /\ pc[a] = "add"
    /\ \/ /\ StillConnected
          /\ AddConnection(a, newConn[a], newRole[a], TRUE)
          /\ conn' = Put(conn, a, newConn[a]) /\ role' = Put(role, a, newRole[a])
          /\ newConn' = Put(newConn, a, None) /\ newRole' = Put(newRole, a, None)
          /\ GoTo(a, "idle")
       \/ /\ \/ /\ StillConnected
                /\ AddConnection(a, newConn[a], newRole[a], FALSE)
             \/ ~StillConnected /\ UNCHANGED <<pools, watch, faults>>
          /\ GoTo(a, "drop")
          /\ UNCHANGED local
    /\ UNCHANGED <<state, done, env, handler>>

\* Mutant: the connection that could not be added is left open.
DropOpen(a) == UNCHANGED <<status, notify>>

\* conn.Close() of a connection that is not kept.
DropClose(a) == CloseConn(newConn[a])

\* conn.Close(), and handlerDeactivated unless the handler refused it.
Drop(a) ==
    /\ pc[a] \in {"drop", "refused"}
    /\ DropClose(a)
    /\ IF pc[a] = "drop" THEN Deactivated(newConn[a], newRole[a])
       ELSE UNCHANGED handler
    /\ newConn' = Put(newConn, a, None) /\ newRole' = Put(newRole, a, None)
    /\ GoTo(a, "idle")
    /\ UNCHANGED <<state, done, pools, server, made, conn, role, watch, faults>>

\* updateConnection: the role of a connection that answers has changed.
RoleChanged(a) ==
    /\ pc[a] = "idle" /\ conn[a] # None /\ state = "connected"
    /\ status[conn[a]] = "up" /\ GetConnectionRole(a) # role[a]
    /\ DeleteConnection(a)
    /\ newRole' = Put(newRole, a, GetConnectionRole(a))
    /\ GoTo(a, "moved")
    /\ UNCHANGED <<state, done, env, conn, role, newConn, handler, faults>>

\* handlerDeactivated with the old role; the connection is offered again.
Moved(a) ==
    /\ pc[a] = "moved"
    /\ Deactivated(conn[a], role[a])
    /\ newConn' = Put(newConn, a, conn[a])
    /\ conn' = Put(conn, a, None) /\ role' = Put(role, a, None)
    /\ GoTo(a, "offer")
    /\ UNCHANGED <<state, done, pools, env, newRole, watch, faults>>

\* Mutant: a closed connection is not told from an open one.
LostNever(a) == FALSE

\* s.conn.ClosedNow().
Lost(a) == conn[a] # None /\ status[conn[a]] = "closed"

\* checker on an event, and reconnect on the timer, for a closed connection.
Removed(a, next) ==
    /\ pc[a] = "idle" /\ Lost(a) /\ state = "connected"
    /\ DeleteConnection(a)
    /\ GoTo(a, next)
    /\ UNCHANGED <<state, done, server, made, status, local, handler, faults>>

Reconnecting(a) == Removed(a, "lost") /\ UNCHANGED notify

\* An event that is not about a closed connection is only taken.
Notified(a) ==
    /\ notify[a] /\ notify' = Put(notify, a, FALSE)
    /\ \/ Removed(a, "closed")
       \/ /\ pc[a] = "idle"
          /\ state # "connected" \/ ~Lost(a)
          /\ UNCHANGED <<state, done, pools, server, made, status, pc, local, handler,
                         watch, faults>>

\* handlerDeactivated; reconnect goes on with tryConnect.
Forget(a) ==
    /\ pc[a] \in {"lost", "closed"}
    /\ Deactivated(conn[a], role[a])
    /\ conn' = Put(conn, a, None) /\ role' = Put(role, a, None)
    /\ GoTo(a, IF pc[a] = "lost" THEN "try" ELSE "idle")
    /\ UNCHANGED <<state, done, pools, env, newConn, newRole, watch, faults>>

\* The checker ends; it closes its notify channel.
CheckerDone(a) ==
    /\ pc[a] = "idle" /\ done
    /\ GoTo(a, "ended")
    /\ UNCHANGED <<state, done, pools, env, local, handler, watch, faults>>

-----------------------------------------------------------------------------
(* Close, getNextConnection and the methods of the pool.                   *)

CloseCas ==
    /\ state = "connected" /\ state' = "closed"
    /\ UNCHANGED <<done, pools, env, pc, local, handler, watch, faults>>

\* Mutant: closeImpl closes the masters only.
ClosedByCloseRw == {rwPool[a] : a \in {b \in Addrs : rwPool[b] # None}}

ClosedByClose == {anyPool[a] : a \in {b \in Addrs : anyPool[b] # None}}

\* closeImpl reads the role off the subpool it removes the connection from.
PoolRole(a) == IF rwPool[a] # None THEN "Master"
               ELSE IF roPool[a] # None THEN "Replica" ELSE "Unknown"

\* closeImpl, which calls the handler under the mutex.
CloseImpl ==
    /\ state = "closed" /\ ~done /\ done' = TRUE
    /\ status' = [c \in Conns |-> IF c \in ClosedByClose THEN "closed" ELSE status[c]]
    /\ notify' = [a \in Addrs |-> notify[a] \/ \E c \in ClosedByClose :
                                    AddrOf(c) = a /\ status[c] # "closed"]
    /\ live' = [c \in Conns |-> IF c \in ClosedByClose THEN None ELSE live[c]]
    /\ paired' = (paired /\ \A c \in ClosedByClose : live[c] = PoolRole(AddrOf(c)))
    /\ anyPool' = [a \in Addrs |-> None] /\ rwPool' = anyPool' /\ roPool' = anyPool'
    /\ UNCHANGED <<state, server, made, pc, local, watch, faults>>

Members(pool) == {pool[a] : a \in {b \in Addrs : pool[b] # None}}

\* getNextConnection: the connections it may return; {} is an error.
Candidates(mode) ==
    LET first(p, q) == IF Members(p) # {} THEN Members(p) ELSE Members(q)
    IN CASE mode = "ANY" -> Members(anyPool)
         [] mode = "RW" -> Members(rwPool)
         [] mode = "RO" -> Members(roPool)
         [] mode = "PreferRW" -> first(rwPool, roPool)
         [] mode = "PreferRO" -> first(roPool, rwPool)

\* getConnByMode: more than one mode is ErrTooManyArgs.
GetConnByMode(defaultMode, userMode) ==
    IF Len(userMode) > 1 THEN {}
    ELSE Candidates(IF userMode = <<>> THEN defaultMode ELSE userMode[1])

Writes == {"insert", "replace", "delete", "update", "upsert"}
Calls == {"call", "call16", "call17", "eval", "execute"}

\* Ping, Select, Insert, ...: a write is for the master unless the user gives
\* a mode, a select for any instance, a call needs a mode.
SyncMethod(op, userMode) ==
    CASE op \in Writes -> GetConnByMode("RW", userMode)
      [] op = "select" -> GetConnByMode("ANY", userMode)
      [] op \in Calls \cup {"ping"} -> Candidates(userMode[1])

\* GetTyped, SelectTyped, ...; there is no UpsertTyped.
TypedMethod(op, userMode) ==
    CASE op \in Writes \ {"upsert"} -> GetConnByMode("RW", userMode)
      [] op \in {"select", "get"} -> GetConnByMode("ANY", userMode)
      [] op \in Calls -> Candidates(userMode[1])

\* SelectAsync, InsertAsync, ...
AsyncMethod(op, userMode) ==
    CASE op \in Writes -> GetConnByMode("RW", userMode)
      [] op = "select" -> GetConnByMode("ANY", userMode)
      [] op \in Calls -> Candidates(userMode[1])

\* getConnectionFromPool: the subpools are asked before anyPool.
GetConnectionFromPool(a) ==
    IF rwPool[a] # None THEN rwPool[a] ELSE IF roPool[a] # None THEN roPool[a] ELSE anyPool[a]

\* Do and the prepared statements: a request that belongs to a connection goes
\* to it as long as the pool has a connection to the same address.
DoConnected(c) == IF GetConnectionFromPool(AddrOf(c)) = None THEN {} ELSE {c}

\* NewConnectorAdapter: every method of the adapter passes its mode on.
AdapterSync(mode, op) == SyncMethod(op, <<mode>>)
AdapterTyped(mode, op) == TypedMethod(op, <<mode>>)
AdapterAsync(mode, op) == AsyncMethod(op, <<mode>>)

ConnectedNow(mode) ==
    /\ state = "connected"
    /\ CASE mode = "ANY" -> Members(anyPool) # {}
         [] mode = "RW" -> Members(rwPool) # {}
         [] mode = "RO" -> Members(roPool) # {}
         [] OTHER -> Members(rwPool) # {} \/ Members(roPool) # {}

-----------------------------------------------------------------------------
(* NewWatcher and Unregister of the pool's watchers.                       *)

\* NewWatcher adds the watcher to the container before it looks for connections.
Register(w) ==
    /\ wpc[w] = "new" /\ state # "unknown"
    /\ container' = <<w>> \o container
    /\ wpc' = Put(wpc, w, "snapshot")
    /\ UNCHANGED <<state, done, pools, env, pc, local, handler, todo, watchers, active,
                   late, faults>>

SubpoolOf(mode) == CASE mode = "RW" -> rwPool [] mode = "RO" -> roPool [] OTHER -> anyPool

\* GetConnections of the subpool for the mode.
Snapshot(w) ==
    /\ wpc[w] = "snapshot"
    /\ wpc' = Put(wpc, w, "watching")
    /\ todo' = Put(todo, w, Members(SubpoolOf(ModeOf[w])))
    /\ UNCHANGED <<state, done, pools, env, pc, local, handler, container, watchers,
                   active, late, faults>>

\* watcher.watch for the next connection, which is closed if that fails.
WatchOne(w) ==
    /\ wpc[w] = "watching"
    /\ \E c \in todo[w] :
        /\ todo' = Put(todo, w, todo[w] \ {c})
        /\ \/ /\ watchers[w][AddrOf(c)] # None \/ status[c] = "up"
              /\ WatchAll({w}, c)
              /\ late' = IF watchers[w][AddrOf(c)] = None /\ c \notin Members(SubpoolOf(ModeOf[w]))
                         THEN late \cup {<<w, c>>} ELSE late
              /\ UNCHANGED <<status, notify, faults>>
           \/ /\ watchers[w][AddrOf(c)] = None
              /\ IF status[c] = "up" THEN Fault ELSE UNCHANGED faults
              /\ CloseConn(c)
              /\ UNCHANGED <<watchers, active, late>>
    /\ UNCHANGED <<state, done, pools, server, made, pc, local, handler, container, wpc>>

Watching(w) ==
    /\ wpc[w] = "watching" /\ todo[w] = {}
    /\ wpc' = Put(wpc, w, "registered")
    /\ UNCHANGED <<state, done, pools, env, pc, local, handler, container, todo, watchers,
                   active, late, faults>>

\* Unregister takes the watcher out of the container,
UnregisterRemove(w) ==
    /\ wpc[w] = "registered"
    /\ \E i \in DOMAIN container : container[i] = w /\ container' = RemoveAt(container, i)
    /\ wpc' = Put(wpc, w, "removed")
    /\ UNCHANGED <<state, done, pools, env, pc, local, handler, todo, watchers, active,
                   late, faults>>

\* and then ends the connections' watchers it knows of.
UnregisterAll(w) ==
    /\ wpc[w] = "removed"
    /\ wpc' = Put(wpc, w, "unregistered")
    /\ active' = active \ {<<w, watchers[w][a]>> : a \in Addrs}
    /\ UNCHANGED <<state, done, pools, env, pc, local, handler, container, todo, watchers,
                   late, faults>>

-----------------------------------------------------------------------------
(* The instances and the connections by themselves.                        *)

\* A connection loses its socket; without Opts.Reconnect it is closed.
Break(c) ==
    /\ status[c] = "up" /\ Fault
    /\ status' = Put(status, c, IF Reconnect THEN "down" ELSE "closed")
    /\ notify' = Put(notify, AddrOf(c), TRUE)
    /\ UNCHANGED <<state, done, pools, server, made, pc, local, handler, watch>>

\* It connects again, or gives up.
Recover(c) ==
    /\ status[c] = "down"
    /\ status' = Put(status, c, "up")
    /\ notify' = Put(notify, AddrOf(c), TRUE)
    /\ UNCHANGED <<state, done, pools, server, made, pc, local, handler, watch, faults>>

GiveUp(c) ==
    /\ status[c] = "down" /\ Fault
    /\ CloseConn(c)
    /\ UNCHANGED <<state, done, pools, server, made, pc, local, handler, watch>>

ChangeRole(a) ==
    /\ Fault
    /\ \E r \in Roles \ {server[a]} : server' = Put(server, a, r)
    /\ UNCHANGED <<state, done, pools, made, status, notify, pc, local, handler, watch>>

Checker(a) ==
    TryConnect(a) \/ Offer(a) \/ Add(a) \/ Drop(a) \/ RoleChanged(a) \/ Moved(a)
    \/ Reconnecting(a) \/ Notified(a) \/ Forget(a) \/ CheckerDone(a)

WatcherStep(w) ==
    Snapshot(w) \/ WatchOne(w) \/ Watching(w) \/ UnregisterAll(w)

Next ==
    \/ \E a \in Addrs : FillOne(a) \/ Checker(a) \/ ChangeRole(a)
    \/ Start \/ CloseCas \/ CloseImpl
    \/ \E w \in Watchers : Register(w) \/ WatcherStep(w) \/ UnregisterRemove(w)
    \/ \E c \in Conns : Break(c) \/ Recover(c) \/ GiveUp(c)

Spec == Init /\ [][Next]_vars

\* Go runs every goroutine that can run; a connection that may reconnect does.
Fairness ==
    /\ WF_vars(Start) /\ WF_vars(CloseImpl)
    /\ \A a \in Addrs : WF_vars(FillOne(a)) /\ WF_vars(Checker(a))
    /\ \A c \in Conns : WF_vars(Recover(c))

FairSpec == Spec /\ Fairness

-----------------------------------------------------------------------------
(* Properties.                                                             *)

\* The handler is told of a connection's end with the role it was discovered
\* with, once for every Discovered that it accepted, in every interleaving of
\* role changes, lost connections and Close; and when the checkers have ended
\* it has been told of the end of every connection.
HandlersPaired ==
    /\ paired
    /\ (\A a \in Addrs : pc[a] = "ended") => \A c \in Conns : live[c] = None

\* A request for a mode only reaches a connection the handler accepted with a
\* role that mode allows: a write without a mode never goes to a replica, also
\* while the connection moves between the subpools, and an adapter with mode
\* RO never reaches a master.  A mode ConnectedNow reports can be served.  A
\* statement prepared on a connection the pool hands out is accepted by Do and
\* goes to that connection, which is the one all subpools agree on.
RoutedToDiscovered ==
    /\ \A c \in Candidates("ANY") :
        live[c] # None /\ DoConnected(c) = {c} /\ GetConnectionFromPool(AddrOf(c)) = c
    /\ \A m \in Modes : /\ Candidates(m) \subseteq Candidates("ANY")
                        /\ ConnectedNow(m) => Candidates(m) # {}
    /\ \A op \in Writes \ {"upsert"} :
        \A c \in SyncMethod(op, <<>>) \cup TypedMethod(op, <<>>) \cup AsyncMethod(op, <<>>) :
            live[c] = "Master"
    /\ \A op \in Calls :
        \A c \in AdapterSync("RO", op) \cup AdapterTyped("RO", op) \cup AdapterAsync("RO", op) :
            live[c] = "Replica"

\* Every connection that is not closed belongs to a running checker, and thus
\* no connection is forgotten open and none sends an event to a notify channel
\* that its checker has closed.
NoLeakedConnection ==
    \A c \in Conns : status[c] \in {"up", "down"} =>
        LET a == AddrOf(c) IN pc[a] # "ended" /\ c \in {conn[a], newConn[a]}

\* The connection in the subpool of the watcher's mode, and the one it watches.
Asked(w, a) == SubpoolOf(ModeOf[w])[a]
Entry(w, a) == watchers[w][a]
Returned(w) == wpc[w] = "registered" /\ ~done

\* A watcher that NewWatcher returned watches the open connections of the subpool
\* of its mode and no others.  The exception are the entries NewWatcher made from
\* its list of connections when the connection had already left the subpool: such
\* an entry stays, whatever connection the address has next, until that is deleted.
WatchersCoverPool ==
    \A w \in Watchers, a \in Addrs : Returned(w) =>
        \/ Entry(w, a) = Asked(w, a)
        \/ Entry(w, a) = None /\ status[Asked(w, a)] = "closed"
        \/ <<w, Entry(w, a)>> \in late

\* Every watcher of an open connection can be reached from the pool's watcher,
\* so that after Unregister none of them calls the callback any more.
NoOrphanWatcher ==
    \A w \in Watchers, c \in Conns :
        <<w, c>> \in active /\ status[c] # "closed" =>
            wpc[w] # "unregistered" /\ watchers[w][AddrOf(c)] = c

\* When nothing fails any more, every address is served by a connection that
\* is up and in the subpool of its instance's role, until the pool is closed.
PlacedByRole(a) ==
    /\ anyPool[a] # None /\ status[anyPool[a]] = "up"
    /\ rwPool[a] = (IF server[a] = "Master" THEN anyPool[a] ELSE None)
    /\ roPool[a] = (IF server[a] = "Replica" THEN anyPool[a] ELSE None)

HealsItself == <>(state = "closed") \/ <>[](\A a \in Addrs : PlacedByRole(a))

\* After Close every checker ends and every connection is closed, also one
\* that was being opened, moved or offered to the handler meanwhile.
CloseEndsAll ==
    (state = "closed") ~> (\A a \in Addrs : pc[a] = "ended")
                          /\ (\A c \in Conns : status[c] \in {"none", "closed"})

\* The watchers of the pool and those of its connections agree: but for what was
\* late none is missing where the mode asks for one and none is where it does not,
\* and none is left where nobody can unregister it.
WatchersFollow == WatchersCoverPool /\ NoOrphanWatcher

\* A pool that stays open comes to serve every address, one that is closed
\* comes to an end.
Settles == HealsItself /\ CloseEndsAll

-----------------------------------------------------------------------------
(* "The behavior is same as if Connection.NewWatcher() called for each     *)
(* connection with a suitable role" (connection_pool.go:672).  TLC finds   *)
(* both halves violated (README, section 3).                               *)

\* For each connection: an open connection of a suitable role is watched.
EveryOpenWatched ==
    \A w \in Watchers, a \in Addrs :
        Returned(w) /\ Asked(w, a) # None /\ status[Asked(w, a)] # "closed"
            => Entry(w, a) = Asked(w, a)

\* With a suitable role: a connection of another role is not.
OnlySuitedWatched ==
    \A w \in Watchers, a \in Addrs :
        Returned(w) /\ anyPool[a] # None /\ Asked(w, a) = None => Entry(w, a) # anyPool[a]
=============================================================================
