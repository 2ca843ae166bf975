----------------------------- MODULE PoolProofs -----------------------------
(* Theorems about Pool, for every number of addresses, watchers and faults. *)
EXTENDS Pool, TLAPS, SequenceTheorems

USE FlagsAssumption, BoundAssumption, NoneAssumption

-----------------------------------------------------------------------------
(* The strengthening that makes the properties inductive.                  *)

PCs == {"fill", "filled", "idle", "try", "offer", "add", "drop", "refused", "moved", "lost",
        "closed", "ended"}

\* Where the checker offers a connection, and where it gives one up.
Offering == {"offer", "add", "drop", "refused"}
Leaving == {"moved", "lost", "closed"}
Resting == {"filled", "idle"}

TypeOK ==
    /\ state \in {"unknown", "connected", "closed"} /\ done \in BOOLEAN
    /\ anyPool \in [Addrs -> Conns \cup {None}]
    /\ rwPool \in [Addrs -> Conns \cup {None}] /\ roPool \in [Addrs -> Conns \cup {None}]
    /\ server \in [Addrs -> Roles] /\ made \in [Addrs -> Nat]
    /\ status \in [Conns -> {"none", "up", "down", "closed"}]
    /\ pc \in [Addrs -> PCs]
    /\ conn \in [Addrs -> Conns \cup {None}] /\ newConn \in [Addrs -> Conns \cup {None}]
    /\ role \in [Addrs -> Roles \cup {None}] /\ newRole \in [Addrs -> Roles \cup {None}]
    /\ live \in [Conns -> Roles \cup {None}]
    /\ todo \in [Watchers -> SUBSET Conns]
    /\ faults \in 0 .. MaxFaults

\* The checkers start when the pool is connected, and end when it is closed.
Phases ==
    /\ done => state = "closed"
    /\ \A a \in Addrs : /\ state = "unknown" <=> pc[a] \in {"fill", "filled"}
                        /\ pc[a] = "ended" => done

\* What a checker holds, by the place where it is.
Holds(a) ==
    /\ pc[a] \in Offering <=> newConn[a] # None
    /\ pc[a] \in Offering \cup {"fill", "try"} => conn[a] = None
    /\ pc[a] \in Leaving => conn[a] # None
    /\ pc[a] \in Offering \cup {"moved"} => newRole[a] \in Roles
    /\ conn[a] # None => role[a] \in Roles
    /\ pc[a] \in {"lost", "closed"} => status[conn[a]] = "closed"

\* Its connections are to its address and among those that were made.
Numbered(a) ==
    \A c \in {conn[a], newConn[a]} : c # None => AddrOf(c) = a /\ c[2] <= made[a]

\* A connection is in anyPool and in the subpool of its role from the moment it is
\* added until its checker takes it out or the pool is closed.
Kept(a) == pc[a] \in Resting /\ conn[a] # None /\ ~done

InPools(a) ==
    /\ anyPool[a] = IF Kept(a) THEN conn[a] ELSE None
    /\ rwPool[a] = IF Kept(a) /\ role[a] = "Master" THEN conn[a] ELSE None
    /\ roPool[a] = IF Kept(a) /\ role[a] = "Replica" THEN conn[a] ELSE None

\* The role the handler knows of a connection.
Known(a, c) ==
    IF c = newConn[a] /\ pc[a] \in {"add", "drop"} THEN newRole[a]
    ELSE IF c = conn[a] /\ (pc[a] \in Leaving \/ Kept(a)) THEN role[a] ELSE None

HandlerKnows(a) == \A c \in Conns : AddrOf(c) = a => live[c] = Known(a, c)

\* An open connection is held by the checker of its address.
HeldOpen(a) ==
    \A c \in Conns : AddrOf(c) = a /\ status[c] \in {"up", "down"} =>
        c = newConn[a] \/ (c = conn[a] /\ (pc[a] \in Leaving \/ Kept(a)))

\* Every connection that is not up any more has cost a fault, so that there are
\* never more than Conns has room for.
StillUp(a) ==
    /\ pc[a] \notin {"drop", "refused"}
    /\ \E c \in {conn[a], newConn[a]} : c # None /\ status[c] = "up"

Paid(a) ==
    /\ pc[a] = "fill" => made[a] = 0
    /\ made[a] <= MaxFaults + 1
    /\ state # "closed" => made[a] <= faults + 1 /\ (~StillUp(a) => made[a] <= faults)

CheckerInv(a) ==
    Holds(a) /\ Numbered(a) /\ InPools(a) /\ HandlerKnows(a) /\ HeldOpen(a) /\ Paid(a)

PoolInv == TypeOK /\ Phases /\ paired /\ \A a \in Addrs : CheckerInv(a)

-----------------------------------------------------------------------------
(* Steps at one address.                                                   *)

\* The step has not touched what belongs to the address.
Untouched(b) ==
    /\ pc'[b] = pc[b] /\ conn'[b] = conn[b] /\ newConn'[b] = newConn[b]
    /\ role'[b] = role[b] /\ newRole'[b] = newRole[b] /\ made'[b] = made[b]
    /\ anyPool'[b] = anyPool[b] /\ rwPool'[b] = rwPool[b] /\ roPool'[b] = roPool[b]
    /\ \A c \in Conns : AddrOf(c) = b => status'[c] = status[c] /\ live'[c] = live[c]

\* What is true of an address stays so as long as nobody touches it.
LEMMA Elsewhere ==
    ASSUME TypeOK, NEW b \in Addrs, CheckerInv(b), Untouched(b), done' = done,
           state' # "closed" => state # "closed", faults' \in Nat, faults' >= faults
    PROVE  CheckerInv(b)'
<1>0. /\ conn[b] # None => conn[b] \in Conns /\ AddrOf(conn[b]) = b
      /\ newConn[b] # None => newConn[b] \in Conns /\ AddrOf(newConn[b]) = b
  BY DEF CheckerInv, Numbered, TypeOK
<1>1. /\ pc'[b] = pc[b] /\ conn'[b] = conn[b] /\ newConn'[b] = newConn[b]
      /\ role'[b] = role[b] /\ newRole'[b] = newRole[b] /\ made'[b] = made[b]
      /\ anyPool'[b] = anyPool[b] /\ rwPool'[b] = rwPool[b] /\ roPool'[b] = roPool[b]
      /\ \A c \in Conns : AddrOf(c) = b => status'[c] = status[c] /\ live'[c] = live[c]
  BY DEF Untouched
<1>2. Holds(b)'
  BY <1>0, <1>1 DEF CheckerInv, Holds, Leaving
<1>3. Numbered(b)'
  BY <1>1 DEF CheckerInv, Numbered
<1>4. Kept(b)' <=> Kept(b)
  BY <1>1 DEF Kept
<1>5. InPools(b)'
  BY <1>1, <1>4 DEF CheckerInv, InPools
<1>6. HandlerKnows(b)'
  BY <1>1, <1>4 DEF CheckerInv, HandlerKnows, Known
<1>7. HeldOpen(b)'
  BY <1>1, <1>4 DEF CheckerInv, HeldOpen
<1>8. StillUp(b)' <=> StillUp(b)
  BY <1>0, <1>1 DEF StillUp
<1>9. Paid(b)'
  BY <1>1, <1>8 DEF CheckerInv, Paid, TypeOK
<1> QED BY <1>2, <1>3, <1>5, <1>6, <1>7, <1>9 DEF CheckerInv

\* A step at one address preserves the invariant if it does so there.
LEMMA AtAddress ==
    ASSUME PoolInv, NEW a \in Addrs, TypeOK', Phases', paired', CheckerInv(a)',
           \A b \in Addrs \ {a} : Untouched(b),
           done' = done, state' # "closed" => state # "closed", faults' >= faults
    PROVE  PoolInv'
<1>1. ASSUME NEW b \in Addrs PROVE CheckerInv(b)'
  <2>1. CASE b = a
    BY <2>1
  <2>2. CASE b # a
    <3>1. faults' \in Nat
      BY DEF TypeOK
    <3> QED BY <2>2, <3>1, Elsewhere DEF PoolInv
  <2> QED BY <2>1, <2>2
<1> QED BY <1>1 DEF PoolInv

\* The connection that is made next is one the model has room for.
LEMMA NewConnFacts ==
    ASSUME NEW a \in Addrs, made[a] \in Nat, made[a] <= MaxFaults
    PROVE  NewConn(a) \in Conns /\ AddrOf(NewConn(a)) = a /\ NewConn(a)[2] = made[a] + 1
BY DEF NewConn, Conns, AddrOf

\* fillPools for an address that answers.
LEMMA StepFilled ==
    ASSUME PoolInv, NEW a \in Addrs, state = "unknown", pc[a] = "fill", NEW c \in Conns,
           AddrOf(c) = a, c[2] = made[a] + 1, NEW r \in Roles,
           pc' = [pc EXCEPT ![a] = "filled"], made' = [made EXCEPT ![a] = made[a] + 1],
           AddToPools(a, c, r),
           status' = [status EXCEPT ![c] = "up"], conn' = [conn EXCEPT ![a] = c],
           role' = [role EXCEPT ![a] = r], Discovered(c, r), newConn' = newConn,
           newRole' = newRole, faults' = faults, state' = state, done' = done,
           server' = server, todo' = todo
    PROVE  PoolInv'
<1>0. TypeOK /\ Phases /\ paired /\ CheckerInv(a) /\ \A b \in Addrs : CheckerInv(b)
  BY DEF PoolInv
<1>1. /\ anyPool' = [anyPool EXCEPT ![a] = c]
      /\ rwPool' = IF r = "Master" THEN [rwPool EXCEPT ![a] = c] ELSE rwPool
      /\ roPool' = IF r = "Replica" THEN [roPool EXCEPT ![a] = c] ELSE roPool
      /\ live' = [live EXCEPT ![c] = r]
  BY DEF AddToPools, Discovered, Put
<1>2. TypeOK'
  BY <1>0, <1>1 DEF TypeOK, PCs
<1>3. Phases'
  BY <1>0 DEF Phases, TypeOK
<1>4. /\ conn[a] = None /\ newConn[a] = None /\ anyPool[a] = None /\ rwPool[a] = None
      /\ roPool[a] = None /\ ~done /\ made[a] = 0
  BY <1>0 DEF CheckerInv, Holds, InPools, Kept, Resting, Phases, Paid, Offering
<1>5. live[c] = None /\ paired'
  BY <1>0, <1>4 DEF CheckerInv, HandlerKnows, Known, Discovered, Leaving, Kept, Resting
<1>6. /\ pc'[a] = "filled" /\ conn'[a] = c /\ role'[a] = r /\ newConn'[a] = None
      /\ made'[a] = 1 /\ anyPool'[a] = c
      /\ rwPool'[a] = IF r = "Master" THEN c ELSE None
      /\ roPool'[a] = IF r = "Replica" THEN c ELSE None
      /\ status'[c] = "up" /\ live'[c] = r
      /\ \A d \in Conns \ {c} : status'[d] = status[d] /\ live'[d] = live[d]
      /\ Kept(a)'
  BY <1>0, <1>1, <1>4 DEF TypeOK, Kept, Resting
<1>7. CheckerInv(a)'
  <2>1. Holds(a)' /\ Numbered(a)'
    BY <1>6, <1>4 DEF Holds, Numbered, Offering, Leaving
  <2>2. InPools(a)'
    BY <1>6 DEF InPools
  <2>3. HandlerKnows(a)'
    BY <1>0, <1>4, <1>6 DEF HandlerKnows, Known, CheckerInv, Leaving, Kept, Resting
  <2>4. HeldOpen(a)'
    BY <1>0, <1>4, <1>6 DEF HeldOpen, CheckerInv, Leaving
  <2>5. Paid(a)'
    BY <1>0, <1>4, <1>6 DEF Paid, StillUp, TypeOK
  <2> QED BY <2>1, <2>2, <2>3, <2>4, <2>5 DEF CheckerInv
<1>8. \A b \in Addrs \ {a} : Untouched(b)
  BY <1>0, <1>1, <1>6 DEF Untouched, TypeOK
<1> QED BY <1>2, <1>3, <1>5, <1>7, <1>8, AtAddress, <1>0 DEF TypeOK

\* A connection that was not made, or closed again at once.
LEMMA StepNotMade ==
    ASSUME PoolInv, NEW a \in Addrs, NEW l,
           \/ state = "unknown" /\ pc[a] = "fill" /\ l = "filled"
           \/ state = "connected" /\ pc[a] \in {"idle", "try"} /\ conn[a] = None /\ l = "idle",
           NEW c \in Conns, AddrOf(c) = a, c[2] = made[a] + 1,
           pc' = [pc EXCEPT ![a] = l], faults < MaxFaults, faults' = faults + 1,
           \/ made' = made /\ status' = status
           \/ made' = [made EXCEPT ![a] = made[a] + 1] /\ status' = [status EXCEPT ![c] = "closed"],
           anyPool' = anyPool, rwPool' = rwPool, roPool' = roPool, conn' = conn, role' = role,
           newConn' = newConn, newRole' = newRole, live' = live, paired' = paired,
           state' = state, done' = done, server' = server, todo' = todo
    PROVE  PoolInv'
<1>0. TypeOK /\ Phases /\ paired /\ CheckerInv(a) /\ \A b \in Addrs : CheckerInv(b)
  BY DEF PoolInv
<1>1. TypeOK'
  BY <1>0 DEF TypeOK, PCs
<1>2. Phases'
  BY <1>0 DEF Phases, TypeOK
<1>3. conn[a] = None /\ newConn[a] = None /\ ~Kept(a) /\ ~Kept(a)' /\ ~StillUp(a)
  BY <1>0 DEF CheckerInv, Holds, Offering, Kept, StillUp
<1>4. /\ pc'[a] = l /\ made'[a] \in {made[a], made[a] + 1}
      /\ \A d \in Conns : status'[d] = status[d] \/ status'[d] = "closed"
      /\ \A d \in Conns : AddrOf(d) # a => status'[d] = status[d]
  BY <1>0 DEF TypeOK
<1>5. CheckerInv(a)'
  <2>1. Holds(a)' /\ Numbered(a)'
    BY <1>0, <1>3, <1>4 DEF Holds, Numbered, Offering, Leaving, CheckerInv
  <2>2. InPools(a)'
    BY <1>0, <1>3, <1>4 DEF InPools, CheckerInv
  <2>3. HandlerKnows(a)'
    BY <1>0, <1>3, <1>4 DEF HandlerKnows, Known, CheckerInv, Leaving
  <2>4. HeldOpen(a)'
    BY <1>0, <1>3, <1>4 DEF HeldOpen, CheckerInv, Leaving
  <2>5. Paid(a)'
    <3>1. made[a] <= faults /\ made[a] \in Nat /\ faults \in Nat
      BY <1>0, <1>3 DEF CheckerInv, Paid, TypeOK
    <3> QED BY <1>4, <3>1 DEF Paid
  <2> QED BY <2>1, <2>2, <2>3, <2>4, <2>5 DEF CheckerInv
<1>6. \A b \in Addrs \ {a} : Untouched(b)
  BY <1>0, <1>4 DEF Untouched, TypeOK
<1> QED BY <1>0, <1>1, <1>2, <1>5, <1>6, AtAddress DEF TypeOK

\* fillPools.
LEMMA StepFill ==
    ASSUME PoolInv, NEW a \in Addrs, FillOne(a)
    PROVE  PoolInv'
<1>1. made[a] \in Nat /\ made[a] = 0 /\ server[a] \in Roles
  BY DEF PoolInv, TypeOK, CheckerInv, Paid, FillOne
<1> DEFINE c == NewConn(a)
<1>2. c \in Conns /\ AddrOf(c) = a /\ c[2] = made[a] + 1
  BY <1>1, NewConnFacts
<1> HIDE DEF c
<1>3. /\ state = "unknown" /\ pc[a] = "fill" /\ pc' = [pc EXCEPT ![a] = "filled"]
      /\ state' = state /\ done' = done /\ server' = server /\ newConn' = newConn
      /\ newRole' = newRole /\ todo' = todo
  BY DEF FillOne, GoTo, watch
<1>4. \/ /\ AddToPools(a, c, server[a]) /\ made' = [made EXCEPT ![a] = made[a] + 1]
         /\ status' = [status EXCEPT ![c] = "up"] /\ conn' = [conn EXCEPT ![a] = c]
         /\ role' = [role EXCEPT ![a] = server[a]] /\ Discovered(c, server[a])
         /\ faults' = faults
      \/ /\ faults < MaxFaults /\ faults' = faults + 1
         /\ \/ made' = made /\ status' = status
            \/ /\ made' = [made EXCEPT ![a] = made[a] + 1]
               /\ status' = [status EXCEPT ![c] = "closed"]
         /\ anyPool' = anyPool /\ rwPool' = rwPool /\ roPool' = roPool
         /\ conn' = conn /\ role' = role /\ live' = live /\ paired' = paired
  BY DEF FillOne, GetConnectionRole, Put, Fault, pools, handler, c
<1> QED BY <1>1, <1>2, <1>3, <1>4, StepFilled, StepNotMade

\* A connection was opened and is to be offered to the handler.
LEMMA StepMade ==
    ASSUME PoolInv, NEW a \in Addrs, state = "connected", pc[a] \in {"idle", "try"},
           conn[a] = None, NEW c \in Conns, AddrOf(c) = a, c[2] = made[a] + 1, NEW r \in Roles,
           pc' = [pc EXCEPT ![a] = "offer"], made' = [made EXCEPT ![a] = made[a] + 1],
           status' = [status EXCEPT ![c] = "up"], newConn' = [newConn EXCEPT ![a] = c],
           newRole' = [newRole EXCEPT ![a] = r], faults' = faults,
           anyPool' = anyPool, rwPool' = rwPool, roPool' = roPool, conn' = conn, role' = role,
           live' = live, paired' = paired,
           state' = state, done' = done, server' = server, todo' = todo
    PROVE  PoolInv'
<1>0. TypeOK /\ Phases /\ paired /\ CheckerInv(a) /\ \A b \in Addrs : CheckerInv(b)
  BY DEF PoolInv
<1>1. TypeOK'
  BY <1>0 DEF TypeOK, PCs
<1>2. Phases'
  BY <1>0 DEF Phases, TypeOK
<1>3. newConn[a] = None /\ ~Kept(a) /\ ~Kept(a)' /\ ~StillUp(a)
  BY <1>0 DEF CheckerInv, Holds, Offering, Kept, StillUp
<1>4. /\ pc'[a] = "offer" /\ made'[a] = made[a] + 1 /\ newConn'[a] = c /\ newRole'[a] = r
      /\ status'[c] = "up" /\ \A d \in Conns \ {c} : status'[d] = status[d]
  BY <1>0 DEF TypeOK
<1>5. CheckerInv(a)'
  <2>1. Holds(a)' /\ Numbered(a)'
    BY <1>0, <1>3, <1>4 DEF Holds, Numbered, Offering, Leaving, TypeOK
  <2>2. InPools(a)'
    BY <1>0, <1>3, <1>4 DEF InPools, CheckerInv
  <2>3. HandlerKnows(a)'
    BY <1>0, <1>3, <1>4 DEF HandlerKnows, Known, CheckerInv, Leaving
  <2>4. HeldOpen(a)'
    BY <1>0, <1>3, <1>4 DEF HeldOpen, CheckerInv, Leaving
  <2>5. Paid(a)'
    <3>1. made[a] <= faults /\ made[a] \in Nat /\ faults \in Nat /\ faults <= MaxFaults
      BY <1>0, <1>3 DEF CheckerInv, Paid, TypeOK
    <3>2. StillUp(a)'
      BY <1>4 DEF StillUp
    <3> QED BY <1>4, <3>1, <3>2 DEF Paid
  <2> QED BY <2>1, <2>2, <2>3, <2>4, <2>5 DEF CheckerInv
<1>6. \A b \in Addrs \ {a} : Untouched(b)
  BY <1>0, <1>4 DEF Untouched, TypeOK
<1> QED BY <1>0, <1>1, <1>2, <1>5, <1>6, AtAddress DEF TypeOK

\* A step of the checker that only goes on, at rest and with nothing in its hands.
LEMMA StepGoesOn ==
    ASSUME PoolInv, NEW a \in Addrs, NEW l \in {"idle", "ended"}, pc[a] \in {"try", "idle"},
           pc[a] = "idle" \/ l = "ended" => done,
           pc' = [pc EXCEPT ![a] = l], made' = made, status' = status, newConn' = newConn,
           newRole' = newRole, faults' = faults,
           anyPool' = anyPool, rwPool' = rwPool, roPool' = roPool, conn' = conn, role' = role,
           live' = live, paired' = paired,
           state' = state, done' = done, server' = server, todo' = todo
    PROVE  PoolInv'
<1>0. TypeOK /\ Phases /\ paired /\ CheckerInv(a) /\ \A b \in Addrs : CheckerInv(b)
  BY DEF PoolInv
<1>1. TypeOK'
  BY <1>0 DEF TypeOK, PCs
<1>2. Phases'
  BY <1>0 DEF Phases, TypeOK
<1>3. newConn[a] = None /\ ~Kept(a) /\ ~Kept(a)' /\ pc'[a] = l
  BY <1>0 DEF CheckerInv, Holds, Offering, Kept, TypeOK
<1>4. CheckerInv(a)'
  <2>1. Holds(a)' /\ Numbered(a)'
    BY <1>0, <1>3 DEF Holds, Numbered, Offering, Leaving, CheckerInv
  <2>2. InPools(a)'
    BY <1>0, <1>3 DEF InPools, CheckerInv
  <2>3. HandlerKnows(a)'
    BY <1>0, <1>3 DEF HandlerKnows, Known, CheckerInv, Leaving
  <2>4. HeldOpen(a)'
    BY <1>0, <1>3 DEF HeldOpen, CheckerInv, Leaving
  <2>5. Paid(a)'
    BY <1>0, <1>3 DEF Paid, CheckerInv, StillUp
  <2> QED BY <2>1, <2>2, <2>3, <2>4, <2>5 DEF CheckerInv
<1>5. \A b \in Addrs \ {a} : Untouched(b)
  BY <1>0 DEF Untouched, TypeOK
<1> QED BY <1>0, <1>1, <1>2, <1>4, <1>5, AtAddress DEF TypeOK

\* tryConnect, up to the offer.
LEMMA StepTry ==
    ASSUME PoolInv, NEW a \in Addrs, TryConnect(a)
    PROVE  PoolInv'
<1>0. TypeOK /\ Phases /\ CheckerInv(a)
  BY DEF PoolInv
<1>1. /\ pc[a] \in {"idle", "try"} /\ conn[a] = None /\ made[a] \in Nat /\ server[a] \in Roles
      /\ newConn[a] = None
  BY <1>0 DEF TryConnect, CheckerInv, Holds, Offering, TypeOK
<1> DEFINE c == NewConn(a)
<1>2. state = "connected" => c \in Conns /\ AddrOf(c) = a /\ c[2] = made[a] + 1
  <2>1. state = "connected" => made[a] <= MaxFaults
    BY <1>0, <1>1 DEF CheckerInv, Paid, StillUp, TypeOK
  <2> QED BY <1>1, <2>1, NewConnFacts
<1> HIDE DEF c
<1>3. /\ state' = state /\ done' = done /\ anyPool' = anyPool /\ rwPool' = rwPool
      /\ roPool' = roPool /\ server' = server /\ conn' = conn /\ role' = role /\ live' = live
      /\ paired' = paired /\ todo' = todo
  BY DEF TryConnect, pools, handler, watch
<1> DEFINE
      Up == /\ state = "connected" /\ made' = [made EXCEPT ![a] = made[a] + 1]
            /\ status' = [status EXCEPT ![c] = "up"] /\ newConn' = [newConn EXCEPT ![a] = c]
            /\ newRole' = [newRole EXCEPT ![a] = server[a]]
            /\ pc' = [pc EXCEPT ![a] = "offer"] /\ faults' = faults
      Failed == /\ state = "connected" /\ faults < MaxFaults /\ faults' = faults + 1
                /\ \/ made' = made /\ status' = status
                   \/ /\ made' = [made EXCEPT ![a] = made[a] + 1]
                      /\ status' = [status EXCEPT ![c] = "closed"]
                /\ pc' = [pc EXCEPT ![a] = "idle"] /\ newConn' = newConn /\ newRole' = newRole
      Given == /\ pc[a] = "try" /\ pc' = [pc EXCEPT ![a] = "idle"] /\ made' = made
               /\ status' = status /\ newConn' = newConn /\ newRole' = newRole
               /\ faults' = faults
<1>4. Up \/ Failed \/ Given
  BY DEF TryConnect, GetConnectionRole, Put, Fault, GoTo, c
<1>5. CASE Up
  BY <1>1, <1>2, <1>3, <1>5, StepMade
<1>6. CASE Failed
  BY <1>1, <1>2, <1>3, <1>6, StepNotMade
<1>7. CASE Given
  BY <1>3, <1>7, StepGoesOn
<1> QED BY <1>4, <1>5, <1>6, <1>7

\* The handler is asked about the connection.
LEMMA StepOffer ==
    ASSUME PoolInv, NEW a \in Addrs, Offer(a)
    PROVE  PoolInv'
<1> DEFINE c == newConn[a]
           Accepted == Discovered(c, newRole[a]) /\ pc' = [pc EXCEPT ![a] = "add"] /\ faults' = faults
           Refused == /\ faults < MaxFaults /\ faults' = faults + 1
                      /\ pc' = [pc EXCEPT ![a] = "refused"] /\ live' = live /\ paired' = paired
<1>0. TypeOK /\ Phases /\ paired /\ CheckerInv(a) /\ \A b \in Addrs : CheckerInv(b)
  BY DEF PoolInv
<1>1. /\ pc[a] = "offer" /\ made' = made /\ status' = status /\ newConn' = newConn
      /\ newRole' = newRole /\ anyPool' = anyPool /\ rwPool' = rwPool /\ roPool' = roPool
      /\ conn' = conn /\ role' = role /\ state' = state /\ done' = done /\ server' = server
      /\ todo' = todo
  BY DEF Offer, pools, env, local, watch
<1>2. Accepted \/ Refused
  BY DEF Offer, Fault, GoTo, handler
<1>3. c \in Conns /\ AddrOf(c) = a /\ newRole[a] \in Roles /\ conn[a] = None /\ c # None
  BY <1>0, <1>1 DEF CheckerInv, Holds, Numbered, Offering, TypeOK
<1>4. live[c] = None /\ ~Kept(a)
  BY <1>0, <1>1, <1>3 DEF CheckerInv, HandlerKnows, Known, Leaving, Kept
<1> HIDE DEF c
<1>5. /\ live' \in {live, [live EXCEPT ![c] = newRole[a]]} /\ paired'
      /\ faults' \in 0 .. MaxFaults /\ faults' >= faults
      /\ pc' \in {[pc EXCEPT ![a] = "add"], [pc EXCEPT ![a] = "refused"]}
  <2>1. CASE Accepted
    <3>1. paired'
      BY <1>0, <1>4, <2>1, Zenon DEF Discovered
    <3> QED BY <1>0, <2>1, <3>1 DEF Discovered, Put, TypeOK
  <2>2. CASE Refused
    BY <1>0, <2>2 DEF TypeOK
  <2> QED BY <1>2, <2>1, <2>2
<1>6. TypeOK'
  BY <1>0, <1>1, <1>3, <1>5 DEF TypeOK, PCs
<1>7. Phases'
  BY <1>0, <1>1, <1>5 DEF Phases, TypeOK
<1>8. pc'[a] \in {"add", "refused"} /\ ~Kept(a)'
  BY <1>0, <1>5 DEF TypeOK, Kept, Resting
<1>9. CheckerInv(a)'
  <2>1. Holds(a)' /\ Numbered(a)'
    BY <1>0, <1>1, <1>8 DEF Holds, Numbered, Offering, Leaving, CheckerInv
  <2>2. InPools(a)'
    BY <1>0, <1>1, <1>4, <1>8 DEF InPools, CheckerInv
  <2>3. HandlerKnows(a)'
    <3>1. \A d \in Conns : AddrOf(d) = a => live[d] = None
      BY <1>0, <1>1, <1>3, <1>4 DEF HandlerKnows, Known, CheckerInv, Leaving
    <3>2. CASE Accepted
      <4>1. pc'[a] = "add" /\ live' = [live EXCEPT ![c] = newRole[a]]
        BY <1>0, <3>2 DEF TypeOK, Discovered, Put
      <4> QED BY <1>0, <1>1, <1>3, <1>8, <3>1, <4>1 DEF HandlerKnows, Known, TypeOK, Leaving, c
    <3>3. CASE Refused
      <4>1. pc'[a] = "refused"
        BY <1>0, <3>3 DEF TypeOK
      <4> QED BY <1>1, <1>3, <1>8, <3>1, <3>3, <4>1 DEF HandlerKnows, Known, Leaving
    <3> QED BY <1>2, <3>2, <3>3
  <2>4. HeldOpen(a)'
    BY <1>0, <1>1, <1>4, <1>8 DEF HeldOpen, CheckerInv, Leaving
  <2>5. Paid(a)'
    <3>1. CASE Accepted
      <4>1. pc'[a] = "add" /\ faults' = faults
        BY <1>0, <3>1 DEF TypeOK
      <4> QED BY <1>0, <1>1, <4>1 DEF Paid, StillUp, CheckerInv
    <3>2. CASE Refused
      <4>1. pc'[a] = "refused" /\ faults' = faults + 1
        BY <1>0, <3>2 DEF TypeOK
      <4> QED BY <1>0, <1>1, <4>1 DEF Paid, CheckerInv, TypeOK
    <3> QED BY <1>2, <3>1, <3>2
  <2> QED BY <2>1, <2>2, <2>3, <2>4, <2>5 DEF CheckerInv
<1>10. \A b \in Addrs \ {a} : Untouched(b)
  BY <1>0, <1>1, <1>3, <1>5 DEF Untouched, TypeOK
<1> QED BY <1>1, <1>5, <1>6, <1>7, <1>9, <1>10, AtAddress

\* The connection goes to the subpools.
LEMMA StepAdded ==
    ASSUME PoolInv, NEW a \in Addrs, pc[a] = "add", state = "connected",
           AddToPools(a, newConn[a], newRole[a]), faults' = faults,
           conn' = [conn EXCEPT ![a] = newConn[a]], role' = [role EXCEPT ![a] = newRole[a]],
           newConn' = [newConn EXCEPT ![a] = None], newRole' = [newRole EXCEPT ![a] = None],
           pc' = [pc EXCEPT ![a] = "idle"], state' = state, done' = done, server' = server,
           made' = made, status' = status, live' = live, paired' = paired, todo' = todo
    PROVE  PoolInv'
<1> DEFINE c == newConn[a]
           r == newRole[a]
<1>0. TypeOK /\ Phases /\ paired /\ CheckerInv(a) /\ \A b \in Addrs : CheckerInv(b)
  BY DEF PoolInv
<1>1. /\ c \in Conns /\ AddrOf(c) = a /\ r \in Roles /\ conn[a] = None /\ c # None
      /\ c[2] <= made[a] /\ ~done
  BY <1>0 DEF CheckerInv, Holds, Numbered, Offering, TypeOK, Phases
<1>2. /\ anyPool' = [anyPool EXCEPT ![a] = c]
      /\ rwPool' = IF r = "Master" THEN [rwPool EXCEPT ![a] = c] ELSE rwPool
      /\ roPool' = IF r = "Replica" THEN [roPool EXCEPT ![a] = c] ELSE roPool
  BY DEF AddToPools, Put
<1>3. anyPool[a] = None /\ rwPool[a] = None /\ roPool[a] = None
  BY <1>0 DEF CheckerInv, InPools, Kept, Resting
<1>4. TypeOK'
  BY <1>0, <1>1, <1>2 DEF TypeOK, PCs
<1>5. Phases'
  BY <1>0 DEF Phases, TypeOK
<1>6. /\ pc'[a] = "idle" /\ conn'[a] = c /\ role'[a] = r /\ newConn'[a] = None /\ anyPool'[a] = c
      /\ rwPool'[a] = IF r = "Master" THEN c ELSE None
      /\ roPool'[a] = IF r = "Replica" THEN c ELSE None
      /\ Kept(a)'
  BY <1>0, <1>1, <1>2, <1>3 DEF TypeOK, Kept, Resting
<1>7. CheckerInv(a)'
  <2>1. Holds(a)' /\ Numbered(a)'
    BY <1>1, <1>6 DEF Holds, Numbered, Offering, Leaving
  <2>2. InPools(a)'
    BY <1>6 DEF InPools
  <2>3. HandlerKnows(a)'
    <3>1. \A d \in Conns : AddrOf(d) = a => live[d] = IF d = c THEN r ELSE None
      BY <1>0, <1>1 DEF HandlerKnows, Known, CheckerInv, Leaving, Kept, Resting
    <3> QED BY <1>6, <3>1 DEF HandlerKnows, Known
  <2>4. HeldOpen(a)'
    BY <1>0, <1>1, <1>6 DEF HeldOpen, CheckerInv, Leaving, Kept
  <2>5. Paid(a)'
    BY <1>0, <1>1, <1>6 DEF Paid, StillUp, CheckerInv
  <2> QED BY <2>1, <2>2, <2>3, <2>4, <2>5 DEF CheckerInv
<1>8. \A b \in Addrs \ {a} : Untouched(b)
  BY <1>0, <1>2 DEF Untouched, TypeOK
<1> QED BY <1>0, <1>4, <1>5, <1>7, <1>8, AtAddress DEF TypeOK

\* The connection could not be added: a watch failed, or the pool is closed.
LEMMA StepNotAdded ==
    ASSUME PoolInv, NEW a \in Addrs, pc[a] = "add",
           \/ state # "connected" /\ faults' = faults
           \/ status[newConn[a]] = "up" /\ faults < MaxFaults /\ faults' = faults + 1
           \/ status[newConn[a]] # "up" /\ faults' = faults,
           anyPool' = anyPool, rwPool' = rwPool, roPool' = roPool, conn' = conn, role' = role,
           newConn' = newConn, newRole' = newRole,
           pc' = [pc EXCEPT ![a] = "drop"], state' = state, done' = done, server' = server,
           made' = made, status' = status, live' = live, paired' = paired, todo' = todo
    PROVE  PoolInv'
<1>0. TypeOK /\ Phases /\ paired /\ CheckerInv(a) /\ \A b \in Addrs : CheckerInv(b)
  BY DEF PoolInv
<1>1. faults' \in 0 .. MaxFaults /\ faults' >= faults
  BY <1>0 DEF TypeOK
<1>2. TypeOK'
  BY <1>0, <1>1 DEF TypeOK, PCs
<1>3. Phases'
  BY <1>0 DEF Phases, TypeOK
<1>4. pc'[a] = "drop" /\ ~Kept(a) /\ ~Kept(a)' /\ conn[a] = None
  BY <1>0 DEF TypeOK, Kept, Resting, CheckerInv, Holds, Offering
<1>5. CheckerInv(a)'
  <2>1. Holds(a)' /\ Numbered(a)'
    BY <1>0, <1>4 DEF Holds, Numbered, Offering, Leaving, CheckerInv
  <2>2. InPools(a)'
    BY <1>0, <1>4 DEF InPools, CheckerInv
  <2>3. HandlerKnows(a)'
    BY <1>0, <1>4 DEF HandlerKnows, Known, CheckerInv, Leaving
  <2>4. HeldOpen(a)'
    BY <1>0, <1>4 DEF HeldOpen, CheckerInv, Leaving
  <2>5. Paid(a)'
    <3>1. state \notin {"connected", "closed"} => FALSE
      BY <1>0 DEF Phases, TypeOK
    <3>2. status[newConn[a]] # "up" => ~StillUp(a)
      BY <1>4 DEF StillUp
    <3> QED BY <1>0, <1>1, <1>4, <3>1, <3>2 DEF Paid, CheckerInv, TypeOK
  <2> QED BY <2>1, <2>2, <2>3, <2>4, <2>5 DEF CheckerInv
<1>6. \A b \in Addrs \ {a} : Untouched(b)
  BY <1>0 DEF Untouched, TypeOK
<1> QED BY <1>0, <1>1, <1>2, <1>3, <1>5, <1>6, AtAddress

\* The second critical section of tryConnect and updateConnection.
LEMMA StepAdd ==
    ASSUME PoolInv, NEW a \in Addrs, Add(a)
    PROVE  PoolInv'
<1>1. /\ pc[a] = "add" /\ state' = state /\ done' = done /\ server' = server /\ made' = made
      /\ status' = status /\ live' = live /\ paired' = paired
  BY DEF Add, env, handler
<1> DEFINE Ok == /\ StillConnected /\ AddConnection(a, newConn[a], newRole[a], TRUE)
                 /\ conn' = Put(conn, a, newConn[a]) /\ role' = Put(role, a, newRole[a])
                 /\ newConn' = Put(newConn, a, None) /\ newRole' = Put(newRole, a, None)
                 /\ GoTo(a, "idle")
           Failed == /\ \/ /\ StillConnected
                           /\ AddConnection(a, newConn[a], newRole[a], FALSE)
                        \/ ~StillConnected /\ UNCHANGED <<pools, watch, faults>>
                     /\ GoTo(a, "drop") /\ UNCHANGED local
<1>2. Ok \/ Failed
  BY DEF Add
<1>3. CASE Ok
  <2>1. AddToPools(a, newConn[a], newRole[a]) /\ faults' = faults /\ todo' = todo
    BY <1>3 DEF AddConnection
  <2> QED BY <1>1, <1>3, <2>1, StepAdded DEF StillConnected, Put, GoTo
<1>4. CASE Failed
  <2>1. /\ \/ state # "connected" /\ faults' = faults
           \/ status[newConn[a]] = "up" /\ faults < MaxFaults /\ faults' = faults + 1
           \/ status[newConn[a]] # "up" /\ faults' = faults
        /\ anyPool' = anyPool /\ rwPool' = rwPool /\ roPool' = roPool /\ todo' = todo
    BY <1>4 DEF AddConnection, StillConnected, Fault, pools, watch
  <2>2. conn' = conn /\ role' = role /\ newConn' = newConn /\ newRole' = newRole
        /\ pc' = [pc EXCEPT ![a] = "drop"]
    BY <1>4 DEF local, GoTo
  <2> QED BY <1>1, <2>1, <2>2, StepNotAdded
<1> QED BY <1>2, <1>3, <1>4

\* A connection that is not kept is closed; the handler is told if it knew.
LEMMA StepDrop ==
    ASSUME PoolInv, NEW a \in Addrs, Drop(a)
    PROVE  PoolInv'
<1> DEFINE c == newConn[a]
<1>0. TypeOK /\ Phases /\ paired /\ CheckerInv(a) /\ \A b \in Addrs : CheckerInv(b)
  BY DEF PoolInv
<1>1. /\ pc[a] \in {"drop", "refused"} /\ status' = [status EXCEPT ![c] = "closed"]
      /\ newConn' = [newConn EXCEPT ![a] = None] /\ newRole' = [newRole EXCEPT ![a] = None]
      /\ pc' = [pc EXCEPT ![a] = "idle"] /\ state' = state /\ done' = done /\ server' = server
      /\ anyPool' = anyPool /\ rwPool' = rwPool /\ roPool' = roPool /\ made' = made
      /\ conn' = conn /\ role' = role /\ todo' = todo /\ faults' = faults
  BY DEF Drop, DropClose, CloseConn, Put, GoTo, pools, watch
<1>2. c \in Conns /\ AddrOf(c) = a /\ newRole[a] \in Roles /\ conn[a] = None /\ c # None
  BY <1>0, <1>1 DEF CheckerInv, Holds, Numbered, Offering, TypeOK
<1>3. \A d \in Conns : AddrOf(d) = a =>
          live[d] = IF d = c /\ pc[a] = "drop" THEN newRole[a] ELSE None
  BY <1>0, <1>1, <1>2 DEF CheckerInv, HandlerKnows, Known, Leaving, Kept, Resting
<1>4. paired' /\ live' = [live EXCEPT ![c] = None]
  <2>1. CASE pc[a] = "drop"
    <3>1. live[c] = newRole[a] /\ Deactivated(c, newRole[a])
      BY <1>2, <1>3, <2>1 DEF Drop
    <3>2. paired'
      BY <1>0, <3>1, Zenon DEF Deactivated
    <3> QED BY <3>1, <3>2 DEF Deactivated, Put
  <2>2. CASE pc[a] = "refused"
    <3>1. live[c] = None /\ live' = live /\ paired' = paired
      BY <1>2, <1>3, <2>2 DEF Drop, handler
    <3>2. live = [live EXCEPT ![c] = None]
      BY <1>0, <1>2, <3>1 DEF TypeOK
    <3> QED BY <1>0, <3>1, <3>2
  <2> QED BY <1>1, <2>1, <2>2
<1> HIDE DEF c
<1>5. TypeOK'
  BY <1>0, <1>1, <1>2, <1>4 DEF TypeOK, PCs
<1>6. Phases'
  BY <1>0, <1>1 DEF Phases, TypeOK
<1>7. /\ pc'[a] = "idle" /\ newConn'[a] = None /\ ~Kept(a) /\ ~Kept(a)'
      /\ \A d \in Conns : AddrOf(d) = a => live'[d] = None
      /\ \A d \in Conns \ {c} : status'[d] = status[d]
      /\ status'[c] = "closed"
  BY <1>0, <1>1, <1>2, <1>3, <1>4 DEF TypeOK, Kept, Resting
<1>8. CheckerInv(a)'
  <2>1. Holds(a)' /\ Numbered(a)'
    BY <1>1, <1>2, <1>7 DEF Holds, Numbered, Offering, Leaving
  <2>2. InPools(a)'
    BY <1>0, <1>1, <1>7 DEF InPools, CheckerInv
  <2>3. HandlerKnows(a)'
    BY <1>1, <1>2, <1>7 DEF HandlerKnows, Known, Leaving
  <2>4. HeldOpen(a)'
    BY <1>0, <1>1, <1>2, <1>7 DEF HeldOpen, CheckerInv, Leaving, c
  <2>5. Paid(a)'
    BY <1>0, <1>1, <1>7 DEF Paid, CheckerInv, StillUp
  <2> QED BY <2>1, <2>2, <2>3, <2>4, <2>5 DEF CheckerInv
<1>9. \A b \in Addrs \ {a} : Untouched(b)
  BY <1>0, <1>1, <1>2, <1>4 DEF Untouched, TypeOK
<1> QED BY <1>0, <1>1, <1>4, <1>5, <1>6, <1>8, <1>9, AtAddress DEF TypeOK

\* The connection leaves the subpools: its role changed, or it is closed.
LEMMA StepTakenOut ==
    ASSUME PoolInv, NEW a \in Addrs, pc[a] = "idle", conn[a] # None, state = "connected",
           NEW l \in Leaving, l # "moved" => status[conn[a]] = "closed",
           DeleteConnection(a), pc' = [pc EXCEPT ![a] = l],
           NEW r \in Roles \cup {None}, l = "moved" => r \in Roles,
           newRole' = [newRole EXCEPT ![a] = r],
           conn' = conn, role' = role, newConn' = newConn, state' = state, done' = done,
           server' = server, made' = made, status' = status, live' = live, paired' = paired,
           faults' = faults
    PROVE  PoolInv'
<1>0. TypeOK /\ Phases /\ paired /\ CheckerInv(a) /\ \A b \in Addrs : CheckerInv(b)
  BY DEF PoolInv
<1>1. Kept(a) /\ anyPool[a] = conn[a] /\ newConn[a] = None /\ role[a] \in Roles
  BY <1>0 DEF Kept, Resting, Phases, CheckerInv, InPools, Holds, Offering
<1>2. /\ anyPool' = [anyPool EXCEPT ![a] = None] /\ rwPool' = [rwPool EXCEPT ![a] = None]
      /\ roPool' = [roPool EXCEPT ![a] = None] /\ todo' = todo
  BY <1>1 DEF DeleteConnection, RemoveFromPools, Put
<1>3. TypeOK'
  BY <1>0, <1>2 DEF TypeOK, PCs, Leaving
<1>4. Phases'
  BY <1>0 DEF Phases, TypeOK, Leaving
<1>5. /\ pc'[a] = l /\ newRole'[a] = r /\ ~Kept(a)' /\ anyPool'[a] = None /\ rwPool'[a] = None
      /\ roPool'[a] = None
  BY <1>0, <1>2 DEF TypeOK, Kept, Resting, Leaving
<1>6. CheckerInv(a)'
  <2>1. Holds(a)' /\ Numbered(a)'
    BY <1>0, <1>1, <1>5 DEF Holds, Numbered, Offering, Leaving, CheckerInv
  <2>2. InPools(a)'
    BY <1>5 DEF InPools
  <2>3. HandlerKnows(a)'
    BY <1>0, <1>1, <1>5 DEF HandlerKnows, Known, CheckerInv, Leaving
  <2>4. HeldOpen(a)'
    BY <1>0, <1>1, <1>5 DEF HeldOpen, CheckerInv
  <2>5. Paid(a)'
    BY <1>0, <1>5 DEF Paid, CheckerInv, StillUp, Leaving
  <2> QED BY <2>1, <2>2, <2>3, <2>4, <2>5 DEF CheckerInv
<1>7. \A b \in Addrs \ {a} : Untouched(b)
  BY <1>0, <1>2 DEF Untouched, TypeOK
<1> QED BY <1>0, <1>3, <1>4, <1>6, <1>7, AtAddress DEF TypeOK

\* updateConnection, and the two ways to notice a closed connection.
LEMMA StepLeaves ==
    ASSUME PoolInv, NEW a \in Addrs,
           RoleChanged(a) \/ Removed(a, "lost") \/ Removed(a, "closed")
    PROVE  PoolInv'
<1>0. server[a] \in Roles /\ newRole[a] \in Roles \cup {None} /\ newRole \in [Addrs -> Roles \cup {None}]
  BY DEF PoolInv, TypeOK
<1>1. CASE RoleChanged(a)
  <2>1. /\ pc[a] = "idle" /\ conn[a] # None /\ state = "connected" /\ DeleteConnection(a)
        /\ pc' = [pc EXCEPT ![a] = "moved"] /\ newRole' = [newRole EXCEPT ![a] = server[a]]
        /\ conn' = conn /\ role' = role /\ newConn' = newConn /\ state' = state /\ done' = done
        /\ server' = server /\ made' = made /\ status' = status /\ live' = live
        /\ paired' = paired /\ faults' = faults
    BY <1>1 DEF RoleChanged, GoTo, Put, GetConnectionRole, env, handler
  <2> QED BY <1>0, <2>1, StepTakenOut DEF Leaving
<1>2. CASE Removed(a, "lost") \/ Removed(a, "closed")
  <2>1. /\ pc[a] = "idle" /\ conn[a] # None /\ status[conn[a]] = "closed"
        /\ state = "connected" /\ DeleteConnection(a)
        /\ \E l \in {"lost", "closed"} : pc' = [pc EXCEPT ![a] = l]
        /\ newRole' = newRole
        /\ conn' = conn /\ role' = role /\ newConn' = newConn /\ state' = state /\ done' = done
        /\ server' = server /\ made' = made /\ status' = status /\ live' = live
        /\ paired' = paired /\ faults' = faults
    BY <1>2 DEF Removed, Lost, GoTo, local, handler
  <2>2. newRole' = [newRole EXCEPT ![a] = newRole[a]]
    BY <1>0, <2>1
  <2>3. PICK l \in {"lost", "closed"} : pc' = [pc EXCEPT ![a] = l]
    BY <2>1
  <2> QED BY <1>0, <2>1, <2>2, <2>3, StepTakenOut DEF Leaving
<1> QED BY <1>1, <1>2

\* The handler is told that a connection has ended, or ends in its old role.
LEMMA StepDeactivated ==
    ASSUME PoolInv, NEW a \in Addrs, Moved(a) \/ Forget(a)
    PROVE  PoolInv'
<1> DEFINE c == conn[a]
<1>0. TypeOK /\ Phases /\ paired /\ CheckerInv(a) /\ \A b \in Addrs : CheckerInv(b)
  BY DEF PoolInv
<1>1. /\ pc[a] \in Leaving /\ Deactivated(c, role[a])
      /\ conn' = [conn EXCEPT ![a] = None] /\ role' = [role EXCEPT ![a] = None]
      /\ state' = state /\ done' = done /\ anyPool' = anyPool /\ rwPool' = rwPool
      /\ roPool' = roPool /\ server' = server /\ made' = made /\ status' = status
      /\ newRole' = newRole /\ todo' = todo /\ faults' = faults
  BY DEF Moved, Forget, Leaving, Put, pools, env, watch
<1>2. c \in Conns /\ c # None /\ AddrOf(c) = a /\ role[a] \in Roles /\ newConn[a] = None
      /\ c[2] <= made[a]
  BY <1>0, <1>1 DEF CheckerInv, Holds, Numbered, Offering, Leaving, TypeOK
<1>3. \A d \in Conns : AddrOf(d) = a => live[d] = IF d = c THEN role[a] ELSE None
  BY <1>0, <1>1, <1>2 DEF CheckerInv, HandlerKnows, Known, Leaving
<1>4. live' = [live EXCEPT ![c] = None] /\ paired'
  <2>1. live[c] = role[a]
    BY <1>2, <1>3
  <2>2. paired'
    BY <1>0, <1>1, <2>1, Zenon DEF Deactivated
  <2> QED BY <1>1, <2>2 DEF Deactivated, Put
<1> DEFINE l == IF pc[a] = "moved" THEN "offer" ELSE IF pc[a] = "lost" THEN "try" ELSE "idle"
           n == IF pc[a] = "moved" THEN c ELSE None
<1>5. pc' = [pc EXCEPT ![a] = l] /\ newConn' = [newConn EXCEPT ![a] = n]
  <2>1. CASE Moved(a)
    BY <2>1 DEF Moved, GoTo, Put
  <2>2. CASE Forget(a)
    <3>1. newConn = [newConn EXCEPT ![a] = None]
      BY <1>0, <1>2 DEF TypeOK
    <3> QED BY <2>2, <3>1 DEF Forget, GoTo
  <2> QED BY <2>1, <2>2
<1>6. n \in Conns \cup {None} /\ l \in {"offer", "try", "idle"} /\ (n # None <=> l = "offer")
      /\ (n # None => n = c) /\ (l = "offer" <=> pc[a] = "moved")
  BY <1>2
<1> HIDE DEF l, n, c
<1>7. TypeOK'
  BY <1>0, <1>1, <1>2, <1>4, <1>5, <1>6 DEF TypeOK, PCs
<1>8. Phases'
  BY <1>0, <1>1, <1>5, <1>6 DEF Phases, TypeOK, Leaving
<1>9. /\ pc'[a] = l /\ newConn'[a] = n /\ conn'[a] = None /\ ~Kept(a) /\ ~Kept(a)'
      /\ \A d \in Conns : AddrOf(d) = a => live'[d] = None
  BY <1>0, <1>1, <1>2, <1>3, <1>4, <1>5 DEF TypeOK, Kept, Resting, Leaving
<1>10. CheckerInv(a)'
  <2>1. Holds(a)'
    BY <1>0, <1>1, <1>6, <1>9 DEF Holds, Offering, Leaving, CheckerInv
  <2>2. Numbered(a)'
    BY <1>1, <1>2, <1>6, <1>9 DEF Numbered
  <2>3. InPools(a)'
    BY <1>0, <1>1, <1>9 DEF InPools, CheckerInv
  <2>4. HandlerKnows(a)'
    BY <1>6, <1>9 DEF HandlerKnows, Known, Leaving
  <2>5. HeldOpen(a)'
    <3>1. \A d \in Conns : AddrOf(d) = a /\ status[d] \in {"up", "down"} => d = c
      BY <1>0, <1>2 DEF HeldOpen, CheckerInv, c
    <3>2. l # "offer" => status[c] = "closed"
      BY <1>0, <1>1, <1>6 DEF CheckerInv, Holds, Leaving, c
    <3> QED BY <1>1, <1>6, <1>9, <3>1, <3>2 DEF HeldOpen
  <2>6. Paid(a)'
    <3>1. StillUp(a) => StillUp(a)'
      BY <1>0, <1>1, <1>2, <1>6, <1>9 DEF CheckerInv, Holds, Leaving, StillUp, c
    <3> QED BY <1>0, <1>1, <1>6, <1>9, <3>1 DEF Paid, CheckerInv
  <2> QED BY <2>1, <2>2, <2>3, <2>4, <2>5, <2>6 DEF CheckerInv
<1>11. \A b \in Addrs \ {a} : Untouched(b)
  BY <1>0, <1>1, <1>2, <1>4, <1>5 DEF Untouched, TypeOK
<1> QED BY <1>0, <1>1, <1>4, <1>7, <1>8, <1>10, <1>11, AtAddress DEF TypeOK

-----------------------------------------------------------------------------
(* Steps of the pool, its watchers and the connections by themselves.      *)

\* Nothing that belongs to an address is touched.
LEMMA StepBeside ==
    ASSUME PoolInv, pc' = pc, made' = made, status' = status, newConn' = newConn,
           newRole' = newRole, anyPool' = anyPool, rwPool' = rwPool, roPool' = roPool,
           conn' = conn, role' = role, live' = live, paired' = paired, done' = done,
           faults' \in 0 .. MaxFaults, faults' >= faults,
           state' = state \/ (state = "connected" /\ state' = "closed"),
           server' \in [Addrs -> Roles], todo' \in [Watchers -> SUBSET Conns]
    PROVE  PoolInv'
<1>0. TypeOK /\ Phases /\ paired /\ \A b \in Addrs : CheckerInv(b)
  BY DEF PoolInv
<1>1. TypeOK'
  BY <1>0 DEF TypeOK
<1>2. Phases'
  BY <1>0 DEF Phases
<1>3. ASSUME NEW b \in Addrs PROVE CheckerInv(b)'
  <2>1. Untouched(b)
    BY DEF Untouched
  <2>2. faults' \in Nat /\ (state' # "closed" => state # "closed")
    OBVIOUS
  <2> QED BY <1>0, <2>1, <2>2, Elsewhere
<1> QED BY <1>0, <1>1, <1>2, <1>3 DEF PoolInv

\* A connection breaks, recovers, gives up or is closed by NewWatcher.
LEMMA StepStatus ==
    ASSUME PoolInv, NEW c \in Conns, NEW v \in {"up", "down", "closed"},
           status' = [status EXCEPT ![c] = v],
           v # "closed" => status[c] \in {"up", "down"},
           \/ status[c] = "up" /\ faults < MaxFaults /\ faults' = faults + 1
           \/ status[c] # "up" /\ faults' = faults
           \/ status[c] # "up" /\ faults < MaxFaults /\ faults' = faults + 1,
           pc' = pc, made' = made, newConn' = newConn,
           newRole' = newRole, anyPool' = anyPool, rwPool' = rwPool, roPool' = roPool,
           conn' = conn, role' = role, live' = live, paired' = paired, done' = done,
           state' = state, server' = server, todo' \in [Watchers -> SUBSET Conns]
    PROVE  PoolInv'
<1> DEFINE a == AddrOf(c)
<1>0. TypeOK /\ Phases /\ paired /\ a \in Addrs /\ CheckerInv(a)
  BY DEF PoolInv, AddrOf, Conns
<1>1. faults' \in 0 .. MaxFaults /\ faults' >= faults
  BY <1>0 DEF TypeOK
<1>2. TypeOK'
  BY <1>0, <1>1 DEF TypeOK
<1>3. Phases'
  BY <1>0 DEF Phases
<1>4. status'[c] = v /\ \A d \in Conns \ {c} : status'[d] = status[d]
  BY <1>0 DEF TypeOK
<1> HIDE DEF a
<1>5. CheckerInv(a)'
  <2>0. Kept(a)' <=> Kept(a)
    BY DEF Kept
  <2>1. Holds(a)'
    <3>1. pc[a] \in {"lost", "closed"} => conn[a] \in Conns /\ status'[conn[a]] = "closed"
      BY <1>0, <1>4 DEF CheckerInv, Holds, Leaving, TypeOK
    <3> QED BY <1>0, <3>1 DEF Holds, CheckerInv
  <2>2. Numbered(a)'
    BY <1>0 DEF Numbered, CheckerInv
  <2>3. InPools(a)'
    BY <1>0, <2>0 DEF InPools, CheckerInv
  <2>4. HandlerKnows(a)'
    BY <1>0, <2>0 DEF HandlerKnows, Known, CheckerInv
  <2>5. HeldOpen(a)'
    BY <1>0, <1>4, <2>0 DEF HeldOpen, CheckerInv
  <2>6. Paid(a)'
    <3>1. status[c] # "up" /\ ~StillUp(a)' => ~StillUp(a)
      BY <1>0, <1>4 DEF StillUp, TypeOK
    <3> QED BY <1>0, <1>1, <3>1 DEF Paid, CheckerInv, TypeOK
  <2> QED BY <2>1, <2>2, <2>3, <2>4, <2>5, <2>6 DEF CheckerInv
<1>6. \A b \in Addrs \ {a} : Untouched(b)
  BY <1>4 DEF Untouched, a
<1> QED BY <1>0, <1>1, <1>2, <1>3, <1>5, <1>6, AtAddress

\* What is in a subpool is a connection.
LEMMA MembersTypes ==
    ASSUME TypeOK
    PROVE  /\ Members(anyPool) \subseteq Conns /\ Members(rwPool) \subseteq Conns
           /\ Members(roPool) \subseteq Conns
BY DEF TypeOK, Members

\* The checkers start, or there is nobody alive and the pool ends at once.
LEMMA StepStart ==
    ASSUME PoolInv, Start
    PROVE  PoolInv'
<1>0. TypeOK /\ Phases /\ paired /\ \A b \in Addrs : CheckerInv(b)
  BY DEF PoolInv
<1>1. /\ state = "unknown" /\ \A a \in Addrs : pc[a] = "filled"
      /\ made' = made /\ status' = status /\ newConn' = newConn
      /\ newRole' = newRole /\ anyPool' = anyPool /\ rwPool' = rwPool /\ roPool' = roPool
      /\ conn' = conn /\ role' = role /\ live' = live /\ paired' = paired
      /\ server' = server /\ todo' = todo /\ faults' = faults
  BY DEF Start, pools, env, local, handler, watch
<1> DEFINE l == IF \E a \in Addrs : conn[a] # None THEN "idle" ELSE "ended"
<1>2. /\ pc' = [a \in Addrs |-> l] /\ l \in {"idle", "ended"}
      /\ l = "idle" => state' = "connected" /\ done' = done
      /\ l = "ended" => state' = "closed" /\ done' = TRUE /\ \A a \in Addrs : conn[a] = None
  BY DEF Start
<1> HIDE DEF l
<1>3. ~done
  BY <1>0, <1>1 DEF Phases
<1>4. TypeOK'
  BY <1>0, <1>1, <1>2 DEF TypeOK, PCs
<1>5. Phases'
  BY <1>1, <1>2, <1>3 DEF Phases
<1>6. ASSUME NEW a \in Addrs PROVE CheckerInv(a)'
  <2>0. CheckerInv(a) /\ pc[a] = "filled" /\ pc'[a] = l /\ newConn[a] = None
    BY <1>0, <1>1, <1>2 DEF CheckerInv, Holds, Offering
  <2>1. Kept(a)' <=> Kept(a)
    BY <1>1, <1>2, <1>3, <2>0 DEF Kept, Resting
  <2>2. Holds(a)'
    BY <1>1, <1>2, <2>0 DEF Holds, CheckerInv, Offering, Leaving
  <2>3. Numbered(a)' /\ InPools(a)'
    BY <1>1, <2>0, <2>1 DEF Numbered, InPools, CheckerInv
  <2>4. HandlerKnows(a)'
    BY <1>1, <1>2, <2>0, <2>1 DEF HandlerKnows, Known, CheckerInv, Leaving
  <2>5. HeldOpen(a)'
    BY <1>1, <1>2, <2>0, <2>1 DEF HeldOpen, CheckerInv, Leaving
  <2>6. StillUp(a) => StillUp(a)'
    BY <1>1, <1>2, <2>0 DEF StillUp
  <2>7. Paid(a)'
    BY <1>1, <1>2, <2>0, <2>6 DEF Paid, CheckerInv
  <2> QED BY <2>2, <2>3, <2>4, <2>5, <2>7 DEF CheckerInv
<1> QED BY <1>0, <1>1, <1>4, <1>5, <1>6 DEF PoolInv

\* closeImpl closes what the pool has, and what it does not have is with a checker
\* that will look at the state of the pool again.
LEMMA StepClose ==
    ASSUME PoolInv, CloseImpl
    PROVE  PoolInv'
<1> DEFINE M == ClosedByClose
<1>0. TypeOK /\ Phases /\ paired /\ \A b \in Addrs : CheckerInv(b)
  BY DEF PoolInv
<1>1. /\ state = "closed" /\ ~done /\ done' = TRUE
      /\ status' = [c \in Conns |-> IF c \in M THEN "closed" ELSE status[c]]
      /\ live' = [c \in Conns |-> IF c \in M THEN None ELSE live[c]]
      /\ anyPool' = [a \in Addrs |-> None] /\ rwPool' = [a \in Addrs |-> None]
      /\ roPool' = [a \in Addrs |-> None]
      /\ state' = state /\ server' = server /\ made' = made /\ pc' = pc /\ conn' = conn
      /\ role' = role /\ newConn' = newConn /\ newRole' = newRole /\ todo' = todo
      /\ faults' = faults
  BY DEF CloseImpl, local, watch
<1>2. \A c \in Conns : c \in M <=> Kept(AddrOf(c)) /\ c = conn[AddrOf(c)]
  <2>1. ASSUME NEW c \in Conns, c \in M PROVE Kept(AddrOf(c)) /\ c = conn[AddrOf(c)]
    <3>1. PICK a \in Addrs : anyPool[a] # None /\ c = anyPool[a]
      BY <2>1 DEF ClosedByClose
    <3>2. Kept(a) /\ c = conn[a]
      BY <1>0, <3>1 DEF CheckerInv, InPools
    <3>3. AddrOf(c) = a
      BY <1>0, <3>1, <3>2 DEF CheckerInv, Numbered
    <3> QED BY <3>2, <3>3
  <2>2. ASSUME NEW c \in Conns, Kept(AddrOf(c)), c = conn[AddrOf(c)] PROVE c \in M
    <3>1. AddrOf(c) \in Addrs
      BY DEF AddrOf, Conns
    <3>2. anyPool[AddrOf(c)] = c /\ c # None
      BY <1>0, <2>2, <3>1 DEF CheckerInv, InPools
    <3> QED BY <3>1, <3>2 DEF ClosedByClose
  <2> QED BY <2>1, <2>2
<1>3. paired'
  <2>1. \A c \in M : live[c] = PoolRole(AddrOf(c))
    <3> TAKE c \in M
    <3>1. c \in Conns
      BY <1>0 DEF ClosedByClose, TypeOK
    <3>2. PICK a \in Addrs : a = AddrOf(c)
      BY <3>1 DEF AddrOf, Conns
    <3>3. Kept(a) /\ c = conn[a] /\ CheckerInv(a) /\ conn[a] # None
      BY <1>0, <1>2, <3>1, <3>2 DEF Kept
    <3>4. pc[a] \notin {"add", "drop"} /\ role[a] \in Roles
      BY <3>3 DEF CheckerInv, Holds, Kept, Resting
    <3>5. live[c] = role[a]
      BY <3>1, <3>2, <3>3, <3>4 DEF CheckerInv, HandlerKnows, Known
    <3>6. PoolRole(a) = role[a]
      BY <3>3, <3>4 DEF CheckerInv, InPools, PoolRole, Roles
    <3> QED BY <3>2, <3>5, <3>6
  <2>2. paired' = (paired /\ \A c \in ClosedByClose : live[c] = PoolRole(AddrOf(c)))
    BY DEF CloseImpl
  <2> QED BY <1>0, <2>1, <2>2, Zenon
<1> HIDE DEF M
<1>4. TypeOK'
  BY <1>0, <1>1 DEF TypeOK
<1>5. Phases'
  BY <1>0, <1>1 DEF Phases
<1>6. ASSUME NEW a \in Addrs PROVE CheckerInv(a)'
  <2>0. CheckerInv(a) /\ ~Kept(a)'
    BY <1>0, <1>1 DEF Kept
  <2>1. \A c \in Conns : AddrOf(c) = a =>
            /\ status'[c] = IF Kept(a) /\ c = conn[a] THEN "closed" ELSE status[c]
            /\ live'[c] = IF Kept(a) /\ c = conn[a] THEN None ELSE live[c]
    BY <1>1, <1>2
  <2>2. Holds(a)'
    <3>1. pc[a] \in {"lost", "closed"} => status'[conn[a]] = "closed"
      BY <1>0, <2>0, <2>1 DEF CheckerInv, Holds, Numbered, Leaving, TypeOK
    <3> QED BY <1>1, <2>0, <3>1 DEF Holds, CheckerInv
  <2>3. Numbered(a)' /\ InPools(a)'
    BY <1>1, <2>0 DEF Numbered, InPools, CheckerInv
  <2>4. HandlerKnows(a)'
    BY <1>1, <2>0, <2>1 DEF HandlerKnows, Known, CheckerInv, Kept, Resting, Leaving
  <2>5. HeldOpen(a)'
    BY <1>1, <2>0, <2>1 DEF HeldOpen, CheckerInv
  <2>6. Paid(a)'
    BY <1>1, <2>0 DEF Paid, CheckerInv
  <2> QED BY <2>2, <2>3, <2>4, <2>5, <2>6 DEF CheckerInv
<1> QED BY <1>3, <1>4, <1>5, <1>6 DEF PoolInv

\* The goroutine of an address.
LEMMA StepChecker ==
    ASSUME PoolInv, NEW a \in Addrs, Checker(a)
    PROVE  PoolInv'
<1>0. server \in [Addrs -> Roles] /\ todo \in [Watchers -> SUBSET Conns] /\ faults \in 0 .. MaxFaults
  BY DEF PoolInv, TypeOK
<1>1. CASE Notified(a)
  <2>1. CASE Removed(a, "closed")
    BY <2>1, StepLeaves
  <2>2. CASE ~Removed(a, "closed")
    BY <1>0, <1>1, <2>2, StepBeside DEF Notified, pools, local, handler, watch
  <2> QED BY <2>1, <2>2
<1>2. CASE CheckerDone(a)
  BY <1>2, StepGoesOn DEF CheckerDone, GoTo, pools, env, local, handler, watch
<1>3. CASE Reconnecting(a)
  BY <1>3, StepLeaves DEF Reconnecting
<1> QED BY <1>1, <1>2, <1>3, StepTry, StepOffer, StepAdd, StepDrop, StepLeaves, StepDeactivated
        DEF Checker

\* The users' watchers of the pool.
LEMMA StepWatcher ==
    ASSUME PoolInv, NEW w \in Watchers, Register(w) \/ WatcherStep(w) \/ UnregisterRemove(w)
    PROVE  PoolInv'
<1>0. /\ TypeOK /\ server \in [Addrs -> Roles] /\ todo \in [Watchers -> SUBSET Conns]
      /\ faults \in 0 .. MaxFaults
  BY DEF PoolInv, TypeOK
<1>1. CASE Register(w) \/ Watching(w) \/ UnregisterRemove(w) \/ UnregisterAll(w)
  BY <1>0, <1>1, StepBeside
  DEF Register, Watching, UnregisterRemove, UnregisterAll, pools, env, local, handler
<1>2. CASE Snapshot(w)
  <2>1. todo' \in [Watchers -> SUBSET Conns]
    BY <1>0, <1>2, MembersTypes DEF Snapshot, SubpoolOf, Put
  <2> QED BY <1>0, <1>2, <2>1, StepBeside DEF Snapshot, pools, env, local, handler
<1>3. CASE WatchOne(w)
  <2>1. PICK c \in todo[w] :
            /\ todo' = Put(todo, w, todo[w] \ {c})
            /\ \/ status' = status /\ faults' = faults
               \/ /\ status' = [status EXCEPT ![c] = "closed"]
                  /\ IF status[c] = "up" THEN Fault ELSE UNCHANGED faults
    BY <1>3 DEF WatchOne, CloseConn, Put
  <2>2. c \in Conns /\ todo' \in [Watchers -> SUBSET Conns]
    BY <1>0, <2>1 DEF Put
  <2>3. /\ pc' = pc /\ made' = made /\ newConn' = newConn /\ newRole' = newRole
        /\ anyPool' = anyPool /\ rwPool' = rwPool /\ roPool' = roPool /\ conn' = conn
        /\ role' = role /\ live' = live /\ paired' = paired /\ done' = done
        /\ state' = state /\ server' = server
    BY <1>3 DEF WatchOne, pools, local, handler
  <2>4. CASE status' = status /\ faults' = faults
    BY <1>0, <2>2, <2>3, <2>4, StepBeside
  <2>5. CASE /\ status' = [status EXCEPT ![c] = "closed"]
             /\ IF status[c] = "up" THEN Fault ELSE UNCHANGED faults
    BY <2>2, <2>3, <2>5, StepStatus DEF Fault
  <2> QED BY <2>1, <2>4, <2>5
<1> QED BY <1>1, <1>2, <1>3 DEF WatcherStep

\* A connection by itself.
LEMMA StepConn ==
    ASSUME PoolInv, NEW c \in Conns, Break(c) \/ Recover(c) \/ GiveUp(c)
    PROVE  PoolInv'
<1>0. todo \in [Watchers -> SUBSET Conns]
  BY DEF PoolInv, TypeOK
<1>1. /\ pc' = pc /\ made' = made /\ newConn' = newConn /\ newRole' = newRole
      /\ anyPool' = anyPool /\ rwPool' = rwPool /\ roPool' = roPool /\ conn' = conn
      /\ role' = role /\ live' = live /\ paired' = paired /\ done' = done
      /\ state' = state /\ server' = server /\ todo' = todo
  BY DEF Break, Recover, GiveUp, pools, local, handler, watch
<1>2. PICK v \in {"up", "down", "closed"} : status' = [status EXCEPT ![c] = v]
  BY DEF Break, Recover, GiveUp, CloseConn, Put
<1>3. /\ status[c] \in {"up", "down"}
      /\ \/ status[c] = "up" /\ faults < MaxFaults /\ faults' = faults + 1
         \/ status[c] # "up" /\ faults' = faults
         \/ status[c] # "up" /\ faults < MaxFaults /\ faults' = faults + 1
  BY DEF Break, Recover, GiveUp, Fault
<1> QED BY <1>0, <1>1, <1>2, <1>3, StepStatus

\* There is no connection at first.
LEMMA InitInv == Init => PoolInv
<1> SUFFICES ASSUME Init PROVE PoolInv
  OBVIOUS
<1>1. TypeOK
  <2>1. /\ anyPool \in [Addrs -> Conns \cup {None}] /\ rwPool \in [Addrs -> Conns \cup {None}]
        /\ roPool \in [Addrs -> Conns \cup {None}] /\ pc \in [Addrs -> PCs]
    BY DEF Init, PCs
  <2>2. /\ conn \in [Addrs -> Conns \cup {None}] /\ newConn \in [Addrs -> Conns \cup {None}]
        /\ role \in [Addrs -> Roles \cup {None}] /\ newRole \in [Addrs -> Roles \cup {None}]
    BY DEF Init
  <2>3. /\ status \in [Conns -> {"none", "up", "down", "closed"}]
        /\ live \in [Conns -> Roles \cup {None}] /\ made \in [Addrs -> Nat]
        /\ faults \in 0 .. MaxFaults
    BY DEF Init
  <2>4. todo \in [Watchers -> SUBSET Conns] /\ server \in [Addrs -> Roles]
    BY DEF Init
  <2> QED BY <2>1, <2>2, <2>3, <2>4 DEF Init, TypeOK
<1>2. Phases /\ paired
  BY DEF Init, Phases
<1>3. ASSUME NEW a \in Addrs PROVE CheckerInv(a)
  BY DEF Init, CheckerInv, Holds, Numbered, InPools, HandlerKnows, Known, HeldOpen, Paid, Kept,
         Offering, Leaving, Resting
<1> QED BY <1>1, <1>2, <1>3 DEF PoolInv

\* Every step preserves the invariant.
LEMMA StepInv == PoolInv /\ [Next]_vars => PoolInv'
<1> SUFFICES ASSUME PoolInv, [Next]_vars PROVE PoolInv'
  OBVIOUS
<1>0. server \in [Addrs -> Roles] /\ todo \in [Watchers -> SUBSET Conns] /\ faults \in 0 .. MaxFaults
  BY DEF PoolInv, TypeOK
<1>1. ASSUME NEW a \in Addrs, FillOne(a) PROVE PoolInv'
  BY <1>1, StepFill
<1>2. ASSUME NEW a \in Addrs, Checker(a) PROVE PoolInv'
  BY <1>2, StepChecker
<1>3. ASSUME NEW a \in Addrs, ChangeRole(a) PROVE PoolInv'
  <2>1. server' \in [Addrs -> Roles] /\ faults' \in 0 .. MaxFaults /\ faults' >= faults
    BY <1>0, <1>3 DEF ChangeRole, Put, Fault
  <2> QED BY <1>0, <1>3, <2>1, StepBeside DEF ChangeRole, pools, local, handler, watch
<1>4. CASE Start
  BY <1>4, StepStart
<1>5. CASE CloseCas
  BY <1>0, <1>5, StepBeside DEF CloseCas, pools, env, local, handler, watch
<1>6. CASE CloseImpl
  BY <1>6, StepClose
<1>7. ASSUME NEW w \in Watchers, Register(w) \/ WatcherStep(w) \/ UnregisterRemove(w)
      PROVE  PoolInv'
  BY <1>7, StepWatcher
<1>8. ASSUME NEW c \in Conns, Break(c) \/ Recover(c) \/ GiveUp(c) PROVE PoolInv'
  BY <1>8, StepConn
<1>9. CASE UNCHANGED vars
  BY <1>0, <1>9, StepBeside DEF vars, pools, env, local, handler, watch
<1> QED BY <1>1, <1>2, <1>3, <1>4, <1>5, <1>6, <1>7, <1>8, <1>9 DEF Next

\* The strengthened invariant holds in every reachable state.
LEMMA PoolInductive == Spec => []PoolInv
BY InitInv, StepInv, PTL DEF Spec

-----------------------------------------------------------------------------
(* What follows from the invariant.                                        *)

\* ConnectionHandler hears of every end of a connection exactly once and with the
\* role it was told at the beginning, and of every end by the time the checkers have
\* ended, for every number of addresses and of faults.
THEOREM HandlersPairedHolds == Spec => []HandlersPaired
<1>1. PoolInv => HandlersPaired
  <2> SUFFICES ASSUME PoolInv PROVE HandlersPaired
    OBVIOUS
  <2>1. ASSUME \A a \in Addrs : pc[a] = "ended", NEW c \in Conns PROVE live[c] = None
    <3>1. AddrOf(c) \in Addrs
      BY DEF AddrOf, Conns
    <3>2. pc[AddrOf(c)] = "ended" /\ CheckerInv(AddrOf(c))
      BY <2>1, <3>1 DEF PoolInv
    <3>3. live[c] = Known(AddrOf(c), c)
      BY <3>2 DEF CheckerInv, HandlerKnows
    <3> QED BY <3>2, <3>3 DEF Known, Kept, Resting, Leaving
  <2> QED BY <2>1 DEF PoolInv, HandlersPaired
<1> QED BY <1>1, PoolInductive, PTL

\* Every open connection belongs to a checker that has not ended, and so no
\* connection is forgotten open and none sends to a closed notify channel.
THEOREM NoLeakedConnectionHolds == Spec => []NoLeakedConnection
<1>1. PoolInv => NoLeakedConnection
  <2> SUFFICES ASSUME PoolInv, NEW c \in Conns, status[c] \in {"up", "down"}
               PROVE  pc[AddrOf(c)] # "ended" /\ c \in {conn[AddrOf(c)], newConn[AddrOf(c)]}
    BY DEF NoLeakedConnection
  <2>1. AddrOf(c) \in Addrs /\ c # None
    BY DEF AddrOf, Conns
  <2>2. CheckerInv(AddrOf(c))
    BY <2>1 DEF PoolInv
  <2>3. \/ c = newConn[AddrOf(c)]
        \/ c = conn[AddrOf(c)] /\ (pc[AddrOf(c)] \in Leaving \/ Kept(AddrOf(c)))
    BY <2>2 DEF CheckerInv, HeldOpen
  <2>4. CASE c = newConn[AddrOf(c)]
    <3>1. pc[AddrOf(c)] \in Offering
      BY <2>1, <2>2, <2>4 DEF CheckerInv, Holds
    <3> QED BY <2>4, <3>1 DEF Offering
  <2>5. CASE c = conn[AddrOf(c)] /\ (pc[AddrOf(c)] \in Leaving \/ Kept(AddrOf(c)))
    BY <2>5 DEF Leaving, Kept, Resting
  <2> QED BY <2>3, <2>4, <2>5
<1> QED BY <1>1, PoolInductive, PTL

\* What a subpool has for an address is the connection its checker keeps, which
\* the handler knows with the role of the subpool.
LEMMA InSubpool ==
    ASSUME PoolInv, NEW a \in Addrs
    PROVE  /\ anyPool[a] # None =>
                /\ anyPool[a] \in Conns /\ AddrOf(anyPool[a]) = a /\ live[anyPool[a]] \in Roles
                /\ GetConnectionFromPool(a) = anyPool[a]
           /\ rwPool[a] # None => rwPool[a] = anyPool[a] /\ live[rwPool[a]] = "Master"
           /\ roPool[a] # None => roPool[a] = anyPool[a] /\ live[roPool[a]] = "Replica"
<1>0. TypeOK /\ CheckerInv(a)
  BY DEF PoolInv
<1>1. CASE Kept(a)
  <2>1. /\ conn[a] \in Conns /\ conn[a] # None /\ AddrOf(conn[a]) = a /\ role[a] \in Roles
        /\ pc[a] \notin {"add", "drop"}
    BY <1>0, <1>1 DEF CheckerInv, Holds, Numbered, Kept, Resting, TypeOK
  <2>2. live[conn[a]] = role[a]
    BY <1>0, <1>1, <2>1 DEF CheckerInv, HandlerKnows, Known
  <2> QED BY <1>0, <1>1, <2>1, <2>2 DEF CheckerInv, InPools, GetConnectionFromPool, Roles
<1>2. CASE ~Kept(a)
  BY <1>0, <1>2 DEF CheckerInv, InPools
<1> QED BY <1>1, <1>2

\* The connections getNextConnection chooses from, by mode.
LEMMA CandidatesByMode ==
    /\ Candidates("ANY") = Members(anyPool)
    /\ Candidates("RW") = Members(rwPool)
    /\ Candidates("RO") = Members(roPool)
    /\ Candidates("PreferRW") =
          IF Members(rwPool) # {} THEN Members(rwPool) ELSE Members(roPool)
    /\ Candidates("PreferRO") =
          IF Members(roPool) # {} THEN Members(roPool) ELSE Members(rwPool)
BY DEF Candidates

\* A request goes to a connection that the handler accepted, with a role its mode
\* allows, and a prepared statement to the connection it was prepared on, for
\* every number of addresses and of faults, while connections move and the pool is
\* being closed.
THEOREM RoutedToDiscoveredHolds == Spec => []RoutedToDiscovered
<1>1. PoolInv => RoutedToDiscovered
  <2> SUFFICES ASSUME PoolInv PROVE RoutedToDiscovered
    OBVIOUS
  <2>1. /\ \A c \in Members(anyPool) : \E a \in Addrs : anyPool[a] # None /\ c = anyPool[a]
        /\ \A c \in Members(rwPool) : \E a \in Addrs : rwPool[a] # None /\ c = rwPool[a]
        /\ \A c \in Members(roPool) : \E a \in Addrs : roPool[a] # None /\ c = roPool[a]
        /\ \A a \in Addrs : anyPool[a] # None => anyPool[a] \in Members(anyPool)
    BY DEF Members
  <2>2. ASSUME NEW c \in Candidates("ANY")
        PROVE  live[c] # None /\ DoConnected(c) = {c} /\ GetConnectionFromPool(AddrOf(c)) = c
    <3>1. PICK a \in Addrs : anyPool[a] # None /\ c = anyPool[a]
      BY <2>1, CandidatesByMode
    <3>2. AddrOf(c) = a /\ live[c] \in Roles /\ GetConnectionFromPool(a) = c
      BY <3>1, InSubpool
    <3> QED BY <3>1, <3>2 DEF DoConnected
  <2>3. /\ Members(rwPool) \subseteq Members(anyPool) /\ \A c \in Members(rwPool) : live[c] = "Master"
        /\ Members(roPool) \subseteq Members(anyPool) /\ \A c \in Members(roPool) : live[c] = "Replica"
    <3>1. ASSUME NEW c \in Members(rwPool) PROVE c \in Members(anyPool) /\ live[c] = "Master"
      BY <2>1, InSubpool
    <3>2. ASSUME NEW c \in Members(roPool) PROVE c \in Members(anyPool) /\ live[c] = "Replica"
      BY <2>1, InSubpool
    <3> QED BY <3>1, <3>2
  <2>4. ASSUME NEW m \in Modes
        PROVE  Candidates(m) \subseteq Candidates("ANY") /\ (ConnectedNow(m) => Candidates(m) # {})
    <3>1. CASE m \in {"ANY", "RW", "RO"}
      BY <2>3, <3>1, CandidatesByMode DEF ConnectedNow
    <3>2. CASE m \in {"PreferRW", "PreferRO"}
      BY <2>3, <3>2, CandidatesByMode DEF ConnectedNow
    <3> QED BY <3>1, <3>2 DEF Modes
  <2>5. GetConnByMode("RW", <<>>) = Members(rwPool)
    BY CandidatesByMode DEF GetConnByMode
  <2>6. ASSUME NEW op \in Writes \ {"upsert"}
        PROVE  /\ SyncMethod(op, <<>>) = Members(rwPool) /\ TypedMethod(op, <<>>) = Members(rwPool)
               /\ AsyncMethod(op, <<>>) = Members(rwPool)
    BY <2>5 DEF SyncMethod, TypedMethod, AsyncMethod, Writes, Calls
  <2>7. ASSUME NEW op \in Calls
        PROVE  /\ AdapterSync("RO", op) = Members(roPool) /\ AdapterTyped("RO", op) = Members(roPool)
               /\ AdapterAsync("RO", op) = Members(roPool)
    BY CandidatesByMode
    DEF AdapterSync, AdapterTyped, AdapterAsync, SyncMethod, TypedMethod, AsyncMethod, Writes, Calls
  <2> QED BY <2>2, <2>3, <2>4, <2>6, <2>7 DEF RoutedToDiscovered
<1> QED BY <1>1, PoolInductive, PTL

-----------------------------------------------------------------------------
(* The watchers.                                                           *)

WatcherPCs == {"new", "snapshot", "watching", "registered", "removed", "unregistered"}

\* Where NewWatcher and Unregister leave the watcher in the container.
Contained == {"snapshot", "watching", "registered"}

WatchTypes ==
    /\ container \in Seq(Watchers) /\ wpc \in [Watchers -> WatcherPCs]
    /\ watchers \in [Watchers -> [Addrs -> Conns \cup {None}]]
    /\ active \subseteq Watchers \X Conns

\* The container has every watcher between add and remove, once, and none
\* before the pool is open.
Listed ==
    /\ \A i, j \in DOMAIN container : container[i] = container[j] => i = j
    /\ ToSet(container) = {w \in Watchers : wpc[w] \in Contained}
    /\ state = "unknown" => \A w \in Watchers : wpc[w] = "new"

\* A connection has a status as soon as it is made, and whatever a watcher knows
\* of was made.
Made == \A c \in Conns : status[c] = "none" <=> c[2] > made[AddrOf(c)]

KnowsMade ==
    /\ \A w \in Watchers, a \in Addrs :
          watchers[w][a] # None => AddrOf(watchers[w][a]) = a /\ watchers[w][a][2] <= made[a]
    /\ \A w \in Watchers : \A c \in todo[w] : c[2] <= made[AddrOf(c)]

\* What the subpool of the watcher's mode has for an address.
SubpoolAt(w, a) == SubpoolOf(ModeOf[w])[a]

\* The entry of w for the address is for c, or for a connection that is closed.
Covered(w, a, c) ==
    \/ watchers[w][a] = c
    \/ watchers[w][a] # None /\ status[watchers[w][a]] = "closed"

\* NewWatcher and addConnection see to it together that no open connection of
\* the watcher's subpool is missed: what addConnection did not watch because it
\* came before the container's add is in the snapshot.
Misses(w, a, c) ==
    /\ SubpoolAt(w, a) = c /\ status[c] # "closed" /\ wpc[w] \in {"watching", "registered"}
    /\ ~Covered(w, a, c) /\ ~(wpc[w] = "watching" /\ c \in todo[w])

NothingMissed == \A w \in Watchers, a \in Addrs, c \in Conns : ~Misses(w, a, c)

WatcherInv ==
    WatchTypes /\ Listed /\ Made /\ KnowsMade /\ NothingMissed /\ NoOrphanWatcher

\* The subpool of a mode at an address is one of the three, and follows the role
\* as Suits does.
LEMMA SubpoolByMode ==
    ASSUME NEW w \in Watchers, NEW a
    PROVE  \/ /\ SubpoolAt(w, a) = anyPool[a] /\ SubpoolAt(w, a)' = anyPool'[a]
              /\ \A r : Suits(w, r)
           \/ /\ SubpoolAt(w, a) = rwPool[a] /\ SubpoolAt(w, a)' = rwPool'[a]
              /\ \A r : Suits(w, r) <=> r = "Master"
           \/ /\ SubpoolAt(w, a) = roPool[a] /\ SubpoolAt(w, a)' = roPool'[a]
              /\ \A r : Suits(w, r) <=> r = "Replica"
<1>1. CASE ModeOf[w] = "RW"
  BY <1>1 DEF SubpoolAt, SubpoolOf, Suits
<1>2. CASE ModeOf[w] = "RO"
  BY <1>2 DEF SubpoolAt, SubpoolOf, Suits
<1>3. CASE ModeOf[w] \notin {"RW", "RO"}
  BY <1>3 DEF SubpoolAt, SubpoolOf, Suits
<1> QED BY <1>1, <1>2, <1>3

\* An open connection is the one its checker holds.
LEMMA OpenIsHeld ==
    ASSUME PoolInv, NEW c \in Conns, status[c] \notin {"none", "closed"}
    PROVE  LET a == AddrOf(c) IN
           /\ a \in Addrs
           /\ \/ c = newConn[a] /\ pc[a] \in Offering
              \/ c = conn[a]
<1>1. AddrOf(c) \in Addrs /\ c # None
  BY DEF AddrOf, Conns
<1>2. CheckerInv(AddrOf(c)) /\ status[c] \in {"up", "down"}
  BY <1>1 DEF PoolInv, TypeOK
<1> QED BY <1>1, <1>2 DEF CheckerInv, HeldOpen, Holds

\* Steps that the watchers do not notice: no connection comes into a subpool, and
\* what is closed stays closed.
LEMMA WatchBeside ==
    ASSUME PoolInv, WatcherInv, Made',
           container' = container, wpc' = wpc, todo' = todo, watchers' = watchers,
           active' = active, state' = "unknown" => state = "unknown",
           \A a \in Addrs : made'[a] \in Nat /\ made[a] \in Nat /\ made'[a] >= made[a],
           \/ state = "unknown"
           \/ \A a \in Addrs : /\ anyPool'[a] \in {anyPool[a], None}
                               /\ rwPool'[a] \in {rwPool[a], None}
                               /\ roPool'[a] \in {roPool[a], None},
           \A c \in Conns : status[c] = "closed" => status'[c] = "closed"
    PROVE  WatcherInv'
<1>0. TypeOK /\ WatchTypes /\ Listed /\ Made /\ KnowsMade /\ NothingMissed /\ NoOrphanWatcher
  BY DEF WatcherInv, PoolInv
<1>1. WatchTypes' /\ Listed'
  BY <1>0 DEF WatchTypes, Listed
<1>2. KnowsMade'
  <2>1. ASSUME NEW w \in Watchers, NEW a \in Addrs, watchers[w][a] # None
        PROVE  AddrOf(watchers[w][a]) = a /\ watchers[w][a][2] <= made'[a]
    <3>1. watchers[w][a] \in Conns /\ watchers[w][a][2] <= made[a] /\ AddrOf(watchers[w][a]) = a
      BY <1>0, <2>1 DEF KnowsMade, WatchTypes
    <3>2. watchers[w][a][2] \in Int
      BY <3>1 DEF Conns
    <3> QED BY <3>1, <3>2
  <2>2. ASSUME NEW w \in Watchers, NEW c \in todo[w] PROVE c[2] <= made'[AddrOf(c)]
    <3>1. c \in Conns /\ c[2] <= made[AddrOf(c)]
      BY <1>0 DEF KnowsMade, TypeOK
    <3>2. c[2] \in Int /\ AddrOf(c) \in Addrs
      BY <3>1 DEF Conns, AddrOf
    <3> QED BY <3>1, <3>2
  <2> QED BY <2>1, <2>2 DEF KnowsMade
<1>3. NothingMissed'
  <2> SUFFICES ASSUME NEW w \in Watchers, NEW a \in Addrs, NEW c \in Conns, Misses(w, a, c)'
               PROVE  FALSE
    BY DEF NothingMissed
  <2>1. /\ SubpoolAt(w, a)' = c /\ status'[c] # "closed" /\ wpc[w] \in {"watching", "registered"}
        /\ ~Covered(w, a, c)' /\ ~(wpc[w] = "watching" /\ c \in todo[w])
    BY DEF Misses
  <2>2. state # "unknown"
    BY <1>0, <2>1 DEF Listed
  <2>3. SubpoolAt(w, a) = c
    BY <2>1, <2>2, SubpoolByMode
  <2>4. ~Covered(w, a, c)
    <3>1. watchers[w][a] \in Conns \cup {None}
      BY <1>0 DEF WatchTypes
    <3> QED BY <2>1, <3>1 DEF Covered
  <2> QED BY <1>0, <2>1, <2>3, <2>4 DEF NothingMissed, Misses
<1>4. NoOrphanWatcher'
  BY <1>0 DEF NoOrphanWatcher
<1> QED BY <1>1, <1>2, <1>3, <1>4 DEF WatcherInv

-----------------------------------------------------------------------------
(* What happens to the connections.                                        *)

\* A connection is made.
LEMMA MadeNew ==
    ASSUME PoolInv, Made, NEW a \in Addrs, made[a] <= MaxFaults, NEW v \in {"up", "closed"},
           made' = [made EXCEPT ![a] = made[a] + 1], status' = [status EXCEPT ![NewConn(a)] = v]
    PROVE  /\ Made'
           /\ \A b \in Addrs : made'[b] \in Nat /\ made[b] \in Nat /\ made'[b] >= made[b]
           /\ \A c \in Conns : status[c] = "closed" => status'[c] = "closed"
<1>0. TypeOK /\ made[a] \in Nat
  BY DEF PoolInv, TypeOK
<1>1. NewConn(a) \in Conns /\ AddrOf(NewConn(a)) = a /\ NewConn(a)[2] = made[a] + 1
  BY <1>0, NewConnFacts
<1>2. \A b \in Addrs : made'[b] = IF b = a THEN made[a] + 1 ELSE made[b]
  BY <1>0 DEF TypeOK
<1>3. \A c \in Conns : status'[c] = IF c = NewConn(a) THEN v ELSE status[c]
  BY <1>0 DEF TypeOK
<1>4. status[NewConn(a)] = "none"
  BY <1>0, <1>1 DEF Made
<1>5. ASSUME NEW c \in Conns PROVE status'[c] = "none" <=> c[2] > made'[AddrOf(c)]
  <2>0. c = <<AddrOf(c), c[2]>> /\ c[2] \in Int /\ AddrOf(c) \in Addrs /\ made[AddrOf(c)] \in Nat
    BY <1>0 DEF Conns, AddrOf, TypeOK
  <2>1. CASE c = NewConn(a)
    BY <1>0, <1>1, <1>2, <1>3, <2>1
  <2>2. CASE c # NewConn(a) /\ AddrOf(c) = a
    <3>1. c[2] # made[a] + 1
      BY <2>0, <2>2 DEF NewConn
    <3> QED BY <1>0, <1>2, <1>3, <2>0, <2>2, <3>1 DEF Made
  <2>3. CASE AddrOf(c) # a
    BY <1>1, <1>2, <1>3, <2>0, <2>3 DEF Made
  <2> QED BY <2>1, <2>2, <2>3
<1>6. \A b \in Addrs : made'[b] \in Nat /\ made[b] \in Nat /\ made'[b] >= made[b]
  BY <1>0, <1>2 DEF TypeOK
<1> QED BY <1>3, <1>4, <1>5, <1>6 DEF Made

\* The status of connections that were made changes, and none is reopened.
LEMMA MadeKept ==
    ASSUME PoolInv, Made, made' = made,
           \A c \in Conns : \/ status'[c] = status[c]
                            \/ status[c] # "none" /\ status'[c] # "none"
                               /\ (status[c] = "closed" => status'[c] = "closed")
    PROVE  /\ Made'
           /\ \A b \in Addrs : made'[b] \in Nat /\ made[b] \in Nat /\ made'[b] >= made[b]
           /\ \A c \in Conns : status[c] = "closed" => status'[c] = "closed"
<1>1. made \in [Addrs -> Nat]
  BY DEF PoolInv, TypeOK
<1> QED BY <1>1 DEF Made

\* What the checker of an address holds, and what is in the subpools, was made.
LEMMA HeldWasMade ==
    ASSUME PoolInv, Made, NEW a \in Addrs
    PROVE  /\ \A c \in {conn[a], newConn[a]} : c # None => c \in Conns /\ status[c] # "none"
           /\ anyPool[a] \in {conn[a], None}
<1>0. TypeOK /\ CheckerInv(a)
  BY DEF PoolInv
<1>1. ASSUME NEW c \in {conn[a], newConn[a]}, c # None PROVE c \in Conns /\ status[c] # "none"
  <2>1. c \in Conns /\ AddrOf(c) = a /\ c[2] <= made[a]
    BY <1>0, <1>1 DEF CheckerInv, Numbered, TypeOK
  <2>2. c[2] \in Int /\ made[a] \in Nat
    BY <1>0, <2>1 DEF Conns, TypeOK
  <2> QED BY <2>1, <2>2 DEF Made
<1>2. anyPool[a] \in {conn[a], None}
  BY <1>0 DEF CheckerInv, InPools
<1> QED BY <1>1, <1>2

\* There is room for the connection that a checker makes.
LEMMA RoomForNew ==
    ASSUME PoolInv, NEW a \in Addrs,
           \/ pc[a] = "fill"
           \/ state = "connected" /\ (pc[a] = "try" \/ (pc[a] = "idle" /\ conn[a] = None))
    PROVE  made[a] <= MaxFaults
<1>0. TypeOK /\ Phases /\ CheckerInv(a)
  BY DEF PoolInv
<1>1. CASE pc[a] = "fill"
  BY <1>0, <1>1 DEF CheckerInv, Paid
<1>2. CASE state = "connected" /\ (pc[a] = "try" \/ (pc[a] = "idle" /\ conn[a] = None))
  <2>1. conn[a] = None /\ newConn[a] = None
    BY <1>0, <1>2 DEF CheckerInv, Holds, Offering
  <2>2. made[a] <= faults
    BY <1>0, <1>2, <2>1 DEF CheckerInv, Paid, StillUp
  <2> QED BY <1>0, <2>2 DEF TypeOK
<1> QED BY <1>1, <1>2

\* fillPools and tryConnect make a connection or do not.
LEMMA WatchNew ==
    ASSUME PoolInv, WatcherInv, NEW a \in Addrs, FillOne(a) \/ TryConnect(a)
    PROVE  WatcherInv'
<1>0. TypeOK /\ Made
  BY DEF PoolInv, WatcherInv
<1>1. /\ container' = container /\ wpc' = wpc /\ todo' = todo /\ watchers' = watchers
      /\ active' = active /\ state' = state
  BY DEF FillOne, TryConnect, watch
<1>2. \/ state = "unknown"
      \/ anyPool' = anyPool /\ rwPool' = rwPool /\ roPool' = roPool
  BY DEF FillOne, TryConnect, pools
<1>3. /\ Made'
      /\ \A b \in Addrs : made'[b] \in Nat /\ made[b] \in Nat /\ made'[b] >= made[b]
      /\ \A c \in Conns : status[c] = "closed" => status'[c] = "closed"
  <2>1. CASE made' = made /\ status' = status
    BY <1>0, <2>1, MadeKept
  <2>2. ASSUME NEW v \in {"up", "closed"}, made' = Put(made, a, made[a] + 1),
               status' = Put(status, NewConn(a), v)
        PROVE  made[a] <= MaxFaults
    <3>1. CASE FillOne(a)
      BY <3>1, RoomForNew DEF FillOne
    <3>2. CASE TryConnect(a)
      <4>1. made[a] \in Nat
        BY <1>0 DEF TypeOK
      <4>2. made' # made
        BY <1>0, <2>2, <4>1 DEF TypeOK, Put
      <4>3. state = "connected"
        BY <3>2, <4>2 DEF TryConnect
      <4> QED BY <3>2, <4>3, RoomForNew DEF TryConnect
    <3> QED BY <3>1, <3>2
  <2>3. ASSUME NEW v \in {"up", "closed"}, made' = Put(made, a, made[a] + 1),
               status' = Put(status, NewConn(a), v)
        PROVE  /\ Made'
               /\ \A b \in Addrs : made'[b] \in Nat /\ made[b] \in Nat /\ made'[b] >= made[b]
               /\ \A c \in Conns : status[c] = "closed" => status'[c] = "closed"
    BY <1>0, <2>2, <2>3, MadeNew DEF Put
  <2> QED BY <2>1, <2>3 DEF FillOne, TryConnect
<1> QED BY <1>1, <1>2, <1>3, WatchBeside

\* Steps that close, break or reopen a connection that was made, or none.
LEMMA WatchStatus ==
    ASSUME PoolInv, WatcherInv, made' = made, state' = "unknown" => state = "unknown",
           container' = container, wpc' = wpc, todo' = todo, watchers' = watchers,
           active' = active,
           \A a \in Addrs : /\ anyPool'[a] \in {anyPool[a], None}
                            /\ rwPool'[a] \in {rwPool[a], None}
                            /\ roPool'[a] \in {roPool[a], None},
           \A c \in Conns : \/ status'[c] = status[c]
                            \/ status[c] # "none" /\ status'[c] # "none"
                               /\ (status[c] = "closed" => status'[c] = "closed")
    PROVE  WatcherInv'
<1>1. Made
  BY DEF WatcherInv
<1>2. /\ Made'
      /\ \A b \in Addrs : made'[b] \in Nat /\ made[b] \in Nat /\ made'[b] >= made[b]
      /\ \A c \in Conns : status[c] = "closed" => status'[c] = "closed"
  BY <1>1, MadeKept
<1> QED BY <1>2, WatchBeside

\* The connections by themselves.
LEMMA WatchConn ==
    ASSUME PoolInv, WatcherInv, NEW c \in Conns, Break(c) \/ Recover(c) \/ GiveUp(c)
    PROVE  WatcherInv'
<1>0. TypeOK
  BY DEF PoolInv
<1>1. PICK v \in {"up", "down", "closed"} : status' = [status EXCEPT ![c] = v]
  BY DEF Break, Recover, GiveUp, CloseConn, Put
<1>2. status[c] \in {"up", "down"}
  BY DEF Break, Recover, GiveUp
<1>3. \A d \in Conns : \/ status'[d] = status[d]
                       \/ status[d] # "none" /\ status'[d] # "none"
                          /\ (status[d] = "closed" => status'[d] = "closed")
  BY <1>0, <1>1, <1>2 DEF TypeOK
<1>4. /\ made' = made /\ state' = state /\ anyPool' = anyPool /\ rwPool' = rwPool
      /\ roPool' = roPool /\ container' = container /\ wpc' = wpc /\ todo' = todo
      /\ watchers' = watchers /\ active' = active
  BY DEF Break, Recover, GiveUp, pools, watch
<1> QED BY <1>3, <1>4, WatchStatus

\* closeImpl closes what is in the pool.
LEMMA WatchClose ==
    ASSUME PoolInv, WatcherInv, CloseImpl
    PROVE  WatcherInv'
<1>0. TypeOK /\ Made
  BY DEF PoolInv, WatcherInv
<1>1. ASSUME NEW c \in Conns
      PROVE  \/ status'[c] = status[c]
             \/ status[c] # "none" /\ status'[c] # "none"
                /\ (status[c] = "closed" => status'[c] = "closed")
  <2>1. CASE c \in ClosedByClose
    <3>1. PICK a \in Addrs : anyPool[a] # None /\ c = anyPool[a]
      BY <2>1 DEF ClosedByClose
    <3>2. status[c] # "none"
      BY <1>0, <3>1, HeldWasMade
    <3> QED BY <2>1, <3>2 DEF CloseImpl
  <2>2. CASE c \notin ClosedByClose
    BY <2>2 DEF CloseImpl
  <2> QED BY <2>1, <2>2
<1>2. \A a \in Addrs : anyPool'[a] = None /\ rwPool'[a] = None /\ roPool'[a] = None
  BY DEF CloseImpl
<1>3. /\ made' = made /\ state' = state /\ container' = container /\ wpc' = wpc
      /\ todo' = todo /\ watchers' = watchers /\ active' = active
  BY DEF CloseImpl, watch
<1> QED BY <1>1, <1>2, <1>3, WatchStatus

\* tryConnect and updateConnection close a connection they do not keep.
LEMMA WatchDrop ==
    ASSUME PoolInv, WatcherInv, NEW a \in Addrs, Drop(a)
    PROVE  WatcherInv'
<1>0. TypeOK /\ Made /\ CheckerInv(a)
  BY DEF PoolInv, WatcherInv
<1>1. newConn[a] # None
  BY <1>0 DEF Drop, CheckerInv, Holds, Offering
<1>2. newConn[a] \in Conns /\ status[newConn[a]] # "none"
  BY <1>0, <1>1, HeldWasMade
<1>3. \A d \in Conns : \/ status'[d] = status[d]
                       \/ status[d] # "none" /\ status'[d] # "none"
                          /\ (status[d] = "closed" => status'[d] = "closed")
  <2>1. status' = [status EXCEPT ![newConn[a]] = "closed"]
    BY DEF Drop, DropClose, CloseConn, Put
  <2> QED BY <1>0, <1>2, <2>1 DEF TypeOK
<1>4. /\ made' = made /\ state' = state /\ anyPool' = anyPool /\ rwPool' = rwPool
      /\ roPool' = roPool /\ container' = container /\ wpc' = wpc /\ todo' = todo
      /\ watchers' = watchers /\ active' = active
  BY DEF Drop, pools, watch
<1> QED BY <1>3, <1>4, WatchStatus

-----------------------------------------------------------------------------
(* What the pool does to its watchers.                                     *)

\* The subpools have nothing for an address any more, and some watchers have
\* ended their watchers of the connection they knew there.
LEMMA WatchEnded ==
    ASSUME PoolInv, WatcherInv, NEW a \in Addrs, NEW ws \in SUBSET Watchers, Unwatch(ws, a),
           container' = container, wpc' = wpc, todo' = todo, state' = state, made' = made,
           status' = status,
           anyPool'[a] = None, rwPool'[a] = None, roPool'[a] = None,
           \A b \in Addrs \ {a} : /\ anyPool'[b] = anyPool[b]
                                  /\ rwPool'[b] = rwPool[b] /\ roPool'[b] = roPool[b]
    PROVE  WatcherInv'
<1>0. TypeOK /\ WatchTypes /\ Listed /\ Made /\ KnowsMade /\ NothingMissed /\ NoOrphanWatcher
  BY DEF WatcherInv, PoolInv
<1>1. /\ watchers' \in [Watchers -> [Addrs -> Conns \cup {None}]]
      /\ \A w \in Watchers, b \in Addrs :
            watchers'[w][b] = IF w \in ws /\ b = a THEN None ELSE watchers[w][b]
  BY <1>0 DEF WatchTypes, Unwatch, Put
<1>2. /\ active' \subseteq active
      /\ \A w \in ws : <<w, watchers[w][a]>> \notin active'
  BY DEF Unwatch
<1>3. WatchTypes' /\ Listed' /\ Made'
  BY <1>0, <1>1, <1>2 DEF WatchTypes, Listed, Made
<1>4. KnowsMade'
  BY <1>0, <1>1 DEF KnowsMade
<1>5. NothingMissed'
  <2> SUFFICES ASSUME NEW w \in Watchers, NEW b \in Addrs, NEW c \in Conns, Misses(w, b, c)'
               PROVE  FALSE
    BY DEF NothingMissed
  <2>1. SubpoolAt(w, b)' = c
    BY DEF Misses
  <2>2. b # a /\ SubpoolAt(w, b) = c
    BY <2>1, SubpoolByMode
  <2>3. watchers'[w][b] = watchers[w][b]
    BY <1>1, <2>2
  <2> QED BY <1>0, <2>2, <2>3 DEF NothingMissed, Misses, Covered
<1>6. NoOrphanWatcher'
  <2> SUFFICES ASSUME NEW w \in Watchers, NEW c \in Conns, <<w, c>> \in active',
                      status[c] # "closed"
               PROVE  wpc[w] # "unregistered" /\ watchers'[w][AddrOf(c)] = c
    BY DEF NoOrphanWatcher
  <2>1. wpc[w] # "unregistered" /\ watchers[w][AddrOf(c)] = c /\ AddrOf(c) \in Addrs
    BY <1>0, <1>2 DEF NoOrphanWatcher, Conns, AddrOf
  <2>2. ~(w \in ws /\ AddrOf(c) = a)
    BY <1>2, <2>1
  <2> QED BY <1>1, <2>1, <2>2
<1> QED BY <1>3, <1>4, <1>5, <1>6 DEF WatcherInv

\* deleteConnection.
LEMMA WatchDeleted ==
    ASSUME PoolInv, WatcherInv, NEW a \in Addrs, DeleteConnection(a), state' = state,
           made' = made, status' = status
    PROVE  WatcherInv'
<1>0. TypeOK /\ WatchTypes /\ Listed
  BY DEF PoolInv, WatcherInv
<1>1. CASE anyPool[a] = None
  BY <1>1, WatchStatus DEF DeleteConnection, pools, watch
<1>2. CASE anyPool[a] # None
  <2>1. /\ RemoveFromPools(a) /\ Unwatch(ToSet(container), a)
        /\ container' = container /\ wpc' = wpc /\ todo' = todo
    BY <1>2 DEF DeleteConnection
  <2>2. /\ anyPool'[a] = None /\ rwPool'[a] = None /\ roPool'[a] = None
        /\ \A b \in Addrs \ {a} : /\ anyPool'[b] = anyPool[b]
                                  /\ rwPool'[b] = rwPool[b] /\ roPool'[b] = roPool[b]
    BY <1>0, <2>1 DEF RemoveFromPools, Put, TypeOK
  <2>3. ToSet(container) \in SUBSET Watchers
    BY <1>0 DEF Listed
  <2> QED BY <2>1, <2>2, <2>3, WatchEnded
<1> QED BY <1>1, <1>2

\* addConnection when every watcher that the role suits watches the connection.
LEMMA WatchAdded ==
    ASSUME PoolInv, WatcherInv, NEW a \in Addrs, pc[a] = "add",
           NEW ws \in SUBSET Watchers,
           \A w \in Watchers : w \in ws <=> wpc[w] \in Contained /\ Suits(w, newRole[a]),
           WatchAll(ws, newConn[a]), AddToPools(a, newConn[a], newRole[a]),
           container' = container, wpc' = wpc, todo' = todo, state' = state, made' = made,
           status' = status
    PROVE  WatcherInv'
<1>0. /\ TypeOK /\ WatchTypes /\ Listed /\ Made /\ KnowsMade /\ NothingMissed /\ NoOrphanWatcher
      /\ CheckerInv(a)
  BY DEF WatcherInv, PoolInv
<1> DEFINE n == newConn[a]
<1>1. n \in Conns /\ n # None /\ AddrOf(n) = a /\ n[2] <= made[a] /\ newRole[a] \in Roles
  BY <1>0 DEF CheckerInv, Holds, Numbered, Offering, TypeOK
<1>2. conn[a] = None /\ anyPool[a] = None /\ rwPool[a] = None /\ roPool[a] = None
  BY <1>0 DEF CheckerInv, Holds, InPools, Kept, Offering, Resting
<1>3. /\ watchers' \in [Watchers -> [Addrs -> Conns \cup {None}]]
      /\ \A w \in Watchers, b \in Addrs :
            watchers'[w][b] = IF w \in ws /\ b = a /\ watchers[w][a] = None THEN n
                              ELSE watchers[w][b]
  BY <1>0, <1>1 DEF WatchTypes, WatchAll, Put
<1>4. /\ active \subseteq active' /\ active' \subseteq Watchers \X Conns
      /\ \A w \in Watchers, c \in Conns : <<w, c>> \in active' =>
            <<w, c>> \in active \/ (c = n /\ w \in ws /\ watchers[w][a] = None)
  BY <1>0, <1>1 DEF WatchTypes, WatchAll
<1>5. /\ anyPool'[a] = n
      /\ rwPool'[a] = IF newRole[a] = "Master" THEN n ELSE None
      /\ roPool'[a] = IF newRole[a] = "Replica" THEN n ELSE None
      /\ \A b \in Addrs \ {a} : /\ anyPool'[b] = anyPool[b]
                                /\ rwPool'[b] = rwPool[b] /\ roPool'[b] = roPool[b]
  BY <1>0, <1>2 DEF AddToPools, Put, TypeOK
<1> HIDE DEF n
<1>6. WatchTypes' /\ Listed' /\ Made'
  BY <1>0, <1>3, <1>4 DEF WatchTypes, Listed, Made
<1>7. KnowsMade'
  BY <1>0, <1>1, <1>3 DEF KnowsMade
<1>8. NothingMissed'
  <2> SUFFICES ASSUME NEW w \in Watchers, NEW b \in Addrs, NEW c \in Conns, Misses(w, b, c)'
               PROVE  FALSE
    BY DEF NothingMissed
  <2>1. /\ SubpoolAt(w, b)' = c /\ wpc[w] \in Contained /\ ~Covered(w, b, c)'
        /\ status[c] # "closed"
    BY DEF Misses, Contained
  <2>2. CASE b # a
    <3>1. SubpoolAt(w, b) = c /\ watchers'[w][b] = watchers[w][b]
      BY <1>3, <1>5, <2>1, <2>2, SubpoolByMode
    <3> QED BY <1>0, <3>1 DEF NothingMissed, Misses, Covered
  <2>3. CASE b = a
    <3>1. c = n /\ Suits(w, newRole[a])
      BY <1>5, <2>1, <2>3, SubpoolByMode
    <3>2. w \in ws
      BY <2>1, <3>1
    <3>3. watchers[w][a] # None
      BY <1>3, <2>1, <2>3, <3>1, <3>2 DEF Covered
    <3>4. watchers[w][a] \in Conns /\ watchers'[w][a] = watchers[w][a] /\ watchers[w][a] # n
      BY <1>0, <1>3, <2>1, <2>3, <3>1, <3>3 DEF Covered, WatchTypes
    <3>5. status[watchers[w][a]] # "closed"
      BY <2>1, <2>3, <3>3, <3>4 DEF Covered
    <3>6. status[watchers[w][a]] # "none" /\ AddrOf(watchers[w][a]) = a
      <4>1. watchers[w][a][2] <= made[a] /\ AddrOf(watchers[w][a]) = a
        BY <1>0, <3>3 DEF KnowsMade
      <4>2. watchers[w][a][2] \in Int /\ made[a] \in Nat
        BY <1>0, <3>4 DEF Conns, TypeOK
      <4> QED BY <1>0, <3>4, <4>1, <4>2 DEF Made
    <3>7. watchers[w][a] \in {n, None}
      BY <1>2, <3>4, <3>5, <3>6, OpenIsHeld DEF n
    <3> QED BY <3>3, <3>4, <3>7
  <2> QED BY <2>2, <2>3
<1>9. NoOrphanWatcher'
  <2> SUFFICES ASSUME NEW w \in Watchers, NEW c \in Conns, <<w, c>> \in active',
                      status[c] # "closed"
               PROVE  wpc[w] # "unregistered" /\ watchers'[w][AddrOf(c)] = c
    BY DEF NoOrphanWatcher
  <2>1. CASE <<w, c>> \in active
    <3>1. wpc[w] # "unregistered" /\ watchers[w][AddrOf(c)] = c /\ AddrOf(c) \in Addrs /\ c # None
      BY <1>0, <2>1 DEF NoOrphanWatcher, Conns, AddrOf
    <3> QED BY <1>3, <3>1
  <2>2. CASE c = n /\ w \in ws /\ watchers[w][a] = None
    BY <1>1, <1>3, <2>2 DEF Contained
  <2> QED BY <1>4, <2>1, <2>2
<1> QED BY <1>6, <1>7, <1>8, <1>9 DEF WatcherInv

\* The second critical section of tryConnect and updateConnection.
LEMMA WatchAdd ==
    ASSUME PoolInv, WatcherInv, NEW a \in Addrs, Add(a)
    PROVE  WatcherInv'
<1>0. TypeOK /\ WatchTypes /\ Listed /\ CheckerInv(a) /\ pc[a] = "add"
  BY DEF PoolInv, WatcherInv, Add
<1>1. made' = made /\ status' = status /\ state' = state
  BY DEF Add, env
<1> DEFINE suited == {i \in DOMAIN container : Suits(container[i], newRole[a])}
<1>2. /\ \A i \in DOMAIN container : container[i] \in Watchers /\ wpc[container[i]] \in Contained
      /\ \A w \in Watchers : wpc[w] \in Contained => \E i \in DOMAIN container : container[i] = w
  BY <1>0 DEF Listed, ToSet
<1>3. CASE AddConnection(a, newConn[a], newRole[a], TRUE)
  <2>1. /\ WatchAll({container[i] : i \in suited}, newConn[a])
        /\ AddToPools(a, newConn[a], newRole[a])
        /\ container' = container /\ wpc' = wpc /\ todo' = todo
    BY <1>3 DEF AddConnection
  <2> DEFINE ws == {container[i] : i \in suited}
  <2>2. /\ ws \in SUBSET Watchers
        /\ \A w \in Watchers : w \in ws <=> wpc[w] \in Contained /\ Suits(w, newRole[a])
    BY <1>2
  <2> HIDE DEF ws
  <2>3. WatchAll(ws, newConn[a])
    BY <2>1 DEF ws
  <2> QED BY <1>0, <1>1, <2>1, <2>2, <2>3, WatchAdded
<1>4. CASE AddConnection(a, newConn[a], newRole[a], FALSE)
  <2>1. PICK ws \in SUBSET Watchers : Unwatch(ws, a)
    <3>1. PICK i \in DOMAIN container :
              Unwatch({container[j] : j \in {k \in suited : k < i}}, a)
      BY <1>4 DEF AddConnection
    <3>2. {container[j] : j \in {k \in suited : k < i}} \in SUBSET Watchers
      BY <1>2
    <3> QED BY <3>1, <3>2
  <2>2. /\ container' = container /\ wpc' = wpc /\ todo' = todo
        /\ anyPool' = anyPool /\ rwPool' = rwPool /\ roPool' = roPool
    BY <1>4 DEF AddConnection, pools
  <2>3. anyPool[a] = None /\ rwPool[a] = None /\ roPool[a] = None
    BY <1>0 DEF CheckerInv, InPools, Kept, Resting
  <2> QED BY <1>1, <2>1, <2>2, <2>3, WatchEnded
<1>5. CASE UNCHANGED <<pools, watch>>
  BY <1>1, <1>5, WatchStatus DEF pools, watch
<1> QED BY <1>3, <1>4, <1>5 DEF Add

-----------------------------------------------------------------------------
(* NewWatcher and Unregister.                                              *)

\* A step of one watcher that leaves the others, the subpools and the entries of
\* the watchers alone.
LEMMA WatchOwnStep ==
    ASSUME PoolInv, WatcherInv, NEW w \in Watchers, NEW l \in WatcherPCs,
           wpc' = [wpc EXCEPT ![w] = l],
           \A v \in Watchers : v # w => todo'[v] = todo[v],
           todo' \in [Watchers -> SUBSET Conns],
           state' = state, made' = made, status' = status, watchers' = watchers,
           anyPool' = anyPool, rwPool' = rwPool, roPool' = roPool,
           active' \subseteq active, l # "unregistered", Listed',
           container' \in Seq(Watchers), \A c \in todo'[w] : c[2] <= made[AddrOf(c)],
           \A a \in Addrs, c \in Conns : ~Misses(w, a, c)'
    PROVE  WatcherInv'
<1>0. TypeOK /\ WatchTypes /\ Listed /\ Made /\ KnowsMade /\ NothingMissed /\ NoOrphanWatcher
  BY DEF WatcherInv, PoolInv
<1>1. wpc' \in [Watchers -> WatcherPCs] /\ wpc'[w] = l /\ \A v \in Watchers : v # w => wpc'[v] = wpc[v]
  BY <1>0 DEF WatchTypes
<1>2. WatchTypes' /\ Made'
  BY <1>0, <1>1 DEF WatchTypes, Made
<1>3. KnowsMade'
  BY <1>0 DEF KnowsMade
<1>4. NothingMissed'
  <2> SUFFICES ASSUME NEW v \in Watchers, NEW b \in Addrs, NEW c \in Conns, Misses(v, b, c)'
               PROVE  FALSE
    BY DEF NothingMissed
  <2>1. v # w
    OBVIOUS
  <2>2. SubpoolAt(v, b) = c
    BY SubpoolByMode DEF Misses
  <2> QED BY <1>0, <1>1, <2>1, <2>2 DEF NothingMissed, Misses, Covered
<1>5. NoOrphanWatcher'
  BY <1>0, <1>1 DEF NoOrphanWatcher
<1> QED BY <1>2, <1>3, <1>4, <1>5 DEF WatcherInv

\* NewWatcher puts the watcher into the container.
LEMMA WatchRegister ==
    ASSUME PoolInv, WatcherInv, NEW w \in Watchers, Register(w)
    PROVE  WatcherInv'
<1>0. TypeOK /\ WatchTypes /\ Listed /\ KnowsMade
  BY DEF PoolInv, WatcherInv
<1>1. /\ wpc[w] = "new" /\ state # "unknown" /\ container' = <<w>> \o container
      /\ wpc' = [wpc EXCEPT ![w] = "snapshot"] /\ todo' = todo /\ active' = active
      /\ state' = state /\ made' = made /\ status' = status /\ watchers' = watchers
      /\ anyPool' = anyPool /\ rwPool' = rwPool /\ roPool' = roPool
  BY DEF Register, Put, pools, env
<1>2. /\ container \in Seq(Watchers) /\ container' \in Seq(Watchers)
      /\ Len(container) \in Nat /\ DOMAIN container = 1 .. Len(container)
      /\ DOMAIN container' = 1 .. Len(container) + 1
      /\ container'[1] = w
      /\ \A i \in 2 .. Len(container) + 1 : container'[i] = container[i - 1]
  BY <1>0, <1>1 DEF WatchTypes
<1>3. \A i \in DOMAIN container : wpc[container[i]] \in Contained /\ container[i] # w
  BY <1>0, <1>1 DEF Listed, ToSet, Contained
<1>4. wpc'[w] = "snapshot" /\ \A v \in Watchers : v # w => wpc'[v] = wpc[v]
  BY <1>0, <1>1 DEF WatchTypes
<1>5. \A i, j \in DOMAIN container' : container'[i] = container'[j] => i = j
  <2> SUFFICES ASSUME NEW i \in DOMAIN container', NEW j \in DOMAIN container',
                      container'[i] = container'[j]
               PROVE  i = j
    OBVIOUS
  <2>1. CASE i = 1 /\ j = 1
    BY <2>1
  <2>2. CASE i = 1 /\ j # 1
    BY <1>2, <1>3, <2>2
  <2>3. CASE i # 1 /\ j = 1
    BY <1>2, <1>3, <2>3
  <2>4. CASE i # 1 /\ j # 1
    <3>1. /\ i - 1 \in DOMAIN container /\ j - 1 \in DOMAIN container
          /\ container[i - 1] = container[j - 1]
      BY <1>2, <2>4
    <3>2. i - 1 = j - 1
      BY <1>0, <3>1 DEF Listed
    <3> QED BY <1>2, <3>2
  <2> QED BY <2>1, <2>2, <2>3, <2>4
<1>6. ToSet(container') = {v \in Watchers : wpc'[v] \in Contained}
  <2>1. ASSUME NEW v \in ToSet(container') PROVE v \in Watchers /\ wpc'[v] \in Contained
    <3>1. PICK i \in DOMAIN container' : v = container'[i]
      BY DEF ToSet
    <3>2. CASE i = 1
      BY <1>2, <1>4, <3>1, <3>2 DEF Contained
    <3>3. CASE i # 1
      <4>1. i - 1 \in DOMAIN container /\ v = container[i - 1]
        BY <1>2, <3>1, <3>3
      <4> QED BY <1>2, <1>3, <1>4, <4>1
    <3> QED BY <3>2, <3>3
  <2>2. ASSUME NEW v \in Watchers, wpc'[v] \in Contained PROVE v \in ToSet(container')
    <3>1. CASE v = w
      <4>1. 1 \in DOMAIN container'
        BY <1>2
      <4> QED BY <1>2, <3>1, <4>1 DEF ToSet
    <3>2. CASE v # w
      <4>1. v \in ToSet(container)
        BY <1>0, <1>4, <2>2, <3>2 DEF Listed
      <4>2. PICK i \in DOMAIN container : v = container[i]
        BY <4>1 DEF ToSet
      <4>3. i + 1 \in DOMAIN container' /\ container'[i + 1] = v
        BY <1>2, <4>2
      <4> QED BY <4>3 DEF ToSet
    <3> QED BY <3>1, <3>2
  <2> QED BY <2>1, <2>2
<1>7. Listed'
  BY <1>1, <1>5, <1>6 DEF Listed
<1>8. \A a \in Addrs, c \in Conns : ~Misses(w, a, c)'
  BY <1>4 DEF Misses
<1>9. todo' \in [Watchers -> SUBSET Conns] /\ \A c \in todo'[w] : c[2] <= made[AddrOf(c)]
  BY <1>0, <1>1 DEF TypeOK, KnowsMade
<1> QED BY <1>1, <1>2, <1>7, <1>8, <1>9, WatchOwnStep DEF WatcherPCs

\* The container is not touched by a watcher that stays in it or out of it.
LEMMA ListedKept ==
    ASSUME WatchTypes, Listed, NEW w \in Watchers, NEW l \in WatcherPCs,
           wpc[w] \in Contained <=> l \in Contained, wpc[w] # "new",
           wpc' = [wpc EXCEPT ![w] = l], container' = container, state' = state
    PROVE  Listed'
<1>1. wpc'[w] = l /\ \A v \in Watchers : v # w => wpc'[v] = wpc[v]
  BY DEF WatchTypes
<1>2. {v \in Watchers : wpc'[v] \in Contained} = {v \in Watchers : wpc[v] \in Contained}
  BY <1>1
<1>3. state # "unknown"
  BY DEF Listed
<1> QED BY <1>2, <1>3 DEF Listed

\* NewWatcher asks for the connections there are.
LEMMA WatchSnapshot ==
    ASSUME PoolInv, WatcherInv, NEW w \in Watchers, Snapshot(w)
    PROVE  WatcherInv'
<1>0. TypeOK /\ WatchTypes /\ Listed /\ Made /\ KnowsMade
  BY DEF PoolInv, WatcherInv
<1>1. /\ wpc[w] = "snapshot" /\ container' = container
      /\ wpc' = [wpc EXCEPT ![w] = "watching"]
      /\ todo' = [todo EXCEPT ![w] = Members(SubpoolOf(ModeOf[w]))] /\ active' = active
      /\ state' = state /\ made' = made /\ status' = status /\ watchers' = watchers
      /\ anyPool' = anyPool /\ rwPool' = rwPool /\ roPool' = roPool
  BY DEF Snapshot, Put, pools, env
<1>2. Listed'
  BY <1>0, <1>1, ListedKept DEF Contained, WatcherPCs
<1>3. /\ todo' \in [Watchers -> SUBSET Conns] /\ todo'[w] = Members(SubpoolOf(ModeOf[w]))
      /\ \A v \in Watchers : v # w => todo'[v] = todo[v]
  BY <1>0, <1>1, MembersTypes DEF SubpoolOf, TypeOK
<1>4. \A c \in Members(SubpoolOf(ModeOf[w])) : \E a \in Addrs : c # None /\ c = SubpoolAt(w, a)
  BY DEF Members, SubpoolAt
<1>5. ASSUME NEW c \in todo'[w] PROVE c[2] <= made[AddrOf(c)]
  <2>1. PICK a \in Addrs : c # None /\ c = SubpoolAt(w, a)
    BY <1>3, <1>4
  <2>2. c = anyPool[a]
    BY <2>1, InSubpool, SubpoolByMode
  <2>3. c = conn[a] /\ CheckerInv(a)
    BY <1>0, <2>1, <2>2, HeldWasMade DEF PoolInv
  <2> QED BY <2>1, <2>3 DEF CheckerInv, Numbered
<1>6. ASSUME NEW a \in Addrs, NEW c \in Conns PROVE ~Misses(w, a, c)'
  <2>1. wpc'[w] = "watching"
    BY <1>0, <1>1 DEF WatchTypes
  <2>2. SubpoolAt(w, a)' = c => c \in todo'[w]
    <3>1. SubpoolAt(w, a)' = SubpoolAt(w, a)
      BY <1>1, SubpoolByMode
    <3>2. SubpoolAt(w, a) # None => SubpoolAt(w, a) \in Members(SubpoolOf(ModeOf[w]))
      BY DEF Members, SubpoolAt
    <3> QED BY <1>3, <3>1, <3>2
  <2> QED BY <2>1, <2>2 DEF Misses
<1>7. container' \in Seq(Watchers)
  BY <1>0, <1>1 DEF WatchTypes
<1> QED BY <1>1, <1>2, <1>3, <1>5, <1>6, <1>7, WatchOwnStep DEF WatcherPCs

\* NewWatcher returns when nothing is left to watch.
LEMMA WatchReturns ==
    ASSUME PoolInv, WatcherInv, NEW w \in Watchers, Watching(w)
    PROVE  WatcherInv'
<1>0. TypeOK /\ WatchTypes /\ Listed /\ Made /\ KnowsMade /\ NothingMissed
  BY DEF PoolInv, WatcherInv
<1>1. /\ wpc[w] = "watching" /\ todo[w] = {} /\ container' = container
      /\ wpc' = [wpc EXCEPT ![w] = "registered"] /\ todo' = todo /\ active' = active
      /\ state' = state /\ made' = made /\ status' = status /\ watchers' = watchers
      /\ anyPool' = anyPool /\ rwPool' = rwPool /\ roPool' = roPool
  BY DEF Watching, Put, pools, env
<1>2. Listed'
  BY <1>0, <1>1, ListedKept DEF Contained, WatcherPCs
<1>3. ASSUME NEW a \in Addrs, NEW c \in Conns, Misses(w, a, c)' PROVE FALSE
  <2>1. SubpoolAt(w, a) = c
    BY <1>1, <1>3, SubpoolByMode DEF Misses
  <2> QED BY <1>0, <1>1, <1>3, <2>1 DEF NothingMissed, Misses, Covered
<1>4. todo' \in [Watchers -> SUBSET Conns] /\ container' \in Seq(Watchers)
  BY <1>0, <1>1 DEF TypeOK, WatchTypes
<1> QED BY <1>1, <1>2, <1>3, <1>4, WatchOwnStep DEF WatcherPCs

\* The elements of a sequence with one removed.
LEMMA RemoveAtProperties ==
    ASSUME NEW S, NEW s \in Seq(S), NEW i \in 1 .. Len(s)
    PROVE  /\ RemoveAt(s, i) \in Seq(S) /\ Len(RemoveAt(s, i)) = Len(s) - 1
           /\ \A j \in 1 .. Len(s) - 1 : RemoveAt(s, i)[j] = s[IF j < i THEN j ELSE j + 1]
<1> DEFINE l == SubSeq(s, 1, i - 1)
           r == SubSeq(s, i + 1, Len(s))
<1>1. l \in Seq(S) /\ Len(l) = i - 1 /\ \A j \in 1 .. i - 1 : l[j] = s[j]
  BY SubSeqProperties
<1>2. /\ r \in Seq(S) /\ Len(r) = Len(s) - i
      /\ \A j \in 1 .. Len(s) - i : r[j] = s[i + j]
  BY SubSeqProperties
<1> HIDE DEF l, r
<1>3. RemoveAt(s, i) = l \o r
  BY DEF RemoveAt, l, r
<1>4. /\ l \o r \in Seq(S) /\ Len(l \o r) = Len(s) - 1
      /\ \A j \in 1 .. Len(s) - 1 : (l \o r)[j] = IF j <= i - 1 THEN l[j] ELSE r[j - (i - 1)]
  <2>1. Len(s) \in Nat /\ Len(l) + Len(r) = Len(s) - 1
    BY <1>1, <1>2, LenProperties
  <2>2. /\ l \o r \in Seq(S) /\ Len(l \o r) = Len(l) + Len(r)
        /\ \A j \in 1 .. Len(l) + Len(r) :
              (l \o r)[j] = IF j <= Len(l) THEN l[j] ELSE r[j - Len(l)]
    BY <1>1, <1>2, ConcatProperties
  <2> QED BY <1>1, <2>1, <2>2
<1>5. ASSUME NEW j \in 1 .. Len(s) - 1
      PROVE  (l \o r)[j] = s[IF j < i THEN j ELSE j + 1]
  <2>1. CASE j < i
    BY <1>1, <1>4, <2>1
  <2>2. CASE ~(j < i)
    <3>1. j - (i - 1) \in 1 .. Len(s) - i /\ i + (j - (i - 1)) = j + 1
      BY <2>2
    <3> QED BY <1>2, <1>4, <2>2, <3>1
  <2> QED BY <2>1, <2>2
<1> QED BY <1>3, <1>4, <1>5

\* Unregister takes the watcher out of the container.
LEMMA WatchRemoved ==
    ASSUME PoolInv, WatcherInv, NEW w \in Watchers, UnregisterRemove(w)
    PROVE  WatcherInv'
<1>0. TypeOK /\ WatchTypes /\ Listed /\ KnowsMade
  BY DEF PoolInv, WatcherInv
<1>1. /\ wpc[w] = "registered" /\ wpc' = [wpc EXCEPT ![w] = "removed"]
      /\ todo' = todo /\ active' = active
      /\ state' = state /\ made' = made /\ status' = status /\ watchers' = watchers
      /\ anyPool' = anyPool /\ rwPool' = rwPool /\ roPool' = roPool
  BY DEF UnregisterRemove, Put, pools, env
<1>2. PICK i \in DOMAIN container : container[i] = w /\ container' = RemoveAt(container, i)
  BY DEF UnregisterRemove
<1>3. /\ container \in Seq(Watchers) /\ Len(container) \in Nat
      /\ DOMAIN container = 1 .. Len(container)
  BY <1>0 DEF WatchTypes
<1>4. /\ container' \in Seq(Watchers) /\ Len(container') = Len(container) - 1
      /\ \A j \in 1 .. Len(container) - 1 :
            container'[j] = container[IF j < i THEN j ELSE j + 1]
  BY <1>2, <1>3, RemoveAtProperties
<1>5. DOMAIN container' = 1 .. Len(container) - 1
  BY <1>4
<1>6. wpc'[w] = "removed" /\ \A v \in Watchers : v # w => wpc'[v] = wpc[v]
  BY <1>0, <1>1 DEF WatchTypes
<1>7. \A j, k \in DOMAIN container' : container'[j] = container'[k] => j = k
  <2> SUFFICES ASSUME NEW j \in DOMAIN container', NEW k \in DOMAIN container',
                      container'[j] = container'[k]
               PROVE  j = k
    OBVIOUS
  <2> DEFINE p == IF j < i THEN j ELSE j + 1
             q == IF k < i THEN k ELSE k + 1
  <2>1. p \in DOMAIN container /\ q \in DOMAIN container /\ container[p] = container[q]
    BY <1>2, <1>3, <1>4, <1>5
  <2>2. p = q
    BY <1>0, <2>1 DEF Listed
  <2> QED BY <1>2, <1>3, <1>5, <2>2
<1>8. ToSet(container') = {v \in Watchers : wpc'[v] \in Contained}
  <2>1. ASSUME NEW v \in ToSet(container') PROVE v \in Watchers /\ wpc'[v] \in Contained
    <3>1. PICK j \in DOMAIN container' : v = container'[j]
      BY DEF ToSet
    <3> DEFINE p == IF j < i THEN j ELSE j + 1
    <3>2. p \in DOMAIN container /\ v = container[p] /\ p # i
      BY <1>2, <1>3, <1>4, <1>5, <3>1
    <3>3. v # w
      BY <1>0, <1>2, <3>2 DEF Listed
    <3>4. v \in Watchers /\ wpc[v] \in Contained
      BY <1>0, <3>2 DEF Listed, ToSet
    <3> QED BY <1>6, <3>3, <3>4
  <2>2. ASSUME NEW v \in Watchers, wpc'[v] \in Contained PROVE v \in ToSet(container')
    <3>1. v # w
      BY <1>6, <2>2 DEF Contained
    <3>2. v \in ToSet(container)
      BY <1>0, <1>6, <2>2, <3>1 DEF Listed
    <3>3. PICK k \in DOMAIN container : v = container[k]
      BY <3>2 DEF ToSet
    <3> DEFINE j == IF k < i THEN k ELSE k - 1
    <3>4. k # i
      BY <1>2, <3>1, <3>3
    <3>5. j \in DOMAIN container' /\ container'[j] = v
      BY <1>2, <1>3, <1>4, <1>5, <3>3, <3>4
    <3> QED BY <3>5 DEF ToSet
  <2> QED BY <2>1, <2>2
<1>9. Listed'
  <2>1. state # "unknown"
    BY <1>0, <1>1 DEF Listed
  <2> QED BY <1>1, <1>7, <1>8, <2>1 DEF Listed
<1>10. \A a \in Addrs, c \in Conns : ~Misses(w, a, c)'
  BY <1>6 DEF Misses
<1>11. todo' \in [Watchers -> SUBSET Conns] /\ \A c \in todo'[w] : c[2] <= made[AddrOf(c)]
  BY <1>0, <1>1 DEF TypeOK, KnowsMade
<1> QED BY <1>1, <1>4, <1>9, <1>10, <1>11, WatchOwnStep DEF WatcherPCs

\* Unregister ends the connections' watchers, of which none is left behind.
LEMMA WatchUnregistered ==
    ASSUME PoolInv, WatcherInv, NEW w \in Watchers, UnregisterAll(w)
    PROVE  WatcherInv'
<1>0. TypeOK /\ WatchTypes /\ Listed /\ Made /\ KnowsMade /\ NothingMissed /\ NoOrphanWatcher
  BY DEF PoolInv, WatcherInv
<1>1. /\ wpc[w] = "removed" /\ wpc' = [wpc EXCEPT ![w] = "unregistered"]
      /\ todo' = todo /\ container' = container
      /\ active' = active \ {<<w, watchers[w][a]>> : a \in Addrs}
      /\ state' = state /\ made' = made /\ status' = status /\ watchers' = watchers
      /\ anyPool' = anyPool /\ rwPool' = rwPool /\ roPool' = roPool
  BY DEF UnregisterAll, Put, pools, env
<1>2. /\ wpc' \in [Watchers -> WatcherPCs] /\ wpc'[w] = "unregistered"
      /\ \A v \in Watchers : v # w => wpc'[v] = wpc[v]
  BY <1>0, <1>1 DEF WatchTypes, WatcherPCs
<1>3. Listed'
  BY <1>0, <1>1, ListedKept DEF Contained, WatcherPCs
<1>4. WatchTypes' /\ Made' /\ KnowsMade'
  BY <1>0, <1>1, <1>2 DEF WatchTypes, Made, KnowsMade
<1>5. NothingMissed'
  <2> SUFFICES ASSUME NEW v \in Watchers, NEW b \in Addrs, NEW c \in Conns, Misses(v, b, c)'
               PROVE  FALSE
    BY DEF NothingMissed
  <2>1. v # w
    BY <1>2 DEF Misses
  <2>2. SubpoolAt(v, b) = c
    BY <1>1, SubpoolByMode DEF Misses
  <2> QED BY <1>0, <1>1, <1>2, <2>1, <2>2 DEF NothingMissed, Misses, Covered
<1>6. NoOrphanWatcher'
  <2> SUFFICES ASSUME NEW v \in Watchers, NEW c \in Conns, <<v, c>> \in active',
                      status[c] # "closed"
               PROVE  wpc'[v] # "unregistered" /\ watchers[v][AddrOf(c)] = c
    BY <1>1 DEF NoOrphanWatcher
  <2>1. wpc[v] # "unregistered" /\ watchers[v][AddrOf(c)] = c /\ AddrOf(c) \in Addrs
    BY <1>0, <1>1 DEF NoOrphanWatcher, Conns, AddrOf
  <2>2. v # w
    BY <1>1, <2>1
  <2> QED BY <1>2, <2>1, <2>2
<1> QED BY <1>3, <1>4, <1>5, <1>6 DEF WatcherInv

\* A connection in a subpool that is open is the only open one to its address.
LEMMA OpenInPool ==
    ASSUME PoolInv, NEW w \in Watchers, NEW a \in Addrs, NEW d \in Conns, SubpoolAt(w, a) = d,
           NEW c \in Conns, AddrOf(c) = a, status[c] \notin {"none", "closed"}
    PROVE  c = d
<1>1. d # None /\ d = anyPool[a]
  BY InSubpool, SubpoolByMode DEF Conns
<1>2. d = conn[a] /\ pc[a] \in Resting
  BY <1>1 DEF PoolInv, CheckerInv, InPools, Kept
<1>3. c = conn[a] \/ (c = newConn[a] /\ pc[a] \in Offering)
  BY OpenIsHeld
<1> QED BY <1>2, <1>3 DEF Offering, Resting

\* NewWatcher watches a connection of its snapshot, or closes it.
LEMMA WatchNext ==
    ASSUME PoolInv, WatcherInv, NEW w \in Watchers, WatchOne(w)
    PROVE  WatcherInv'
<1>0. TypeOK /\ WatchTypes /\ Listed /\ Made /\ KnowsMade /\ NothingMissed /\ NoOrphanWatcher
  BY DEF PoolInv, WatcherInv
<1>1. PICK c \in todo[w] :
          /\ todo' = Put(todo, w, todo[w] \ {c})
          /\ \/ /\ watchers[w][AddrOf(c)] # None \/ status[c] = "up"
                /\ WatchAll({w}, c) /\ status' = status
             \/ /\ watchers[w][AddrOf(c)] = None
                /\ CloseConn(c)
                /\ watchers' = watchers /\ active' = active
  BY DEF WatchOne
<1>2. /\ wpc[w] = "watching" /\ wpc' = wpc /\ container' = container /\ state' = state
      /\ made' = made /\ anyPool' = anyPool /\ rwPool' = rwPool /\ roPool' = roPool
  BY DEF WatchOne, pools
<1>3. c \in Conns /\ c # None /\ AddrOf(c) \in Addrs /\ c[2] <= made[AddrOf(c)]
  BY <1>0 DEF TypeOK, KnowsMade, Conns, AddrOf
<1>4. /\ todo'[w] = todo[w] \ {c}
      /\ \A v \in Watchers : v # w => todo'[v] = todo[v]
  BY <1>0, <1>1 DEF TypeOK, Put
<1> DEFINE a == AddrOf(c)
<1>5. ASSUME NEW d \in Conns, d[2] <= made[AddrOf(d)] PROVE status[d] # "none"
  BY <1>0, <1>5 DEF Made, Conns, AddrOf, TypeOK
<1>6. CASE /\ watchers[w][a] # None \/ status[c] = "up"
           /\ WatchAll({w}, c) /\ status' = status
  <2>1. /\ watchers' \in [Watchers -> [Addrs -> Conns \cup {None}]]
        /\ \A v \in Watchers, b \in Addrs :
              watchers'[v][b] = IF v = w /\ b = a /\ watchers[w][a] = None THEN c
                                ELSE watchers[v][b]
    BY <1>0, <1>3, <1>6 DEF WatchTypes, WatchAll, Put
  <2>2. /\ active' \subseteq Watchers \X Conns
        /\ \A v \in Watchers, d \in Conns : <<v, d>> \in active' =>
              <<v, d>> \in active \/ (d = c /\ v = w /\ watchers[w][a] = None)
    BY <1>0, <1>3, <1>6 DEF WatchTypes, WatchAll
  <2>3. WatchTypes' /\ Listed' /\ Made'
    BY <1>0, <1>2, <1>6, <2>1, <2>2 DEF WatchTypes, Listed, Made
  <2>4. KnowsMade'
    BY <1>0, <1>2, <1>3, <1>4, <2>1 DEF KnowsMade
  <2>5. NothingMissed'
    <3> SUFFICES ASSUME NEW v \in Watchers, NEW b \in Addrs, NEW d \in Conns, Misses(v, b, d)'
                 PROVE  FALSE
      BY DEF NothingMissed
    <3>1. /\ SubpoolAt(v, b) = d /\ wpc[v] \in {"watching", "registered"}
          /\ status[d] # "closed" /\ ~Covered(v, b, d)'
          /\ ~(wpc[v] = "watching" /\ d \in todo'[v])
      BY <1>2, <1>6, SubpoolByMode DEF Misses
    <3>2. CASE v # w \/ b # a
      <4>1. watchers'[v][b] = watchers[v][b]
        BY <2>1, <3>2
      <4>2. d \in todo[v] /\ v = w => d = c
        BY <1>4, <1>2, <3>1
      <4>3. v = w => d # c
        <5>1. AddrOf(d) = b
          BY <3>1, InSubpool, SubpoolByMode
        <5> QED BY <3>2, <5>1
      <4> QED BY <1>0, <1>2, <1>4, <1>6, <3>1, <4>1, <4>2, <4>3
              DEF NothingMissed, Misses, Covered
    <3>3. CASE v = w /\ b = a
      <4>1. CASE watchers[w][a] = None
        <5>1. c = d
          BY <1>3, <1>6, <3>1, <3>3, <4>1, OpenInPool
        <5> QED BY <2>1, <3>1, <3>3, <4>1, <5>1 DEF Covered
      <4>2. CASE watchers[w][a] # None
        <5>1. /\ watchers'[w][a] = watchers[w][a] /\ watchers[w][a] \in Conns
              /\ AddrOf(watchers[w][a]) = a /\ watchers[w][a][2] <= made[a]
          BY <1>0, <1>3, <2>1, <4>2 DEF WatchTypes, KnowsMade
        <5>2. status[watchers[w][a]] \notin {"none", "closed"}
          BY <1>5, <1>6, <3>1, <3>3, <5>1, <4>2 DEF Covered
        <5>3. watchers[w][a] = d
          BY <1>3, <3>1, <3>3, <5>1, <5>2, OpenInPool
        <5> QED BY <3>1, <3>3, <5>1, <5>3 DEF Covered
      <4> QED BY <4>1, <4>2
    <3> QED BY <3>2, <3>3
  <2>6. NoOrphanWatcher'
    <3> SUFFICES ASSUME NEW v \in Watchers, NEW d \in Conns, <<v, d>> \in active',
                        status[d] # "closed"
                 PROVE  wpc[v] # "unregistered" /\ watchers'[v][AddrOf(d)] = d
      BY <1>2, <1>6 DEF NoOrphanWatcher
    <3>1. CASE <<v, d>> \in active
      <4>1. /\ wpc[v] # "unregistered" /\ watchers[v][AddrOf(d)] = d /\ AddrOf(d) \in Addrs
            /\ d # None
        BY <1>0, <3>1 DEF NoOrphanWatcher, Conns, AddrOf
      <4> QED BY <2>1, <4>1
    <3>2. CASE d = c /\ v = w /\ watchers[w][a] = None
      BY <1>2, <1>3, <2>1, <3>2
    <3> QED BY <2>2, <3>1, <3>2
  <2> QED BY <2>3, <2>4, <2>5, <2>6 DEF WatcherInv
<1>7. CASE /\ watchers[w][a] = None /\ CloseConn(c)
           /\ watchers' = watchers /\ active' = active
  <2>1. status' = [status EXCEPT ![c] = "closed"] /\ status[c] # "none"
    BY <1>3, <1>5, <1>7 DEF CloseConn, Put
  <2>2. status'[c] = "closed" /\ \A d \in Conns : d # c => status'[d] = status[d]
    BY <1>0, <1>3, <2>1 DEF TypeOK
  <2>3. WatchTypes' /\ Listed'
    BY <1>0, <1>2, <1>7 DEF WatchTypes, Listed
  <2>4. Made'
    BY <1>0, <1>2, <2>1, <2>2 DEF Made
  <2>5. KnowsMade'
    BY <1>0, <1>2, <1>4, <1>7 DEF KnowsMade
  <2>6. NothingMissed'
    <3> SUFFICES ASSUME NEW v \in Watchers, NEW b \in Addrs, NEW d \in Conns, Misses(v, b, d)'
                 PROVE  FALSE
      BY DEF NothingMissed
    <3>1. /\ SubpoolAt(v, b) = d /\ wpc[v] \in {"watching", "registered"}
          /\ status'[d] # "closed" /\ ~Covered(v, b, d)'
          /\ ~(wpc[v] = "watching" /\ d \in todo'[v])
      BY <1>2, SubpoolByMode DEF Misses
    <3>2. d # c /\ status[d] # "closed" /\ ~(wpc[v] = "watching" /\ d \in todo[v])
      BY <1>4, <2>2, <3>1
    <3>3. ~Covered(v, b, d)
      <4>1. watchers[v][b] \in Conns \cup {None}
        BY <1>0 DEF WatchTypes
      <4> QED BY <1>7, <2>2, <3>1, <4>1 DEF Covered
    <3> QED BY <1>0, <3>1, <3>2, <3>3 DEF NothingMissed, Misses
  <2>7. NoOrphanWatcher'
    BY <1>0, <1>2, <1>7, <2>2 DEF NoOrphanWatcher
  <2> QED BY <2>3, <2>4, <2>5, <2>6, <2>7 DEF WatcherInv
<1> QED BY <1>1, <1>6, <1>7

-----------------------------------------------------------------------------
(* The watchers follow the pool.                                           *)

\* There is no watcher at first.
LEMMA WatcherInit == Init => WatcherInv
<1> SUFFICES ASSUME Init PROVE WatcherInv
  OBVIOUS
<1>1. WatchTypes
  <2>1. container \in Seq(Watchers) /\ wpc \in [Watchers -> WatcherPCs]
    BY DEF Init, WatcherPCs
  <2>2. watchers \in [Watchers -> [Addrs -> Conns \cup {None}]] /\ active \subseteq Watchers \X Conns
    BY DEF Init
  <2> QED BY <2>1, <2>2 DEF WatchTypes
<1>2. Listed
  BY DEF Init, Listed, ToSet, Contained
<1>3. Made
  BY DEF Init, Made, Conns, AddrOf
<1>4. KnowsMade /\ NothingMissed /\ NoOrphanWatcher
  BY DEF Init, KnowsMade, NothingMissed, Misses, NoOrphanWatcher
<1> QED BY <1>1, <1>2, <1>3, <1>4 DEF WatcherInv

\* What a checker does.
LEMMA WatchChecker ==
    ASSUME PoolInv, WatcherInv, NEW a \in Addrs, Checker(a)
    PROVE  WatcherInv'
<1>1. CASE TryConnect(a)
  BY <1>1, WatchNew
<1>2. CASE Offer(a) \/ Moved(a) \/ Forget(a) \/ CheckerDone(a)
  <2>1. /\ made' = made /\ status' = status /\ state' = state /\ anyPool' = anyPool
        /\ rwPool' = rwPool /\ roPool' = roPool /\ container' = container /\ wpc' = wpc
        /\ todo' = todo /\ watchers' = watchers /\ active' = active
    BY <1>2 DEF Offer, Moved, Forget, CheckerDone, pools, env, watch
  <2> QED BY <2>1, WatchStatus
<1>3. CASE Add(a)
  BY <1>3, WatchAdd
<1>4. CASE Drop(a)
  BY <1>4, WatchDrop
<1>5. CASE RoleChanged(a)
  BY <1>5, WatchDeleted DEF RoleChanged, env
<1>6. ASSUME NEW l, Removed(a, l) PROVE WatcherInv'
  BY <1>6, WatchDeleted DEF Removed
<1>7. CASE Reconnecting(a)
  BY <1>6, <1>7 DEF Reconnecting
<1>8. CASE Notified(a) /\ ~Removed(a, "closed")
  <2>1. /\ made' = made /\ status' = status /\ state' = state /\ anyPool' = anyPool
        /\ rwPool' = rwPool /\ roPool' = roPool /\ container' = container /\ wpc' = wpc
        /\ todo' = todo /\ watchers' = watchers /\ active' = active
    BY <1>8 DEF Notified, pools, watch
  <2> QED BY <2>1, WatchStatus
<1> QED BY <1>1, <1>2, <1>3, <1>4, <1>5, <1>6, <1>7, <1>8 DEF Checker

\* Every step preserves what is known of the watchers.
LEMMA WatcherStepInv == PoolInv /\ WatcherInv /\ [Next]_vars => WatcherInv'
<1> SUFFICES ASSUME PoolInv, WatcherInv, [Next]_vars PROVE WatcherInv'
  OBVIOUS
<1>1. ASSUME NEW a \in Addrs, FillOne(a) PROVE WatcherInv'
  BY <1>1, WatchNew
<1>2. ASSUME NEW a \in Addrs, Checker(a) PROVE WatcherInv'
  BY <1>2, WatchChecker
<1>3. ASSUME \/ \E a \in Addrs : ChangeRole(a)
             \/ Start \/ CloseCas \/ UNCHANGED vars
      PROVE  WatcherInv'
  <2>1. /\ made' = made /\ status' = status /\ anyPool' = anyPool
        /\ rwPool' = rwPool /\ roPool' = roPool /\ container' = container /\ wpc' = wpc
        /\ todo' = todo /\ watchers' = watchers /\ active' = active
    BY <1>3 DEF ChangeRole, Start, CloseCas, vars, pools, env, watch
  <2>2. state' = "unknown" => state = "unknown"
    BY <1>3 DEF ChangeRole, Start, CloseCas, vars
  <2> QED BY <2>1, <2>2, WatchStatus
<1>4. CASE CloseImpl
  BY <1>4, WatchClose
<1>5. ASSUME NEW w \in Watchers, Register(w) \/ WatcherStep(w) \/ UnregisterRemove(w)
      PROVE  WatcherInv'
  BY <1>5, WatchRegister, WatchSnapshot, WatchNext, WatchReturns, WatchRemoved,
     WatchUnregistered DEF WatcherStep
<1>6. ASSUME NEW c \in Conns, Break(c) \/ Recover(c) \/ GiveUp(c) PROVE WatcherInv'
  BY <1>6, WatchConn
<1> QED BY <1>1, <1>2, <1>3, <1>4, <1>5, <1>6 DEF Next

-----------------------------------------------------------------------------
(* What the watchers know of.                                              *)

\* A watcher of the container knows the connection its subpool has, if any: an
\* entry ends with deleteConnection, and addConnection finds none.  NewWatcher
\* alone makes entries of other connections.
EntryRight(w, a) ==
    \/ watchers[w][a] = SubpoolAt(w, a)
    \/ <<w, watchers[w][a]>> \in late
    \/ done

EntriesKept ==
    \A w \in Watchers, a \in Addrs : watchers[w][a] # None =>
        wpc[w] # "new" /\ (wpc[w] \in Contained => EntryRight(w, a))

\* Steps that leave the entries alone and fill no subpool that a watcher knows.
LEMMA EntriesBeside ==
    ASSUME WatcherInv, EntriesKept, watchers' = watchers, late' = late, done => done',
           \A w \in Watchers : /\ wpc'[w] = "new" => wpc[w] = "new"
                               /\ wpc'[w] \in Contained => wpc[w] \in Contained \cup {"new"},
           \/ anyPool' = anyPool /\ rwPool' = rwPool /\ roPool' = roPool
           \/ state = "unknown" \/ done'
    PROVE  EntriesKept'
<1> SUFFICES ASSUME NEW w \in Watchers, NEW a \in Addrs, watchers[w][a] # None
             PROVE  wpc'[w] # "new" /\ (wpc'[w] \in Contained => EntryRight(w, a)')
  BY DEF EntriesKept
<1>1. wpc[w] # "new" /\ (wpc[w] \in Contained => EntryRight(w, a))
  BY DEF EntriesKept
<1>2. state # "unknown"
  BY <1>1 DEF WatcherInv, Listed
<1>3. ASSUME wpc'[w] \in Contained PROVE EntryRight(w, a)'
  <2>1. EntryRight(w, a)
    BY <1>1, <1>3
  <2>2. CASE done'
    BY <2>2 DEF EntryRight
  <2>3. CASE anyPool' = anyPool /\ rwPool' = rwPool /\ roPool' = roPool
    <3>1. SubpoolAt(w, a)' = SubpoolAt(w, a)
      BY <2>3, SubpoolByMode
    <3> QED BY <2>1, <3>1 DEF EntryRight
  <2> QED BY <1>2, <2>2, <2>3
<1> QED BY <1>1, <1>3

\* Watchers give up what they know of an address, and the subpools of the other
\* addresses stay.
LEMMA EntriesEnded ==
    ASSUME WatcherInv, EntriesKept, NEW a \in Addrs, NEW ws \in SUBSET Watchers, Unwatch(ws, a),
           wpc' = wpc, done' = done,
           \A b \in Addrs : b # a => /\ anyPool'[b] = anyPool[b]
                                     /\ rwPool'[b] = rwPool[b] /\ roPool'[b] = roPool[b],
           \/ \A w \in Watchers : wpc[w] \in Contained => w \in ws
           \/ anyPool' = anyPool /\ rwPool' = rwPool /\ roPool' = roPool
    PROVE  EntriesKept'
<1>0. WatchTypes /\ KnowsMade
  BY DEF WatcherInv
<1>1. \A w \in Watchers, b \in Addrs :
          watchers'[w][b] = IF w \in ws /\ b = a THEN None ELSE watchers[w][b]
  BY <1>0 DEF WatchTypes, Unwatch, Put
<1> SUFFICES ASSUME NEW w \in Watchers, NEW b \in Addrs, watchers'[w][b] # None
             PROVE  wpc[w] # "new" /\ (wpc[w] \in Contained => EntryRight(w, b)')
  BY DEF EntriesKept
<1>2. watchers'[w][b] = watchers[w][b] /\ ~(w \in ws /\ b = a)
  BY <1>1
<1>3. wpc[w] # "new" /\ (wpc[w] \in Contained => EntryRight(w, b))
  BY <1>2 DEF EntriesKept
<1>4. ASSUME wpc[w] \in Contained PROVE EntryRight(w, b)'
  <2>1. SubpoolAt(w, b)' = SubpoolAt(w, b)
    BY <1>2, <1>4, SubpoolByMode
  <2>2. ASSUME <<w, watchers[w][b]>> \in late PROVE <<w, watchers[w][b]>> \in late'
    <3> SUFFICES ASSUME NEW v \in ws, <<w, watchers[w][b]>> = <<v, watchers[v][a]>> PROVE FALSE
      BY <2>2 DEF Unwatch
    <3>1. v = w /\ watchers[w][b] = watchers[w][a]
      OBVIOUS
    <3>2. AddrOf(watchers[w][b]) = b /\ AddrOf(watchers[w][a]) = a
      BY <1>0, <1>2, <3>1 DEF KnowsMade
    <3> QED BY <1>2, <3>1, <3>2
  <2> QED BY <1>2, <1>3, <1>4, <2>1, <2>2 DEF EntryRight
<1> QED BY <1>3, <1>4

\* deleteConnection.
LEMMA EntriesDeleted ==
    ASSUME PoolInv, WatcherInv, EntriesKept, NEW a \in Addrs, DeleteConnection(a), done' = done
    PROVE  EntriesKept'
<1>0. TypeOK /\ Listed
  BY DEF PoolInv, WatcherInv
<1>1. CASE anyPool[a] = None
  BY <1>1, EntriesBeside DEF DeleteConnection, pools, watch
<1>2. CASE anyPool[a] # None
  <2>1. RemoveFromPools(a) /\ Unwatch(ToSet(container), a) /\ wpc' = wpc
    BY <1>2 DEF DeleteConnection
  <2>2. \A b \in Addrs : b # a => /\ anyPool'[b] = anyPool[b]
                                  /\ rwPool'[b] = rwPool[b] /\ roPool'[b] = roPool[b]
    BY <1>0, <2>1 DEF RemoveFromPools, Put, TypeOK
  <2>3. /\ ToSet(container) \in SUBSET Watchers
        /\ \A w \in Watchers : wpc[w] \in Contained => w \in ToSet(container)
    BY <1>0 DEF Listed
  <2> QED BY <2>1, <2>2, <2>3, EntriesEnded
<1> QED BY <1>1, <1>2

\* addConnection fills the subpools of an address that nobody has an entry for,
\* but for what is late.
LEMMA EntriesAdded ==
    ASSUME PoolInv, WatcherInv, EntriesKept, NEW a \in Addrs, pc[a] = "add",
           AddConnection(a, newConn[a], newRole[a], TRUE), done' = done
    PROVE  EntriesKept'
<1>0. TypeOK /\ WatchTypes /\ Listed /\ CheckerInv(a)
  BY DEF WatcherInv, PoolInv
<1> DEFINE n == newConn[a]
           ws == {container[i] : i \in {j \in DOMAIN container : Suits(container[j], newRole[a])}}
<1>1. n \in Conns /\ n # None /\ AddrOf(n) = a /\ newRole[a] \in Roles
  BY <1>0 DEF CheckerInv, Holds, Numbered, Offering, TypeOK
<1>2. anyPool[a] = None /\ rwPool[a] = None /\ roPool[a] = None
  BY <1>0 DEF CheckerInv, Holds, InPools, Kept, Offering, Resting
<1>3. /\ WatchAll(ws, n) /\ AddToPools(a, n, newRole[a]) /\ wpc' = wpc /\ late' = late
  BY DEF AddConnection
<1>4. \A w \in ws : w \in Watchers /\ wpc[w] \in Contained /\ Suits(w, newRole[a])
  BY <1>0 DEF Listed, ToSet
<1> HIDE DEF ws
<1>5. \A w \in Watchers, b \in Addrs :
          watchers'[w][b] = IF w \in ws /\ b = a /\ watchers[w][a] = None THEN n
                            ELSE watchers[w][b]
  BY <1>0, <1>1, <1>3 DEF WatchTypes, WatchAll, Put
<1>6. /\ anyPool'[a] = n
      /\ rwPool'[a] = IF newRole[a] = "Master" THEN n ELSE None
      /\ roPool'[a] = IF newRole[a] = "Replica" THEN n ELSE None
      /\ \A b \in Addrs : b # a => /\ anyPool'[b] = anyPool[b]
                                   /\ rwPool'[b] = rwPool[b] /\ roPool'[b] = roPool[b]
  BY <1>0, <1>2, <1>3 DEF AddToPools, Put, TypeOK
<1> HIDE DEF n
<1> SUFFICES ASSUME NEW w \in Watchers, NEW b \in Addrs, watchers'[w][b] # None
             PROVE  wpc[w] # "new" /\ (wpc[w] \in Contained => EntryRight(w, b)')
  BY <1>3 DEF EntriesKept
<1>7. CASE w \in ws /\ b = a /\ watchers[w][a] = None
  <2>1. watchers'[w][b] = n /\ wpc[w] \in Contained /\ Suits(w, newRole[a])
    BY <1>4, <1>5, <1>7
  <2>2. SubpoolAt(w, a)' = n
    BY <1>6, <2>1, SubpoolByMode
  <2> QED BY <1>7, <2>1, <2>2 DEF EntryRight, Contained
<1>8. CASE ~(w \in ws /\ b = a /\ watchers[w][a] = None)
  <2>1. watchers'[w][b] = watchers[w][b]
    BY <1>5, <1>8
  <2>2. wpc[w] # "new" /\ (wpc[w] \in Contained => EntryRight(w, b))
    BY <2>1 DEF EntriesKept
  <2>3. b # a => SubpoolAt(w, b)' = SubpoolAt(w, b)
    BY <1>6, SubpoolByMode
  <2>4. SubpoolAt(w, a) = None
    BY <1>2, SubpoolByMode
  <2> QED BY <1>3, <2>1, <2>2, <2>3, <2>4 DEF EntryRight
<1> QED BY <1>7, <1>8

\* The second critical section of tryConnect and updateConnection.
LEMMA EntriesAdd ==
    ASSUME PoolInv, WatcherInv, EntriesKept, NEW a \in Addrs, Add(a)
    PROVE  EntriesKept'
<1>0. Listed /\ pc[a] = "add" /\ done' = done
  BY DEF WatcherInv, Add
<1>1. CASE AddConnection(a, newConn[a], newRole[a], TRUE)
  BY <1>0, <1>1, EntriesAdded
<1>2. CASE AddConnection(a, newConn[a], newRole[a], FALSE)
  <2> DEFINE suited == {i \in DOMAIN container : Suits(container[i], newRole[a])}
  <2>1. PICK i \in DOMAIN container :
            Unwatch({container[j] : j \in {k \in suited : k < i}}, a)
    BY <1>2 DEF AddConnection
  <2>2. {container[j] : j \in {k \in suited : k < i}} \in SUBSET Watchers
    BY <1>0 DEF Listed, ToSet
  <2>3. wpc' = wpc /\ anyPool' = anyPool /\ rwPool' = rwPool /\ roPool' = roPool
    BY <1>2 DEF AddConnection, pools
  <2> QED BY <1>0, <2>1, <2>2, <2>3, EntriesEnded
<1>3. CASE UNCHANGED <<pools, watch>>
  BY <1>0, <1>3, EntriesBeside DEF pools, watch
<1> QED BY <1>1, <1>2, <1>3 DEF Add

\* NewWatcher makes an entry of the connection its subpool has, or a late one.
LEMMA EntriesNext ==
    ASSUME PoolInv, WatcherInv, EntriesKept, NEW w \in Watchers, WatchOne(w)
    PROVE  EntriesKept'
<1>0. TypeOK /\ WatchTypes
  BY DEF PoolInv, WatcherInv
<1>1. /\ wpc[w] = "watching" /\ wpc' = wpc /\ done' = done
      /\ anyPool' = anyPool /\ rwPool' = rwPool /\ roPool' = roPool
  BY DEF WatchOne, pools
<1>2. PICK c \in todo[w] :
          \/ /\ WatchAll({w}, c)
             /\ late' = IF /\ watchers[w][AddrOf(c)] = None
                           /\ c \notin Members(SubpoolOf(ModeOf[w]))
                        THEN late \cup {<<w, c>>} ELSE late
          \/ watchers' = watchers /\ late' = late
  BY DEF WatchOne
<1>3. c \in Conns /\ c # None /\ AddrOf(c) \in Addrs
  BY <1>0 DEF TypeOK, Conns, AddrOf
<1>4. CASE watchers' = watchers /\ late' = late
  BY <1>1, <1>4, EntriesBeside
<1>5. CASE /\ WatchAll({w}, c)
           /\ late' = IF /\ watchers[w][AddrOf(c)] = None
                         /\ c \notin Members(SubpoolOf(ModeOf[w]))
                      THEN late \cup {<<w, c>>} ELSE late
  <2>1. \A v \in Watchers, b \in Addrs :
            watchers'[v][b] = IF v = w /\ b = AddrOf(c) /\ watchers[w][b] = None THEN c
                              ELSE watchers[v][b]
    BY <1>0, <1>3, <1>5 DEF WatchTypes, WatchAll, Put
  <2>2. late \subseteq late'
    BY <1>5
  <2> SUFFICES ASSUME NEW v \in Watchers, NEW b \in Addrs, watchers'[v][b] # None
               PROVE  wpc[v] # "new" /\ (wpc[v] \in Contained => EntryRight(v, b)')
    BY <1>1 DEF EntriesKept
  <2>3. SubpoolAt(v, b)' = SubpoolAt(v, b)
    BY <1>1, SubpoolByMode
  <2>4. CASE v = w /\ b = AddrOf(c) /\ watchers[w][b] = None
    <3>1. watchers'[w][b] = c
      BY <2>1, <2>4
    <3>2. CASE c \notin Members(SubpoolOf(ModeOf[w]))
      BY <1>1, <1>5, <2>4, <3>1, <3>2 DEF EntryRight
    <3>3. CASE c \in Members(SubpoolOf(ModeOf[w]))
      <4>1. PICK d \in Addrs : SubpoolAt(w, d) = c
        BY <3>3 DEF Members, SubpoolAt
      <4>2. AddrOf(c) = d
        BY <1>3, <4>1, InSubpool, SubpoolByMode
      <4> QED BY <1>1, <2>3, <2>4, <3>1, <4>1, <4>2 DEF EntryRight
    <3> QED BY <3>2, <3>3
  <2>5. CASE ~(v = w /\ b = AddrOf(c) /\ watchers[w][b] = None)
    <3>1. watchers'[v][b] = watchers[v][b]
      BY <2>1, <2>5
    <3>2. wpc[v] # "new" /\ (wpc[v] \in Contained => EntryRight(v, b))
      BY <3>1 DEF EntriesKept
    <3> QED BY <1>1, <2>2, <2>3, <3>1, <3>2 DEF EntryRight
  <2> QED BY <2>4, <2>5
<1> QED BY <1>2, <1>4, <1>5

\* Every step preserves what is known of the entries.
LEMMA EntriesStep == PoolInv /\ WatcherInv /\ EntriesKept /\ [Next]_vars => EntriesKept'
<1> SUFFICES ASSUME PoolInv, WatcherInv, EntriesKept, [Next]_vars PROVE EntriesKept'
  OBVIOUS
<1>1. ASSUME \/ \E a \in Addrs : \/ FillOne(a) \/ ChangeRole(a) \/ TryConnect(a) \/ Offer(a)
                                 \/ Drop(a) \/ Moved(a) \/ Forget(a) \/ CheckerDone(a)
             \/ Start \/ CloseCas \/ CloseImpl \/ UNCHANGED vars
             \/ \E c \in Conns : Break(c) \/ Recover(c) \/ GiveUp(c)
      PROVE  EntriesKept'
  <2>1. watchers' = watchers /\ late' = late /\ wpc' = wpc
    BY <1>1 DEF FillOne, ChangeRole, TryConnect, Offer, Drop, Moved, Forget, CheckerDone, Start,
                CloseCas, CloseImpl, Break, Recover, GiveUp, watch, vars
  <2>2. done => done'
    BY <1>1 DEF FillOne, ChangeRole, TryConnect, Offer, Drop, Moved, Forget, CheckerDone, Start,
                CloseCas, CloseImpl, Break, Recover, GiveUp, vars
  <2>3. \/ anyPool' = anyPool /\ rwPool' = rwPool /\ roPool' = roPool
        \/ state = "unknown" \/ done'
    BY <1>1 DEF FillOne, ChangeRole, TryConnect, Offer, Drop, Moved, Forget, CheckerDone, Start,
                CloseCas, CloseImpl, Break, Recover, GiveUp, pools, vars
  <2> QED BY <2>1, <2>2, <2>3, EntriesBeside
<1>2. ASSUME NEW a \in Addrs, Add(a) PROVE EntriesKept'
  BY <1>2, EntriesAdd
<1>3. ASSUME NEW a \in Addrs, RoleChanged(a) PROVE EntriesKept'
  BY <1>3, EntriesDeleted DEF RoleChanged
<1>4. ASSUME NEW a \in Addrs, NEW l, Removed(a, l) PROVE EntriesKept'
  BY <1>4, EntriesDeleted DEF Removed
<1>5. ASSUME NEW a \in Addrs, Notified(a), ~Removed(a, "closed") PROVE EntriesKept'
  <2>1. /\ watchers' = watchers /\ late' = late /\ wpc' = wpc /\ done' = done
        /\ anyPool' = anyPool /\ rwPool' = rwPool /\ roPool' = roPool
    BY <1>5 DEF Notified, pools, watch
  <2> QED BY <2>1, EntriesBeside
<1>6. ASSUME NEW a \in Addrs, Checker(a) PROVE EntriesKept'
  BY <1>1, <1>2, <1>3, <1>4, <1>5, <1>6 DEF Checker, Reconnecting
<1>7. ASSUME NEW w \in Watchers,
             Register(w) \/ Snapshot(w) \/ Watching(w) \/ UnregisterRemove(w) \/ UnregisterAll(w)
      PROVE  EntriesKept'
  <2>0. WatchTypes
    BY DEF WatcherInv
  <2>1. /\ watchers' = watchers /\ late' = late /\ done' = done
        /\ anyPool' = anyPool /\ rwPool' = rwPool /\ roPool' = roPool
    BY <1>7 DEF Register, Snapshot, Watching, UnregisterRemove, UnregisterAll, pools
  <2>2. PICK l \in WatcherPCs \ {"new"} :
            /\ wpc' = [wpc EXCEPT ![w] = l]
            /\ l \in Contained => wpc[w] \in Contained \cup {"new"}
    BY <1>7 DEF Register, Snapshot, Watching, UnregisterRemove, UnregisterAll, Put, WatcherPCs,
                Contained
  <2>3. \A v \in Watchers : /\ wpc'[v] = "new" => wpc[v] = "new"
                            /\ wpc'[v] \in Contained => wpc[v] \in Contained \cup {"new"}
    BY <2>0, <2>2 DEF WatchTypes
  <2> QED BY <2>1, <2>3, EntriesBeside
<1>8. ASSUME NEW w \in Watchers, WatchOne(w) PROVE EntriesKept'
  BY <1>8, EntriesNext
<1> QED BY <1>1, <1>6, <1>7, <1>8 DEF Next, WatcherStep

\* poolWatcher's map, the connections' watchers and the subpools agree: but for the
\* entries that NewWatcher made too late, a watcher it returned has an entry for the
\* connection that its mode's subpool has for an address, if that is open, and for no
\* other; and no watcher of an open connection outlives Unregister or loses its
\* entry, for every number of addresses and watchers and in every interleaving of
\* NewWatcher, Unregister, addConnection, deleteConnection and Close.
THEOREM WatchersFollowHolds == Spec => []WatchersFollow
<1>1. PoolInv /\ WatcherInv /\ EntriesKept => WatchersFollow
  <2> SUFFICES ASSUME PoolInv, WatcherInv, EntriesKept PROVE WatchersFollow
    OBVIOUS
  <2>1. ASSUME NEW w \in Watchers, NEW a \in Addrs, Returned(w)
        PROVE  \/ Entry(w, a) = Asked(w, a)
               \/ Entry(w, a) = None /\ status[Asked(w, a)] = "closed"
               \/ <<w, Entry(w, a)>> \in late
    <3>1. wpc[w] = "registered" /\ ~done /\ Asked(w, a) = SubpoolAt(w, a)
      BY <2>1 DEF Returned, Asked, SubpoolAt
    <3>2. CASE watchers[w][a] # None
      BY <3>1, <3>2 DEF EntriesKept, EntryRight, Contained, Entry
    <3>3. CASE watchers[w][a] = None /\ SubpoolAt(w, a) # None
      <4>1. SubpoolAt(w, a) \in Conns
        BY <3>3, InSubpool, SubpoolByMode
      <4> QED BY <3>1, <3>3, <4>1 DEF WatcherInv, NothingMissed, Misses, Covered, Entry
    <3> QED BY <3>1, <3>2, <3>3 DEF Entry
  <2>2. WatchersCoverPool
    BY <2>1 DEF WatchersCoverPool
  <2> QED BY <2>2 DEF WatcherInv, WatchersFollow
<1>2. Init => EntriesKept
  BY DEF Init, EntriesKept
<1> QED BY <1>1, <1>2, PoolInductive, WatcherInit, WatcherStepInv, EntriesStep, PTL DEF Spec
=============================================================================
