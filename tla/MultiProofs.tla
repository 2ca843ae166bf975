---------------------------- MODULE MultiProofs -----------------------------
(* Theorems about Multi, for every list of addresses, every lists the      *)
(* cluster may report and every number of connections and faults.          *)
EXTENDS Multi, TLAPS, SequenceTheorems, WellFoundedInduction

USE BoundsAssumption, NoneAssumption

-----------------------------------------------------------------------------
(* The strengthening that makes the properties inductive.                  *)

Connecting == {"event", "retry", "join"}
Refreshing == {"refresh", "join"}
CheckerStates == {"start", "idle", "tick", "clear", "ended"} \cup Connecting \cup Refreshing
MaybeConn == Conns \cup {None}

\* The types of the variables.
TypeOK ==
    /\ state \in {"new", "connected", "closed", "failed"} /\ pc \in CheckerStates
    /\ addrs \in Seq(Addrs) /\ newAddrs \in Seq(Addrs)
    /\ pool \in [Addrs -> MaybeConn] /\ fallback \in MaybeConn
    /\ made \in [Addrs -> 0 .. MaxConns]
    /\ status \in [Conns -> {"none", "up", "down", "closed"}] /\ events \in [Conns -> Nat]
    /\ todo \subseteq Addrs /\ target \in Addrs \cup {None} /\ newConn \in MaybeConn
    /\ displaced \subseteq Conns /\ faults \in Nat

\* A connection is made when its number has come up; the pool holds such.
Numbered ==
    /\ \A a \in Addrs, n \in 1 .. MaxConns : status[<<a, n>>] # "none" <=> n <= made[a]
    /\ \A a \in Addrs : pool[a] # None => status[pool[a]] # "none"
    /\ newConn # None => status[newConn] # "none"

\* The checker connects to an address of its list that has no open connection,
\* or to that of an event; a new address has none yet.
Targeted ==
    /\ pc \in Connecting => target \in Addrs
    /\ newConn # None => pc \in Connecting
    /\ pc = "retry" => ~Open(pool[target])
    /\ pc \in {"event", "retry"} => target \in ToSet(addrs)
    /\ pc = "join" => /\ target \in ToSet(newAddrs) \ (ToSet(addrs) \cup todo)
                      /\ pool[target] = None

\* Where the pool may have entries while the checker replaces the list.
Listed ==
    /\ pc \in {"tick", "retry"} => todo \subseteq ToSet(addrs)
    /\ pc \in Refreshing => todo \subseteq ToSet(newAddrs) \ ToSet(addrs)
    /\ \A a \in Addrs : pool[a] # None =>
        IF pc \in Refreshing THEN a \in ToSet(addrs) \cup (ToSet(newAddrs) \ todo)
        ELSE IF pc = "clear" THEN a \in ToSet(newAddrs) \cup todo
        ELSE a \in ToSet(addrs)

\* The checker starts when Connect succeeds; from then on there is a fallback.
Started ==
    /\ state \in {"new", "failed"} => pc = "start"
    /\ pc = "start" => addrs = InitAddrs
    /\ state \in {"connected", "closed"} => fallback # None

MultiInv ==
    TypeOK /\ Numbered /\ Targeted /\ Listed /\ LeakedOnlyIfDisplaced /\ Started

-----------------------------------------------------------------------------
(* The first and the last place of a list.                                 *)

\* The first of some places: the search of getCurrentConnection ends there.
LEMMA LeastExists ==
    ASSUME NEW S \in SUBSET Nat, S # {}
    PROVE  Min(S) \in S /\ \A j \in S : Min(S) <= j
<1> DEFINE R == {ss \in Nat \X Nat : ss[1] < ss[2]}
<1>1. IsWellFoundedOn(R, Nat)
  BY NatLessThanWellFounded, Zenon DEF OpToRel
<1>2. PICK i \in S : \A j \in S : ~(<<j, i>> \in R)
  BY <1>1, WFMin, Zenon
<1>3. ASSUME NEW j \in S PROVE i <= j
  <2>1. i \in Nat /\ j \in Nat /\ <<j, i>> \in Nat \X Nat /\ <<j, i>>[1] = j /\ <<j, i>>[2] = i
    OBVIOUS
  <2>2. ~(j < i)
    BY <1>2, <2>1
  <2> QED BY <2>1, <2>2
<1> QED BY <1>3 DEF Min

\* The last of some places.
LEMMA GreatestExists ==
    ASSUME NEW n \in Nat, NEW S \in SUBSET (1 .. n), S # {}
    PROVE  Max(S) \in S
<1> DEFINE T == {n - i : i \in S}
<1>1. T \in SUBSET Nat /\ T # {}
  <2>1. \A i \in S : i \in 1 .. n /\ n - i \in Nat
    OBVIOUS
  <2> QED BY <2>1
<1>2. PICK m \in T : \A k \in T : m <= k
  <2> HIDE DEF T
  <2> QED BY <1>1, LeastExists
<1>3. PICK i \in S : m = n - i
  BY <1>2
<1>4. \A j \in S : n - i <= n - j
  BY <1>2, <1>3
<1> HIDE DEF T
<1>5. ASSUME NEW j \in S PROVE i >= j
  <2>1. n \in Int /\ i \in Int /\ j \in Int
    OBVIOUS
  <2>2. n - i <= n - j
    BY <1>4
  <2> QED BY ONLY <2>1, <2>2
<1> QED BY <1>5 DEF Max

\* Addresses of the list given to Connect and of those the cluster reports.
LEMMA ListedAddrs ==
    /\ \A l \in Seq(Addrs) : ToSet(l) \subseteq Addrs /\ DOMAIN l \subseteq 1 .. Len(l) /\ Len(l) \in Nat
    /\ InitAddrs \in Seq(Addrs) /\ \A l \in Discovered : l \in Seq(Addrs)
<1>1. \A l \in Seq(Addrs) : ToSet(l) \subseteq Addrs /\ DOMAIN l \subseteq 1 .. Len(l) /\ Len(l) \in Nat
  <2> TAKE l \in Seq(Addrs)
  <2>1. Len(l) \in Nat /\ DOMAIN l = 1 .. Len(l) /\ l \in [1 .. Len(l) -> Addrs]
    BY LenProperties
  <2> QED BY <2>1 DEF ToSet
<1> QED BY <1>1, AddrsAssumption

\* getCurrentConnection finds a connection or keeps the fallback.
LEMMA PassedOverType ==
    ASSUME TypeOK
    PROVE  PassedOver \in Conns \/ PassedOver = fallback
<1> DEFINE passed == {i \in InOrder : \A j \in UpInOrder : i < j}
<1>1. CASE passed = {}
  BY <1>1 DEF PassedOver
<1>2. CASE passed # {}
  <2>1. addrs \in Seq(Addrs) /\ Len(addrs) \in Nat /\ DOMAIN addrs \subseteq 1 .. Len(addrs)
    BY ListedAddrs DEF TypeOK
  <2>2. passed \in SUBSET (1 .. Len(addrs))
    BY <2>1 DEF InOrder
  <2>3. Max(passed) \in passed
    <3> HIDE DEF passed
    <3> QED BY <1>2, <2>1, <2>2, GreatestExists
  <2>4. PassedOver = pool[addrs[Max(passed)]]
    BY <1>2 DEF PassedOver
  <2>5. Max(passed) \in InOrder
    BY <2>3
  <2> HIDE DEF passed
  <2>6. pool[addrs[Max(passed)]] # None /\ addrs[Max(passed)] \in Addrs
    BY <2>1, <2>5, ElementOfSeq DEF InOrder
  <2> QED BY <2>4, <2>6 DEF TypeOK, MaybeConn
<1> QED BY <1>1, <1>2

\* warmUp has a fallback when an instance has answered.
LEMMA FirstOfType ==
    ASSUME NEW alive \in SUBSET ToSet(InitAddrs), alive # {}
    PROVE  FirstOf(alive) \in Conns
<1> DEFINE S == {i \in DOMAIN InitAddrs : InitAddrs[i] \in alive}
<1>1. InitAddrs \in Seq(Addrs) /\ DOMAIN InitAddrs = 1 .. Len(InitAddrs) /\ Len(InitAddrs) \in Nat
  BY ListedAddrs, LenProperties
<1>2. S \in SUBSET Nat /\ S # {}
  BY <1>1 DEF ToSet
<1>3. Min(S) \in S
  <2> HIDE DEF S
  <2> QED BY <1>2, LeastExists
<1>4. InitAddrs[Min(S)] \in Addrs
  <2>1. Min(S) \in 1 .. Len(InitAddrs)
    BY <1>1, <1>3
  <2> HIDE DEF S
  <2> QED BY <1>1, <2>1, ElementOfSeq
<1>5. FirstOf(alive) = <<InitAddrs[Min(S)], 1>>
  BY DEF FirstOf
<1> HIDE DEF S
<1> QED BY <1>4, <1>5 DEF Conns

-----------------------------------------------------------------------------
(* The steps.                                                              *)

\* Nothing is connected at first.
LEMMA MultiInit == Init => MultiInv
<1> SUFFICES ASSUME Init PROVE MultiInv
  OBVIOUS
<1>1. TypeOK
  BY ListedAddrs, EmptySeq DEF Init, TypeOK, CheckerStates, MaybeConn
<1>2. Numbered /\ Targeted /\ Listed /\ Started
  BY DEF Init, Numbered, Targeted, Listed, Started, Connecting, Refreshing, Conns
<1>3. LeakedOnlyIfDisplaced
  BY DEF Init, LeakedOnlyIfDisplaced, Open
<1> QED BY <1>1, <1>2, <1>3 DEF MultiInv

\* What conn.notify leaves in the channel.
LEMMA NotifyType ==
    ASSUME events \in [Conns -> Nat], NEW c \in Conns
    PROVE  Notify(c) \in [Conns -> Nat]
  BY DEF Notify

\* A step of the connections by themselves: none is made and none opened.
LEMMA StatusStep ==
    ASSUME MultiInv, status' \in [Conns -> {"none", "up", "down", "closed"}],
           \A c \in Conns : (status'[c] = "none") <=> (status[c] = "none"),
           \A c \in Conns : status'[c] \in {"up", "down"} => status[c] \in {"up", "down"},
           pool' = pool, made' = made, addrs' = addrs, newAddrs' = newAddrs, pc' = pc,
           todo' = todo, target' = target, newConn' = newConn, displaced' = displaced
    PROVE  Numbered' /\ Targeted' /\ Listed' /\ LeakedOnlyIfDisplaced'
<1>1. \A a \in Addrs : pool[a] \in MaybeConn
  BY DEF MultiInv, TypeOK
<1>2. Numbered'
  <2>1. \A a \in Addrs, n \in 1 .. MaxConns : <<a, n>> \in Conns
    BY DEF Conns
  <2>2. \A a \in Addrs, n \in 1 .. MaxConns : status'[<<a, n>>] # "none" <=> n <= made[a]
    BY <2>1 DEF MultiInv, Numbered
  <2>3. \A a \in Addrs : pool[a] # None => status'[pool[a]] # "none"
    BY <1>1 DEF MultiInv, Numbered, MaybeConn
  <2>4. newConn # None => status'[newConn] # "none"
    BY DEF MultiInv, TypeOK, Numbered, MaybeConn
  <2> QED BY <2>2, <2>3, <2>4 DEF Numbered
<1>3. Targeted'
  <2>1. pc = "retry" => target \in Addrs /\ ~Open(pool[target])
    BY DEF MultiInv, Targeted, Connecting
  <2>2. pc = "retry" => ~(pool[target] # None /\ status'[pool[target]] \in {"up", "down"})
    BY <1>1, <2>1 DEF Open, MaybeConn
  <2> QED BY <2>2 DEF MultiInv, Targeted, Open
<1>4. Listed'
  BY DEF MultiInv, Listed
<1>5. LeakedOnlyIfDisplaced'
  BY DEF MultiInv, LeakedOnlyIfDisplaced, Open, Pooled
<1> QED BY <1>2, <1>3, <1>4, <1>5

\* A connection breaks, connects again or gives up, or the user closes them all.
LEMMA MultiStatus ==
    ASSUME MultiInv, Close \/ (\E c \in Conns : Break(c) \/ Settle(c))
    PROVE  MultiInv'
<1>1. TypeOK
  BY DEF MultiInv
<1>2. /\ pool' = pool /\ made' = made /\ addrs' = addrs /\ newAddrs' = newAddrs /\ pc' = pc
      /\ todo' = todo /\ target' = target /\ newConn' = newConn /\ displaced' = displaced
      /\ fallback' = fallback
  BY DEF Close, Break, Settle, checkerVars
<1>3. CASE Close
  <2> DEFINE shut == {c \in Pooled \cup {fallback} : Open(c)}
  <2>1. /\ state = "connected" /\ state' = "closed" /\ faults' = faults
        /\ status' = [c \in Conns |-> IF c \in shut THEN "closed" ELSE status[c]]
        /\ events' = [c \in Conns |-> IF c \in shut THEN Notify(c)[c] ELSE events[c]]
    BY <1>3 DEF Close
  <2>2. \A c \in Conns : Notify(c)[c] \in Nat /\ events[c] \in Nat
    BY <1>1, NotifyType DEF TypeOK
  <2>3. \A c \in shut : status[c] \in {"up", "down"}
    BY DEF Open
  <2> HIDE DEF shut
  <2>4. events' \in [Conns -> Nat]
    BY <2>1, <2>2
  <2>5. /\ status' \in [Conns -> {"none", "up", "down", "closed"}]
        /\ \A c \in Conns : (status'[c] = "none") <=> (status[c] = "none")
        /\ \A c \in Conns : status'[c] \in {"up", "down"} => status[c] \in {"up", "down"}
    BY <1>1, <2>1, <2>3 DEF TypeOK
  <2>6. TypeOK'
    BY <1>1, <1>2, <2>1, <2>4, <2>5 DEF TypeOK
  <2>7. Started'
    BY <1>2, <2>1 DEF MultiInv, Started
  <2> QED BY <1>2, <2>5, <2>6, <2>7, StatusStep DEF MultiInv
<1>4. ASSUME NEW c \in Conns, Break(c) \/ Settle(c) PROVE MultiInv'
  <2>1. /\ state' = state /\ faults' \in Nat /\ status[c] \in {"up", "down"}
        /\ events' = Notify(c)
    BY <1>1, <1>4 DEF Break, Settle, Fault, TypeOK
  <2>2. PICK s \in {"up", "down", "closed"} : status' = [status EXCEPT ![c] = s]
    BY <1>4 DEF Break, Settle
  <2>3. /\ status' \in [Conns -> {"none", "up", "down", "closed"}]
        /\ \A d \in Conns : (status'[d] = "none") <=> (status[d] = "none")
        /\ \A d \in Conns : status'[d] \in {"up", "down"} => status[d] \in {"up", "down"}
    BY <1>1, <2>1, <2>2 DEF TypeOK
  <2>4. TypeOK'
    BY <1>1, <1>2, <2>1, <2>3, NotifyType DEF TypeOK
  <2>5. Started'
    BY <1>2, <2>1 DEF MultiInv, Started
  <2> QED BY <1>2, <2>3, <2>4, <2>5, StatusStep DEF MultiInv
<1> QED BY <1>3, <1>4

\* warmUp: every instance that answers gets the first connection of its address.
LEMMA MultiWarmUp ==
    ASSUME MultiInv, WarmUp
    PROVE  MultiInv'
<1>1. TypeOK /\ Targeted /\ Listed
  BY DEF MultiInv
<1>2. /\ state = "new" /\ addrs' = addrs /\ todo' = todo /\ target' = target
      /\ newConn' = newConn /\ newAddrs' = newAddrs /\ displaced' = displaced /\ faults' = faults
  BY DEF WarmUp
<1>3. PICK alive \in SUBSET ToSet(InitAddrs) :
        IF alive = {}
        THEN state' = "failed" /\ UNCHANGED <<pool, fallback, made, status, events, pc>>
        ELSE /\ state' = "connected" /\ pc' = "idle"
             /\ fallback' = FirstOf(alive)
             /\ pool' = [a \in Addrs |-> IF a \in alive THEN <<a, 1>> ELSE None]
             /\ made' = [a \in Addrs |-> IF a \in alive THEN 1 ELSE 0]
             /\ status' = [c \in Conns |-> IF c \in alive \X {1} THEN "up" ELSE "none"]
             /\ events' = [c \in Conns |-> IF c \in alive \X {1} THEN 1 ELSE 0]
  BY DEF WarmUp
<1>4. CASE alive = {}
  <2>1. /\ state' = "failed" /\ pool' = pool /\ fallback' = fallback /\ made' = made
        /\ status' = status /\ events' = events /\ pc' = pc
    BY <1>3, <1>4
  <2>2. TypeOK'
    BY <1>1, <1>2, <2>1 DEF TypeOK
  <2>3. Started'
    BY <1>2, <2>1 DEF MultiInv, Started
  <2> QED BY <1>1, <1>2, <2>1, <2>2, <2>3, StatusStep DEF MultiInv, TypeOK
<1>5. CASE alive # {}
  <2>1. /\ state' = "connected" /\ pc' = "idle"
        /\ fallback' = FirstOf(alive)
        /\ pool' = [a \in Addrs |-> IF a \in alive THEN <<a, 1>> ELSE None]
        /\ made' = [a \in Addrs |-> IF a \in alive THEN 1 ELSE 0]
        /\ status' = [c \in Conns |-> IF c \in alive \X {1} THEN "up" ELSE "none"]
        /\ events' = [c \in Conns |-> IF c \in alive \X {1} THEN 1 ELSE 0]
    BY <1>3, <1>5
  <2>2. alive \subseteq Addrs /\ ToSet(InitAddrs) \subseteq Addrs
    BY ListedAddrs
  <2>3. \A a \in Addrs, n \in 1 .. MaxConns :
          <<a, n>> \in Conns /\ (<<a, n>> \in alive \X {1} <=> a \in alive /\ n = 1)
    BY DEF Conns
  <2>4. 1 \in 1 .. MaxConns
    OBVIOUS
  <2>5. fallback' \in Conns
    BY <1>5, <2>1, FirstOfType
  <2>6. pool' \in [Addrs -> MaybeConn]
    BY <2>1, <2>3, <2>4 DEF MaybeConn
  <2>7. made' \in [Addrs -> 0 .. MaxConns]
    BY <2>1
  <2>8. TypeOK'
    BY <1>1, <1>2, <2>1, <2>5, <2>6, <2>7 DEF TypeOK, CheckerStates, MaybeConn
  <2>9. Numbered'
    <3>1. ASSUME NEW a \in Addrs, NEW n \in 1 .. MaxConns
          PROVE  status'[<<a, n>>] # "none" <=> n <= made'[a]
      <4>1. n \in Nat /\ n >= 1 /\ made'[a] = (IF a \in alive THEN 1 ELSE 0)
        BY <2>1
      <4>2. status'[<<a, n>>] = IF a \in alive /\ n = 1 THEN "up" ELSE "none"
        BY <2>1, <2>3
      <4> QED BY <4>1, <4>2
    <3>2. ASSUME NEW a \in Addrs, pool'[a] # None PROVE status'[pool'[a]] # "none"
      BY <2>1, <2>3, <2>4, <3>2
    <3>3. newConn = None
      BY <1>1, <1>2 DEF MultiInv, Started, Targeted, Connecting
    <3> QED BY <1>2, <3>1, <3>2, <3>3 DEF Numbered
  <2>10. Targeted'
    <3>1. newConn = None
      BY <1>1, <1>2 DEF MultiInv, Started, Targeted, Connecting
    <3> QED BY <1>2, <2>1, <3>1 DEF Targeted, Connecting
  <2>11. Listed'
    <3>1. addrs = InitAddrs
      BY <1>2 DEF MultiInv, Started
    <3> QED BY <1>2, <2>1, <3>1 DEF Listed, Refreshing
  <2>12. LeakedOnlyIfDisplaced'
    <3> SUFFICES ASSUME NEW c \in Conns, Open(c)' PROVE c \in Pooled'
      BY DEF LeakedOnlyIfDisplaced
    <3>1. c \in alive \X {1} /\ c # None
      BY <2>1 DEF Open
    <3>2. PICK a \in alive : c = <<a, 1>>
      BY <3>1
    <3>3. pool'[a] = c
      BY <2>1, <2>2, <3>2
    <3> QED BY <2>2, <3>1, <3>2, <3>3 DEF Pooled
  <2>13. Started'
    BY <2>1, <2>5 DEF Started
  <2> QED BY <1>2, <2>1, <2>8, <2>9, <2>10, <2>11, <2>12, <2>13 DEF MultiInv
<1> QED BY <1>4, <1>5

\* A step of the checker that moves no connection.
LEMMA ControlStep ==
    ASSUME MultiInv, pool' = pool, status' = status, made' = made, newConn' = newConn,
           displaced' = displaced, fallback' = fallback, state' = state, addrs' = addrs,
           pc # "start", pc' # "start", TypeOK', Targeted', Listed'
    PROVE  MultiInv'
<1>1. Numbered'
  BY DEF MultiInv, Numbered
<1>2. LeakedOnlyIfDisplaced'
  BY DEF MultiInv, LeakedOnlyIfDisplaced, Pooled, Open
<1>3. Started'
  BY DEF MultiInv, Started
<1> QED BY <1>1, <1>2, <1>3 DEF MultiInv

\* An event that is taken from the channel.
LEMMA MultiEvent ==
    ASSUME MultiInv, NEW c \in Conns, Event(c)
    PROVE  MultiInv'
<1>1. TypeOK /\ Targeted /\ Listed
  BY DEF MultiInv
<1>2. /\ pc = "idle" /\ events[c] > 0 /\ events' = [events EXCEPT ![c] = @ - 1]
      /\ state' = state /\ addrs' = addrs /\ pool' = pool /\ fallback' = fallback /\ made' = made
      /\ status' = status /\ todo' = todo /\ newConn' = newConn /\ newAddrs' = newAddrs
      /\ displaced' = displaced /\ faults' = faults
  BY DEF Event
<1>3. \/ pc' \in {"idle", "ended"} /\ target' = target
      \/ pool[AddrOf(c)] # None /\ pc' = "event" /\ target' = AddrOf(c)
  BY <1>2 DEF Event
<1>4. AddrOf(c) \in Addrs
  BY DEF AddrOf, Conns
<1>5. events' \in [Conns -> Nat]
  BY <1>1, <1>2 DEF TypeOK
<1>6. TypeOK'
  BY <1>1, <1>2, <1>3, <1>4, <1>5 DEF TypeOK, CheckerStates, Connecting
<1>7. newConn = None /\ \A a \in Addrs : pool[a] # None => a \in ToSet(addrs)
  BY <1>1, <1>2 DEF Targeted, Listed, Connecting, Refreshing
<1>8. Targeted'
  BY <1>2, <1>3, <1>4, <1>7 DEF Targeted, Connecting
<1>9. Listed'
  BY <1>2, <1>3, <1>7 DEF Listed, Refreshing
<1> QED BY <1>2, <1>3, <1>6, <1>8, <1>9, ControlStep

\* The timer's loop.
LEMMA MultiTick ==
    ASSUME MultiInv, Tick \/ TickOne \/ CheckerEnds
    PROVE  MultiInv'
<1>1. TypeOK /\ Targeted /\ Listed
  BY DEF MultiInv
<1>2. /\ pc \in {"idle", "tick"} /\ events' = events
      /\ state' = state /\ addrs' = addrs /\ pool' = pool /\ fallback' = fallback /\ made' = made
      /\ status' = status /\ newConn' = newConn /\ newAddrs' = newAddrs
      /\ displaced' = displaced /\ faults' = faults
  BY DEF Tick, TickOne, CheckerEnds, conns
<1>3. \/ pc' = "tick" /\ todo' = ToSet(addrs) /\ target' = target
      \/ pc' \in {"idle", "ended"} /\ todo' = todo /\ target' = target
      \/ pc = "tick" /\ pc' = "tick" /\ todo' \subseteq todo /\ target' = target
      \/ /\ pc = "tick" /\ pc' = "retry" /\ todo' \subseteq todo /\ target' \in todo
         /\ ~Open(pool[target'])
  <2>1. CASE Tick \/ CheckerEnds
    BY <2>1 DEF Tick, CheckerEnds
  <2>2. CASE TickOne
    <3>1. CASE IsClosed /\ todo # {} /\ pc' = "ended" /\ UNCHANGED <<todo, target>>
      BY <3>1
    <3>2. CASE todo = {} /\ pc' = "idle" /\ UNCHANGED <<todo, target>>
      BY <3>2
    <3>3. ASSUME NEW a \in todo, todo' = todo \ {a},
                 IF NeedsConnection(a) THEN pc' = "retry" /\ target' = a ELSE UNCHANGED <<pc, target>>
          PROVE  \/ pc' = pc /\ todo' \subseteq todo /\ target' = target
                 \/ /\ pc' = "retry" /\ todo' \subseteq todo /\ target' \in todo
                    /\ ~Open(pool[target'])
      BY <3>3 DEF NeedsConnection
    <3> QED BY <2>2, <3>1, <3>2, <3>3 DEF TickOne
  <2> QED BY <2>1, <2>2
<1>4. ToSet(addrs) \subseteq Addrs /\ todo \subseteq Addrs
  BY <1>1, ListedAddrs DEF TypeOK
<1>5. TypeOK'
  BY <1>1, <1>2, <1>3, <1>4 DEF TypeOK, CheckerStates, Connecting
<1>6. /\ newConn = None /\ \A a \in Addrs : pool[a] # None => a \in ToSet(addrs)
      /\ pc = "tick" => todo \subseteq ToSet(addrs)
  BY <1>1, <1>2 DEF Targeted, Listed, Connecting, Refreshing
<1>7. Targeted'
  <2>1. CASE pc' \in {"tick", "idle", "ended"}
    BY <1>2, <1>6, <2>1 DEF Targeted, Connecting
  <2>2. CASE /\ pc = "tick" /\ pc' = "retry" /\ todo' \subseteq todo /\ target' \in todo
             /\ ~Open(pool[target'])
    <3>1. /\ ~(pool'[target'] # None /\ status'[pool'[target']] \in {"up", "down"})
          /\ target' \in ToSet(addrs') /\ target' \in Addrs
      BY <1>2, <1>4, <1>6, <2>2 DEF Open
    <3> QED BY <1>2, <1>6, <2>2, <3>1 DEF Targeted, Connecting, Open
  <2> QED BY <1>3, <2>1, <2>2
<1>8. Listed'
  BY <1>2, <1>3, <1>6 DEF Listed, Refreshing
<1> QED BY <1>2, <1>3, <1>5, <1>7, <1>8, ControlStep

\* The list has changed: first the addresses that are new.
LEMMA MultiRefresh ==
    ASSUME MultiInv, Refresh \/ RefreshOne
    PROVE  MultiInv'
<1>1. TypeOK /\ Targeted /\ Listed
  BY DEF MultiInv
<1>2. /\ events' = events
      /\ state' = state /\ addrs' = addrs /\ pool' = pool /\ fallback' = fallback /\ made' = made
      /\ status' = status /\ newConn' = newConn /\ displaced' = displaced /\ faults' \in Nat
  BY <1>1 DEF Refresh, RefreshOne, conns, Fault, TypeOK
<1>3. ToSet(addrs) \subseteq Addrs /\ ToSet(newAddrs) \subseteq Addrs /\ todo \subseteq Addrs
  BY <1>1, ListedAddrs DEF TypeOK
<1>4. CASE Refresh
  <2>1. PICK l \in Discovered : newAddrs' = l /\ todo' = ToSet(l) \ ToSet(addrs)
    BY <1>4 DEF Refresh
  <2>2. l \in Seq(Addrs) /\ ToSet(l) \subseteq Addrs
    BY ListedAddrs
  <2>3. pc = "idle" /\ pc' = "refresh" /\ target' = target
    BY <1>4 DEF Refresh
  <2>4. newConn = None /\ \A a \in Addrs : pool[a] # None => a \in ToSet(addrs)
    BY <1>1, <2>3 DEF Targeted, Listed, Connecting, Refreshing
  <2>5. TypeOK'
    BY <1>1, <1>2, <2>1, <2>2, <2>3 DEF TypeOK, CheckerStates, Refreshing
  <2>6. Targeted'
    BY <1>2, <2>3, <2>4 DEF Targeted, Connecting
  <2>7. Listed'
    BY <1>2, <2>1, <2>3, <2>4 DEF Listed, Refreshing
  <2> QED BY <1>2, <2>3, <2>5, <2>6, <2>7, ControlStep
<1>5. CASE RefreshOne
  <2>1. pc = "refresh" /\ newAddrs' = newAddrs
    BY <1>5 DEF RefreshOne
  <2>2. /\ newConn = None /\ todo \subseteq ToSet(newAddrs) \ ToSet(addrs)
        /\ \A a \in Addrs : pool[a] # None => a \in ToSet(addrs) \cup (ToSet(newAddrs) \ todo)
    BY <1>1, <2>1 DEF Targeted, Listed, Connecting, Refreshing
  <2>3. ASSUME NEW a \in todo, target' = a, todo' = todo \ {a}, pc' = "join" PROVE MultiInv'
    <3>1. a \in Addrs /\ pool[a] = None
      BY <1>3, <2>2, <2>3
    <3>2. TypeOK'
      BY <1>1, <1>2, <2>1, <2>3, <3>1 DEF TypeOK, CheckerStates, Refreshing
    <3>3. Targeted'
      BY <1>2, <2>1, <2>2, <2>3, <3>1 DEF Targeted, Connecting
    <3>4. Listed'
      BY <1>2, <2>1, <2>2, <2>3 DEF Listed, Refreshing
    <3> QED BY <1>2, <2>1, <2>3, <3>2, <3>3, <3>4, ControlStep
  <2>4. CASE todo = {} /\ todo' = ToSet(addrs) \ ToSet(newAddrs) /\ pc' = "clear" /\ target' = target
    <3>1. TypeOK'
      BY <1>1, <1>2, <1>3, <2>1, <2>4 DEF TypeOK, CheckerStates
    <3>2. Targeted'
      BY <1>2, <2>2, <2>4 DEF Targeted, Connecting
    <3>3. Listed'
      BY <1>2, <2>1, <2>2, <2>4 DEF Listed, Refreshing
    <3> QED BY <1>2, <2>1, <2>4, <3>1, <3>2, <3>3, ControlStep
  <2> QED BY <1>5, <2>3, <2>4 DEF RefreshOne
<1> QED BY <1>4, <1>5

\* A request only remembers a fallback.
LEMMA MultiRequest ==
    ASSUME MultiInv, Request
    PROVE  MultiInv'
<1>1. TypeOK
  BY DEF MultiInv
<1>2. /\ fallback' = PassedOver /\ state' = state /\ addrs' = addrs /\ pool' = pool
      /\ made' = made /\ status' = status /\ events' = events /\ pc' = pc /\ todo' = todo
      /\ target' = target /\ newConn' = newConn /\ newAddrs' = newAddrs
      /\ displaced' = displaced /\ faults' = faults
  BY DEF Request, conns, checkerVars
<1>3. fallback' \in Conns \/ fallback' = fallback
  BY <1>1, <1>2, PassedOverType
<1>4. TypeOK'
  BY <1>1, <1>2, <1>3 DEF TypeOK, MaybeConn
<1>5. Started'
  BY <1>2, <1>3 DEF MultiInv, Started
<1> QED BY <1>1, <1>2, <1>4, <1>5, StatusStep DEF MultiInv, TypeOK

\* Connect: a new connection to the target, or none.
LEMMA MultiConnect ==
    ASSUME MultiInv, Connect
    PROVE  MultiInv'
<1>1. TypeOK /\ Targeted /\ Listed /\ Numbered
  BY DEF MultiInv
<1>2. /\ pc \in Connecting /\ newConn = None /\ state' = state /\ addrs' = addrs
      /\ fallback' = fallback /\ todo' = todo /\ newAddrs' = newAddrs
  BY DEF Connect, After, Connecting
<1>3. target \in Addrs /\ pool[target] \in MaybeConn /\ made[target] \in Nat
  BY <1>1, <1>2 DEF Targeted, TypeOK
<1>4. Started'
  <2>1. pc' # "start" /\ pc # "start"
    BY <1>2 DEF Connect, After, Connecting
  <2> QED BY <1>2, <2>1 DEF MultiInv, Started
<1>5. CASE /\ made[target] < MaxConns
           /\ made' = [made EXCEPT ![target] = @ + 1]
           /\ status' = [status EXCEPT ![<<target, made[target] + 1>>] = "up"]
           /\ events' = Notify(<<target, made[target] + 1>>)
           /\ newConn' = <<target, made[target] + 1>>
           /\ UNCHANGED <<pool, pc, target, displaced, faults>>
  <2> DEFINE c == <<target, made[target] + 1>>
  <2>1. made[target] + 1 \in 1 .. MaxConns
    BY <1>3, <1>5
  <2>2. c \in Conns
    BY <1>3, <2>1 DEF Conns
  <2>3. status[c] = "none"
    BY <1>1, <1>3, <2>1 DEF Numbered
  <2>4. TypeOK'
    <3>1. made' \in [Addrs -> 0 .. MaxConns] /\ status' \in [Conns -> {"none", "up", "down", "closed"}]
      BY <1>1, <1>3, <1>5, <2>1, <2>2 DEF TypeOK
    <3>2. events' \in [Conns -> Nat]
      BY <1>1, <1>5, <2>2, NotifyType DEF TypeOK
    <3> QED BY <1>1, <1>2, <1>5, <2>2, <3>1, <3>2 DEF TypeOK, MaybeConn
  <2> HIDE DEF c
  <2>5. /\ status'[c] = "up" /\ \A d \in Conns \ {c} : status'[d] = status[d]
        /\ newConn' = c /\ pool' = pool /\ pc' = pc /\ target' = target /\ displaced' = displaced
    BY <1>1, <1>5, <2>2 DEF TypeOK, c
  <2>6. \A a \in Addrs : pool[a] \in MaybeConn /\ pool[a] # c
    BY <1>1, <2>2, <2>3 DEF TypeOK, Numbered
  <2>7. Numbered'
    <3>1. ASSUME NEW a \in Addrs, NEW n \in 1 .. MaxConns
          PROVE  status'[<<a, n>>] # "none" <=> n <= made'[a]
      <4>1. <<a, n>> \in Conns
        BY DEF Conns
      <4>2. CASE a = target /\ n = made[target] + 1
        BY <1>1, <1>3, <1>5, <2>5, <4>2 DEF TypeOK, c
      <4>3. CASE a = target /\ n # made[target] + 1
        <5>1. <<a, n>> # c /\ made'[a] = made[a] + 1
          BY <1>1, <1>3, <1>5, <4>3 DEF TypeOK, c
        <5>2. status'[<<a, n>>] = status[<<a, n>>]
          BY <2>5, <4>1, <5>1
        <5>3. n <= made[a] <=> n <= made'[a]
          BY <1>3, <4>3, <5>1
        <5> QED BY <1>1, <5>2, <5>3 DEF Numbered
      <4>4. CASE a # target
        <5>1. <<a, n>> # c /\ made'[a] = made[a]
          BY <1>1, <1>3, <1>5, <4>4 DEF TypeOK, c
        <5> QED BY <1>1, <2>5, <4>1, <5>1 DEF Numbered
      <4> QED BY <4>2, <4>3, <4>4
    <3>2. \A a \in Addrs : pool'[a] # None => status'[pool'[a]] # "none"
      BY <1>1, <2>5, <2>6 DEF Numbered, MaybeConn
    <3> QED BY <2>5, <3>1, <3>2 DEF Numbered
  <2>8. Targeted'
    <3>1. pc = "retry" => ~(pool[target] # None /\ status'[pool[target]] \in {"up", "down"})
      BY <1>1, <1>3, <2>5, <2>6 DEF Targeted, Open, MaybeConn
    <3> QED BY <1>1, <1>2, <2>5, <3>1 DEF Targeted, Open
  <2>9. Listed'
    BY <1>1, <1>2, <2>5 DEF Listed
  <2>10. LeakedOnlyIfDisplaced'
    BY <1>2, <2>5 DEF MultiInv, LeakedOnlyIfDisplaced, Open, Pooled
  <2> QED BY <1>4, <2>4, <2>7, <2>8, <2>9, <2>10 DEF MultiInv
<1>6. CASE /\ Fault
           /\ IF pc = "event"
              THEN /\ pool' = [pool EXCEPT ![target] = None]
                   /\ displaced' = displaced \cup {c \in {pool[target]} : Open(c)}
              ELSE UNCHANGED <<pool, displaced>>
           /\ pc' = After[pc] /\ target' = None
           /\ UNCHANGED <<made, status, events, newConn>>
  <2>1. /\ made' = made /\ status' = status /\ events' = events /\ newConn' = None
        /\ target' = None /\ faults' \in Nat
    BY <1>1, <1>2, <1>6 DEF Fault, TypeOK
  <2>2. /\ pc = "event" => pc' = "idle"
        /\ pc = "retry" => pc' = "tick"
        /\ pc = "join" => pc' = "refresh"
    BY <1>6 DEF After
  <2>3. /\ \A a \in Addrs : pool'[a] = pool[a] \/ (a = target /\ pc = "event" /\ pool'[a] = None)
        /\ pool' \in [Addrs -> MaybeConn]
    BY <1>1, <1>3, <1>6 DEF TypeOK, MaybeConn
  <2>4. displaced \subseteq displaced' /\ displaced' \subseteq Conns
    BY <1>1, <1>3, <1>6 DEF TypeOK, MaybeConn, Open
  <2>5. TypeOK'
    BY <1>1, <1>2, <2>1, <2>2, <2>3, <2>4 DEF TypeOK, CheckerStates, Connecting, Refreshing, MaybeConn
  <2>6. Numbered'
    BY <1>1, <2>1, <2>3 DEF Numbered
  <2>7. Targeted'
    BY <1>2, <2>1, <2>2 DEF Targeted, Connecting
  <2>8. Listed'
    BY <1>1, <1>2, <2>2, <2>3 DEF Listed, Connecting, Refreshing
  <2>9. LeakedOnlyIfDisplaced'
    <3> SUFFICES ASSUME NEW d \in Conns, Open(d) PROVE d \in Pooled' \cup displaced'
      BY <2>1 DEF LeakedOnlyIfDisplaced, Open
    <3>1. d # None /\ d \in Pooled \cup displaced
      BY <1>2 DEF MultiInv, LeakedOnlyIfDisplaced, Open
    <3>2. CASE d \in displaced
      BY <2>4, <3>2
    <3>3. CASE d \in Pooled
      <4>1. PICK a \in Addrs : d = pool[a]
        BY <3>3 DEF Pooled
      <4>2. CASE pool'[a] = pool[a]
        BY <3>1, <4>1, <4>2 DEF Pooled
      <4>3. CASE a = target /\ pc = "event"
        BY <1>6, <4>1, <4>3
      <4> QED BY <2>3, <4>2, <4>3
    <3> QED BY <3>1, <3>2, <3>3
  <2> QED BY <1>4, <2>5, <2>6, <2>7, <2>8, <2>9 DEF MultiInv
<1> QED BY <1>5, <1>6 DEF Connect

\* setConnectionToPool: what it replaces is closed, or was displaced by an event.
LEMMA MultiSetToPool ==
    ASSUME MultiInv, SetToPool
    PROVE  MultiInv'
<1>1. TypeOK /\ Targeted /\ Listed /\ Numbered
  BY DEF MultiInv
<1>2. /\ newConn # None /\ pool' = [pool EXCEPT ![target] = newConn]
      /\ displaced' = displaced \cup {c \in {pool[target]} : pc = "event" /\ Open(c)}
      /\ pc' = After[pc] /\ newConn' = None /\ target' = None
      /\ state' = state /\ addrs' = addrs /\ fallback' = fallback /\ made' = made
      /\ status' = status /\ events' = events /\ todo' = todo /\ newAddrs' = newAddrs
      /\ faults' = faults
  BY DEF SetToPool, SetConnection, conns
<1>3. pc \in Connecting /\ target \in Addrs /\ pool[target] \in MaybeConn /\ newConn \in Conns
  BY <1>1, <1>2 DEF Targeted, TypeOK, MaybeConn
<1>4. /\ pc = "event" => pc' = "idle"
      /\ pc = "retry" => pc' = "tick"
      /\ pc = "join" => pc' = "refresh"
  BY <1>2 DEF After
<1>5. pool'[target] = newConn /\ \A a \in Addrs \ {target} : pool'[a] = pool[a]
  BY <1>1, <1>2, <1>3 DEF TypeOK
<1>6. TypeOK'
  <2>1. pool' \in [Addrs -> MaybeConn] /\ displaced' \subseteq Conns
    BY <1>1, <1>2, <1>3 DEF TypeOK, MaybeConn, Open
  <2>2. pc' \in CheckerStates
    BY <1>3, <1>4 DEF CheckerStates, Connecting, Refreshing
  <2> QED BY <1>1, <1>2, <2>1, <2>2 DEF TypeOK, MaybeConn
<1>7. Numbered'
  <2>1. status[newConn] # "none"
    BY <1>1, <1>2 DEF Numbered
  <2> QED BY <1>1, <1>2, <1>5, <2>1 DEF Numbered
<1>8. Targeted'
  BY <1>2, <1>3, <1>4 DEF Targeted, Connecting
<1>9. Listed'
  <2>1. CASE pc = "join"
    BY <1>1, <1>2, <1>4, <1>5, <2>1 DEF Listed, Targeted, Refreshing
  <2>2. CASE pc \in {"event", "retry"}
    BY <1>1, <1>2, <1>4, <1>5, <2>2 DEF Listed, Targeted, Refreshing
  <2> QED BY <1>3, <2>1, <2>2 DEF Connecting
<1>10. LeakedOnlyIfDisplaced'
  <2> SUFFICES ASSUME NEW d \in Conns, Open(d) PROVE d \in Pooled' \cup displaced'
    BY <1>2 DEF LeakedOnlyIfDisplaced, Open
  <2>1. d # None /\ d \in Pooled \cup {newConn} \cup displaced
    BY DEF MultiInv, LeakedOnlyIfDisplaced, Open
  <2>2. CASE d \in displaced
    BY <1>2, <2>2
  <2>3. CASE d = newConn
    BY <1>3, <1>5, <2>1, <2>3 DEF Pooled
  <2>4. CASE d \in Pooled
    <3>1. PICK a \in Addrs : d = pool[a]
      BY <2>4 DEF Pooled
    <3>2. CASE a # target
      BY <1>5, <2>1, <3>1, <3>2 DEF Pooled
    <3>3. CASE a = target /\ pc = "event"
      BY <1>2, <3>1, <3>3
    <3>4. CASE a = target /\ pc \in {"retry", "join"}
      BY <1>1, <2>1, <3>1, <3>4 DEF Targeted
    <3> QED BY <1>3, <3>2, <3>3, <3>4 DEF Connecting
  <2> QED BY <2>1, <2>2, <2>3, <2>4
<1>11. Started'
  <2>1. pc' # "start" /\ pc # "start"
    BY <1>3, <1>4 DEF Connecting
  <2> QED BY <1>2, <2>1 DEF MultiInv, Started
<1> QED BY <1>6, <1>7, <1>8, <1>9, <1>10, <1>11 DEF MultiInv

\* The obsolete addresses: their connections are closed before they are forgotten.
LEMMA MultiClear ==
    ASSUME MultiInv, Clear
    PROVE  MultiInv'
<1>1. TypeOK /\ Targeted /\ Listed /\ Numbered
  BY DEF MultiInv
<1>2. /\ pc = "clear" /\ state' = state /\ fallback' = fallback /\ made' = made
      /\ target' = target /\ newConn' = newConn /\ displaced' = displaced /\ faults' = faults
  BY DEF Clear
<1>3. newConn = None
  BY <1>1, <1>2 DEF Targeted, Connecting
<1>4. ASSUME NEW a \in todo, CloseObsolete(pool[a]), pool' = [pool EXCEPT ![a] = None],
             todo' = todo \ {a}, UNCHANGED <<addrs, pc, newAddrs>>
      PROVE  MultiInv'
  <2>1. a \in Addrs /\ pool[a] \in MaybeConn
    BY <1>1 DEF TypeOK
  <2>2. pool'[a] = None /\ \A b \in Addrs \ {a} : pool'[b] = pool[b]
    BY <1>1, <1>4, <2>1 DEF TypeOK
  <2>3. /\ status' \in [Conns -> {"none", "up", "down", "closed"}]
        /\ \A c \in Conns : (status'[c] = "none") <=> (status[c] = "none")
        /\ \A c \in Conns : status'[c] \in {"up", "down"} => status[c] \in {"up", "down"} /\ c # pool[a]
        /\ events' \in [Conns -> Nat]
    <3>1. CASE Open(pool[a])
      <4>1. pool[a] \in Conns /\ status[pool[a]] \in {"up", "down"}
        BY <2>1, <3>1 DEF Open, MaybeConn
      <4>2. status' = [status EXCEPT ![pool[a]] = "closed"] /\ events' = Notify(pool[a])
        BY <1>4, <3>1 DEF CloseObsolete
      <4> QED BY <1>1, <4>1, <4>2, NotifyType DEF TypeOK
    <3>2. CASE ~Open(pool[a])
      <4>1. status' = status /\ events' = events
        BY <1>4, <3>2 DEF CloseObsolete
      <4> QED BY <1>1, <3>2, <4>1 DEF TypeOK, Open
    <3> QED BY <3>1, <3>2
  <2>4. TypeOK'
    <3>1. pool' \in [Addrs -> MaybeConn] /\ todo' \subseteq Addrs
      BY <1>1, <1>4 DEF TypeOK, MaybeConn
    <3> QED BY <1>1, <1>2, <1>4, <2>3, <3>1 DEF TypeOK
  <2>5. Numbered'
    <3>1. \A b \in Addrs, n \in 1 .. MaxConns : <<b, n>> \in Conns
      BY DEF Conns
    <3>2. ASSUME NEW b \in Addrs, NEW n \in 1 .. MaxConns
          PROVE  status'[<<b, n>>] # "none" <=> n <= made'[b]
      <4>1. (status'[<<b, n>>] = "none") <=> (status[<<b, n>>] = "none")
        BY <2>3, <3>1
      <4> QED BY <1>1, <1>2, <4>1 DEF Numbered
    <3>3. \A b \in Addrs : pool'[b] # None => pool'[b] = pool[b] /\ pool[b] \in Conns
      BY <1>1, <2>2 DEF TypeOK, MaybeConn
    <3>4. \A b \in Addrs : pool'[b] # None => status'[pool'[b]] # "none"
      BY <1>1, <2>3, <3>3 DEF Numbered
    <3> QED BY <1>2, <1>3, <3>2, <3>4 DEF Numbered
  <2>6. Targeted'
    BY <1>2, <1>3, <1>4 DEF Targeted, Connecting
  <2>7. Listed'
    BY <1>1, <1>2, <1>4, <2>2 DEF Listed, Refreshing
  <2>8. LeakedOnlyIfDisplaced'
    <3> SUFFICES ASSUME NEW d \in Conns, status'[d] \in {"up", "down"} PROVE d \in Pooled' \cup displaced
      BY <1>2 DEF LeakedOnlyIfDisplaced, Open
    <3>1. d # pool[a] /\ d # None /\ Open(d)
      BY <2>3 DEF Open
    <3>2. d \in Pooled \cup displaced
      BY <1>3, <3>1 DEF MultiInv, LeakedOnlyIfDisplaced
    <3>3. CASE d \in Pooled
      <4>1. PICK b \in Addrs \ {a} : d = pool[b]
        BY <3>1, <3>3 DEF Pooled
      <4> QED BY <2>2, <3>1, <4>1 DEF Pooled
    <3> QED BY <3>2, <3>3
  <2>9. Started'
    BY <1>2, <1>4 DEF MultiInv, Started
  <2> QED BY <2>4, <2>5, <2>6, <2>7, <2>8, <2>9 DEF MultiInv
<1>5. CASE /\ todo = {} /\ addrs' = newAddrs /\ newAddrs' = << >> /\ pc' = "idle"
           /\ UNCHANGED <<pool, status, events, todo>>
  <2>1. pool' = pool /\ status' = status /\ events' = events /\ todo' = todo
    BY <1>5
  <2>2. TypeOK'
    BY <1>1, <1>2, <1>5, <2>1, EmptySeq DEF TypeOK, CheckerStates
  <2>3. Numbered'
    BY <1>1, <1>2, <2>1 DEF Numbered
  <2>4. Targeted'
    BY <1>2, <1>3, <1>5 DEF Targeted, Connecting
  <2>5. Listed'
    BY <1>1, <1>2, <1>5, <2>1 DEF Listed, Refreshing
  <2>6. LeakedOnlyIfDisplaced'
    BY <1>2, <2>1 DEF MultiInv, LeakedOnlyIfDisplaced, Open, Pooled
  <2>7. Started'
    BY <1>2, <1>5 DEF MultiInv, Started
  <2> QED BY <2>2, <2>3, <2>4, <2>5, <2>6, <2>7 DEF MultiInv
<1> QED BY <1>4, <1>5 DEF Clear, DeleteObsolete

\* Every step keeps the invariant.
LEMMA MultiInductive == MultiInv /\ [Next]_vars => MultiInv'
<1> SUFFICES ASSUME MultiInv, [Next]_vars PROVE MultiInv'
  OBVIOUS
<1>1. CASE WarmUp
  BY <1>1, MultiWarmUp
<1>2. CASE Checker
  BY <1>2, MultiTick, MultiRefresh, MultiConnect, MultiSetToPool, MultiClear, MultiEvent DEF Checker
<1>3. CASE Request
  BY <1>3, MultiRequest
<1>4. CASE Close \/ (\E c \in Conns : Break(c) \/ Settle(c))
  BY <1>4, MultiStatus
<1>5. CASE UNCHANGED vars
  <2>1. /\ state' = state /\ addrs' = addrs /\ pool' = pool /\ fallback' = fallback
        /\ made' = made /\ status' = status /\ events' = events /\ pc' = pc /\ todo' = todo
        /\ target' = target /\ newConn' = newConn /\ newAddrs' = newAddrs
        /\ displaced' = displaced /\ faults' = faults
    BY <1>5 DEF vars, conns, checkerVars
  <2>2. TypeOK' /\ Started'
    BY <2>1 DEF MultiInv, TypeOK, Started
  <2> QED BY <2>1, <2>2, StatusStep DEF MultiInv, TypeOK
<1> QED BY <1>1, <1>2, <1>3, <1>4, <1>5 DEF Next

\* The invariant of the multi connection holds in every behaviour.
LEMMA MultiInvHolds == Spec => []MultiInv
  BY MultiInit, MultiInductive, PTL DEF Spec

\* getCurrentConnection never returns nil once Connect has succeeded: whatever
\* the checker takes out of the pool, there is a fallback.
THEOREM CurrentNotNilHolds == Spec => []CurrentNotNil
<1>1. MultiInv => CurrentNotNil
  <2> SUFFICES ASSUME MultiInv, state \in {"connected", "closed"} PROVE Current # None
    BY DEF CurrentNotNil
  <2>1. TypeOK /\ fallback # None
    BY DEF MultiInv, Started
  <2>2. CASE UpInOrder = {}
    BY <2>1, <2>2, PassedOverType DEF Current
  <2>3. CASE UpInOrder # {}
    <3>1. UpInOrder \in SUBSET Nat
      BY <2>1, ListedAddrs DEF UpInOrder, InOrder, TypeOK
    <3>2. Min(UpInOrder) \in UpInOrder
      BY <2>3, <3>1, LeastExists
    <3> QED BY <2>3, <3>2 DEF Current, UpInOrder, InOrder
  <2> QED BY <2>2, <2>3
<1> QED BY <1>1, MultiInvHolds, PTL

\* Every open connection is in the pool or on its way into it, unless an event
\* displaced it, and between its turns the checker leaves connections to the
\* addresses of the current list only.
THEOREM ConnectionsKeptHolds == Spec => []ConnectionsKept
<1>1. MultiInv => ConnectionsKept
  BY DEF MultiInv, ConnectionsKept, PoolFollowsAddrs, Listed, Refreshing
<1> QED BY <1>1, MultiInvHolds, PTL

=============================================================================
