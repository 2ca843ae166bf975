---------------------------- MODULE WatchProofs -----------------------------
(* Theorems about Watch, for every number of watchers, connections and     *)
(* broadcasts and every largest version.                                   *)
EXTENDS Watch, TLAPS, FiniteSetTheorems, SequenceTheorems

USE WatchAssumption

-----------------------------------------------------------------------------
(* The strengthening that makes the properties inductive.                  *)

\* A watcher that has stored a watch state and not yet announced it, and the last
\* watcher that has not yet removed it, own the entry of watchMap.
Storing == {"watch", "undo", "ready"}
Owning == Storing \cup {"unwatch", "delete"}
Joining == {"take", "wait"}

OwnState ==
    \A w \in Watchers :
        /\ pc[w] \in Owning => st[w] \in Watchers /\ watchMap = st[w] /\ ~IsReady(st[w])
        /\ pc[w] \in Storing => st[w] = w

OneOwner == \A w, x \in Watchers : pc[w] \in Owning /\ pc[x] \in Owning => w = x

\* A watch state that was removed from watchMap never becomes ready again, so that
\* a watcher that still holds it cannot join it.
ReadyInMap == \A s \in Watchers : IsReady(s) => watchMap = s

Loaded == \A w \in Watchers : pc[w] \in Joining \cup Running => st[w] \in Watchers

Control == OwnState /\ OneOwner /\ ReadyInMap /\ Loaded /\ RegisteredInMap /\ CntCountsWatchers

\* A connection that went down may be dialled again: the bound is on Disconnect.
MayDial == conn = "down" => dials < MaxDials

WatchInv == TypeOK /\ Control /\ InitialVersionMeansNoEvent /\ MayDial

\* Whether the server watches the key once it has seen what was sent to it.
WillWatch == IF out = << >> THEN server.watching ELSE out[Len(out)] = "WATCH"

\* A watch state is ready, or about to become so after its WATCH was packed.
Offered == (\E s \in Watchers : IsReady(s)) \/ (\E w \in Watchers : pc[w] = "ready")

\* On one connection the server will watch the key as long as it is offered.
SubscribedInv ==
    /\ dials = 1 /\ conn \in {"up", "closed"}
    /\ conn = "up" /\ Offered => WillWatch

-----------------------------------------------------------------------------
(* Steps of the control flow.                                              *)

\* A part of the watchers is finite, so that its cardinality is a number.
LEMMA RegisteredFinite ==
    \A s : IsFiniteSet(Registered(s)) /\ Cardinality(Registered(s)) \in Nat
<1> TAKE s
<1>1. Registered(s) \subseteq Watchers
  BY DEF Registered
<1> QED BY <1>1, FS_Subset, FS_CardinalityType

\* A step that moves nobody and keeps the counts and channels of the watch states.
LEMMA ControlKept ==
    ASSUME Control, watchMap' = watchMap, pc' = pc, st' = st,
           \A s \in Watchers : states'[s].cnt = states[s].cnt /\ states'[s].unready = states[s].unready
    PROVE  Control'
<1>1. \A s : Registered(s)' = Registered(s)
  BY DEF Registered
<1>2. CntCountsWatchers'
  BY <1>1 DEF CntCountsWatchers, Control
<1>3. OwnState'
  BY DEF OwnState, Control, IsReady
<1>4. OneOwner' /\ Loaded'
  BY DEF OneOwner, Loaded, Control
<1>5. ReadyInMap'
  BY DEF ReadyInMap, Control, IsReady
<1>6. RegisteredInMap'
  BY DEF RegisteredInMap, Control, IsReady, Loaded
<1> QED BY <1>2, <1>3, <1>4, <1>5, <1>6 DEF Control

\* A step of one watcher that neither enters nor leaves the running ones and does
\* not become an owner or a joining one by it.
LEMMA ControlMoved ==
    ASSUME Control, pc \in [Watchers -> PCs], NEW w \in Watchers, NEW l,
           watchMap' = watchMap, st' = st, pc' = [pc EXCEPT ![w] = l],
           \A s \in Watchers : states'[s].cnt = states[s].cnt /\ states'[s].unready = states[s].unready,
           l \in Running <=> pc[w] \in Running, l \in Owning => pc[w] \in Owning,
           l \in Storing => pc[w] \in Storing, l \in Joining => pc[w] \in Joining
    PROVE  Control'
<1>0. pc'[w] = l /\ \A x \in Watchers \ {w} : pc'[x] = pc[x]
  OBVIOUS
<1>1. \A s : Registered(s)' = Registered(s)
  BY <1>0 DEF Registered
<1>2. CntCountsWatchers'
  BY <1>1 DEF CntCountsWatchers, Control
<1>3. OwnState'
  BY <1>0 DEF OwnState, Control, IsReady
<1>4. OneOwner'
  BY <1>0 DEF OneOwner, Control
<1>5. Loaded'
  BY <1>0 DEF Loaded, Control
<1>6. ReadyInMap'
  BY DEF ReadyInMap, Control, IsReady
<1>7. RegisteredInMap'
  BY <1>0 DEF RegisteredInMap, Control, IsReady, Loaded
<1> QED BY <1>2, <1>3, <1>4, <1>5, <1>6, <1>7 DEF Control

\* Load finds the entry of watchMap or none.
LEMMA ControlLoad ==
    ASSUME WatchInv, NEW w \in Watchers, Load(w) PROVE Control'
<1> DEFINE l == IF watchMap = None THEN "store" ELSE "take"
<1>1. /\ pc[w] = "load" /\ st' = [st EXCEPT ![w] = watchMap] /\ pc' = [pc EXCEPT ![w] = l]
      /\ watchMap' = watchMap /\ states' = states
      /\ pc \in [Watchers -> PCs] /\ st \in [Watchers -> Watchers \cup {None}]
      /\ watchMap \in Watchers \cup {None}
  BY DEF Load, GoTo, WatchInv, TypeOK
<1>2. /\ pc'[w] = l /\ st'[w] = watchMap
      /\ \A x \in Watchers \ {w} : pc'[x] = pc[x] /\ st'[x] = st[x]
  BY <1>1
<1>3. /\ pc[w] \notin Running /\ l \notin Running /\ l \notin Owning /\ l \notin Storing
      /\ l \in Joining => watchMap \in Watchers
  BY <1>1 DEF Running, Owning, Storing, Joining
<1> HIDE DEF l
<1>4. \A s : Registered(s)' = Registered(s)
  BY <1>2, <1>3 DEF Registered
<1>5. CntCountsWatchers'
  BY <1>1, <1>4 DEF CntCountsWatchers, Control, WatchInv
<1>6. OwnState'
  BY <1>1, <1>2, <1>3 DEF OwnState, Control, IsReady, WatchInv
<1>7. OneOwner'
  BY <1>2, <1>3 DEF OneOwner, Control, WatchInv
<1>8. Loaded'
  BY <1>2, <1>3 DEF Loaded, Control, WatchInv
<1>9. ReadyInMap'
  BY <1>1 DEF ReadyInMap, Control, IsReady, WatchInv
<1>10. RegisteredInMap'
  BY <1>1, <1>2, <1>3 DEF RegisteredInMap, Control, IsReady, WatchInv
<1> QED BY <1>5, <1>6, <1>7, <1>8, <1>9, <1>10 DEF Control

\* LoadOrStore makes the watcher the owner when there was no entry.
LEMMA ControlStore ==
    ASSUME WatchInv, NEW w \in Watchers, LoadOrStore(w) PROVE Control'
<1> DEFINE l == IF watchMap = None THEN "watch" ELSE "take"
           m == IF watchMap = None THEN w ELSE watchMap
<1>1. /\ pc[w] = "store" /\ st' = [st EXCEPT ![w] = m] /\ pc' = [pc EXCEPT ![w] = l]
      /\ watchMap' = m /\ states' = states
      /\ pc \in [Watchers -> PCs] /\ st \in [Watchers -> Watchers \cup {None}]
      /\ watchMap \in Watchers \cup {None}
  BY DEF LoadOrStore, GoTo, WatchInv, TypeOK
<1>2. /\ pc'[w] = l /\ st'[w] = m /\ m \in Watchers
      /\ \A x \in Watchers \ {w} : pc'[x] = pc[x] /\ st'[x] = st[x]
  BY <1>1
<1>3. /\ pc[w] \notin Running /\ l \notin Running
      /\ l \in Owning => watchMap = None /\ m = w
      /\ l \in Storing => watchMap = None /\ m = w
      /\ watchMap # None => m = watchMap
  BY <1>1 DEF Running, Owning, Storing
<1>4. watchMap = None =>
          /\ \A s \in Watchers : ~IsReady(s)
          /\ \A x \in Watchers : pc[x] \notin Owning /\ pc[x] \notin Running
  BY DEF WatchInv, Control, ReadyInMap, OwnState, RegisteredInMap, Loaded
<1> HIDE DEF l, m
<1>5. \A s : Registered(s)' = Registered(s)
  BY <1>2, <1>3 DEF Registered
<1>6. CntCountsWatchers'
  BY <1>1, <1>5 DEF CntCountsWatchers, Control, WatchInv
<1>7. OwnState'
  <2> SUFFICES ASSUME NEW x \in Watchers
               PROVE  /\ pc'[x] \in Owning =>
                            st'[x] \in Watchers /\ watchMap' = st'[x] /\ ~IsReady(st[x])'
                      /\ pc'[x] \in Storing => st'[x] = x
    BY DEF OwnState
  <2>1. CASE x = w
    BY <1>1, <1>2, <1>3, <1>4, <2>1 DEF IsReady
  <2>2. CASE x # w
    BY <1>1, <1>2, <1>3, <1>4, <2>2 DEF IsReady, WatchInv, Control, OwnState, Storing, Owning
  <2> QED BY <2>1, <2>2
<1>8. OneOwner'
  BY <1>2, <1>3, <1>4 DEF OneOwner, Control, WatchInv
<1>9. Loaded'
  BY <1>2, <1>3 DEF Loaded, Control, WatchInv
<1>10. ReadyInMap'
  BY <1>1, <1>3, <1>4 DEF ReadyInMap, Control, IsReady, WatchInv
<1>11. RegisteredInMap'
  BY <1>1, <1>2, <1>3, <1>4 DEF RegisteredInMap, Control, IsReady, WatchInv
<1> QED BY <1>6, <1>7, <1>8, <1>9, <1>10, <1>11 DEF Control

\* The owner removes the entry: nobody can run on a watch state that is not ready.
LEMMA ControlRemove ==
    ASSUME WatchInv, NEW w \in Watchers, pc[w] \in Owning, NEW l \in {"failed", "finished"},
           watchMap' = None, pc' = [pc EXCEPT ![w] = l], st' = st, states' = states
    PROVE  Control'
<1>0. /\ pc'[w] = l /\ \A x \in Watchers \ {w} : pc'[x] = pc[x]
      /\ l \notin Running /\ l \notin Owning /\ l \notin Storing /\ l \notin Joining
      /\ pc[w] \notin Running
  BY DEF WatchInv, TypeOK, Running, Owning, Storing, Joining
<1>1. /\ \A s \in Watchers : ~IsReady(s)
      /\ \A x \in Watchers : pc[x] \notin Running
      /\ \A x \in Watchers \ {w} : pc[x] \notin Owning
  <2>1. st[w] \in Watchers /\ watchMap = st[w] /\ ~IsReady(st[w])
    BY DEF WatchInv, Control, OwnState
  <2>2. \A s \in Watchers : ~IsReady(s)
    BY <2>1 DEF WatchInv, Control, ReadyInMap
  <2>3. \A x \in Watchers \ {w} : pc[x] \notin Owning
    BY DEF WatchInv, Control, OneOwner
  <2> QED BY <2>1, <2>2, <2>3 DEF WatchInv, Control, RegisteredInMap, Loaded
<1>2. \A s : Registered(s)' = Registered(s)
  BY <1>0 DEF Registered
<1>3. CntCountsWatchers'
  BY <1>2 DEF CntCountsWatchers, Control, WatchInv
<1>4. OwnState' /\ OneOwner'
  BY <1>0, <1>1 DEF OwnState, OneOwner, Storing, Owning
<1>5. Loaded'
  BY <1>0 DEF Loaded, Control, WatchInv
<1>6. ReadyInMap'
  BY <1>1 DEF ReadyInMap, IsReady
<1>7. RegisteredInMap'
  BY <1>0, <1>1 DEF RegisteredInMap
<1> QED BY <1>3, <1>4, <1>5, <1>6, <1>7 DEF Control

\* The owner announces its watch state and is the first to run on it.
LEMMA ControlReady ==
    ASSUME WatchInv, NEW w \in Watchers, SubscribeReady(w) PROVE Control'
<1>1. /\ pc[w] = "ready" /\ pc' = [pc EXCEPT ![w] = "read"] /\ st' = st /\ watchMap' = watchMap
      /\ states' = [states EXCEPT ![w].cnt = 1, ![w].unready = 0]
      /\ pc \in [Watchers -> PCs] /\ states \in [Watchers -> WatchState]
  BY DEF SubscribeReady, GoTo, WatchInv, TypeOK
<1>2. /\ pc'[w] = "read" /\ \A x \in Watchers \ {w} : pc'[x] = pc[x]
      /\ states'[w].cnt = 1 /\ states'[w].unready = 0
      /\ \A s \in Watchers \ {w} : states'[s] = states[s]
  BY <1>1 DEF WatchState
<1>3. "read" \in Running /\ "read" \notin Owning /\ "read" \notin Storing /\ pc[w] \in Storing
      /\ pc[w] \in Owning
  BY <1>1 DEF Running, Owning, Storing
<1>4. st[w] = w /\ watchMap = w /\ \A s \in Watchers : ~IsReady(s)
  BY <1>3 DEF WatchInv, Control, OwnState, ReadyInMap
<1>5. \A x \in Watchers : pc[x] \notin Running /\ (x # w => pc[x] \notin Owning)
  BY <1>3, <1>4 DEF WatchInv, Control, OneOwner, RegisteredInMap, Loaded
<1>6. Registered(w)' = {w} /\ \A s \in Watchers \ {w} : Registered(s)' = {} /\ Registered(s) = {}
  BY <1>1, <1>2, <1>3, <1>4, <1>5 DEF Registered
<1>7. CntCountsWatchers'
  <2> SUFFICES ASSUME NEW s \in Watchers PROVE states'[s].cnt = Cardinality(Registered(s)')
    BY DEF CntCountsWatchers
  <2>1. CASE s = w
    BY <1>2, <1>6, <2>1, FS_Singleton
  <2>2. CASE s # w
    <3>1. Registered(s)' = Registered(s) /\ states'[s] = states[s]
      BY <1>2, <1>6, <2>2
    <3> QED BY <3>1 DEF CntCountsWatchers, WatchInv, Control
  <2> QED BY <2>1, <2>2
<1>8. OwnState' /\ OneOwner'
  BY <1>2, <1>3, <1>5 DEF OwnState, OneOwner, Owning
<1>9. Loaded'
  BY <1>1, <1>2, <1>4 DEF Loaded, WatchInv, Control
<1>10. ReadyInMap'
  BY <1>1, <1>2, <1>4 DEF ReadyInMap, IsReady
<1>11. RegisteredInMap'
  BY <1>1, <1>2, <1>4, <1>5 DEF RegisteredInMap, IsReady
<1> QED BY <1>7, <1>8, <1>9, <1>10, <1>11 DEF Control

\* A watcher that joins a ready watch state, which is the one in watchMap.
LEMMA ControlJoin ==
    ASSUME WatchInv, NEW w \in Watchers, pc[w] = "take", IsReady(st[w]),
           states' = Update(st[w], "cnt", states[st[w]].cnt + 1),
           pc' = [pc EXCEPT ![w] = "read"], st' = st, watchMap' = watchMap
    PROVE  Control'
<1>0. PICK t \in Watchers : t = st[w]
  BY DEF WatchInv, Control, Loaded, Joining
<1>1. pc \in [Watchers -> PCs] /\ states \in [Watchers -> WatchState] /\ t = st[w]
      /\ watchMap = t
  BY <1>0 DEF WatchInv, TypeOK, Control, ReadyInMap
<1>2. /\ pc'[w] = "read" /\ \A x \in Watchers \ {w} : pc'[x] = pc[x]
      /\ states'[t].cnt = states[t].cnt + 1 /\ states'[t].unready = states[t].unready
      /\ \A s \in Watchers \ {t} : states'[s] = states[s]
  BY <1>1 DEF WatchState, Update
<1>3. /\ "read" \in Running /\ "read" \notin Owning /\ "read" \notin Storing
      /\ pc[w] \notin Running
  BY DEF Running, Owning, Storing
<1>4. Registered(t)' = Registered(t) \cup {w} /\ w \notin Registered(t)
      /\ \A s \in Watchers \ {t} : Registered(s)' = Registered(s)
  BY <1>1, <1>2, <1>3 DEF Registered
<1>5. Cardinality(Registered(t)') = Cardinality(Registered(t)) + 1
  BY <1>4, RegisteredFinite, FS_AddElement
<1>6. CntCountsWatchers'
  <2> SUFFICES ASSUME NEW s \in Watchers PROVE states'[s].cnt = Cardinality(Registered(s)')
    BY DEF CntCountsWatchers
  <2>1. CASE s = t
    BY <1>2, <1>5, <2>1 DEF CntCountsWatchers, WatchInv, Control
  <2>2. CASE s # t
    BY <1>2, <1>4, <2>2 DEF CntCountsWatchers, WatchInv, Control
  <2> QED BY <2>1, <2>2
<1>7. \A s \in Watchers : states'[s].unready = states[s].unready
  BY <1>1, <1>2
<1>8. OwnState'
  BY <1>2, <1>3, <1>7 DEF OwnState, WatchInv, Control, IsReady
<1>9. OneOwner'
  BY <1>2, <1>3 DEF OneOwner, WatchInv, Control
<1>10. Loaded'
  BY <1>1, <1>2 DEF Loaded, WatchInv, Control
<1>11. ReadyInMap'
  BY <1>7 DEF ReadyInMap, IsReady, WatchInv, Control
<1>12. RegisteredInMap'
  <2>1. \A x \in Watchers : pc'[x] \in Running => watchMap = st[x] /\ IsReady(st[x])
    BY <1>1, <1>2 DEF RegisteredInMap, WatchInv, Control
  <2> QED BY <1>1, <1>7, <2>1 DEF RegisteredInMap, IsReady
<1> QED BY <1>6, <1>8, <1>9, <1>10, <1>11, <1>12 DEF Control

\* A watcher that leaves: the last one takes over the entry of watchMap.
LEMMA ControlLeave ==
    ASSUME WatchInv, NEW w \in Watchers, SelectDone(w)
    PROVE  Control' /\ states[st[w]].cnt \in Nat \ {0}
<1>0. PICK t \in Watchers : t = st[w]
  BY DEF WatchInv, Control, Loaded, SelectDone, Running
<1> DEFINE n == states[t].cnt - 1
           l == IF n = 0 THEN "unwatch" ELSE "finished"
<1>1. pc \in [Watchers -> PCs] /\ states \in [Watchers -> WatchState] /\ pc[w] = "select"
  BY DEF WatchInv, TypeOK, SelectDone
<1>2. t = st[w] /\ watchMap = t /\ IsReady(t) /\ pc[w] \in Running
  BY <1>0, <1>1 DEF WatchInv, Control, RegisteredInMap, Running
<1>3. /\ pc' = [pc EXCEPT ![w] = l] /\ st' = st /\ watchMap' = watchMap
      /\ states' = [states EXCEPT ![t].cnt = n, ![t].unready = IF n = 0 THEN 2 ELSE @]
  BY <1>0 DEF SelectDone, GoTo, IsLast
<1>4. /\ pc'[w] = l /\ \A x \in Watchers \ {w} : pc'[x] = pc[x]
      /\ states'[t].cnt = n
      /\ states'[t].unready = IF n = 0 THEN 2 ELSE states[t].unready
      /\ \A s \in Watchers \ {t} : states'[s] = states[s]
  BY <1>1, <1>2, <1>3 DEF WatchState
<1>5. l \notin Running /\ l \notin Storing /\ l \notin Joining /\ (l \in Owning <=> n = 0)
  BY DEF Running, Owning, Storing, Joining
<1>6. Registered(t)' = Registered(t) \ {w} /\ w \in Registered(t)
      /\ \A s \in Watchers \ {t} : Registered(s)' = Registered(s)
  BY <1>2, <1>3, <1>4, <1>5 DEF Registered
<1>7. states[t].cnt = Cardinality(Registered(t)) /\ states[t].cnt \in Nat
  BY <1>2, RegisteredFinite DEF WatchInv, Control, CntCountsWatchers
<1>8. Cardinality(Registered(t)') = n /\ n \in Nat
  <2>1. Cardinality(Registered(t) \ {w}) = Cardinality(Registered(t)) - 1
    BY <1>6, RegisteredFinite, FS_RemoveElement
  <2>2. IsFiniteSet(Registered(t) \ {w})
    BY RegisteredFinite, FS_RemoveElement
  <2>3. Cardinality(Registered(t) \ {w}) \in Nat
    BY <2>2, FS_CardinalityType
  <2> QED BY <1>6, <1>7, <2>1, <2>3
<1>9. n = 0 => Registered(t)' = {}
  <2>1. IsFiniteSet(Registered(t)')
    BY <1>6, RegisteredFinite, FS_RemoveElement
  <2> QED BY <1>8, <2>1, FS_EmptySet
<1> HIDE DEF n, l
<1>10. n = 0 => \A x \in Watchers : pc'[x] \notin Running
  <2>1. \A x \in Watchers : pc'[x] \in Running => x \in Registered(t)'
    BY <1>2, <1>3, <1>4, <1>5 DEF WatchInv, Control, RegisteredInMap, Registered
  <2> QED BY <1>9, <2>1
<1>11. \A x \in Watchers : pc[x] \notin Owning
  BY <1>2 DEF WatchInv, Control, OwnState
<1>12. CntCountsWatchers'
  <2> SUFFICES ASSUME NEW s \in Watchers PROVE states'[s].cnt = Cardinality(Registered(s)')
    BY DEF CntCountsWatchers
  <2>1. CASE s = t
    BY <1>4, <1>8, <2>1
  <2>2. CASE s # t
    BY <1>4, <1>6, <2>2 DEF CntCountsWatchers, WatchInv, Control
  <2> QED BY <2>1, <2>2
<1>13. OwnState'
  <2>1. \A x \in Watchers : pc'[x] \in Owning => x = w /\ n = 0
    BY <1>4, <1>5, <1>11
  <2>2. \A x \in Watchers : pc'[x] \notin Storing
    BY <1>4, <1>5, <1>11 DEF Owning
  <2>3. n = 0 => st'[w] \in Watchers /\ watchMap' = st'[w] /\ states'[st'[w]].unready # 0
    BY <1>2, <1>3, <1>4
  <2> QED BY <2>1, <2>2, <2>3 DEF OwnState, IsReady
<1>14. OneOwner'
  BY <1>4, <1>11 DEF OneOwner
<1>15. Loaded'
  BY <1>3, <1>4, <1>5 DEF Loaded, WatchInv, Control
<1>16. ReadyInMap'
  BY <1>2, <1>3, <1>4 DEF ReadyInMap, IsReady, WatchInv, Control
<1>17. RegisteredInMap'
  BY <1>2, <1>3, <1>4, <1>5, <1>10 DEF RegisteredInMap, IsReady, WatchInv, Control
<1>18. states[st[w]].cnt \in Nat \ {0}
  BY <1>0, <1>7, <1>8 DEF n
<1> QED BY <1>12, <1>13, <1>14, <1>15, <1>16, <1>17, <1>18 DEF Control

-----------------------------------------------------------------------------
(* Types and versions, one step after another.                             *)

Requests == {"WATCH", "UNWATCH"}
ServerState == [watching : BOOLEAN, sent : {NoValue} \cup Nat, acked : BOOLEAN]

\* The type invariant in two parts: the client and the network.
ClientType ==
    /\ watchMap \in Watchers \cup {None}
    /\ states \in [Watchers -> WatchState]
    /\ closed \subseteq Watchers \X (1..2)
    /\ pc \in [Watchers -> PCs]
    /\ st \in [Watchers -> Watchers \cup {None}]
    /\ local \in [Watchers -> WatchState]
    /\ version \in [Watchers -> 0..MaxVersion]
    /\ delivered \in [Watchers -> {NoValue} \cup Nat]

NetType ==
    /\ conn \in {"up", "down", "dialing", "closed"}
    /\ dials \in Dials
    /\ done \subseteq Watchers
    /\ out \in Seq(Requests)
    /\ events \in [Dials -> Seq(Nat)]
    /\ server \in ServerState
    /\ value \in 0..MaxBroadcasts
    /\ MayDial

\* The two parts are the type invariant, before and after a step.
LEMMA TypeParts ==
    /\ TypeOK /\ MayDial <=> ClientType /\ NetType
    /\ (TypeOK /\ MayDial <=> ClientType /\ NetType)'
BY DEF TypeOK, ClientType, NetType, Requests, ServerState

\* Assignments to the fields of a watch state keep it one.
LEMMA StateTypes ==
    ASSUME NEW r \in WatchState, NEW c \in Nat, NEW d \in Nat, NEW u \in 0..2
    PROVE  /\ [r EXCEPT !.cnt = c, !.unready = u] \in WatchState
           /\ [r EXCEPT !.cnt = c] \in WatchState
           /\ [r EXCEPT !.ack = TRUE] \in WatchState
           /\ [r EXCEPT !.changed = c, !.made = d] \in WatchState
<1>1. [r EXCEPT !.cnt = c, !.unready = u] \in WatchState
  BY DEF WatchState
<1>2. [r EXCEPT !.cnt = c] \in WatchState
  BY DEF WatchState
<1>3. [r EXCEPT !.ack = TRUE] \in WatchState
  BY DEF WatchState
<1>4. [r EXCEPT !.changed = c, !.made = d] \in WatchState
  BY DEF WatchState
<1> QED BY <1>1, <1>2, <1>3, <1>4

\* The same in the function of all watch states.
LEMMA StatesTypes ==
    ASSUME states \in [Watchers -> WatchState], NEW s \in Watchers, NEW c \in Nat, NEW u \in 0..2
    PROVE  /\ [states EXCEPT ![s].cnt = c, ![s].unready = u] \in [Watchers -> WatchState]
           /\ [states EXCEPT ![s].cnt = c] \in [Watchers -> WatchState]
           /\ [states EXCEPT ![s].ack = TRUE] \in [Watchers -> WatchState]
<1> DEFINE r == states[s]
<1>1. r \in WatchState
  OBVIOUS
<1>2. [states EXCEPT ![s].cnt = c, ![s].unready = u]
          = [states EXCEPT ![s] = [r EXCEPT !.cnt = c, !.unready = u]]
  BY DEF WatchState
<1>3. /\ [states EXCEPT ![s].cnt = c] = [states EXCEPT ![s] = [r EXCEPT !.cnt = c]]
      /\ [states EXCEPT ![s].ack = TRUE] = [states EXCEPT ![s] = [r EXCEPT !.ack = TRUE]]
  OBVIOUS
<1>4. ASSUME NEW v \in WatchState
      PROVE  [states EXCEPT ![s] = v] \in [Watchers -> WatchState]
  OBVIOUS
<1> HIDE DEF r
<1>5. /\ [r EXCEPT !.cnt = c, !.unready = u] \in WatchState /\ [r EXCEPT !.cnt = c] \in WatchState
      /\ [r EXCEPT !.ack = TRUE] \in WatchState
  BY <1>1, StateTypes
<1> QED BY <1>2, <1>3, <1>4, <1>5, Zenon

\* A step that changes nothing of the client keeps what is true of the client.
LEMMA ClientKept ==
    ASSUME WatchInv, clientVars' = clientVars
    PROVE  ClientType' /\ Control' /\ InitialVersionMeansNoEvent'
<1>1. /\ watchMap' = watchMap /\ states' = states /\ closed' = closed /\ pc' = pc /\ st' = st
      /\ local' = local /\ version' = version /\ delivered' = delivered
  BY DEF clientVars
<1>2. ClientType'
  BY <1>1, TypeParts DEF WatchInv, ClientType
<1>3. Control'
  BY <1>1, ControlKept DEF WatchInv
<1>4. InitialVersionMeansNoEvent'
  BY <1>1 DEF WatchInv, InitialVersionMeansNoEvent
<1> QED BY <1>2, <1>3, <1>4

\* A step that changes nothing of the network keeps its types.
LEMMA NetKept ==
    ASSUME WatchInv, conn' = conn, dials' = dials, done' = done, out' = out, events' = events,
           server' = server, value' = value
    PROVE  NetType'
BY TypeParts DEF WatchInv, NetType, MayDial

\* Do appends a request at most.
LEMMA DoTypes ==
    ASSUME WatchInv, NEW req \in Requests, NEW w \in Watchers, NEW l, NEW m,
           Do(req, w, l, m), conn' = conn, dials' = dials, done' = done, events' = events,
           server' = server, value' = value
    PROVE  NetType' /\ (pc' = [pc EXCEPT ![w] = l] \/ pc' = [pc EXCEPT ![w] = m])
<1>1. out \in Seq(Requests)
  BY TypeParts DEF WatchInv, NetType
<1>2. out' \in Seq(Requests)
  BY <1>1, AppendProperties DEF Do
<1> QED BY <1>2, TypeParts DEF WatchInv, NetType, MayDial, Do, GoTo

\* A step of one watcher that leaves the watch states alone.
LEMMA MoveInv ==
    ASSUME WatchInv, NetType', NEW w \in Watchers, NEW l \in PCs,
           watchMap' = watchMap, states' = states, closed' = closed, st' = st, local' = local,
           version' = version, delivered' = delivered, pc' = [pc EXCEPT ![w] = l],
           l \in Running <=> pc[w] \in Running, l \in Owning => pc[w] \in Owning,
           l \in Storing => pc[w] \in Storing, l \in Joining => pc[w] \in Joining
    PROVE  WatchInv'
<1>1. ClientType'
  BY TypeParts DEF WatchInv, ClientType
<1>2. Control'
  BY ControlMoved DEF WatchInv, TypeOK
<1>3. InitialVersionMeansNoEvent'
  BY DEF WatchInv, InitialVersionMeansNoEvent
<1> QED BY <1>1, <1>2, <1>3, TypeParts DEF WatchInv

USE DEF Running, Owning, Storing, Joining, PCs, Subscribing

\* NewWatcher, Retry and SelectChanged only move on.
LEMMA StepMoves ==
    ASSUME WatchInv, NEW w \in Watchers, NewWatcher(w) \/ Retry(w) \/ SelectChanged(w)
    PROVE  WatchInv'
<1>1. NetType'
  BY NetKept DEF NewWatcher, Retry, SelectChanged, connVars, netVars
<1>2. CASE NewWatcher(w)
  BY <1>1, <1>2, MoveInv DEF NewWatcher, GoTo
<1>3. CASE Retry(w)
  BY <1>1, <1>3, MoveInv DEF Retry, GoTo
<1>4. CASE SelectChanged(w)
  BY <1>1, <1>4, MoveInv DEF SelectChanged, GoTo
<1> QED BY <1>2, <1>3, <1>4

\* The steps that send a request.
LEMMA StepSends ==
    ASSUME WatchInv, NEW w \in Watchers, SubscribeDo(w) \/ SendAck(w) \/ Unwatch(w)
    PROVE  WatchInv'
<1>0. "WATCH" \in Requests /\ "UNWATCH" \in Requests
  BY DEF Requests
<1>1. CASE SubscribeDo(w)
  <2>1. NetType' /\ (pc' = [pc EXCEPT ![w] = "ready"] \/ pc' = [pc EXCEPT ![w] = "undo"])
    BY <1>0, <1>1, DoTypes DEF SubscribeDo, connVars
  <2> QED BY <1>1, <2>1, MoveInv DEF SubscribeDo
<1>2. CASE SendAck(w)
  <2>1. NetType' /\ pc' = [pc EXCEPT ![w] = "select"]
    BY <1>0, <1>2, DoTypes DEF SendAck, connVars
  <2> QED BY <1>2, <2>1, MoveInv DEF SendAck
<1>3. CASE Unwatch(w)
  <2>1. NetType' /\ pc' = [pc EXCEPT ![w] = "delete"]
    BY <1>0, <1>3, DoTypes DEF Unwatch, connVars
  <2> QED BY <1>3, <2>1, MoveInv DEF Unwatch
<1> QED BY <1>1, <1>2, <1>3

\* The steps that change the entry of watchMap, or take its value.
LEMMA StepEntry ==
    ASSUME WatchInv, NEW w \in Watchers,
           Load(w) \/ LoadOrStore(w) \/ SubscribeFailed(w) \/ Forget(w)
    PROVE  WatchInv'
<1>1. NetType'
  BY NetKept DEF Load, LoadOrStore, SubscribeFailed, Forget, connVars, netVars
<1>2. InitialVersionMeansNoEvent'
  BY DEF Load, LoadOrStore, SubscribeFailed, Forget, WatchInv, InitialVersionMeansNoEvent
<1>3. ClientType
  BY TypeParts DEF WatchInv
<1>4. CASE Load(w)
  <2>1. ClientType'
    BY <1>3, <1>4 DEF Load, GoTo, ClientType
  <2> QED BY <1>1, <1>2, <1>4, <2>1, ControlLoad, TypeParts DEF WatchInv
<1>5. CASE LoadOrStore(w)
  <2>1. ClientType'
    BY <1>3, <1>5 DEF LoadOrStore, GoTo, ClientType
  <2> QED BY <1>1, <1>2, <1>5, <2>1, ControlStore, TypeParts DEF WatchInv
<1>6. ASSUME pc[w] \in Owning, CloseUnready(w)
      PROVE  closed' \subseteq Watchers \X (1..2)
  <2>1. st[w] \in Watchers /\ states[st[w]].unready \in 1..2
    BY <1>3, <1>6 DEF WatchInv, Control, OwnState, IsReady, ClientType, WatchState
  <2> QED BY <1>3, <1>6, <2>1 DEF CloseUnready, ClientType
<1>7. CASE SubscribeFailed(w)
  <2>1. ClientType'
    BY <1>3, <1>6, <1>7 DEF SubscribeFailed, GoTo, ClientType
  <2>2. Control'
    BY <1>7, ControlRemove DEF SubscribeFailed, GoTo
  <2> QED BY <1>1, <1>2, <2>1, <2>2, TypeParts DEF WatchInv
<1>8. CASE Forget(w)
  <2>1. ClientType'
    BY <1>3, <1>6, <1>8 DEF Forget, GoTo, ClientType
  <2>2. Control'
    BY <1>8, ControlRemove DEF Forget, GoTo
  <2> QED BY <1>1, <1>2, <2>1, <2>2, TypeParts DEF WatchInv
<1> QED BY <1>4, <1>5, <1>7, <1>8

\* SubscribeReady and the two outcomes of Join.
LEMMA StepJoins ==
    ASSUME WatchInv, NEW w \in Watchers, SubscribeReady(w) \/ Join(w)
    PROVE  WatchInv'
<1>1. NetType'
  BY NetKept DEF SubscribeReady, Join, connVars, netVars
<1>2. ClientType /\ InitialVersionMeansNoEvent
  BY TypeParts DEF WatchInv
<1>3. CASE SubscribeReady(w)
  <2>1. st[w] = w /\ states[st[w]].unready \in 1..2
    BY <1>2, <1>3 DEF WatchInv, Control, OwnState, IsReady, ClientType, WatchState, SubscribeReady
  <2>2. closed' \subseteq Watchers \X (1..2)
    BY <1>2, <1>3, <2>1 DEF SubscribeReady, CloseUnready, ClientType
  <2>3. states' \in [Watchers -> WatchState]
    <3>1. states' = [states EXCEPT ![w].cnt = 1, ![w].unready = 0]
      BY <1>3 DEF SubscribeReady
    <3>2. states \in [Watchers -> WatchState] /\ 1 \in Nat /\ 0 \in 0..2
      BY <1>2 DEF ClientType
    <3> QED BY <3>1, <3>2, StatesTypes, Zenon
  <2>4. ClientType'
    BY <1>2, <1>3, <2>2, <2>3 DEF SubscribeReady, GoTo, ClientType
  <2>5. InitialVersionMeansNoEvent'
    BY <1>2, <1>3 DEF SubscribeReady, InitialVersionMeansNoEvent, ClientType, WatchState
  <2> QED BY <1>1, <1>3, <2>4, <2>5, ControlReady, TypeParts DEF WatchInv
<1>4. CASE Join(w) /\ IsReady(st[w])
  <2>0. st[w] \in Watchers
    BY <1>4 DEF WatchInv, Control, Loaded, Join
  <2>1. states' \in [Watchers -> WatchState]
    <3> DEFINE c == states[st[w]].cnt + 1
    <3>1. states' = [states EXCEPT ![st[w]].cnt = c]
      BY <1>4 DEF Join, Update
    <3>2. states \in [Watchers -> WatchState] /\ c \in Nat /\ 0 \in 0..2
      BY <1>2, <2>0 DEF ClientType, WatchState
    <3> HIDE DEF c
    <3> QED BY <2>0, <3>1, <3>2, StatesTypes, Zenon
  <2>2. ClientType'
    BY <1>2, <1>4, <2>1 DEF Join, GoTo, ClientType
  <2>3. InitialVersionMeansNoEvent'
    BY <1>2, <1>4, <2>0 DEF Join, InitialVersionMeansNoEvent, ClientType, WatchState, Update
  <2>4. Control'
    BY <1>4, ControlJoin DEF Join, GoTo
  <2> QED BY <1>1, <2>2, <2>3, <2>4, TypeParts DEF WatchInv
<1>5. CASE Join(w) /\ ~IsReady(st[w])
  <2>0. st[w] \in Watchers
    BY <1>5 DEF WatchInv, Control, Loaded, Join
  <2>1. ClientType'
    BY <1>2, <1>5, <2>0 DEF Join, GoTo, ClientType
  <2>2. InitialVersionMeansNoEvent'
    BY <1>2, <1>5 DEF Join, InitialVersionMeansNoEvent
  <2>3. Control'
    BY <1>2, <1>5, ControlMoved DEF Join, GoTo, WatchInv, ClientType
  <2> QED BY <1>1, <2>1, <2>2, <2>3, TypeParts DEF WatchInv
<1> QED BY <1>3, <1>4, <1>5

\* The loop of a watcher's goroutine.
LEMMA StepLoop ==
    ASSUME WatchInv, NEW w \in Watchers, ReadState(w) \/ Callback(w) \/ Recheck(w)
    PROVE  WatchInv'
<1>1. NetType'
  BY NetKept DEF ReadState, Callback, Recheck, connVars, netVars
<1>2. ClientType /\ InitialVersionMeansNoEvent
  BY TypeParts DEF WatchInv
<1>3. CASE ReadState(w)
  <2> DEFINE s == states[st[w]]
             t == IF s.changed # 0 THEN s
                  ELSE [s EXCEPT !.changed = s.made + 1, !.made = s.made + 1]
  <2>0. st[w] \in Watchers
    BY <1>3 DEF WatchInv, Control, Loaded, ReadState
  <2>1. /\ states' = [states EXCEPT ![st[w]] = t] /\ local' = [local EXCEPT ![w] = t]
        /\ pc' \in {[pc EXCEPT ![w] = "callback"], [pc EXCEPT ![w] = "select"]}
        /\ pc[w] = "read"
        /\ watchMap' = watchMap /\ closed' = closed /\ st' = st /\ version' = version
        /\ delivered' = delivered
    BY <1>3 DEF ReadState, GoTo
  <2>2. /\ t \in WatchState /\ t.cnt = s.cnt /\ t.unready = s.unready /\ t.version = s.version
        /\ t.value = s.value
    <3>1. s \in WatchState
      BY <1>2, <2>0 DEF ClientType
    <3>2. s.made + 1 \in Nat /\ 0 \in 0..2
      BY <3>1 DEF WatchState
    <3>3. CASE s.changed # 0
      BY <3>1, <3>3
    <3>4. CASE s.changed = 0
      <4>1. t = [s EXCEPT !.changed = s.made + 1, !.made = s.made + 1]
        BY <3>4
      <4>2. t \in WatchState
        BY <3>1, <3>2, <4>1, StateTypes, Zenon
      <4> QED BY <3>1, <4>1, <4>2 DEF WatchState
    <3> QED BY <3>3, <3>4
  <2> HIDE DEF t
  <2>3. ClientType'
    BY <1>2, <2>0, <2>1, <2>2 DEF ClientType
  <2>4. \A x \in Watchers : states'[x].cnt = states[x].cnt /\ states'[x].unready = states[x].unready
    BY <1>2, <2>0, <2>1, <2>2 DEF ClientType
  <2>5. InitialVersionMeansNoEvent'
    BY <1>2, <2>0, <2>1, <2>2 DEF ClientType, InitialVersionMeansNoEvent
  <2>6. Control'
    BY <1>2, <2>1, <2>4, ControlMoved DEF WatchInv, ClientType
  <2> QED BY <1>1, <2>3, <2>5, <2>6, TypeParts DEF WatchInv
<1>4. CASE Callback(w)
  <2>1. ClientType'
    BY <1>2, <1>4 DEF Callback, GoTo, ClientType, WatchState
  <2>2. InitialVersionMeansNoEvent'
    BY <1>2, <1>4 DEF Callback, InitialVersionMeansNoEvent
  <2>3. Control'
    BY <1>2, <1>4, ControlMoved DEF Callback, GoTo, WatchInv, ClientType
  <2> QED BY <1>1, <2>1, <2>2, <2>3, TypeParts DEF WatchInv
<1>5. CASE Recheck(w)
  <2>0. st[w] \in Watchers
    BY <1>5 DEF WatchInv, Control, Loaded, Recheck
  <2>1. /\ local' = [local EXCEPT ![w] = states[st[w]]] /\ pc[w] = "recheck"
        /\ pc' \in {[pc EXCEPT ![w] = "ack"], [pc EXCEPT ![w] = "select"]}
        /\ states' \in {states, [states EXCEPT ![st[w]].ack = TRUE]}
        /\ watchMap' = watchMap /\ closed' = closed /\ st' = st /\ version' = version
        /\ delivered' = delivered
    BY <1>5 DEF Recheck, GoTo, Update
  <2>2. states' \in [Watchers -> WatchState]
    <3>1. states \in [Watchers -> WatchState] /\ 0 \in Nat /\ 0 \in 0..2
      BY <1>2 DEF ClientType
    <3>2. [states EXCEPT ![st[w]].ack = TRUE] \in [Watchers -> WatchState]
      BY <2>0, <3>1, StatesTypes, Zenon
    <3> QED BY <2>1, <3>1, <3>2, Zenon
  <2>3. ClientType'
    BY <1>2, <2>0, <2>1, <2>2 DEF ClientType
  <2>4. \A x \in Watchers : /\ states'[x].cnt = states[x].cnt
                            /\ states'[x].unready = states[x].unready
                            /\ states'[x].version = states[x].version
                            /\ states'[x].value = states[x].value
    BY <1>2, <2>0, <2>1 DEF ClientType, WatchState
  <2>5. InitialVersionMeansNoEvent'
    BY <1>2, <2>4 DEF InitialVersionMeansNoEvent
  <2>6. Control'
    BY <1>2, <2>1, <2>4, ControlMoved DEF WatchInv, ClientType
  <2> QED BY <1>1, <2>3, <2>5, <2>6, TypeParts DEF WatchInv
<1> QED BY <1>3, <1>4, <1>5

\* A watcher leaves its watch state.
LEMMA StepLeaves ==
    ASSUME WatchInv, NEW w \in Watchers, SelectDone(w)
    PROVE  WatchInv'
<1>1. NetType'
  BY NetKept DEF SelectDone, connVars, netVars
<1>2. ClientType /\ InitialVersionMeansNoEvent
  BY TypeParts DEF WatchInv
<1>3. st[w] \in Watchers
  BY DEF WatchInv, Control, Loaded, SelectDone
<1> DEFINE n == states[st[w]].cnt - 1
           u == IF IsLast(n) THEN 2 ELSE states[st[w]].unready
<1>4. n \in Nat /\ u \in 0..2
  BY <1>2, <1>3, ControlLeave DEF ClientType, WatchState
<1>5. states' = [states EXCEPT ![st[w]].cnt = n, ![st[w]].unready = u]
  BY <1>2, <1>3 DEF SelectDone, ClientType, WatchState
<1> HIDE DEF n, u
<1>6. states' \in [Watchers -> WatchState]
  <2>1. states \in [Watchers -> WatchState]
    BY <1>2 DEF ClientType
  <2> QED BY <1>3, <1>4, <1>5, <2>1, StatesTypes
<1>7. ClientType'
  BY <1>2, <1>6 DEF SelectDone, GoTo, ClientType
<1>8. InitialVersionMeansNoEvent'
  BY <1>2, <1>3, <1>5 DEF ClientType, WatchState, InitialVersionMeansNoEvent
<1> QED BY <1>1, <1>7, <1>8, ControlLeave, TypeParts DEF WatchInv

\* A sequence with one element removed.
LEMMA RemoveInSeq ==
    ASSUME NEW S, NEW q \in Seq(S), NEW i \in 1 .. Len(q) PROVE RemoveAt(q, i) \in Seq(S)
<1>1. SubSeq(q, 1, i - 1) \in Seq(S) /\ SubSeq(q, i + 1, Len(q)) \in Seq(S)
  BY SubSeqProperties
<1> QED BY <1>1, ConcatProperties DEF RemoveAt

\* The event that goes to the newest connection is a value.
LEMMA NotifyTypes ==
    ASSUME WatchInv, NEW v \in Nat, Notify(v)
    PROVE  events' \in [Dials -> Seq(Nat)] /\ server' \in ServerState
<1>1. events \in [Dials -> Seq(Nat)] /\ dials \in Dials
  BY DEF WatchInv, TypeOK
<1>2. Append(events[dials], v) \in Seq(Nat)
  BY <1>1, AppendProperties
<1>3. events' \in [Dials -> Seq(Nat)]
  BY <1>1, <1>2 DEF Notify
<1>4. server' \in ServerState
  BY DEF Notify, ServerState
<1> QED BY <1>3, <1>4

\* Unregister, the server, broadcasts and what happens to the connection.
LEMMA StepOutside ==
    ASSUME WatchInv, \/ \E w \in Watchers : Unregister(w)
                     \/ ServerReceive \/ Broadcast \/ DialPublish \/ Rest \/ UNCHANGED vars
                     \/ \E s \in {"down", "closed"} : Disconnect(s)
    PROVE  WatchInv'
<1>0. NetType
  BY TypeParts DEF WatchInv
<1>1. clientVars' = clientVars
  BY DEF Unregister, ServerReceive, Broadcast, DialPublish, Rest, vars, Disconnect, clientVars
<1> SUFFICES NetType'
  BY <1>1, ClientKept, TypeParts DEF WatchInv
<1>2. ASSUME NEW w \in Watchers, Unregister(w) PROVE NetType'
  BY <1>0, <1>2 DEF Unregister, NetType, MayDial, connVars, netVars
<1>3. CASE ServerReceive
  <2>1. PICK i \in DOMAIN out : /\ out' = RemoveAt(out, i)
                                /\ IF out[i] = "WATCH" THEN ServerWatch ELSE ServerUnwatch
    BY <1>3 DEF ServerReceive
  <2>2. out' \in Seq(Requests)
    BY <1>0, <2>1, RemoveInSeq, LenProperties DEF NetType
  <2>3. events' \in [Dials -> Seq(Nat)] /\ server' \in ServerState
    <3>1. value \in Nat
      BY <1>0 DEF NetType
    <3>2. CASE Notify(value)
      BY <3>1, <3>2, NotifyTypes
    <3>3. CASE server' = [server EXCEPT !.acked = TRUE] /\ UNCHANGED events
      BY <1>0, <3>3 DEF NetType, ServerState
    <3>4. CASE ServerUnwatch
      BY <1>0, <3>4 DEF NetType, ServerState, ServerUnwatch, Unsubscribed
    <3> QED BY <2>1, <3>2, <3>3, <3>4 DEF ServerWatch
  <2> QED BY <1>0, <1>3, <2>2, <2>3 DEF ServerReceive, NetType, MayDial, connVars
<1>4. CASE Broadcast
  <2>1. value' \in 0..MaxBroadcasts /\ value + 1 \in Nat
    BY <1>0, <1>4 DEF Broadcast, NetType
  <2>2. CASE Notify(value + 1)
    BY <1>0, <1>4, <2>1, <2>2, NotifyTypes DEF Broadcast, NetType, MayDial, connVars
  <2>3. CASE UNCHANGED <<events, server>>
    BY <1>0, <1>4, <2>1, <2>3 DEF Broadcast, NetType, MayDial, connVars
  <2> QED BY <1>4, <2>2, <2>3 DEF Broadcast
<1>5. CASE DialPublish
  BY <1>0, <1>5 DEF DialPublish, NetType, MayDial, netVars
<1>6. CASE Rest \/ UNCHANGED vars
  BY <1>0, <1>6 DEF Rest, vars, NetType, MayDial
<1>7. ASSUME NEW s \in {"down", "closed"}, Disconnect(s) PROVE NetType'
  <2>1. PICK n \in 0..Len(events[dials]) : events' = [events EXCEPT ![dials] = SubSeq(@, 1, n)]
    BY <1>7 DEF Disconnect
  <2>2. events[dials] \in Seq(Nat) /\ Len(events[dials]) \in Nat
    BY <1>0, LenProperties DEF NetType
  <2>3. SubSeq(events[dials], 1, n) \in Seq(Nat)
    BY <2>2, SubSeqProperties
  <2>4. events' \in [Dials -> Seq(Nat)]
    BY <1>0, <2>1, <2>3 DEF NetType
  <2>5. server' \in ServerState /\ out' \in Seq(Requests)
    BY <1>7 DEF Disconnect, Unsubscribed, ServerState
  <2> QED BY <1>0, <1>7, <2>4, <2>5 DEF Disconnect, NetType, MayDial
<1> QED BY <1>2, <1>3, <1>4, <1>5, <1>6, <1>7

\* The eventer changes the value, the version and the channel of the watch state.
LEMMA StepEvent ==
    ASSUME WatchInv, NEW d \in Dials, ApplyEvent(d)
    PROVE  WatchInv'
<1>0. NetType /\ ClientType /\ InitialVersionMeansNoEvent
  BY TypeParts DEF WatchInv
<1>1. events[d] \in Seq(Nat) /\ events[d] # << >>
  BY <1>0 DEF NetType, ApplyEvent
<1>2. Head(events[d]) \in Nat /\ Tail(events[d]) \in Seq(Nat)
  BY <1>1, HeadTailProperties
<1>3. NetType'
  BY <1>0, <1>2 DEF ApplyEvent, NetType, MayDial, connVars
<1>4. CASE watchMap = None
  <2>1. clientVars' = clientVars
    BY <1>4 DEF ApplyEvent, clientVars
  <2> QED BY <1>3, <2>1, ClientKept, TypeParts DEF WatchInv
<1>5. CASE watchMap # None
  <2> DEFINE r == states[watchMap]
             h == Head(events[d])
             v == NextVersion(r.version)
             t == [r EXCEPT !.value = h, !.version = v, !.ack = FALSE, !.changed = 0]
  <2>1. watchMap \in Watchers /\ r \in WatchState
    BY <1>0, <1>5 DEF ClientType
  <2>2. v \in 0..MaxVersion /\ v # 0 /\ h \in Nat
    BY <1>2, <2>1 DEF NextVersion, WatchState
  <2>3. states' = [states EXCEPT ![watchMap] = t]
    BY <1>0, <1>5, <2>1 DEF ApplyEvent, ClientType, WatchState
  <2> HIDE DEF v, h
  <2>4. /\ t \in WatchState /\ t.value = h /\ t.version = v /\ t.cnt = r.cnt
        /\ t.unready = r.unready
    BY <2>1, <2>2 DEF WatchState, NoValue
  <2> HIDE DEF t
  <2>5. /\ watchMap' = watchMap /\ closed' = closed /\ pc' = pc /\ st' = st /\ local' = local
        /\ version' = version /\ delivered' = delivered
    BY DEF ApplyEvent
  <2>6. ClientType'
    BY <1>0, <2>1, <2>3, <2>4, <2>5 DEF ClientType
  <2>7. /\ states'[watchMap] = t /\ \A s \in Watchers \ {watchMap} : states'[s] = states[s]
    BY <1>0, <2>1, <2>3 DEF ClientType
  <2>8. InitialVersionMeansNoEvent'
    BY <1>0, <2>2, <2>4, <2>7 DEF InitialVersionMeansNoEvent, NoValue
  <2>9. Control'
    BY <2>1, <2>4, <2>5, <2>7, ControlKept DEF WatchInv
  <2> QED BY <1>3, <2>6, <2>8, <2>9, TypeParts DEF WatchInv
<1> QED BY <1>4, <1>5

\* The resubscription sets the acknowledgement of the watch state at most.
LEMMA StepDial ==
    ASSUME WatchInv, DialWatch
    PROVE  WatchInv'
<1>0. NetType /\ ClientType /\ InitialVersionMeansNoEvent
  BY TypeParts DEF WatchInv
<1>1. /\ watchMap' = watchMap /\ closed' = closed /\ pc' = pc /\ st' = st /\ local' = local
      /\ version' = version /\ delivered' = delivered
  BY DEF DialWatch
<1>2. NetType'
  <2>1. << "WATCH" >> \in Seq(Requests)
    BY DEF Requests
  <2>2. out' \in Seq(Requests)
    BY <1>0, <2>1 DEF DialWatch, NetType
  <2>3. dials' \in Dials
    BY <1>0 DEF DialWatch, NetType, Dials, MayDial
  <2> QED BY <1>0, <2>2, <2>3 DEF DialWatch, NetType, MayDial
<1>3. CASE states' = states
  <2>1. clientVars' = clientVars
    BY <1>1, <1>3 DEF clientVars
  <2> QED BY <1>2, <2>1, ClientKept, TypeParts DEF WatchInv
<1>4. CASE watchMap # None /\ states' = Update(watchMap, "ack", TRUE)
  <2>1. watchMap \in Watchers /\ states' = [states EXCEPT ![watchMap].ack = TRUE]
    BY <1>0, <1>4 DEF ClientType, Update
  <2>2. states' \in [Watchers -> WatchState]
    <3>1. states \in [Watchers -> WatchState] /\ 0 \in Nat /\ 0 \in 0..2
      BY <1>0 DEF ClientType
    <3> QED BY <2>1, <3>1, StatesTypes, Zenon
  <2>3. ClientType'
    BY <1>0, <1>1, <2>2 DEF ClientType
  <2>4. \A x \in Watchers : /\ states'[x].cnt = states[x].cnt
                            /\ states'[x].unready = states[x].unready
                            /\ states'[x].version = states[x].version
                            /\ states'[x].value = states[x].value
    BY <1>0, <2>1 DEF ClientType, WatchState
  <2>5. InitialVersionMeansNoEvent'
    BY <1>0, <2>4 DEF InitialVersionMeansNoEvent
  <2>6. Control'
    BY <1>1, <2>4, ControlKept DEF WatchInv
  <2> QED BY <1>2, <2>3, <2>5, <2>6, TypeParts DEF WatchInv
<1> QED BY <1>3, <1>4 DEF DialWatch

\* Nothing is stored in watchMap at first.
LEMMA InitInv == Init => WatchInv
<1> SUFFICES ASSUME Init PROVE WatchInv
  OBVIOUS
<1>1. Fresh \in WatchState /\ Fresh.unready = 1 /\ Fresh.cnt = 0
      /\ Fresh.version = 0 /\ Fresh.value = NoValue
  BY DEF Fresh, WatchState, NoValue
<1>2. ClientType
  BY <1>1 DEF Init, ClientType
<1>3. NetType
  <2>1. server \in ServerState /\ out \in Seq(Requests) /\ << >> \in Seq(Nat)
    BY DEF Init, Unsubscribed, ServerState
  <2> QED BY <2>1 DEF Init, NetType, Dials, MayDial
<1>4. \A s : Registered(s) = {}
  BY DEF Registered, Init
<1>5. CntCountsWatchers
  BY <1>1, <1>4, FS_EmptySet DEF CntCountsWatchers, Init
<1>6. OwnState /\ OneOwner /\ Loaded /\ RegisteredInMap
  BY DEF Init, OwnState, OneOwner, Loaded, RegisteredInMap
<1>7. ReadyInMap /\ InitialVersionMeansNoEvent
  BY <1>1 DEF Init, ReadyInMap, IsReady, InitialVersionMeansNoEvent
<1> QED BY <1>2, <1>3, <1>5, <1>6, <1>7, TypeParts DEF WatchInv, Control

\* Every step preserves the invariant.
LEMMA StepInv == WatchInv /\ [Next]_vars => WatchInv'
<1> SUFFICES ASSUME WatchInv, [Next]_vars PROVE WatchInv'
  OBVIOUS
<1>1. ASSUME NEW w \in Watchers, NewWatcher(w) \/ Subscribe(w) \/ Goroutine(w) PROVE WatchInv'
  BY <1>1, StepMoves, StepSends, StepEntry, StepJoins, StepLoop, StepLeaves
  DEF Subscribe, Goroutine
<1>2. ASSUME NEW w \in Watchers, Unregister(w) PROVE WatchInv'
  BY <1>2, StepOutside
<1>3. ASSUME NEW d \in Dials, ApplyEvent(d) PROVE WatchInv'
  BY <1>3, StepEvent
<1>4. ASSUME NEW s \in {"down", "closed"}, Disconnect(s) PROVE WatchInv'
  BY <1>4, StepOutside
<1>5. CASE DialWatch
  BY <1>5, StepDial
<1>6. CASE DialPublish \/ ServerReceive \/ Broadcast \/ Rest \/ UNCHANGED vars
  BY <1>6, StepOutside
<1> QED BY <1>1, <1>2, <1>3, <1>4, <1>5, <1>6 DEF Next

\* The strengthened invariant holds in every reachable state.
LEMMA WatchInductive == Spec => []WatchInv
BY InitInv, StepInv, PTL DEF Spec

\* watchMap leads the eventer and dial() to every running watcher, cnt counts
\* them, and the initial version stands for a key without a value, for every
\* number of watchers and reconnections, whatever requests fail.
THEOREM WatchMapConsistentHolds == Spec => []WatchMapConsistent
<1>1. WatchInv => WatchMapConsistent
  BY DEF WatchInv, Control, WatchMapConsistent
<1> QED BY <1>1, WatchInductive, PTL

-----------------------------------------------------------------------------
(* What the server knows, on one connection that delivers in order.        *)

\* A step that offers nothing new and takes no WATCH back.
LEMMA StillSubscribed ==
    ASSUME SubscribedInv, conn' = conn, dials' = dials,
           Offered' => Offered \/ WillWatch', WillWatch => WillWatch'
    PROVE  SubscribedInv'
BY DEF SubscribedInv

\* A step that leaves the requests and the server alone and makes nothing ready.
LEMMA NothingOffered ==
    ASSUME SubscribedInv, conn' = conn, dials' = dials, out' = out, server' = server,
           Offered' => Offered
    PROVE  SubscribedInv'
<1>1. WillWatch' = WillWatch
  BY DEF WillWatch
<1> QED BY <1>1 DEF SubscribedInv

\* No action but SubscribeReady makes a watch state ready, and none but
\* SubscribeDo leads there.
LEMMA OfferedBefore ==
    ASSUME WatchInv, NEW w \in Watchers, NEW l, l # "ready", pc' = [pc EXCEPT ![w] = l],
           \A s \in Watchers : states'[s].unready = 0 => states[s].unready = 0
    PROVE  Offered' => Offered
<1>1. \A x \in Watchers : pc'[x] = "ready" => pc[x] = "ready"
  BY DEF WatchInv, TypeOK
<1> QED BY <1>1 DEF Offered, IsReady

\* A request that was appended is the last one the server sees.
LEMMA AppendedLast ==
    ASSUME NetType, NEW r \in Requests, out' = Append(out, r)
    PROVE  WillWatch' <=> r = "WATCH"
<1>1. out \in Seq(Requests)
  BY DEF NetType
<1>2. /\ out' \in Seq(Requests) /\ Len(out') = Len(out) + 1 /\ out'[Len(out) + 1] = r
      /\ Len(out) \in Nat
  BY <1>1, AppendProperties, LenProperties
<1>3. out' # << >>
  BY <1>2
<1> QED BY <1>2, <1>3 DEF WillWatch

\* The steps of a watcher that send nothing.
LEMMA SubscribedSilent ==
    ASSUME WatchInv, SubscribedInv, NEW w \in Watchers,
           \/ NewWatcher(w) \/ Load(w) \/ LoadOrStore(w) \/ SubscribeFailed(w)
           \/ SubscribeReady(w) \/ Join(w) \/ Retry(w) \/ ReadState(w) \/ Callback(w)
           \/ Recheck(w) \/ SelectChanged(w) \/ SelectDone(w) \/ Forget(w)
    PROVE  SubscribedInv'
<1>0. states \in [Watchers -> WatchState]
  BY DEF WatchInv, TypeOK
<1>1. conn' = conn /\ dials' = dials /\ out' = out /\ server' = server
  BY DEF NewWatcher, Load, LoadOrStore, SubscribeFailed, SubscribeReady, Join, Retry, ReadState,
         Callback, Recheck, SelectChanged, SelectDone, Forget, connVars, netVars
<1> SUFFICES Offered' => Offered
  BY <1>1, NothingOffered
<1>2. CASE SubscribeReady(w)
  BY <1>2 DEF SubscribeReady, Offered
<1>3. CASE \/ NewWatcher(w) \/ Load(w) \/ LoadOrStore(w) \/ SubscribeFailed(w) \/ Retry(w)
           \/ Callback(w) \/ SelectChanged(w) \/ Forget(w)
  <2>1. states' = states /\ \E l : l # "ready" /\ pc' = [pc EXCEPT ![w] = l]
    BY <1>3 DEF NewWatcher, Load, LoadOrStore, SubscribeFailed, Retry, Callback, SelectChanged,
                Forget, GoTo
  <2> QED BY <2>1, OfferedBefore
<1>4. CASE Join(w) \/ ReadState(w) \/ Recheck(w) \/ SelectDone(w)
  <2>0. st[w] \in Watchers
    BY <1>4 DEF WatchInv, Control, Loaded, Join, ReadState, Recheck, SelectDone
  <2>1. \E l : l # "ready" /\ pc' = [pc EXCEPT ![w] = l]
    BY <1>4 DEF Join, ReadState, Recheck, SelectDone, GoTo
  <2>2. \A s \in Watchers : states'[s].unready = 0 => states[s].unready = 0
    <3>1. CASE Join(w)
      BY <1>0, <2>0, <3>1 DEF Join, Update, WatchState
    <3>2. CASE ReadState(w)
      <4> DEFINE r == states[st[w]]
                 t == IF r.changed # 0 THEN r
                      ELSE [r EXCEPT !.changed = r.made + 1, !.made = r.made + 1]
      <4>1. states' = [states EXCEPT ![st[w]] = t]
        BY <3>2 DEF ReadState
      <4>2. t.unready = r.unready
        BY <1>0, <2>0 DEF WatchState
      <4> HIDE DEF t
      <4> QED BY <1>0, <2>0, <4>1, <4>2
    <3>3. CASE Recheck(w)
      BY <1>0, <2>0, <3>3 DEF Recheck, Update, WatchState
    <3>4. CASE SelectDone(w)
      BY <1>0, <2>0, <3>4 DEF SelectDone, WatchState
    <3> QED BY <1>4, <3>1, <3>2, <3>3, <3>4
  <2> QED BY <2>1, <2>2, OfferedBefore
<1> QED BY <1>2, <1>3, <1>4

\* A WATCH can only help; UNWATCH is sent when nothing is offered.
LEMMA SubscribedSends ==
    ASSUME WatchInv, SubscribedInv, NEW w \in Watchers, SubscribeDo(w) \/ SendAck(w) \/ Unwatch(w)
    PROVE  SubscribedInv'
<1>0. NetType /\ "WATCH" \in Requests /\ "UNWATCH" \in Requests
  BY TypeParts DEF WatchInv, Requests
<1>1. conn' = conn /\ dials' = dials /\ server' = server /\ states' = states
  BY DEF SubscribeDo, SendAck, Unwatch, connVars
<1>2. CASE SubscribeDo(w) \/ SendAck(w)
  <2>1. CASE out' = Append(out, "WATCH")
    BY <1>0, <1>1, <2>1, AppendedLast, StillSubscribed
  <2>2. CASE out' = out /\ \E l \in {"undo", "select"} : pc' = [pc EXCEPT ![w] = l]
    BY <1>1, <2>2, OfferedBefore, NothingOffered
  <2> QED BY <1>2, <2>1, <2>2 DEF SubscribeDo, SendAck, Do, GoTo
<1>3. CASE Unwatch(w)
  <2>1. pc[w] = "unwatch" /\ pc' = [pc EXCEPT ![w] = "delete"]
    BY <1>3 DEF Unwatch, Do, GoTo
  <2>2. watchMap = st[w] /\ ~IsReady(st[w]) /\ \A x \in Watchers : pc[x] = "ready" => x = w
    BY <2>1 DEF WatchInv, Control, OwnState, OneOwner
  <2>3. ~Offered
    BY <2>1, <2>2 DEF Offered, WatchInv, Control, ReadyInMap
  <2>4. Offered' => Offered
    BY <1>1, <2>1, OfferedBefore
  <2> QED BY <1>1, <2>3, <2>4 DEF SubscribedInv
<1> QED BY <1>2, <1>3

\* The server sees the requests in the order in which they were packed.
LEMMA SubscribedServer ==
    ASSUME WatchInv, SubscribedInv, ~Overtakes, ServerReceive
    PROVE  SubscribedInv'
<1>0. out \in Seq(Requests) /\ server \in ServerState
  BY TypeParts DEF WatchInv, NetType
<1>1. /\ 1 \in DOMAIN out /\ out' = RemoveAt(out, 1)
      /\ IF out[1] = "WATCH" THEN ServerWatch ELSE ServerUnwatch
      /\ conn' = conn /\ dials' = dials /\ pc' = pc /\ states' = states
  BY DEF ServerReceive, connVars, clientVars
<1>2. Offered' => Offered
  BY <1>1 DEF Offered, IsReady
<1>3. Len(out) \in Nat /\ Len(out) >= 1
  BY <1>0, <1>1, LenProperties
<1>4. out' = Tail(out)
  <2>1. RemoveAt(out, 1) = SubSeq(out, 1, 0) \o SubSeq(out, 2, Len(out))
    BY DEF RemoveAt
  <2>2. SubSeq(out, 1, 0) = << >> /\ SubSeq(out, 2, Len(out)) = Tail(out)
    BY <1>0, <1>3, SubSeqProperties, HeadTailProperties
  <2>3. Tail(out) \in Seq(Requests)
    BY <1>0, <1>3, HeadTailProperties
  <2> QED BY <1>1, <2>1, <2>2, <2>3, ConcatEmptySeq
<1>5. /\ out' \in Seq(Requests) /\ Len(out') = Len(out) - 1
      /\ \A i \in 1 .. Len(out) - 1 : out'[i] = out[i + 1]
  BY <1>0, <1>3, <1>4, HeadTailProperties
<1>6. CASE Len(out) = 1
  <2>1. out' = << >>
    BY <1>5, <1>6, EmptySeq
  <2>2. WillWatch => server'.watching
    <3>1. out # << >>
      BY <1>6, EmptySeq
    <3>2. WillWatch => ServerWatch
      BY <1>1, <1>6, <3>1 DEF WillWatch
    <3>3. CASE server.watching /\ server' = [server EXCEPT !.acked = TRUE]
      BY <1>0, <3>3 DEF ServerState
    <3>4. CASE Notify(value)
      BY <3>4 DEF Notify
    <3> QED BY <3>2, <3>3, <3>4 DEF ServerWatch
  <2>3. WillWatch => WillWatch'
    BY <2>1, <2>2 DEF WillWatch
  <2> QED BY <1>1, <1>2, <2>3, StillSubscribed
<1>7. CASE Len(out) # 1
  <2>1. /\ out' # << >> /\ out # << >> /\ Len(out) - 1 \in 1 .. Len(out) - 1
        /\ (Len(out) - 1) + 1 = Len(out)
    BY <1>3, <1>5, <1>7
  <2>2. out'[Len(out')] = out[Len(out)]
    BY <1>5, <2>1
  <2>3. WillWatch => WillWatch'
    BY <2>1, <2>2 DEF WillWatch
  <2> QED BY <1>1, <1>2, <2>3, StillSubscribed
<1> QED BY <1>6, <1>7

\* Everything else: the only connection can be closed, but not dialled again.
LEMMA SubscribedOther ==
    ASSUME WatchInv, SubscribedInv, MaxDials = 1,
           \/ \E w \in Watchers : Unregister(w)
           \/ \E d \in Dials : ApplyEvent(d)
           \/ \E s \in {"down", "closed"} : Disconnect(s)
           \/ DialWatch \/ DialPublish \/ Broadcast \/ Rest \/ UNCHANGED vars
    PROVE  SubscribedInv'
<1>0. server \in ServerState /\ states \in [Watchers -> WatchState]
  BY TypeParts DEF WatchInv, NetType, ClientType
<1>1. CASE \E s \in {"down", "closed"} : Disconnect(s)
  BY <1>1 DEF Disconnect, SubscribedInv
<1>2. CASE DialWatch \/ DialPublish
  BY <1>2 DEF DialWatch, DialPublish, SubscribedInv
<1>3. CASE (\E w \in Watchers : Unregister(w)) \/ Rest \/ UNCHANGED vars
  <2>1. /\ conn' = conn /\ dials' = dials /\ out' = out /\ server' = server
        /\ states' = states /\ pc' = pc
    BY <1>3 DEF Unregister, Rest, vars, connVars, clientVars, netVars
  <2>2. Offered' => Offered
    BY <2>1 DEF Offered, IsReady
  <2> QED BY <2>1, <2>2, NothingOffered
<1>4. ASSUME NEW d \in Dials, ApplyEvent(d) PROVE SubscribedInv'
  <2>1. /\ conn' = conn /\ dials' = dials /\ out' = out /\ server' = server /\ pc' = pc
    BY <1>4 DEF ApplyEvent, connVars
  <2>2. \A s \in Watchers : states'[s].unready = states[s].unready
    BY <1>0, <1>4 DEF ApplyEvent, WatchState
  <2>3. Offered' => Offered
    BY <2>1, <2>2 DEF Offered, IsReady
  <2> QED BY <2>1, <2>3, NothingOffered
<1>5. CASE Broadcast
  <2>1. /\ conn' = conn /\ dials' = dials /\ out' = out /\ pc' = pc /\ states' = states
        /\ server.watching => server'.watching
    BY <1>5 DEF Broadcast, Notify, connVars, clientVars
  <2>2. Offered' => Offered
    BY <2>1 DEF Offered, IsReady
  <2>3. WillWatch => WillWatch'
    BY <2>1 DEF WillWatch
  <2> QED BY <2>1, <2>2, <2>3, StillSubscribed
<1> QED BY <1>1, <1>2, <1>3, <1>4, <1>5

\* On one connection that delivers in order the server watches the key whenever
\* it has seen what was sent to it and a watcher runs: the WATCH of a watcher that
\* comes never falls behind the UNWATCH of the last one that left, for every
\* number of watchers and broadcasts, requests that Do refuses included.
THEOREM SubscribedHolds ==
    ASSUME MaxDials = 1, ~Overtakes
    PROVE  Spec => []Subscribed
<1>1. Init => SubscribedInv
  <2> SUFFICES ASSUME Init PROVE SubscribedInv
    OBVIOUS
  <2>1. ~Offered
    BY DEF Init, Offered, IsReady, Fresh
  <2> QED BY <2>1 DEF Init, SubscribedInv
<1>2. WatchInv /\ SubscribedInv /\ [Next]_vars => SubscribedInv'
  <2> SUFFICES ASSUME WatchInv, SubscribedInv, [Next]_vars PROVE SubscribedInv'
    OBVIOUS
  <2>1. ASSUME NEW w \in Watchers, NewWatcher(w) \/ Subscribe(w) \/ Goroutine(w)
        PROVE  SubscribedInv'
    BY <2>1, SubscribedSilent, SubscribedSends DEF Subscribe, Goroutine
  <2>2. CASE ServerReceive
    BY <2>2, SubscribedServer
  <2>3. CASE \/ \E w \in Watchers : Unregister(w)
             \/ \E d \in Dials : ApplyEvent(d)
             \/ \E s \in {"down", "closed"} : Disconnect(s)
             \/ DialWatch \/ DialPublish \/ Broadcast \/ Rest \/ UNCHANGED vars
    BY <2>3, SubscribedOther
  <2> QED BY <2>1, <2>2, <2>3 DEF Next
<1>3. WatchInv /\ SubscribedInv => Subscribed
  BY DEF WatchInv, Control, Loaded, RegisteredInMap, SubscribedInv, Offered, WillWatch, Subscribed
<1> QED BY <1>1, <1>2, <1>3, WatchInductive, PTL DEF Spec
=============================================================================
