-------------------------- MODULE LifecycleProofs ---------------------------
(* Theorems about Lifecycle, for all options and any number of dials.      *)
EXTENDS Lifecycle, TLAPS

USE LifecycleAssumption

-----------------------------------------------------------------------------
(* The strengthening that makes the safety invariants inductive.           *)

\* As long as Connect dials for the first time nothing else exists.
BootAlone ==
    boot = "dial" => /\ state = "disconnected" /\ c = 0
                     /\ pc = [t \in Threads |-> "off"]

\* Connect starts its goroutine as the last thing it does.
ConnectorLast == boot # "up" => pc[Connector] = "off"

\* The reader and the writer of a socket start when the socket is published.
NotYetStarted == \A t \in IO : t[2] > dials => pc[t] = "off"

\* The watcher conn.shutdownWatcher points to is one of those registered.
WatcherRegistered == watcher => watchers > 0

\* SomebodyReconnects, from the first dial on: Connect's own steps are no help.
DisconnectedAttended ==
    boot \in {"subscribe", "watch", "up"} /\ state = "disconnected" =>
        \E t \in Threads : pc[t] \in {"lock", "loop", "giveup"}

\* The critical sections of conn.mutex after the first dial.
Inside == {"loop", "subscribe", "giveup", "check", "prewait"}

\* Exactly the goroutine that holds conn.mutex is inside: two loops that woke
\* up together never dial at the same time.
MutexHeldInside == \A t \in Threads : pc[t] \in Inside <=> mutex = t

LifecycleInv ==
    /\ TypeOK /\ SocketMatchesState /\ ControlClosedOnce
    /\ BootAlone /\ ConnectorLast /\ NotYetStarted /\ WatcherRegistered
    /\ DisconnectedAttended /\ MutexHeldInside

-----------------------------------------------------------------------------
(* Typing.                                                                 *)

\* The goroutines are told apart.
LEMMA ThreadFacts ==
    /\ Connector \in Threads /\ Shutter \in Threads /\ Connector # Shutter
    /\ Free \notin Threads
    /\ Connector \notin IO /\ Shutter \notin IO
    /\ \A d \in Conns : <<"reader", d>> \in IO /\ <<"writer", d>> \in IO
BY DEF Threads, Connector, Shutter, Free, IO, Conns

\* A Broadcast changes nothing but where goroutines wait.
LEMMA WokenType == ASSUME TypeOK PROVE Woken \in [Threads -> PCs]
BY DEF TypeOK, Woken, PCs

\* The number of the next socket.
LEMMA NextSocket ==
    ASSUME TypeOK, dials < MaxDials PROVE dials + 1 \in Conns
BY DEF TypeOK, Conns

\* dial() publishes a socket that there is.
LEMMA PublishType ==
    ASSUME TypeOK, NEW t \in Threads, NEW l \in PCs, Publish(t, l)
    PROVE  /\ dials' \in 0..MaxDials /\ c' \in Conns /\ open' \subseteq Conns
           /\ state' = "connected" /\ pc' \in [Threads -> PCs]
<1>1. dials + 1 \in Conns
  BY NextSocket DEF Publish
<1>2. pc' \in [Threads -> PCs]
  BY WokenType DEF Publish, PCs
<1> QED BY <1>1, <1>2 DEF Publish, TypeOK, Conns

\* Both kinds of closeConnection keep the types.
LEMMA CloseForeverType ==
    ASSUME TypeOK, ControlClosedOnce, WatcherRegistered, CloseForever
    PROVE  /\ controls' \in {0, 1} /\ state' = "closed" /\ watcher' = FALSE
           /\ watchers' \in Nat /\ open' \subseteq Conns /\ c' = 0
BY DEF TypeOK, ControlClosedOnce, WatcherRegistered, CloseForever, NotYetClosed

\* A Connection that Connect has only made has the right types.
LEMMA InitTyping == Init => TypeOK
<1> SUFFICES ASSUME Init PROVE TypeOK
  OBVIOUS
<1>1. reconnect \in BOOLEAN
  BY LifecycleAssumption, Zenon DEF LifecycleAssumption, Init
<1>2. pc \in [Threads -> PCs]
  BY DEF Init, PCs
<1>3. watcher \in BOOLEAN
  BY DEF Init
<1> QED BY <1>1, <1>2, <1>3, LifecycleAssumption DEF Init, TypeOK

\* Every critical section preserves the types.
LEMMA StepTyping ==
    ASSUME TypeOK, ControlClosedOnce, WatcherRegistered, [Next]_vars
    PROVE  TypeOK'
<1> USE DEF bootVars, sockVars, loopVars, watcherVars, countVars, shutVars
<1>1. CASE BootDialFails
  BY <1>1, ThreadFacts DEF TypeOK, BootDialFails, BootFailed, PCs
<1>2. CASE BootDial
  <2>1. PICK l \in PCs : l = "off" /\ Publish(Connector, l)
    BY <1>2 DEF BootDial, PCs
  <2> QED BY <1>2, <2>1, ThreadFacts, PublishType DEF TypeOK, BootDial
<1>3. CASE BootCheck
  BY <1>3 DEF TypeOK, BootCheck
<1>4. CASE BootSubscribe
  <2>1. boot' \in {"up", "failed"} /\ pc' \in [Threads -> PCs]
    BY <1>4, ThreadFacts DEF TypeOK, BootSubscribe, BootFailed, PCs
  <2>2. watcher' \in BOOLEAN
    BY <1>4, Zenon DEF TypeOK, BootSubscribe, watcherVars
  <2>3. watchers' = watchers + 1 \/ watchers' = watchers
    BY <1>4, Zenon DEF BootSubscribe
  <2> QED BY <1>4, <2>1, <2>2, <2>3 DEF TypeOK, BootSubscribe
<1>5. CASE Close
  BY <1>5, CloseForeverType, WokenType DEF TypeOK, Close
<1>6. ASSUME NEW t \in Threads, IOFails(t) \/ IOEnds(t) PROVE TypeOK'
  BY <1>6 DEF TypeOK, IOFails, IOEnds, PCs
<1>7. ASSUME NEW t \in Threads, ReconnectIO(t) PROVE TypeOK'
  <2>1. pc' \in [Threads -> PCs]
    BY <1>7, WokenType DEF ReconnectIO, PCs
  <2>2. CASE CloseForever
    BY <1>7, <2>1, <2>2, CloseForeverType DEF TypeOK, ReconnectIO
  <2>3. CASE CloseForNow
    BY <1>7, <2>1, <2>3 DEF TypeOK, ReconnectIO, CloseForNow
  <2>4. CASE UNCHANGED <<mutex, state, c, open, controls, watcherVars>>
    BY <1>7, <2>1, <2>4 DEF TypeOK, ReconnectIO
  <2> QED BY <1>7, <2>2, <2>3, <2>4 DEF ReconnectIO
<1>8. ASSUME NEW t \in Threads, LockLoop(t) PROVE TypeOK'
  BY <1>8 DEF TypeOK, LockLoop, PCs
<1>9. ASSUME NEW t \in Threads, LoopDialFails(t) PROVE TypeOK'
  BY <1>9 DEF TypeOK, LoopDialFails, DialFailed, PCs
<1>10. ASSUME NEW t \in Threads, LoopDial(t) PROVE TypeOK'
  <2>1. PICK l \in PCs : Publish(t, l)
    BY <1>10 DEF LoopDial, EndOf, PCs
  <2>2. /\ dials' \in 0..MaxDials /\ c' \in Conns /\ open' \subseteq Conns
        /\ state' = "connected" /\ pc' \in [Threads -> PCs]
    BY <2>1, PublishType
  <2>3. /\ mutex' \in {mutex, Free} /\ err' \subseteq err
        /\ reconnects' \in {reconnects, [reconnects EXCEPT ![t] = 0]}
    BY <1>10 DEF LoopDial
  <2> QED BY <1>10, <2>2, <2>3 DEF TypeOK, LoopDial
<1>11. ASSUME NEW t \in Threads, LoopSubscribe(t) PROVE TypeOK'
  <2>1. /\ mutex' \in Threads \cup {Free} /\ pc' \in [Threads -> PCs]
        /\ err' \subseteq Threads /\ reconnects' \in [Threads -> Nat]
    BY <1>11 DEF TypeOK, LoopSubscribe, DialFailed, EndOf, PCs
  <2>2. watcher' \in BOOLEAN
    BY <1>11, Zenon DEF TypeOK, LoopSubscribe
  <2>3. watchers' \in Nat
    BY <1>11 DEF TypeOK, LoopSubscribe
  <2> QED BY <1>11, <2>1, <2>2, <2>3 DEF TypeOK, LoopSubscribe
<1>12. ASSUME NEW t \in Threads, LoopExit(t) PROVE TypeOK'
  BY <1>12 DEF TypeOK, LoopExit, EndOf, PCs
<1>13. ASSUME NEW t \in Threads, GiveUp(t) PROVE TypeOK'
  <2>1. pc' \in [Threads -> PCs]
    BY <1>13, WokenType DEF GiveUp, EndOf, PCs
  <2> QED BY <1>13, <2>1, CloseForeverType DEF TypeOK, GiveUp
<1>14. CASE ShutdownEvent \/ ShutdownBegin
  BY <1>14, ThreadFacts DEF TypeOK, ShutdownEvent, ShutdownBegin, PCs
<1>15. CASE ShutdownCheck
  <2>1. pc' \in [Threads -> PCs] /\ mutex' \in {mutex, Free}
    BY <1>15, ThreadFacts DEF TypeOK, ShutdownCheck, PCs
  <2>2. CASE CloseForever
    BY <1>15, <2>1, <2>2, CloseForeverType DEF TypeOK, ShutdownCheck
  <2>3. CASE CloseForNow
    BY <1>15, <2>1, <2>3 DEF TypeOK, ShutdownCheck, CloseForNow
  <2>4. CASE UNCHANGED <<state, c, open, controls, watcherVars>>
    BY <1>15, <2>1, <2>4 DEF TypeOK, ShutdownCheck
  <2> QED BY <1>15, <2>2, <2>3, <2>4 DEF ShutdownCheck
<1>16. CASE ShutdownWait \/ ShutdownRelock
  BY <1>16, ThreadFacts DEF TypeOK, ShutdownWait, ShutdownRelock, PCs
<1>17. ASSUME NEW u \in Clients, RequestStart(u) \/ RequestEnd(u) PROVE TypeOK'
  BY <1>17 DEF TypeOK, RequestStart, RequestEnd
<1>18. ASSUME NEW u \in Clients, RequestBroadcast(u) PROVE TypeOK'
  BY <1>18, WokenType DEF TypeOK, RequestBroadcast
<1>19. CASE Rest \/ UNCHANGED vars
  BY <1>19 DEF TypeOK, Rest, vars
<1> QED
  BY <1>1, <1>2, <1>3, <1>4, <1>5, <1>6, <1>7, <1>8, <1>9, <1>10, <1>11, <1>12, <1>13,
     <1>14, <1>15, <1>16, <1>17, <1>18, <1>19 DEF Next, Loop, ShutdownStep

-----------------------------------------------------------------------------
(* The sockets, the state and the control channel.                         *)

\* dial() publishes only where there is no socket; closeConnection takes away
\* the only one.
LEMMA PublishSocket ==
    ASSUME TypeOK, SocketMatchesState, NEW t, NEW l, c = 0, Publish(t, l)
    PROVE  SocketMatchesState'
<1>1. c' # 0
  BY NextSocket DEF Publish, Conns
<1> QED BY <1>1 DEF Publish, SocketMatchesState

\* closeConnection takes the socket away together with the state connected.
LEMMA CloseSocket ==
    ASSUME SocketMatchesState, CloseForever \/ CloseForNow
    PROVE  SocketMatchesState'
BY DEF SocketMatchesState, CloseForever, CloseForNow

\* control is closed with the first closeConnection for good only.
LEMMA CloseControl ==
    ASSUME TypeOK, ControlClosedOnce, WatcherRegistered, CloseForever
    PROVE  ControlClosedOnce' /\ WatcherRegistered'
BY DEF TypeOK, ControlClosedOnce, WatcherRegistered, CloseForever, NotYetClosed

\* closeConnection(_, false) is called for a connection that has a socket.
LEMMA CloseForNowControl ==
    ASSUME ControlClosedOnce, SocketMatchesState, WatcherRegistered, c # 0, CloseForNow
    PROVE  ControlClosedOnce' /\ WatcherRegistered'
BY DEF ControlClosedOnce, SocketMatchesState, WatcherRegistered, CloseForNow, watcherVars

\* Every critical section keeps the fields of the connection in agreement.
LEMMA StepSockets ==
    ASSUME LifecycleInv, [Next]_vars
    PROVE  SocketMatchesState' /\ ControlClosedOnce' /\ WatcherRegistered'
<1> DEFINE Agree == SocketMatchesState /\ ControlClosedOnce /\ WatcherRegistered
<1> SUFFICES Agree'
  OBVIOUS
<1>0. TypeOK /\ SocketMatchesState /\ ControlClosedOnce /\ WatcherRegistered /\ BootAlone
  BY DEF LifecycleInv
<1>1. ASSUME state' = state, c' = c, open' = open, controls' = controls,
             watcher' = watcher, watchers' = watchers
      PROVE  Agree'
  BY <1>0, <1>1 DEF SocketMatchesState, ControlClosedOnce, WatcherRegistered
<1>2. ASSUME CloseForever PROVE Agree'
  BY <1>0, <1>2, CloseSocket, CloseControl
<1>3. ASSUME CloseForNow, c # 0 PROVE Agree'
  BY <1>0, <1>3, CloseSocket, CloseForNowControl
<1>4. ASSUME NEW t, NEW l, Publish(t, l), c = 0, state = "disconnected",
             controls' = controls, watcher' = watcher, watchers' = watchers
      PROVE  Agree'
  <2>1. SocketMatchesState'
    BY <1>0, <1>4, PublishSocket
  <2> QED BY <1>0, <1>4, <2>1 DEF Publish, ControlClosedOnce, WatcherRegistered
<1>5. ASSUME watcher' = TRUE, watchers' = watchers + 1,
             state' = state, c' = c, open' = open, controls' = controls
      PROVE  Agree'
  BY <1>0, <1>5 DEF TypeOK, SocketMatchesState, ControlClosedOnce, WatcherRegistered
<1> HIDE DEF Agree
<1> USE DEF bootVars, sockVars, loopVars, watcherVars, countVars, shutVars
<1>6. CASE BootDialFails \/ BootCheck
  BY <1>1, <1>6 DEF BootDialFails, BootCheck
<1>7. CASE BootDial
  BY <1>0, <1>4, <1>7 DEF BootDial, BootAlone
<1>8. CASE BootSubscribe
  BY <1>1, <1>5, <1>8 DEF BootSubscribe
<1>9. CASE Close
  BY <1>2, <1>9 DEF Close
<1>10. ASSUME NEW t \in Threads, IOFails(t) \/ IOEnds(t) \/ LockLoop(t) PROVE Agree'
  BY <1>1, <1>10 DEF IOFails, IOEnds, LockLoop
<1>11. ASSUME NEW t \in Threads, ReconnectIO(t) PROVE Agree'
  <2>1. IsCurrent(t[2]) => c # 0
    BY <1>11 DEF ReconnectIO, IsCurrent, IO, Conns
  <2> QED BY <1>1, <1>2, <1>3, <1>11, <2>1 DEF ReconnectIO
<1>12. ASSUME NEW t \in Threads, LoopDialFails(t) \/ LoopExit(t) PROVE Agree'
  BY <1>1, <1>12 DEF LoopDialFails, LoopExit
<1>13. ASSUME NEW t \in Threads, LoopDial(t) PROVE Agree'
  BY <1>4, <1>13 DEF LoopDial, MustDial
<1>14. ASSUME NEW t \in Threads, LoopSubscribe(t) PROVE Agree'
  BY <1>1, <1>5, <1>14 DEF LoopSubscribe
<1>15. ASSUME NEW t \in Threads, GiveUp(t) PROVE Agree'
  BY <1>2, <1>15 DEF GiveUp
<1>16. CASE ShutdownEvent \/ ShutdownWait \/ ShutdownRelock
  BY <1>1, <1>16 DEF ShutdownEvent, ShutdownWait, ShutdownRelock
<1>17. CASE ShutdownBegin
  BY <1>0, <1>17
     DEF Agree, ShutdownBegin, SocketMatchesState, ControlClosedOnce, WatcherRegistered
<1>18. CASE ShutdownCheck
  <2>1. state = "shutdown" => c # 0
    BY <1>0 DEF SocketMatchesState
  <2> QED BY <1>1, <1>2, <1>3, <1>18, <2>1 DEF ShutdownCheck
<1>19. ASSUME NEW u \in Clients, RequestStart(u) \/ RequestEnd(u) \/ RequestBroadcast(u)
       PROVE  Agree'
  BY <1>1, <1>19 DEF RequestStart, RequestEnd, RequestBroadcast
<1>20. CASE Rest \/ UNCHANGED vars
  BY <1>1, <1>20 DEF Rest, vars
<1> QED
  BY <1>6, <1>7, <1>8, <1>9, <1>10, <1>11, <1>12, <1>13, <1>14, <1>15, <1>16, <1>17,
     <1>18, <1>19, <1>20 DEF Next, Loop, ShutdownStep

-----------------------------------------------------------------------------
(* conn.mutex and the goroutines that reconnect.                           *)

\* A Broadcast moves nobody into or out of a critical section or a loop.
LEMMA WokenKeeps ==
    ASSUME TypeOK, NEW t \in Threads
    PROVE  /\ Woken[t] \in Inside <=> pc[t] \in Inside
           /\ Woken[t] = "off" <=> pc[t] = "off"
           /\ pc[t] \in {"lock", "loop", "giveup"} => Woken[t] = pc[t]
BY DEF TypeOK, Woken, Inside

\* What publishing does to the goroutines: it starts two that were off.
LEMMA PublishPc ==
    ASSUME TypeOK, NotYetStarted, NEW t \in Threads, NEW l \in PCs, Publish(t, l)
    PROVE  /\ pc'[t] = l
           /\ \A u \in Threads \ {t} : pc'[u] \in Inside <=> pc[u] \in Inside
           /\ \A u \in IO : u # t /\ u[2] > dials' => pc'[u] = "off"
<1> DEFINE r == <<"reader", dials + 1>>
           w == <<"writer", dials + 1>>
<1>1. r \in IO /\ w \in IO /\ r # w /\ r[2] = dials + 1 /\ w[2] = dials + 1
  BY NextSocket, ThreadFacts DEF Publish
<1>2. IO \subseteq Threads
  BY DEF Threads
<1>3. pc[r] = "off" /\ pc[w] = "off"
  BY <1>1 DEF NotYetStarted, TypeOK
<1>4. pc' = [Woken EXCEPT ![r] = "run", ![w] = "run", ![t] = l] /\ dials' = dials + 1
  BY DEF Publish
<1>5. Woken \in [Threads -> PCs]
  BY WokenType
<1> HIDE DEF r, w
<1>6. pc'[t] = l
  BY <1>1, <1>2, <1>4, <1>5
<1>7. \A u \in Threads \ {t} : pc'[u] = IF u \in {r, w} THEN "run" ELSE Woken[u]
  BY <1>1, <1>2, <1>4, <1>5
<1>8. \A u \in Threads \ {t} : pc'[u] \in Inside <=> pc[u] \in Inside
  BY <1>3, <1>7, WokenKeeps DEF Inside
<1>9. ASSUME NEW u \in IO, u # t, u[2] > dials' PROVE pc'[u] = "off"
  <2>1. dials \in Nat /\ u[2] \in Nat
    BY DEF TypeOK, IO, Conns
  <2>2. u \notin {r, w} /\ u[2] > dials
    BY <1>1, <1>4, <1>9, <2>1
  <2> QED BY <1>2, <1>7, <1>9, <2>2, WokenKeeps DEF NotYetStarted
<1> QED BY <1>4, <1>5, <1>6, <1>8, <1>9, PublishType

\* conn.mutex is free or its holder is inside, after every step.
LEMMA StepMutex ==
    ASSUME LifecycleInv, [Next]_vars
    PROVE  MutexHeldInside'
<1>0. TypeOK /\ MutexHeldInside /\ NotYetStarted /\ ConnectorLast
  BY DEF LifecycleInv
<1>1. pc \in [Threads -> PCs] /\ mutex \in Threads \cup {Free}
  BY <1>0 DEF TypeOK
<1>2. \A t \in Threads : pc[t] \in Inside <=> mutex = t
  BY <1>0 DEF MutexHeldInside
<1>3. ASSUME NEW t \in Threads, NEW l \in PCs, mutex' = mutex,
             pc' = [pc EXCEPT ![t] = l], l \in Inside <=> pc[t] \in Inside
      PROVE  MutexHeldInside'
  BY <1>1, <1>2, <1>3 DEF MutexHeldInside
<1>4. ASSUME pc' \in {pc, Woken}, mutex' = mutex PROVE MutexHeldInside'
  BY <1>0, <1>2, <1>4, WokenKeeps DEF MutexHeldInside
<1>5. ASSUME NEW t \in Threads, NEW l \in PCs \ Inside, mutex' = Free, mutex = t,
             pc' \in {[pc EXCEPT ![t] = l], [Woken EXCEPT ![t] = l]}
      PROVE  MutexHeldInside'
  BY <1>0, <1>1, <1>2, <1>5, WokenKeeps, WokenType, ThreadFacts DEF MutexHeldInside
<1>6. ASSUME NEW t \in Threads, NEW l \in PCs \cap Inside, mutex = Free, mutex' = t,
             pc' \in {[pc EXCEPT ![t] = l], [Woken EXCEPT ![t] = l]}
      PROVE  MutexHeldInside'
  BY <1>0, <1>1, <1>2, <1>6, WokenKeeps, WokenType, ThreadFacts DEF MutexHeldInside
<1>7. ASSUME NEW t \in Threads, NEW l \in PCs \ Inside, mutex = Free, mutex' = Free,
             pc' = [Woken EXCEPT ![t] = l]
      PROVE  MutexHeldInside'
  BY <1>0, <1>1, <1>2, <1>7, WokenKeeps, WokenType, ThreadFacts DEF MutexHeldInside
<1> USE DEF bootVars, sockVars, loopVars, watcherVars, countVars, shutVars
<1>8. CASE BootDialFails \/ BootSubscribe
  <2>1. CASE pc' = pc
    BY <1>4, <1>8, <2>1 DEF BootDialFails, BootSubscribe
  <2>2. CASE pc' = [pc EXCEPT ![Connector] = "lock"]
    <3>1. mutex' = mutex /\ pc[Connector] = "off"
      BY <1>0, <1>8 DEF BootDialFails, BootSubscribe, ConnectorLast
    <3> QED BY <1>3, <2>2, <3>1, ThreadFacts DEF PCs, Inside
  <2> QED BY <1>8, <2>1, <2>2 DEF BootDialFails, BootSubscribe, BootFailed
<1>9. CASE BootDial
  <2>1. PICK l \in PCs : l = "off" /\ Publish(Connector, l)
    BY <1>9 DEF BootDial, PCs
  <2>2. pc[Connector] = "off" /\ mutex' = mutex
    BY <1>0, <1>9 DEF BootDial, ConnectorLast
  <2> QED BY <1>0, <1>2, <2>1, <2>2, PublishPc, ThreadFacts DEF MutexHeldInside, Inside
<1>10. CASE BootCheck \/ Close
  BY <1>4, <1>10 DEF BootCheck, Close
<1>11. ASSUME NEW t \in Threads, IOFails(t) \/ IOEnds(t) PROVE MutexHeldInside'
  BY <1>3, <1>11 DEF IOFails, IOEnds, Inside, PCs
<1>12. ASSUME NEW t \in Threads, ReconnectIO(t) PROVE MutexHeldInside'
  <2>1. mutex = Free /\ {"loop", "done"} \subseteq PCs
        /\ "loop" \in Inside /\ "done" \notin Inside
    BY <1>12 DEF ReconnectIO, PCs, Inside
  <2>2. \/ mutex' = t /\ pc' = [Woken EXCEPT ![t] = "loop"]
        \/ mutex' = mutex /\ pc' = [Woken EXCEPT ![t] = "done"]
    BY <1>12 DEF ReconnectIO
  <2> QED BY <1>6, <1>7, <2>1, <2>2
<1>13. ASSUME NEW t \in Threads, LockLoop(t) PROVE MutexHeldInside'
  BY <1>6, <1>13 DEF LockLoop, Inside, PCs
<1>14. ASSUME NEW t \in Threads, mutex = t, pc[t] \in Inside, DialFailed(t)
       PROVE  MutexHeldInside'
  BY <1>3, <1>5, <1>14 DEF DialFailed, Inside, PCs
<1>15. ASSUME NEW t \in Threads, LoopDialFails(t) PROVE MutexHeldInside'
  BY <1>14, <1>15 DEF LoopDialFails, Inside
<1>16. ASSUME NEW t \in Threads, LoopDial(t) PROVE MutexHeldInside'
  <2>1. EndOf(t) \in PCs \ Inside /\ "subscribe" \in PCs \cap Inside
    BY DEF EndOf, PCs, Inside
  <2>2. pc[t] \in Inside /\ mutex = t
    BY <1>16 DEF LoopDial, Inside
  <2>3. CASE Publish(t, "subscribe") /\ mutex' = mutex
    BY <1>0, <1>2, <2>1, <2>2, <2>3, PublishPc DEF MutexHeldInside
  <2>4. CASE Publish(t, EndOf(t)) /\ mutex' = Free
    BY <1>0, <1>2, <2>1, <2>2, <2>4, PublishPc, ThreadFacts DEF MutexHeldInside
  <2> QED BY <1>16, <2>3, <2>4 DEF LoopDial
<1>17. ASSUME NEW t \in Threads, LoopSubscribe(t) PROVE MutexHeldInside'
  <2>1. pc[t] \in Inside /\ mutex = t
    BY <1>2, <1>17 DEF LoopSubscribe, Inside
  <2>2. CASE DialFailed(t)
    BY <1>14, <2>1, <2>2
  <2>3. CASE mutex' = Free /\ pc' = [pc EXCEPT ![t] = EndOf(t)]
    <3>1. EndOf(t) \in PCs \ Inside
      BY DEF EndOf, PCs, Inside
    <3> QED BY <1>5, <2>1, <2>3, <3>1
  <2> QED BY <1>17, <2>2, <2>3 DEF LoopSubscribe
<1>18. ASSUME NEW t \in Threads, LoopExit(t) PROVE MutexHeldInside'
  <2>1. EndOf(t) \in PCs \ Inside
    BY DEF EndOf, PCs, Inside
  <2> QED BY <1>3, <1>5, <1>18, <2>1 DEF LoopExit, PCs, Inside
<1>19. ASSUME NEW t \in Threads, GiveUp(t) PROVE MutexHeldInside'
  <2>1. EndOf(t) \in PCs \ Inside
    BY DEF EndOf, PCs, Inside
  <2> QED BY <1>5, <1>19, <2>1 DEF GiveUp
<1>20. CASE ShutdownEvent
  BY <1>3, <1>20, ThreadFacts DEF ShutdownEvent, PCs, Inside
<1>21. CASE ShutdownBegin
  BY <1>3, <1>6, <1>21, ThreadFacts DEF ShutdownBegin, PCs, Inside
<1>22. CASE ShutdownCheck
  <2>1. mutex = Shutter /\ pc[Shutter] \in Inside
    BY <1>2, <1>22, ThreadFacts DEF ShutdownCheck, Inside
  <2>2. \/ mutex' = Free /\ pc' = [pc EXCEPT ![Shutter] = "off"]
        \/ mutex' = mutex /\ pc' = [pc EXCEPT ![Shutter] = "prewait"]
        \/ mutex' = mutex /\ pc' = [pc EXCEPT ![Shutter] = "loop"]
    BY <1>22 DEF ShutdownCheck
  <2> QED BY <1>3, <1>5, <2>1, <2>2, ThreadFacts DEF PCs, Inside
<1>23. CASE ShutdownWait
  <2>1. mutex = Shutter
    BY <1>2, <1>23, ThreadFacts DEF ShutdownWait, Inside
  <2> QED BY <1>5, <1>23, <2>1, ThreadFacts DEF ShutdownWait, PCs, Inside
<1>24. CASE ShutdownRelock
  BY <1>6, <1>24, ThreadFacts DEF ShutdownRelock, PCs, Inside
<1>25. ASSUME NEW u \in Clients, RequestStart(u) \/ RequestEnd(u) \/ RequestBroadcast(u)
       PROVE  MutexHeldInside'
  BY <1>4, <1>25 DEF RequestStart, RequestEnd, RequestBroadcast
<1>26. CASE Rest \/ UNCHANGED vars
  BY <1>4, <1>26 DEF Rest, vars
<1> QED
  BY <1>8, <1>9, <1>10, <1>11, <1>12, <1>13, <1>15, <1>16, <1>17, <1>18, <1>19, <1>20,
     <1>21, <1>22, <1>23, <1>24, <1>25, <1>26 DEF Next, Loop, ShutdownStep

\* Connect is alone until its dial has succeeded or failed, its goroutine comes
\* last, and no goroutine of a socket starts before the socket is there.
LEMMA StepBoot ==
    ASSUME LifecycleInv, [Next]_vars
    PROVE  BootAlone' /\ ConnectorLast' /\ NotYetStarted'
<1>0. TypeOK /\ NotYetStarted /\ BootAlone /\ ConnectorLast
  BY DEF LifecycleInv
<1>1. pc \in [Threads -> PCs]
  BY <1>0 DEF TypeOK
<1>2. IO \subseteq Threads
  BY DEF Threads
<1>3. ASSUME NEW t \in Threads, NEW l, pc[t] # "off", boot' = boot, dials' = dials,
             pc' \in {[pc EXCEPT ![t] = l], [Woken EXCEPT ![t] = l]}
      PROVE  BootAlone' /\ ConnectorLast' /\ NotYetStarted'
  <2>1. boot # "dial"
    BY <1>0, <1>3 DEF BootAlone
  <2>2. t = Connector => boot = "up"
    BY <1>0, <1>3 DEF ConnectorLast
  <2>3. \A u \in Threads \ {t} : pc[u] = "off" => pc'[u] = "off"
    BY <1>0, <1>1, <1>3, WokenKeeps, WokenType
  <2> QED BY <1>0, <1>2, <1>3, <2>1, <2>2, <2>3, ThreadFacts
             DEF BootAlone, ConnectorLast, NotYetStarted
<1>4. ASSUME pc' \in {pc, Woken}, dials' = dials, boot' = boot,
             boot = "dial" => (state' = state /\ c' = c)
      PROVE  BootAlone' /\ ConnectorLast' /\ NotYetStarted'
  <2>1. \A u \in Threads : pc[u] = "off" => pc'[u] = "off"
    BY <1>0, <1>4, WokenKeeps
  <2>2. pc' \in [Threads -> PCs]
    BY <1>0, <1>1, <1>4, WokenType
  <2>3. BootAlone'
    BY <1>0, <1>4, <2>1, <2>2 DEF BootAlone
  <2> QED BY <1>0, <1>2, <1>4, <2>1, <2>3, ThreadFacts DEF ConnectorLast, NotYetStarted
<1> USE DEF bootVars, sockVars, loopVars, watcherVars, countVars, shutVars
<1>5. CASE BootDialFails \/ BootCheck \/ BootSubscribe
  <2>1. /\ boot' # "dial" /\ dials' = dials
        /\ \/ pc' = pc /\ boot # "up"
           \/ boot' = "up" /\ pc' = [pc EXCEPT ![Connector] = "lock"]
    BY <1>5 DEF BootDialFails, BootCheck, BootSubscribe, BootFailed
  <2> QED BY <1>0, <1>1, <1>2, <2>1, ThreadFacts
             DEF BootAlone, ConnectorLast, NotYetStarted
<1>6. CASE BootDial
  <2>1. PICK l \in PCs : l = "off" /\ Publish(Connector, l)
    BY <1>6 DEF BootDial, PCs
  <2> QED BY <1>0, <1>6, <2>1, PublishPc, ThreadFacts
             DEF BootDial, BootAlone, ConnectorLast, NotYetStarted
<1>7. CASE Close
  BY <1>4, <1>7 DEF Close
<1>8. ASSUME NEW t \in Threads, IOFails(t) \/ IOEnds(t) \/ ReconnectIO(t)
      PROVE  BootAlone' /\ ConnectorLast' /\ NotYetStarted'
  BY <1>3, <1>8 DEF IOFails, IOEnds, ReconnectIO
<1>9. ASSUME NEW t \in Threads,
             LockLoop(t) \/ LoopDialFails(t) \/ LoopSubscribe(t) \/ LoopExit(t) \/ GiveUp(t)
      PROVE  BootAlone' /\ ConnectorLast' /\ NotYetStarted'
  <2>1. boot' = boot /\ dials' = dials /\ pc[t] # "off"
    BY <1>9 DEF LockLoop, LoopDialFails, LoopSubscribe, LoopExit, GiveUp
  <2>2. PICK l : pc' \in {[pc EXCEPT ![t] = l], [Woken EXCEPT ![t] = l]}
    BY <1>9 DEF LockLoop, LoopDialFails, LoopSubscribe, LoopExit, GiveUp, DialFailed
  <2> QED BY <1>3, <2>1, <2>2
<1>10. ASSUME NEW t \in Threads, LoopDial(t)
       PROVE  BootAlone' /\ ConnectorLast' /\ NotYetStarted'
  <2>1. boot' = boot /\ pc[t] = "loop" /\ boot # "dial"
    BY <1>0, <1>10 DEF LoopDial, BootAlone
  <2>2. PICK l \in PCs : Publish(t, l)
    BY <1>10 DEF LoopDial, EndOf, PCs
  <2>3. \A u \in Threads : u # t /\ u \notin IO /\ pc[u] = "off" => pc'[u] = "off"
    <3>1. pc' = [Woken EXCEPT ![<<"reader", dials + 1>>] = "run",
                              ![<<"writer", dials + 1>>] = "run", ![t] = l]
      BY <2>2 DEF Publish
    <3>2. <<"reader", dials + 1>> \in IO /\ <<"writer", dials + 1>> \in IO
      BY <1>0, <2>2, NextSocket, ThreadFacts DEF Publish
    <3> QED BY <1>0, <1>2, <3>1, <3>2, WokenKeeps, WokenType
  <2>4. NotYetStarted'
    <3>1. t \in IO => t[2] <= dials
      BY <1>0, <2>1 DEF NotYetStarted, TypeOK, IO, Conns
    <3>2. dials' = dials + 1 /\ dials \in Nat
      BY <1>0, <2>2 DEF Publish, TypeOK
    <3>3. t \in IO => ~(t[2] > dials')
      BY <3>1, <3>2 DEF IO, Conns
    <3> QED BY <1>0, <2>2, <3>3, PublishPc DEF NotYetStarted
  <2> QED BY <1>0, <2>1, <2>3, <2>4, ThreadFacts DEF BootAlone, ConnectorLast
<1>11. CASE ShutdownEvent
  <2>1. boot # "dial"
    BY <1>0, <1>11 DEF BootAlone, ShutdownEvent
  <2> QED BY <1>0, <1>1, <1>2, <1>11, <2>1, ThreadFacts
             DEF ShutdownEvent, BootAlone, ConnectorLast, NotYetStarted
<1>12. CASE ShutdownStep
  <2>1. boot' = boot /\ dials' = dials /\ pc[Shutter] # "off"
    BY <1>12 DEF ShutdownStep, ShutdownBegin, ShutdownCheck, ShutdownWait, ShutdownRelock
  <2>2. PICK l : pc' = [pc EXCEPT ![Shutter] = l]
    BY <1>12 DEF ShutdownStep, ShutdownBegin, ShutdownCheck, ShutdownWait, ShutdownRelock
  <2> QED BY <1>3, <2>1, <2>2, ThreadFacts
<1>13. ASSUME NEW u \in Clients, RequestStart(u) \/ RequestEnd(u) \/ RequestBroadcast(u)
       PROVE  BootAlone' /\ ConnectorLast' /\ NotYetStarted'
  BY <1>4, <1>13 DEF RequestStart, RequestEnd, RequestBroadcast
<1>14. CASE Rest \/ UNCHANGED vars
  BY <1>4, <1>14 DEF Rest, vars
<1> QED
  BY <1>5, <1>6, <1>7, <1>8, <1>9, <1>10, <1>11, <1>12, <1>13, <1>14 DEF Next, Loop

\* A goroutine leaves the loop of createConnection only when it has connected,
\* when it closes for good, or when the loop's condition is false.
LEMMA StepAttended ==
    ASSUME LifecycleInv, [Next]_vars
    PROVE  DisconnectedAttended'
<1> DEFINE Attended == {t \in Threads : pc[t] \in {"lock", "loop", "giveup"}}
<1>0. TypeOK /\ SocketMatchesState /\ BootAlone /\ DisconnectedAttended
  BY DEF LifecycleInv
<1>1. pc \in [Threads -> PCs] /\ Woken \in [Threads -> PCs]
  BY <1>0, WokenType DEF TypeOK
<1>2. \A t \in Attended : Woken[t] = pc[t]
  BY <1>0, WokenKeeps
<1>3. ASSUME NEW t \in Threads, NEW l, l \in {"lock", "loop", "giveup"},
             pc' \in {[pc EXCEPT ![t] = l], [Woken EXCEPT ![t] = l]}
      PROVE  DisconnectedAttended'
  BY <1>1, <1>3 DEF DisconnectedAttended
<1>4. ASSUME NEW t \in Threads, pc[t] \notin {"lock", "loop", "giveup"}, NEW l,
             state' = state, boot' = boot,
             \/ pc' = [pc EXCEPT ![t] = l]
             \/ pc' = [Woken EXCEPT ![t] = l]
      PROVE  DisconnectedAttended'
  <2> SUFFICES ASSUME boot' \in {"subscribe", "watch", "up"}, state' = "disconnected"
               PROVE  \E u \in Threads : pc'[u] \in {"lock", "loop", "giveup"}
    BY DEF DisconnectedAttended
  <2>1. PICK u \in Threads : pc[u] \in {"lock", "loop", "giveup"}
    BY <1>0, <1>4 DEF DisconnectedAttended
  <2>2. pc'[u] = pc[u]
    BY <1>1, <1>2, <1>4, <2>1
  <2> QED BY <2>1, <2>2
<1>5. ASSUME state' # "disconnected" PROVE DisconnectedAttended'
  BY <1>5 DEF DisconnectedAttended
<1> USE DEF bootVars, sockVars, loopVars, watcherVars, countVars, shutVars
<1>6. CASE BootDialFails
  BY <1>3, <1>6, ThreadFacts DEF BootDialFails, BootFailed, DisconnectedAttended
<1>7. CASE BootDial
  BY <1>5, <1>7 DEF BootDial, Publish
<1>8. CASE BootCheck \/ BootSubscribe
  <2>1. CASE pc' = [pc EXCEPT ![Connector] = "lock"]
    BY <1>3, <2>1, ThreadFacts
  <2>2. CASE pc' = pc
    BY <1>0, <1>8, <2>2 DEF BootCheck, BootSubscribe, DisconnectedAttended
  <2> QED BY <1>8, <2>1, <2>2 DEF BootCheck, BootSubscribe, BootFailed
<1>9. CASE Close
  BY <1>5, <1>9 DEF Close, CloseForever
<1>10. ASSUME NEW t \in Threads, IOFails(t) \/ IOEnds(t) PROVE DisconnectedAttended'
  BY <1>4, <1>10 DEF IOFails, IOEnds
<1>11. ASSUME NEW t \in Threads, ReconnectIO(t) PROVE DisconnectedAttended'
  BY <1>3, <1>4, <1>5, <1>11 DEF ReconnectIO, CloseForever
<1>12. ASSUME NEW t \in Threads, LockLoop(t) PROVE DisconnectedAttended'
  BY <1>3, <1>12 DEF LockLoop
<1>13. ASSUME NEW t \in Threads, DialFailed(t) PROVE DisconnectedAttended'
  BY <1>3, <1>13 DEF DialFailed
<1>14. ASSUME NEW t \in Threads, LoopDialFails(t) PROVE DisconnectedAttended'
  BY <1>13, <1>14 DEF LoopDialFails
<1>15. ASSUME NEW t \in Threads, LoopDial(t) PROVE DisconnectedAttended'
  BY <1>5, <1>15 DEF LoopDial, Publish
<1>16. ASSUME NEW t \in Threads, LoopSubscribe(t) PROVE DisconnectedAttended'
  <2>1. CASE DialFailed(t)
    BY <1>13, <2>1
  <2>2. CASE pc' = [pc EXCEPT ![t] = EndOf(t)]
    BY <1>4, <1>16, <2>2 DEF LoopSubscribe
  <2> QED BY <1>16, <2>1, <2>2 DEF LoopSubscribe
<1>17. ASSUME NEW t \in Threads, LoopExit(t) PROVE DisconnectedAttended'
  <2>1. state' # "disconnected"
    BY <1>0, <1>17 DEF LoopExit, MustDial, SocketMatchesState
  <2> QED BY <1>5, <2>1
<1>18. ASSUME NEW t \in Threads, GiveUp(t) PROVE DisconnectedAttended'
  BY <1>5, <1>18 DEF GiveUp, CloseForever
<1>19. CASE ShutdownEvent
  BY <1>4, <1>19, ThreadFacts DEF ShutdownEvent
<1>20. CASE ShutdownBegin
  BY <1>4, <1>5, <1>20, ThreadFacts DEF ShutdownBegin
<1>21. CASE ShutdownCheck
  BY <1>3, <1>4, <1>5, <1>21, ThreadFacts DEF ShutdownCheck, CloseForever
<1>22. CASE ShutdownWait \/ ShutdownRelock
  BY <1>4, <1>22, ThreadFacts DEF ShutdownWait, ShutdownRelock
<1>23. ASSUME pc' \in {pc, Woken}, state' = state, boot' = boot PROVE DisconnectedAttended'
  BY <1>0, <1>2, <1>23 DEF DisconnectedAttended
<1>24. ASSUME NEW u \in Clients, RequestStart(u) \/ RequestEnd(u) \/ RequestBroadcast(u)
       PROVE  DisconnectedAttended'
  BY <1>23, <1>24 DEF RequestStart, RequestEnd, RequestBroadcast
<1>25. CASE Rest \/ UNCHANGED vars
  BY <1>23, <1>25 DEF Rest, vars
<1> QED
  BY <1>6, <1>7, <1>8, <1>9, <1>10, <1>11, <1>12, <1>14, <1>15, <1>16, <1>17, <1>18,
     <1>19, <1>20, <1>21, <1>22, <1>24, <1>25 DEF Next, Loop, ShutdownStep

-----------------------------------------------------------------------------
(* The theorems.                                                           *)

\* The strengthened invariant holds in every reachable state.
LEMMA LifecycleInductive == Spec => []LifecycleInv
<1>1. Init => LifecycleInv
  <2> SUFFICES ASSUME Init PROVE LifecycleInv
    OBVIOUS
  <2>1. TypeOK
    BY InitTyping
  <2>2. SocketMatchesState /\ ControlClosedOnce /\ BootAlone /\ WatcherRegistered
    BY DEF Init, SocketMatchesState, ControlClosedOnce, BootAlone, WatcherRegistered
  <2>3. ConnectorLast /\ NotYetStarted /\ DisconnectedAttended
    BY ThreadFacts DEF Init, ConnectorLast, NotYetStarted, DisconnectedAttended, Threads
  <2>4. MutexHeldInside
    BY ThreadFacts DEF Init, MutexHeldInside, Inside
  <2> QED BY <2>1, <2>2, <2>3, <2>4 DEF LifecycleInv
<1>2. LifecycleInv /\ [Next]_vars => LifecycleInv'
  <2> SUFFICES ASSUME LifecycleInv, [Next]_vars PROVE LifecycleInv'
    OBVIOUS
  <2>1. TypeOK'
    BY StepTyping DEF LifecycleInv
  <2> QED BY <2>1, StepSockets, StepBoot, StepAttended, StepMutex DEF LifecycleInv
<1> QED BY <1>1, <1>2, PTL DEF Spec

\* state, conn.c, the open sockets and the control channel agree in every
\* interleaving, whatever the options and however often the connection is lost:
\* there is never a second open socket and control is closed once.
THEOREM StateConsistentHolds == Spec => []StateConsistent
<1>1. LifecycleInv => StateConsistent
  BY DEF LifecycleInv, StateConsistent
<1> QED BY <1>1, LifecycleInductive, PTL

\* A disconnected Connection is never forgotten: a goroutine is dialling, is
\* asleep before it dials again, or is about to close the connection.
THEOREM SomebodyReconnectsHolds == Spec => []SomebodyReconnects
<1>1. LifecycleInv => SomebodyReconnects
  BY DEF LifecycleInv, DisconnectedAttended, SomebodyReconnects
<1> QED BY <1>1, LifecycleInductive, PTL

\* conn.mutex protects what it is meant to protect: reconnect's loops, the
\* subscription of the shutdown watcher and shutdown()'s checks exclude each
\* other, although the loops and cond.Wait give the mutex away in between.
THEOREM MutexHeldInsideHolds == Spec => []MutexHeldInside
<1>1. LifecycleInv => MutexHeldInside
  BY DEF LifecycleInv
<1> QED BY <1>1, LifecycleInductive, PTL

\* Close is final: no goroutine that was about to dial, to reconnect or to shut
\* down takes a closed Connection out of this state.
THEOREM ClosedForGoodHolds == Spec => ClosedForGood
<1>1. ASSUME LifecycleInv, [Next]_vars, state = "closed" PROVE state' = "closed"
  <2>1. c = 0 /\ boot # "dial"
    BY <1>1 DEF LifecycleInv, SocketMatchesState, BootAlone
  <2> USE DEF bootVars, sockVars, loopVars, watcherVars, countVars, shutVars
  <2>2. CASE BootDialFails \/ BootDial \/ BootCheck \/ BootSubscribe \/ Close
    BY <1>1, <2>1, <2>2
       DEF BootDialFails, BootDial, BootCheck, BootSubscribe, Close, CloseForever
  <2>3. ASSUME NEW t \in Threads, IOFails(t) \/ IOEnds(t) \/ ReconnectIO(t)
        PROVE  state' = "closed"
    <3>1. t \in IO => t[2] # 0
      BY DEF IO, Conns
    <3> QED BY <1>1, <2>1, <2>3, <3>1
               DEF IOFails, IOEnds, ReconnectIO, CloseForever, IsCurrent
  <2>4. ASSUME NEW t \in Threads, Loop(t) PROVE state' = "closed"
    BY <1>1, <2>4 DEF Loop, LockLoop, LoopDialFails, LoopDial, LoopSubscribe, LoopExit,
                      GiveUp, CloseForever, MustDial
  <2>5. CASE ShutdownEvent \/ ShutdownStep
    BY <1>1, <2>5 DEF ShutdownEvent, ShutdownStep, ShutdownBegin, ShutdownCheck,
                      ShutdownWait, ShutdownRelock, CloseForever
  <2>6. ASSUME NEW u \in Clients, RequestStart(u) \/ RequestEnd(u) \/ RequestBroadcast(u)
        PROVE  state' = "closed"
    BY <1>1, <2>6 DEF RequestStart, RequestEnd, RequestBroadcast
  <2>7. CASE Rest \/ UNCHANGED vars
    BY <1>1, <2>7 DEF Rest, vars
  <2> QED BY <1>1, <2>2, <2>3, <2>4, <2>5, <2>6, <2>7 DEF Next
<1>2. LifecycleInv /\ [Next]_vars => [state = "closed" => state' = "closed"]_vars
  BY <1>1
<1> QED BY <1>2, LifecycleInductive, PTL DEF Spec, ClosedForGood
=============================================================================
