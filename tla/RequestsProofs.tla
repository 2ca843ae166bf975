--------------------------- MODULE RequestsProofs ---------------------------
(* Theorems about Requests, for every set of requests and all options.     *)
EXTENDS Requests, TLAPS, FiniteSetTheorems

USE ReqIdsAssumption, KindsAssumption, ConcurrencyAssumption, OptsAssumption,
    BoundsAssumption

\* What the helpers do to the variables they set.
LEMMA SetType ==
    ASSUME TypeOK, NEW r \in ReqIds, NEW v \in Outcomes, Set(r, v)
    PROVE  fut' \in [ReqIds -> Outcomes]
BY DEF Set, TypeOK

\* getFutureImp with fetch keeps both lists within ReqIds.
LEMMA FetchType ==
    ASSUME TypeOK, NEW r \in ReqIds, Fetch(r)
    PROVE  requests' \subseteq ReqIds /\ requestsWithCtx' \subseteq ReqIds
BY DEF Fetch, TypeOK

\* A new Connection has the right types.
LEMMA InitTyping == Init => TypeOK
<1> SUFFICES ASSUME Init PROVE TypeOK
  OBVIOUS
<1>1. pc \in [ReqIds -> PCs] /\ fut \in [ReqIds -> Outcomes]
  BY DEF Init, PCs, Outcomes
<1>2. wire \in [ReqIds -> {"none", "sent", "answered"}]
  BY DEF Init
<1>3. state \in States /\ dials \in Nat
  BY DEF Init, States
<1>4. rlimit \in 0..RateLimit /\ requestCnt \in Int /\ pushes \in Nat
  BY DEF Init
<1>5. /\ closing \in {"no"} \cup CloseErrors /\ drained \in BOOLEAN
      /\ requests \subseteq ReqIds /\ requestsWithCtx \subseteq ReqIds
      /\ got \subseteq Goroutines \X ReqIds /\ marking \subseteq Goroutines \X ReqIds
      /\ ctxDone \subseteq ReqIds /\ watchdog \subseteq ReqIds
  BY DEF Init
<1> QED BY <1>1, <1>2, <1>3, <1>4, <1>5 DEF TypeOK

\* Every critical section preserves the types.
LEMMA StepTyping == TypeOK /\ [Next]_vars => TypeOK'
<1> SUFFICES ASSUME TypeOK, [Next]_vars PROVE TypeOK'
  OBVIOUS
<1> USE DEF TypeOK, connVars, listVars, ctxVars, wireVars
<1>1. ASSUME NEW r \in ReqIds, Send(r) PROVE TypeOK'
  BY <1>1 DEF Send, GoTo, PCs, Returned
<1>2. ASSUME NEW r \in ReqIds, LimitDrop(r) PROVE TypeOK'
  BY <1>2, SetType DEF LimitDrop, GoTo, PCs, Returned, TokenFree, Uncount, Outcomes
<1>3. ASSUME NEW r \in ReqIds, LoadState(r) PROVE TypeOK'
  <2>1. CASE Accepts
    BY <1>3, <2>1 DEF LoadState, GoTo, PCs, Returned
  <2>2. CASE ~Accepts
    <3>1. RefusalOf[state] \in Outcomes
      BY <2>2 DEF RefusalOf, States, Outcomes, Accepts
    <3> QED BY <1>3, <2>2, <3>1, SetType DEF LoadState, GoTo, PCs, Returned, Uncount
  <2> QED BY <2>1, <2>2
<1>4. ASSUME NEW r \in ReqIds, AddFuture(r) PROVE TypeOK'
  <2>1. fut' \in [ReqIds -> Outcomes]
    BY <1>4, SetType DEF AddFuture, Outcomes
  <2>2. pc' \in [ReqIds -> PCs]
    BY <1>4 DEF AddFuture, GoTo, AfterNewFuture, PCs, Returned
  <2>3. requests' \subseteq ReqIds /\ requestsWithCtx' \subseteq ReqIds
    BY <1>4 DEF AddFuture, Enqueue
  <2> QED BY <1>4, <2>1, <2>2, <2>3 DEF AddFuture
<1>5. ASSUME NEW r \in ReqIds, LimitWait(r) PROVE TypeOK'
  BY <1>5 DEF LimitWait, GoTo, PCs, Returned, TokenFree, AfterNewFuture
<1>6. ASSUME NEW r \in ReqIds, CheckCtx(r) PROVE TypeOK'
  BY <1>6 DEF CheckCtx, GoTo, PCs, Returned, StartWatchdog
<1>7. ASSUME NEW r \in ReqIds, PutFuture(r) PROVE TypeOK'
  BY <1>7 DEF PutFuture, GoTo, PCs, Returned, Trunc
<1>8. ASSUME NEW r \in ReqIds, SenderFetch(r) PROVE TypeOK'
  <2>1. pc' \in [ReqIds -> PCs]
    BY <1>8 DEF SenderFetch, GoTo, PCs, Returned
  <2>2. got' \subseteq Goroutines \X ReqIds
    BY <1>8 DEF SenderFetch, Goroutines
  <2>3. requests' \subseteq ReqIds /\ requestsWithCtx' \subseteq ReqIds
    BY <1>8, FetchType DEF SenderFetch
  <2> QED BY <1>8, <2>1, <2>2, <2>3 DEF SenderFetch
<1>9. ASSUME NEW r \in ReqIds, PackWait(r) PROVE TypeOK'
  BY <1>9, SetType DEF PackWait, GoTo, PCs, Returned, Outcomes
<1>10. ASSUME NEW r \in ReqIds, NEW g \in Goroutines, Settle(g, r) PROVE TypeOK'
  <2>1. Result(g, r) \in Outcomes
    BY DEF Result, Outcomes
  <2> QED BY <1>10, <2>1, SetType DEF Settle
<1>11. ASSUME NEW r \in ReqIds, NEW g \in Goroutines, MarkDone(g, r) PROVE TypeOK'
  BY <1>11 DEF MarkDone, PCs, Returned, Uncount, ReleaseToken
<1>12. ASSUME NEW r \in ReqIds, ReadResponse(r) PROVE TypeOK'
  <2>1. requests' \subseteq ReqIds /\ requestsWithCtx' \subseteq ReqIds
    BY <1>12, FetchType DEF ReadResponse
  <2>2. got' \subseteq Goroutines \X ReqIds
    BY <1>12 DEF ReadResponse, Goroutines
  <2> QED BY <1>12, <2>1, <2>2 DEF ReadResponse
<1>13. ASSUME NEW r \in ReqIds, ReadPush(r) PROVE TypeOK'
  <2>1. requests' \subseteq ReqIds /\ requestsWithCtx' \subseteq ReqIds
    BY <1>13 DEF ReadPush
  <2>2. pushes' \in Nat
    BY <1>13 DEF ReadPush
  <2> QED BY <1>13, <2>1, <2>2 DEF ReadPush
<1>14. ASSUME NEW r \in ReqIds, Expire(r) PROVE TypeOK'
  BY <1>14, SetType DEF Expire, Outcomes, Goroutines
<1>15. ASSUME NEW r \in ReqIds, CtxExpire(r) \/ WatchdogDone(r) PROVE TypeOK'
  BY <1>15 DEF CtxExpire, WatchdogDone
<1>16. ASSUME NEW r \in ReqIds, WatchdogCancel(r) PROVE TypeOK'
  BY <1>16, FetchType DEF WatchdogCancel, Goroutines
<1>17. ASSUME NEW r \in ReqIds, ClearOne(r) PROVE TypeOK'
  <2>1. closing \in Outcomes
    BY <1>17 DEF ClearOne, CloseErrors, Outcomes
  <2> QED BY <1>17, <2>1, SetType DEF ClearOne, Goroutines
<1>18. CASE UserClose \/ NetFailure \/ ShutdownReconnect
  BY <1>18 DEF UserClose, NetFailure, ShutdownReconnect, CloseBegin, AfterFailure,
               CloseErrors, States
<1>19. CASE CloseEnd \/ Shutdown \/ ShutdownDrained
  <2>1. CASE CloseEnd
    BY <2>1 DEF CloseEnd
  <2>2. CASE Shutdown
    BY <2>2 DEF Shutdown, States
  <2>3. CASE ShutdownDrained
    BY <2>3 DEF ShutdownDrained
  <2> QED BY <1>19, <2>1, <2>2, <2>3
<1>20. CASE Dial
  BY <1>20 DEF Dial, States
<1>21. CASE Rest \/ UNCHANGED vars
  BY <1>21 DEF Rest, vars
<1> QED
  BY <1>1, <1>2, <1>3, <1>4, <1>5, <1>6, <1>7, <1>8, <1>9, <1>10, <1>11, <1>12,
     <1>13, <1>14, <1>15, <1>16, <1>17, <1>18, <1>19, <1>20, <1>21
     DEF Next, ClientStep, RequestStep

\* Every variable keeps its type: no transition of send(), of the goroutines or
\* of conn.state leaves its range, and rlimit never holds more than RateLimit
\* tokens nor fewer than none.
THEOREM Typing == Spec => []TypeOK
BY InitTyping, StepTyping, PTL DEF Spec

-----------------------------------------------------------------------------
(* The strengthening that makes the safety invariants inductive.           *)

\* Until addFuture nobody else knows the future, and what newFuture turned away
\* is never queued.
TurnedAway == {"limited", "refused", "abandoned"}
EntryFresh ==
    \A r \in ReqIds :
        /\ pc[r] \in Entered \cup TurnedAway => r \notin Queued /\ ~Owned(r)
        /\ pc[r] \in Entered => ~Done(r)

\* newFuture holds its shard's lock when it queues the future, so that no
\* closeConnection has run since it loaded the state.
AddHoldsLock ==
    \A r \in ReqIds : pc[r] = "add" => closing = "no" /\ state \in {"connected", "shutdown"}

\* Only a packed request is answered.
PackedFirst ==
    \A r \in ReqIds :
        /\ wire[r] # "none" => pc[r] \in {"async", "returned"}
        /\ pc[r] = "async" => wire[r] # "none"
        /\ wire[r] = "none" => fut[r] # "resp" /\ <<"reader", r>> \notin got
        /\ <<"sender", r>> \in got => pc[r] \in {"cancel", "packerr", "async"}

SafetyInv ==
    /\ TypeOK
    /\ SoleOwner /\ NoLostFuture /\ UnusableQueueEmpty
    /\ EntryFresh /\ AddHoldsLock /\ PackedFirst
-----------------------------------------------------------------------------
(* One lemma for each conjunct.                                            *)

\* Fetching a future takes it off both lists.
LEMMA FetchFound ==
    ASSUME TypeOK, SoleOwner, NEW r \in ReqIds, Found(r), Fetch(r)
    PROVE  /\ r \in Queued
           /\ Queued' = Queued \ {r}
           /\ requests' \cap requestsWithCtx' = {}
BY DEF TypeOK, SoleOwner, Found, Fetch, Queued

\* fetchFuture: from the list into the hands of one goroutine.
LEMMA TakeKeepsSoleOwner ==
    ASSUME TypeOK, SoleOwner, NEW r \in ReqIds, NEW g \in Goroutines,
           r \in Queued, Queued' = Queued \ {r}, requests' \cap requestsWithCtx' = {},
           got' = got \cup {<<g, r>>}, UNCHANGED <<marking, fut>>
    PROVE  SoleOwner'
<1>1. ~Owned(r) /\ ~Done(r)
  BY DEF SoleOwner
<1>2. \A q \in ReqIds, h \in Goroutines :
        <<h, q>> \in got' \cup marking' <=>
            <<h, q>> \in got \cup marking \/ (h = g /\ q = r)
  OBVIOUS
<1>3. got' \cap marking' = {}
  BY <1>1 DEF SoleOwner, Owned
<1>4. ASSUME NEW q \in ReqIds, q \in Queued' PROVE ~Owned(q)' /\ ~Done(q)'
  BY <1>2, <1>4 DEF SoleOwner, Owned, Done
<1>5. ASSUME NEW q \in ReqIds, NEW h \in Goroutines, <<h, q>> \in got' PROVE ~Done(q)'
  BY <1>1, <1>5 DEF SoleOwner, Done
<1>6. ASSUME NEW q \in ReqIds, NEW h \in Goroutines, NEW k \in Goroutines,
             <<h, q>> \in got' \cup marking', <<k, q>> \in got' \cup marking'
      PROVE  h = k
  BY <1>1, <1>2, <1>6 DEF SoleOwner, Owned
<1> QED BY <1>3, <1>4, <1>5, <1>6 DEF SoleOwner

\* timeouts and clear: from the list to markDone, settled on the way.
LEMMA SeizeKeepsSoleOwner ==
    ASSUME TypeOK, SoleOwner, NEW r \in ReqIds, NEW g \in Goroutines, NEW v \in Outcomes,
           r \in Queued, Queued' = Queued \ {r}, requests' \cap requestsWithCtx' = {},
           marking' = marking \cup {<<g, r>>}, got' = got, Set(r, v)
    PROVE  SoleOwner'
<1>1. ~Owned(r) /\ ~Done(r)
  BY DEF SoleOwner
<1>2. \A q \in ReqIds, h \in Goroutines :
        <<h, q>> \in got' \cup marking' <=>
            <<h, q>> \in got \cup marking \/ (h = g /\ q = r)
  OBVIOUS
<1>3. got' \cap marking' = {}
  BY <1>1 DEF SoleOwner, Owned
<1>a. \A q \in ReqIds : q # r => (Done(q)' <=> Done(q))
  BY DEF Set, Done, TypeOK
<1>4. ASSUME NEW q \in ReqIds, q \in Queued' PROVE ~Owned(q)' /\ ~Done(q)'
  BY <1>2, <1>4, <1>a DEF SoleOwner, Owned
<1>5. ASSUME NEW q \in ReqIds, NEW h \in Goroutines, <<h, q>> \in got' PROVE ~Done(q)'
  BY <1>1, <1>5, <1>a DEF SoleOwner, Owned
<1>6. ASSUME NEW q \in ReqIds, NEW h \in Goroutines, NEW k \in Goroutines,
             <<h, q>> \in got' \cup marking', <<k, q>> \in got' \cup marking'
      PROVE  h = k
  BY <1>1, <1>2, <1>6 DEF SoleOwner, Owned
<1> QED BY <1>3, <1>4, <1>5, <1>6 DEF SoleOwner

\* SetError on a future nobody holds, as newFuture and putFuture do.
LEMMA SetKeepsSoleOwner ==
    ASSUME TypeOK, SoleOwner, NEW r \in ReqIds, NEW v \in Outcomes, Set(r, v),
           r \notin Queued, ~Owned(r) \/ Done(r),
           UNCHANGED <<requests, requestsWithCtx, got, marking>>
    PROVE  SoleOwner'
<1>1. \A q \in ReqIds : q # r => (Done(q)' <=> Done(q))
  BY DEF Set, Done, TypeOK
<1>2. \A q \in ReqIds : Owned(q)' <=> Owned(q)
  BY DEF Owned
<1>3. Queued' = Queued
  BY DEF Queued
<1>4. ASSUME Done(r) PROVE fut' = fut
  BY <1>4 DEF Set
<1> QED BY <1>1, <1>2, <1>3, <1>4 DEF SoleOwner, Owned, Done

\* Every critical section preserves the sole ownership of a future.
LEMMA SoleOwnerStep ==
    ASSUME TypeOK, SoleOwner, EntryFresh, [Next]_vars
    PROVE  SoleOwner'
<1> USE DEF connVars, listVars, ctxVars, wireVars
<1>f. ASSUME UNCHANGED <<requests, requestsWithCtx, got, marking, fut>> PROVE SoleOwner'
  BY <1>f DEF SoleOwner, Queued, Owned, Done
<1>1. ASSUME NEW r \in ReqIds, Send(r) \/ LimitWait(r) \/ CheckCtx(r) \/ PutFuture(r)
                                \/ CtxExpire(r) \/ WatchdogDone(r)
      PROVE  SoleOwner'
  BY <1>1, <1>f DEF Send, LimitWait, CheckCtx, PutFuture, CtxExpire, WatchdogDone
<1>2. ASSUME NEW r \in ReqIds, LimitDrop(r) PROVE SoleOwner'
  <2>1. r \notin Queued /\ ~Owned(r)
    BY <1>2 DEF LimitDrop, EntryFresh, Entered
  <2>2. CASE Set(r, "errRateLimited")
    BY <1>2, <2>1, <2>2, SetKeepsSoleOwner DEF LimitDrop, Outcomes
  <2> QED BY <1>2, <1>f, <2>2 DEF LimitDrop
<1>3. ASSUME NEW r \in ReqIds, LoadState(r) PROVE SoleOwner'
  <2>1. r \notin Queued /\ ~Owned(r)
    BY <1>3 DEF LoadState, EntryFresh, Entered
  <2>2. CASE ~Accepts
    <3>1. RefusalOf[state] \in Outcomes
      BY <2>2 DEF RefusalOf, Outcomes, TypeOK, States, Accepts
    <3> QED BY <1>3, <2>1, <2>2, <3>1, SetKeepsSoleOwner DEF LoadState
  <2> QED BY <1>3, <1>f, <2>2 DEF LoadState
<1>4. ASSUME NEW r \in ReqIds, AddFuture(r) PROVE SoleOwner'
  <2>1. r \notin Queued /\ ~Owned(r) /\ ~Done(r)
    BY <1>4 DEF AddFuture, EntryFresh, Entered
  <2>2. CASE Set(r, "errCtx") /\ UNCHANGED listVars
    BY <1>4, <2>1, <2>2, SetKeepsSoleOwner DEF AddFuture, Outcomes
  <2>3. CASE Enqueue(r) /\ UNCHANGED fut
    <3>1. Queued' = Queued \cup {r} /\ requests' \cap requestsWithCtx' = {}
      BY <2>1, <2>3 DEF Enqueue, Queued, SoleOwner
    <3>2. \A q \in ReqIds : (Owned(q)' <=> Owned(q)) /\ (Done(q)' <=> Done(q))
      BY <1>4, <2>3 DEF AddFuture, Owned, Done
    <3> QED BY <1>4, <2>1, <3>1, <3>2 DEF AddFuture, SoleOwner
  <2> QED BY <1>4, <2>2, <2>3 DEF AddFuture
<1>5. ASSUME NEW r \in ReqIds, SenderFetch(r) PROVE SoleOwner'
  <2>1. CASE Found(r)
    BY <1>5, <2>1, FetchFound, TakeKeepsSoleOwner DEF SenderFetch, Goroutines
  <2>2. CASE ~Found(r)
    BY <1>5, <1>f, <2>2 DEF SenderFetch
  <2> QED BY <2>1, <2>2
<1>6. ASSUME NEW r \in ReqIds, PackWait(r) PROVE SoleOwner'
  <2>1. fut' = fut
    BY <1>6 DEF PackWait, Set
  <2> QED BY <1>6, <1>f, <2>1 DEF PackWait
<1>7. ASSUME NEW r \in ReqIds, NEW g \in Goroutines, Settle(g, r) PROVE SoleOwner'
  <2>1. ~Done(r) /\ r \notin Queued
    BY <1>7 DEF Settle, SoleOwner, Owned
  <2>2. \A q \in ReqIds : q # r => (Done(q)' <=> Done(q))
    BY <1>7 DEF Settle, Set, Done, TypeOK
  <2>3. \A q \in ReqIds, h \in Goroutines :
          <<h, q>> \in got' \cup marking' <=> <<h, q>> \in got \cup marking
    BY <1>7 DEF Settle
  <2>4. got' \cap marking' = {}
    BY <1>7 DEF Settle, SoleOwner
  <2>5. Queued' = Queued /\ requests' \cap requestsWithCtx' = {}
    BY <1>7 DEF Settle, Queued, SoleOwner
  <2>6. ASSUME NEW q \in ReqIds, NEW h \in Goroutines, <<h, q>> \in got' PROVE ~Done(q)'
    BY <1>7, <2>2, <2>6 DEF Settle, SoleOwner
  <2> QED BY <2>1, <2>2, <2>3, <2>4, <2>5, <2>6 DEF SoleOwner, Owned
<1>8. ASSUME NEW r \in ReqIds, NEW g \in Goroutines, MarkDone(g, r) PROVE SoleOwner'
  <2>1. got' = got /\ marking' \subseteq marking /\ fut' = fut
    BY <1>8 DEF MarkDone
  <2>2. \A q \in ReqIds : (Owned(q)' => Owned(q)) /\ (Done(q)' <=> Done(q))
    BY <2>1 DEF Owned, Done
  <2>3. Queued' = Queued /\ requests' \cap requestsWithCtx' = {}
    BY <1>8 DEF MarkDone, Queued, SoleOwner
  <2> QED BY <2>1, <2>2, <2>3 DEF SoleOwner
<1>9. ASSUME NEW r \in ReqIds, ReadResponse(r) PROVE SoleOwner'
  <2>1. CASE Found(r)
    BY <1>9, <2>1, FetchFound, TakeKeepsSoleOwner DEF ReadResponse, Goroutines
  <2>2. CASE ~Found(r)
    BY <1>9, <1>f, <2>2 DEF ReadResponse
  <2> QED BY <2>1, <2>2
<1>10. ASSUME NEW r \in ReqIds, ReadPush(r) PROVE SoleOwner'
  <2>1. Queued' = Queued /\ requests' \cap requestsWithCtx' = {}
    BY <1>10 DEF ReadPush, Found, Queued, SoleOwner
  <2>2. \A q \in ReqIds : (Owned(q)' <=> Owned(q)) /\ (Done(q)' <=> Done(q))
    BY <1>10 DEF ReadPush, Owned, Done
  <2> QED BY <1>10, <2>1, <2>2 DEF ReadPush, SoleOwner
<1>11. ASSUME NEW r \in ReqIds, Expire(r) PROVE SoleOwner'
  <2>1. /\ r \in Queued /\ Queued' = Queued \ {r}
        /\ requests' \cap requestsWithCtx' = {}
    BY <1>11 DEF Expire, Queued, SoleOwner
  <2> QED BY <1>11, <2>1, SeizeKeepsSoleOwner DEF Expire, Goroutines, Outcomes
<1>12. ASSUME NEW r \in ReqIds, WatchdogCancel(r) PROVE SoleOwner'
  <2>1. CASE Found(r)
    BY <1>12, <2>1, FetchFound, TakeKeepsSoleOwner DEF WatchdogCancel, Goroutines
  <2>2. CASE ~Found(r)
    BY <1>12, <1>f, <2>2 DEF WatchdogCancel
  <2> QED BY <2>1, <2>2
<1>13. ASSUME NEW r \in ReqIds, ClearOne(r) PROVE SoleOwner'
  <2>1. /\ r \in Queued /\ Queued' = Queued \ {r}
        /\ requests' \cap requestsWithCtx' = {}
    BY <1>13 DEF ClearOne, Queued, SoleOwner
  <2>2. closing \in Outcomes
    BY <1>13 DEF ClearOne, TypeOK, CloseErrors, Outcomes
  <2> QED BY <1>13, <2>1, <2>2, SeizeKeepsSoleOwner DEF ClearOne, Goroutines
<1>14. CASE UserClose \/ NetFailure \/ ShutdownReconnect
  BY <1>14, <1>f DEF UserClose, NetFailure, ShutdownReconnect, CloseBegin
<1>15. CASE CloseEnd \/ Dial \/ Shutdown \/ ShutdownDrained \/ Rest \/ UNCHANGED vars
  BY <1>15, <1>f DEF CloseEnd, Dial, Shutdown, ShutdownDrained, Rest, vars
<1> QED
  BY <1>1, <1>2, <1>3, <1>4, <1>5, <1>6, <1>7, <1>8, <1>9, <1>10, <1>11, <1>12, <1>13,
     <1>14, <1>15 DEF Next, ClientStep, RequestStep

\* What a fetch does to the queue and to got.
LEMMA FetchFacts ==
    ASSUME TypeOK, SoleOwner, NEW r \in ReqIds, NEW g \in Goroutines,
           IF Found(r) THEN Fetch(r) /\ got' = got \cup {<<g, r>>}
                       ELSE UNCHANGED <<listVars, got>>
    PROVE  /\ Queued' \subseteq Queued
           /\ \A q \in ReqIds : q \in Queued => q \in Queued' \/ <<g, q>> \in got'
           /\ \A q \in ReqIds, h \in Goroutines :
                <<h, q>> \in got' <=>
                    <<h, q>> \in got \/ (Found(r) /\ h = g /\ q = r)
           /\ Found(r) => r \in Queued
<1>1. CASE Found(r)
  BY <1>1, FetchFound
<1>2. CASE ~Found(r)
  BY <1>2 DEF listVars, Queued
<1> QED BY <1>1, <1>2

\* No refusal and no error of closeConnection is a response.
LEMMA ErrorsAreErrors ==
    ASSUME TypeOK
    PROVE  /\ ~Accepts => RefusalOf[state] \notin {"pending", "resp"}
           /\ closing \notin {"pending", "resp"}
BY DEF TypeOK, States, Accepts, RefusalOf, CloseErrors

\* No goroutine meets a future before newFuture has queued it.
LEMMA EntryFreshStep ==
    ASSUME TypeOK, SoleOwner, EntryFresh, [Next]_vars
    PROVE  EntryFresh'
<1> USE DEF TypeOK, EntryFresh, connVars, listVars, ctxVars, wireVars, Queued, Owned, Done, Entered, TurnedAway, GoTo, Set
<1>1. ASSUME NEW r \in ReqIds, Send(r) \/ LimitDrop(r) PROVE EntryFresh'
  BY <1>1 DEF Send, LimitDrop
<1>2. ASSUME NEW r \in ReqIds, LoadState(r) PROVE EntryFresh'
  BY <1>2 DEF LoadState, Accepts, RLocked, BufLocked
<1>3. ASSUME NEW r \in ReqIds, AddFuture(r) PROVE EntryFresh'
  BY <1>3 DEF AddFuture, Enqueue, AfterNewFuture
<1>4. ASSUME NEW r \in ReqIds, LimitWait(r) PROVE EntryFresh'
  BY <1>4 DEF LimitWait, AfterNewFuture
<1>5. ASSUME NEW r \in ReqIds, CheckCtx(r) \/ CtxExpire(r) \/ WatchdogDone(r) PROVE EntryFresh'
  BY <1>5 DEF CheckCtx, CtxExpire, WatchdogDone
<1>6. ASSUME NEW r \in ReqIds, PutFuture(r) PROVE EntryFresh'
  BY <1>6 DEF PutFuture, Trunc
<1>7. ASSUME NEW r \in ReqIds, SenderFetch(r) PROVE EntryFresh'
  <2> HIDE DEF Queued
  <2>1. "sender" \in Goroutines
    BY DEF Goroutines
  <2> HIDE DEF Owned, Done, EntryFresh, Set, GoTo
  <2>2. Queued' \subseteq Queued
    BY <1>7, <2>1, FetchFacts DEF SenderFetch
  <2>3. \A q \in ReqIds, h \in Goroutines :
          <<h, q>> \in got' => <<h, q>> \in got \/ q \in Queued
    BY <1>7, <2>1, FetchFacts DEF SenderFetch
  <2> QED BY <1>7, <2>2, <2>3 DEF SenderFetch, Owned, Done, EntryFresh, GoTo
<1>8. ASSUME NEW r \in ReqIds, PackWait(r) PROVE EntryFresh'
  BY <1>8 DEF PackWait
<1>9. ASSUME NEW r \in ReqIds, NEW g \in Goroutines, Settle(g, r) PROVE EntryFresh'
  BY <1>9 DEF Settle, Result
<1>10. ASSUME NEW r \in ReqIds, NEW g \in Goroutines, MarkDone(g, r) PROVE EntryFresh'
  BY <1>10 DEF MarkDone
<1>11. ASSUME NEW r \in ReqIds, ReadResponse(r) PROVE EntryFresh'
  BY <1>11 DEF ReadResponse, Fetch, Found
<1>12. ASSUME NEW r \in ReqIds, ReadPush(r) PROVE EntryFresh'
  BY <1>12 DEF ReadPush, Found
<1>13. ASSUME NEW r \in ReqIds, Expire(r) PROVE EntryFresh'
  BY <1>13 DEF Expire
<1>14. ASSUME NEW r \in ReqIds, WatchdogCancel(r) PROVE EntryFresh'
  <2> HIDE DEF Queued
  <2>1. "watchdog" \in Goroutines
    BY DEF Goroutines
  <2> HIDE DEF Owned, Done, EntryFresh, Set, GoTo
  <2>2. Queued' \subseteq Queued
    BY <1>14, <2>1, FetchFacts DEF WatchdogCancel
  <2>3. \A q \in ReqIds, h \in Goroutines :
          <<h, q>> \in got' => <<h, q>> \in got \/ q \in Queued
    BY <1>14, <2>1, FetchFacts DEF WatchdogCancel
  <2> QED BY <1>14, <2>2, <2>3 DEF WatchdogCancel, Owned, Done, EntryFresh, GoTo
<1>15. ASSUME NEW r \in ReqIds, ClearOne(r) PROVE EntryFresh'
  BY <1>15 DEF ClearOne
<1>16. CASE UserClose \/ NetFailure \/ ShutdownReconnect
  BY <1>16 DEF UserClose, NetFailure, ShutdownReconnect, CloseBegin, ShardsFree, RLocked, AfterFailure
<1>17. CASE CloseEnd \/ Dial \/ Shutdown \/ ShutdownDrained \/ Rest \/ UNCHANGED vars
  BY <1>17 DEF CloseEnd, Dial, Shutdown, ShutdownDrained, MutexFree, ShardsFree, RLocked, Rest, vars
<1> QED
  BY <1>1, <1>2, <1>3, <1>4, <1>5, <1>6, <1>7, <1>8, <1>9, <1>10, <1>11, <1>12, <1>13,
     <1>14, <1>15, <1>16, <1>17 DEF Next, ClientStep, RequestStep

\* A future leaves the queue into the hands of a goroutine, or settled.
LEMMA NoLostFutureStep ==
    ASSUME TypeOK, SoleOwner, EntryFresh, NoLostFuture, [Next]_vars
    PROVE  NoLostFuture'
<1> USE DEF TypeOK, NoLostFuture, connVars, listVars, ctxVars, wireVars, Queued, Done, Entered, GoTo, Set
<1>1. ASSUME NEW r \in ReqIds, Send(r) \/ LimitDrop(r) PROVE NoLostFuture'
  BY <1>1 DEF Send, LimitDrop
<1>2. ASSUME NEW r \in ReqIds, LoadState(r) PROVE NoLostFuture'
  BY <1>2, ErrorsAreErrors DEF LoadState
<1>3. ASSUME NEW r \in ReqIds, AddFuture(r) PROVE NoLostFuture'
  BY <1>3 DEF AddFuture, Enqueue, AfterNewFuture
<1>4. ASSUME NEW r \in ReqIds, LimitWait(r) PROVE NoLostFuture'
  BY <1>4 DEF LimitWait, AfterNewFuture
<1>5. ASSUME NEW r \in ReqIds, CheckCtx(r) \/ CtxExpire(r) \/ WatchdogDone(r) PROVE NoLostFuture'
  BY <1>5 DEF CheckCtx, CtxExpire, WatchdogDone
<1>6. ASSUME NEW r \in ReqIds, PutFuture(r) PROVE NoLostFuture'
  BY <1>6 DEF PutFuture, Trunc
<1>7. ASSUME NEW r \in ReqIds, SenderFetch(r) PROVE NoLostFuture'
  <2> HIDE DEF Queued
  <2>1. "sender" \in Goroutines
    BY DEF Goroutines
  <2>2. \A q \in ReqIds : q \in Queued => q \in Queued' \/ <<"sender", q>> \in got'
    BY <1>7, <2>1, FetchFacts DEF SenderFetch
  <2>3. got \subseteq got'
    BY <1>7 DEF SenderFetch
  <2> QED BY <1>7, <2>1, <2>2, <2>3 DEF SenderFetch
<1>8. ASSUME NEW r \in ReqIds, PackWait(r) PROVE NoLostFuture'
  BY <1>8 DEF PackWait
<1>9. ASSUME NEW r \in ReqIds, NEW g \in Goroutines, Settle(g, r) PROVE NoLostFuture'
  BY <1>9 DEF Settle, Result
<1>10. ASSUME NEW r \in ReqIds, NEW g \in Goroutines, MarkDone(g, r) PROVE NoLostFuture'
  <2>1. pc[r] \notin Entered
    BY <1>10 DEF MarkDone, EntryFresh, Owned
  <2> QED BY <1>10, <2>1 DEF MarkDone
<1>11. ASSUME NEW r \in ReqIds, ReadResponse(r) PROVE NoLostFuture'
  <2> HIDE DEF Queued
  <2>1. "reader" \in Goroutines
    BY DEF Goroutines
  <2>2. \A q \in ReqIds : q \in Queued => q \in Queued' \/ <<"reader", q>> \in got'
    BY <1>11, <2>1, FetchFacts DEF ReadResponse
  <2>3. got \subseteq got'
    BY <1>11 DEF ReadResponse
  <2> QED BY <1>11, <2>1, <2>2, <2>3 DEF ReadResponse
<1>12. ASSUME NEW r \in ReqIds, ReadPush(r) PROVE NoLostFuture'
  BY <1>12 DEF ReadPush, Found
<1>13. ASSUME NEW r \in ReqIds, Expire(r) PROVE NoLostFuture'
  BY <1>13 DEF Expire
<1>14. ASSUME NEW r \in ReqIds, WatchdogCancel(r) PROVE NoLostFuture'
  <2> HIDE DEF Queued
  <2>1. "watchdog" \in Goroutines
    BY DEF Goroutines
  <2>2. \A q \in ReqIds : q \in Queued => q \in Queued' \/ <<"watchdog", q>> \in got'
    BY <1>14, <2>1, FetchFacts DEF WatchdogCancel
  <2>3. got \subseteq got'
    BY <1>14 DEF WatchdogCancel
  <2> QED BY <1>14, <2>1, <2>2, <2>3 DEF WatchdogCancel
<1>15. ASSUME NEW r \in ReqIds, ClearOne(r) PROVE NoLostFuture'
  BY <1>15, ErrorsAreErrors DEF ClearOne
<1>16. CASE UserClose \/ NetFailure \/ ShutdownReconnect
  BY <1>16 DEF UserClose, NetFailure, ShutdownReconnect, CloseBegin, ShardsFree, RLocked, AfterFailure
<1>17. CASE CloseEnd \/ Dial \/ Shutdown \/ ShutdownDrained \/ Rest \/ UNCHANGED vars
  BY <1>17 DEF CloseEnd, Dial, Shutdown, ShutdownDrained, MutexFree, ShardsFree, RLocked, Rest, vars
<1> QED
  BY <1>1, <1>2, <1>3, <1>4, <1>5, <1>6, <1>7, <1>8, <1>9, <1>10, <1>11, <1>12, <1>13,
     <1>14, <1>15, <1>16, <1>17 DEF Next, ClientStep, RequestStep

\* Nothing is queued outside newFuture's critical section.
LEMMA UnusableQueueEmptyStep ==
    ASSUME TypeOK, AddHoldsLock, UnusableQueueEmpty, [Next]_vars
    PROVE  UnusableQueueEmpty'
<1> USE DEF TypeOK, UnusableQueueEmpty, connVars, listVars, ctxVars, wireVars, Queued
<1>1. ASSUME NEW r \in ReqIds, Send(r) \/ LimitDrop(r) PROVE UnusableQueueEmpty'
  BY <1>1 DEF Send, LimitDrop
<1>2. ASSUME NEW r \in ReqIds, LoadState(r) PROVE UnusableQueueEmpty'
  BY <1>2 DEF LoadState, Accepts, RLocked, BufLocked
<1>3. ASSUME NEW r \in ReqIds, AddFuture(r) PROVE UnusableQueueEmpty'
  BY <1>3 DEF AddFuture, AddHoldsLock
<1>4. ASSUME NEW r \in ReqIds, LimitWait(r) PROVE UnusableQueueEmpty'
  BY <1>4 DEF LimitWait, AfterNewFuture
<1>5. ASSUME NEW r \in ReqIds, CheckCtx(r) \/ CtxExpire(r) \/ WatchdogDone(r) PROVE UnusableQueueEmpty'
  BY <1>5 DEF CheckCtx, CtxExpire, WatchdogDone
<1>6. ASSUME NEW r \in ReqIds, PutFuture(r) PROVE UnusableQueueEmpty'
  BY <1>6 DEF PutFuture, Trunc
<1>7. ASSUME NEW r \in ReqIds, SenderFetch(r) PROVE UnusableQueueEmpty'
  BY <1>7 DEF SenderFetch, Fetch, Found
<1>8. ASSUME NEW r \in ReqIds, PackWait(r) PROVE UnusableQueueEmpty'
  BY <1>8 DEF PackWait
<1>9. ASSUME NEW r \in ReqIds, NEW g \in Goroutines, Settle(g, r) PROVE UnusableQueueEmpty'
  BY <1>9 DEF Settle, Result
<1>10. ASSUME NEW r \in ReqIds, NEW g \in Goroutines, MarkDone(g, r) PROVE UnusableQueueEmpty'
  BY <1>10 DEF MarkDone
<1>11. ASSUME NEW r \in ReqIds, ReadResponse(r) PROVE UnusableQueueEmpty'
  BY <1>11 DEF ReadResponse, Fetch, Found
<1>12. ASSUME NEW r \in ReqIds, ReadPush(r) PROVE UnusableQueueEmpty'
  BY <1>12 DEF ReadPush, Found
<1>13. ASSUME NEW r \in ReqIds, Expire(r) PROVE UnusableQueueEmpty'
  BY <1>13 DEF Expire
<1>14. ASSUME NEW r \in ReqIds, WatchdogCancel(r) PROVE UnusableQueueEmpty'
  BY <1>14 DEF WatchdogCancel, Fetch, Found
<1>15. ASSUME NEW r \in ReqIds, ClearOne(r) PROVE UnusableQueueEmpty'
  BY <1>15 DEF ClearOne
<1>16. CASE UserClose \/ NetFailure \/ ShutdownReconnect
  BY <1>16 DEF UserClose, NetFailure, ShutdownReconnect, CloseBegin, ShardsFree, RLocked, AfterFailure
<1>17. CASE CloseEnd \/ Dial \/ Shutdown \/ ShutdownDrained \/ Rest \/ UNCHANGED vars
  BY <1>17 DEF CloseEnd, Dial, Shutdown, ShutdownDrained, MutexFree, ShardsFree, RLocked, Rest, vars
<1> QED
  BY <1>1, <1>2, <1>3, <1>4, <1>5, <1>6, <1>7, <1>8, <1>9, <1>10, <1>11, <1>12, <1>13,
     <1>14, <1>15, <1>16, <1>17 DEF Next, ClientStep, RequestStep

\* closeConnection excludes newFuture's critical section.
LEMMA AddHoldsLockStep ==
    ASSUME TypeOK, AddHoldsLock, [Next]_vars
    PROVE  AddHoldsLock'
<1> USE DEF TypeOK, AddHoldsLock, connVars, listVars, ctxVars, wireVars, GoTo, States
<1>1. ASSUME NEW r \in ReqIds, Send(r) \/ LimitDrop(r) PROVE AddHoldsLock'
  BY <1>1 DEF Send, LimitDrop
<1>2. ASSUME NEW r \in ReqIds, LoadState(r) PROVE AddHoldsLock'
  BY <1>2 DEF LoadState, Accepts, RLocked, BufLocked
<1>3. ASSUME NEW r \in ReqIds, AddFuture(r) PROVE AddHoldsLock'
  BY <1>3 DEF AddFuture, Enqueue, AfterNewFuture
<1>4. ASSUME NEW r \in ReqIds, LimitWait(r) PROVE AddHoldsLock'
  BY <1>4 DEF LimitWait, AfterNewFuture
<1>5. ASSUME NEW r \in ReqIds, CheckCtx(r) \/ CtxExpire(r) \/ WatchdogDone(r) PROVE AddHoldsLock'
  BY <1>5 DEF CheckCtx, CtxExpire, WatchdogDone
<1>6. ASSUME NEW r \in ReqIds, PutFuture(r) PROVE AddHoldsLock'
  BY <1>6 DEF PutFuture, Trunc
<1>7. ASSUME NEW r \in ReqIds, SenderFetch(r) PROVE AddHoldsLock'
  BY <1>7 DEF SenderFetch, Fetch, Found
<1>8. ASSUME NEW r \in ReqIds, PackWait(r) PROVE AddHoldsLock'
  BY <1>8 DEF PackWait
<1>9. ASSUME NEW r \in ReqIds, NEW g \in Goroutines, Settle(g, r) PROVE AddHoldsLock'
  BY <1>9 DEF Settle, Result
<1>10. ASSUME NEW r \in ReqIds, NEW g \in Goroutines, MarkDone(g, r) PROVE AddHoldsLock'
  BY <1>10 DEF MarkDone
<1>11. ASSUME NEW r \in ReqIds, ReadResponse(r) PROVE AddHoldsLock'
  BY <1>11 DEF ReadResponse, Fetch, Found
<1>12. ASSUME NEW r \in ReqIds, ReadPush(r) PROVE AddHoldsLock'
  BY <1>12 DEF ReadPush, Found
<1>13. ASSUME NEW r \in ReqIds, Expire(r) PROVE AddHoldsLock'
  BY <1>13 DEF Expire
<1>14. ASSUME NEW r \in ReqIds, WatchdogCancel(r) PROVE AddHoldsLock'
  BY <1>14 DEF WatchdogCancel, Fetch, Found
<1>15. ASSUME NEW r \in ReqIds, ClearOne(r) PROVE AddHoldsLock'
  BY <1>15 DEF ClearOne
<1>16. CASE UserClose \/ NetFailure \/ ShutdownReconnect
  BY <1>16 DEF UserClose, NetFailure, ShutdownReconnect, CloseBegin, ShardsFree, RLocked, AfterFailure
<1>17. CASE CloseEnd \/ Dial \/ Shutdown \/ ShutdownDrained \/ Rest \/ UNCHANGED vars
  BY <1>17 DEF CloseEnd, Dial, Shutdown, ShutdownDrained, MutexFree, ShardsFree, RLocked, Rest, vars
<1> QED
  BY <1>1, <1>2, <1>3, <1>4, <1>5, <1>6, <1>7, <1>8, <1>9, <1>10, <1>11, <1>12, <1>13,
     <1>14, <1>15, <1>16, <1>17 DEF Next, ClientStep, RequestStep

\* The server sees a request only when it was packed.
LEMMA PackedFirstStep ==
    ASSUME TypeOK, SoleOwner, EntryFresh, PackedFirst, [Next]_vars
    PROVE  PackedFirst'
<1> USE DEF TypeOK, PackedFirst, connVars, listVars, ctxVars, wireVars, GoTo, Set, Entered, Owned, Done
<1>1. ASSUME NEW r \in ReqIds, Send(r) \/ LimitDrop(r) PROVE PackedFirst'
  BY <1>1 DEF Send, LimitDrop
<1>2. ASSUME NEW r \in ReqIds, LoadState(r) PROVE PackedFirst'
  BY <1>2, ErrorsAreErrors DEF LoadState
<1>3. ASSUME NEW r \in ReqIds, AddFuture(r) PROVE PackedFirst'
  BY <1>3 DEF AddFuture, Enqueue, AfterNewFuture
<1>4. ASSUME NEW r \in ReqIds, LimitWait(r) PROVE PackedFirst'
  BY <1>4 DEF LimitWait, AfterNewFuture
<1>5. ASSUME NEW r \in ReqIds, CheckCtx(r) \/ CtxExpire(r) \/ WatchdogDone(r) PROVE PackedFirst'
  BY <1>5 DEF CheckCtx, CtxExpire, WatchdogDone
<1>6. ASSUME NEW r \in ReqIds, PutFuture(r) PROVE PackedFirst'
  BY <1>6 DEF PutFuture, Trunc
<1>7. ASSUME NEW r \in ReqIds, SenderFetch(r) PROVE PackedFirst'
  <2>1. "sender" \in Goroutines /\ "reader" \in Goroutines
    BY DEF Goroutines
  <2>2. CASE Found(r)
    <3>1. \A q \in ReqIds, h \in Goroutines :
            <<h, q>> \in got' => <<h, q>> \in got \/ (h = "sender" /\ q = r)
      BY <1>7, <2>1, <2>2, FetchFacts DEF SenderFetch
    <3> QED BY <1>7, <2>1, <2>2, <3>1 DEF SenderFetch
  <2>3. CASE ~Found(r)
    <3>1. <<"sender", r>> \notin got
      BY <1>7 DEF SenderFetch, ByGoroutine
    <3>2. /\ UNCHANGED <<got, fut, wire>>
          /\ pc' = [pc EXCEPT ![r] = IF pc[r] = "packerr" THEN "packwait" ELSE "returned"]
      BY <1>7, <2>3 DEF SenderFetch
    <3>3. CASE pc[r] = "packerr"
      BY <3>1, <3>2, <3>3
    <3>4. CASE pc[r] # "packerr"
      BY <3>1, <3>2, <3>4
    <3> QED BY <3>3, <3>4
  <2> QED BY <2>2, <2>3
<1>8. ASSUME NEW r \in ReqIds, PackWait(r) PROVE PackedFirst'
  BY <1>8 DEF PackWait
<1>9. ASSUME NEW r \in ReqIds, NEW g \in Goroutines, Settle(g, r) PROVE PackedFirst'
  BY <1>9 DEF Settle, Result
<1>10. ASSUME NEW r \in ReqIds, NEW g \in Goroutines, MarkDone(g, r) PROVE PackedFirst'
  <2>1. g = "sender" => <<"sender", r>> \notin got
    BY <1>10 DEF MarkDone, SoleOwner
  <2>2. wire' = wire /\ fut' = fut /\ got' = got
    BY <1>10 DEF MarkDone
  <2> QED BY <1>10, <2>1, <2>2 DEF MarkDone
<1>11. ASSUME NEW r \in ReqIds, ReadResponse(r) PROVE PackedFirst'
  <2> HIDE DEF Queued
  <2>1. "reader" \in Goroutines /\ "sender" \in Goroutines /\ "reader" \in Goroutines
    BY DEF Goroutines
  <2>2. \A q \in ReqIds, h \in Goroutines :
          <<h, q>> \in got' => <<h, q>> \in got \/ (h = "reader" /\ q = r)
    BY <1>11, <2>1, FetchFacts DEF ReadResponse
  <2> QED BY <1>11, <2>1, <2>2 DEF ReadResponse
<1>12. ASSUME NEW r \in ReqIds, ReadPush(r) PROVE PackedFirst'
  BY <1>12 DEF ReadPush, Found
<1>13. ASSUME NEW r \in ReqIds, Expire(r) PROVE PackedFirst'
  BY <1>13 DEF Expire
<1>14. ASSUME NEW r \in ReqIds, WatchdogCancel(r) PROVE PackedFirst'
  <2> HIDE DEF Queued
  <2>1. "watchdog" \in Goroutines /\ "sender" \in Goroutines /\ "reader" \in Goroutines
    BY DEF Goroutines
  <2>2. \A q \in ReqIds, h \in Goroutines :
          <<h, q>> \in got' => <<h, q>> \in got \/ (h = "watchdog" /\ q = r)
    BY <1>14, <2>1, FetchFacts DEF WatchdogCancel
  <2> QED BY <1>14, <2>1, <2>2 DEF WatchdogCancel
<1>15. ASSUME NEW r \in ReqIds, ClearOne(r) PROVE PackedFirst'
  BY <1>15, ErrorsAreErrors DEF ClearOne
<1>16. CASE UserClose \/ NetFailure \/ ShutdownReconnect
  BY <1>16 DEF UserClose, NetFailure, ShutdownReconnect, CloseBegin, ShardsFree, RLocked, AfterFailure
<1>17. CASE CloseEnd \/ Dial \/ Shutdown \/ ShutdownDrained \/ Rest \/ UNCHANGED vars
  BY <1>17 DEF CloseEnd, Dial, Shutdown, ShutdownDrained, MutexFree, ShardsFree, RLocked, Rest, vars
<1> QED
  BY <1>1, <1>2, <1>3, <1>4, <1>5, <1>6, <1>7, <1>8, <1>9, <1>10, <1>11, <1>12, <1>13,
     <1>14, <1>15, <1>16, <1>17 DEF Next, ClientStep, RequestStep

-----------------------------------------------------------------------------
\* SafetyInv is inductive.
THEOREM SafetyInvariance == Spec => []SafetyInv
<1>1. Init => SafetyInv
  <2> SUFFICES ASSUME Init PROVE SafetyInv
    OBVIOUS
  <2>1. TypeOK
    BY InitTyping
  <2> QED
    BY <2>1 DEF Init, SafetyInv, SoleOwner, NoLostFuture, UnusableQueueEmpty, EntryFresh,
                AddHoldsLock, PackedFirst, Queued, Owned, Done, Entered
<1>2. SafetyInv /\ [Next]_vars => SafetyInv'
  BY StepTyping, SoleOwnerStep, NoLostFutureStep, UnusableQueueEmptyStep, EntryFreshStep,
     AddHoldsLockStep, PackedFirstStep DEF SafetyInv
<1> QED BY <1>1, <1>2, PTL DEF Spec

\* However the reader, the timeouts goroutine, the watchdogs, the senders and
\* closeConnection interleave, a future has one owner and is settled once.
THEOREM SoleOwnerHolds == Spec => []SoleOwner
<1>1. SafetyInv => SoleOwner
  BY DEF SafetyInv
<1> QED BY <1>1, SafetyInvariance, PTL

\* No future that newFuture queued is ever forgotten.
THEOREM NoLostFutureHolds == Spec => []NoLostFuture
<1>1. SafetyInv => NoLostFuture
  BY DEF SafetyInv
<1> QED BY <1>1, SafetyInvariance, PTL

\* Nothing is queued on a connection that closeConnection has left disconnected
\* or closed.
THEOREM UnusableQueueEmptyHolds == Spec => []UnusableQueueEmpty
<1>1. SafetyInv => UnusableQueueEmpty
  BY DEF SafetyInv
<1> QED BY <1>1, SafetyInvariance, PTL

\* The panics of newFuture and putFuture are unreachable.
THEOREM NoPanicHolds == Spec => []NoPanic
<1>1. SafetyInv => NoPanic
  BY DEF SafetyInv, PackedFirst, NoPanic
<1> QED BY <1>1, SafetyInvariance, PTL

-----------------------------------------------------------------------------
(* Counting.                                                               *)

\* The counted requests are finitely many, so that they can be counted.
LEMMA CountedFinite ==
    /\ IsFiniteSet(Counted) /\ Cardinality(Counted) \in Nat
    /\ IsFiniteSet(Tokens) /\ Cardinality(Tokens) \in Nat
<1>1. Counted \in SUBSET ReqIds /\ Tokens \in SUBSET ReqIds
  BY DEF Counted, Tokens
<1> QED BY <1>1, FS_Subset, FS_CardinalityType

\* Which requests are queued or held after each kind of step.
Live == {r \in ReqIds : r \in Queued \/ Owned(r)}

\* A fetch, a timeout, a clear and a settlement move a future but keep it live.
LEMMA LiveFetch ==
    ASSUME SafetyInv, NEW r \in ReqIds, NEW g \in Goroutines, marking' = marking,
           IF Found(r) THEN Fetch(r) /\ got' = got \cup {<<g, r>>}
                       ELSE UNCHANGED <<listVars, got>>
    PROVE  Live' = Live
<1>1. TypeOK /\ SoleOwner
  BY DEF SafetyInv
<1>2. /\ Queued' \subseteq Queued
      /\ \A q \in ReqIds : q \in Queued => q \in Queued' \/ <<g, q>> \in got'
      /\ \A q \in ReqIds, h \in Goroutines :
           <<h, q>> \in got' <=> <<h, q>> \in got \/ (Found(r) /\ h = g /\ q = r)
      /\ Found(r) => r \in Queued
  BY <1>1, FetchFacts
<1>3. ASSUME NEW q \in ReqIds PROVE (q \in Queued \/ Owned(q)) <=> (q \in Queued' \/ Owned(q)')
  BY <1>2 DEF Owned
<1> QED BY <1>3 DEF Live

\* timeouts and clear move a future from its list straight to markDone.
LEMMA LiveSeize ==
    ASSUME SafetyInv, NEW r \in ReqIds, NEW g \in Goroutines, got' = got,
           r \in Queued, Queued' = Queued \ {r}, marking' = marking \cup {<<g, r>>}
    PROVE  Live' = Live
BY DEF Live, Owned

\* SetResponse and SetError move a future from fetched to settled.
LEMMA LiveSettle ==
    ASSUME NEW r \in ReqIds, NEW g \in Goroutines, Settle(g, r)
    PROVE  Live' = Live
BY DEF Settle, Live, Owned, Queued, listVars

\* markDone lets go of exactly one future.
LEMMA LiveMarkDone ==
    ASSUME SafetyInv, NEW r \in ReqIds, NEW g \in Goroutines, MarkDone(g, r)
    PROVE  r \in Live /\ Live' = Live \ {r}
<1>1. r \in Live /\ Owned(r) /\ r \notin Queued
  BY DEF MarkDone, Live, Owned, SafetyInv, SoleOwner
<1>2. Queued' = Queued
  BY DEF MarkDone, Queued, listVars
<1>3. ~Owned(r)'
  BY DEF MarkDone, Owned, SafetyInv, SoleOwner
<1>4. \A q \in ReqIds : q # r => (Owned(q)' <=> Owned(q))
  BY DEF MarkDone, Owned
<1> QED BY <1>1, <1>2, <1>3, <1>4 DEF Live

\* Where send() is while its request counts although it is not live.
CountedPCs == {"limit", "load", "add", "abandoned"}

\* Every critical section keeps requestCnt equal to the counted requests.
LEMMA CounterStep ==
    ASSUME SafetyInv, CounterAccounting, [Next]_vars
    PROVE  CounterAccounting'
<1> USE DEF connVars, listVars, ctxVars, wireVars
<1> TypeOK /\ SoleOwner /\ EntryFresh
  BY DEF SafetyInv
<1>s. ASSUME Counted' = Counted, requestCnt' = requestCnt PROVE CounterAccounting'
  BY <1>s DEF CounterAccounting
<1>a. ASSUME NEW r, r \notin Counted, Counted' = Counted \cup {r}, requestCnt' = requestCnt + 1
      PROVE  CounterAccounting'
  <2>1. Cardinality(Counted \cup {r}) = Cardinality(Counted) + 1
    BY <1>a, CountedFinite, FS_AddElement
  <2> QED BY <1>a, <2>1 DEF CounterAccounting
<1>d. ASSUME NEW r, r \in Counted, Counted' = Counted \ {r}, requestCnt' = requestCnt - 1
      PROVE  CounterAccounting'
  <2>1. Cardinality(Counted \ {r}) = Cardinality(Counted) - 1
    BY <1>d, CountedFinite, FS_RemoveElement
  <2> QED BY <1>d, <2>1 DEF CounterAccounting
<1>p. /\ Counted = {r \in ReqIds : pc[r] \in CountedPCs} \cup Live
      /\ Counted' = {r \in ReqIds : pc'[r] \in CountedPCs} \cup Live'
  BY DEF Counted, CountedPCs, Live
<1>l. ASSUME UNCHANGED <<requests, requestsWithCtx, got, marking>> PROVE Live' = Live
  BY <1>l DEF Live, Queued, Owned
<1>e. ASSUME NEW r \in ReqIds, pc[r] \in Entered PROVE r \notin Live
  BY <1>e DEF EntryFresh, Live
<1>1. ASSUME NEW r \in ReqIds, Send(r) PROVE CounterAccounting'
  <2>1. Live' = Live /\ r \notin Live
    BY <1>1, <1>l, <1>e DEF Send, Entered
  <2>2. r \notin Counted /\ Counted' = Counted \cup {r}
    BY <1>1, <1>p, <2>1 DEF Send, GoTo, TypeOK, CountedPCs
  <2> QED BY <1>1, <1>a, <2>2 DEF Send
<1>2. ASSUME NEW r \in ReqIds, LimitDrop(r) PROVE CounterAccounting'
  <2>1. Live' = Live /\ r \notin Live
    BY <1>2, <1>l, <1>e DEF LimitDrop, Entered
  <2>2. CASE pc' = [pc EXCEPT ![r] = "load"] /\ UNCHANGED requestCnt
    <3>1. Counted' = Counted
      BY <1>2, <1>p, <2>1, <2>2 DEF LimitDrop, TypeOK, CountedPCs
    <3> QED BY <1>s, <2>2, <3>1
  <2>3. CASE pc' = [pc EXCEPT ![r] = "limited"] /\ Uncount
    <3>1. r \in Counted /\ Counted' = Counted \ {r}
      BY <1>2, <1>p, <2>1, <2>3 DEF LimitDrop, TypeOK, CountedPCs
    <3> QED BY <1>d, <2>3, <3>1 DEF Uncount
  <2> QED BY <1>2, <2>2, <2>3 DEF LimitDrop, GoTo
<1>3. ASSUME NEW r \in ReqIds, LoadState(r) PROVE CounterAccounting'
  <2>1. Live' = Live /\ r \notin Live
    BY <1>3, <1>l, <1>e DEF LoadState, Entered
  <2>2. CASE pc' = [pc EXCEPT ![r] = "add"] /\ UNCHANGED requestCnt
    <3>1. Counted' = Counted
      BY <1>3, <1>p, <2>1, <2>2 DEF LoadState, TypeOK, CountedPCs
    <3> QED BY <1>s, <2>2, <3>1
  <2>3. CASE pc' = [pc EXCEPT ![r] = "refused"] /\ Uncount
    <3>1. r \in Counted /\ Counted' = Counted \ {r}
      BY <1>3, <1>p, <2>1, <2>3 DEF LoadState, TypeOK, CountedPCs
    <3> QED BY <1>d, <2>3, <3>1 DEF Uncount
  <2> QED BY <1>3, <2>2, <2>3 DEF LoadState, GoTo
<1>4. ASSUME NEW r \in ReqIds, AddFuture(r) PROVE CounterAccounting'
  <2>1. r \in Counted
    BY <1>4, <1>p DEF AddFuture, CountedPCs
  <2>2. CASE pc' = [pc EXCEPT ![r] = "abandoned"] /\ UNCHANGED listVars
    <3>1. Live' = Live
      BY <1>4, <1>l, <2>2 DEF AddFuture
    <3>2. Counted' = Counted
      BY <1>4, <1>p, <2>2, <3>1 DEF AddFuture, TypeOK, CountedPCs
    <3> QED BY <1>4, <1>s, <3>2 DEF AddFuture
  <2>3. CASE GoTo(r, IF LimitWaits THEN "wait1" ELSE AfterNewFuture(r)) /\ Enqueue(r)
    <3>1. Queued' = Queued \cup {r}
      BY <2>3 DEF Enqueue, Queued
    <3>2. Live' = Live \cup {r}
      BY <1>4, <3>1 DEF AddFuture, Live, Owned
    <3>3. \E l \in {"wait1", "ctx", "put"} : pc' = [pc EXCEPT ![r] = l]
      BY <2>3 DEF GoTo, AfterNewFuture
    <3>4. Counted' = Counted
      BY <1>4, <1>p, <2>1, <3>2, <3>3 DEF AddFuture, TypeOK, CountedPCs
    <3> QED BY <1>4, <1>s, <3>4 DEF AddFuture
  <2> QED BY <1>4, <2>2, <2>3 DEF AddFuture, GoTo
<1>5. ASSUME NEW r \in ReqIds, LimitWait(r) \/ CheckCtx(r) \/ PutFuture(r) \/ PackWait(r)
      PROVE  CounterAccounting'
  <2>1. Live' = Live
    BY <1>5, <1>l DEF LimitWait, CheckCtx, PutFuture, PackWait
  <2>2. \E l \in PCs \ CountedPCs : pc' = [pc EXCEPT ![r] = l]
    BY <1>5 DEF LimitWait, CheckCtx, PutFuture, PackWait, GoTo, AfterNewFuture, PCs, Returned,
                CountedPCs
  <2>3. pc[r] \notin CountedPCs
    BY <1>5 DEF LimitWait, CheckCtx, PutFuture, PackWait, CountedPCs
  <2>4. Counted' = Counted
    BY <1>p, <2>1, <2>2, <2>3 DEF TypeOK
  <2> QED BY <1>5, <1>s, <2>4 DEF LimitWait, CheckCtx, PutFuture, PackWait
<1>6. ASSUME NEW r \in ReqIds, SenderFetch(r) PROVE CounterAccounting'
  <2>1. Live' = Live
    BY <1>6, LiveFetch DEF SenderFetch, Goroutines
  <2>2. \E l \in PCs \ CountedPCs : pc' = [pc EXCEPT ![r] = l]
    <3>1. CASE Found(r)
      <4>1. pc' = [pc EXCEPT ![r] = pc[r]]
        BY <1>6, <3>1 DEF SenderFetch, TypeOK
      <4> QED BY <1>6, <4>1 DEF SenderFetch, TypeOK, CountedPCs
    <3>2. CASE ~Found(r)
      BY <1>6, <3>2 DEF SenderFetch, GoTo, PCs, Returned, CountedPCs
    <3> QED BY <3>1, <3>2
  <2>3. pc[r] \notin CountedPCs
    BY <1>6 DEF SenderFetch, CountedPCs
  <2>4. Counted' = Counted
    BY <1>p, <2>1, <2>2, <2>3 DEF TypeOK
  <2> QED BY <1>6, <1>s, <2>4 DEF SenderFetch
<1>7. ASSUME NEW r \in ReqIds, NEW g \in Goroutines, Settle(g, r) PROVE CounterAccounting'
  <2>1. Live' = Live /\ pc' = pc /\ requestCnt' = requestCnt
    BY <1>7, LiveSettle DEF Settle
  <2> QED BY <1>p, <1>s, <2>1
<1>8. ASSUME NEW r \in ReqIds, NEW g \in Goroutines, MarkDone(g, r) PROVE CounterAccounting'
  <2>1. r \in Live /\ Live' = Live \ {r}
    BY <1>8, LiveMarkDone
  <2>2. pc[r] \notin CountedPCs
    BY <2>1 DEF EntryFresh, Live, CountedPCs, Entered, TurnedAway
  <2>3. pc' = pc \/ pc' = [pc EXCEPT ![r] = "returned"]
    BY <1>8 DEF MarkDone
  <2>4. r \in Counted /\ Counted' = Counted \ {r}
    BY <1>p, <2>1, <2>2, <2>3 DEF TypeOK, CountedPCs
  <2> QED BY <1>8, <1>d, <2>4 DEF MarkDone, Uncount
<1>9. ASSUME NEW r \in ReqIds, ReadResponse(r) \/ WatchdogCancel(r) PROVE CounterAccounting'
  <2>1. Live' = Live
    BY <1>9, LiveFetch DEF ReadResponse, WatchdogCancel, Goroutines
  <2> QED BY <1>9, <1>p, <1>s, <2>1 DEF ReadResponse, WatchdogCancel
<1>10. ASSUME NEW r \in ReqIds, ReadPush(r) PROVE CounterAccounting'
  <2>1. Live' = Live
    BY <1>10 DEF ReadPush, Live, Queued, Owned, Found
  <2> QED BY <1>10, <1>p, <1>s, <2>1 DEF ReadPush
<1>11. ASSUME NEW r \in ReqIds, Expire(r) \/ ClearOne(r) PROVE CounterAccounting'
  <2>1. r \in Queued /\ Queued' = Queued \ {r}
    BY <1>11 DEF Expire, ClearOne, Queued, SoleOwner
  <2>2. Live' = Live
    BY <1>11, <2>1, LiveSeize DEF Expire, ClearOne, Goroutines
  <2> QED BY <1>11, <1>p, <1>s, <2>2 DEF Expire, ClearOne
<1>12. ASSUME NEW r \in ReqIds, CtxExpire(r) \/ WatchdogDone(r) PROVE CounterAccounting'
  BY <1>12, <1>l, <1>p, <1>s DEF CtxExpire, WatchdogDone
<1>13. CASE UserClose \/ NetFailure \/ ShutdownReconnect
  BY <1>13, <1>l, <1>p, <1>s DEF UserClose, NetFailure, ShutdownReconnect, CloseBegin
<1>14. CASE CloseEnd \/ Dial \/ Shutdown \/ ShutdownDrained \/ Rest \/ UNCHANGED vars
  BY <1>14, <1>l, <1>p, <1>s DEF CloseEnd, Dial, Shutdown, ShutdownDrained, Rest, vars
<1> QED
  BY <1>1, <1>2, <1>3, <1>4, <1>5, <1>6, <1>7, <1>8, <1>9, <1>10, <1>11, <1>12, <1>13, <1>14
     DEF Next, ClientStep, RequestStep

\* requestCnt is exactly the number of requests inside newFuture, queued, being
\* settled - or abandoned by newFuture, which is what keeps shutdown() waiting.
THEOREM CounterAccountingHolds == Spec => []CounterAccounting
<1>1. Init => CounterAccounting
  <2> SUFFICES ASSUME Init PROVE CounterAccounting
    OBVIOUS
  <2>1. Counted = {}
    BY DEF Init, Counted, Queued, Owned
  <2> QED BY <2>1, FS_EmptySet DEF Init, CounterAccounting
<1>2. SafetyInv /\ CounterAccounting /\ [Next]_vars => CounterAccounting'
  BY CounterStep
<1> QED BY <1>1, <1>2, SafetyInvariance, PTL DEF Spec

-----------------------------------------------------------------------------
(* The rate limit.                                                         *)

\* Where send() is while its request holds a token although it is not live.
TokenPCs == {"load", "add", "refused", "abandoned"}

\* With RLimitDrop nobody waits for a token behind newFuture, where a token
\* would be taken for a request that has one.
NobodyWaits == LimitDrops => \A r \in ReqIds : pc[r] \notin {"wait1", "wait2"}

\* newFuture waits for a token with RLimitWait only.
LEMMA NobodyWaitsStep ==
    ASSUME SafetyInv, NobodyWaits, [Next]_vars
    PROVE  NobodyWaits'
<1> SUFFICES ASSUME LimitDrops PROVE \A r \in ReqIds : pc'[r] \notin {"wait1", "wait2"}
  BY DEF NobodyWaits, LimitDrops
<1>1. TypeOK /\ ~LimitWaits
  BY DEF SafetyInv, LimitDrops, LimitWaits
<1>2. \A r \in ReqIds : pc[r] \notin {"wait1", "wait2"}
  BY DEF NobodyWaits
<1>3. ASSUME NEW r \in ReqIds, NEW l, l \notin {"wait1", "wait2"}, GoTo(r, l)
      PROVE  \A q \in ReqIds : pc'[q] \notin {"wait1", "wait2"}
  BY <1>1, <1>2, <1>3 DEF GoTo, TypeOK
<1>4. ASSUME pc' = pc PROVE \A q \in ReqIds : pc'[q] \notin {"wait1", "wait2"}
  BY <1>2, <1>4
<1>5. ASSUME NEW r \in ReqIds,
             Send(r) \/ LimitDrop(r) \/ LoadState(r) \/ AddFuture(r) \/ LimitWait(r)
             \/ CheckCtx(r) \/ PutFuture(r) \/ SenderFetch(r) \/ PackWait(r)
      PROVE  pc' = pc \/ \E l \in PCs : l \notin {"wait1", "wait2"} /\ GoTo(r, l)
  BY <1>1, <1>2, <1>5 DEF Send, LimitDrop, LoadState, AddFuture, LimitWait, CheckCtx,
     PutFuture, SenderFetch, PackWait, AfterNewFuture, PCs, Returned
<1>6. ASSUME NEW r \in ReqIds, NEW g \in Goroutines, Settle(g, r) \/ MarkDone(g, r)
      PROVE  pc' = pc \/ GoTo(r, "returned")
  BY <1>6 DEF Settle, MarkDone, GoTo
<1>7. ASSUME NEW r \in ReqIds,
             ReadResponse(r) \/ ReadPush(r) \/ Expire(r) \/ CtxExpire(r)
             \/ WatchdogDone(r) \/ WatchdogCancel(r) \/ ClearOne(r)
      PROVE  pc' = pc
  BY <1>7 DEF ReadResponse, ReadPush, Expire, CtxExpire, WatchdogDone, WatchdogCancel, ClearOne
<1>8. UserClose \/ NetFailure \/ CloseEnd \/ Dial \/ Shutdown \/ ShutdownDrained
        \/ ShutdownReconnect \/ Rest \/ UNCHANGED vars => pc' = pc
  BY DEF UserClose, NetFailure, CloseEnd, Dial, Shutdown, ShutdownDrained,
         ShutdownReconnect, CloseBegin, Rest, vars
<1> QED
  BY <1>3, <1>4, <1>5, <1>6, <1>7, <1>8 DEF Next, ClientStep, RequestStep

\* Every critical section keeps rlimit equal to the tokens that were taken.
LEMMA TokenStep ==
    ASSUME SafetyInv, NobodyWaits, TokenAccounting, [Next]_vars
    PROVE  TokenAccounting'
<1> SUFFICES ASSUME LimitDrops PROVE TokenAccounting'
  BY DEF TokenAccounting, LimitDrops
<1> USE DEF connVars, listVars, ctxVars, wireVars
<1> TypeOK /\ SoleOwner /\ EntryFresh
  BY DEF SafetyInv
<1>t. rlimit = Cardinality(Tokens)
  BY DEF TokenAccounting
<1>s. ASSUME Tokens' = Tokens, rlimit' = rlimit PROVE TokenAccounting'
  BY <1>s, <1>t DEF TokenAccounting
<1>a. ASSUME NEW r, r \notin Tokens, Tokens' = Tokens \cup {r}, rlimit' = rlimit + 1
      PROVE  TokenAccounting'
  <2>1. Cardinality(Tokens \cup {r}) = Cardinality(Tokens) + 1
    BY <1>a, CountedFinite, FS_AddElement
  <2> QED BY <1>a, <1>t, <2>1 DEF TokenAccounting
<1>d. ASSUME NEW r, r \in Tokens, Tokens' = Tokens \ {r}, rlimit' = rlimit - 1
      PROVE  TokenAccounting'
  <2>1. Cardinality(Tokens \ {r}) = Cardinality(Tokens) - 1
    BY <1>d, CountedFinite, FS_RemoveElement
  <2> QED BY <1>d, <1>t, <2>1 DEF TokenAccounting
<1>p. /\ Tokens = {r \in ReqIds : pc[r] \in TokenPCs} \cup Live
      /\ Tokens' = {r \in ReqIds : pc'[r] \in TokenPCs} \cup Live'
  BY DEF Tokens, TokenPCs, Live
<1>l. ASSUME UNCHANGED <<requests, requestsWithCtx, got, marking>> PROVE Live' = Live
  BY <1>l DEF Live, Queued, Owned
<1>e. ASSUME NEW r \in ReqIds, pc[r] \in Entered PROVE r \notin Live
  BY <1>e DEF EntryFresh, Live
<1>1. ASSUME NEW r \in ReqIds, Send(r) PROVE TokenAccounting'
  <2>1. Live' = Live
    BY <1>1, <1>l DEF Send
  <2>2. Tokens' = Tokens
    BY <1>1, <1>p, <2>1 DEF Send, GoTo, TypeOK, TokenPCs
  <2> QED BY <1>1, <1>s, <2>2 DEF Send
<1>2. ASSUME NEW r \in ReqIds, LimitDrop(r) PROVE TokenAccounting'
  <2>1. Live' = Live /\ r \notin Live
    BY <1>2, <1>l, <1>e DEF LimitDrop, Entered
  <2>2. CASE pc' = [pc EXCEPT ![r] = "load"] /\ rlimit' = rlimit + 1
    <3>1. r \notin Tokens /\ Tokens' = Tokens \cup {r}
      BY <1>2, <1>p, <2>1, <2>2 DEF LimitDrop, TypeOK, TokenPCs
    <3> QED BY <1>a, <2>2, <3>1
  <2>3. CASE pc' = [pc EXCEPT ![r] = "limited"] /\ UNCHANGED rlimit
    <3>1. Tokens' = Tokens
      BY <1>2, <1>p, <2>1, <2>3 DEF LimitDrop, TypeOK, TokenPCs
    <3> QED BY <1>s, <2>3, <3>1
  <2> QED BY <1>2, <2>2, <2>3 DEF LimitDrop, GoTo
<1>3. ASSUME NEW r \in ReqIds, LoadState(r) PROVE TokenAccounting'
  <2>1. Live' = Live
    BY <1>3, <1>l DEF LoadState
  <2>2. \E l \in {"add", "refused"} : pc' = [pc EXCEPT ![r] = l]
    BY <1>3 DEF LoadState, GoTo
  <2>3. Tokens' = Tokens
    BY <1>3, <1>p, <2>1, <2>2 DEF LoadState, TypeOK, TokenPCs
  <2> QED BY <1>3, <1>s, <2>3 DEF LoadState
<1>4. ASSUME NEW r \in ReqIds, AddFuture(r) PROVE TokenAccounting'
  <2>1. r \in Tokens
    BY <1>4, <1>p DEF AddFuture, TokenPCs
  <2>2. CASE pc' = [pc EXCEPT ![r] = "abandoned"] /\ UNCHANGED listVars
    <3>1. Live' = Live
      BY <1>4, <1>l, <2>2 DEF AddFuture
    <3>2. Tokens' = Tokens
      BY <1>4, <1>p, <2>2, <3>1 DEF AddFuture, TypeOK, TokenPCs
    <3> QED BY <1>4, <1>s, <3>2 DEF AddFuture
  <2>3. CASE GoTo(r, IF LimitWaits THEN "wait1" ELSE AfterNewFuture(r)) /\ Enqueue(r)
    <3>1. Queued' = Queued \cup {r}
      BY <2>3 DEF Enqueue, Queued
    <3>2. Live' = Live \cup {r}
      BY <1>4, <3>1 DEF AddFuture, Live, Owned
    <3>3. \E l \in {"wait1", "ctx", "put"} : pc' = [pc EXCEPT ![r] = l]
      BY <2>3 DEF GoTo, AfterNewFuture
    <3>4. Tokens' = Tokens
      BY <1>4, <1>p, <2>1, <3>2, <3>3 DEF AddFuture, TypeOK, TokenPCs
    <3> QED BY <1>4, <1>s, <3>4 DEF AddFuture
  <2> QED BY <1>4, <2>2, <2>3 DEF AddFuture, GoTo
<1>5. ASSUME NEW r \in ReqIds, CheckCtx(r) \/ PutFuture(r) \/ PackWait(r)
      PROVE  TokenAccounting'
  <2>1. Live' = Live
    BY <1>5, <1>l DEF CheckCtx, PutFuture, PackWait
  <2>2. \E l \in PCs \ TokenPCs : pc' = [pc EXCEPT ![r] = l]
    BY <1>5 DEF CheckCtx, PutFuture, PackWait, GoTo, PCs, Returned, TokenPCs
  <2>3. pc[r] \notin TokenPCs
    BY <1>5 DEF CheckCtx, PutFuture, PackWait, TokenPCs
  <2>4. Tokens' = Tokens
    BY <1>p, <2>1, <2>2, <2>3 DEF TypeOK
  <2> QED BY <1>5, <1>s, <2>4 DEF CheckCtx, PutFuture, PackWait
<1>6. ASSUME NEW r \in ReqIds, SenderFetch(r) PROVE TokenAccounting'
  <2>1. Live' = Live
    BY <1>6, LiveFetch DEF SenderFetch, Goroutines
  <2>2. \E l \in PCs \ TokenPCs : pc' = [pc EXCEPT ![r] = l]
    <3>1. CASE Found(r)
      <4>1. pc' = [pc EXCEPT ![r] = pc[r]]
        BY <1>6, <3>1 DEF SenderFetch, TypeOK
      <4> QED BY <1>6, <4>1 DEF SenderFetch, TypeOK, TokenPCs
    <3>2. CASE ~Found(r)
      BY <1>6, <3>2 DEF SenderFetch, GoTo, PCs, Returned, TokenPCs
    <3> QED BY <3>1, <3>2
  <2>3. pc[r] \notin TokenPCs
    BY <1>6 DEF SenderFetch, TokenPCs
  <2>4. Tokens' = Tokens
    BY <1>p, <2>1, <2>2, <2>3 DEF TypeOK
  <2> QED BY <1>6, <1>s, <2>4 DEF SenderFetch
<1>7. ASSUME NEW r \in ReqIds, NEW g \in Goroutines, Settle(g, r) PROVE TokenAccounting'
  <2>1. Live' = Live /\ pc' = pc /\ rlimit' = rlimit
    BY <1>7, LiveSettle DEF Settle
  <2> QED BY <1>p, <1>s, <2>1
<1>8. ASSUME NEW r \in ReqIds, NEW g \in Goroutines, MarkDone(g, r) PROVE TokenAccounting'
  <2>1. r \in Live /\ Live' = Live \ {r}
    BY <1>8, LiveMarkDone
  <2>2. pc[r] \notin TokenPCs
    BY <2>1 DEF EntryFresh, Live, TokenPCs, Entered, TurnedAway
  <2>3. pc' = pc \/ pc' = [pc EXCEPT ![r] = "returned"]
    BY <1>8 DEF MarkDone
  <2>4. r \in Tokens /\ Tokens' = Tokens \ {r}
    BY <1>p, <2>1, <2>2, <2>3 DEF TypeOK, TokenPCs
  <2>5. rlimit' = rlimit - 1
    BY <1>8 DEF MarkDone, ReleaseToken, LimitDrops
  <2> QED BY <1>d, <2>4, <2>5
<1>9. ASSUME NEW r \in ReqIds, ReadResponse(r) \/ WatchdogCancel(r) PROVE TokenAccounting'
  <2>1. Live' = Live
    BY <1>9, LiveFetch DEF ReadResponse, WatchdogCancel, Goroutines
  <2> QED BY <1>9, <1>p, <1>s, <2>1 DEF ReadResponse, WatchdogCancel
<1>10. ASSUME NEW r \in ReqIds, ReadPush(r) PROVE TokenAccounting'
  <2>1. Live' = Live
    BY <1>10 DEF ReadPush, Live, Queued, Owned, Found
  <2> QED BY <1>10, <1>p, <1>s, <2>1 DEF ReadPush
<1>11. ASSUME NEW r \in ReqIds, Expire(r) \/ ClearOne(r) PROVE TokenAccounting'
  <2>1. r \in Queued /\ Queued' = Queued \ {r}
    BY <1>11 DEF Expire, ClearOne, Queued, SoleOwner
  <2>2. Live' = Live
    BY <1>11, <2>1, LiveSeize DEF Expire, ClearOne, Goroutines
  <2> QED BY <1>11, <1>p, <1>s, <2>2 DEF Expire, ClearOne
<1>12. ASSUME NEW r \in ReqIds, CtxExpire(r) \/ WatchdogDone(r) PROVE TokenAccounting'
  BY <1>12, <1>l, <1>p, <1>s DEF CtxExpire, WatchdogDone
<1>13. CASE UserClose \/ NetFailure \/ ShutdownReconnect
  BY <1>13, <1>l, <1>p, <1>s DEF UserClose, NetFailure, ShutdownReconnect, CloseBegin
<1>14. CASE CloseEnd \/ Dial \/ Shutdown \/ ShutdownDrained \/ Rest \/ UNCHANGED vars
  BY <1>14, <1>l, <1>p, <1>s DEF CloseEnd, Dial, Shutdown, ShutdownDrained, Rest, vars
<1>15. ASSUME NEW r \in ReqIds, LimitWait(r) PROVE FALSE
  BY <1>15 DEF LimitWait, NobodyWaits
<1> QED
  BY <1>1, <1>2, <1>3, <1>4, <1>5, <1>6, <1>7, <1>8, <1>9, <1>10, <1>11, <1>12, <1>13, <1>14,
     <1>15 DEF Next, ClientStep, RequestStep

\* Without RLimitWait the limit works: rlimit holds one token for every request
\* that passed the limit and was not marked done, never more than RateLimit, and
\* so many requests at most are on the wire unanswered.  With RLimitWait markDone
\* takes a token for a request that ended before it had one, and the bound fails.
THEOREM RateLimitedHolds ==
    ASSUME ~LimitWaits
    PROVE  Spec => []RateLimited
<1>1. Init => NobodyWaits /\ TokenAccounting
  <2> SUFFICES ASSUME Init PROVE NobodyWaits /\ TokenAccounting
    OBVIOUS
  <2>1. Tokens = {}
    BY DEF Init, Tokens, Queued, Owned
  <2> QED BY <2>1, FS_EmptySet DEF Init, TokenAccounting, NobodyWaits
<1>2. SafetyInv /\ NobodyWaits /\ TokenAccounting /\ [Next]_vars
        => (NobodyWaits /\ TokenAccounting)'
  BY NobodyWaitsStep, TokenStep
<1>3. SafetyInv /\ TokenAccounting => RateLimited
  <2> SUFFICES ASSUME SafetyInv, TokenAccounting, RateLimit > 0
               PROVE  Cardinality({r \in Queued : wire[r] # "none"}) <= RateLimit
    BY DEF RateLimited, InFlyBounded, SafetyInv
  <2> DEFINE inFly == {r \in Queued : wire[r] # "none"}
  <2>1. TypeOK /\ rlimit = Cardinality(Tokens)
    BY DEF SafetyInv, TokenAccounting, LimitDrops, LimitWaits
  <2>2. inFly \in SUBSET Tokens
    BY <2>1 DEF Tokens, Queued, TypeOK
  <2>3. Cardinality(inFly) <= Cardinality(Tokens)
    BY <2>2, CountedFinite, FS_Subset
  <2>4. Cardinality(inFly) \in Nat
    BY <2>2, CountedFinite, FS_Subset, FS_CardinalityType
  <2> HIDE DEF inFly
  <2>5. Cardinality(inFly) <= RateLimit
    BY <2>1, <2>3, <2>4, CountedFinite DEF TypeOK
  <2> QED BY <2>5 DEF inFly
<1> QED BY <1>1, <1>2, <1>3, SafetyInvariance, PTL DEF Spec

-----------------------------------------------------------------------------
(* Responses and the list they look into.                                  *)

\* A queued future is in the list its identifier says, unless a push has moved
\* it: with Opts.Timeout that happens to the requests with a context.
InOwnList == \A r \in ReqIds : r \in Queued => Found(r) \/ Moved(r)

\* Every critical section keeps a future in its list, and takes it off the list
\* when its response is read.
LEMMA AnsweredStep ==
    ASSUME SafetyInv, InOwnList, AnsweredLeavesQueue, [Next]_vars
    PROVE  InOwnList' /\ AnsweredLeavesQueue'
<1> USE DEF connVars, listVars, ctxVars, wireVars
<1> TypeOK /\ SoleOwner /\ PackedFirst
  BY DEF SafetyInv
<1>f. ASSUME wire' = wire, pushes' = pushes, requests' = requests,
             requestsWithCtx' = requestsWithCtx
      PROVE  InOwnList' /\ AnsweredLeavesQueue'
  BY <1>f DEF InOwnList, AnsweredLeavesQueue, Queued, Found, Moved
<1>o. ASSUME NEW r \in ReqIds, wire' = wire, pushes' = pushes,
             requests' = requests \ {r}, requestsWithCtx' = requestsWithCtx \ {r}
      PROVE  InOwnList' /\ AnsweredLeavesQueue'
  BY <1>o DEF InOwnList, AnsweredLeavesQueue, Queued, Found, Moved
<1>h. ASSUME NEW r \in ReqIds, wire' = wire, pushes' = pushes, Found(r), Fetch(r)
      PROVE  InOwnList' /\ AnsweredLeavesQueue'
  <2>1. Queued' = Queued \ {r}
    BY <1>h, FetchFound
  <2>2. \A q \in ReqIds : q # r => (Found(q)' <=> Found(q)) /\ (Moved(q)' <=> Moved(q))
    BY <1>h DEF Fetch, Found, Moved
  <2> QED BY <1>h, <2>1, <2>2 DEF InOwnList, AnsweredLeavesQueue
<1>1. ASSUME NEW r \in ReqIds,
             Send(r) \/ LimitDrop(r) \/ LoadState(r) \/ LimitWait(r) \/ CheckCtx(r)
             \/ PackWait(r) \/ CtxExpire(r) \/ WatchdogDone(r)
      PROVE  InOwnList' /\ AnsweredLeavesQueue'
  BY <1>1, <1>f DEF Send, LimitDrop, LoadState, LimitWait, CheckCtx, PackWait, CtxExpire,
                    WatchdogDone
<1>2. ASSUME NEW r \in ReqIds, AddFuture(r) PROVE InOwnList' /\ AnsweredLeavesQueue'
  <2>1. wire' = wire /\ pushes' = pushes /\ wire[r] = "none"
    BY <1>2 DEF AddFuture, PackedFirst
  <2>2. CASE UNCHANGED listVars
    BY <1>f, <2>1, <2>2
  <2>3. CASE Enqueue(r)
    <3>1. Queued' = Queued \cup {r}
      BY <2>3 DEF Enqueue, Queued
    <3>2. Found(r)' /\ \A q \in ReqIds : q # r => (Found(q)' <=> Found(q)) /\ (Moved(q)' <=> Moved(q))
      BY <2>1, <2>3 DEF Enqueue, Found, Moved
    <3> QED BY <2>1, <3>1, <3>2 DEF InOwnList, AnsweredLeavesQueue
  <2> QED BY <1>2, <2>2, <2>3 DEF AddFuture
<1>3. ASSUME NEW r \in ReqIds, PutFuture(r) PROVE InOwnList' /\ AnsweredLeavesQueue'
  <2>1. /\ requests' = requests /\ requestsWithCtx' = requestsWithCtx /\ pushes' = pushes
        /\ wire' = wire \/ wire' = [wire EXCEPT ![r] = "sent"]
    BY <1>3 DEF PutFuture, Trunc
  <2>2. InOwnList'
    BY <2>1 DEF InOwnList, Queued, Found, Moved
  <2>3. \A q \in ReqIds : wire'[q] = "answered" => wire[q] = "answered"
    BY <2>1 DEF TypeOK
  <2>4. AnsweredLeavesQueue'
    BY <2>1, <2>3 DEF AnsweredLeavesQueue, Queued, Moved
  <2> QED BY <2>2, <2>4
<1>4. ASSUME NEW r \in ReqIds, SenderFetch(r) \/ WatchdogCancel(r)
      PROVE  InOwnList' /\ AnsweredLeavesQueue'
  BY <1>4, <1>f, <1>h DEF SenderFetch, WatchdogCancel
<1>5. ASSUME NEW r \in ReqIds, NEW g \in Goroutines, Settle(g, r) \/ MarkDone(g, r)
      PROVE  InOwnList' /\ AnsweredLeavesQueue'
  BY <1>5, <1>f DEF Settle, MarkDone
<1>6. ASSUME NEW r \in ReqIds, ReadResponse(r) PROVE InOwnList' /\ AnsweredLeavesQueue'
  <2>1. \A q \in ReqIds : q # r => wire'[q] = wire[q]
    BY <1>6 DEF ReadResponse, TypeOK
  <2>2. CASE Found(r)
    <3>1. Queued' = Queued \ {r}
      BY <1>6, <2>2, FetchFound DEF ReadResponse
    <3>2. \A q \in ReqIds : q # r => (Found(q)' <=> Found(q)) /\ (Moved(q)' <=> Moved(q))
      BY <1>6, <2>2 DEF ReadResponse, Fetch, Found, Moved
    <3> QED BY <2>1, <3>1, <3>2 DEF InOwnList, AnsweredLeavesQueue
  <2>3. CASE ~Found(r)
    <3>1. requests' = requests /\ requestsWithCtx' = requestsWithCtx /\ pushes' = pushes
      BY <1>6, <2>3 DEF ReadResponse
    <3>2. InOwnList' /\ Queued' = Queued /\ \A q \in ReqIds : Moved(q)' <=> Moved(q)
      BY <3>1 DEF InOwnList, Queued, Found, Moved
    <3>3. r \in Queued => Moved(r)
      BY <2>3 DEF InOwnList
    <3> QED BY <2>1, <3>2, <3>3 DEF AnsweredLeavesQueue
  <2> QED BY <2>2, <2>3
<1>7. ASSUME NEW r \in ReqIds, ReadPush(r) PROVE InOwnList' /\ AnsweredLeavesQueue'
  <2>1. wire' = wire
    BY <1>7 DEF ReadPush
  <2>2. CASE Timeout /\ Found(r)
    <3>1. Queued' = Queued
      BY <1>7, <2>2 DEF ReadPush, Found, Queued
    <3>2. \A q \in ReqIds : (Found(q) => Found(q)' \/ Moved(q)') /\ (Moved(q) => Moved(q)')
      BY <1>7, <2>2 DEF ReadPush, Found, Moved, TypeOK
    <3> QED BY <2>1, <3>1, <3>2 DEF InOwnList, AnsweredLeavesQueue
  <2>3. CASE ~(Timeout /\ Found(r))
    <3>1. requests' = requests /\ requestsWithCtx' = requestsWithCtx /\ pushes' = pushes + 1
      BY <1>7, <2>3 DEF ReadPush
    <3>2. Queued' = Queued /\ \A q \in ReqIds : (Found(q)' <=> Found(q)) /\ (Moved(q) => Moved(q)')
      BY <3>1 DEF Queued, Found, Moved, TypeOK
    <3> QED BY <2>1, <3>2 DEF InOwnList, AnsweredLeavesQueue
  <2> QED BY <2>2, <2>3
<1>8. ASSUME NEW r \in ReqIds, Expire(r) PROVE InOwnList' /\ AnsweredLeavesQueue'
  <2>1. requestsWithCtx \ {r} = requestsWithCtx
    BY <1>8 DEF Expire, SoleOwner
  <2> QED BY <1>8, <1>o, <2>1 DEF Expire
<1>9. ASSUME NEW r \in ReqIds, ClearOne(r) PROVE InOwnList' /\ AnsweredLeavesQueue'
  BY <1>9, <1>o DEF ClearOne
<1>10. CASE UserClose \/ NetFailure \/ ShutdownReconnect
  BY <1>10, <1>f DEF UserClose, NetFailure, ShutdownReconnect, CloseBegin
<1>11. CASE CloseEnd \/ Dial \/ Shutdown \/ ShutdownDrained \/ Rest \/ UNCHANGED vars
  BY <1>11, <1>f DEF CloseEnd, Dial, Shutdown, ShutdownDrained, Rest, vars
<1> QED
  BY <1>1, <1>2, <1>3, <1>4, <1>5, <1>6, <1>7, <1>8, <1>9, <1>10, <1>11
     DEF Next, ClientStep, RequestStep

\* The reader finds the future of every response it reads, so that an answered
\* request is no longer queued - but for the requests with a context which, with
\* Opts.Timeout, a push has moved to the other list.
THEOREM AnsweredLeavesQueueHolds == Spec => []AnsweredLeavesQueue
<1>1. Init => InOwnList /\ AnsweredLeavesQueue
  BY DEF Init, InOwnList, AnsweredLeavesQueue, Queued
<1>2. SafetyInv /\ InOwnList /\ AnsweredLeavesQueue /\ [Next]_vars
        => InOwnList' /\ AnsweredLeavesQueue'
  BY AnsweredStep
<1> QED BY <1>1, <1>2, SafetyInvariance, PTL DEF Spec

-----------------------------------------------------------------------------
(* Graceful shutdown.                                                      *)

\* Between the load of requestCnt = 0 and the end of closeConnection nothing is
\* queued and no newFuture is past its check of the state.
DrainInv ==
    /\ drained => /\ state = "shutdown" /\ closing = "no" /\ Queued = {}
                  /\ \A r \in ReqIds : pc[r] # "add"
    /\ closing = "errDrained" => Queued = {}
    /\ GracefulDrain

\* Every critical section preserves the invariant of the graceful shutdown.
LEMMA DrainStep ==
    ASSUME SafetyInv, CounterAccounting, DrainInv, [Next]_vars
    PROVE  DrainInv'
<1> USE DEF connVars, listVars, ctxVars, wireVars, GracefulDrain
<1> TypeOK /\ SoleOwner /\ EntryFresh /\ AddHoldsLock
  BY DEF SafetyInv
<1>f. ASSUME UNCHANGED <<state, closing, drained, fut>>, Queued' \subseteq Queued,
             \A r \in ReqIds : pc'[r] = "add" => pc[r] = "add"
      PROVE  DrainInv'
  BY <1>f DEF DrainInv
<1>g. ASSUME NEW r \in ReqIds, NEW v \in Outcomes \ {"errDrained"}, Set(r, v),
             UNCHANGED <<state, closing, drained>>, Queued' \subseteq Queued,
             \A q \in ReqIds : pc'[q] = "add" => pc[q] = "add"
      PROVE  DrainInv'
  BY <1>g DEF DrainInv, Set, TypeOK
<1>1. ASSUME NEW r \in ReqIds, Send(r) \/ LimitWait(r) \/ CheckCtx(r) \/ PutFuture(r)
                                \/ CtxExpire(r) \/ WatchdogDone(r)
      PROVE  DrainInv'
  <2>1. \A q \in ReqIds : pc'[q] = "add" => pc[q] = "add"
    BY <1>1 DEF Send, LimitWait, CheckCtx, PutFuture, CtxExpire, WatchdogDone, GoTo, TypeOK,
                AfterNewFuture
  <2>2. Queued' = Queued /\ UNCHANGED <<state, closing, drained, fut>>
    BY <1>1 DEF Send, LimitWait, CheckCtx, PutFuture, CtxExpire, WatchdogDone, Queued
  <2> QED BY <1>f, <2>1, <2>2
<1>2. ASSUME NEW r \in ReqIds, LimitDrop(r) PROVE DrainInv'
  <2>1. Queued' = Queued /\ \A q \in ReqIds : pc'[q] = "add" => pc[q] = "add"
    BY <1>2 DEF LimitDrop, GoTo, TypeOK, Queued
  <2> QED BY <1>2, <1>f, <1>g, <2>1 DEF LimitDrop, Outcomes
<1>3. ASSUME NEW r \in ReqIds, LoadState(r) PROVE DrainInv'
  <2>1. Queued' = Queued
    BY <1>3 DEF LoadState, Queued
  <2>2. CASE Accepts
    BY <1>3, <2>1, <2>2 DEF LoadState, Accepts, DrainInv
  <2>3. CASE ~Accepts
    <3>1. RefusalOf[state] \in Outcomes \ {"errDrained"}
      BY <2>3 DEF RefusalOf, Outcomes, TypeOK, States, Accepts
    <3>2. \A q \in ReqIds : pc'[q] = "add" => pc[q] = "add"
      BY <1>3, <2>3 DEF LoadState, GoTo, TypeOK
    <3> QED BY <1>3, <1>g, <2>1, <2>3, <3>1, <3>2 DEF LoadState
  <2> QED BY <2>2, <2>3
<1>4. ASSUME NEW r \in ReqIds, AddFuture(r) PROVE DrainInv'
  <2>1. ~drained /\ closing = "no" /\ UNCHANGED <<state, closing, drained>>
    BY <1>4 DEF AddFuture, DrainInv, AddHoldsLock
  <2>2. GracefulDrain'
    BY <1>4 DEF AddFuture, DrainInv, Set, TypeOK
  <2> QED BY <2>1, <2>2 DEF DrainInv
<1>5. ASSUME NEW r \in ReqIds, SenderFetch(r) PROVE DrainInv'
  <2>1. Queued' \subseteq Queued
    BY <1>5 DEF SenderFetch, Fetch, Queued
  <2>2. \A q \in ReqIds : pc'[q] = "add" => pc[q] = "add"
    BY <1>5 DEF SenderFetch, GoTo, TypeOK
  <2> QED BY <1>5, <1>f, <2>1, <2>2 DEF SenderFetch
<1>6. ASSUME NEW r \in ReqIds, PackWait(r) PROVE DrainInv'
  <2>1. fut' = fut
    BY <1>6 DEF PackWait, Set
  <2>2. Queued' = Queued /\ \A q \in ReqIds : pc'[q] = "add" => pc[q] = "add"
    BY <1>6 DEF PackWait, GoTo, TypeOK, Queued
  <2> QED BY <1>6, <1>f, <2>1, <2>2 DEF PackWait
<1>7. ASSUME NEW r \in ReqIds, NEW g \in Goroutines, Settle(g, r) PROVE DrainInv'
  <2>1. Result(g, r) \in Outcomes \ {"errDrained"}
    BY DEF Result, Outcomes
  <2> QED BY <1>7, <1>g, <2>1 DEF Settle, Queued
<1>8. ASSUME NEW r \in ReqIds, NEW g \in Goroutines, MarkDone(g, r) PROVE DrainInv'
  <2>1. \A q \in ReqIds : pc'[q] = "add" => pc[q] = "add"
    BY <1>8 DEF MarkDone, TypeOK
  <2> QED BY <1>8, <1>f, <2>1 DEF MarkDone, Queued
<1>9. ASSUME NEW r \in ReqIds, ReadResponse(r) \/ WatchdogCancel(r) PROVE DrainInv'
  BY <1>9, <1>f DEF ReadResponse, WatchdogCancel, Fetch, Queued
<1>10. ASSUME NEW r \in ReqIds, ReadPush(r) PROVE DrainInv'
  <2>1. Queued' = Queued
    BY <1>10 DEF ReadPush, Found, Queued
  <2> QED BY <1>10, <1>f, <2>1 DEF ReadPush
<1>11. ASSUME NEW r \in ReqIds, Expire(r) PROVE DrainInv'
  BY <1>11, <1>g DEF Expire, Queued, Outcomes
<1>12. ASSUME NEW r \in ReqIds, ClearOne(r) PROVE DrainInv'
  <2>1. closing \in Outcomes \ {"errDrained"}
    BY <1>12 DEF ClearOne, DrainInv, TypeOK, CloseErrors, Outcomes
  <2> QED BY <1>12, <1>g, <2>1 DEF ClearOne, Queued
<1>13. CASE UserClose \/ NetFailure
  BY <1>13 DEF UserClose, NetFailure, CloseBegin, MutexFree, DrainInv
<1>14. CASE ShutdownReconnect
  BY <1>14 DEF ShutdownReconnect, CloseBegin, DrainInv, Queued
<1>15. CASE CloseEnd \/ Dial \/ Shutdown
  BY <1>15 DEF CloseEnd, Dial, Shutdown, MutexFree, DrainInv, Queued
<1>16. CASE ShutdownDrained
  <2>1. Counted = {}
    BY <1>16, CountedFinite, FS_EmptySet DEF ShutdownDrained, CounterAccounting
  <2>2. Queued = {} /\ \A r \in ReqIds : pc[r] # "add"
    BY <2>1 DEF Counted, Queued, TypeOK
  <2> QED BY <1>16, <2>2 DEF ShutdownDrained, MutexFree, DrainInv, Queued
<1>17. CASE Rest \/ UNCHANGED vars
  BY <1>17, <1>f DEF Rest, vars, Queued
<1> QED
  BY <1>1, <1>2, <1>3, <1>4, <1>5, <1>6, <1>7, <1>8, <1>9, <1>10, <1>11, <1>12, <1>13, <1>14,
     <1>15, <1>16, <1>17 DEF Next, ClientStep, RequestStep

\* shutdown() never closes the connection under a request: whatever newFuture
\* let in is counted, so requestCnt = 0 means that nothing is queued and that
\* nothing more gets in.
THEOREM GracefulDrainHolds == Spec => []GracefulDrain
<1>1. Init => DrainInv
  BY DEF Init, DrainInv, GracefulDrain, Queued
<1>2. SafetyInv /\ CounterAccounting /\ DrainInv /\ [Next]_vars => DrainInv'
  BY DrainStep
<1>3. DrainInv => GracefulDrain
  BY DEF DrainInv
<1> QED BY <1>1, <1>2, <1>3, SafetyInvariance, CounterAccountingHolds, PTL DEF Spec

=============================================================================
