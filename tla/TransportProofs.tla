-------------------------- MODULE TransportProofs ---------------------------
(* Theorems about Transport, for every set of requests, number of shards   *)
(* and number of sockets.                                                  *)
EXTENDS Transport, TLAPS, FiniteSetTheorems, SequenceTheorems

USE ConcurrencyAssumption, MaxDialsAssumption

-----------------------------------------------------------------------------
(* The strengthening that makes the properties inductive.                  *)

PutStates == {"new", "put", "announce", "returned"}
WriterStates == {"none", "top", "wait", "gosched", "lock", "putback", "write", "ended"}

\* The types of the variables.
TypeOK ==
    /\ c \in 0 .. MaxDials /\ dials \in Sockets /\ closed \in BOOLEAN
    /\ broken \subseteq Sockets /\ settled \subseteq ReqIds /\ cancelled \subseteq ReqIds
    /\ epoch \in [ReqIds -> 0 .. MaxDials] /\ pc \in [ReqIds -> PutStates]
    /\ buf \in [Shards -> Seq(ReqIds)] /\ dirtyShard \in Seq(Shards)
    /\ wpc \in [Sockets -> WriterStates] /\ shardn \in [Sockets -> Shards]
    /\ packet \in [Sockets -> Seq(ReqIds)] /\ wbuf \in [Sockets -> Seq(ReqIds)]
    /\ out \in [Sockets -> Seq(ReqIds)] /\ resets \in [Shards -> Nat]

\* A future that is not done belongs to the current socket, as closeConnection
\* ends all the others but those a watchdog has taken out of the lists.
PendingIsCurrent ==
    \A r \in ReqIds : pc[r] # "new" =>
        epoch[r] # 0 /\ (r \in settled \cup cancelled \/ (c # 0 /\ epoch[r] = c))

\* A buffer has requests of its shard that were accepted for the current socket
\* or that have been cancelled.
BufferIsCurrent ==
    \A s \in Shards : \A r \in ToSet(buf[s]) :
        /\ pc[r] \in {"announce", "returned"} /\ ShardOf(r) = s
        /\ r \in cancelled \/ (c # 0 /\ epoch[r] = c)

\* Sockets get their writers in turn, and the packet of a writer is empty when it
\* swaps it for a buffer.
WriterControl ==
    \A w \in Sockets :
        /\ packet[w] # << >> => wpc[w] \in {"write", "ended"}
        /\ w > dials => wpc[w] = "none"

\* What a writer has taken was packed before.
TakenWasPacked ==
    \A w \in Sockets : \A r \in ToSet(Way(w)) : pc[r] \in {"announce", "returned"}

PathInv ==
    /\ TypeOK /\ PendingIsCurrent /\ BufferIsCurrent /\ WriterControl /\ TakenWasPacked
    /\ OnOwnSocket
    /\ \A w \in Sockets : IsInjective(Way(w))
    /\ \A s \in Shards : IsInjective(buf[s])
    /\ \A s \in Shards, w \in Sockets : ToSet(buf[s]) \cap ToSet(Way(w)) = {}
    /\ \A v, w \in Sockets : v # w => ToSet(Way(v)) \cap ToSet(Way(w)) = {}

-----------------------------------------------------------------------------
(* Sequences without repetition.                                           *)

\* The shard of a request exists: requestId & (Concurrency - 1) in the code.
LEMMA ShardOfType == \A r \in ReqIds : ShardOf(r) \in Shards
<1> TAKE r \in ReqIds
<1>1. r \in Nat
  BY ReqIdsAssumption
<1> QED BY <1>1 DEF ShardOf, Shards

\* The empty buffer.
LEMMA EmptyOnce == ToSet(<< >>) = {} /\ IsInjective(<< >>)
  BY DEF ToSet, IsInjective

\* Only the empty sequence has no elements.
LEMMA EmptyToSet ==
    ASSUME NEW S, NEW s \in Seq(S), ToSet(s) = {}
    PROVE  s = << >>
<1>1. DOMAIN s = 1 .. Len(s) /\ Len(s) \in Nat
  BY LenProperties
<1>2. ASSUME Len(s) # 0 PROVE FALSE
  <2>1. 1 \in DOMAIN s
    BY <1>1, <1>2
  <2> QED BY <2>1 DEF ToSet
<1> QED BY <1>2, EmptySeq

\* Packing one more request.
LEMMA AppendOnce ==
    ASSUME NEW S, NEW s \in Seq(S), NEW e \in S
    PROVE  /\ ToSet(Append(s, e)) = ToSet(s) \cup {e}
           /\ Append(s, e) # << >>
           /\ IsInjective(s) /\ e \notin ToSet(s) => IsInjective(Append(s, e))
<1> DEFINE t == Append(s, e)
<1>1. /\ DOMAIN s = 1 .. Len(s) /\ Len(s) \in Nat
      /\ t \in Seq(S) /\ Len(t) = Len(s) + 1 /\ t[Len(s) + 1] = e
      /\ \A i \in 1 .. Len(s) : t[i] = s[i]
  BY LenProperties, AppendProperties
<1>2. DOMAIN t = 1 .. Len(s) + 1
  BY <1>1, LenProperties
<1>3. t # << >>
  BY <1>1
<1> HIDE DEF t
<1>4. ToSet(t) = ToSet(s) \cup {e}
  <2>1. ASSUME NEW x \in ToSet(t) PROVE x \in ToSet(s) \cup {e}
    <3>1. PICK i \in 1 .. Len(s) + 1 : x = t[i]
      BY <1>2, <2>1 DEF ToSet
    <3>2. CASE i = Len(s) + 1
      BY <1>1, <3>1, <3>2
    <3>3. CASE i \in 1 .. Len(s)
      BY <1>1, <3>1, <3>3 DEF ToSet
    <3> QED BY <1>1, <3>2, <3>3
  <2>2. ASSUME NEW x \in ToSet(s) PROVE x \in ToSet(t)
    <3>1. PICK i \in 1 .. Len(s) : x = s[i]
      BY <1>1, <2>2 DEF ToSet
    <3>2. i \in DOMAIN t /\ t[i] = x
      BY <1>1, <1>2, <3>1
    <3> QED BY <3>2 DEF ToSet
  <2>3. e \in ToSet(t)
    <3>1. Len(s) + 1 \in DOMAIN t
      BY <1>1, <1>2
    <3> QED BY <3>1, <1>1 DEF ToSet
  <2> QED BY <2>1, <2>2, <2>3
<1>5. ASSUME IsInjective(s), e \notin ToSet(s) PROVE IsInjective(t)
  <2>1. \A i \in 1 .. Len(s) : s[i] # e
    BY <1>1, <1>5 DEF ToSet
  <2>2. \A i, j \in 1 .. Len(s) : s[i] = s[j] => i = j
    BY <1>1, <1>5 DEF IsInjective
  <2>3. \A i, j \in 1 .. Len(s) + 1 : t[i] = t[j] => i = j
    BY <1>1, <2>1, <2>2
  <2> QED BY <1>2, <2>3 DEF IsInjective
<1> QED BY <1>3, <1>4, <1>5 DEF t

\* A packet behind what is already under way.
LEMMA ConcatOnce ==
    ASSUME NEW S, NEW s \in Seq(S), NEW t \in Seq(S)
    PROVE  /\ ToSet(s \o t) = ToSet(s) \cup ToSet(t)
           /\ IsInjective(s) /\ IsInjective(t) /\ ToSet(s) \cap ToSet(t) = {}
                => IsInjective(s \o t)
<1> DEFINE u == s \o t
           m == Len(s)
           n == Len(t)
<1>1. /\ DOMAIN s = 1 .. m /\ m \in Nat /\ DOMAIN t = 1 .. n /\ n \in Nat
      /\ u \in Seq(S) /\ Len(u) = m + n
      /\ \A i \in 1 .. m + n : u[i] = IF i <= m THEN s[i] ELSE t[i - m]
  BY LenProperties, ConcatProperties
<1>2. DOMAIN u = 1 .. m + n
  BY <1>1, LenProperties
<1> HIDE DEF u, m, n
<1>3. \A i \in 1 .. m : i \in DOMAIN u /\ u[i] = s[i]
  BY <1>1, <1>2
<1>4. \A i \in 1 .. n : i + m \in DOMAIN u /\ u[i + m] = t[i]
  <2> TAKE i \in 1 .. n
  <2>1. i + m \in 1 .. m + n /\ ~(i + m <= m) /\ (i + m) - m = i
    BY <1>1
  <2> QED BY <1>1, <1>2, <2>1
<1>5. ToSet(u) = ToSet(s) \cup ToSet(t)
  <2>1. ASSUME NEW x \in ToSet(u) PROVE x \in ToSet(s) \cup ToSet(t)
    <3>1. PICK i \in 1 .. m + n : x = u[i]
      BY <1>2, <2>1 DEF ToSet
    <3>2. CASE i <= m
      <4>1. i \in 1 .. m
        BY <1>1, <3>2
      <4> QED BY <1>1, <1>3, <3>1, <4>1 DEF ToSet
    <3>3. CASE ~(i <= m)
      <4>1. i - m \in 1 .. n /\ u[i] = t[i - m]
        BY <1>1, <3>3
      <4> QED BY <1>1, <3>1, <4>1 DEF ToSet
    <3> QED BY <3>2, <3>3
  <2>2. ASSUME NEW x \in ToSet(s) PROVE x \in ToSet(u)
    <3>1. PICK i \in 1 .. m : x = s[i]
      BY <1>1, <2>2 DEF ToSet
    <3> QED BY <1>3, <3>1 DEF ToSet
  <2>3. ASSUME NEW x \in ToSet(t) PROVE x \in ToSet(u)
    <3>1. PICK i \in 1 .. n : x = t[i]
      BY <1>1, <2>3 DEF ToSet
    <3> QED BY <1>4, <3>1 DEF ToSet
  <2> QED BY <2>1, <2>2, <2>3
<1>6. ASSUME IsInjective(s), IsInjective(t), ToSet(s) \cap ToSet(t) = {} PROVE IsInjective(u)
  <2>1. \A i \in 1 .. m, j \in 1 .. n : s[i] # t[j]
    <3> TAKE i \in 1 .. m, j \in 1 .. n
    <3>1. s[i] \in ToSet(s) /\ t[j] \in ToSet(t)
      BY <1>1 DEF ToSet
    <3> QED BY <1>6, <3>1
  <2>2. /\ \A i, j \in 1 .. m : s[i] = s[j] => i = j
        /\ \A i, j \in 1 .. n : t[i] = t[j] => i = j
    BY <1>1, <1>6 DEF IsInjective
  <2>3. ASSUME NEW i \in 1 .. m + n, NEW j \in 1 .. m + n, u[i] = u[j] PROVE i = j
    <3>1. i \in 1 .. m \/ (i - m \in 1 .. n /\ ~(i <= m))
      BY <1>1
    <3>2. j \in 1 .. m \/ (j - m \in 1 .. n /\ ~(j <= m))
      BY <1>1
    <3>3. u[i] = (IF i <= m THEN s[i] ELSE t[i - m]) /\ u[j] = (IF j <= m THEN s[j] ELSE t[j - m])
      BY <1>1
    <3>4. CASE i \in 1 .. m /\ j \in 1 .. m
      <4>1. s[i] = s[j]
        BY <1>3, <2>3, <3>4
      <4> QED BY <2>2, <3>4, <4>1
    <3>5. CASE i - m \in 1 .. n /\ ~(i <= m) /\ j - m \in 1 .. n /\ ~(j <= m)
      <4>1. i - m = j - m
        BY <2>2, <2>3, <3>3, <3>5
      <4> QED BY <1>1, <4>1
    <3>6. CASE i \in 1 .. m /\ j - m \in 1 .. n /\ ~(j <= m)
      <4>1. u[i] = s[i] /\ u[j] = t[j - m]
        BY <1>3, <3>3, <3>6
      <4> QED BY <2>1, <2>3, <3>6, <4>1
    <3>7. CASE j \in 1 .. m /\ i - m \in 1 .. n /\ ~(i <= m)
      <4>1. u[j] = s[j] /\ u[i] = t[i - m]
        BY <1>3, <3>3, <3>7
      <4> QED BY <2>1, <2>3, <3>7, <4>1
    <3> QED BY <3>1, <3>2, <3>4, <3>5, <3>6, <3>7
  <2> QED BY <1>2, <2>3 DEF IsInjective
<1> QED BY <1>5, <1>6 DEF u

-----------------------------------------------------------------------------
(* Types.                                                                  *)

\* The types hold in the initial state.
LEMMA TypeInit == Init => TypeOK
<1> SUFFICES ASSUME Init PROVE TypeOK
  OBVIOUS
<1>1. 0 \in Shards /\ 1 \in Sockets /\ << >> \in Seq(ReqIds) /\ << >> \in Seq(Shards)
  BY EmptySeq DEF Shards, Sockets
<1>2. wpc \in [Sockets -> WriterStates] /\ pc \in [ReqIds -> PutStates]
  BY DEF Init, WriterStates, PutStates
<1>3. resets \in [Shards -> Nat] /\ epoch \in [ReqIds -> 0 .. MaxDials] /\ c \in 0 .. MaxDials
  BY DEF Init
<1> QED BY <1>1, <1>2, <1>3 DEF Init, TypeOK

\* A sender keeps the types.
LEMMA TypeSender ==
    ASSUME TypeOK, NEW r \in ReqIds, Register(r) \/ Sender(r)
    PROVE  TypeOK'
<1> USE ShardOfType
<1>1. CASE Register(r)
  BY <1>1 DEF TypeOK, Register, PutStates, netVars, writerVars
<1>2. CASE PutFuture(r)
  <2>1. /\ pc' \in [ReqIds -> PutStates]
        /\ c' = c /\ dials' = dials /\ closed' = closed /\ broken' = broken /\ settled' = settled
        /\ cancelled' = cancelled
        /\ resets' = resets /\ epoch' = epoch /\ dirtyShard' = dirtyShard /\ wpc' = wpc
        /\ shardn' = shardn /\ packet' = packet /\ wbuf' = wbuf /\ out' = out
    BY <1>2 DEF TypeOK, PutFuture, PutStates, netVars, writerVars
  <2>2. Append(buf[ShardOf(r)], r) \in Seq(ReqIds)
    BY AppendProperties DEF TypeOK
  <2>3. buf' \in [Shards -> Seq(ReqIds)]
    BY <1>2, <2>2 DEF TypeOK, PutFuture
  <2> QED BY <2>1, <2>3 DEF TypeOK
<1>3. CASE Announce(r)
  <2>1. Append(dirtyShard, ShardOf(r)) \in Seq(Shards)
    BY AppendProperties DEF TypeOK
  <2> QED BY <1>3, <2>1 DEF TypeOK, Announce, PutStates, netVars, writerVars
<1> QED BY <1>1, <1>2, <1>3 DEF Sender

\* A writer keeps the types.
LEMMA TypeWriter ==
    ASSUME TypeOK, NEW w \in Sockets, Writer(w)
    PROVE  TypeOK'
<1> USE DEF WriterOnly, Step, WriterStates, netVars, reqVars
<1>1. CASE Take(w)
  <2>1. Head(dirtyShard) \in Shards /\ Tail(dirtyShard) \in Seq(Shards)
    BY <1>1, HeadTailProperties DEF TypeOK, Take
  <2> QED BY <1>1, <2>1 DEF TypeOK, Take
<1>2. CASE Idle(w)
  BY <1>2 DEF TypeOK, Idle
<1>3. CASE Flush(w)
  <2>1. out[w] \o wbuf[w] \in Seq(ReqIds) /\ << >> \in Seq(ReqIds)
    BY ConcatProperties, EmptySeq DEF TypeOK
  <2> QED BY <1>3, <2>1 DEF TypeOK, Flush, Flushed
<1>4. CASE Swap(w)
  <2>1. /\ packet[w] \in Seq(ReqIds) /\ shardn[w] \in Shards
        /\ buf[shardn[w]] \in Seq(ReqIds)
    BY DEF TypeOK
  <2>2. /\ packet' \in [Sockets -> Seq(ReqIds)] /\ buf' \in [Shards -> Seq(ReqIds)]
        /\ wpc' \in [Sockets -> WriterStates]
    BY <1>4, <2>1 DEF TypeOK, Swap
  <2> QED BY <1>4, <2>2 DEF TypeOK, Swap
<1>5. CASE PutBack(w)
  <2>1. Append(dirtyShard, shardn[w]) \in Seq(Shards)
    BY AppendProperties DEF TypeOK
  <2> QED BY <1>5, <2>1 DEF TypeOK, PutBack
<1>6. CASE Write(w)
  <2>1. wbuf[w] \o packet[w] \in Seq(ReqIds) /\ << >> \in Seq(ReqIds)
    BY ConcatProperties, EmptySeq DEF TypeOK
  <2> QED BY <1>6, <2>1 DEF TypeOK, Write, ResetPacket
<1>7. CASE WriterEnds(w)
  BY <1>7 DEF TypeOK, WriterEnds
<1> QED BY <1>1, <1>2, <1>3, <1>4, <1>5, <1>6, <1>7 DEF Writer

\* The connection and its reader keep the types.
LEMMA TypeConnection ==
    ASSUME TypeOK,
           Break \/ Dial \/ (\E forever \in BOOLEAN : CloseConnection(forever))
             \/ (\E r \in ReqIds : End(r) \/ Cancel(r) \/ CancelSettle(r))
    PROVE  TypeOK'
<1> USE DEF netVars, reqVars, writerVars
<1>1. CASE Break
  <2>1. c \in Sockets
    BY <1>1 DEF TypeOK, Break, Sockets
  <2> QED BY <1>1, <2>1 DEF TypeOK, Break
<1>2. CASE Dial
  <2>1. dials + 1 \in Sockets /\ dials + 1 \in 0 .. MaxDials
    BY <1>2 DEF TypeOK, Dial, Sockets
  <2>2. wpc' \in [Sockets -> WriterStates]
    BY <1>2, <2>1 DEF TypeOK, Dial, WriterStates
  <2> QED BY <1>2, <2>1, <2>2 DEF TypeOK, Dial
<1>3. ASSUME NEW forever \in BOOLEAN, CloseConnection(forever) PROVE TypeOK'
  <2>1. << >> \in Seq(ReqIds) /\ 0 \in 0 .. MaxDials
    BY EmptySeq
  <2>2. buf' \in [Shards -> Seq(ReqIds)] /\ settled' \subseteq ReqIds
    BY <1>3, <2>1 DEF TypeOK, CloseConnection, ResetBuffers, Listed
  <2>3. resets' \in [Shards -> Nat]
    BY <1>3 DEF TypeOK, CloseConnection
  <2> QED BY <1>3, <2>1, <2>2, <2>3 DEF TypeOK, CloseConnection
<1>4. ASSUME NEW r \in ReqIds, End(r) \/ Cancel(r) \/ CancelSettle(r) PROVE TypeOK'
  BY <1>4 DEF TypeOK, End, Cancel, CancelSettle
<1> QED BY <1>1, <1>2, <1>3, <1>4

-----------------------------------------------------------------------------
(* The way of a request.                                                   *)

\* What a writer has taken is a sequence of requests.
LEMMA WayType == TypeOK => \A w \in Sockets : Way(w) \in Seq(ReqIds)
<1> SUFFICES ASSUME TypeOK, NEW w \in Sockets PROVE Way(w) \in Seq(ReqIds)
  OBVIOUS
<1>1. out[w] \in Seq(ReqIds) /\ wbuf[w] \in Seq(ReqIds) /\ packet[w] \in Seq(ReqIds)
  BY DEF TypeOK
<1>2. out[w] \o wbuf[w] \in Seq(ReqIds)
  BY <1>1, ConcatProperties
<1> QED BY <1>1, <1>2, ConcatProperties DEF Way

\* Elements of a sequence of requests are requests.
LEMMA ToSetType == \A s \in Seq(ReqIds) : ToSet(s) \subseteq ReqIds
<1> TAKE s \in Seq(ReqIds)
<1>1. DOMAIN s = 1 .. Len(s) /\ s \in [1 .. Len(s) -> ReqIds]
  BY LenProperties
<1> QED BY <1>1 DEF ToSet

\* Writing a packet and flushing keep the order of what goes out.
LEMMA WriteOrder ==
    \A s, t, u \in Seq(ReqIds) : (s \o t) \o u = s \o (t \o u)
<1> TAKE s, t, u \in Seq(ReqIds)
<1> DEFINE lhs == (s \o t) \o u
           rhs == s \o (t \o u)
<1>1. /\ s \o t \in Seq(ReqIds) /\ Len(s \o t) = Len(s) + Len(t)
      /\ \A i \in 1 .. Len(s) + Len(t) : (s \o t)[i] = IF i <= Len(s) THEN s[i] ELSE t[i - Len(s)]
  BY ConcatProperties
<1>2. /\ t \o u \in Seq(ReqIds) /\ Len(t \o u) = Len(t) + Len(u)
      /\ \A i \in 1 .. Len(t) + Len(u) : (t \o u)[i] = IF i <= Len(t) THEN t[i] ELSE u[i - Len(t)]
  BY ConcatProperties
<1>3. /\ lhs \in Seq(ReqIds) /\ Len(lhs) = Len(s \o t) + Len(u)
      /\ \A i \in 1 .. Len(s \o t) + Len(u) :
            lhs[i] = IF i <= Len(s \o t) THEN (s \o t)[i] ELSE u[i - Len(s \o t)]
  BY <1>1, ConcatProperties
<1>4. /\ rhs \in Seq(ReqIds) /\ Len(rhs) = Len(s) + Len(t \o u)
      /\ \A i \in 1 .. Len(s) + Len(t \o u) :
            rhs[i] = IF i <= Len(s) THEN s[i] ELSE (t \o u)[i - Len(s)]
  BY <1>2, ConcatProperties
<1>5. Len(s) \in Nat /\ Len(t) \in Nat /\ Len(u) \in Nat
  BY LenProperties
<1> HIDE DEF lhs, rhs
<1>6. Len(lhs) = Len(rhs)
  BY <1>1, <1>2, <1>3, <1>4, <1>5
<1>7. \A i \in 1 .. Len(lhs) : lhs[i] = rhs[i]
  <2> TAKE i \in 1 .. Len(lhs)
  <2>1. CASE i <= Len(s)
    BY <1>1, <1>2, <1>3, <1>4, <1>5, <2>1
  <2>2. CASE Len(s) < i /\ i <= Len(s) + Len(t)
    <3>1. i - Len(s) \in 1 .. Len(t) + Len(u) /\ i - Len(s) <= Len(t) /\ ~(i <= Len(s))
      BY <1>5, <2>2
    <3>2. (t \o u)[i - Len(s)] = t[i - Len(s)]
      BY <1>2, <3>1
    <3>3. (s \o t)[i] = t[i - Len(s)]
      BY <1>1, <1>5, <2>2
    <3>4. lhs[i] = (s \o t)[i]
      BY <1>1, <1>3, <1>5, <2>2
    <3>5. rhs[i] = (t \o u)[i - Len(s)]
      BY <1>4, <1>6, <3>1
    <3> QED BY <3>2, <3>3, <3>4, <3>5
  <2>3. CASE Len(s) + Len(t) < i
    <3>1. i \in 1 .. Len(s) + Len(t) + Len(u)
      BY <1>1, <1>3
    <3>2. /\ i - Len(s) \in 1 .. Len(t) + Len(u) /\ ~(i - Len(s) <= Len(t)) /\ ~(i <= Len(s))
          /\ (i - Len(s)) - Len(t) = i - (Len(s) + Len(t))
      BY <1>5, <2>3, <3>1
    <3>3. (t \o u)[i - Len(s)] = u[i - (Len(s) + Len(t))]
      BY <1>2, <3>2
    <3>4. lhs[i] = u[i - (Len(s) + Len(t))]
      BY <1>1, <1>3, <1>5, <2>3
    <3>5. rhs[i] = (t \o u)[i - Len(s)]
      BY <1>4, <1>6, <3>2
    <3> QED BY <3>3, <3>4, <3>5
  <2> QED BY <1>1, <1>3, <1>5, <2>1, <2>2, <2>3
<1>8. lhs = rhs
  BY <1>3, <1>4, <1>6, <1>7, SeqEqual
<1> QED BY <1>8 DEF lhs, rhs

\* A step that moves no request between the buffers and the writers.
LEMMA PathKept ==
    ASSUME PathInv, TypeOK', WriterControl', buf' = buf, epoch' = epoch, settled \subseteq settled',
           cancelled \subseteq cancelled', c' = c \/ c = 0, \A w \in Sockets : Way(w)' = Way(w),
           \A r \in ReqIds : pc'[r] = pc[r] \/ (pc[r] = "announce" /\ pc'[r] = "returned")
    PROVE  PathInv'
<1>1. \A s \in Shards : ToSet(buf[s]) \subseteq ReqIds
  BY ToSetType DEF PathInv, TypeOK
<1>2. \A w \in Sockets : ToSet(Way(w)) \subseteq ReqIds
  BY ToSetType, WayType DEF PathInv
<1>3. PendingIsCurrent'
  BY DEF PathInv, PendingIsCurrent
<1>4. BufferIsCurrent'
  BY <1>1 DEF PathInv, BufferIsCurrent
<1>5. TakenWasPacked'
  BY <1>2 DEF PathInv, TakenWasPacked
<1>6. OnOwnSocket'
  BY DEF PathInv, OnOwnSocket
<1>7. /\ \A w \in Sockets : IsInjective(Way(w)')
      /\ \A s \in Shards : IsInjective(buf'[s])
      /\ \A s \in Shards, w \in Sockets : ToSet(buf'[s]) \cap ToSet(Way(w)') = {}
      /\ \A v, w \in Sockets : v # w => ToSet(Way(v)') \cap ToSet(Way(w)') = {}
  BY DEF PathInv
<1> QED BY <1>3, <1>4, <1>5, <1>6, <1>7 DEF PathInv

\* Nothing is under way at first.
LEMMA PathInit == Init => PathInv
<1> SUFFICES ASSUME Init PROVE PathInv
  OBVIOUS
<1>1. TypeOK
  BY TypeInit
<1>2. \A w \in Sockets : Way(w) = << >>
  <2> TAKE w \in Sockets
  <2>1. out[w] = << >> /\ wbuf[w] = << >> /\ packet[w] = << >>
    BY DEF Init
  <2>2. << >> \o << >> = << >>
    BY ConcatEmptySeq, EmptySeq
  <2> QED BY <2>1, <2>2 DEF Way
<1>3. \A s \in Shards : buf[s] = << >>
  BY DEF Init
<1>4. PendingIsCurrent /\ WriterControl
  BY DEF Init, PendingIsCurrent, WriterControl, Sockets
<1>5. BufferIsCurrent /\ TakenWasPacked /\ OnOwnSocket
  BY <1>2, <1>3, EmptyOnce DEF BufferIsCurrent, TakenWasPacked, OnOwnSocket
<1> QED BY <1>1, <1>2, <1>3, <1>4, <1>5, EmptyOnce DEF PathInv

\* newFuture accepts a request for the current socket.
LEMMA PathRegister ==
    ASSUME PathInv, NEW r \in ReqIds, Register(r)
    PROVE  PathInv'
<1>1. TypeOK'
  BY TypeSender DEF PathInv
<1>2. /\ pc[r] = "new" /\ c # 0 /\ epoch' = [epoch EXCEPT ![r] = c] /\ pc' = [pc EXCEPT ![r] = "put"]
      /\ buf' = buf /\ c' = c /\ settled' = settled /\ cancelled' = cancelled /\ packet' = packet
      /\ wbuf' = wbuf /\ out' = out /\ wpc' = wpc /\ dials' = dials
  BY DEF Register, netVars, writerVars
<1>3. \A w \in Sockets : Way(w)' = Way(w)
  BY <1>2 DEF Way
<1>4. /\ \A s \in Shards : ToSet(buf[s]) \subseteq ReqIds \ {r}
      /\ \A w \in Sockets : ToSet(Way(w)) \subseteq ReqIds \ {r}
  BY <1>2, ToSetType, WayType DEF PathInv, TypeOK, BufferIsCurrent, TakenWasPacked
<1>5. \A q \in ReqIds \ {r} : pc'[q] = pc[q] /\ epoch'[q] = epoch[q]
  BY <1>2 DEF PathInv, TypeOK
<1>6. pc'[r] = "put" /\ epoch'[r] = c
  BY <1>2 DEF PathInv, TypeOK
<1>7. PendingIsCurrent'
  BY <1>2, <1>5, <1>6 DEF PathInv, PendingIsCurrent
<1>8. BufferIsCurrent'
  BY <1>2, <1>4, <1>5 DEF PathInv, BufferIsCurrent
<1>9. TakenWasPacked' /\ OnOwnSocket'
  BY <1>2, <1>3, <1>4, <1>5 DEF PathInv, TakenWasPacked, OnOwnSocket
<1>10. WriterControl'
  BY <1>2 DEF PathInv, WriterControl
<1>11. /\ \A w \in Sockets : IsInjective(Way(w)')
       /\ \A s \in Shards : IsInjective(buf'[s])
       /\ \A s \in Shards, w \in Sockets : ToSet(buf'[s]) \cap ToSet(Way(w)') = {}
       /\ \A v, w \in Sockets : v # w => ToSet(Way(v)') \cap ToSet(Way(w)') = {}
  BY <1>2, <1>3 DEF PathInv
<1> QED BY <1>1, <1>7, <1>8, <1>9, <1>10, <1>11 DEF PathInv

\* putFuture packs a request that nobody has packed, or one that is done it drops.
LEMMA PathPutFuture ==
    ASSUME PathInv, NEW r \in ReqIds, PutFuture(r)
    PROVE  PathInv'
<1> DEFINE s == ShardOf(r)
<1>1. TypeOK' /\ TypeOK
  BY TypeSender DEF PathInv, Sender
<1>2. /\ pc[r] = "put" /\ epoch' = epoch
      /\ c' = c /\ settled' = settled /\ cancelled' = cancelled /\ packet' = packet /\ wbuf' = wbuf
      /\ out' = out /\ wpc' = wpc /\ dials' = dials
  BY DEF PutFuture, netVars, writerVars
<1>3. \A w \in Sockets : Way(w)' = Way(w)
  BY <1>2 DEF Way
<1>4. /\ \A q \in ReqIds \ {r} : pc'[q] = pc[q]
      /\ pc'[r] \in {"announce", "returned"}
  BY DEF PutFuture, PathInv, TypeOK
<1>5. WriterControl' /\ OnOwnSocket'
  BY <1>2, <1>3 DEF PathInv, WriterControl, OnOwnSocket
<1>6. /\ \A t \in Shards : ToSet(buf[t]) \subseteq ReqIds \ {r}
      /\ \A w \in Sockets : ToSet(Way(w)) \subseteq ReqIds \ {r}
  BY <1>2, ToSetType, WayType DEF PathInv, TypeOK, BufferIsCurrent, TakenWasPacked
<1>7. PendingIsCurrent'
  BY <1>2, <1>4 DEF PathInv, PendingIsCurrent
<1>8. TakenWasPacked'
  BY <1>3, <1>4, <1>6 DEF PathInv, TakenWasPacked
<1>9. /\ \A w \in Sockets : IsInjective(Way(w)')
      /\ \A v, w \in Sockets : v # w => ToSet(Way(v)') \cap ToSet(Way(w)') = {}
  BY <1>3 DEF PathInv
<1>10. CASE r \in settled
  <2>1. buf' = buf
    BY <1>10 DEF PutFuture, AlreadyDone
  <2>2. BufferIsCurrent'
    BY <2>1, <1>2, <1>4, <1>6 DEF PathInv, BufferIsCurrent
  <2>3. /\ \A t \in Shards : IsInjective(buf'[t])
        /\ \A t \in Shards, w \in Sockets : ToSet(buf'[t]) \cap ToSet(Way(w)') = {}
    BY <2>1, <1>3 DEF PathInv
  <2> QED BY <1>1, <1>5, <1>7, <1>8, <1>9, <2>2, <2>3 DEF PathInv
<1>11. CASE r \notin settled
  <2>1. buf' = [buf EXCEPT ![s] = Append(buf[s], r)]
    BY <1>11 DEF PutFuture, AlreadyDone
  <2>2. s \in Shards /\ buf[s] \in Seq(ReqIds)
    BY <1>1, ShardOfType DEF TypeOK
  <2>3. /\ buf'[s] = Append(buf[s], r)
        /\ \A t \in Shards \ {s} : buf'[t] = buf[t]
    BY <1>1, <2>1, <2>2 DEF TypeOK
  <2>4. /\ ToSet(buf'[s]) = ToSet(buf[s]) \cup {r}
        /\ IsInjective(buf'[s])
    BY <1>6, <2>2, <2>3, AppendOnce DEF PathInv
  <2>5. r \in cancelled \/ (c # 0 /\ epoch[r] = c)
    BY <1>2, <1>11 DEF PathInv, PendingIsCurrent
  <2>6. BufferIsCurrent'
    <3> SUFFICES ASSUME NEW t \in Shards, NEW q \in ToSet(buf'[t])
                 PROVE  /\ pc'[q] \in {"announce", "returned"} /\ ShardOf(q) = t
                        /\ q \in cancelled' \/ (c' # 0 /\ epoch'[q] = c')
      BY DEF BufferIsCurrent
    <3>1. CASE q = r /\ t = s
      BY <3>1, <1>2, <1>4, <2>5
    <3>2. CASE q \in ToSet(buf[t])
      BY <3>2, <1>2, <1>4, <1>6 DEF PathInv, BufferIsCurrent
    <3> QED BY <2>3, <2>4, <3>1, <3>2
  <2>7. /\ \A t \in Shards : IsInjective(buf'[t])
        /\ \A t \in Shards, w \in Sockets : ToSet(buf'[t]) \cap ToSet(Way(w)') = {}
    <3>1. \A t \in Shards : IsInjective(buf'[t])
      BY <2>3, <2>4 DEF PathInv
    <3>2. ASSUME NEW t \in Shards, NEW w \in Sockets
          PROVE  ToSet(buf'[t]) \cap ToSet(Way(w)') = {}
      <4>1. ToSet(buf[t]) \cap ToSet(Way(w)) = {} /\ r \notin ToSet(Way(w))
        BY <1>6 DEF PathInv
      <4>2. ToSet(buf'[t]) \subseteq ToSet(buf[t]) \cup {r}
        BY <2>3, <2>4
      <4>3. Way(w)' = Way(w)
        BY <1>3
      <4> QED BY <4>1, <4>2, <4>3
    <3> QED BY <3>1, <3>2
  <2> QED BY <1>1, <1>5, <1>7, <1>8, <1>9, <2>6, <2>7 DEF PathInv
<1> QED BY <1>10, <1>11

\* The writer takes a whole buffer and leaves an empty one.
LEMMA PathSwap ==
    ASSUME PathInv, NEW w \in Sockets, Swap(w)
    PROVE  PathInv'
<1> DEFINE s == shardn[w]
<1>1. TypeOK' /\ TypeOK
  BY TypeWriter DEF PathInv, Writer
<1>2. /\ wpc[w] = "lock" /\ epoch' = epoch /\ pc' = pc /\ c' = c /\ settled' = settled
      /\ cancelled' = cancelled /\ wbuf' = wbuf /\ out' = out /\ dials' = dials
  BY DEF Swap, netVars, reqVars
<1>3. packet[w] = << >>
  BY <1>2 DEF PathInv, WriterControl
<1>4. CASE ~Current(w)
  <2>1. packet' = packet /\ buf' = buf /\ wpc' = [wpc EXCEPT ![w] = "putback"]
    BY <1>4 DEF Swap
  <2>2. WriterControl'
    BY <1>1, <1>2, <1>3, <2>1 DEF PathInv, WriterControl, TypeOK
  <2>3. \A v \in Sockets : Way(v)' = Way(v)
    BY <1>2, <2>1 DEF Way
  <2> QED BY <1>1, <1>2, <2>1, <2>2, <2>3, PathKept
<1>5. CASE Current(w)
  <2>1. /\ packet' = [packet EXCEPT ![w] = buf[s]]
        /\ buf' = [buf EXCEPT ![s] = packet[w]]
        /\ wpc' = [wpc EXCEPT ![w] = IF buf[s] = << >> THEN "top" ELSE "write"]
    BY <1>5 DEF Swap
  <2>2. s \in Shards /\ buf[s] \in Seq(ReqIds) /\ out[w] \in Seq(ReqIds) /\ wbuf[w] \in Seq(ReqIds)
    BY <1>1 DEF TypeOK
  <2>3. /\ packet'[w] = buf[s] /\ \A v \in Sockets \ {w} : packet'[v] = packet[v]
        /\ buf'[s] = << >> /\ \A t \in Shards \ {s} : buf'[t] = buf[t]
        /\ wpc'[w] = (IF buf[s] = << >> THEN "top" ELSE "write")
        /\ \A v \in Sockets \ {w} : wpc'[v] = wpc[v]
    BY <1>1, <1>3, <2>1, <2>2 DEF TypeOK
  <2>4. \A v \in Sockets \ {w} : Way(v)' = Way(v)
    BY <1>2, <2>3 DEF Way
  <2>5. Way(w)' = Way(w) \o buf[s]
    <3>1. out[w] \o wbuf[w] \in Seq(ReqIds)
      BY <2>2, ConcatProperties
    <3>2. Way(w) = out[w] \o wbuf[w]
      BY <1>3, <3>1, ConcatEmptySeq DEF Way
    <3> QED BY <1>2, <2>3, <3>2 DEF Way
  <2>6. /\ ToSet(Way(w)') = ToSet(Way(w)) \cup ToSet(buf[s])
        /\ IsInjective(Way(w)')
    BY <1>1, <2>2, <2>5, WayType, ConcatOnce DEF PathInv
  <2>7. ToSet(buf'[s]) = {} /\ IsInjective(buf'[s])
    BY <2>3, EmptyOnce
  <2>8. PendingIsCurrent'
    BY <1>2 DEF PathInv, PendingIsCurrent
  <2>9. BufferIsCurrent'
    BY <1>2, <2>3, <2>7 DEF PathInv, BufferIsCurrent
  <2>10. WriterControl'
    BY <1>2, <2>3 DEF PathInv, WriterControl
  <2>11. TakenWasPacked'
    BY <1>2, <2>2, <2>4, <2>6 DEF PathInv, TakenWasPacked, BufferIsCurrent
  <2>12. OnOwnSocket'
    <3>1. c = w
      BY <1>5 DEF Current
    <3>2. \A q \in ToSet(buf[s]) : epoch[q] = w \/ q \in cancelled
      BY <2>2, <3>1 DEF PathInv, BufferIsCurrent
    <3> QED BY <1>2, <2>4, <2>6, <3>2 DEF PathInv, OnOwnSocket
  <2>13. ASSUME NEW t \in Shards, NEW v \in Sockets
         PROVE  ToSet(buf'[t]) \cap ToSet(Way(v)') = {}
    <3>1. CASE t = s
      BY <3>1, <2>7
    <3>2. CASE t # s /\ v # w
      BY <3>2, <2>3, <2>4 DEF PathInv
    <3>3. CASE t # s /\ v = w
      <4>1. ToSet(buf[t]) \cap ToSet(buf[s]) = {}
        BY <2>2, <3>3 DEF PathInv, BufferIsCurrent
      <4>2. ToSet(buf[t]) \cap ToSet(Way(w)) = {}
        BY DEF PathInv
      <4> QED BY <2>3, <2>6, <3>3, <4>1, <4>2
    <3> QED BY <3>1, <3>2, <3>3
  <2>14. /\ \A v \in Sockets : IsInjective(Way(v)')
         /\ \A t \in Shards : IsInjective(buf'[t])
    BY <2>3, <2>4, <2>6, <2>7 DEF PathInv
  <2>15. ASSUME NEW u \in Sockets, NEW v \in Sockets, u # v
         PROVE  ToSet(Way(u)') \cap ToSet(Way(v)') = {}
    <3>1. /\ ToSet(Way(u)) \cap ToSet(Way(v)) = {} /\ ToSet(buf[s]) \cap ToSet(Way(u)) = {}
          /\ ToSet(buf[s]) \cap ToSet(Way(v)) = {}
      BY <2>2, <2>15 DEF PathInv
    <3> QED BY <2>4, <2>6, <2>15, <3>1
  <2> QED BY <1>1, <2>8, <2>9, <2>10, <2>11, <2>12, <2>13, <2>14, <2>15 DEF PathInv
<1> QED BY <1>4, <1>5

\* The other steps of a writer: flushing and writing move requests along the way.
LEMMA PathWriter ==
    ASSUME PathInv, NEW w \in Sockets, Writer(w)
    PROVE  PathInv'
<1>1. TypeOK' /\ TypeOK
  BY TypeWriter DEF PathInv
<1> DEFINE Kept == /\ buf' = buf /\ epoch' = epoch /\ pc' = pc /\ settled' = settled /\ c' = c
                   /\ cancelled' = cancelled /\ dials' = dials
<1>2. ASSUME Kept, WriterControl', \A v \in Sockets : Way(v)' = Way(v) PROVE PathInv'
  BY <1>1, <1>2, PathKept
<1>3. ASSUME packet' = packet, wbuf' = wbuf, out' = out PROVE \A v \in Sockets : Way(v)' = Way(v)
  BY <1>3 DEF Way
<1> USE DEF WriterOnly, Step, netVars, reqVars
<1>4. CASE Take(w) \/ Idle(w) \/ PutBack(w) \/ WriterEnds(w)
  <2>1. Kept /\ packet' = packet /\ wbuf' = wbuf /\ out' = out
    BY <1>4 DEF Take, Idle, PutBack, WriterEnds
  <2>2. WriterControl'
    BY <1>1, <1>4, <2>1 DEF PathInv, WriterControl, TypeOK, Sockets, Take, Idle, PutBack, WriterEnds
  <2> QED BY <1>2, <1>3, <2>1, <2>2
<1>5. CASE Swap(w)
  BY <1>5, PathSwap
<1>6. out[w] \in Seq(ReqIds) /\ wbuf[w] \in Seq(ReqIds) /\ packet[w] \in Seq(ReqIds)
  BY <1>1 DEF TypeOK
<1>7. out[w] \o wbuf[w] \in Seq(ReqIds) /\ wbuf[w] \o packet[w] \in Seq(ReqIds)
  BY <1>6, ConcatProperties
<1>8. CASE Flush(w)
  <2>1. Kept /\ packet' = packet
    BY <1>8 DEF Flush
  <2>2. WriterControl'
    BY <1>1, <1>8, <2>1 DEF PathInv, WriterControl, TypeOK, Flush
  <2>3. CASE out' = out /\ wbuf' = wbuf
    BY <1>2, <1>3, <2>1, <2>2, <2>3
  <2>4. CASE out' = [out EXCEPT ![w] = Flushed(w)] /\ wbuf' = [wbuf EXCEPT ![w] = << >>]
    <3>1. out'[w] = out[w] \o wbuf[w] /\ wbuf'[w] = << >>
      BY <1>1, <2>4 DEF TypeOK, Flushed
    <3>2. Way(w)' = Way(w)
      <4>1. (out[w] \o wbuf[w]) \o << >> = out[w] \o wbuf[w]
        BY <1>7, ConcatEmptySeq
      <4> QED BY <2>1, <3>1, <4>1 DEF Way
    <3>3. \A v \in Sockets \ {w} : Way(v)' = Way(v)
      BY <1>1, <2>1, <2>4 DEF Way, TypeOK
    <3> QED BY <1>2, <2>1, <2>2, <3>2, <3>3
  <2> QED BY <1>8, <2>3, <2>4 DEF Flush
<1>9. CASE Write(w)
  <2>1. Kept /\ out' = out
    BY <1>9 DEF Write
  <2>2. CASE /\ wpc[w] = "write" /\ wpc' = [wpc EXCEPT ![w] = "top"]
             /\ wbuf' = [wbuf EXCEPT ![w] = @ \o packet[w]]
             /\ packet' = [packet EXCEPT ![w] = ResetPacket(w)]
    <3>1. wbuf'[w] = wbuf[w] \o packet[w] /\ packet'[w] = << >>
      BY <1>1, <2>2 DEF TypeOK, ResetPacket
    <3>2. Way(w)' = Way(w)
      <4>1. out[w] \o (wbuf[w] \o packet[w]) \in Seq(ReqIds)
        BY <1>6, <1>7, ConcatProperties
      <4>2. (out[w] \o (wbuf[w] \o packet[w])) \o << >> = out[w] \o (wbuf[w] \o packet[w])
        BY <4>1, ConcatEmptySeq
      <4>3. (out[w] \o wbuf[w]) \o packet[w] = out[w] \o (wbuf[w] \o packet[w])
        BY <1>6, WriteOrder
      <4> QED BY <2>1, <3>1, <4>2, <4>3 DEF Way
    <3>3. \A v \in Sockets \ {w} : Way(v)' = Way(v)
      BY <1>1, <2>1, <2>2 DEF Way, TypeOK
    <3>4. WriterControl'
      BY <1>1, <2>1, <2>2, <3>1 DEF PathInv, WriterControl, TypeOK
    <3> QED BY <1>2, <2>1, <3>2, <3>3, <3>4
  <2>3. CASE /\ wpc[w] = "write" /\ wpc' = [wpc EXCEPT ![w] = "ended"]
             /\ wbuf' = wbuf /\ packet' = packet
    <3>1. WriterControl'
      BY <1>1, <2>1, <2>3 DEF PathInv, WriterControl, TypeOK
    <3> QED BY <1>2, <1>3, <2>1, <2>3, <3>1
  <2> QED BY <1>9, <2>2, <2>3 DEF Write
<1> QED BY <1>4, <1>5, <1>8, <1>9 DEF Writer

\* closeConnection ends all futures and throws away what the buffers hold.
LEMMA PathClose ==
    ASSUME PathInv, NEW forever \in BOOLEAN, CloseConnection(forever)
    PROVE  PathInv'
<1>1. TypeOK' /\ TypeOK
  BY TypeConnection DEF PathInv
<1>2. /\ epoch' = epoch /\ pc' = pc /\ wpc' = wpc /\ packet' = packet /\ wbuf' = wbuf
      /\ out' = out /\ c' = 0 /\ dials' = dials /\ settled' = settled \cup Listed
      /\ cancelled' = cancelled
      /\ \A s \in Shards : buf'[s] = << >>
  BY DEF CloseConnection, ResetBuffers, reqVars, writerVars
<1>3. \A w \in Sockets : Way(w)' = Way(w)
  BY <1>2 DEF Way
<1>4. \A s \in Shards : ToSet(buf'[s]) = {} /\ IsInjective(buf'[s])
  BY <1>2, EmptyOnce
<1>5. \A r \in ReqIds : pc[r] # "new" => epoch[r] # 0
  BY DEF PathInv, PendingIsCurrent
<1>6. PendingIsCurrent'
  BY <1>2, <1>5 DEF PendingIsCurrent, Listed
<1>7. BufferIsCurrent'
  BY <1>4 DEF BufferIsCurrent
<1>8. WriterControl' /\ TakenWasPacked' /\ OnOwnSocket'
  BY <1>2, <1>3 DEF PathInv, WriterControl, TakenWasPacked, OnOwnSocket
<1>9. /\ \A w \in Sockets : IsInjective(Way(w)')
      /\ \A v, w \in Sockets : v # w => ToSet(Way(v)') \cap ToSet(Way(w)') = {}
  BY <1>3 DEF PathInv
<1> QED BY <1>1, <1>4, <1>6, <1>7, <1>8, <1>9 DEF PathInv

\* Every step keeps the way of the requests.
LEMMA PathInductive == PathInv /\ [Next]_vars => PathInv'
<1> SUFFICES ASSUME PathInv, [Next]_vars PROVE PathInv'
  OBVIOUS
<1>1. ASSUME NEW r \in ReqIds, Register(r) \/ Sender(r) \/ End(r) \/ Cancel(r) \/ CancelSettle(r)
      PROVE  PathInv'
  <2>1. CASE Register(r)
    BY <2>1, PathRegister
  <2>2. CASE PutFuture(r)
    BY <2>2, PathPutFuture
  <2>3. CASE Announce(r)
    <3>1. TypeOK'
      BY <2>3, TypeSender DEF PathInv, Sender
    <3>2. /\ buf' = buf /\ epoch' = epoch /\ settled' = settled /\ c' = c /\ wpc' = wpc /\ dials' = dials
          /\ cancelled' = cancelled /\ packet' = packet /\ wbuf' = wbuf /\ out' = out
      BY <2>3 DEF Announce, netVars, writerVars
    <3>3. \A q \in ReqIds : pc'[q] = pc[q] \/ (pc[q] = "announce" /\ pc'[q] = "returned")
      BY <2>3 DEF Announce, PathInv, TypeOK
    <3>4. WriterControl' /\ \A w \in Sockets : Way(w)' = Way(w)
      BY <3>2 DEF PathInv, WriterControl, Way
    <3> QED BY <3>1, <3>2, <3>3, <3>4, PathKept
  <2>4. CASE End(r) \/ Cancel(r) \/ CancelSettle(r)
    <3>1. TypeOK'
      BY <2>4, TypeConnection DEF PathInv
    <3>2. /\ buf' = buf /\ epoch' = epoch /\ settled \subseteq settled' /\ c' = c /\ wpc' = wpc /\ dials' = dials
          /\ cancelled \subseteq cancelled' /\ packet' = packet /\ wbuf' = wbuf /\ out' = out /\ pc' = pc
      BY <2>4 DEF End, Cancel, CancelSettle, reqVars, writerVars
    <3>3. WriterControl' /\ \A w \in Sockets : Way(w)' = Way(w)
      BY <3>2 DEF PathInv, WriterControl, Way
    <3> QED BY <3>1, <3>2, <3>3, PathKept
  <2> QED BY <1>1, <2>1, <2>2, <2>3, <2>4 DEF Sender
<1>2. ASSUME NEW w \in Sockets, Writer(w) PROVE PathInv'
  BY <1>2, PathWriter
<1>3. CASE Break
  <2>1. TypeOK'
    BY <1>3, TypeConnection DEF PathInv
  <2>2. /\ buf' = buf /\ epoch' = epoch /\ settled' = settled /\ c' = c /\ wpc' = wpc /\ dials' = dials
        /\ cancelled' = cancelled /\ packet' = packet /\ wbuf' = wbuf /\ out' = out /\ pc' = pc
    BY <1>3 DEF Break, reqVars, writerVars
  <2>3. WriterControl' /\ \A w \in Sockets : Way(w)' = Way(w)
    BY <2>2 DEF PathInv, WriterControl, Way
  <2> QED BY <2>1, <2>2, <2>3, PathKept
<1>4. CASE Dial
  <2>1. TypeOK'
    BY <1>4, TypeConnection DEF PathInv
  <2>2. /\ buf' = buf /\ epoch' = epoch /\ settled' = settled /\ c = 0
        /\ cancelled' = cancelled /\ packet' = packet /\ wbuf' = wbuf /\ out' = out /\ pc' = pc
        /\ dials' = dials + 1 /\ dials + 1 \in Sockets /\ wpc' = [wpc EXCEPT ![dials + 1] = "top"]
    BY <1>4 DEF Dial, reqVars, PathInv, TypeOK, Sockets
  <2>3. dials \in Nat /\ dials + 1 > dials /\ \A w \in Sockets : w \in Nat
    BY DEF PathInv, TypeOK, Sockets
  <2>4. packet[dials + 1] = << >>
    BY <2>2, <2>3 DEF PathInv, WriterControl
  <2>6. WriterControl'
    <3> SUFFICES ASSUME NEW w \in Sockets
                 PROVE  /\ packet'[w] # << >> => wpc'[w] \in {"write", "ended"}
                        /\ w > dials' => wpc'[w] = "none"
      BY DEF WriterControl
    <3>1. CASE w = dials + 1
      BY <2>2, <2>3, <2>4, <3>1 DEF PathInv, TypeOK
    <3>2. CASE w # dials + 1
      <4>1. wpc'[w] = wpc[w] /\ (w > dials' => w > dials)
        BY <2>2, <2>3, <3>2 DEF PathInv, TypeOK
      <4> QED BY <2>2, <4>1 DEF PathInv, WriterControl
    <3> QED BY <3>1, <3>2
  <2>5. \A w \in Sockets : Way(w)' = Way(w)
    BY <2>2 DEF Way
  <2> QED BY <2>1, <2>2, <2>6, <2>5, PathKept
<1>5. ASSUME NEW forever \in BOOLEAN, CloseConnection(forever) PROVE PathInv'
  BY <1>5, PathClose
<1>6. CASE UNCHANGED vars
  <2>1. /\ buf' = buf /\ epoch' = epoch /\ settled' = settled /\ c' = c /\ wpc' = wpc /\ dials' = dials
        /\ cancelled' = cancelled /\ packet' = packet /\ wbuf' = wbuf /\ out' = out /\ pc' = pc
    BY <1>6 DEF vars, netVars, reqVars, writerVars
  <2>2. TypeOK'
    BY <1>6 DEF PathInv, TypeOK, vars, netVars, reqVars, writerVars
  <2>3. WriterControl' /\ \A w \in Sockets : Way(w)' = Way(w)
    BY <2>1 DEF PathInv, WriterControl, Way
  <2> QED BY <2>1, <2>2, <2>3, PathKept
<1> QED BY <1>1, <1>2, <1>3, <1>4, <1>5, <1>6 DEF Next

\* Every request that goes out does so once and on the socket for which newFuture
\* accepted it, unless its watchdog cancelled it before it was packed: old writers,
\* closeConnection and createConnection never make putFuture and the writers send
\* it again.
THEOREM SentOnceHolds == Spec => []SentOnce
<1>1. PathInv => SentOnce
  <2> SUFFICES ASSUME PathInv PROVE SentOnce
    OBVIOUS
  <2>1. \A s \in Shards : \A t \in Shards \ {s} : ToSet(buf[s]) \cap ToSet(buf[t]) = {}
    BY DEF PathInv, BufferIsCurrent
  <2>2. \A w \in Sockets : \A v \in Sockets \ {w} : ToSet(Way(v)) \cap ToSet(Way(w)) = {}
    BY DEF PathInv
  <2>3. /\ \A w \in Sockets : IsInjective(Way(w))
        /\ \A s \in Shards : IsInjective(buf[s])
        /\ \A s \in Shards, w \in Sockets : ToSet(buf[s]) \cap ToSet(Way(w)) = {}
    BY DEF PathInv
  <2>4. NeverTwice
    BY <2>1, <2>2, <2>3 DEF NeverTwice
  <2> QED BY <2>4 DEF PathInv, SentOnce
<1> QED BY <1>1, PathInit, PathInductive, PTL DEF Spec

-----------------------------------------------------------------------------
(* The announcements.                                                      *)

\* How many goroutines and places of the channel have shard s in hand.
Count(s) == Cardinality(Announced(s)) + Cardinality(Holders(s))

\* What the buffer of a shard needs, and what it may have at most.
ShardInv(s) ==
    /\ IsFiniteSet(Holders(s))
    /\ buf[s] # << >> => Count(s) >= 1
    /\ Count(s) <= resets[s] + (IF buf[s] = << >> THEN 0 ELSE 1)

TransportInv == PathInv /\ \A s \in Shards : ShardInv(s)

\* The places of a shard in the channel.
Places(q, s) == {i \in DOMAIN q : q[i] = s}

\* The places of a shard can be counted.
LEMMA PlacesFinite ==
    ASSUME NEW q \in Seq(Shards), NEW s
    PROVE  IsFiniteSet(Places(q, s)) /\ Cardinality(Places(q, s)) \in Nat
<1>1. Len(q) \in Nat /\ DOMAIN q = 1 .. Len(q)
  BY LenProperties
<1>2. IsFiniteSet(1 .. Len(q))
  BY <1>1, FS_Interval
<1>3. Places(q, s) \subseteq 1 .. Len(q)
  BY <1>1 DEF Places
<1>4. IsFiniteSet(Places(q, s))
  BY <1>2, <1>3, FS_Subset
<1> QED BY <1>4, FS_CardinalityType

\* Sending to the channel adds one place.
LEMMA PlacesAppend ==
    ASSUME NEW q \in Seq(Shards), NEW t \in Shards, NEW s \in Shards
    PROVE  Cardinality(Places(Append(q, t), s))
             = Cardinality(Places(q, s)) + (IF s = t THEN 1 ELSE 0)
<1> DEFINE p == Append(q, t)
           n == Len(q)
<1>1. /\ n \in Nat /\ DOMAIN q = 1 .. n /\ p \in Seq(Shards) /\ Len(p) = n + 1
      /\ p[n + 1] = t /\ \A i \in 1 .. n : p[i] = q[i]
  BY LenProperties, AppendProperties
<1>2. DOMAIN p = 1 .. n + 1
  BY <1>1, LenProperties
<1> HIDE DEF p, n
<1>3. n + 1 \notin Places(q, s)
  BY <1>1 DEF Places
<1>4. IsFiniteSet(Places(q, s)) /\ Cardinality(Places(q, s)) \in Nat
  BY PlacesFinite
<1>5. CASE s = t
  <2>1. Places(p, s) = Places(q, s) \cup {n + 1}
    BY <1>1, <1>2, <1>5 DEF Places
  <2>2. Cardinality(Places(p, s)) = Cardinality(Places(q, s)) + 1
    BY <1>3, <1>4, <2>1, FS_AddElement
  <2> QED BY <1>5, <2>2 DEF p
<1>6. CASE s # t
  <2>1. Places(p, s) = Places(q, s)
    BY <1>1, <1>2, <1>6 DEF Places
  <2> QED BY <1>4, <1>6, <2>1 DEF p
<1> QED BY <1>5, <1>6

\* Receiving from the channel takes the first place and moves the others up.
LEMMA PlacesTail ==
    ASSUME NEW q \in Seq(Shards), q # << >>, NEW s \in Shards
    PROVE  Cardinality(Places(q, s))
             = Cardinality(Places(Tail(q), s)) + (IF s = Head(q) THEN 1 ELSE 0)
<1> DEFINE p == Tail(q)
           n == Len(q)
           A == Places(q, s)
           B == Places(p, s)
           f == [i \in B |-> i + 1]
<1>1. /\ n \in Nat /\ DOMAIN q = 1 .. n /\ n # 0 /\ p \in Seq(Shards) /\ Len(p) = n - 1
      /\ \A i \in 1 .. n - 1 : p[i] = q[i + 1]
  BY LenProperties, HeadTailProperties, EmptySeq
<1>2. DOMAIN p = 1 .. n - 1 /\ Head(q) = q[1]
  BY <1>1, LenProperties, HeadTailProperties
<1> HIDE DEF p, n
<1>3. IsFiniteSet(A) /\ IsFiniteSet(B) /\ Cardinality(A) \in Nat /\ Cardinality(B) \in Nat
  BY <1>1, PlacesFinite
<1>4. \A i \in B : i \in 1 .. n - 1 /\ i + 1 \in 1 .. n /\ i + 1 # 1 /\ q[i + 1] = s
  BY <1>1, <1>2 DEF Places
<1>5. \A i \in B : i + 1 \in A \ {1}
  BY <1>1, <1>4 DEF Places
<1>6. \A j \in A \ {1} : j - 1 \in B /\ (j - 1) + 1 = j
  <2> TAKE j \in A \ {1}
  <2>1. j \in 1 .. n /\ j # 1 /\ q[j] = s
    BY <1>1 DEF Places
  <2>2. j - 1 \in 1 .. n - 1 /\ (j - 1) + 1 = j
    BY <1>1, <2>1
  <2> QED BY <1>1, <1>2, <2>1, <2>2 DEF Places
<1> HIDE DEF A, B
<1>7. f \in [B -> A \ {1}]
  BY <1>5
<1>8. \A i, j \in B : f[i] = f[j] => i = j
  BY <1>4
<1>9. \A j \in A \ {1} : \E i \in B : f[i] = j
  BY <1>6
<1>10. f \in Bijection(B, A \ {1})
  BY <1>7, <1>8, <1>9 DEF Bijection, Injection, Surjection, IsInjective
<1>11. Cardinality(A \ {1}) = Cardinality(B)
  <2>1. ExistsBijection(B, A \ {1})
    BY <1>10 DEF ExistsBijection
  <2> QED BY <1>3, <2>1, FS_Bijection
<1>12. CASE s = Head(q)
  <2>1. 1 \in A
    BY <1>1, <1>2, <1>12 DEF A, Places
  <2>2. Cardinality(A \ {1}) = Cardinality(A) - 1
    BY <1>3, <2>1, FS_RemoveElement
  <2>3. Cardinality(A) = Cardinality(B) + 1
    BY <1>3, <1>11, <2>2
  <2> QED BY <1>12, <2>3 DEF A, B, p
<1>13. CASE s # Head(q)
  <2>1. A \ {1} = A
    BY <1>2, <1>13 DEF A, Places
  <2>2. Cardinality(A) = Cardinality(B)
    BY <1>11, <2>1
  <2> QED BY <1>3, <1>13, <2>2 DEF A, B, p
<1> QED BY <1>12, <1>13

\* The counts are numbers.
LEMMA CountType ==
    ASSUME TypeOK, NEW s \in Shards, IsFiniteSet(Holders(s))
    PROVE  /\ Cardinality(Announced(s)) \in Nat /\ Cardinality(Holders(s)) \in Nat
           /\ IsFiniteSet(Announced(s)) /\ Announced(s) = Places(dirtyShard, s)
<1>1. Announced(s) = Places(dirtyShard, s)
  BY DEF Announced, Places
<1> QED BY <1>1, PlacesFinite, FS_CardinalityType DEF TypeOK

\* What the goroutines have in hand, written out.
LEMMA HoldersAre ==
    ASSUME NEW s
    PROVE  /\ \A x : x \in Holders(s) <=>
                \/ \E r \in ReqIds : x = <<"r", r>> /\ pc[r] = "announce" /\ ShardOf(r) = s
                \/ \E w \in Sockets : x = <<"w", w>> /\ wpc[w] \in {"lock", "putback"} /\ shardn[w] = s
           /\ \A x : x \in Holders(s)' <=>
                \/ \E r \in ReqIds : x = <<"r", r>> /\ pc'[r] = "announce" /\ ShardOf(r) = s
                \/ \E w \in Sockets : x = <<"w", w>> /\ wpc'[w] \in {"lock", "putback"} /\ shardn'[w] = s
  BY DEF Holders

\* Nobody takes shard s in hand or lets go of it.
LEMMA HoldersKept ==
    ASSUME NEW s, \A r \in ReqIds : (pc'[r] = "announce") <=> (pc[r] = "announce"),
           \A w \in Sockets :
               (wpc'[w] \in {"lock", "putback"} /\ shardn'[w] = s)
                 <=> (wpc[w] \in {"lock", "putback"} /\ shardn[w] = s)
    PROVE  Holders(s)' = Holders(s)
<1>1. {q \in ReqIds : pc'[q] = "announce" /\ ShardOf(q) = s}
        = {q \in ReqIds : pc[q] = "announce" /\ ShardOf(q) = s}
  OBVIOUS
<1>2. {v \in Sockets : wpc'[v] \in {"lock", "putback"} /\ shardn'[v] = s}
        = {v \in Sockets : wpc[v] \in {"lock", "putback"} /\ shardn[v] = s}
  OBVIOUS
<1>3. Holders(s)' = {<<"r", r>> : r \in {q \in ReqIds : pc'[q] = "announce" /\ ShardOf(q) = s}}
        \cup {<<"w", w>> : w \in {v \in Sockets : wpc'[v] \in {"lock", "putback"} /\ shardn'[v] = s}}
  BY DEF Holders
<1> QED BY <1>1, <1>2, <1>3, Zenon DEF Holders

\* A step that hands no shard over and neither fills nor empties a buffer.
LEMMA ShardKept ==
    ASSUME TypeOK, NEW s \in Shards, ShardInv(s), dirtyShard' = dirtyShard,
           resets' = resets, (buf'[s] = << >>) <=> (buf[s] = << >>),
           \A r \in ReqIds : (pc'[r] = "announce") <=> (pc[r] = "announce"),
           \A w \in Sockets :
               IF wpc[w] \in {"lock", "putback"}
               THEN wpc'[w] \in {"lock", "putback"} /\ shardn'[w] = shardn[w]
               ELSE wpc'[w] \notin {"lock", "putback"}
    PROVE  ShardInv(s)'
<1>1. Holders(s)' = Holders(s)
  <2>1. \A w \in Sockets :
            (wpc'[w] \in {"lock", "putback"} /\ shardn'[w] = s)
              <=> (wpc[w] \in {"lock", "putback"} /\ shardn[w] = s)
    OBVIOUS
  <2> QED BY <2>1, HoldersKept
<1>2. Announced(s)' = Announced(s)
  BY DEF Announced
<1>3. Count(s)' = Count(s)
  BY <1>1, <1>2 DEF Count
<1> QED BY <1>1, <1>3 DEF ShardInv

\* The sender that finds an empty buffer will announce it.
LEMMA ShardPutFuture ==
    ASSUME TransportInv, TypeOK', NEW r \in ReqIds, PutFuture(r), NEW s \in Shards
    PROVE  ShardInv(s)'
<1>1. TypeOK /\ ShardInv(s)
  BY DEF TransportInv, PathInv
<1>2. /\ pc[r] = "put" /\ wpc' = wpc /\ shardn' = shardn /\ dirtyShard' = dirtyShard
      /\ resets' = resets
  BY DEF PutFuture, netVars, writerVars
<1>3. CASE r \in settled \/ buf[ShardOf(r)] # << >>
  <2>1. pc' = [pc EXCEPT ![r] = "returned"]
    BY <1>3 DEF PutFuture, AlreadyDone, FirstWritten
  <2>2. \A q \in ReqIds : (pc'[q] = "announce") <=> (pc[q] = "announce")
    BY <1>1, <1>2, <2>1 DEF TypeOK
  <2>3. (buf'[s] = << >>) <=> (buf[s] = << >>)
    <3>1. CASE buf' = buf
      BY <3>1
    <3>2. CASE r \notin settled
      <4>1. buf' = [buf EXCEPT ![ShardOf(r)] = Append(buf[ShardOf(r)], r)]
        BY <3>2 DEF PutFuture, AlreadyDone
      <4>2. Append(buf[ShardOf(r)], r) # << >>
        BY <1>1, ShardOfType, AppendOnce DEF TypeOK
      <4> QED BY <1>1, <1>3, <3>2, <4>1, <4>2, ShardOfType DEF TypeOK
    <3> QED BY <3>1, <3>2 DEF PutFuture, AlreadyDone
  <2> QED BY <1>1, <1>2, <2>2, <2>3, ShardKept
<1>4. CASE r \notin settled /\ buf[ShardOf(r)] = << >>
  <2>1. /\ pc' = [pc EXCEPT ![r] = "announce"]
        /\ buf' = [buf EXCEPT ![ShardOf(r)] = Append(buf[ShardOf(r)], r)]
    BY <1>4 DEF PutFuture, AlreadyDone, FirstWritten
  <2>2. pc'[r] = "announce" /\ \A q \in ReqIds \ {r} : pc'[q] = pc[q]
    BY <1>1, <2>1 DEF TypeOK
  <2>3. Announced(s)' = Announced(s)
    BY <1>2 DEF Announced
  <2>4. CASE s = ShardOf(r)
    <3>1. Holders(s)' = Holders(s) \cup {<<"r", r>>} /\ <<"r", r>> \notin Holders(s)
      BY <1>2, <2>2, <2>4, HoldersAre
    <3>2. IsFiniteSet(Holders(s)') /\ Cardinality(Holders(s)') = Cardinality(Holders(s)) + 1
      BY <1>1, <3>1, FS_AddElement DEF ShardInv
    <3>3. buf'[s] # << >>
      BY <1>1, <2>1, <2>4, ShardOfType, AppendOnce DEF TypeOK
    <3>4. Cardinality(Announced(s)) \in Nat /\ Cardinality(Holders(s)) \in Nat
      BY <1>1, CountType DEF ShardInv
    <3>5. Count(s)' = Count(s) + 1 /\ Count(s) \in Nat
      BY <2>3, <3>2, <3>4 DEF Count
    <3>6. Count(s) <= resets[s] /\ resets[s] \in Nat
      BY <1>1, <1>4, <2>4 DEF ShardInv, TypeOK
    <3> QED BY <1>2, <3>2, <3>3, <3>5, <3>6 DEF ShardInv
  <2>5. CASE s # ShardOf(r)
    <3>1. Holders(s)' = Holders(s)
      BY <1>2, <2>2, <2>5, HoldersAre
    <3>2. Count(s)' = Count(s) /\ buf'[s] = buf[s]
      BY <1>1, <2>1, <2>3, <2>5, <3>1 DEF Count, TypeOK
    <3> QED BY <1>1, <1>2, <3>1, <3>2 DEF ShardInv
  <2> QED BY <2>4, <2>5
<1> QED BY <1>3, <1>4

\* A goroutine that puts the shard it has in hand into the channel.
LEMMA ShardSent ==
    ASSUME TypeOK, TypeOK', NEW s \in Shards, ShardInv(s), buf' = buf, resets' = resets,
           NEW t \in Shards, NEW x, dirtyShard' = Append(dirtyShard, t),
           x \in Holders(t), \A u \in Shards : u # t => x \notin Holders(u),
           Holders(s)' = Holders(s) \ {x}
    PROVE  ShardInv(s)'
<1>1. /\ Cardinality(Announced(s)) \in Nat /\ Cardinality(Holders(s)) \in Nat
      /\ Announced(s) = Places(dirtyShard, s) /\ IsFiniteSet(Holders(s))
  BY CountType DEF ShardInv
<1>2. IsFiniteSet(Holders(s)')
      /\ Cardinality(Holders(s)') = IF s = t THEN Cardinality(Holders(s)) - 1 ELSE Cardinality(Holders(s))
  BY <1>1, FS_RemoveElement
<1>3. Announced(s)' = Places(dirtyShard', s)
  BY DEF Announced, Places
<1>4. Cardinality(Announced(s)') = Cardinality(Announced(s)) + (IF s = t THEN 1 ELSE 0)
  <2>1. dirtyShard \in Seq(Shards)
    BY DEF TypeOK
  <2> QED BY <1>1, <1>3, <2>1, PlacesAppend
<1>5. Count(s)' = Count(s)
  BY <1>1, <1>2, <1>4 DEF Count
<1> QED BY <1>2, <1>5 DEF ShardInv

\* The writer that receives a shard from the channel has it in hand.
LEMMA ShardTake ==
    ASSUME TransportInv, TypeOK', NEW w \in Sockets, Take(w), NEW s \in Shards
    PROVE  ShardInv(s)'
<1>1. TypeOK /\ ShardInv(s)
  BY DEF TransportInv, PathInv
<1>2. /\ dirtyShard # << >> /\ wpc[w] \in {"top", "wait"} /\ wpc' = [wpc EXCEPT ![w] = "lock"]
      /\ shardn' = [shardn EXCEPT ![w] = Head(dirtyShard)] /\ dirtyShard' = Tail(dirtyShard)
      /\ pc' = pc /\ buf' = buf /\ resets' = resets
  BY DEF Take, Step, WriterOnly, netVars, reqVars
<1>3. /\ wpc'[w] = "lock" /\ shardn'[w] = Head(dirtyShard)
      /\ \A v \in Sockets \ {w} : wpc'[v] = wpc[v] /\ shardn'[v] = shardn[v]
  BY <1>1, <1>2 DEF TypeOK
<1>4. /\ Cardinality(Announced(s)) \in Nat /\ Cardinality(Holders(s)) \in Nat
      /\ Announced(s) = Places(dirtyShard, s) /\ IsFiniteSet(Holders(s))
  BY <1>1, CountType DEF ShardInv
<1>5. Announced(s)' = Places(Tail(dirtyShard), s)
  BY <1>2 DEF Announced, Places
<1>6. Cardinality(Announced(s)) = Cardinality(Announced(s)') + (IF s = Head(dirtyShard) THEN 1 ELSE 0)
  BY <1>1, <1>2, <1>4, <1>5, PlacesTail DEF TypeOK
<1>7. Cardinality(Announced(s)') \in Nat
  BY <1>2, <1>5, PlacesFinite DEF TypeOK
<1>8. CASE s = Head(dirtyShard)
  <2>1. Holders(s)' = Holders(s) \cup {<<"w", w>>} /\ <<"w", w>> \notin Holders(s)
    BY <1>2, <1>3, <1>8, HoldersAre
  <2>2. IsFiniteSet(Holders(s)') /\ Cardinality(Holders(s)') = Cardinality(Holders(s)) + 1
    BY <1>4, <2>1, FS_AddElement
  <2>3. Count(s)' = Count(s)
    BY <1>4, <1>6, <1>7, <1>8, <2>2 DEF Count
  <2> QED BY <1>1, <1>2, <2>2, <2>3 DEF ShardInv
<1>9. CASE s # Head(dirtyShard)
  <2>1. \A v \in Sockets :
            (wpc'[v] \in {"lock", "putback"} /\ shardn'[v] = s)
              <=> (wpc[v] \in {"lock", "putback"} /\ shardn[v] = s)
    BY <1>2, <1>3, <1>9
  <2>3. Holders(s)' = Holders(s)
    BY <1>2, <2>1, HoldersKept
  <2>2. Count(s)' = Count(s)
    BY <1>4, <1>6, <1>7, <1>9, <2>3 DEF Count
  <2> QED BY <1>1, <1>2, <1>4, <2>2, <2>3 DEF ShardInv
<1> QED BY <1>8, <1>9

\* The writer takes the buffer of its shard, or keeps the shard to put it back.
LEMMA ShardSwap ==
    ASSUME TransportInv, TypeOK', NEW w \in Sockets, Swap(w), NEW s \in Shards
    PROVE  ShardInv(s)'
<1>1. TypeOK /\ ShardInv(s)
  BY DEF TransportInv, PathInv
<1>2. /\ wpc[w] = "lock" /\ shardn' = shardn /\ dirtyShard' = dirtyShard /\ pc' = pc
      /\ resets' = resets
  BY DEF Swap, netVars, reqVars
<1>3. CASE ~Current(w)
  <2>1. buf' = buf /\ wpc' = [wpc EXCEPT ![w] = "putback"]
    BY <1>3 DEF Swap
  <2> QED BY <1>1, <1>2, <2>1, ShardKept DEF TypeOK
<1>4. CASE Current(w)
  <2>1. buf' = [buf EXCEPT ![shardn[w]] = packet[w]] /\ wpc'[w] \notin {"lock", "putback"}
    BY <1>1, <1>4 DEF Swap, TypeOK
  <2>2. \A v \in Sockets \ {w} : wpc'[v] = wpc[v]
    BY <1>1, <1>4 DEF Swap, TypeOK
  <2>3. packet[w] = << >>
    BY <1>2 DEF TransportInv, PathInv, WriterControl
  <2>4. Announced(s)' = Announced(s)
    BY <1>2 DEF Announced
  <2>5. CASE s = shardn[w]
    <3>1. Holders(s)' = Holders(s) \ {<<"w", w>>} /\ <<"w", w>> \in Holders(s)
      BY <1>2, <2>1, <2>2, <2>5, HoldersAre
    <3>2. IsFiniteSet(Holders(s)') /\ Cardinality(Holders(s)') = Cardinality(Holders(s)) - 1
      BY <1>1, <3>1, FS_RemoveElement DEF ShardInv
    <3>3. buf'[s] = << >>
      BY <1>1, <2>1, <2>3, <2>5 DEF TypeOK
    <3>4. Cardinality(Announced(s)) \in Nat /\ Cardinality(Holders(s)) \in Nat
      BY <1>1, CountType DEF ShardInv
    <3>5. Count(s)' = Count(s) - 1 /\ Count(s) \in Nat
      BY <2>4, <3>2, <3>4 DEF Count
    <3>6. resets[s] \in Nat
      BY <1>1 DEF TypeOK
    <3>7. Count(s) <= resets[s] + 1
      BY <1>1, <3>5, <3>6 DEF ShardInv
    <3> QED BY <1>2, <3>2, <3>3, <3>5, <3>6, <3>7 DEF ShardInv
  <2>6. CASE s # shardn[w]
    <3>1. Holders(s)' = Holders(s)
      BY <1>2, <2>1, <2>2, <2>6, HoldersAre
    <3>2. Count(s)' = Count(s) /\ buf'[s] = buf[s]
      BY <1>1, <2>1, <2>4, <2>6, <3>1 DEF Count, TypeOK
    <3> QED BY <1>1, <1>2, <3>1, <3>2 DEF ShardInv
  <2> QED BY <2>5, <2>6
<1> QED BY <1>3, <1>4

\* A step of a writer, seen from a shard.
LEMMA ShardWriter ==
    ASSUME TransportInv, TypeOK', NEW w \in Sockets, Writer(w), NEW s \in Shards
    PROVE  ShardInv(s)'
<1>1. TypeOK /\ ShardInv(s)
  BY DEF TransportInv, PathInv
<1>2. CASE Take(w)
  BY <1>2, ShardTake
<1>3. CASE Swap(w)
  BY <1>3, ShardSwap
<1>4. CASE Idle(w) \/ Flush(w) \/ Write(w) \/ WriterEnds(w)
  <2>1. /\ dirtyShard' = dirtyShard /\ resets' = resets /\ buf' = buf /\ pc' = pc
        /\ shardn' = shardn
    BY <1>4 DEF Idle, Flush, Write, WriterEnds, WriterOnly, netVars, reqVars
  <2>2. /\ wpc[w] \notin {"lock", "putback"} /\ wpc'[w] \notin {"lock", "putback"}
        /\ \A v \in Sockets \ {w} : wpc'[v] = wpc[v]
    BY <1>1, <1>4 DEF Idle, Flush, Write, WriterEnds, Step, TypeOK
  <2> QED BY <1>1, <2>1, <2>2, ShardKept
<1>5. CASE PutBack(w)
  <2>1. /\ wpc[w] = "putback" /\ wpc' = [wpc EXCEPT ![w] = "ended"]
        /\ dirtyShard' = Append(dirtyShard, shardn[w])
        /\ resets' = resets /\ buf' = buf /\ pc' = pc /\ shardn' = shardn
    BY <1>5 DEF PutBack, Step, WriterOnly, netVars, reqVars
  <2>2. wpc'[w] = "ended" /\ \A v \in Sockets \ {w} : wpc'[v] = wpc[v]
    BY <1>1, <2>1 DEF TypeOK
  <2>3. <<"w", w>> \in Holders(shardn[w]) /\ shardn[w] \in Shards
    BY <1>1, <2>1, HoldersAre DEF TypeOK
  <2>4. \A u \in Shards : u # shardn[w] => <<"w", w>> \notin Holders(u)
    BY HoldersAre
  <2>5. Holders(s)' = Holders(s) \ {<<"w", w>>}
    BY <2>1, <2>2, HoldersAre
  <2> QED BY <1>1, <2>1, <2>3, <2>4, <2>5, ShardSent
<1> QED BY <1>2, <1>3, <1>4, <1>5 DEF Writer

\* A lost connection empties the buffer, and its announcements stay.
LEMMA ShardClose ==
    ASSUME TransportInv, NEW forever \in BOOLEAN, CloseConnection(forever), NEW s \in Shards
    PROVE  ShardInv(s)'
<1>1. TypeOK /\ ShardInv(s)
  BY DEF TransportInv, PathInv
<1>2. /\ buf'[s] = << >> /\ resets'[s] = resets[s] + (IF buf[s] = << >> THEN 0 ELSE 1)
      /\ pc' = pc /\ wpc' = wpc /\ shardn' = shardn /\ dirtyShard' = dirtyShard
  BY DEF CloseConnection, ResetBuffers, reqVars, writerVars
<1>3. Holders(s)' = Holders(s) /\ Announced(s)' = Announced(s)
  BY <1>2 DEF Holders, Announced
<1>4. Count(s)' = Count(s)
  BY <1>3 DEF Count
<1>5. resets[s] \in Nat
  BY <1>1 DEF TypeOK
<1> QED BY <1>1, <1>2, <1>3, <1>4, <1>5 DEF ShardInv

\* Nothing is announced at first.
LEMMA TransportInit == Init => TransportInv
<1> SUFFICES ASSUME Init, NEW s \in Shards PROVE ShardInv(s)
  BY PathInit DEF TransportInv
<1>1. /\ pc = [r \in ReqIds |-> "new"] /\ dirtyShard = << >> /\ buf[s] = << >> /\ resets[s] = 0
      /\ \A w \in Sockets : wpc[w] \in {"top", "none"}
  BY DEF Init
<1>2. Holders(s) = {} /\ Announced(s) = {}
  BY <1>1 DEF Holders, Announced
<1>3. Count(s) = 0
  BY <1>2, FS_EmptySet DEF Count
<1> QED BY <1>1, <1>2, <1>3, FS_EmptySet DEF ShardInv

\* Every step keeps the announcements.
LEMMA TransportInductive == TransportInv /\ [Next]_vars => TransportInv'
<1> SUFFICES ASSUME TransportInv, [Next]_vars, NEW s \in Shards PROVE ShardInv(s)'
  BY PathInductive DEF TransportInv
<1>1. TypeOK /\ TypeOK' /\ ShardInv(s)
  BY PathInductive DEF TransportInv, PathInv
<1>2. ASSUME NEW r \in ReqIds, Register(r) PROVE ShardInv(s)'
  <2>1. /\ dirtyShard' = dirtyShard /\ resets' = resets /\ buf' = buf /\ shardn' = shardn
        /\ wpc' = wpc
    BY <1>2 DEF Register, netVars, writerVars
  <2>2. \A q \in ReqIds : (pc'[q] = "announce") <=> (pc[q] = "announce")
    BY <1>1, <1>2 DEF Register, TypeOK
  <2> QED BY <1>1, <2>1, <2>2, ShardKept
<1>3. ASSUME NEW r \in ReqIds, PutFuture(r) PROVE ShardInv(s)'
  BY <1>1, <1>3, ShardPutFuture
<1>4. ASSUME NEW r \in ReqIds, Announce(r) PROVE ShardInv(s)'
  <2>1. /\ pc[r] = "announce" /\ pc' = [pc EXCEPT ![r] = "returned"]
        /\ dirtyShard' = Append(dirtyShard, ShardOf(r))
        /\ resets' = resets /\ buf' = buf /\ wpc' = wpc /\ shardn' = shardn
    BY <1>4 DEF Announce, netVars, writerVars
  <2>2. pc'[r] = "returned" /\ \A q \in ReqIds \ {r} : pc'[q] = pc[q]
    BY <1>1, <2>1 DEF TypeOK
  <2>3. <<"r", r>> \in Holders(ShardOf(r)) /\ ShardOf(r) \in Shards
    BY <2>1, HoldersAre, ShardOfType
  <2>4. \A u \in Shards : u # ShardOf(r) => <<"r", r>> \notin Holders(u)
    BY HoldersAre
  <2>5. Holders(s)' = Holders(s) \ {<<"r", r>>}
    BY <2>1, <2>2, HoldersAre
  <2> QED BY <1>1, <2>1, <2>3, <2>4, <2>5, ShardSent
<1>5. ASSUME NEW w \in Sockets, Writer(w) PROVE ShardInv(s)'
  BY <1>1, <1>5, ShardWriter
<1>6. CASE Break \/ Dial \/ (\E r \in ReqIds : End(r) \/ Cancel(r) \/ CancelSettle(r))
             \/ UNCHANGED vars
  <2>1. /\ dirtyShard' = dirtyShard /\ resets' = resets /\ buf' = buf /\ shardn' = shardn
        /\ pc' = pc
    BY <1>6 DEF Break, Dial, End, Cancel, CancelSettle, vars, netVars, reqVars, writerVars
  <2>2. \A w \in Sockets : wpc'[w] = wpc[w] \/ (wpc[w] = "none" /\ wpc'[w] = "top")
    <3>1. CASE Dial
      <4>1. wpc' = [wpc EXCEPT ![dials + 1] = "top"] /\ dials + 1 \in Sockets /\ dials + 1 > dials
        BY <1>1, <3>1 DEF Dial, TypeOK, Sockets
      <4>2. wpc[dials + 1] = "none"
        BY <4>1 DEF TransportInv, PathInv, WriterControl
      <4> QED BY <1>1, <4>1, <4>2 DEF TypeOK
    <3>2. CASE wpc' = wpc
      BY <3>2
    <3> QED BY <1>6, <3>1, <3>2 DEF Break, End, Cancel, CancelSettle, vars, writerVars
  <2> QED BY <1>1, <2>1, <2>2, ShardKept
<1>7. ASSUME NEW forever \in BOOLEAN, CloseConnection(forever) PROVE ShardInv(s)'
  BY <1>7, ShardClose
<1> QED BY <1>2, <1>3, <1>4, <1>5, <1>6, <1>7 DEF Next, Sender

\* Whatever the senders, the writers of old and new sockets and closeConnection do,
\* a buffer with requests is in dirtyShard or in the hands of a goroutine, and a
\* shard is announced only once for what its buffer holds.
THEOREM ShardsAnnouncedHolds == Spec => []ShardsAnnounced
<1>1. TransportInv => ShardsAnnounced
  <2> SUFFICES ASSUME TransportInv, NEW s \in Shards
               PROVE  /\ buf[s] # << >> => Announced(s) # {} \/ Holders(s) # {}
                      /\ Cardinality(Announced(s)) + Cardinality(Holders(s))
                           <= resets[s] + (IF buf[s] = << >> THEN 0 ELSE 1)
    BY DEF ShardsAnnounced, BufferAnnounced, AnnouncementsBounded
  <2>1. TypeOK /\ ShardInv(s)
    BY DEF TransportInv, PathInv
  <2>2. ASSUME Announced(s) = {}, Holders(s) = {} PROVE Count(s) = 0
    BY <2>2, FS_EmptySet DEF Count
  <2>3. buf[s] # << >> => Announced(s) # {} \/ Holders(s) # {}
    BY <2>1, <2>2 DEF ShardInv
  <2> QED BY <2>1, <2>3 DEF ShardInv, Count
<1> QED BY <1>1, TransportInit, TransportInductive, PTL DEF Spec

=============================================================================
