--------------------------- MODULE MessageProofs ---------------------------
(***************************************************************************)
(* Theorems about Future, for every set of iterators, pushes and answers,  *)
(* and about Session, for every set of dial options, answers, schemas and  *)
(* values: what goes over a connection and what is told of it.             *)
(***************************************************************************)
EXTENDS Future, Session, TLAPS, SequenceTheorems, FiniteSetTheorems, WellFoundedInduction

USE MaxPushesAssumption

-----------------------------------------------------------------------------
(* Induction, and sequences that lack an element.                          *)

\* A set of natural numbers has a least element.
LEMMA LeastExists ==
    ASSUME NEW N \in SUBSET Nat, N # {}
    PROVE  \E i \in N : \A j \in N : i <= j
<1> DEFINE Less == {ss \in Nat \X Nat : ss[1] < ss[2]}
<1>1. IsWellFoundedOn(Less, Nat)
  BY NatLessThanWellFounded, Zenon DEF OpToRel
<1>2. PICK i \in N : \A j \in N : ~(<<j, i>> \in Less)
  BY <1>1, WFMin, Zenon
<1>3. ASSUME NEW j \in N PROVE i <= j
  <2>1. i \in Nat /\ j \in Nat /\ <<j, i>> \in Nat \X Nat /\ <<j, i>>[1] = j /\ <<j, i>>[2] = i
    OBVIOUS
  <2>2. ~(j < i)
    BY <1>2, <2>1
  <2> QED BY <2>1, <2>2
<1> QED BY <1>3

\* Induction over the natural numbers, for a set of them: from the library only
\* well-foundedness is needed.
LEMMA SetInduction ==
    ASSUME NEW P, 0 \in P, \A n \in Nat : n \in P => n + 1 \in P
    PROVE  \A n \in Nat : n \in P
<1> DEFINE N == Nat \ P
<1> SUFFICES ASSUME N # {} PROVE FALSE
  OBVIOUS
<1>1. N \in SUBSET Nat
  OBVIOUS
<1>2. PICK i \in N : \A j \in N : i <= j
  <2> HIDE DEF N
  <2> QED BY <1>1, LeastExists
<1>3. i \in Nat /\ i \notin P /\ i # 0
  BY <1>2
<1>4. i - 1 \in Nat /\ (i - 1) + 1 = i /\ ~(i <= i - 1)
  BY <1>3
<1>5. i - 1 \in P
  BY <1>2, <1>4
<1> QED BY <1>3, <1>4, <1>5

\* The concatenations that FlattenSeq builds, up to the m-th.
Flat(seqs, m, f) == f = [i \in 1 .. m |-> IF i = 1 THEN seqs[i] ELSE f[i - 1] \o seqs[i]]

\* They exist, by induction on m.
LEMMA FlatExists ==
    ASSUME NEW seqs PROVE \A m \in Nat : \E f : Flat(seqs, m, f)
<1> DEFINE P == {m \in Nat : \E f : Flat(seqs, m, f)}
<1>1. 0 \in P
  <2> DEFINE f == [i \in 1 .. 0 |-> seqs[i]]
  <2>1. f = [i \in 1 .. 0 |-> IF i = 1 THEN seqs[i] ELSE f[i - 1] \o seqs[i]]
    OBVIOUS
  <2> QED BY <2>1 DEF Flat
<1>2. ASSUME NEW m \in Nat, m \in P PROVE m + 1 \in P
  <2>1. PICK f : Flat(seqs, m, f)
    BY <1>2
  <2> DEFINE g == [i \in 1 .. m + 1 |-> IF i = 1 THEN seqs[i] ELSE f[i - 1] \o seqs[i]]
  <2>2. \A i \in 1 .. m : f[i] = IF i = 1 THEN seqs[i] ELSE f[i - 1] \o seqs[i]
    BY <2>1 DEF Flat
  <2>3. \A i \in 1 .. m : i \in 1 .. m + 1
    OBVIOUS
  <2>4. \A i \in 1 .. m : g[i] = f[i]
    BY <2>2, <2>3
  <2>5. ASSUME NEW i \in 1 .. m + 1
        PROVE  g[i] = IF i = 1 THEN seqs[i] ELSE g[i - 1] \o seqs[i]
    <3>1. CASE i = 1
      BY <3>1
    <3>2. CASE i # 1
      <4>1. i - 1 \in 1 .. m
        BY <3>2
      <4>2. g[i] = f[i - 1] \o seqs[i]
        BY <3>2
      <4> HIDE DEF g
      <4> QED BY <2>4, <3>2, <4>1, <4>2
    <3> QED BY <3>1, <3>2
  <2>6. g = [i \in 1 .. m + 1 |-> IF i = 1 THEN seqs[i] ELSE g[i - 1] \o seqs[i]]
    <3>1. g = [i \in 1 .. m + 1 |-> g[i]]
      OBVIOUS
    <3> HIDE DEF g
    <3> QED BY <2>5, <3>1
  <2> HIDE DEF g
  <2>7. Flat(seqs, m + 1, g)
    BY <2>6, Zenon DEF Flat
  <2> QED BY <2>7
<1> HIDE DEF P
<1>3. \A m \in Nat : m \in P
  BY <1>1, <1>2, SetInduction
<1> QED BY <1>3 DEF P

\* So FlattenSeq is the last of them.
LEMMA FlattenIsFlat ==
    ASSUME NEW seqs, Len(seqs) \in Nat, Len(seqs) # 0
    PROVE  \E f : Flat(seqs, Len(seqs), f) /\ FlattenSeq(seqs) = f[Len(seqs)]
<1> DEFINE f == CHOOSE f : f = [i \in 1 .. Len(seqs) |-> IF i = 1 THEN seqs[i] ELSE f[i - 1] \o seqs[i]]
<1>1. f = [i \in 1 .. Len(seqs) |-> IF i = 1 THEN seqs[i] ELSE f[i - 1] \o seqs[i]]
  BY FlatExists, Zenon DEF Flat
<1>2. FlattenSeq(seqs) = f[Len(seqs)]
  BY Zenon DEF FlattenSeq
<1> HIDE DEF f
<1> QED BY <1>1, <1>2 DEF Flat

\* Without(s, x): a sequence, none of whose elements is x.
Without(s, x) == s \in Seq(ToSet(s)) /\ x \notin ToSet(s)

\* A sequence over a set without x is without x.
LEMMA WithoutSeq ==
    ASSUME NEW T, NEW s \in Seq(T), NEW x, x \notin T PROVE Without(s, x)
<1>1. s \in Seq(ToSet(s))
  BY SeqOfRange DEF ToSet, Range
<1>2. ToSet(s) \subseteq T
  BY DEF ToSet
<1> QED BY <1>1, <1>2 DEF Without

\* And the other way round.
LEMMA WithoutElements ==
    ASSUME NEW s, NEW x, Without(s, x)
    PROVE  \E T : s \in Seq(T) /\ x \notin T
  BY DEF Without

\* Sequences without x stay so when they are concatenated,
LEMMA WithoutConcat ==
    ASSUME NEW x, NEW s, NEW t, Without(s, x), Without(t, x)
    PROVE  Without(s \o t, x)
<1> DEFINE T == ToSet(s) \cup ToSet(t)
<1>1. s \in Seq(T) /\ t \in Seq(T) /\ x \notin T
  BY SeqMonotonic DEF Without
<1> HIDE DEF T
<1>2. s \o t \in Seq(T)
  BY <1>1, ConcatProperties
<1> QED BY <1>1, <1>2, WithoutSeq

\* when they are written down,
LEMMA WithoutTuples ==
    ASSUME NEW x
    PROVE  /\ Without(<<>>, x)
           /\ \A a : a # x => Without(<<a>>, x)
           /\ \A a, b : a # x /\ b # x => Without(<<a, b>>, x)
           /\ \A a, b, c : a # x /\ b # x /\ c # x => Without(<<a, b, c>>, x)
<1>1. Without(<<>>, x)
  <2>1. ToSet(<<>>) = {}
    BY DEF ToSet
  <2>2. <<>> \in Seq(ToSet(<<>>))
    BY EmptySeq
  <2> QED BY <2>1, <2>2 DEF Without
<1>2. ASSUME NEW a, a # x PROVE Without(<<a>>, x)
  <2>1. <<a>> \in Seq({a}) /\ x \notin {a}
    BY <1>2
  <2> QED BY <2>1, WithoutSeq
<1>3. ASSUME NEW a, NEW b, a # x, b # x PROVE Without(<<a, b>>, x)
  <2>1. <<a, b>> \in Seq({a, b}) /\ x \notin {a, b}
    BY <1>3
  <2> QED BY <2>1, WithoutSeq
<1>4. ASSUME NEW a, NEW b, NEW c, a # x, b # x, c # x PROVE Without(<<a, b, c>>, x)
  <2>1. <<a, b, c>> \in Seq({a, b, c}) /\ x \notin {a, b, c}
    BY <1>4
  <2> QED BY <2>1, WithoutSeq
<1> QED BY <1>1, <1>2, <1>3, <1>4

\* when they are cut where the encoder stops,
LEMMA WithoutUpTo ==
    ASSUME NEW x, NEW s, NEW stops, Without(s, x)
    PROVE  Without(UpTo(s, stops), x)
<1> DEFINE at == {n \in DOMAIN s : s[n] \in stops}
<1>1. CASE at = {}
  BY <1>1 DEF UpTo
<1>2. CASE at # {}
  <2>1. s \in Seq(ToSet(s)) /\ x \notin ToSet(s) /\ Len(s) \in Nat /\ DOMAIN s = 1 .. Len(s)
    BY DEF Without
  <2>2. at \in SUBSET Nat
    BY <2>1
  <2>3. \E i \in at : \A j \in at : i <= j
    <3> HIDE DEF at
    <3> QED BY <1>2, <2>2, LeastExists
  <2>4. Min(at) \in at
    <3> HIDE DEF at
    <3> QED BY <2>3 DEF Min
  <2> DEFINE m == Min(at) - 1
  <2>5. m \in Int /\ m <= Len(s)
    BY <2>1, <2>4
  <2>6. UpTo(s, stops) = SubSeq(s, 1, m)
    BY <1>2 DEF UpTo
  <2> HIDE DEF m
  <2>7. \A i \in 1 .. m : s[i] \in ToSet(s)
    BY <2>1, <2>5 DEF ToSet
  <2>8. SubSeq(s, 1, m) \in Seq(ToSet(s))
    BY <2>5, <2>7, SubSeqProperties
  <2> QED BY <2>1, <2>6, <2>8, WithoutSeq
<1> QED BY <1>1, <1>2

\* and when many are concatenated.
LEMMA WithoutFlatten ==
    ASSUME NEW x, NEW n \in Nat, NEW seqs, seqs = [i \in 1 .. n |-> seqs[i]],
           \A i \in 1 .. n : Without(seqs[i], x)
    PROVE  Without(FlattenSeq(seqs), x)
<1>1. Len(seqs) = n /\ DOMAIN seqs = 1 .. n
  <2>1. seqs \in Seq({seqs[i] : i \in 1 .. n})
    OBVIOUS
  <2>2. DOMAIN seqs = 1 .. n
    OBVIOUS
  <2> QED BY <2>1, <2>2, LenProperties
<1>2. CASE n = 0
  <2>1. seqs = <<>>
    BY <1>1, <1>2
  <2>2. FlattenSeq(seqs) = <<>>
    BY <1>1, <1>2, <2>1 DEF FlattenSeq
  <2> QED BY <2>2, WithoutTuples
<1>3. CASE n # 0
  <2>1. PICK f : Flat(seqs, n, f) /\ FlattenSeq(seqs) = f[n]
    BY <1>1, <1>3, FlattenIsFlat
  <2>2. \A i \in 1 .. n : f[i] = IF i = 1 THEN seqs[i] ELSE f[i - 1] \o seqs[i]
    BY <2>1 DEF Flat
  <2> DEFINE P == {m \in Nat : m + 1 <= n => Without(f[m + 1], x)}
  <2>3. 0 \in P
    <3>1. 1 \in 1 .. n
      BY <1>3
    <3> QED BY <2>2, <3>1
  <2>4. ASSUME NEW m \in Nat, m \in P PROVE m + 1 \in P
    <3> SUFFICES ASSUME (m + 1) + 1 <= n PROVE Without(f[(m + 1) + 1], x)
      OBVIOUS
    <3>1. Without(f[m + 1], x)
      BY <2>4
    <3>2. m + 2 \in 1 .. n /\ m + 2 # 1 /\ (m + 2) - 1 = m + 1
      OBVIOUS
    <3>3. f[m + 2] = f[m + 1] \o seqs[m + 2] /\ Without(seqs[m + 2], x)
      BY <2>2, <3>2
    <3>4. Without(f[m + 2], x)
      BY <3>1, <3>3, WithoutConcat
    <3> QED BY <3>4
  <2> HIDE DEF P
  <2>5. \A m \in Nat : m \in P
    BY <2>3, <2>4, SetInduction
  <2>6. n - 1 \in Nat /\ (n - 1) + 1 = n
    BY <1>3
  <2>7. n - 1 \in P
    BY <2>5, <2>6
  <2> QED BY <2>1, <2>6, <2>7 DEF P
<1> QED BY <1>2, <1>3

\* FlattenSeq keeps the set the sequences are over.
LEMMA FlattenIn ==
    ASSUME NEW T, NEW n \in Nat, NEW seqs, seqs = [i \in 1 .. n |-> seqs[i]],
           \A i \in 1 .. n : seqs[i] \in Seq(T)
    PROVE  FlattenSeq(seqs) \in Seq(T)
<1>1. Len(seqs) = n /\ DOMAIN seqs = 1 .. n
  <2>1. seqs \in Seq({seqs[i] : i \in 1 .. n})
    OBVIOUS
  <2>2. DOMAIN seqs = 1 .. n
    OBVIOUS
  <2> QED BY <2>1, <2>2, LenProperties
<1>2. CASE n = 0
  <2>1. seqs = <<>>
    BY <1>1, <1>2
  <2>2. FlattenSeq(seqs) = <<>>
    BY <1>1, <1>2, <2>1 DEF FlattenSeq
  <2> QED BY <2>2
<1>3. CASE n # 0
  <2>1. PICK f : Flat(seqs, n, f) /\ FlattenSeq(seqs) = f[n]
    BY <1>1, <1>3, FlattenIsFlat
  <2>2. \A i \in 1 .. n : f[i] = IF i = 1 THEN seqs[i] ELSE f[i - 1] \o seqs[i]
    BY <2>1 DEF Flat
  <2> DEFINE P == {m \in Nat : m + 1 <= n => f[m + 1] \in Seq(T)}
  <2>3. 0 \in P
    <3>1. 1 \in 1 .. n
      BY <1>3
    <3> QED BY <2>2, <3>1
  <2>4. ASSUME NEW m \in Nat, m \in P PROVE m + 1 \in P
    <3> SUFFICES ASSUME (m + 1) + 1 <= n PROVE f[(m + 1) + 1] \in Seq(T)
      OBVIOUS
    <3>1. f[m + 1] \in Seq(T)
      BY <2>4
    <3>2. m + 2 \in 1 .. n /\ m + 2 # 1 /\ (m + 2) - 1 = m + 1
      OBVIOUS
    <3>3. f[m + 2] = f[m + 1] \o seqs[m + 2] /\ seqs[m + 2] \in Seq(T)
      BY <2>2, <3>2
    <3>4. f[m + 2] \in Seq(T)
      BY <3>1, <3>3, ConcatProperties
    <3> QED BY <3>4
  <2> HIDE DEF P
  <2>5. \A m \in Nat : m \in P
    BY <2>3, <2>4, SetInduction
  <2>6. n - 1 \in Nat /\ (n - 1) + 1 = n
    BY <1>3
  <2>7. n - 1 \in P
    BY <2>5, <2>6
  <2> QED BY <2>1, <2>6, <2>7 DEF P
<1> QED BY <1>2, <1>3

-----------------------------------------------------------------------------
(* Future: its iterators.                                                  *)

IteratorPCs == {"idle", "read", "wait", "decode"}
Iterators ==
    [pc : IteratorPCs, timed : BOOLEAN, resp : Int, err : {"none", "future", "body"},
     last : BOOLEAN, curPos : Nat, done : BOOLEAN]

\* Every variable but the bodies has its type.
TypeOK ==
    /\ pushes \in Seq(ToSet(pushes))
    /\ done \in BOOLEAN /\ err \in BOOLEAN /\ closed \in BOOLEAN
    /\ ready \in Nat
    /\ it \in [Iters -> Iterators]
    /\ yields \in [Iters -> Seq(Int)]

\* SetResponse and SetError close both channels, and one of them comes only.
SettledOnce ==
    /\ resp # Absent \/ err => done
    /\ done = closed
    /\ err => resp = Absent

\* What a record of an iterator says of the future.  k is the number of pushes.
Position(rec, k) ==
    /\ rec.curPos <= k
    /\ rec.done => resp # Absent /\ rec.curPos = k /\ rec.pc = "idle"
    /\ rec.pc = "wait" => rec.resp = NoResp /\ rec.err = "none"
    /\ rec.pc = "decode" =>
          \/ rec.resp = NoResp
          \/ rec.resp = rec.curPos + 1 /\ rec.curPos < k /\ ~rec.last
          \/ rec.resp = Final /\ rec.curPos = k /\ rec.last /\ resp # Absent
    /\ rec.err = "future" /\ (rec.pc = "decode" => rec.resp = NoResp) /\ rec.pc # "read"
          => err /\ rec.curPos = k

\* What an iterator has handed out: the pushes up to curPos, then the response.
Handed(rec, seq) ==
    /\ Len(seq) = rec.curPos + (IF rec.done THEN 1 ELSE 0)
    /\ \A n \in 1 .. rec.curPos : seq[n] = n
    /\ rec.done => seq[rec.curPos + 1] = Final

FutureInv ==
    /\ TypeOK /\ SettledOnce
    /\ \A i \in Iters : Position(it[i], Len(pushes)) /\ Handed(it[i], yields[i])

-----------------------------------------------------------------------------
(* Lemmas about the operators.                                             *)

\* A response that is there differs from one that is not.
LEMMA SomeIsThere == \A v : Some(v) # Absent
<1> SUFFICES ASSUME NEW v, Some(v) = Absent PROVE FALSE
  OBVIOUS
<1>1. Len(<<v>>) = 1 /\ Len(<<>>) = 0
  OBVIOUS
<1> QED BY <1>1 DEF Some, Absent

\* A pushed response makes the pushes one longer.
LEMMA AppendLonger ==
    ASSUME NEW s, s \in Seq(ToSet(s)), NEW e
    PROVE  Append(s, e) \in Seq(ToSet(Append(s, e))) /\ Len(Append(s, e)) = Len(s) + 1
<1> DEFINE All == ToSet(s) \cup {e}
           t == Append(s, e)
<1>1. s \in Seq(All) /\ e \in All
  BY SeqMonotonic
<1>2. t \in Seq(All) /\ Len(t) = Len(s) + 1
  BY <1>1, AppendProperties
<1>3. t \in Seq(ToSet(t))
  BY <1>2, SeqOfRange DEF ToSet, Range
<1> QED BY <1>2, <1>3

\* Decoding a push in place keeps the number of pushes.
LEMMA ExceptSameLength ==
    ASSUME NEW s, s \in Seq(ToSet(s)), NEW n \in 1 .. Len(s), NEW e
    PROVE  /\ [s EXCEPT ![n] = e] \in Seq(ToSet([s EXCEPT ![n] = e]))
           /\ Len([s EXCEPT ![n] = e]) = Len(s)
<1> DEFINE All == ToSet(s) \cup {e}
           t == [s EXCEPT ![n] = e]
<1>1. s \in Seq(All) /\ e \in All
  BY SeqMonotonic
<1>2. t \in Seq(All) /\ Len(t) = Len(s)
  BY <1>1, ExceptSeq
<1>3. \A u \in Seq(All) : u \in Seq(ToSet(u))
  BY SeqOfRange DEF ToSet, Range
<1> QED BY <1>2, <1>3

\* What Next does to an iterator: it is called, fails to decode, or hands out.
Called(rec, timed) == [rec EXCEPT !.timed = timed, !.resp = NoResp, !.pc = "read"]
Failed(rec) == [rec EXCEPT !.resp = NoResp, !.err = "body"]
HandsOut(rec) == [rec EXCEPT !.err = "none", !.done = rec.last,
                             !.curPos = IF rec.last THEN rec.curPos ELSE rec.curPos + 1]

\* They keep the iterator's type.
LEMMA IteratorTyping ==
    ASSUME NEW rec \in Iterators
    PROVE  /\ \A timed \in BOOLEAN : Called(rec, timed) \in Iterators
           /\ Failed(rec) \in Iterators
           /\ HandsOut(rec) \in Iterators
<1>0. NoResp \in Int
  BY DEF NoResp
<1>1. ASSUME NEW timed \in BOOLEAN PROVE Called(rec, timed) \in Iterators
  BY <1>0 DEF Called, Iterators, IteratorPCs
<1>2. Failed(rec) \in Iterators
  BY <1>0 DEF Failed, Iterators
<1>3. HandsOut(rec) \in Iterators
  <2>1. ASSUME NEW n \in Nat, NEW d \in BOOLEAN
        PROVE  [rec EXCEPT !.err = "none", !.done = d, !.curPos = n] \in Iterators
    BY DEF Iterators
  <2>2. rec.last \in BOOLEAN
    BY Zenon DEF Iterators
  <2>3. (IF rec.last THEN rec.curPos ELSE rec.curPos + 1) \in Nat
    BY DEF Iterators
  <2> QED BY <2>1, <2>2, <2>3 DEF HandsOut
<1> QED BY <1>1, <1>2, <1>3

\* Next leaves an iterator idle.
LEMMA ReturnedIdle ==
    ASSUME NEW rec \in Iterators
    PROVE  Returned(rec) \in Iterators /\ Returned(rec).pc = "idle"
BY DEF Returned, Iterators, IteratorPCs

-----------------------------------------------------------------------------
(* The invariant is inductive.                                             *)

\* A new future has no pushes and no iterator has read anything.
LEMMA InitInv == Init => FutureInv
<1> SUFFICES ASSUME Init PROVE FutureInv
  OBVIOUS
<1>1. pushes \in Seq(ToSet(pushes)) /\ Len(pushes) = 0
  BY EmptySeq DEF Init
<1>2. it \in [Iters -> Iterators]
  BY DEF Init, Iterators, IteratorPCs, NoResp
<1>3. yields \in [Iters -> Seq(Int)]
  BY EmptySeq DEF Init
<1>4. TypeOK
  BY <1>1, <1>2, <1>3 DEF Init, TypeOK
<1>5. SettledOnce
  BY DEF Init, SettledOnce
<1>6. ASSUME NEW i \in Iters PROVE Position(it[i], Len(pushes)) /\ Handed(it[i], yields[i])
  BY <1>1, <1>6 DEF Init, Position, Handed
<1> QED BY <1>4, <1>5, <1>6 DEF FutureInv

\* Filling the future leaves the iterators alone.
LEMMA FillKeepsInv ==
    ASSUME FutureInv, TypeOK', SettledOnce', it' = it, yields' = yields,
           Len(pushes) <= Len(pushes'), Len(pushes') \in Nat,
           resp # Absent \/ err => Len(pushes') = Len(pushes),
           resp # Absent => resp' # Absent, err => err'
    PROVE  FutureInv'
<1>1. ASSUME NEW i \in Iters PROVE Position(it[i], Len(pushes))'
  <2>1. Position(it[i], Len(pushes)) /\ it[i] \in Iterators /\ Len(pushes) \in Nat
    BY LenProperties DEF FutureInv, TypeOK
  <2> QED BY <2>1 DEF Position, Iterators
<1>2. ASSUME NEW i \in Iters PROVE Handed(it[i], yields[i])'
  BY DEF FutureInv, Handed
<1> QED BY <1>1, <1>2 DEF FutureInv

\* AppendPush, SetResponse, SetError and the decoding in place of Get.
LEMMA FillInv ==
    ASSUME FutureInv,
           \/ \E b \in PushBodies : AppendPush(b)
           \/ \E a \in Answers : SetResponse(a)
           \/ SetError \/ Get \/ GetTyped
    PROVE  FutureInv'
<1> TypeOK /\ SettledOnce
  BY DEF FutureInv
<1>l. Len(pushes) \in Nat
  BY LenProperties DEF TypeOK
<1>1. ASSUME NEW b \in PushBodies, AppendPush(b) PROVE FutureInv'
  <2>1. Len(pushes') = Len(pushes) + 1 /\ pushes' \in Seq(ToSet(pushes'))
    BY <1>1, AppendLonger DEF AppendPush, TypeOK
  <2>2. TypeOK'
    BY <1>1, <2>1 DEF AppendPush, TypeOK
  <2>3. SettledOnce' /\ ~err /\ resp = Absent
    BY <1>1 DEF AppendPush, SettledOnce
  <2> QED BY <1>1, <1>l, <2>1, <2>2, <2>3, FillKeepsInv DEF AppendPush
<1>2. ASSUME NEW a \in Answers, SetResponse(a) PROVE FutureInv'
  <2>1. TypeOK'
    BY <1>2 DEF SetResponse, CloseChannels, TypeOK
  <2>2. resp' # Absent /\ ~err /\ err' = err
    BY <1>2, SomeIsThere DEF SetResponse, SettledOnce
  <2>3. SettledOnce'
    BY <1>2, <2>2 DEF SetResponse, CloseChannels, SettledOnce
  <2> QED BY <1>2, <1>l, <2>1, <2>2, <2>3, FillKeepsInv DEF SetResponse
<1>3. CASE SetError
  <2>1. TypeOK'
    BY <1>3 DEF SetError, CloseChannels, TypeOK
  <2>2. SettledOnce'
    BY <1>3 DEF SetError, CloseChannels, SettledOnce
  <2> QED BY <1>3, <1>l, <2>1, <2>2, FillKeepsInv DEF SetError
<1>4. CASE Get \/ GetTyped
  <2>1. PICK how : GetResult(how)
    BY <1>4 DEF Get, GetTyped
  <2>2. (err /\ resp' = resp) \/ (~err /\ resp' # Absent)
    BY <2>1, SomeIsThere DEF GetResult
  <2>3. TypeOK'
    BY <2>1 DEF GetResult, TypeOK
  <2>4. SettledOnce'
    BY <2>1, <2>2 DEF GetResult, SettledOnce
  <2>5. resp # Absent => resp' # Absent
    BY <2>2
  <2> QED BY <2>1, <1>l, <2>3, <2>4, <2>5, FillKeepsInv DEF GetResult
<1> QED BY <1>1, <1>2, <1>3, <1>4

\* A step of one iterator, when what becomes of it fits the future.
LEMMA IteratorKeepsInv ==
    ASSUME FutureInv, NEW i \in Iters, NEW rec \in Iterators, NEW seq \in Seq(Int),
           it' = [it EXCEPT ![i] = rec], yields' = [yields EXCEPT ![i] = seq],
           pushes' \in Seq(ToSet(pushes')), Len(pushes') = Len(pushes),
           resp' = Absent <=> resp = Absent, err' = err, done' = done, closed' = closed,
           ready' \in Nat,
           Position(rec, Len(pushes)), Handed(rec, seq)
    PROVE  FutureInv'
<1> TypeOK /\ SettledOnce
  BY DEF FutureInv
<1>1. TypeOK' /\ SettledOnce'
  BY DEF TypeOK, SettledOnce
<1>2. ASSUME NEW j \in Iters PROVE Position(it[j], Len(pushes))'
  <2>1. Position(it'[j], Len(pushes))
    BY DEF FutureInv, TypeOK
  <2> QED BY <2>1 DEF Position
<1>3. ASSUME NEW j \in Iters PROVE Handed(it[j], yields[j])'
  <2>1. Handed(it'[j], yields'[j])
    BY DEF FutureInv, TypeOK
  <2> QED BY <2>1 DEF Handed
<1> QED BY <1>1, <1>2, <1>3 DEF FutureInv

\* Next before its critical section, Wake and the timeout.
LEMMA WaitingInv ==
    ASSUME FutureInv, NEW i \in Iters,
           (\E timed \in BOOLEAN : Call(i, timed)) \/ Wake(i) \/ Expire(i)
    PROVE  FutureInv'
<1> TypeOK /\ it[i] \in Iterators /\ yields[i] \in Seq(Int) /\ Len(pushes) \in Nat
  BY LenProperties DEF FutureInv, TypeOK
<1> Position(it[i], Len(pushes)) /\ Handed(it[i], yields[i])
  BY DEF FutureInv
<1>y. yields = [yields EXCEPT ![i] = yields[i]]
  BY DEF TypeOK
<1>1. ASSUME NEW timed \in BOOLEAN, Call(i, timed) PROVE FutureInv'
  <2> DEFINE rec == IF it[i].done \/ it[i].err # "none" THEN [it[i] EXCEPT !.resp = NoResp]
                    ELSE Called(it[i], timed)
  <2>a. [it[i] EXCEPT !.resp = NoResp] \in Iterators
    BY DEF Iterators, NoResp
  <2>1. rec \in Iterators
    BY <2>a, IteratorTyping
  <2>2. Position(rec, Len(pushes))
    BY <1>1 DEF Call, Called, Position, Iterators
  <2>3. Handed(rec, yields[i])
    BY DEF Called, Handed, Iterators
  <2>4. it' = [it EXCEPT ![i] = rec] /\ UNCHANGED <<futVars, yields>>
    BY <1>1 DEF Call, Called
  <2> HIDE DEF rec
  <2> QED BY <1>y, <2>1, <2>2, <2>3, <2>4, IteratorKeepsInv DEF futVars, TypeOK
<1>2. CASE Wake(i)
  <2> DEFINE rec == [it[i] EXCEPT !.pc = "read"]
  <2>1. rec \in Iterators
    BY DEF Iterators, IteratorPCs
  <2>2. Position(rec, Len(pushes))
    BY <1>2 DEF Wake, Position, Iterators
  <2>3. Handed(rec, yields[i])
    BY DEF Handed, Iterators
  <2>4. it' = [it EXCEPT ![i] = rec] /\ UNCHANGED <<pushes, resp, err, done, closed, yields>>
    BY <1>2 DEF Wake
  <2>5. ready' \in Nat
    BY <1>2 DEF Wake, TypeOK
  <2> HIDE DEF rec
  <2> QED BY <1>y, <2>1, <2>2, <2>3, <2>4, <2>5, IteratorKeepsInv DEF TypeOK
<1>3. CASE Expire(i)
  <2> DEFINE rec == [it[i] EXCEPT !.pc = "decode"]
  <2>1. rec \in Iterators
    BY DEF Iterators, IteratorPCs
  <2>2. Position(rec, Len(pushes))
    BY <1>3 DEF Expire, Position, Iterators
  <2>3. Handed(rec, yields[i])
    BY DEF Handed, Iterators
  <2>4. it' = [it EXCEPT ![i] = rec] /\ UNCHANGED <<futVars, yields>>
    BY <1>3 DEF Expire
  <2> HIDE DEF rec
  <2> QED BY <1>y, <2>1, <2>2, <2>3, <2>4, IteratorKeepsInv DEF futVars, TypeOK
<1> QED BY <1>1, <1>2, <1>3

\* The critical section of Next: the next push, or the response after the last.
LEMMA ReadInv ==
    ASSUME FutureInv, NEW i \in Iters, Read(i)
    PROVE  FutureInv'
<1> TypeOK /\ it[i] \in Iterators /\ yields[i] \in Seq(Int) /\ Len(pushes) \in Nat
  BY LenProperties DEF FutureInv, TypeOK
<1> Position(it[i], Len(pushes)) /\ Handed(it[i], yields[i]) /\ SettledOnce
  BY DEF FutureInv
<1>y. yields = [yields EXCEPT ![i] = yields[i]]
  BY DEF TypeOK
<1> DEFINE r == NextResponse(i)
           rec == [it[i] EXCEPT !.resp = r, !.last = (r = FutResp),
                                !.err = IF err THEN "future" ELSE "none",
                                !.pc = IF ~it[i].timed \/ r # NoResp \/ err
                                       THEN "decode" ELSE "wait"]
<1>1. /\ r = NoResp => it[i].curPos = Len(pushes) /\ resp = Absent
      /\ r # NoResp => \/ /\ r = it[i].curPos + 1 /\ it[i].curPos < Len(pushes)
                          /\ r # FutResp
                       \/ /\ r = Final /\ it[i].curPos = Len(pushes)
                          /\ r = FutResp /\ resp # Absent
      /\ r \in Int
  BY DEF NextResponse, FutResp, NoResp, Final, Position, Iterators
<1> HIDE DEF r
<1>2. rec \in Iterators
  BY <1>1 DEF Iterators, IteratorPCs, TypeOK
<1>3. it[i].pc = "read" /\ ~it[i].done
  BY DEF Read, Position
<1>4. Position(rec, Len(pushes))
  BY <1>1, <1>3 DEF Position, Iterators, NoResp, Final
<1>5. Handed(rec, yields[i])
  BY DEF Handed, Iterators
<1>6. it' = [it EXCEPT ![i] = rec] /\ UNCHANGED <<futVars, yields>>
  BY DEF Read, r, TypeOK
<1> HIDE DEF rec
<1> QED BY <1>y, <1>2, <1>4, <1>5, <1>6, IteratorKeepsInv DEF futVars, TypeOK

\* The rest of Next: what was read is decoded in place and handed out.
LEMMA DecodeInv ==
    ASSUME FutureInv, NEW i \in Iters, Decode(i)
    PROVE  FutureInv'
<1> TypeOK /\ it[i] \in Iterators /\ yields[i] \in Seq(Int) /\ Len(pushes) \in Nat
  BY LenProperties DEF FutureInv, TypeOK
<1> Position(it[i], Len(pushes)) /\ Handed(it[i], yields[i])
  BY DEF FutureInv
<1>y. yields = [yields EXCEPT ![i] = yields[i]]
  BY DEF TypeOK
<1> DEFINE r == it[i].resp
           decoded == DecodeBody(IF r = Final THEN The(resp) ELSE pushes[r])
           e == ErrAfterDecode(i, decoded)
<1>1. it[i].pc = "decode" /\ ~it[i].done /\ r \in Int
  BY DEF Decode, Position, Iterators
<1>2. CASE r = NoResp
  <2> DEFINE rec == Returned(it[i])
  <2>1. rec \in Iterators
    BY DEF Returned, Iterators, IteratorPCs
  <2>2. Position(rec, Len(pushes))
    BY <1>1, <1>2 DEF Returned, Position, Iterators
  <2>3. Handed(rec, yields[i])
    BY DEF Returned, Handed, Iterators
  <2>4. /\ it' = [it EXCEPT ![i] = rec] /\ UNCHANGED <<pushes, resp, yields>>
        /\ UNCHANGED <<err, done, ready, closed>>
    BY <1>2 DEF Decode
  <2> HIDE DEF rec
  <2> QED BY <1>y, <2>1, <2>2, <2>3, <2>4, IteratorKeepsInv DEF TypeOK
<1>3. CASE r # NoResp
  <2>1. \/ r = it[i].curPos + 1 /\ it[i].curPos < Len(pushes) /\ ~it[i].last
        \/ r = Final /\ it[i].curPos = Len(pushes) /\ it[i].last /\ resp # Absent
    BY <1>1, <1>3 DEF Position
  <2>2. /\ pushes' \in Seq(ToSet(pushes')) /\ Len(pushes') = Len(pushes)
        /\ resp' = Absent <=> resp = Absent
    <3>1. CASE r = Final
      BY <1>3, <2>1, <3>1, SomeIsThere DEF Decode, NoResp, Final, TypeOK, Iterators
    <3>2. CASE r # Final
      <4>1. r \in 1 .. Len(pushes)
        BY <2>1, <3>2 DEF Iterators
      <4>2. pushes' = [pushes EXCEPT ![r] = decoded] /\ resp' = resp
        BY <1>3, <3>2 DEF Decode
      <4> HIDE DEF r, decoded
      <4> QED BY <4>1, <4>2, ExceptSameLength DEF TypeOK
    <3> QED BY <3>1, <3>2
  <2>3. UNCHANGED <<err, done, ready, closed>>
    BY DEF Decode
  <2>4. CASE e # "none"
    <3> DEFINE rec == Returned(Failed(it[i]))
    <3>1. e = "body"
      BY <2>4 DEF ErrAfterDecode
    <3>2. it' = [it EXCEPT ![i] = rec] /\ yields' = yields
      BY <1>3, <2>4, <3>1 DEF Decode, Failed
    <3> HIDE DEF e
    <3>3. rec \in Iterators
      BY IteratorTyping, ReturnedIdle
    <3>4. Position(rec, Len(pushes))
      BY <1>1 DEF Returned, Failed, Position, Iterators
    <3>5. Handed(rec, yields[i])
      BY DEF Returned, Failed, Handed, Iterators
    <3> HIDE DEF rec
    <3> QED BY <1>y, <2>2, <2>3, <3>2, <3>3, <3>4, <3>5, IteratorKeepsInv DEF TypeOK
  <2>5. CASE e = "none"
    <3> DEFINE rec == Returned(HandsOut(it[i]))
               seq == Append(yields[i], r)
    <3>1. it' = [it EXCEPT ![i] = rec] /\ yields' = [yields EXCEPT ![i] = seq]
      <4>1. it' = [it EXCEPT ![i] = rec]
        BY <1>3, <2>5, Zenon DEF Decode, HandsOut
      <4>2. yields' = [yields EXCEPT ![i] = seq]
        BY <1>3, <2>5 DEF Decode
      <4> QED BY <4>1, <4>2
    <3>2. rec \in Iterators
      BY IteratorTyping, ReturnedIdle
    <3>3. Position(rec, Len(pushes))
      BY <1>1, <2>1 DEF Returned, HandsOut, Position, Iterators
    <3>4. /\ seq \in Seq(Int) /\ Len(seq) = Len(yields[i]) + 1
          /\ \A n \in 1 .. Len(yields[i]) : seq[n] = yields[i][n]
          /\ seq[Len(yields[i]) + 1] = r
      BY <1>1, AppendProperties
    <3>5. Handed(rec, seq)
      <4>1. Len(yields[i]) = it[i].curPos /\ \A n \in 1 .. it[i].curPos : yields[i][n] = n
        BY <1>1 DEF Handed, Iterators
      <4>c. it[i].curPos \in Nat
        BY DEF Iterators
      <4> HIDE DEF seq
      <4>2. CASE it[i].last
        <5>1. rec.done /\ rec.curPos = it[i].curPos /\ r = Final
          BY <2>1, <4>2 DEF Returned, HandsOut, Iterators
        <5> HIDE DEF rec, r
        <5> QED BY <3>4, <4>1, <4>c, <5>1 DEF Handed
      <4>3. CASE ~it[i].last
        <5>1. ~rec.done /\ rec.curPos = it[i].curPos + 1 /\ r = it[i].curPos + 1
          BY <2>1, <4>3 DEF Returned, HandsOut, Iterators
        <5> HIDE DEF rec, r
        <5>2. ASSUME NEW n \in 1 .. it[i].curPos + 1 PROVE seq[n] = n
          <6>1. CASE n = it[i].curPos + 1
            BY <3>4, <4>1, <5>1, <6>1
          <6>2. CASE n # it[i].curPos + 1
            <7>1. n \in 1 .. it[i].curPos
              BY <4>c, <6>2
            <7> QED BY <3>4, <4>1, <7>1
          <6> QED BY <6>1, <6>2
        <5> QED BY <3>4, <4>1, <4>c, <5>1, <5>2 DEF Handed
      <4> QED BY <4>2, <4>3
    <3> HIDE DEF rec, seq
    <3> QED BY <2>2, <2>3, <3>1, <3>2, <3>3, <3>4, <3>5, IteratorKeepsInv DEF TypeOK
  <2> QED BY <2>4, <2>5
<1> QED BY <1>2, <1>3

\* FutureInv is inductive.
LEMMA FutureInvariance == Spec => []FutureInv
<1>1. FutureInv /\ [Next]_vars => FutureInv'
  <2> SUFFICES ASSUME FutureInv, [Next]_vars PROVE FutureInv'
    OBVIOUS
  <2>1. CASE UNCHANGED vars
    BY <2>1 DEF FutureInv, TypeOK, SettledOnce, Position, Handed, vars, futVars
  <2>2. CASE Next
    BY <2>2, FillInv, WaitingInv, ReadInv, DecodeInv DEF Next
  <2> QED BY <2>1, <2>2
<1> QED BY <1>1, InitInv, PTL DEF Spec

-----------------------------------------------------------------------------
(* The theorems.                                                           *)

\* The pushes up to curPos, then the response, are a prefix of everything.
LEMMA HandedIsPrefix ==
    ASSUME FutureInv, NEW i \in Iters
    PROVE  IsPrefix(yields[i], Everything)
<1> DEFINE k == Len(pushes)
           nums == [n \in 1 .. k |-> n]
           tail == IF resp = Absent THEN <<>> ELSE <<Final>>
           y == yields[i]
<1>1. k \in Nat /\ it[i] \in Iterators /\ y \in Seq(Int)
  BY LenProperties DEF FutureInv, TypeOK
<1>2. Position(it[i], k) /\ Handed(it[i], y)
  BY DEF FutureInv
<1> HIDE DEF k, y
<1>3. nums \in Seq(Int) /\ Len(nums) = k
  BY <1>1
<1>4. tail \in Seq(Int) /\ Len(tail) = IF resp = Absent THEN 0 ELSE 1
  BY DEF Final
<1>5. resp # Absent => tail[1] = Final
  OBVIOUS
<1>6. \A n \in 1 .. k : nums[n] = n
  OBVIOUS
<1> HIDE DEF nums, tail
<1>7. /\ nums \o tail \in Seq(Int) /\ Len(nums \o tail) = k + Len(tail)
      /\ \A n \in 1 .. k + Len(tail) :
            (nums \o tail)[n] = IF n <= k THEN nums[n] ELSE tail[n - k]
  BY <1>3, <1>4, ConcatProperties
<1> DEFINE all == nums \o tail
<1> HIDE DEF all
<1>8. Len(y) <= Len(all)
  BY <1>1, <1>2, <1>4, <1>7 DEF Position, Handed, Iterators, all
<1>9. ASSUME NEW n \in 1 .. Len(y) PROVE y[n] = all[n]
  <2> DEFINE cur == it[i].curPos
  <2>1. cur \in Nat /\ cur <= k /\ \A m \in 1 .. cur : y[m] = m
    BY <1>1, <1>2 DEF Position, Handed, Iterators
  <2>2. CASE n <= cur
    <3>1. n \in 1 .. k /\ n \in 1 .. k + Len(tail)
      BY <1>1, <1>4, <2>1, <2>2
    <3>2. all[n] = nums[n] /\ nums[n] = n
      BY <1>6, <1>7, <3>1 DEF all
    <3> QED BY <2>1, <2>2, <3>2
  <2>3. CASE ~(n <= cur)
    <3>1. it[i].done /\ n = cur + 1 /\ cur = k /\ y[n] = Final /\ resp # Absent
      BY <1>1, <1>2, <1>9, <2>1, <2>3 DEF Position, Handed
    <3> HIDE DEF cur
    <3>a. n \in 1 .. k + Len(tail) /\ ~(n <= k) /\ n - k = 1
      BY <1>1, <1>4, <2>1, <3>1
    <3>2. all[n] = tail[1]
      BY <1>7, <3>a DEF all
    <3> QED BY <1>5, <3>1, <3>2
  <2> QED BY <2>2, <2>3
<1>10. SubSeq(y, 1, Len(y)) = SubSeq(all, 1, Len(y))
  <2>1. all \in Seq(Int) /\ Len(y) \in Nat /\ Len(all) \in Nat
    BY <1>1, <1>7, LenProperties DEF all
  <2> QED BY <1>1, <1>8, <1>9, <2>1
<1> QED BY <1>8, <1>10 DEF IsPrefix, Everything, all, nums, tail, k, y

\* However the pushes, the outcome, the timeouts and the other iterators
\* interleave, an iterator hands out the pushes in their order, each once, then
\* the response, and reports the error of the future only behind the last push.
THEOREM HandedOutInOrderHolds == Spec => []HandedOutInOrder
<1>1. FutureInv => HandedOutInOrder
  <2> SUFFICES ASSUME FutureInv PROVE HandedOutInOrder
    OBVIOUS
  <2>1. YieldsInOrder
    BY HandedIsPrefix DEF YieldsInOrder
  <2>2. ASSUME NEW i \in Iters, it[i].pc = "idle", it[i].err = "future"
        PROVE  Len(yields[i]) = Len(pushes)
    <3>1. it[i] \in Iterators /\ Len(pushes) \in Nat
      BY LenProperties DEF FutureInv, TypeOK
    <3>2. err /\ it[i].curPos = Len(pushes) /\ ~it[i].done
      BY <2>2 DEF FutureInv, Position, SettledOnce
    <3> QED BY <3>1, <3>2 DEF FutureInv, Handed, Iterators
  <2> QED BY <2>1, <2>2 DEF HandedOutInOrder, ErrorAfterPushes
<1> QED BY <1>1, FutureInvariance, PTL

\* While the future can still be filled and its channel is empty, somebody is
\* awake or has seen every push.
SomebodyUpToDate ==
    ~closed /\ ready = 0 =>
        \E i \in Iters : it[i].pc # "wait" \/ it[i].curPos = Len(pushes)

\* Whoever takes the last token looks at the future next.
LEMMA UpToDateStep ==
    ASSUME FutureInv, FutureInv', SomebodyUpToDate, [Next]_vars
    PROVE  SomebodyUpToDate'
<1> TypeOK
  BY DEF FutureInv
<1> USE DEF futVars
<1>w. ASSUME NEW i \in Iters, it'[i].pc # "wait" \/ it'[i].curPos = Len(pushes')
      PROVE  SomebodyUpToDate'
  BY <1>w DEF SomebodyUpToDate
<1>1. ASSUME NEW b \in PushBodies, AppendPush(b) PROVE SomebodyUpToDate'
  BY <1>1 DEF AppendPush, SomebodyUpToDate, TypeOK
<1>2. ASSUME (\E a \in Answers : SetResponse(a)) \/ SetError PROVE SomebodyUpToDate'
  BY <1>2 DEF SetResponse, SetError, CloseChannels, SomebodyUpToDate
<1>3. CASE Get \/ GetTyped \/ UNCHANGED vars
  BY <1>3 DEF Get, GetTyped, GetResult, vars, SomebodyUpToDate
<1>4. ASSUME NEW i \in Iters, NEW timed \in BOOLEAN, Call(i, timed) PROVE SomebodyUpToDate'
  <2>1. it'[i].pc # "wait"
    BY <1>4 DEF Call, TypeOK, Iterators
  <2> QED BY <1>w, <2>1
<1>5. ASSUME NEW i \in Iters, Wake(i) \/ Expire(i) PROVE SomebodyUpToDate'
  <2>1. it'[i].pc # "wait"
    BY <1>5 DEF Wake, Expire, TypeOK, Iterators
  <2> QED BY <1>w, <2>1
<1>6. ASSUME NEW i \in Iters, Decode(i) PROVE SomebodyUpToDate'
  <2>1. PICK rec \in Iterators : it' = [it EXCEPT ![i] = Returned(rec)]
    <3>1. it[i] \in Iterators
      BY DEF TypeOK
    <3>2. \/ it' = [it EXCEPT ![i] = Returned(it[i])]
          \/ it' = [it EXCEPT ![i] = Returned(Failed(it[i]))]
          \/ it' = [it EXCEPT ![i] = Returned(HandsOut(it[i]))]
      BY <1>6, Zenon DEF Decode, ErrAfterDecode, Failed, HandsOut
    <3> QED BY <3>1, <3>2, IteratorTyping
  <2>2. it'[i].pc # "wait"
    BY <2>1, ReturnedIdle DEF TypeOK
  <2> QED BY <1>w, <2>2
<1>7. ASSUME NEW i \in Iters, Read(i) PROVE SomebodyUpToDate'
  <2>1. CASE it'[i].pc # "wait"
    BY <1>w, <2>1
  <2>2. CASE it'[i].pc = "wait"
    <3>1. NextResponse(i) = NoResp
      BY <1>7, <2>2 DEF Read, TypeOK, Iterators
    <3>2. it[i].curPos = Len(pushes)
      BY <3>1, LenProperties
         DEF NextResponse, NoResp, FutureInv, Position, TypeOK, Iterators
    <3>3. it'[i].curPos = it[i].curPos /\ pushes' = pushes
      BY <1>7 DEF Read, TypeOK, Iterators
    <3> QED BY <1>w, <3>2, <3>3
  <2> QED BY <2>1, <2>2
<1> QED BY <1>1, <1>2, <1>3, <1>4, <1>5, <1>6, <1>7 DEF Next

\* No push is left to the timers: when all iterators wait on an open channel
\* without a token, one of them has seen everything there is.
THEOREM SomeoneSeesAllHolds == Spec => []SomeoneSeesAll
<1>1. Init => SomebodyUpToDate
  <2> SUFFICES ASSUME Init PROVE SomebodyUpToDate
    OBVIOUS
  <2>1. PICK i \in Iters : TRUE
    BY ItersAssumption
  <2>2. it[i].pc # "wait"
    BY <2>1 DEF Init
  <2> QED BY <2>2 DEF SomebodyUpToDate
<1>2. FutureInv /\ FutureInv' /\ SomebodyUpToDate /\ [Next]_vars => SomebodyUpToDate'
  BY UpToDateStep
<1>3. FutureInv /\ SomebodyUpToDate => SomeoneSeesAll
  <2> SUFFICES ASSUME FutureInv, SomebodyUpToDate, \A i \in Iters : it[i].pc = "wait",
                      ~closed, ~(ready > 0)
               PROVE  \E i \in Iters : NextResponse(i) = NoResp /\ ~err
    BY DEF SomeoneSeesAll
  <2>1. ready = 0
    BY DEF FutureInv, TypeOK
  <2>2. PICK i \in Iters : it[i].curPos = Len(pushes)
    BY <2>1 DEF SomebodyUpToDate
  <2>3. resp = Absent /\ ~err
    BY DEF FutureInv, SettledOnce
  <2>4. NextResponse(i) = NoResp
    BY <2>2, <2>3, LenProperties DEF NextResponse, FutResp, FutureInv, TypeOK
  <2> QED BY <2>3, <2>4
<1> QED BY <1>1, <1>2, <1>3, FutureInvariance, PTL DEF Spec

-----------------------------------------------------------------------------
(* BoxError.                                                               *)

\* Six keys are always encoded, a seventh for the additional fields.
LEMMA ErrorKeysCount ==
    /\ Cardinality(ErrorKeys) = 6
    /\ Cardinality(ErrorKeys \cup {"Fields"}) = 7
<1> DEFINE A == {"Type"} \cup {"File"}
           Base == A \cup {"Line"}
           C == Base \cup {"Message"}
           D == C \cup {"Errno"}
           E == D \cup {"Errcode"}
<1>1. IsFiniteSet(A) /\ Cardinality(A) = 2
  <2>1. IsFiniteSet({"Type"}) /\ Cardinality({"Type"}) = 1
    BY FS_Singleton
  <2> QED BY <2>1, FS_AddElement
<1>2. /\ "Line" \notin A /\ "Message" \notin Base /\ "Errno" \notin C
      /\ "Errcode" \notin D /\ "Fields" \notin E
  OBVIOUS
<1>3. E = ErrorKeys
  BY DEF ErrorKeys
<1> HIDE DEF A
<1>4. IsFiniteSet(Base) /\ Cardinality(Base) = 3
  BY <1>1, <1>2, FS_AddElement
<1> HIDE DEF Base
<1>5. IsFiniteSet(C) /\ Cardinality(C) = 4
  BY <1>2, <1>4, FS_AddElement
<1> HIDE DEF C
<1>6. IsFiniteSet(D) /\ Cardinality(D) = 5
  BY <1>2, <1>5, FS_AddElement
<1> HIDE DEF D
<1>7. IsFiniteSet(E) /\ Cardinality(E) = 6
  BY <1>2, <1>6, FS_AddElement
<1> HIDE DEF E
<1>8. Cardinality(E \cup {"Fields"}) = 7
  <2>1. "Fields" \notin E
    BY <1>2
  <2> QED BY <1>7, <2>1, FS_AddElement
<1> QED BY <1>3, <1>7, <1>8

\* decodeBoxError reads back every stack that encodeBoxError writes, of any depth,
\* with and without additional fields: the length of each map is the number of the
\* pairs that follow it.
THEOREM BoxErrorRoundTrip ==
    ASSUME NEW V, NEW stack \in Seq([ErrorKeys \cup {"Fields"} -> V]), stack # <<>>
    PROVE  DecodeBoxError(EncodeBoxError(stack)) = Some(stack)
<1> DEFINE wire == EncodeBoxError(stack)
           Keys(e) == ErrorKeys \cup (IF e.Fields = <<>> THEN {} ELSE {"Fields"})
<1>1. /\ DOMAIN wire = DOMAIN stack
      /\ \A i \in DOMAIN stack :
            /\ wire[i].len = ErrorMapLen(stack[i])
            /\ DOMAIN wire[i].map = Keys(stack[i])
            /\ \A k \in Keys(stack[i]) : wire[i].map[k] = stack[i][k]
  BY DEF EncodeBoxError
<1>2. DOMAIN stack = 1 .. Len(stack) /\ Len(stack) \in Nat /\ Len(stack) # 0
  BY EmptySeq
<1>3. ASSUME NEW i \in DOMAIN stack PROVE wire[i].len = Cardinality(DOMAIN wire[i].map)
  <2>1. CASE stack[i].Fields = <<>>
    <3>1. Keys(stack[i]) = ErrorKeys
      BY <2>1
    <3> QED BY <1>1, <2>1, <3>1, ErrorKeysCount DEF ErrorMapLen
  <2>2. CASE stack[i].Fields # <<>>
    <3>1. Keys(stack[i]) = ErrorKeys \cup {"Fields"}
      BY <2>2
    <3> QED BY <1>1, <2>2, <3>1, ErrorKeysCount DEF ErrorMapLen
  <2> QED BY <2>1, <2>2
<1> HIDE DEF wire
<1>4. wire # <<>>
  <2>1. 1 \in DOMAIN wire /\ DOMAIN <<>> = {}
    BY <1>1, <1>2
  <2> QED BY <2>1
<1>5. ~\E m \in ToSet(wire) : m.len # Cardinality(DOMAIN m.map)
  BY <1>1, <1>3 DEF ToSet
<1> DEFINE read == [i \in DOMAIN wire |->
                      [k \in ErrorKeys \cup {"Fields"} |->
                        IF k \in DOMAIN wire[i].map THEN wire[i].map[k] ELSE <<>>]]
<1>6. DecodeBoxError(wire) = Some(read)
  BY <1>4, <1>5 DEF DecodeBoxError
<1>7. ASSUME NEW i \in DOMAIN stack PROVE read[i] = stack[i]
  <2>1. stack[i] \in [ErrorKeys \cup {"Fields"} -> V]
    BY <1>2, ElementOfSeq
  <2>2. read[i] = [k \in ErrorKeys \cup {"Fields"} |->
                     IF k \in Keys(stack[i]) THEN wire[i].map[k] ELSE <<>>]
    BY <1>1
  <2>3. ASSUME NEW k \in ErrorKeys \cup {"Fields"}
        PROVE  (IF k \in Keys(stack[i]) THEN wire[i].map[k] ELSE <<>>) = stack[i][k]
    <3>1. CASE k \in Keys(stack[i])
      BY <1>1, <3>1
    <3>2. CASE k \notin Keys(stack[i])
      BY <3>2
    <3> QED BY <3>1, <3>2
  <2>4. stack[i] = [k \in ErrorKeys \cup {"Fields"} |-> stack[i][k]]
    BY <2>1
  <2> QED BY <2>2, <2>3, <2>4
<1>8. read = stack
  <2>1. stack = [i \in DOMAIN stack |-> stack[i]]
    BY SeqDef
  <2>2. read = [i \in DOMAIN stack |-> read[i]]
    BY <1>1
  <2> QED BY <1>7, <2>1, <2>2
<1> QED BY <1>6, <1>8 DEF wire

-----------------------------------------------------------------------------
(* Future: the effects of pairs.                                           *)

\* A function with the keys of K, and one of its values changed.
HasKeys(r, K) == r = [k \in K |-> r[k]]

\* An assignment changes the value of its key and no other.
LEMMA AssignedKeys ==
    ASSUME NEW K, NEW r, HasKeys(r, K), NEW field \in K, NEW v
    PROVE  LET q == Assigned(r, field, v)
           IN HasKeys(q, K) /\ q[field] = v /\ \A k \in K : k # field => q[k] = r[k]
<1> DEFINE q == Assigned(r, field, v)
<1>1. q = [k \in K |-> IF k = field THEN v ELSE r[k]]
  BY DEF HasKeys, Assigned
<1> HIDE DEF q
<1>2. q[field] = v /\ \A k \in K : k # field => q[k] = r[k]
  BY <1>1
<1>3. HasKeys(q, K)
  BY <1>1 DEF HasKeys
<1> QED BY <1>2, <1>3 DEF q

\* The fields of a response, the local variables, and the states of the loop.
RespKeys == {"code", "body", "Error", "Data", "MetaData", "SQLInfo", "Pos", "err"}
LocalKeys == {"stmtID", "bindCount", "Version", "Features", "Auth", "extended"}
IsState(st) == HasKeys(st.resp, RespKeys) /\ HasKeys(st.locals, LocalKeys)

\* What an effect may be.
IsEffect(e) ==
    \/ e.does \in {"skip", "fail"}
    \/ e.does = "put" /\ e.field \in {"Error", "Data", "MetaData", "SQLInfo", "Pos"}
    \/ e.does = "hold" /\ e.field \in LocalKeys

\* The effect of the error message in the old form.
Tells(e) == e.does = "put" /\ e.field = "Error"

\* An effect on the data, and what it leaves there.
OnData(e) == (e.does = "put" /\ e.field = "Data") \/ (e.does = "fail" /\ e.why = "not array")
DataBy(e) == IF e.does = "put" THEN e.val ELSE Absent

\* Put, Hold and Fail, by their fields.
LEMMA PutEffect ==
    ASSUME NEW field, NEW opt
    PROVE  \/ opt = Absent /\ Put(field, opt) = Fail("decode")
           \/ /\ opt # Absent /\ Put(field, opt).does = "put"
              /\ Put(field, opt).field = field /\ Put(field, opt).val = opt
  BY DEF Put

\* Hold assigns a local variable, or fails.
LEMMA HoldEffect ==
    ASSUME NEW field, NEW opt
    PROVE  \/ opt = Absent /\ Hold(field, opt) = Fail("decode")
           \/ /\ opt # Absent /\ Hold(field, opt).does = "hold"
              /\ Hold(field, opt).field = field /\ Hold(field, opt).val = The(opt)
  BY DEF Hold

\* Fail says why.
LEMMA FailEffect ==
    ASSUME NEW why PROVE Fail(why).does = "fail" /\ Fail(why).why = why
  BY DEF Fail

\* None of them is on the data, unless it says so.
LEMMA OffData ==
    ASSUME NEW field, NEW opt
    PROVE  ~OnData(Hold(field, opt)) /\ (field # "Data" => ~OnData(Put(field, opt)))
<1>1. ~OnData(Fail("decode"))
  <2>1. Fail("decode").does = "fail" /\ Fail("decode").why = "decode"
    BY FailEffect
  <2> QED BY <2>1 DEF OnData
<1>2. ~OnData(Hold(field, opt))
  <2>1. Hold(field, opt) = Fail("decode") \/ Hold(field, opt).does = "hold"
    BY HoldEffect
  <2> QED BY <1>1, <2>1 DEF OnData
<1>3. field # "Data" => ~OnData(Put(field, opt))
  <2>1. \/ Put(field, opt) = Fail("decode")
        \/ Put(field, opt).does = "put" /\ Put(field, opt).field = field
    BY PutEffect
  <2> QED BY <1>1, <2>1 DEF OnData
<1> QED BY <1>2, <1>3

\* The metadata is put in its place, or the loop ends.
LEMMA MetaDataEffect ==
    ASSUME NEW opt
    PROVE  \/ DecodeMetaData(opt) = Put("MetaData", opt)
           \/ \E why \in {"decode", "panic"} : DecodeMetaData(opt) = Fail(why)
<1> DEFINE faults == MetaFaults(The(opt))
           bad == {n \in DOMAIN faults : faults[n] # "none"}
           panics == \E n \in bad : faults[n] = "panic" /\ \A m \in bad : n <= m
           why == IF panics THEN "panic" ELSE "decode"
<1>1. DecodeMetaData(opt) = IF opt = Absent THEN Fail("decode")
                            ELSE IF bad = {} THEN Put("MetaData", opt) ELSE Fail(why)
  BY Zenon DEF DecodeMetaData
<1>2. why \in {"decode", "panic"}
  <2> HIDE DEF panics
  <2> QED OBVIOUS
<1> HIDE DEF why, bad
<1> QED BY <1>1, <1>2, Zenon

\* A pair has an effect, not on the data; only a readable message in the old form
\* tells one.
LEMMA CommonEffects ==
    ASSUME NEW p
    PROVE  /\ IsEffect(DecodeCommon(p)) /\ ~OnData(DecodeCommon(p))
           /\ p.key = "Error24" => DecodeCommon(p) = Put("Error", p.val)
           /\ Tells(DecodeCommon(p)) => p.key = "Error24" /\ p.val # Absent
<1> DEFINE e == IF p.val = Absent THEN Absent ELSE DecodeBoxError(The(p.val))
           x == IF e = Absent THEN Absent ELSE Some(e)
<1>1. CASE p.key = "Error"
  <2>1. DecodeCommon(p) = Hold("extended", x)
    BY <1>1, Zenon DEF DecodeCommon
  <2> HIDE DEF x
  <2> QED BY <1>1, <2>1, HoldEffect, FailEffect, OffData DEF IsEffect, Tells, LocalKeys
<1>2. CASE p.key = "Error24"
  <2>1. DecodeCommon(p) = Put("Error", p.val)
    BY <1>2 DEF DecodeCommon
  <2> QED BY <1>2, <2>1, PutEffect, FailEffect, OffData DEF IsEffect, Tells
<1>3. CASE p.key \in {"SQLInfo", "MetaData", "Pos"}
  <2>1. CASE \E field \in {"SQLInfo", "MetaData", "Pos"} : \E opt : DecodeCommon(p) = Put(field, opt)
    <3>1. PICK field \in {"SQLInfo", "MetaData", "Pos"} : \E opt : DecodeCommon(p) = Put(field, opt)
      BY <2>1
    <3>2. PICK opt : DecodeCommon(p) = Put(field, opt)
      BY <3>1
    <3> QED BY <1>3, <3>2, PutEffect, FailEffect, OffData DEF IsEffect, Tells
  <2>2. CASE \E why \in {"decode", "panic"} : DecodeCommon(p) = Fail(why)
    BY <1>3, <2>2, FailEffect DEF IsEffect, Tells, OnData
  <2>3. p.key = "SQLInfo" => DecodeCommon(p) = Put("SQLInfo", DecodeSQLInfo(p.val))
    BY DEF DecodeCommon
  <2>4. p.key = "MetaData" => DecodeCommon(p) = DecodeMetaData(p.val)
    BY DEF DecodeCommon
  <2>5. p.key = "Pos" => DecodeCommon(p) = Put("Pos", p.val)
    BY DEF DecodeCommon
  <2> QED BY <1>3, <2>1, <2>2, <2>3, <2>4, <2>5, MetaDataEffect
<1>4. CASE p.key \notin {"Error", "Error24", "SQLInfo", "MetaData", "Pos"}
  <2>1. DecodeCommon(p) = IF p.val = Absent THEN Fail("decode") ELSE Skip
    BY <1>4 DEF DecodeCommon
  <2>2. Skip.does = "skip"
    BY DEF Skip
  <2> QED BY <1>4, <2>1, <2>2, FailEffect DEF IsEffect, Tells, OnData
<1> QED BY <1>1, <1>2, <1>3, <1>4

\* The same for the pairs of decodeBody, which treats errors like decodeBodyTyped.
LEMMA PairEffects ==
    ASSUME NEW p
    PROVE  /\ IsEffect(DecodePair(p))
           /\ p.key = "Error24" => DecodePair(p) = Put("Error", p.val)
           /\ Tells(DecodePair(p)) => p.key = "Error24" /\ p.val # Absent
           /\ p.key = "Error" => DecodePair(p) = DecodeCommon(p)
<1>1. CASE p.key = "Data" /\ p.val # Absent
  <2>1. DecodePair(p) = IF The(p.val).array THEN Put("Data", Some(The(p.val).items)) ELSE Fail("not array")
    BY <1>1, Zenon DEF DecodePair
  <2>2. CASE DecodePair(p) = Put("Data", Some(The(p.val).items))
    BY <1>1, <2>2, PutEffect, FailEffect DEF IsEffect, Tells
  <2>3. CASE DecodePair(p) = Fail("not array")
    BY <1>1, <2>3, FailEffect DEF IsEffect, Tells
  <2> QED BY <2>1, <2>2, <2>3, Zenon
<1>2. CASE p.key \in {"stmtID", "bindCount", "Version"}
  <2>1. DecodePair(p) = Hold(p.key, p.val)
    BY <1>2 DEF DecodePair
  <2> QED BY <1>2, <2>1, HoldEffect, FailEffect DEF IsEffect, Tells, LocalKeys
<1>3. CASE p.key = "Features"
  <2> DEFINE x == IF p.val = Absent THEN Absent ELSE Some(p.val)
  <2>1. DecodePair(p) = Hold("Features", x)
    BY <1>3 DEF DecodePair
  <2> HIDE DEF x
  <2> QED BY <1>3, <2>1, HoldEffect, FailEffect DEF IsEffect, Tells, LocalKeys
<1>4. CASE p.key = "Auth"
  <2>1. DecodePair(p) = Fail("unknown auth type") \/ DecodePair(p) = Hold("Auth", p.val)
    BY <1>4 DEF DecodePair
  <2>2. CASE DecodePair(p) = Fail("unknown auth type")
    BY <1>4, <2>2, FailEffect DEF IsEffect, Tells
  <2>3. CASE DecodePair(p) = Hold("Auth", p.val)
    BY <1>4, <2>3, HoldEffect, FailEffect DEF IsEffect, Tells, LocalKeys
  <2> QED BY <2>1, <2>2, <2>3
<1>5. CASE /\ p.key \notin {"stmtID", "bindCount", "Version", "Features", "Auth"}
           /\ ~(p.key = "Data" /\ p.val # Absent)
  <2>1. DecodePair(p) = DecodeCommon(p)
    BY <1>5 DEF DecodePair
  <2> QED BY <2>1, CommonEffects
<1> QED BY <1>1, <1>2, <1>3, <1>4, <1>5

\* An effect keeps code and body; it touches the message, the error and the local
\* variables only as its kind says.
LEMMA PerformDoes ==
    ASSUME NEW st, IsState(st), NEW e, IsEffect(e)
    PROVE  LET q == Perform(st, e) IN
           /\ IsState(q) /\ q.resp["code"] = st.resp["code"] /\ q.resp["body"] = st.resp["body"]
           /\ q.resp["Error"] = IF Tells(e) THEN e.val ELSE st.resp["Error"]
           /\ q.resp["Data"] = IF OnData(e) THEN DataBy(e) ELSE st.resp["Data"]
           /\ q.resp["err"] = IF e.does = "fail" THEN Some([kind |-> e.why]) ELSE st.resp["err"]
           /\ q.locals = IF e.does = "hold" THEN Assigned(st.locals, e.field, e.val) ELSE st.locals
<1> DEFINE q == Perform(st, e)
<1>1. CASE e.does = "skip"
  <2>1. q = st
    BY <1>1 DEF Perform
  <2> QED BY <1>1, <2>1 DEF Tells, OnData
<1>2. CASE e.does = "put" /\ e.field \in {"Error", "Data", "MetaData", "SQLInfo", "Pos"}
  <2> DEFINE a == Assigned(st.resp, e.field, e.val)
  <2>1. q = [resp |-> a, locals |-> st.locals]
    BY <1>2 DEF Perform
  <2>2. e.field \in RespKeys
    BY <1>2 DEF RespKeys
  <2>3. HasKeys(a, RespKeys) /\ a[e.field] = e.val /\ \A k \in RespKeys : k # e.field => a[k] = st.resp[k]
    BY <2>2, AssignedKeys DEF IsState
  <2> HIDE DEF a
  <2>4. q.resp = a /\ q.locals = st.locals
    BY <2>1
  <2> HIDE DEF q
  <2>5. a["code"] = st.resp["code"] /\ a["body"] = st.resp["body"] /\ a["err"] = st.resp["err"]
    BY <1>2, <2>3 DEF RespKeys
  <2>6. a["Error"] = IF Tells(e) THEN e.val ELSE st.resp["Error"]
    BY <1>2, <2>3 DEF RespKeys, Tells
  <2>7. a["Data"] = IF OnData(e) THEN DataBy(e) ELSE st.resp["Data"]
    BY <1>2, <2>3 DEF RespKeys, OnData, DataBy
  <2> QED BY <1>2, <2>3, <2>4, <2>5, <2>6, <2>7 DEF IsState, q
<1>3. CASE e.does = "hold" /\ e.field \in LocalKeys
  <2> DEFINE a == Assigned(st.locals, e.field, e.val)
  <2>1. q = [resp |-> st.resp, locals |-> a]
    BY <1>3 DEF Perform
  <2>2. HasKeys(a, LocalKeys)
    BY <1>3, AssignedKeys DEF IsState
  <2> HIDE DEF a
  <2>3. q.resp = st.resp /\ q.locals = a
    BY <2>1
  <2> HIDE DEF q
  <2> QED BY <1>3, <2>2, <2>3 DEF IsState, q, a, Tells, OnData
<1>4. CASE e.does = "fail"
  <2> DEFINE kept == IF e.why = "not array" THEN Assigned(st.resp, "Data", Absent) ELSE st.resp
             v == Some([kind |-> e.why])
             a == Assigned(kept, "err", v)
  <2>1. q = [resp |-> a, locals |-> st.locals]
    BY <1>4 DEF Perform
  <2>2. "Data" \in RespKeys /\ "err" \in RespKeys
    BY DEF RespKeys
  <2>3. /\ HasKeys(kept, RespKeys) /\ \A k \in RespKeys : k # "Data" => kept[k] = st.resp[k]
        /\ kept["Data"] = IF OnData(e) THEN DataBy(e) ELSE st.resp["Data"]
    <3>1. CASE e.why = "not array"
      <4> DEFINE none == Absent
      <4> HIDE DEF none
      <4>1. kept = Assigned(st.resp, "Data", none)
        BY <3>1 DEF none
      <4> HIDE DEF kept
      <4>2. OnData(e) /\ DataBy(e) = none
        BY <1>4, <3>1 DEF OnData, DataBy, none
      <4>3. /\ HasKeys(kept, RespKeys) /\ kept["Data"] = none
            /\ \A k \in RespKeys : k # "Data" => kept[k] = st.resp[k]
        BY <2>2, <4>1, AssignedKeys DEF IsState
      <4> QED BY <4>2, <4>3
    <3>2. CASE e.why # "not array"
      <4>1. ~OnData(e)
        BY <1>4, <3>2 DEF OnData
      <4> QED BY <3>2, <4>1 DEF IsState
    <3> QED BY <3>1, <3>2
  <2> HIDE DEF kept, v
  <2>4. HasKeys(a, RespKeys) /\ a["err"] = v /\ \A k \in RespKeys : k # "err" => a[k] = kept[k]
    BY <2>2, <2>3, AssignedKeys
  <2> HIDE DEF a
  <2>5. q.resp = a /\ q.locals = st.locals
    BY <2>1
  <2> HIDE DEF q
  <2>6. /\ a["code"] = st.resp["code"] /\ a["body"] = st.resp["body"] /\ a["Error"] = st.resp["Error"]
        /\ a["Data"] = IF OnData(e) THEN DataBy(e) ELSE st.resp["Data"]
    BY <2>3, <2>4 DEF RespKeys
  <2> QED BY <1>4, <2>4, <2>5, <2>6 DEF IsState, q, v, Tells
<1> QED BY <1>1, <1>2, <1>3, <1>4 DEF IsEffect

\* The states of the loop over the pairs, up to the m-th.
Loop(r, effects, m, f) ==
    f = [n \in 0 .. m |-> IF n = 0 THEN Start(r)
                          ELSE IF f[n - 1].resp.err # Absent THEN f[n - 1] ELSE Perform(f[n - 1], effects[n])]

\* They exist, by induction on m.
LEMMA LoopExists ==
    ASSUME NEW r, NEW effects PROVE \A m \in Nat : \E f : Loop(r, effects, m, f)
<1> DEFINE P == {m \in Nat : \E f : Loop(r, effects, m, f)}
           Go(st, n) == IF st.resp.err # Absent THEN st ELSE Perform(st, effects[n])
<1>1. 0 \in P
  <2> DEFINE f == [n \in 0 .. 0 |-> Start(r)]
  <2>1. f = [n \in 0 .. 0 |-> IF n = 0 THEN Start(r) ELSE Go(f[n - 1], n)]
    <3> HIDE DEF Go
    <3> QED OBVIOUS
  <2> QED BY <2>1 DEF Loop
<1>2. ASSUME NEW m \in Nat, m \in P PROVE m + 1 \in P
  <2>1. PICK f : f = [n \in 0 .. m |-> IF n = 0 THEN Start(r) ELSE Go(f[n - 1], n)]
    BY <1>2 DEF Loop
  <2> HIDE DEF Go
  <2> DEFINE g == [n \in 0 .. m + 1 |-> IF n = 0 THEN Start(r) ELSE Go(f[n - 1], n)]
  <2>2. \A n \in 0 .. m : f[n] = IF n = 0 THEN Start(r) ELSE Go(f[n - 1], n)
    BY <2>1
  <2>3. \A n \in 0 .. m : n \in 0 .. m + 1
    OBVIOUS
  <2>4. \A n \in 0 .. m : g[n] = f[n]
    BY <2>2, <2>3
  <2>5. ASSUME NEW n \in 0 .. m + 1
        PROVE  g[n] = IF n = 0 THEN Start(r) ELSE Go(g[n - 1], n)
    <3>1. CASE n = 0
      BY <3>1
    <3>2. CASE n # 0
      <4>1. n - 1 \in 0 .. m
        BY <3>2
      <4>2. g[n] = Go(f[n - 1], n)
        BY <3>2
      <4> HIDE DEF g
      <4> QED BY <2>4, <3>2, <4>1, <4>2
    <3> QED BY <3>1, <3>2
  <2>6. g = [n \in 0 .. m + 1 |-> IF n = 0 THEN Start(r) ELSE Go(g[n - 1], n)]
    <3>1. g = [n \in 0 .. m + 1 |-> g[n]]
      OBVIOUS
    <3> HIDE DEF g
    <3> QED BY <2>5, <3>1
  <2> HIDE DEF g
  <2>7. Loop(r, effects, m + 1, g)
    BY <2>6, Zenon DEF Loop, Go
  <2> QED BY <2>7
<1> HIDE DEF P
<1>3. \A m \in Nat : m \in P
  BY <1>1, <1>2, SetInduction
<1> QED BY <1>3 DEF P

\* So AllPairs is the last of them.
LEMMA AllPairsLoop ==
    ASSUME NEW r, NEW effects, Len(effects) \in Nat
    PROVE  \E f : Loop(r, effects, Len(effects), f) /\ AllPairs(r, effects) = f[Len(effects)]
<1> DEFINE f == CHOOSE f : f = [n \in 0 .. Len(effects) |->
                  IF n = 0 THEN Start(r)
                  ELSE IF f[n - 1].resp.err # Absent THEN f[n - 1] ELSE Perform(f[n - 1], effects[n])]
<1>l. \E g : Loop(r, effects, Len(effects), g)
  <2> DEFINE m == Len(effects)
  <2> HIDE DEF m
  <2>1. m \in Nat
    BY DEF m
  <2>2. \E g : Loop(r, effects, m, g)
    BY <2>1, LoopExists
  <2> QED BY <2>2 DEF m
<1>0. \E g : g = [n \in 0 .. Len(effects) |->
                     IF n = 0 THEN Start(r)
                     ELSE IF g[n - 1].resp.err # Absent THEN g[n - 1] ELSE Perform(g[n - 1], effects[n])]
  BY <1>l, Zenon DEF Loop
<1>1. f = [n \in 0 .. Len(effects) |->
             IF n = 0 THEN Start(r)
             ELSE IF f[n - 1].resp.err # Absent THEN f[n - 1] ELSE Perform(f[n - 1], effects[n])]
  BY <1>0, Zenon
<1>2. AllPairs(r, effects) = f[Len(effects)]
  BY Zenon DEF AllPairs
<1> HIDE DEF f
<1> QED BY <1>1, <1>2 DEF Loop

-----------------------------------------------------------------------------
(* Future: the loop over the pairs.                                        *)

\* They start with the response and go on by the effects, until there is an error.
Stepwise(r, effects, m, f) ==
    /\ f[0] = Start(r)
    /\ \A n \in Nat : n + 1 \in 0 .. m =>
          f[n + 1] = IF f[n].resp.err # Absent THEN f[n] ELSE Perform(f[n], effects[n + 1])

\* One step of a loop.
LEMMA LoopSteps ==
    ASSUME NEW r, NEW effects, NEW m \in Nat, NEW f, Loop(r, effects, m, f)
    PROVE  Stepwise(r, effects, m, f)
<1> DEFINE Go(n) == IF f[n - 1].resp.err # Absent THEN f[n - 1] ELSE Perform(f[n - 1], effects[n])
<1>1. f = [n \in 0 .. m |-> IF n = 0 THEN Start(r) ELSE Go(n)]
  BY Zenon DEF Loop
<1> HIDE DEF Go
<1>2. \A n \in 0 .. m : f[n] = IF n = 0 THEN Start(r) ELSE Go(n)
  BY <1>1
<1>3. 0 \in 0 .. m /\ \A n \in 1 .. m : n \in 0 .. m /\ n # 0
  OBVIOUS
<1>4. f[0] = Start(r) /\ \A n \in 1 .. m : f[n] = Go(n)
  BY <1>2, <1>3
<1>5. ASSUME NEW n \in Nat, n + 1 \in 0 .. m
      PROVE  f[n + 1] = IF f[n].resp.err # Absent THEN f[n] ELSE Perform(f[n], effects[n + 1])
  <2>1. n + 1 \in 1 .. m /\ (n + 1) - 1 = n
    BY <1>5
  <2>2. PICK k \in 1 .. m : k = n + 1
    BY <2>1
  <2>3. k - 1 = n
    BY <2>1, <2>2
  <2>4. f[k] = Go(k)
    BY <1>4, <2>2
  <2>5. Go(k) = IF f[n].resp.err # Absent THEN f[n] ELSE Perform(f[n], effects[k])
    BY <2>3, Zenon DEF Go
  <2> QED BY <2>2, <2>4, <2>5
<1> QED BY <1>4, <1>5 DEF Stepwise

\* The loop starts without an error, with the response as it is.
LEMMA StartState ==
    ASSUME NEW r, HasKeys(r, RespKeys)
    PROVE  LET st == Start(r) IN
           /\ IsState(st) /\ st.resp["err"] = Absent
           /\ \A k \in RespKeys : k # "err" => st.resp[k] = r[k]
           /\ st.locals["stmtID"] = 0 /\ st.locals["Version"] = 0 /\ st.locals["Features"] = Absent
           /\ st.locals = Start(0).locals
<1> DEFINE none == Absent
           a == Assigned(r, "err", none)
           l == [stmtID |-> 0, bindCount |-> 0, Version |-> 0, Features |-> Absent,
                 Auth |-> "auto", extended |-> Absent]
           st == Start(r)
<1>1. st = [resp |-> a, locals |-> l] /\ Start(0).locals = l
  BY DEF Start
<1>2. HasKeys(l, LocalKeys) /\ l["stmtID"] = 0 /\ l["Version"] = 0 /\ l["Features"] = Absent
  BY DEF HasKeys, LocalKeys
<1> HIDE DEF none, l
<1>3. "err" \in RespKeys
  BY DEF RespKeys
<1>4. HasKeys(a, RespKeys) /\ a["err"] = none /\ \A k \in RespKeys : k # "err" => a[k] = r[k]
  BY <1>3, AssignedKeys
<1> HIDE DEF a
<1>5. st.resp = a /\ st.locals = l
  BY <1>1
<1> HIDE DEF st
<1> QED BY <1>1, <1>2, <1>4, <1>5 DEF IsState, none, st

\* The loop keeps code and body, and message and data unless a pair is about them.
LEMMA LoopOne ==
    ASSUME NEW r, HasKeys(r, RespKeys), NEW effects, NEW m \in Nat,
           \A n \in 1 .. m : IsEffect(effects[n]), NEW f, Loop(r, effects, m, f)
    PROVE  \A n \in 0 .. m :
              /\ IsState(f[n])
              /\ f[n].resp["code"] = r["code"] /\ f[n].resp["body"] = r["body"]
              /\ f[n].resp["Error"] = r["Error"] \/ \E k \in 1 .. n : Tells(effects[k])
              /\ f[n].resp["Data"] = r["Data"] \/ \E k \in 1 .. n : OnData(effects[k])
<1>s. Stepwise(r, effects, m, f)
  BY LoopSteps
<1> DEFINE Good(n) ==
              /\ IsState(f[n])
              /\ f[n].resp["code"] = r["code"] /\ f[n].resp["body"] = r["body"]
              /\ f[n].resp["Error"] = r["Error"] \/ \E k \in 1 .. n : Tells(effects[k])
              /\ f[n].resp["Data"] = r["Data"] \/ \E k \in 1 .. n : OnData(effects[k])
           P == {n \in Nat : n \in 0 .. m => Good(n)}
<1>1. 0 \in P
  <2>1. f[0] = Start(r)
    BY <1>s DEF Stepwise
  <2>2. IsState(f[0]) /\ \A k \in RespKeys : k # "err" => f[0].resp[k] = r[k]
    BY <2>1, StartState
  <2> QED BY <2>2 DEF RespKeys
<1>2. ASSUME NEW n \in Nat, n \in P PROVE n + 1 \in P
  <2> SUFFICES ASSUME n + 1 \in 0 .. m PROVE Good(n + 1)
    OBVIOUS
  <2>1. Good(n)
    BY <1>2
  <2>2. n + 1 \in 1 .. m /\ (n + 1) - 1 = n /\ \A k \in 1 .. n : k \in 1 .. n + 1
    OBVIOUS
  <2>3. f[n + 1] = IF f[n].resp.err # Absent THEN f[n] ELSE Perform(f[n], effects[n + 1])
    BY <1>s, Zenon DEF Stepwise
  <2>4. CASE f[n + 1] = f[n]
    BY <2>1, <2>2, <2>4
  <2>5. CASE f[n + 1] = Perform(f[n], effects[n + 1])
    <3> DEFINE q == f[n + 1]
               st == f[n]
               e == effects[n + 1]
    <3>1. IsEffect(e) /\ IsState(st)
      BY <2>1, <2>2
    <3> HIDE DEF st, e
    <3>2. q = Perform(st, e)
      BY <2>5 DEF st, e
    <3> HIDE DEF q
    <3>3. /\ IsState(q) /\ q.resp["code"] = st.resp["code"] /\ q.resp["body"] = st.resp["body"]
          /\ q.resp["Error"] = IF Tells(e) THEN e.val ELSE st.resp["Error"]
          /\ q.resp["Data"] = IF OnData(e) THEN DataBy(e) ELSE st.resp["Data"]
      BY <3>1, <3>2, PerformDoes
    <3>4. q.resp["Error"] = r["Error"] \/ \E k \in 1 .. n + 1 : Tells(effects[k])
      <4>1. Tells(e) => \E k \in 1 .. n + 1 : Tells(effects[k])
        BY <2>2 DEF e
      <4>2. st.resp["Error"] = r["Error"] \/ \E k \in 1 .. n + 1 : Tells(effects[k])
        BY <2>1, <2>2 DEF st
      <4> QED BY <3>3, <4>1, <4>2
    <3>5. q.resp["Data"] = r["Data"] \/ \E k \in 1 .. n + 1 : OnData(effects[k])
      <4>1. OnData(e) => \E k \in 1 .. n + 1 : OnData(effects[k])
        BY <2>2 DEF e
      <4>2. st.resp["Data"] = r["Data"] \/ \E k \in 1 .. n + 1 : OnData(effects[k])
        BY <2>1, <2>2 DEF st
      <4> QED BY <3>3, <4>1, <4>2
    <3>6. st.resp["code"] = r["code"] /\ st.resp["body"] = r["body"]
      BY <2>1 DEF st
    <3> QED BY <3>3, <3>4, <3>5, <3>6 DEF q
  <2> QED BY <2>3, <2>4, <2>5
<1> HIDE DEF P
<1>3. \A n \in Nat : n \in P
  BY <1>1, <1>2, SetInduction
<1> QED BY <1>3 DEF P

\* Of two responses come two with the same data, or with the data they had.
SameData(r1, r2, a, b) ==
    a["Data"] = b["Data"] \/ (a["Data"] = r1["Data"] /\ b["Data"] = r2["Data"])

\* The states a and b that two responses reach after n pairs tell the same: the
\* same local variables and error, the same data, and, if there is no error, the
\* same message, unless no pair has touched what they had.
Alike(r1, r2, effects, n, a, b) ==
    /\ a.locals = b.locals /\ a.resp["err"] = b.resp["err"]
    /\ SameData(r1, r2, a.resp, b.resp)
    /\ \/ a.resp["err"] # Absent
       \/ a.resp["Error"] = b.resp["Error"]
       \/ /\ \A k \in 1 .. n : ~Tells(effects[k])
          /\ a.resp["Error"] = r1["Error"] /\ b.resp["Error"] = r2["Error"]

\* Two responses with the same pairs stay alike.
LEMMA LoopTwo ==
    ASSUME NEW r1, NEW r2, HasKeys(r1, RespKeys), HasKeys(r2, RespKeys), NEW effects, NEW m \in Nat,
           \A n \in 1 .. m : IsEffect(effects[n]),
           NEW f1, NEW f2, Loop(r1, effects, m, f1), Loop(r2, effects, m, f2)
    PROVE  \A n \in 0 .. m : Alike(r1, r2, effects, n, f1[n], f2[n])
<1>s. Stepwise(r1, effects, m, f1) /\ Stepwise(r2, effects, m, f2)
  BY LoopSteps
<1>f1. /\ f1[0] = Start(r1)
       /\ \A n \in Nat : n + 1 \in 0 .. m =>
             f1[n + 1] = IF f1[n].resp.err # Absent THEN f1[n] ELSE Perform(f1[n], effects[n + 1])
  BY <1>s, Zenon DEF Stepwise
<1>f2. /\ f2[0] = Start(r2)
       /\ \A n \in Nat : n + 1 \in 0 .. m =>
             f2[n + 1] = IF f2[n].resp.err # Absent THEN f2[n] ELSE Perform(f2[n], effects[n + 1])
  BY <1>s, Zenon DEF Stepwise
<1> DEFINE Good(n) ==
              /\ f1[n].locals = f2[n].locals /\ f1[n].resp["err"] = f2[n].resp["err"]
              /\ SameData(r1, r2, f1[n].resp, f2[n].resp)
              /\ \/ f1[n].resp["err"] # Absent
                 \/ f1[n].resp["Error"] = f2[n].resp["Error"]
                 \/ /\ \A k \in 1 .. n : ~Tells(effects[k])
                    /\ f1[n].resp["Error"] = r1["Error"] /\ f2[n].resp["Error"] = r2["Error"]
           P == {n \in Nat : n \in 0 .. m => Good(n)}
<1>1. 0 \in P
  <2>1. f1[0] = Start(r1) /\ f2[0] = Start(r2)
    BY <1>f1, <1>f2
  <2>2. /\ f1[0].resp["err"] = Absent /\ f1[0].locals = Start(0).locals
        /\ \A k \in RespKeys : k # "err" => f1[0].resp[k] = r1[k]
    BY <2>1, StartState
  <2>3. /\ f2[0].resp["err"] = Absent /\ f2[0].locals = Start(0).locals
        /\ \A k \in RespKeys : k # "err" => f2[0].resp[k] = r2[k]
    BY <2>1, StartState
  <2>4. \A k \in 1 .. 0 : ~Tells(effects[k])
    OBVIOUS
  <2>5. f1[0].resp["Data"] = r1["Data"] /\ f2[0].resp["Data"] = r2["Data"]
    BY <2>2, <2>3 DEF RespKeys
  <2> QED BY <2>2, <2>3, <2>4, <2>5 DEF RespKeys, SameData
<1>2. ASSUME NEW n \in Nat, n \in P PROVE n + 1 \in P
  <2> SUFFICES ASSUME n + 1 \in 0 .. m PROVE Good(n + 1)
    OBVIOUS
  <2>1. Good(n) /\ n \in 0 .. m
    BY <1>2
  <2>2. n + 1 \in 1 .. m /\ (n + 1) - 1 = n /\ \A k \in 1 .. n + 1 : k \in 1 .. n \/ k = n + 1
    OBVIOUS
  <2> DEFINE Go(st) == IF st.resp.err # Absent THEN st ELSE Perform(st, effects[n + 1])
  <2>3. f1[n + 1] = Go(f1[n])
    BY <1>f1, Zenon
  <2>4. f2[n + 1] = Go(f2[n])
    BY <1>f2, Zenon
  <2>5. CASE f1[n].resp["err"] # Absent
    <3>1. f1[n + 1] = f1[n] /\ f2[n + 1] = f2[n]
      BY <2>1, <2>3, <2>4, <2>5
    <3> QED BY <2>1, <2>5, <3>1
  <2>6. CASE f1[n].resp["err"] = Absent
    <3> DEFINE q1 == f1[n + 1]
               q2 == f2[n + 1]
               s1 == f1[n]
               s2 == f2[n]
               e == effects[n + 1]
    <3>1. q1 = Perform(s1, e) /\ q2 = Perform(s2, e)
      BY <2>1, <2>3, <2>4, <2>6
    <3>2. IsEffect(e) /\ IsState(s1) /\ IsState(s2)
      BY <2>1, <2>2, LoopOne
    <3> HIDE DEF q1, q2, s1, s2, e
    <3>3. /\ q1.resp["Error"] = IF Tells(e) THEN e.val ELSE s1.resp["Error"]
          /\ q1.resp["Data"] = IF OnData(e) THEN DataBy(e) ELSE s1.resp["Data"]
          /\ q1.resp["err"] = IF e.does = "fail" THEN Some([kind |-> e.why]) ELSE s1.resp["err"]
          /\ q1.locals = IF e.does = "hold" THEN Assigned(s1.locals, e.field, e.val) ELSE s1.locals
      BY <3>1, <3>2, PerformDoes
    <3>4. /\ q2.resp["Error"] = IF Tells(e) THEN e.val ELSE s2.resp["Error"]
          /\ q2.resp["Data"] = IF OnData(e) THEN DataBy(e) ELSE s2.resp["Data"]
          /\ q2.resp["err"] = IF e.does = "fail" THEN Some([kind |-> e.why]) ELSE s2.resp["err"]
          /\ q2.locals = IF e.does = "hold" THEN Assigned(s2.locals, e.field, e.val) ELSE s2.locals
      BY <3>1, <3>2, PerformDoes
    <3>5. s1.locals = s2.locals /\ s1.resp["err"] = s2.resp["err"]
      BY <2>1 DEF s1, s2
    <3>6. q1.locals = q2.locals /\ q1.resp["err"] = q2.resp["err"]
      BY <3>3, <3>4, <3>5
    <3>7. \/ q1.resp["Error"] = q2.resp["Error"]
          \/ /\ \A k \in 1 .. n + 1 : ~Tells(effects[k])
             /\ q1.resp["Error"] = r1["Error"] /\ q2.resp["Error"] = r2["Error"]
      <4>1. CASE Tells(e)
        BY <3>3, <3>4, <4>1
      <4>2. CASE ~Tells(e)
        <5>1. q1.resp["Error"] = s1.resp["Error"] /\ q2.resp["Error"] = s2.resp["Error"]
          BY <3>3, <3>4, <4>2
        <5>2. \/ s1.resp["Error"] = s2.resp["Error"]
              \/ /\ \A k \in 1 .. n : ~Tells(effects[k])
                 /\ s1.resp["Error"] = r1["Error"] /\ s2.resp["Error"] = r2["Error"]
          BY <2>1, <2>6 DEF s1, s2
        <5>3. (\A k \in 1 .. n : ~Tells(effects[k])) => \A k \in 1 .. n + 1 : ~Tells(effects[k])
          BY <2>2, <4>2 DEF e
        <5> QED BY <5>1, <5>2, <5>3
      <4> QED BY <4>1, <4>2
    <3>8. SameData(r1, r2, s1.resp, s2.resp)
      BY <2>1 DEF s1, s2
    <3>9. SameData(r1, r2, q1.resp, q2.resp)
      BY <3>3, <3>4, <3>8 DEF SameData
    <3> QED BY <3>6, <3>7, <3>9 DEF q1, q2
  <2> QED BY <2>5, <2>6
<1> HIDE DEF P
<1>3. \A n \in Nat : n \in P
  BY <1>1, <1>2, SetInduction
<1> QED BY <1>3 DEF P, Alike

-----------------------------------------------------------------------------
(* Future: decoding in place.                                              *)

\* An answer to an ID request that lacks one of its two halves.
Half(l) == (l["Version"] = 0) # (l["Features"] = Absent)

\* The statement or the ID that stands for the data d.
Statement(l) == <<[StatementID |-> l.stmtID, ParamCount |-> l.bindCount]>>
Identity(l) == <<[Version |-> l.Version, Features |-> The(l.Features), Auth |-> l.Auth]>>
SpecialData(l, d) ==
    IF l["Version"] # 0 /\ l["Features"] # Absent THEN Some(Identity(l))
    ELSE IF l["stmtID"] # 0 THEN Some(Statement(l)) ELSE d

\* A statement or an ID for the data touches nothing else; half an ID is an error.
LEMMA SpecialDoes ==
    ASSUME NEW st, IsState(st)
    PROVE  LET q == Special(st) IN
           /\ IsState(q) /\ q.locals = st.locals
           /\ q.resp["code"] = st.resp["code"] /\ q.resp["body"] = st.resp["body"]
           /\ q.resp["Error"] = st.resp["Error"] /\ q.resp["Data"] = SpecialData(st.locals, st.resp["Data"])
           /\ q.resp["err"] = IF Half(st.locals) THEN Some([kind |-> "incomplete ID"]) ELSE st.resp["err"]
<1> DEFINE l == st.locals
           Data(v) == Put("Data", Some(v))
           stmt == Statement(l)
           id == Identity(l)
           prepared == IF l.stmtID = 0 THEN st ELSE Perform(st, Data(stmt))
           q == Special(st)
           Same(a, b) == /\ IsState(a) /\ a.locals = b.locals
                         /\ a.resp["code"] = b.resp["code"] /\ a.resp["body"] = b.resp["body"]
                         /\ a.resp["Error"] = b.resp["Error"]
<1>1. ASSUME NEW v PROVE /\ IsEffect(Data(v)) /\ ~Tells(Data(v)) /\ Data(v).does = "put"
                           /\ OnData(Data(v)) /\ DataBy(Data(v)) = Some(v)
  <2>1. Some(v) # Absent
    BY SomeIsThere
  <2>2. Data(v).does = "put" /\ Data(v).field = "Data" /\ Data(v).val = Some(v)
    <3> DEFINE opt == Some(v)
    <3> HIDE DEF opt
    <3>1. Put("Data", opt).does = "put" /\ Put("Data", opt).field = "Data" /\ Put("Data", opt).val = opt
      BY <2>1, PutEffect DEF opt
    <3> QED BY <3>1 DEF opt
  <2> HIDE DEF Data
  <2> QED BY <2>2 DEF IsEffect, Tells, OnData, DataBy
<1>2. ASSUME NEW a, IsState(a), NEW v
      PROVE  /\ Same(Perform(a, Data(v)), a) /\ Perform(a, Data(v)).resp["err"] = a.resp["err"]
             /\ Perform(a, Data(v)).resp["Data"] = Some(v)
  <2> DEFINE e == Data(v)
             b == Perform(a, e)
  <2>1. IsEffect(e) /\ ~Tells(e) /\ e.does = "put" /\ OnData(e) /\ DataBy(e) = Some(v)
    BY <1>1
  <2> HIDE DEF e
  <2>2. /\ IsState(b) /\ b.resp["code"] = a.resp["code"] /\ b.resp["body"] = a.resp["body"]
        /\ b.resp["Error"] = IF Tells(e) THEN e.val ELSE a.resp["Error"]
        /\ b.resp["Data"] = IF OnData(e) THEN DataBy(e) ELSE a.resp["Data"]
        /\ b.resp["err"] = IF e.does = "fail" THEN Some([kind |-> e.why]) ELSE a.resp["err"]
        /\ b.locals = IF e.does = "hold" THEN Assigned(a.locals, e.field, e.val) ELSE a.locals
    BY <1>2, <2>1, PerformDoes
  <2> HIDE DEF b
  <2>3. Same(b, a) /\ b.resp["err"] = a.resp["err"] /\ b.resp["Data"] = Some(v)
    BY <2>1, <2>2
  <2> QED BY <2>3 DEF b, e
<1>3. ASSUME NEW a, IsState(a)
      PROVE  LET b == Perform(a, Fail("incomplete ID"))
             IN Same(b, a) /\ b.resp["err"] = Some([kind |-> "incomplete ID"]) /\ b.resp["Data"] = a.resp["Data"]
  <2> DEFINE e == Fail("incomplete ID")
             b == Perform(a, e)
  <2>1. IsEffect(e) /\ ~Tells(e) /\ ~OnData(e) /\ e.does = "fail" /\ e.why = "incomplete ID"
    <3>1. e.does = "fail" /\ e.why = "incomplete ID"
      BY FailEffect
    <3> HIDE DEF e
    <3> QED BY <3>1 DEF IsEffect, Tells, OnData
  <2> HIDE DEF e
  <2>2. /\ IsState(b) /\ b.resp["code"] = a.resp["code"] /\ b.resp["body"] = a.resp["body"]
        /\ b.resp["Error"] = IF Tells(e) THEN e.val ELSE a.resp["Error"]
        /\ b.resp["Data"] = IF OnData(e) THEN DataBy(e) ELSE a.resp["Data"]
        /\ b.resp["err"] = IF e.does = "fail" THEN Some([kind |-> e.why]) ELSE a.resp["err"]
        /\ b.locals = IF e.does = "hold" THEN Assigned(a.locals, e.field, e.val) ELSE a.locals
    BY <1>3, <2>1, PerformDoes
  <2> HIDE DEF b
  <2>3. Same(b, a) /\ b.resp["err"] = Some([kind |-> "incomplete ID"]) /\ b.resp["Data"] = a.resp["Data"]
    BY <2>1, <2>2
  <2> QED BY <2>3 DEF b, e
<1>4. /\ Same(prepared, st) /\ prepared.resp["err"] = st.resp["err"]
      /\ prepared.resp["Data"] = IF l["stmtID"] # 0 THEN Some(stmt) ELSE st.resp["Data"]
  <2>1. CASE l.stmtID = 0
    BY <2>1
  <2>2. CASE l.stmtID # 0
    <3>1. prepared = Perform(st, Data(stmt))
      BY <2>2
    <3> HIDE DEF prepared, Data, stmt, Same
    <3>2. /\ Same(prepared, st) /\ prepared.resp["err"] = st.resp["err"]
          /\ prepared.resp["Data"] = Some(stmt)
      BY <1>2, <3>1
    <3> QED BY <2>2, <3>2
  <2> QED BY <2>1, <2>2
<1>5. q = IF l.Version = 0 /\ l.Features = Absent THEN prepared
          ELSE IF l.Version = 0 \/ l.Features = Absent THEN Perform(prepared, Fail("incomplete ID"))
          ELSE Perform(prepared, Data(id))
  BY Zenon DEF Special, Statement, Identity
<1> HIDE DEF q, prepared, id, stmt, Data
<1>6. CASE l.Version = 0 /\ l.Features = Absent
  <2>1. q = prepared /\ ~Half(l)
    BY <1>5, <1>6 DEF Half
  <2> QED BY <1>4, <1>6, <2>1 DEF q, SpecialData, stmt
<1>7. CASE Half(l)
  <2>1. q = Perform(prepared, Fail("incomplete ID"))
    BY <1>5, <1>7 DEF Half
  <2>2. Same(q, prepared) /\ q.resp["err"] = Some([kind |-> "incomplete ID"]) /\ q.resp["Data"] = prepared.resp["Data"]
    BY <1>3, <1>4, <2>1
  <2>3. q.resp["Data"] = SpecialData(l, st.resp["Data"])
    BY <1>4, <1>7, <2>2 DEF Half, SpecialData, stmt
  <2> QED BY <1>4, <1>7, <2>2, <2>3 DEF q
<1>8. CASE l.Version # 0 /\ l.Features # Absent
  <2>1. q = Perform(prepared, Data(id)) /\ ~Half(l)
    BY <1>5, <1>8 DEF Half
  <2>2. Same(q, prepared) /\ q.resp["err"] = prepared.resp["err"] /\ q.resp["Data"] = Some(id)
    BY <1>2, <1>4, <2>1
  <2>3. q.resp["Data"] = SpecialData(l, st.resp["Data"])
    BY <1>8, <2>2 DEF SpecialData, id
  <2> QED BY <1>4, <2>1, <2>2, <2>3 DEF q
<1> QED BY <1>6, <1>7, <1>8 DEF Half

\* The error a decoder ends with.
FinalErr(code, msg, extended, err0) ==
    IF err0 # Absent \/ code \in {OkCode, PushCode} THEN err0
    ELSE Some([kind |-> "server", code |-> ClearErrorBit(code), msg |-> msg, extended |-> extended])

\* ServerError keeps body, data and message, and may clear the bit of the code.
LEMMA ServerErrorDoes ==
    ASSUME NEW st, IsState(st)
    PROVE  LET q == ServerError(st) IN
           /\ HasKeys(q, RespKeys) /\ q["body"] = st.resp["body"] /\ q["Error"] = st.resp["Error"]
           /\ q["Data"] = st.resp["Data"]
           /\ \/ q["code"] = st.resp["code"]
              \/ st.resp["code"] \notin {OkCode, PushCode} /\ q["code"] = ClearErrorBit(st.resp["code"])
           /\ q["err"] = FinalErr(st.resp["code"], st.resp["Error"], st.locals["extended"], st.resp["err"])
<1> DEFINE r == st.resp
           q == ServerError(st)
           c == ClearErrorBit(r.code)
           v == Some([kind |-> "server", code |-> c, msg |-> r.Error, extended |-> st.locals.extended])
           a == Assigned(r, "code", c)
           b == Assigned(a, "err", v)
<1>1. CASE r.err # Absent \/ r.code \in {OkCode, PushCode}
  <2>1. q = r
    BY <1>1, Zenon DEF ServerError
  <2> HIDE DEF q
  <2> QED BY <1>1, <2>1 DEF q, FinalErr, IsState
<1>2. CASE ~(r.err # Absent \/ r.code \in {OkCode, PushCode})
  <2>1. q = b
    BY <1>2, Zenon DEF ServerError
  <2>2. FinalErr(r["code"], r["Error"], st.locals["extended"], r["err"]) = v
    BY <1>2, Zenon DEF FinalErr
  <2> HIDE DEF c, v
  <2>3. "code" \in RespKeys /\ "err" \in RespKeys
    BY DEF RespKeys
  <2>4. HasKeys(a, RespKeys) /\ a["code"] = c /\ \A k \in RespKeys : k # "code" => a[k] = r[k]
    BY <2>3, AssignedKeys DEF IsState
  <2> HIDE DEF a
  <2>5. HasKeys(b, RespKeys) /\ b["err"] = v /\ \A k \in RespKeys : k # "err" => b[k] = a[k]
    BY <2>3, <2>4, AssignedKeys
  <2> HIDE DEF b, q, r
  <2>6. b["body"] = r["body"] /\ b["Error"] = r["Error"] /\ b["code"] = c /\ b["Data"] = r["Data"]
    BY <2>4, <2>5 DEF RespKeys
  <2> QED BY <1>2, <2>1, <2>2, <2>5, <2>6 DEF q, r, c
<1> QED BY <1>1, <1>2

\* What follows the loop: decodeBody (of Get) looks for a statement or an ID,
\* decodeBodyTyped does not; then the error of the server.
Finished(how, st) == IF how = "Get" /\ st.resp["err"] = Absent THEN Special(st) ELSE st
ResultOf(how, r, effects) ==
    LET end == ServerError(Finished(how, AllPairs(r, effects)))
    IN Assigned(end, "body", Rewound(end["body"]))

\* The error of the result, by the state st that the loop leaves.
ErrOf(how, r, st) ==
    FinalErr(r["code"], st.resp["Error"], st.locals["extended"],
             IF how = "Get" /\ st.resp["err"] = Absent /\ Half(st.locals)
             THEN Some([kind |-> "incomplete ID"]) ELSE st.resp["err"])

\* The data of the result.
DataOf(how, st) ==
    IF how = "Get" /\ st.resp["err"] = Absent THEN SpecialData(st.locals, st.resp["Data"]) ELSE st.resp["Data"]

\* What follows the loop keeps all but the error and the data.
LEMMA FinishedDoes ==
    ASSUME NEW how, NEW st, IsState(st)
    PROVE  LET q == Finished(how, st) IN
           /\ IsState(q) /\ q.locals = st.locals
           /\ q.resp["code"] = st.resp["code"] /\ q.resp["body"] = st.resp["body"]
           /\ q.resp["Error"] = st.resp["Error"] /\ q.resp["Data"] = DataOf(how, st)
           /\ q.resp["err"] = IF how = "Get" /\ st.resp["err"] = Absent /\ Half(st.locals)
                              THEN Some([kind |-> "incomplete ID"]) ELSE st.resp["err"]
<1>1. CASE how = "Get" /\ st.resp["err"] = Absent
  <2> DEFINE q == Finished(how, st)
  <2>1. q = Special(st)
    BY <1>1 DEF Finished
  <2> HIDE DEF q
  <2>2. /\ IsState(q) /\ q.locals = st.locals
        /\ q.resp["code"] = st.resp["code"] /\ q.resp["body"] = st.resp["body"]
        /\ q.resp["Error"] = st.resp["Error"] /\ q.resp["Data"] = SpecialData(st.locals, st.resp["Data"])
        /\ q.resp["err"] = IF Half(st.locals) THEN Some([kind |-> "incomplete ID"]) ELSE st.resp["err"]
    BY <2>1, SpecialDoes
  <2> QED BY <1>1, <2>2 DEF q, DataOf
<1>2. CASE ~(how = "Get" /\ st.resp["err"] = Absent)
  BY <1>2 DEF Finished, DataOf
<1> QED BY <1>1, <1>2

\* The result of decoding, by the state the loop leaves.
LEMMA ResultDoes ==
    ASSUME NEW how, NEW r, HasKeys(r, RespKeys), NEW effects, Len(effects) \in Nat,
           \A n \in 1 .. Len(effects) : IsEffect(effects[n])
    PROVE  LET q == ResultOf(how, r, effects)
               st == AllPairs(r, effects)
           IN /\ HasKeys(q, RespKeys) /\ q["body"] = r["body"]
              /\ \/ q["code"] = r["code"]
                 \/ r["code"] \notin {OkCode, PushCode} /\ q["code"] = ClearErrorBit(r["code"])
              /\ q["Error"] = r["Error"] \/ \E k \in 1 .. Len(effects) : Tells(effects[k])
              /\ q["err"] = ErrOf(how, r, st) /\ q["Data"] = DataOf(how, st)
<1> DEFINE m == Len(effects)
           st == AllPairs(r, effects)
           fin == Finished(how, st)
           e0 == IF how = "Get" /\ st.resp["err"] = Absent /\ Half(st.locals)
                 THEN Some([kind |-> "incomplete ID"]) ELSE st.resp["err"]
           end == ServerError(fin)
           q == ResultOf(how, r, effects)
<1>1. PICK f : Loop(r, effects, m, f) /\ st = f[m]
  BY AllPairsLoop
<1>2. m \in 0 .. m
  OBVIOUS
<1> HIDE DEF st
<1>3. /\ IsState(st) /\ st.resp["code"] = r["code"] /\ st.resp["body"] = r["body"]
      /\ st.resp["Error"] = r["Error"] \/ \E k \in 1 .. m : Tells(effects[k])
  <2>1. \A n \in 0 .. m :
           /\ IsState(f[n])
           /\ f[n].resp["code"] = r["code"] /\ f[n].resp["body"] = r["body"]
           /\ f[n].resp["Error"] = r["Error"] \/ \E k \in 1 .. n : Tells(effects[k])
    BY <1>1, LoopOne
  <2> HIDE DEF m
  <2> QED BY <1>1, <1>2, <2>1
<1>4. /\ IsState(fin) /\ fin.locals = st.locals
      /\ fin.resp["code"] = st.resp["code"] /\ fin.resp["body"] = st.resp["body"]
      /\ fin.resp["Error"] = st.resp["Error"] /\ fin.resp["err"] = e0
      /\ fin.resp["Data"] = DataOf(how, st)
  BY <1>3, FinishedDoes, Zenon
<1> HIDE DEF fin, e0
<1>5. /\ HasKeys(end, RespKeys) /\ end["body"] = fin.resp["body"] /\ end["Error"] = fin.resp["Error"]
      /\ end["Data"] = fin.resp["Data"]
      /\ \/ end["code"] = fin.resp["code"]
         \/ fin.resp["code"] \notin {OkCode, PushCode} /\ end["code"] = ClearErrorBit(fin.resp["code"])
      /\ end["err"] = FinalErr(fin.resp["code"], fin.resp["Error"], fin.locals["extended"], fin.resp["err"])
  BY <1>4, ServerErrorDoes, Zenon
<1> DEFINE b == Rewound(end["body"])
<1>6. b = end["body"]
  BY DEF Rewound
<1>7. q = Assigned(end, "body", b)
  BY Zenon DEF ResultOf, fin, st
<1> HIDE DEF end, b, q
<1>8. "body" \in RespKeys
  BY DEF RespKeys
<1>9. HasKeys(q, RespKeys) /\ q["body"] = b /\ \A k \in RespKeys : k # "body" => q[k] = end[k]
  BY <1>5, <1>7, <1>8, AssignedKeys
<1>10. q["code"] = end["code"] /\ q["Error"] = end["Error"] /\ q["err"] = end["err"] /\ q["Data"] = end["Data"]
  BY <1>9 DEF RespKeys
<1>11. q["err"] = FinalErr(r["code"], st.resp["Error"], st.locals["extended"], e0)
  BY <1>3, <1>4, <1>5, <1>10
<1>12. q["Error"] = r["Error"] \/ \E k \in 1 .. m : Tells(effects[k])
  BY <1>3, <1>4, <1>5, <1>10
<1>13. /\ q["body"] = r["body"]
       /\ \/ q["code"] = r["code"]
          \/ r["code"] \notin {OkCode, PushCode} /\ q["code"] = ClearErrorBit(r["code"])
  BY <1>3, <1>4, <1>5, <1>6, <1>9, <1>10
<1>14. q["err"] = ErrOf(how, r, st)
  BY <1>11 DEF ErrOf, e0
<1>15. q["Data"] = DataOf(how, st)
  BY <1>4, <1>5, <1>10
<1> QED BY <1>9, <1>12, <1>13, <1>14, <1>15 DEF q, st, m

\* The codes of a response and of what decoding leaves of it.
IsCode(c) == c \in 0 .. 2 * ErrorCodeBit - 1

\* A code that is still an error without its bit was one with it.
LEMMA CodesAgree ==
    ASSUME NEW c, IsCode(c), NEW d, d = c \/ d = ClearErrorBit(c), d \notin {OkCode, PushCode}
    PROVE  c \notin {OkCode, PushCode} /\ ClearErrorBit(d) = ClearErrorBit(c) /\ IsCode(d)
<1>1. ErrorCodeBit \in Nat /\ 0 < ErrorCodeBit /\ 128 < ErrorCodeBit
  BY SMT DEF ErrorCodeBit
<1> QED BY <1>1 DEF ClearErrorBit, OkCode, PushCode, IsCode

\* The loops of two responses with the same pairs end alike.
LEMMA PairsTwo ==
    ASSUME NEW r, NEW q, HasKeys(r, RespKeys), HasKeys(q, RespKeys),
           NEW effects, Len(effects) \in Nat,
           \A n \in 1 .. Len(effects) : IsEffect(effects[n])
    PROVE  LET s == AllPairs(r, effects)
               t == AllPairs(q, effects)
           IN Alike(r, q, effects, Len(effects), s, t)
<1> DEFINE m == Len(effects)
           s == AllPairs(r, effects)
           t == AllPairs(q, effects)
<1>m. m \in Nat /\ m \in 0 .. m /\ \A n \in 1 .. m : IsEffect(effects[n])
  OBVIOUS
<1>1. PICK f : Loop(r, effects, m, f) /\ s = f[m]
  BY AllPairsLoop
<1>2. PICK g : Loop(q, effects, m, g) /\ t = g[m]
  BY AllPairsLoop
<1> HIDE DEF m, s, t
<1>3. \A n \in 0 .. m : Alike(r, q, effects, n, f[n], g[n])
  BY <1>m, <1>1, <1>2, LoopTwo
<1>4. Alike(r, q, effects, m, s, t)
  BY <1>m, <1>1, <1>2, <1>3
<1> QED BY <1>4 DEF m, s, t

\* An error whose code is OkCode or PushCode without its bit; y is what is left of
\* the error x when the response is decoded once more.
Masked(e) == e # Absent /\ The(e).kind = "server" /\ The(e).code \in {OkCode, PushCode}
Fades(x, y) == x = y \/ (Masked(x) /\ y = Absent)

\* Decoding what decoding left gives the same error, unless that fades, and no
\* other data.
LEMMA ResultSame ==
    ASSUME NEW how, NEW r, NEW q, HasKeys(r, RespKeys), HasKeys(q, RespKeys),
           NEW effects, Len(effects) \in Nat,
           \A n \in 1 .. Len(effects) : IsEffect(effects[n]),
           IsCode(r["code"]), q["code"] = r["code"] \/ q["code"] = ClearErrorBit(r["code"]),
           q["Error"] = r["Error"] \/ \E k \in 1 .. Len(effects) : Tells(effects[k])
    PROVE  LET a == ResultOf(how, r, effects)
               b == ResultOf(how, q, effects)
           IN Fades(a["err"], b["err"]) /\ SameData(r, q, a, b)
<1> DEFINE m == Len(effects)
           s == AllPairs(r, effects)
           t == AllPairs(q, effects)
           a == ResultOf(how, r, effects)
           b == ResultOf(how, q, effects)
           E(st) == IF how = "Get" /\ st.resp["err"] = Absent /\ Half(st.locals)
                    THEN Some([kind |-> "incomplete ID"]) ELSE st.resp["err"]
<1>5. a["err"] = ErrOf(how, r, s) /\ a["Data"] = DataOf(how, s)
  BY ResultDoes
<1>6. b["err"] = ErrOf(how, q, t) /\ b["Data"] = DataOf(how, t)
  BY ResultDoes
<1>7. Alike(r, q, effects, m, s, t)
  BY PairsTwo
<1> HIDE DEF m, s, t, a, b
<1>8. E(s) = E(t)
  BY <1>7 DEF Alike
<1>9. E(s) # Absent \/ s.resp["Error"] = t.resp["Error"]
  <2>1. s.resp["err"] # Absent => E(s) # Absent
    OBVIOUS
  <2>2. (\A k \in 1 .. m : ~Tells(effects[k])) => q["Error"] = r["Error"]
    BY DEF m
  <2> QED BY <1>7, <2>1, <2>2 DEF Alike
<1> HIDE DEF E
<1>11. ErrOf(how, r, s) = FinalErr(r["code"], s.resp["Error"], s.locals["extended"], E(s))
  BY Zenon DEF ErrOf, E
<1>12. ErrOf(how, q, t) = FinalErr(q["code"], t.resp["Error"], t.locals["extended"], E(t))
  BY Zenon DEF ErrOf, E
<1>13. s.locals = t.locals
  BY <1>7 DEF Alike
<1>14. Fades(a["err"], b["err"])
  <2>1. CASE q["code"] \notin {OkCode, PushCode}
    <3>1. r["code"] \notin {OkCode, PushCode} /\ ClearErrorBit(q["code"]) = ClearErrorBit(r["code"])
      BY <2>1, CodesAgree
    <3>2. a["err"] = b["err"]
      BY <1>5, <1>6, <1>8, <1>9, <1>11, <1>12, <1>13, <2>1, <3>1 DEF FinalErr
    <3> QED BY <3>2 DEF Fades
  <2>2. CASE q["code"] \in {OkCode, PushCode}
    <3>1. b["err"] = E(s)
      BY <1>6, <1>8, <1>12, <2>2, Zenon DEF FinalErr
    <3>2. CASE E(s) # Absent \/ r["code"] \in {OkCode, PushCode}
      <4>1. a["err"] = E(s)
        BY <1>5, <1>11, <3>2, Zenon DEF FinalErr
      <4> QED BY <3>1, <4>1 DEF Fades
    <3>3. CASE ~(E(s) # Absent \/ r["code"] \in {OkCode, PushCode})
      <4> DEFINE v == [kind |-> "server", code |-> ClearErrorBit(r["code"]),
                       msg |-> s.resp["Error"], extended |-> s.locals["extended"]]
      <4>1. a["err"] = Some(v)
        BY <1>5, <1>11, <3>3, Zenon DEF FinalErr
      <4>2. v.kind = "server" /\ v.code = q["code"]
        BY <2>2, <3>3
      <4> HIDE DEF v
      <4>3. The(a["err"]) = v /\ a["err"] # Absent
        BY <4>1, SomeIsThere DEF The, Some
      <4> QED BY <2>2, <3>1, <3>3, <4>2, <4>3 DEF Fades, Masked
    <3> QED BY <3>2, <3>3
  <2> QED BY <2>1, <2>2
<1>15. SameData(r, q, a, b)
  <2>1. SameData(r, q, s.resp, t.resp) /\ s.resp["err"] = t.resp["err"]
    BY <1>7 DEF Alike
  <2> QED BY <1>5, <1>6, <1>13, <2>1 DEF SameData, DataOf, SpecialData
<1> QED BY <1>14, <1>15 DEF a, b

\* The decoder of Get and of the iterators, and that of GetTyped.
Decoded(how, r) == IF how = "Get" THEN DecodeBody(r) ELSE DecodeBodyTyped(r)
EffectOf(how, p) == IF how = "Get" THEN DecodePair(p) ELSE DecodeCommon(p)
EffectsOf(how, pairs) == [n \in DOMAIN pairs |-> EffectOf(how, pairs[n])]
NotRead(how, b) == b = Absent \/ (how = "Get" /\ b = Some(<<>>))

\* A body as the server sends it, and one that tells a message.
IsBody(b) == b # Absent => The(b) \in Seq(ToSet(The(b)))
Message(p) == p.key = "Error24" /\ p.val # Absent
HasMessage(b) == b # Absent /\ \E k \in 1 .. Len(The(b)) : Message(The(b)[k])

\* Both decoders have this form.
LEMMA DecodedIs ==
    ASSUME NEW how \in {"Get", "GetTyped"}, NEW r
    PROVE  Decoded(how, r) = IF NotRead(how, r["body"]) THEN Assigned(r, "err", Absent)
                             ELSE ResultOf(how, r, EffectsOf(how, The(r["body"])))
<1>1. CASE how = "Get"
  <2> DEFINE effects == [n \in DOMAIN The(r.body) |-> DecodePair(The(r.body)[n])]
             st == AllPairs(r, effects)
             end == IF st.resp.err # Absent THEN st.resp ELSE ServerError(Special(st))
  <2>1. EffectsOf("Get", The(r["body"])) = effects
    BY DEF EffectsOf, EffectOf
  <2>2. end = ServerError(Finished("Get", st))
    <3> HIDE DEF st
    <3>1. CASE st.resp.err # Absent
      <4>1. Finished("Get", st) = st
        BY <3>1 DEF Finished
      <4>2. ServerError(st) = st.resp
        BY <3>1, Zenon DEF ServerError
      <4> QED BY <3>1, <4>1, <4>2
    <3>2. CASE st.resp.err = Absent
      BY <3>2 DEF Finished
    <3> QED BY <3>1, <3>2
  <2>3. ResultOf("Get", r, effects) = Assigned(end, "body", Rewound(end.body))
    <3> HIDE DEF effects, end
    <3>1. end = ServerError(Finished("Get", AllPairs(r, effects)))
      BY <2>2, Zenon
    <3> QED BY <3>1, Zenon DEF ResultOf
  <2>4. DecodeBody(r) = IF r.body \in {Absent, Some(<<>>)} THEN Assigned(r, "err", Absent)
                        ELSE Assigned(end, "body", Rewound(end.body))
    BY Zenon DEF DecodeBody
  <2> HIDE DEF effects, end
  <2>5. NotRead("Get", r["body"]) <=> r.body \in {Absent, Some(<<>>)}
    BY DEF NotRead
  <2>6. Decoded("Get", r) = DecodeBody(r)
    BY DEF Decoded
  <2> QED BY <1>1, <2>1, <2>3, <2>4, <2>5, <2>6
<1>2. CASE how = "GetTyped"
  <2> DEFINE effects == [n \in DOMAIN The(r.body) |-> DecodeCommon(The(r.body)[n])]
             end == ServerError(AllPairs(r, effects))
  <2>1. EffectsOf("GetTyped", The(r["body"])) = effects
    BY DEF EffectsOf, EffectOf
  <2>2. Finished("GetTyped", AllPairs(r, effects)) = AllPairs(r, effects)
    <3> DEFINE st == AllPairs(r, effects)
    <3> HIDE DEF st
    <3>1. Finished("GetTyped", st) = st
      BY DEF Finished
    <3> QED BY <3>1 DEF st
  <2>3. ResultOf("GetTyped", r, effects) = Assigned(end, "body", Rewound(end.body))
    BY <2>2, Zenon DEF ResultOf
  <2>4. DecodeBodyTyped(r) = IF r.body = Absent THEN Assigned(r, "err", Absent)
                             ELSE Assigned(end, "body", Rewound(end.body))
    BY Zenon DEF DecodeBodyTyped
  <2> HIDE DEF effects, end
  <2>5. NotRead("GetTyped", r["body"]) <=> r.body = Absent
    BY DEF NotRead
  <2>6. Decoded("GetTyped", r) = DecodeBodyTyped(r)
    BY DEF Decoded
  <2> QED BY <1>2, <2>1, <2>3, <2>4, <2>5, <2>6
<1> QED BY <1>1, <1>2

\* The effects of a body are one for every pair, and tell the messages it has.
LEMMA EffectsSound ==
    ASSUME NEW how \in {"Get", "GetTyped"}, NEW pairs, pairs \in Seq(ToSet(pairs))
    PROVE  LET effects == EffectsOf(how, pairs) IN
           /\ Len(effects) = Len(pairs) /\ Len(effects) \in Nat
           /\ \A n \in 1 .. Len(effects) :
                 /\ effects[n] = EffectOf(how, pairs[n])
                 /\ IsEffect(effects[n]) /\ (Tells(effects[n]) <=> Message(pairs[n]))
                 /\ (how = "GetTyped" => ~OnData(effects[n]))
<1> DEFINE effects == EffectsOf(how, pairs)
<1>1. DOMAIN pairs = 1 .. Len(pairs) /\ Len(pairs) \in Nat
  OBVIOUS
<1>2. effects = [n \in 1 .. Len(pairs) |-> EffectOf(how, pairs[n])]
  BY <1>1 DEF EffectsOf
<1>3. Len(effects) = Len(pairs)
  <2> HIDE DEF effects
  <2> DEFINE L == Len(pairs)
  <2> HIDE DEF L
  <2>1. effects = [n \in 1 .. L |-> EffectOf(how, pairs[n])] /\ L \in Nat
    BY <1>1, <1>2 DEF L
  <2>2. Len(effects) = L
    BY <2>1
  <2> QED BY <2>2 DEF L
<1>4. ASSUME NEW p
      PROVE  /\ IsEffect(EffectOf(how, p)) /\ (Tells(EffectOf(how, p)) <=> Message(p))
             /\ how = "GetTyped" => ~OnData(EffectOf(how, p))
  <2> DEFINE e == EffectOf(how, p)
  <2>1. /\ IsEffect(e) /\ (Tells(e) => p.key = "Error24" /\ p.val # Absent)
        /\ p.key = "Error24" => e = Put("Error", p.val)
        /\ how = "GetTyped" => ~OnData(e)
    <3>1. CASE how = "Get"
      <4>1. e = DecodePair(p)
        BY <3>1 DEF EffectOf
      <4> HIDE DEF e
      <4> QED BY <3>1, <4>1, PairEffects
    <3>2. CASE how = "GetTyped"
      <4>1. e = DecodeCommon(p)
        BY <3>2 DEF EffectOf
      <4> HIDE DEF e
      <4> QED BY <4>1, CommonEffects
    <3> QED BY <3>1, <3>2
  <2> HIDE DEF e
  <2>2. Message(p) => Tells(e)
    <3> SUFFICES ASSUME Message(p) PROVE Tells(e)
      OBVIOUS
    <3>1. e = Put("Error", p.val) /\ p.val # Absent
      BY <2>1 DEF Message
    <3>2. Put("Error", p.val).does = "put" /\ Put("Error", p.val).field = "Error"
      BY <3>1, PutEffect
    <3> QED BY <3>1, <3>2 DEF Tells
  <2> QED BY <2>1, <2>2 DEF e, Message
<1>5. \A n \in 1 .. Len(pairs) : effects[n] = EffectOf(how, pairs[n])
  BY <1>2
<1> HIDE DEF effects
<1>6. \A n \in 1 .. Len(pairs) :
         /\ effects[n] = EffectOf(how, pairs[n])
         /\ IsEffect(effects[n]) /\ (Tells(effects[n]) <=> Message(pairs[n]))
         /\ (how = "GetTyped" => ~OnData(effects[n]))
  BY <1>4, <1>5
<1> QED BY <1>1, <1>3, <1>6 DEF effects

\* Decoding keeps the body, the code up to its bit, and the message unless the body
\* tells it; GetTyped keeps the data.
LEMMA DecodedKeeps ==
    ASSUME NEW how \in {"Get", "GetTyped"}, NEW r, HasKeys(r, RespKeys), IsBody(r["body"])
    PROVE  LET q == Decoded(how, r) IN
           /\ HasKeys(q, RespKeys) /\ q["body"] = r["body"]
           /\ \/ q["code"] = r["code"]
              \/ r["code"] \notin {OkCode, PushCode} /\ q["code"] = ClearErrorBit(r["code"])
           /\ q["Error"] = r["Error"] \/ HasMessage(r["body"])
           /\ how = "GetTyped" => q["Data"] = r["Data"]
<1> DEFINE q == Decoded(how, r)
           pairs == The(r["body"])
           effects == EffectsOf(how, pairs)
<1>1. CASE NotRead(how, r["body"])
  <2> DEFINE none == Absent
  <2> HIDE DEF none
  <2>1. q = Assigned(r, "err", none)
    BY <1>1, DecodedIs DEF none
  <2>2. "err" \in RespKeys
    BY DEF RespKeys
  <2> HIDE DEF q
  <2>3. HasKeys(q, RespKeys) /\ \A k \in RespKeys : k # "err" => q[k] = r[k]
    BY <2>1, <2>2, AssignedKeys
  <2>4. q["body"] = r["body"] /\ q["code"] = r["code"] /\ q["Error"] = r["Error"] /\ q["Data"] = r["Data"]
    BY <2>3 DEF RespKeys
  <2> QED BY <2>3, <2>4 DEF q
<1>2. CASE ~NotRead(how, r["body"])
  <2>1. q = ResultOf(how, r, effects)
    BY <1>2, DecodedIs
  <2>2. r["body"] # Absent /\ pairs \in Seq(ToSet(pairs))
    BY <1>2 DEF NotRead, IsBody
  <2> HIDE DEF q, pairs
  <2>3. /\ Len(effects) = Len(pairs) /\ Len(effects) \in Nat
        /\ \A n \in 1 .. Len(effects) :
              IsEffect(effects[n]) /\ (Tells(effects[n]) <=> Message(pairs[n]))
              /\ (how = "GetTyped" => ~OnData(effects[n]))
    BY <2>2, EffectsSound
  <2> HIDE DEF effects
  <2>4. /\ HasKeys(q, RespKeys) /\ q["body"] = r["body"]
        /\ \/ q["code"] = r["code"]
           \/ r["code"] \notin {OkCode, PushCode} /\ q["code"] = ClearErrorBit(r["code"])
        /\ q["Error"] = r["Error"] \/ \E k \in 1 .. Len(effects) : Tells(effects[k])
    BY <2>1, <2>3, ResultDoes
  <2>5. (\E k \in 1 .. Len(effects) : Tells(effects[k])) => HasMessage(r["body"])
    BY <2>2, <2>3 DEF HasMessage, pairs
  <2>6. how = "GetTyped" => q["Data"] = r["Data"]
    <3> SUFFICES ASSUME how = "GetTyped" PROVE q["Data"] = r["Data"]
      OBVIOUS
    <3> DEFINE m == Len(effects)
               st == AllPairs(r, effects)
    <3>1. PICK f : Loop(r, effects, m, f) /\ st = f[m]
      BY <2>3, AllPairsLoop
    <3>2. m \in Nat /\ m \in 0 .. m /\ \A n \in 1 .. m : IsEffect(effects[n])
      BY <2>3
    <3>3. f[m].resp["Data"] = r["Data"] \/ \E k \in 1 .. m : OnData(effects[k])
      <4> HIDE DEF m
      <4>1. \A n \in 0 .. m : f[n].resp["Data"] = r["Data"] \/ \E k \in 1 .. n : OnData(effects[k])
        BY <3>1, <3>2, LoopOne
      <4> QED BY <3>2, <4>1
    <3>4. q["Data"] = DataOf(how, st)
      BY <2>1, <2>3, ResultDoes
    <3> HIDE DEF st
    <3> QED BY <2>3, <3>1, <3>3, <3>4 DEF DataOf
  <2> QED BY <2>4, <2>5, <2>6 DEF q
<1> QED BY <1>1, <1>2

\* Two responses that differ at most so are decoded alike.
LEMMA DecodedAgain ==
    ASSUME NEW how \in {"Get", "GetTyped"}, NEW r, NEW q, HasKeys(r, RespKeys), HasKeys(q, RespKeys),
           IsBody(r["body"]), q["body"] = r["body"], IsCode(r["code"]),
           q["code"] = r["code"] \/ q["code"] = ClearErrorBit(r["code"]),
           q["Error"] = r["Error"] \/ HasMessage(r["body"])
    PROVE  /\ Fades(Decoded(how, r)["err"], Decoded(how, q)["err"])
           /\ SameData(r, q, Decoded(how, r), Decoded(how, q))
<1> DEFINE pairs == The(r["body"])
           effects == EffectsOf(how, pairs)
<1>1. CASE NotRead(how, r["body"])
  <2> DEFINE none == Absent
             a == Assigned(r, "err", none)
             b == Assigned(q, "err", none)
  <2> HIDE DEF none
  <2>1. Decoded(how, r) = a /\ Decoded(how, q) = b
    BY <1>1, DecodedIs DEF none
  <2>2. "err" \in RespKeys
    BY DEF RespKeys
  <2>3. a["err"] = none /\ \A k \in RespKeys : k # "err" => a[k] = r[k]
    BY <2>2, AssignedKeys
  <2>4. b["err"] = none /\ \A k \in RespKeys : k # "err" => b[k] = q[k]
    BY <2>2, AssignedKeys
  <2> HIDE DEF a, b
  <2>5. a["Data"] = r["Data"] /\ b["Data"] = q["Data"]
    BY <2>3, <2>4 DEF RespKeys
  <2> QED BY <2>1, <2>3, <2>4, <2>5 DEF Fades, SameData
<1>2. CASE ~NotRead(how, r["body"])
  <2>1. Decoded(how, r) = ResultOf(how, r, effects)
    BY <1>2, DecodedIs
  <2>2. Decoded(how, q) = ResultOf(how, q, effects)
    BY <1>2, DecodedIs
  <2>3. r["body"] # Absent /\ pairs \in Seq(ToSet(pairs))
    BY <1>2 DEF NotRead, IsBody
  <2> HIDE DEF pairs
  <2>4. /\ Len(effects) = Len(pairs) /\ Len(effects) \in Nat
        /\ \A n \in 1 .. Len(effects) : IsEffect(effects[n]) /\ (Tells(effects[n]) <=> Message(pairs[n]))
    BY <2>3, EffectsSound
  <2> HIDE DEF effects
  <2>5. HasMessage(r["body"]) => \E k \in 1 .. Len(effects) : Tells(effects[k])
    BY <2>4 DEF HasMessage, pairs
  <2>6. /\ Fades(ResultOf(how, r, effects)["err"], ResultOf(how, q, effects)["err"])
        /\ SameData(r, q, ResultOf(how, r, effects), ResultOf(how, q, effects))
    BY <2>4, <2>5, ResultSame
  <2> QED BY <2>1, <2>2, <2>6
<1> QED BY <1>1, <1>2

-----------------------------------------------------------------------------
(* Future: the stack of errors.                                            *)

\* A stack of errors; an answer that holds it, at its k-th pair.
IsStack(s) ==
    /\ s \in Seq(ToSet(s)) /\ s # <<>>
    /\ \A e \in ToSet(s) : e = [k \in ErrorKeys \cup {"Fields"} |-> e[k]]
HoldsStack(pairs, k, s) ==
    /\ pairs \in Seq(ToSet(pairs)) /\ k \in 1 .. Len(pairs)
    /\ pairs[k].key = "Error" /\ pairs[k].val = Some(EncodeBoxError(s))
    /\ \A m, n \in 1 .. Len(pairs) : pairs[m].key = pairs[n].key => m = n
    /\ \A n \in 1 .. Len(pairs) : pairs[n].key \in {"Error", "Error24"} /\ pairs[n].val # Absent

\* The stack of such an answer is read back.
LEMMA StackRoundTrip ==
    ASSUME NEW s, IsStack(s) PROVE DecodeBoxError(EncodeBoxError(s)) = Some(s)
<1> DEFINE Keys == ErrorKeys \cup {"Fields"}
           V == {e[k] : e \in ToSet(s), k \in Keys}
<1>1. ASSUME NEW e \in ToSet(s) PROVE e \in [Keys -> V]
  <2>1. e = [k \in Keys |-> e[k]]
    BY DEF IsStack
  <2>2. \A k \in Keys : e[k] \in V
    OBVIOUS
  <2> HIDE DEF V, Keys
  <2> QED BY <2>1, <2>2
<1> HIDE DEF V
<1>2. s \in Seq([Keys -> V])
  <2> DEFINE T == [Keys -> V]
  <2> HIDE DEF T, Keys
  <2>1. \A e \in ToSet(s) : e \in T
    BY <1>1 DEF T
  <2>2. s \in Seq(T)
    BY <2>1, SeqMonotonic DEF IsStack
  <2> QED BY <2>2 DEF T
<1> QED BY <1>2, BoxErrorRoundTrip DEF IsStack

\* Its pairs assign the message, and the stack once.
LEMMA StackEffects ==
    ASSUME NEW how \in {"Get", "GetTyped"}, NEW pairs, NEW k, NEW s, IsStack(s),
           HoldsStack(pairs, k, s), NEW n \in 1 .. Len(pairs)
    PROVE  LET e == EffectOf(how, pairs[n]) IN
           \/ n # k /\ e.does = "put"
           \/ n = k /\ e.does = "hold" /\ e.field = "extended" /\ e.val = Some(s)
<1> DEFINE p == pairs[n]
           e == EffectOf(how, p)
<1>1. p.key \in {"Error", "Error24"} /\ p.val # Absent
  BY DEF HoldsStack
<1>2. CASE p.key = "Error24"
  <2>1. e = Put("Error", p.val)
    BY <1>2, PairEffects, CommonEffects DEF EffectOf
  <2> HIDE DEF e
  <2>2. e.does = "put"
    <3>1. Put("Error", p.val).does = "put"
      BY <1>1, PutEffect
    <3> QED BY <2>1, <3>1
  <2>3. n # k
    BY <1>2 DEF HoldsStack
  <2> QED BY <2>2, <2>3 DEF e
<1>3. CASE p.key = "Error"
  <2>1. n = k
    BY <1>3 DEF HoldsStack
  <2>2. e = DecodeCommon(p)
    BY <1>3, PairEffects DEF EffectOf
  <2> DEFINE x == IF p.val = Absent THEN Absent ELSE DecodeBoxError(The(p.val))
             y == IF x = Absent THEN Absent ELSE Some(x)
  <2>3. DecodeCommon(p) = Hold("extended", y)
    BY <1>3, Zenon DEF DecodeCommon
  <2>4. The(p.val) = EncodeBoxError(s)
    <3>1. p.val = Some(EncodeBoxError(s))
      BY <2>1 DEF HoldsStack
    <3> DEFINE z == EncodeBoxError(s)
    <3> HIDE DEF z
    <3>2. p.val = Some(z)
      BY <3>1 DEF z
    <3>3. The(p.val) = z
      BY <3>2 DEF The, Some
    <3> QED BY <3>3 DEF z
  <2>5. x = Some(s)
    BY <1>1, <2>4, StackRoundTrip, Zenon
  <2>6. y = Some(Some(s))
    <3> HIDE DEF x
    <3> QED BY <2>5, SomeIsThere
  <2> HIDE DEF x, y, e
  <2>7. e = Hold("extended", y) /\ y # Absent /\ The(y) = Some(s)
    BY <2>2, <2>3, <2>6, SomeIsThere DEF The, Some
  <2>8. /\ Hold("extended", y).does = "hold" /\ Hold("extended", y).field = "extended"
        /\ Hold("extended", y).val = The(y)
    BY <2>7, HoldEffect
  <2> QED BY <2>1, <2>7, <2>8 DEF e
<1> QED BY <1>1, <1>2, <1>3

\* So the loop over them ends without an error and holds the stack.
LEMMA StackLoop ==
    ASSUME NEW how \in {"Get", "GetTyped"}, NEW pairs, NEW k, NEW s, IsStack(s),
           HoldsStack(pairs, k, s), NEW r, HasKeys(r, RespKeys)
    PROVE  LET st == AllPairs(r, EffectsOf(how, pairs)) IN
           st.resp["err"] = Absent /\ ~Half(st.locals) /\ st.locals["extended"] = Some(s)
<1> DEFINE effects == EffectsOf(how, pairs)
           m == Len(effects)
           st == AllPairs(r, effects)
<1>1. pairs \in Seq(ToSet(pairs)) /\ k \in 1 .. Len(pairs)
  BY DEF HoldsStack
<1>2. /\ m = Len(pairs) /\ m \in Nat
      /\ \A n \in 1 .. m : effects[n] = EffectOf(how, pairs[n]) /\ IsEffect(effects[n])
  BY <1>1, EffectsSound
<1>3. \A n \in 1 .. m :
         \/ n # k /\ effects[n].does = "put"
         \/ n = k /\ effects[n].does = "hold" /\ effects[n].field = "extended" /\ effects[n].val = Some(s)
  <2> HIDE DEF effects, m
  <2> QED BY <1>2, StackEffects
<1> HIDE DEF effects
<1>4. PICK f : Loop(r, effects, m, f) /\ st = f[m]
  BY <1>2, AllPairsLoop
<1> HIDE DEF m, st
<1>5. f[0] = Start(r) /\ \A n \in Nat : n + 1 \in 0 .. m =>
         f[n + 1] = IF f[n].resp.err # Absent THEN f[n] ELSE Perform(f[n], effects[n + 1])
  <2>1. Stepwise(r, effects, m, f)
    BY <1>2, <1>4, LoopSteps
  <2> QED BY <2>1, Zenon DEF Stepwise
<1> DEFINE Good(n) ==
              /\ f[n].resp["err"] = Absent
              /\ f[n].locals["Version"] = 0 /\ f[n].locals["Features"] = Absent
              /\ k <= n => f[n].locals["extended"] = Some(s)
           P == {n \in Nat : n \in 0 .. m => Good(n)}
<1>6. 0 \in P
  <2>1. f[0].resp["err"] = Absent /\ f[0].locals["Version"] = 0 /\ f[0].locals["Features"] = Absent
    BY <1>5, StartState
  <2>2. ~(k <= 0)
    BY <1>1
  <2> QED BY <2>1, <2>2
<1>7. ASSUME NEW n \in Nat, n \in P PROVE n + 1 \in P
  <2> SUFFICES ASSUME n + 1 \in 0 .. m PROVE Good(n + 1)
    OBVIOUS
  <2>1. Good(n) /\ n \in 0 .. m /\ n + 1 \in 1 .. m /\ n + 1 \in Nat
    BY <1>2, <1>7
  <2> DEFINE a == f[n]
             b == f[n + 1]
             e == effects[n + 1]
  <2>2. b = Perform(a, e)
    BY <1>5, <2>1
  <2>3. IsState(a) /\ IsEffect(e)
    BY <1>2, <1>4, <2>1, LoopOne
  <2>4. \/ n + 1 # k /\ e.does = "put"
        \/ n + 1 = k /\ e.does = "hold" /\ e.field = "extended" /\ e.val = Some(s)
    BY <1>3, <2>1
  <2>5. a.resp["err"] = Absent /\ a.locals["Version"] = 0 /\ a.locals["Features"] = Absent
    BY <2>1
  <2>6. k <= n => a.locals["extended"] = Some(s)
    BY <2>1
  <2> HIDE DEF a, b, e, Good
  <2>7. /\ b.resp["err"] = IF e.does = "fail" THEN Some([kind |-> e.why]) ELSE a.resp["err"]
        /\ b.locals = IF e.does = "hold" THEN Assigned(a.locals, e.field, e.val) ELSE a.locals
    BY <2>2, <2>3, PerformDoes
  <2>8. b.resp["err"] = Absent
    BY <2>4, <2>5, <2>7
  <2>9. CASE n + 1 # k
    <3>1. b.locals = a.locals
      BY <2>4, <2>7, <2>9
    <3>2. k <= n + 1 => k <= n
      BY <1>1, <2>9
    <3> QED BY <2>5, <2>6, <2>8, <3>1, <3>2 DEF Good, b
  <2>10. CASE n + 1 = k
    <3> DEFINE v == Some(s)
    <3> HIDE DEF v
    <3>1. b.locals = Assigned(a.locals, "extended", v)
      BY <2>4, <2>7, <2>10 DEF v
    <3>2. HasKeys(a.locals, LocalKeys) /\ "extended" \in LocalKeys
      BY <2>3 DEF IsState, LocalKeys
    <3>3. b.locals["extended"] = v /\ \A x \in LocalKeys : x # "extended" => b.locals[x] = a.locals[x]
      BY <3>1, <3>2, AssignedKeys
    <3>4. b.locals["Version"] = 0 /\ b.locals["Features"] = Absent
      BY <2>5, <3>3 DEF LocalKeys
    <3> QED BY <2>8, <3>3, <3>4 DEF Good, b, v
  <2> QED BY <2>9, <2>10
<1> HIDE DEF P
<1>8. \A n \in Nat : n \in P
  BY <1>6, <1>7, SetInduction
<1>9. Good(m)
  BY <1>2, <1>8 DEF P
<1>10. k <= m
  BY <1>1, <1>2
<1>11. st.resp["err"] = Absent /\ ~Half(st.locals) /\ st.locals["extended"] = Some(s)
  BY <1>4, <1>9, <1>10 DEF Half
<1> QED BY <1>11 DEF st, effects

\* An error that holds the stack s, if it is one.
ToldStack(e, s) == e # Absent => The(e).kind = "server" /\ The(e).extended = Some(s)

\* The answer of a server that sends a stack is decoded to an error that holds it.
LEMMA StackDecoded ==
    ASSUME NEW how \in {"Get", "GetTyped"}, NEW k, NEW s, IsStack(s), NEW r, HasKeys(r, RespKeys),
           r["body"] # Absent, HoldsStack(The(r["body"]), k, s)
    PROVE  ToldStack(Decoded(how, r)["err"], s)
<1> DEFINE pairs == The(r["body"])
           effects == EffectsOf(how, pairs)
           st == AllPairs(r, effects)
           e == Decoded(how, r)["err"]
<1>1. ~NotRead(how, r["body"])
  <2>1. The(Some(<<>>)) = <<>>
    BY DEF The, Some
  <2>2. The(r["body"]) # <<>>
    <3>1. ~HoldsStack(<<>>, k, s)
      BY DEF HoldsStack
    <3> QED BY <3>1
  <2> QED BY <2>1, <2>2 DEF NotRead
<1>2. Decoded(how, r) = ResultOf(how, r, effects)
  BY <1>1, DecodedIs
<1>3. /\ Len(effects) \in Nat /\ \A n \in 1 .. Len(effects) : IsEffect(effects[n])
  <2> HIDE DEF pairs
  <2>1. pairs \in Seq(ToSet(pairs))
    BY DEF HoldsStack, pairs
  <2> QED BY <2>1, EffectsSound
<1>4. st.resp["err"] = Absent /\ ~Half(st.locals) /\ st.locals["extended"] = Some(s)
  BY StackLoop
<1> HIDE DEF effects
<1>5. e = ErrOf(how, r, st)
  BY <1>2, <1>3, ResultDoes
<1> HIDE DEF st, e
<1>6. e = FinalErr(r["code"], st.resp["Error"], Some(s), Absent)
  BY <1>4, <1>5, Zenon DEF ErrOf
<1>7. ASSUME e # Absent PROVE The(e).kind = "server" /\ The(e).extended = Some(s)
  <2> DEFINE v == [kind |-> "server", code |-> ClearErrorBit(r["code"]), msg |-> st.resp["Error"],
                   extended |-> Some(s)]
  <2>1. e = Some(v)
    BY <1>6, <1>7, Zenon DEF FinalErr
  <2>2. v.kind = "server" /\ v.extended = Some(s)
    OBVIOUS
  <2> HIDE DEF v
  <2> QED BY <2>1, <2>2 DEF The, Some
<1> QED BY <1>7 DEF ToldStack, e

-----------------------------------------------------------------------------
(* Future: the outcome.                                                    *)

\* The response of the future: its code, a body the server sent, and a message
\* only if the body tells one.
IsResp(r) ==
    /\ HasKeys(r, RespKeys) /\ IsCode(r["code"])
    /\ \E a \in Answers : r["body"] = a[2]
    /\ r["Error"] = Absent \/ HasMessage(r["body"])

\* The error e tells the stack that the body b holds.
TellsStack(e, b) ==
    b # Absent /\ e # Absent =>
        \A p \in ToSet(The(b)) : p.key = "Error" =>
            /\ The(e).kind = "server" /\ The(e).extended # Absent
            /\ EncodeBoxError(The(The(e).extended)) = The(p.val)

\* The data a call returns.
Returns(how, r) == IF how = "Get" THEN Decoded("Get", r)["Data"] ELSE TypedResult(r)

\* What Get returned is what it would return now, unless the error has faded.
Right(g, rs) ==
    IF rs = Absent THEN g.err = Some([kind |-> "future"]) /\ g.data = Absent
    ELSE /\ g.how \in {"Get", "GetTyped"}
         /\ Fades(g.err, Decoded(g.how, The(rs))["err"]) /\ g.data = Returns(g.how, The(rs))
         /\ TellsStack(g.err, The(rs)["body"])

\* The inductive invariant about the outcome.
OutcomeInv ==
    /\ done => resp # Absent \/ err
    /\ gets # {} => done
    /\ resp # Absent => IsResp(The(resp))
    /\ \A g \in gets : Right(g, resp)

\* What is there is what was put there.
LEMMA TheSome == \A v : The(Some(v)) = v
  BY DEF The, Some

\* The body of the response is one the server sent,
LEMMA AnswerBodies ==
    ASSUME NEW r, IsResp(r) PROVE IsBody(r["body"])
<1>1. PICK a \in Answers : r["body"] = a[2]
  BY DEF IsResp
<1>2. a[2] # Absent => The(a[2]) \in Seq(ToSet(The(a[2])))
  BY AnswersAssumption, Zenon
<1> QED BY <1>1, <1>2 DEF IsBody

\* and if it has an error in full, this is the encoding of a stack.
LEMMA AnswerStacks ==
    ASSUME NEW r, IsResp(r), r["body"] # Absent, NEW p \in ToSet(The(r["body"])), p.key = "Error"
    PROVE  \E s, k : /\ IsStack(s) /\ p.val = Some(EncodeBoxError(s)) /\ HoldsStack(The(r["body"]), k, s)
<1>1. PICK a \in Answers : r["body"] = a[2]
  BY DEF IsResp
<1> DEFINE pairs == The(a[2])
<1>2. a[2] # Absent /\ p \in ToSet(pairs)
  BY <1>1
<1>3. /\ pairs \in Seq(ToSet(pairs))
      /\ \A m, n \in DOMAIN pairs : pairs[m].key = pairs[n].key => m = n
  BY <1>2, AnswersAssumption, Zenon
<1>4. /\ \E s \in Stacks : p.val = Some(EncodeBoxError(s))
      /\ \A q \in ToSet(pairs) : q.key \in {"Error", "Error24"} /\ q.val # Absent
  <2> DEFINE all == IF a[2] = Absent THEN {} ELSE ToSet(pairs)
  <2>1. all = ToSet(pairs)
    BY <1>2
  <2>2. \A x \in all : x.key = "Error" =>
            /\ \E s \in Stacks : x.val = Some(EncodeBoxError(s))
            /\ \A q \in all : q.key \in {"Error", "Error24"} /\ q.val # Absent
    BY StacksAssumption, Zenon
  <2> HIDE DEF all, pairs
  <2> QED BY <1>2, <2>1, <2>2, Zenon
<1> HIDE DEF pairs
<1>5. PICK s \in Stacks : p.val = Some(EncodeBoxError(s))
  BY <1>4
<1>6. IsStack(s)
  BY StacksAssumption, Zenon DEF IsStack
<1>7. PICK k \in DOMAIN pairs : p = pairs[k]
  BY <1>2 DEF ToSet
<1>8. DOMAIN pairs = 1 .. Len(pairs)
  BY <1>3
<1>9. \A n \in DOMAIN pairs : pairs[n] \in ToSet(pairs)
  BY DEF ToSet
<1>10. HoldsStack(pairs, k, s)
  BY <1>3, <1>4, <1>5, <1>7, <1>8, <1>9 DEF HoldsStack
<1> QED BY <1>1, <1>5, <1>6, <1>10 DEF pairs

\* An error that was just decoded tells the stack of the body.
LEMMA DecodedTells ==
    ASSUME NEW how \in {"Get", "GetTyped"}, NEW r, IsResp(r)
    PROVE  TellsStack(Decoded(how, r)["err"], r["body"])
<1> DEFINE e == Decoded(how, r)["err"]
<1> SUFFICES ASSUME r["body"] # Absent, e # Absent, NEW p \in ToSet(The(r["body"])), p.key = "Error"
             PROVE  /\ The(e).kind = "server" /\ The(e).extended # Absent
                    /\ EncodeBoxError(The(The(e).extended)) = The(p.val)
  BY DEF TellsStack
<1>1. PICK s, k : IsStack(s) /\ p.val = Some(EncodeBoxError(s)) /\ HoldsStack(The(r["body"]), k, s)
  BY AnswerStacks
<1>2. HasKeys(r, RespKeys)
  BY DEF IsResp
<1>3. The(e).kind = "server" /\ The(e).extended = Some(s)
  <2>1. ToldStack(Decoded(how, r)["err"], s)
    BY <1>1, <1>2, StackDecoded
  <2> QED BY <2>1 DEF ToldStack
<1> HIDE DEF e
<1>4. The(The(e).extended) = s /\ The(e).extended # Absent
  BY <1>3, TheSome, SomeIsThere
<1>5. The(p.val) = EncodeBoxError(s)
  BY <1>1, TheSome, Zenon
<1> QED BY <1>3, <1>4, <1>5

\* Decoding the response in place keeps what there is to tell.
LEMMA Redecoded ==
    ASSUME NEW how \in {"Get", "GetTyped"}, NEW r, IsResp(r)
    PROVE  LET q == Decoded(how, r) IN
           /\ IsResp(q) /\ q["body"] = r["body"]
           /\ \A h \in {"Get", "GetTyped"} :
                 Fades(Decoded(h, r)["err"], Decoded(h, q)["err"]) /\ Returns(h, q) = Returns(h, r)
<1> DEFINE q == Decoded(how, r)
<1>1. HasKeys(r, RespKeys) /\ IsCode(r["code"]) /\ IsBody(r["body"])
  BY AnswerBodies DEF IsResp
<1>2. /\ HasKeys(q, RespKeys) /\ q["body"] = r["body"]
      /\ \/ q["code"] = r["code"]
         \/ r["code"] \notin {OkCode, PushCode} /\ q["code"] = ClearErrorBit(r["code"])
      /\ q["Error"] = r["Error"] \/ HasMessage(r["body"])
      /\ how = "GetTyped" => q["Data"] = r["Data"]
  BY <1>1, DecodedKeeps
<1> HIDE DEF q
<1>3. IsCode(q["code"])
  <2>1. ASSUME NEW c, IsCode(c) PROVE IsCode(ClearErrorBit(c))
    <3>1. ErrorCodeBit \in Nat
      BY SMT DEF ErrorCodeBit
    <3> QED BY <2>1, <3>1 DEF IsCode, ClearErrorBit
  <2> QED BY <1>1, <1>2, <2>1
<1>4. IsResp(q)
  BY <1>2, <1>3 DEF IsResp
<1>5. ASSUME NEW h \in {"Get", "GetTyped"}
      PROVE  Fades(Decoded(h, r)["err"], Decoded(h, q)["err"]) /\ SameData(r, q, Decoded(h, r), Decoded(h, q))
  BY <1>1, <1>2, DecodedAgain
<1>6. Decoded("Get", q)["Data"] = Decoded("Get", r)["Data"]
  <2>1. SameData(r, q, Decoded("Get", r), Decoded("Get", q))
    BY <1>5
  <2>2. CASE how = "Get"
    <3>1. Decoded("Get", r) = q
      BY <2>2 DEF q
    <3> QED BY <2>1, <3>1 DEF SameData
  <2>3. CASE how = "GetTyped"
    BY <1>2, <2>1, <2>3 DEF SameData
  <2> QED BY <2>2, <2>3
<1>7. TypedResult(q) = TypedResult(r)
  <2> DEFINE At(pairs) == {n \in DOMAIN pairs :
                 pairs[n].key = "Data" /\ \A m \in 1 .. n : DecodeCommon(pairs[m]).does # "fail"}
             T(b) == IF b = Absent THEN Absent
                     ELSE IF At(The(b)) = {} THEN Absent ELSE The(b)[CHOOSE n \in At(The(b)) : TRUE].val
  <2>1. \A x : TypedResult(x) = T(x["body"])
    BY DEF TypedResult
  <2> HIDE DEF T
  <2> QED BY <1>2, <2>1
<1>8. \A h \in {"Get", "GetTyped"} : Returns(h, q) = Returns(h, r)
  BY <1>6, <1>7 DEF Returns
<1> QED BY <1>2, <1>4, <1>5, <1>8 DEF q

\* So what was returned before stays right.
LEMMA StaysRight ==
    ASSUME NEW how \in {"Get", "GetTyped"}, NEW rs, rs # Absent, IsResp(The(rs)), NEW g, Right(g, rs)
    PROVE  Right(g, Some(Decoded(how, The(rs))))
<1> DEFINE r == The(rs)
           q == Decoded(how, r)
<1>1. /\ q["body"] = r["body"]
      /\ \A h \in {"Get", "GetTyped"} :
            Fades(Decoded(h, r)["err"], Decoded(h, q)["err"]) /\ Returns(h, q) = Returns(h, r)
  BY Redecoded
<1>2. /\ g.how \in {"Get", "GetTyped"} /\ TellsStack(g.err, r["body"])
      /\ Fades(g.err, Decoded(g.how, r)["err"]) /\ g.data = Returns(g.how, r)
  BY DEF Right
<1> HIDE DEF r, q
<1>3. Fades(g.err, Decoded(g.how, q)["err"])
  <2>1. \A x, y, z : Fades(x, y) /\ Fades(y, z) => Fades(x, z)
    BY DEF Fades, Masked
  <2>2. Fades(Decoded(g.how, r)["err"], Decoded(g.how, q)["err"])
    BY <1>1, <1>2
  <2> QED BY <1>2, <2>1, <2>2
<1>4. The(Some(q)) = q /\ Some(q) # Absent
  BY TheSome, SomeIsThere
<1>5. g.data = Returns(g.how, q) /\ TellsStack(g.err, q["body"])
  BY <1>1, <1>2
<1>6. Right(g, Some(q))
  BY <1>2, <1>3, <1>4, <1>5 DEF Right
<1> QED BY <1>6 DEF q, r

\* A new future has no outcome; the server's answer is one.
LEMMA OutcomeInit == Init => OutcomeInv
  BY DEF Init, OutcomeInv

\* The answer of the server as SetResponse keeps it.
LEMMA MadeResponse ==
    ASSUME NEW a \in Answers PROVE IsResp(MakeResponse(a[1], a[2]))
<1> DEFINE r == MakeResponse(a[1], a[2])
<1>1. HasKeys(r, RespKeys) /\ r["code"] = a[1] /\ r["body"] = a[2] /\ r["Error"] = Absent
  BY DEF MakeResponse, HasKeys, RespKeys
<1>2. IsCode(a[1])
  BY AnswersAssumption, Zenon DEF IsCode
<1> HIDE DEF r
<1>3. IsResp(r)
  BY <1>1, <1>2 DEF IsResp
<1> QED BY <1>3 DEF r

\* Steps that decode the response, or leave it alone.
LEMMA DecodingKeeps ==
    ASSUME OutcomeInv, resp # Absent, NEW how \in {"Get", "GetTyped"},
           resp' = Some(Decoded(how, The(resp))), err' = err, done' = done, gets' = gets
    PROVE  OutcomeInv'
<1> DEFINE q == Decoded(how, The(resp))
<1>1. IsResp(The(resp)) /\ \A g \in gets : Right(g, resp)
  BY DEF OutcomeInv
<1>2. IsResp(q)
  BY <1>1, Redecoded
<1>3. \A g \in gets : Right(g, Some(q))
  BY <1>1, StaysRight
<1> HIDE DEF q
<1>4. resp' = Some(q)
  BY DEF q
<1>5. The(resp') = q /\ resp' # Absent
  BY <1>4, TheSome, SomeIsThere
<1> QED BY <1>2, <1>3, <1>4, <1>5 DEF OutcomeInv

\* Steps that do not touch the outcome keep the invariant.
LEMMA UntouchedKeeps ==
    ASSUME OutcomeInv, resp' = resp, err' = err, done' = done, gets' = gets
    PROVE  OutcomeInv'
  BY DEF OutcomeInv

\* Get and GetTyped return what is right.
LEMMA OutcomeGet ==
    ASSUME OutcomeInv, SettledOnce, NEW how \in {"Get", "GetTyped"}, GetResult(how)
    PROVE  OutcomeInv'
<1>0. done /\ done' = done /\ err' = err
  BY DEF GetResult
<1>1. CASE err
  <2> DEFINE o == Outcome(how, Some([kind |-> "future"]), Absent)
  <2>1. gets' = gets \cup {o} /\ resp' = resp
    BY <1>1 DEF GetResult
  <2>2. o.err = Some([kind |-> "future"]) /\ o.data = Absent /\ resp = Absent
    BY <1>1 DEF Outcome, SettledOnce
  <2> HIDE DEF o
  <2>3. Right(o, resp)
    BY <2>2 DEF Right
  <2> QED BY <1>0, <1>1, <2>1, <2>3 DEF OutcomeInv
<1>2. CASE ~err
  <2> DEFINE r == The(resp)
             q == Decoded(how, r)
             d == Returns(how, r)
             o == Outcome(how, q["err"], d)
  <2>1. gets' = gets \cup {o} /\ resp' = Some(q)
    <3>1. q = IF how = "Get" THEN DecodeBody(The(resp)) ELSE DecodeBodyTyped(The(resp))
      BY DEF Decoded
    <3>2. d = IF how = "Get" THEN q["Data"] ELSE TypedResult(The(resp))
      BY DEF Returns
    <3> HIDE DEF q, d
    <3> QED BY <1>2, <3>1, <3>2, Zenon DEF GetResult
  <2>2. o.how = how /\ o.err = q["err"] /\ o.data = d
    <3> HIDE DEF q, d
    <3> QED BY DEF Outcome
  <2>3. resp # Absent /\ IsResp(r) /\ \A g \in gets : Right(g, resp)
    BY <1>0, <1>2 DEF OutcomeInv
  <2>4. \A g \in gets : Right(g, Some(q))
    BY <2>3, StaysRight
  <2>5. /\ IsResp(q) /\ q["body"] = r["body"]
        /\ Fades(q["err"], Decoded(how, q)["err"]) /\ Returns(how, q) = d
    BY <2>3, Redecoded
  <2>6. TellsStack(q["err"], r["body"])
    BY <2>3, DecodedTells
  <2> HIDE DEF o, q, r, d
  <2>7. The(Some(q)) = q /\ Some(q) # Absent
    BY TheSome, SomeIsThere
  <2>8. TellsStack(o.err, q["body"])
    BY <2>2, <2>5, <2>6
  <2>9. Fades(o.err, Decoded(o.how, q)["err"]) /\ o.data = Returns(o.how, q)
    BY <2>2, <2>5
  <2>10. Right(o, Some(q))
    BY <2>2, <2>7, <2>8, <2>9 DEF Right
  <2> QED BY <1>0, <2>1, <2>4, <2>5, <2>7, <2>10 DEF OutcomeInv
<1> QED BY <1>1, <1>2

\* The invariant is inductive: one step per action.
LEMMA OutcomeStep ==
    ASSUME FutureInv, OutcomeInv, [Next]_vars PROVE OutcomeInv'
<1> USE DEF futVars
<1>1. ASSUME NEW b \in PushBodies, AppendPush(b) PROVE OutcomeInv'
  BY <1>1, UntouchedKeeps DEF AppendPush
<1>2. ASSUME NEW a \in Answers, SetResponse(a) PROVE OutcomeInv'
  <2> DEFINE r == MakeResponse(a[1], a[2])
  <2>1. IsResp(r)
    BY MadeResponse
  <2> HIDE DEF r
  <2>2. resp' = Some(r) /\ ~done /\ done' /\ gets' = gets
    BY <1>2 DEF SetResponse, CloseChannels, r
  <2>3. gets = {}
    BY <2>2 DEF OutcomeInv
  <2>4. The(resp') = r /\ resp' # Absent
    BY <2>2, TheSome, SomeIsThere
  <2> QED BY <2>1, <2>2, <2>3, <2>4 DEF OutcomeInv
<1>3. ASSUME SetError PROVE OutcomeInv'
  <2>1. resp' = resp /\ ~done /\ done' /\ err' /\ gets' = gets
    BY <1>3 DEF SetError, CloseChannels
  <2>2. gets = {}
    BY <2>1 DEF OutcomeInv
  <2> QED BY <2>1, <2>2 DEF OutcomeInv
<1>4. CASE Get \/ GetTyped
  BY <1>4, OutcomeGet DEF Get, GetTyped, FutureInv
<1>5. CASE UNCHANGED vars
  BY <1>5, UntouchedKeeps DEF vars
<1>6. ASSUME NEW i \in Iters, NEW timed \in BOOLEAN, Call(i, timed) PROVE OutcomeInv'
  BY <1>6, UntouchedKeeps DEF Call
<1>7. ASSUME NEW i \in Iters, Read(i) \/ Wake(i) \/ Expire(i) PROVE OutcomeInv'
  BY <1>7, UntouchedKeeps DEF Read, Wake, Expire
<1>8. ASSUME NEW i \in Iters, Decode(i) PROVE OutcomeInv'
  <2>1. err' = err /\ done' = done /\ gets' = gets
    BY <1>8 DEF Decode
  <2>2. CASE it[i].resp = Final
    <3>1. resp' = Some(DecodeBody(The(resp)))
      BY <1>8, <2>2 DEF Decode, NoResp, Final
    <3>2. resp # Absent
      <4>1. it[i].pc = "decode" /\ Position(it[i], Len(pushes)) /\ it[i] \in Iterators
        BY <1>8 DEF Decode, FutureInv, TypeOK
      <4> QED BY <2>2, <4>1 DEF Position, Final, NoResp, Iterators
    <3>3. resp' = Some(Decoded("Get", The(resp)))
      BY <3>1 DEF Decoded
    <3> QED BY <2>1, <3>2, <3>3, DecodingKeeps
  <2>3. CASE it[i].resp # Final
    <3>1. resp' = resp
      BY <1>8, <2>3 DEF Decode
    <3> QED BY <2>1, <3>1, UntouchedKeeps
  <2> QED BY <2>2, <2>3
<1> QED BY <1>1, <1>2, <1>3, <1>4, <1>5, <1>6, <1>7, <1>8 DEF Next

\* However often and in whatever order Get, GetTyped and the iterators decode the
\* response in place, every Get returns the same data and tells the same error,
\* with the stack of the server; only an error whose code is OkCode or PushCode
\* without its bit is told once.
THEOREM OutcomeIsKept == Spec => []OutcomeKept
<1>1. FutureInv /\ OutcomeInv => OutcomeKept
  <2> SUFFICES ASSUME FutureInv, OutcomeInv PROVE OutcomeKept
    OBVIOUS
  <2>1. RepeatedGetsAgree
    <3> SUFFICES ASSUME NEW g \in gets, NEW h \in gets, g.how = h.how
                 PROVE  /\ g.data = h.data
                        /\ g.err = h.err \/ (Fading(g.err) /\ Fading(h.err))
      BY DEF RepeatedGetsAgree
    <3>1. Right(g, resp) /\ Right(h, resp)
      BY DEF OutcomeInv
    <3>2. g.data = h.data
      BY <3>1 DEF Right
    <3>3. g.err = h.err \/ \E e : Fades(g.err, e) /\ Fades(h.err, e)
      BY <3>1 DEF Right
    <3> QED BY <3>2, <3>3 DEF Fades, Masked, Fading
  <2>2. StackComesBack
    BY DEF OutcomeInv, Right, TellsStack, StackComesBack
  <2> QED BY <2>1, <2>2 DEF OutcomeKept
<1>2. FutureInv /\ OutcomeInv /\ [Next]_vars => OutcomeInv'
  BY OutcomeStep
<1> QED BY <1>1, <1>2, OutcomeInit, FutureInvariance, PTL DEF Spec

-----------------------------------------------------------------------------
(* Session: what packets hold.                                             *)

\* Tokens of two parts differ from a token of one part, such as the password.
LEMMA PairTokens ==
    ASSUME NEW w
    PROVE  /\ \A a, b : <<a, b>> # <<w>>
           /\ \A n : U(n) # <<w>> /\ S(n) # <<w>> /\ MapLen(n) # <<w>> /\ ArrayLen(n) # <<w>>
<1>1. ASSUME NEW a, NEW b PROVE <<a, b>> # <<w>>
  <2>1. Len(<<a, b>>) = 2 /\ Len(<<w>>) = 1
    OBVIOUS
  <2> QED BY <2>1
<1> QED BY <1>1 DEF U, S, MapLen, ArrayLen

\* A key of a map and its value,
LEMMA EntryWithout ==
    ASSUME NEW w, NEW key, NEW toks, Without(toks, <<w>>)
    PROVE  Without(Entry(key, toks), <<w>>)
<1>1. Without(<<<<"key", key>>>>, <<w>>)
  BY PairTokens, WithoutTuples
<1> QED BY <1>1, WithoutConcat DEF Entry

\* and a whole packet hold no such token when the body holds none.
LEMMA PackWithout ==
    ASSUME NEW w, NEW b, NEW id, NEW r, NEW stream, NEW schm,
           Without(b, <<w>>), Without(Body(r, schm), <<w>>)
    PROVE  Without(Pack(b, id, r, stream, schm).buf, <<w>>)
<1> DEFINE body == UpTo(Body(r, schm), {ErrTok, PanicTok})
           code == Entry("Code", <<S(r.code)>>)
           sync == Entry("Sync", <<U(id)>>)
           strm == IF stream = NoStream THEN <<>> ELSE Entry("StreamId", <<U(stream)>>)
           head == <<MapLen(HeaderMapLen(stream))>>
           rest == head \o code \o sync \o strm \o body
<1>1. Without(body, <<w>>)
  BY WithoutUpTo
<1>2. Without(code, <<w>>) /\ Without(sync, <<w>>)
  BY PairTokens, WithoutTuples, EntryWithout
<1>3. Without(strm, <<w>>)
  BY PairTokens, WithoutTuples, EntryWithout
<1>4. Without(head, <<w>>)
  BY PairTokens, WithoutTuples
<1>5. PICK n : Pack(b, id, r, stream, schm).buf = b \o <<<<"len", n>>>> \o rest
  BY DEF Pack
<1> HIDE DEF body, code, sync, strm, head
<1>6. Without(rest, <<w>>)
  <2>1. Without(head \o code, <<w>>)
    BY <1>2, <1>4, WithoutConcat
  <2>2. Without(head \o code \o sync, <<w>>)
    BY <1>2, <2>1, WithoutConcat
  <2>3. Without(head \o code \o sync \o strm, <<w>>)
    BY <1>3, <2>2, WithoutConcat
  <2> QED BY <1>1, <2>3, WithoutConcat
<1>7. Without(b \o <<<<"len", n>>>>, <<w>>)
  <2>1. Without(<<<<"len", n>>>>, <<w>>)
    BY PairTokens, WithoutTuples
  <2> QED BY <2>1, WithoutConcat
<1> HIDE DEF rest
<1> QED BY <1>5, <1>6, <1>7, WithoutConcat

\* The body of an ID request holds none, for its version and features are numbers.
LEMMA IdBody ==
    ASSUME NEW w PROVE Without(Body(NewIdRequest(clientProtocolInfo), <<>>), <<w>>)
<1> DEFINE fs == clientProtocolInfo.Features
           nums == [n \in DOMAIN fs |-> U(fs[n])]
<1>1. Body(NewIdRequest(clientProtocolInfo), <<>>) = fillId(clientProtocolInfo)
  BY DEF Body, NewIdRequest, Request
<1>2. Without(nums, <<w>>)
  <2>1. fs \in Seq(Nat) /\ DOMAIN fs = 1 .. Len(fs) /\ Len(fs) \in Nat
    BY DEF clientProtocolInfo
  <2>2. nums \in Seq({U(n) : n \in Nat})
    <3> HIDE DEF fs
    <3> QED BY <2>1
  <2>3. <<w>> \notin {U(n) : n \in Nat}
    BY PairTokens
  <2> QED BY <2>2, <2>3, WithoutSeq
<1> HIDE DEF nums
<1>3. Without(<<ArrayLen(Len(fs))>> \o nums, <<w>>)
  BY <1>2, PairTokens, WithoutTuples, WithoutConcat
<1>4. Without(Entry("Features", <<ArrayLen(Len(fs))>> \o nums), <<w>>)
  BY <1>3, EntryWithout
<1>5. Without(Entry("Version", <<U(clientProtocolInfo.Version)>>), <<w>>)
  BY PairTokens, WithoutTuples, EntryWithout
<1>6. Without(<<MapLen(2)>> \o Entry("Version", <<U(clientProtocolInfo.Version)>>), <<w>>)
  BY <1>5, PairTokens, WithoutTuples, WithoutConcat
<1> QED BY <1>1, <1>4, <1>6, WithoutConcat DEF fillId, nums

\* Nor does that of an auth request whose secret is another token.
LEMMA AuthBody ==
    ASSUME NEW w, NEW user, NEW pass, NEW method, pass # <<w>>
    PROVE Without(Body(NewAuthRequest(user, pass, method), <<>>), <<w>>)
<1>1. Body(NewAuthRequest(user, pass, method), <<>>) = fillAuth(user, pass, method)
  BY DEF Body, NewAuthRequest, Request
<1>2. Without(<<ArrayLen(2), S(method), pass>>, <<w>>)
  BY PairTokens, WithoutTuples
<1>3. Without(Entry("Tuple", <<ArrayLen(2), S(method), pass>>), <<w>>)
  BY <1>2, EntryWithout
<1>4. Without(Entry("UserName", <<S(user)>>), <<w>>)
  BY PairTokens, WithoutTuples, EntryWithout
<1>5. Without(<<MapLen(2)>> \o Entry("UserName", <<S(user)>>), <<w>>)
  BY <1>4, PairTokens, WithoutTuples, WithoutConcat
<1> QED BY <1>1, <1>3, <1>5, WithoutConcat DEF fillAuth

\* A select request, as the loader of the schema builds it.
SelectKeys ==
    {"space", "index", "isIteratorSet", "fetchPos", "offset", "limit", "iterator", "key", "after"}

IsSelect(r) ==
    r.code = "select" /\ r = [code |-> r.code, f |-> r.f] /\ r.f = [k \in SelectKeys |-> r.f[k]]

\* Its setters keep it one: any that assigns a field,
LEMMA SelectFields ==
    ASSUME NEW r, IsSelect(r), NEW name \in SelectKeys, NEW v
    PROVE  LET q == Assign(r, name, v)
           IN IsSelect(q) /\ q.f[name] = v /\ \A k \in SelectKeys : k # name => q.f[k] = r.f[k]
<1> DEFINE q == Assign(r, name, v)
           g == [r.f EXCEPT ![name] = v]
<1>1. q = [code |-> "select", f |-> g]
  BY DEF IsSelect, Assign
<1>2. g = [k \in SelectKeys |-> IF k = name THEN v ELSE r.f[k]]
  BY DEF IsSelect
<1> HIDE DEF q, g
<1>3. q.f = g /\ q.code = "select"
  BY <1>1
<1> HIDE DEF SelectKeys
<1>4. IsSelect(q)
  BY <1>1, <1>2, <1>3 DEF IsSelect
<1>5. q.f[name] = v /\ \A k \in SelectKeys : k # name => q.f[k] = r.f[k]
  BY <1>2, <1>3
<1> QED BY <1>4, <1>5 DEF q

\* those that only do that,
LEMMA SelectSetter ==
    ASSUME NEW r, IsSelect(r), NEW name \in {"index", "offset", "limit"}, NEW v
    PROVE  /\ IsSelect(Apply(r, name, v)) /\ Apply(r, name, v).f[name] = v
           /\ \A k \in SelectKeys : k # name => Apply(r, name, v).f[k] = r.f[k]
<1>1. Apply(r, name, v) = Assign(r, name, v)
  <2>1. name # "iterator" /\ name # "key" /\ name # "ops" /\ name # "value"
    OBVIOUS
  <2> QED BY <2>1 DEF Apply
<1>2. name \in SelectKeys
  BY DEF SelectKeys
<1> QED BY <1>1, <1>2, SelectFields

\* Iterator, which remembers that it was called,
LEMMA SelectIterator ==
    ASSUME NEW r, IsSelect(r), NEW v
    PROVE  LET q == Apply(r, "iterator", v) IN
           /\ IsSelect(q) /\ q.f["iterator"] = v /\ q.f["isIteratorSet"]
           /\ \A k \in SelectKeys : k \notin {"iterator", "isIteratorSet"} => q.f[k] = r.f[k]
<1>1. PICK t : t = TRUE
  OBVIOUS
<1> DEFINE p == Assign(r, "iterator", v)
           q == Assign(p, "isIteratorSet", t)
<1>2. Apply(r, "iterator", v) = Assign(p, "isIteratorSet", TRUE)
  BY DEF Apply, IsSelect
<1>3. Apply(r, "iterator", v) = q
  BY <1>1, <1>2, Zenon
<1>4. "iterator" \in SelectKeys /\ "isIteratorSet" \in SelectKeys
  BY DEF SelectKeys
<1>5. IsSelect(p) /\ p.f["iterator"] = v /\ \A k \in SelectKeys : k # "iterator" => p.f[k] = r.f[k]
  BY <1>4, SelectFields
<1> HIDE DEF p
<1>6. /\ IsSelect(q) /\ q.f["isIteratorSet"] = t
      /\ \A k \in SelectKeys : k # "isIteratorSet" => q.f[k] = p.f[k]
  BY <1>4, <1>5, SelectFields
<1> HIDE DEF q
<1>9. q.f["isIteratorSet"]
  BY <1>1, <1>6, Zenon
<1>7. q.f["iterator"] = v
  BY <1>4, <1>5, <1>6
<1>8. ASSUME NEW k \in SelectKeys, k \notin {"iterator", "isIteratorSet"} PROVE q.f[k] = r.f[k]
  BY <1>5, <1>6, <1>8
<1> QED BY <1>3, <1>6, <1>7, <1>8, <1>9, Zenon

\* and Key, which chooses the iterator unless it was chosen.
LEMMA SelectKey ==
    ASSUME NEW r, IsSelect(r), NEW v
    PROVE  LET q == Apply(r, "key", v) IN
           /\ IsSelect(q) /\ q.f.key = v
           /\ q.f.iterator = IF r.f.isIteratorSet THEN r.f.iterator ELSE U(Iter.EQ)
           /\ \A k \in SelectKeys : k \notin {"iterator", "key"} => q.f[k] = r.f[k]
<1> DEFINE i == IF r.f.isIteratorSet THEN r.f.iterator ELSE U(Iter.EQ)
           p == Assign(r, "key", v)
           q == Assign(p, "iterator", i)
<1>2. Apply(r, "key", v) = WithKey(r, v)
  BY DEF Apply, IsSelect
<1>3. WithKey(r, v) = q
  BY DEF WithKey
<1>4. "iterator" \in SelectKeys /\ "key" \in SelectKeys
  BY DEF SelectKeys
<1>5. IsSelect(p) /\ p.f["key"] = v /\ \A k \in SelectKeys : k # "key" => p.f[k] = r.f[k]
  BY <1>4, SelectFields
<1> HIDE DEF p, i
<1>6. /\ IsSelect(q) /\ q.f["iterator"] = i
      /\ \A k \in SelectKeys : k # "iterator" => q.f[k] = p.f[k]
  BY <1>4, <1>5, SelectFields
<1> HIDE DEF q
<1> QED BY <1>2, <1>3, <1>4, <1>5, <1>6 DEF i

\* So the requests for the schema have the fields that loadSchema sets.
LEMMA LoadRequest ==
    \A no : /\ IsSelect(Load(no))
            /\ Load(no).f.space = U(no) /\ Load(no).f.index = U(0) /\ Load(no).f.offset = U(0)
            /\ (\E n : Load(no).f.limit = U(n)) /\ Load(no).f.iterator = U(Iter.ALL)
            /\ Load(no).f.key = List(<<>>) /\ Load(no).f.fetchPos = B(FALSE) /\ Load(no).f.after = Nil
<1> TAKE no
<1> DEFINE r0 == NewSelectRequest(U(no))
           r1 == Apply(r0, "index", U(0))
           r2 == Apply(r1, "offset", U(0))
           r3 == Apply(r2, "limit", U(maxSchemas))
           r4 == Apply(r3, "iterator", U(Iter.ALL))
           r5 == Apply(r4, "key", List(<<>>))
<1>1. Load(no) = r5
  BY DEF Load, SelectAsync
<1>2. IsSelect(r0) /\ r0.f.space = U(no) /\ r0.f.fetchPos = B(FALSE) /\ r0.f.after = Nil
  BY DEF NewSelectRequest, Request, SelectKeys, IsSelect
<1> HIDE DEF r0
<1>3. IsSelect(r1) /\ r1.f["index"] = U(0) /\ \A k \in SelectKeys : k # "index" => r1.f[k] = r0.f[k]
  BY <1>2, SelectSetter
<1> HIDE DEF r1
<1>4. IsSelect(r2) /\ r2.f["offset"] = U(0) /\ \A k \in SelectKeys : k # "offset" => r2.f[k] = r1.f[k]
  BY <1>3, SelectSetter
<1> HIDE DEF r2
<1>5. IsSelect(r3) /\ r3.f["limit"] = U(maxSchemas) /\ \A k \in SelectKeys : k # "limit" => r3.f[k] = r2.f[k]
  BY <1>4, SelectSetter
<1> HIDE DEF r3
<1>6. /\ IsSelect(r4) /\ r4.f["iterator"] = U(Iter.ALL) /\ r4.f["isIteratorSet"]
      /\ \A k \in SelectKeys : k \notin {"iterator", "isIteratorSet"} => r4.f[k] = r3.f[k]
  BY <1>5, SelectIterator
<1> HIDE DEF r4
<1>7. /\ IsSelect(r5) /\ r5.f.key = List(<<>>) /\ r5.f.iterator = r4.f.iterator
      /\ \A k \in SelectKeys : k \notin {"iterator", "key"} => r5.f[k] = r4.f[k]
  BY <1>6, SelectKey
<1> HIDE DEF r5
<1>8. /\ r5.f.space = U(no) /\ r5.f.index = U(0) /\ r5.f.offset = U(0)
  BY <1>2, <1>3, <1>4, <1>5, <1>6, <1>7 DEF SelectKeys
<1>9. r5.f.limit = U(maxSchemas)
  BY <1>5, <1>6, <1>7 DEF SelectKeys
<1>10. "fetchPos" \in SelectKeys /\ "after" \in SelectKeys
  BY DEF SelectKeys
<1>11. r5.f["fetchPos"] = r0.f["fetchPos"] /\ r5.f["after"] = r0.f["after"]
  BY <1>3, <1>4, <1>5, <1>6, <1>7, <1>10
<1>12. r5.f.fetchPos = B(FALSE) /\ r5.f.after = Nil
  BY <1>2, <1>11, Zenon
<1> QED BY <1>1, <1>6, <1>7, <1>8, <1>9, <1>12

\* A space or index that is given by its number needs no schema,
LEMMA ParamOfNumber == \A n : ParamOf(U(n)) = [by |-> "number", no |-> n]
<1> TAKE n
<1>1. U(n) # Nil /\ U(n)[1] = "uint" /\ U(n)[2] = n
  BY PairTokens DEF U, Nil
<1>2. U(n)[1] # "str"
  BY <1>1
<1> HIDE DEF U
<1> QED BY <1>1, <1>2 DEF ParamOf

\* so theirs are resolved to themselves,
LEMMA LoadNumbers ==
    ASSUME NEW no
    PROVE  /\ NumbersOf(Load(no), <<>>) = <<no, 0>>
           /\ ~ResolvePanics(<<>>, ParamOf(Load(no).f.space), ParamOf(IndexOf(Load(no))))
<1> DEFINE sp == [by |-> "number", no |-> no]
           ix == [by |-> "number", no |-> 0]
<1>1. Load(no).f.space = U(no) /\ Load(no).f.index = U(0) /\ "index" \in DOMAIN Load(no).f
  <2>1. IsSelect(Load(no)) /\ Load(no).f.space = U(no) /\ Load(no).f.index = U(0)
    BY LoadRequest, Zenon
  <2>2. DOMAIN Load(no).f = SelectKeys
    <3> DEFINE q == Load(no)
    <3>1. IsSelect(q)
      BY <2>1
    <3> HIDE DEF q
    <3>2. q.f = [k \in SelectKeys |-> q.f[k]]
      BY <3>1 DEF IsSelect
    <3>3. DOMAIN q.f = SelectKeys
      BY <3>2
    <3> QED BY <3>3 DEF q
  <2> QED BY <2>1, <2>2 DEF SelectKeys
<1>2. NumbersOf(Load(no), <<>>) = ResolveSpaceIndex(<<>>, sp, ix)
  <2>1. ParamOf(Load(no).f.space) = sp /\ ParamOf(IndexOf(Load(no))) = ix
    BY <1>1, ParamOfNumber DEF IndexOf
  <2> QED BY <2>1, Zenon DEF NumbersOf
<1>3. ResolveSpace(<<>>, sp) = <<no>>
  BY DEF ResolveSpace
<1>4. ResolveIndex(<<>>, no, ix) = <<0>>
  BY DEF ResolveIndex
<1>5. ResolveSpaceIndex(<<>>, sp, ix) = <<no, 0>>
  <2> HIDE DEF sp, ix
  <2> QED BY <1>3, <1>4 DEF ResolveSpaceIndex, Unresolved
<1>6. ParamOf(Load(no).f.space) = sp /\ ParamOf(IndexOf(Load(no))) = ix
  BY <1>1, ParamOfNumber DEF IndexOf
<1>7. ~ResolvePanics(<<>>, sp, ix)
  BY DEF ResolvePanics
<1> QED BY <1>2, <1>5, <1>6, <1>7

\* and their bodies hold no token of one part.
LEMMA LoadBody ==
    ASSUME NEW w, NEW no PROVE Without(Body(Load(no), <<>>), <<w>>)
<1> DEFINE r == Load(no)
           keyToks == Encode(List(<<>>))
<1>1. Body(r, <<>>) = fillSelect(no, 0, r.f)
  <2>1. "space" \in DOMAIN r.f /\ r.code = "select"
    <3>1. IsSelect(r)
      BY LoadRequest, Zenon
    <3> HIDE DEF r
    <3>2. r.f = [k \in SelectKeys |-> r.f[k]] /\ r.code = "select"
      BY <3>1 DEF IsSelect
    <3>3. DOMAIN r.f = SelectKeys
      BY <3>2
    <3> QED BY <3>2, <3>3 DEF SelectKeys
  <2>2. NumbersOf(r, <<>>) # Unresolved /\ NumbersOf(r, <<>>)[1] = no /\ NumbersOf(r, <<>>)[2] = 0
    BY LoadNumbers DEF Unresolved
  <2>4. ~ResolvePanics(<<>>, ParamOf(r.f.space), ParamOf(IndexOf(r)))
    BY LoadNumbers
  <2>3. Body(r, <<>>) = BodyIn(r, no, 0)
    BY <2>1, <2>2, <2>4, Zenon DEF Body
  <2> HIDE DEF r
  <2> QED BY <2>1, <2>3 DEF BodyIn
<1>2. Without(keyToks, <<w>>)
  <2>1. keyToks = <<ArrayLen(Len(<<>>))>> \o FlattenSeq([n \in DOMAIN <<>> |-> Encode2(<<>>[n])])
    BY DEF Encode, EncodeParts, List
  <2> DEFINE parts == [n \in DOMAIN <<>> |-> Encode2(<<>>[n])]
  <2>2. parts = [i \in 1 .. 0 |-> parts[i]] /\ \A i \in 1 .. 0 : Without(parts[i], <<w>>)
    OBVIOUS
  <2> HIDE DEF parts
  <2>3. Without(FlattenSeq(parts), <<w>>)
    BY <2>2, WithoutFlatten
  <2>4. Without(<<ArrayLen(Len(<<>>))>>, <<w>>)
    BY PairTokens, WithoutTuples
  <2> QED BY <2>1, <2>3, <2>4, WithoutConcat DEF parts
<1>0. PICK limit : r.f.limit = U(limit)
  BY LoadRequest
<1>3. /\ r.f.offset = U(0) /\ r.f.limit = U(limit) /\ r.f.iterator = U(Iter.ALL)
      /\ r.f.key = List(<<>>) /\ r.f.fetchPos = B(FALSE) /\ r.f.after = Nil
  BY <1>0, LoadRequest, Zenon
<1> HIDE DEF r, keyToks
<1> DEFINE iter == fillIterator(U(0), U(limit), U(Iter.ALL))
           se == fillSearch(no, 0, List(<<>>))
<1>4. B(FALSE) # B(TRUE)
  BY DEF B
<1>5. fillSelect(no, 0, r.f) = <<MapLen(SelectMapLen(r.f))>> \o iter \o se \o <<>> \o <<>>
  <2> HIDE DEF iter, se
  <2>1. (CASE r.f.after = Nil -> <<>>
          [] r.f.after[1] = "bytes" -> Entry("AfterPos", <<S(r.f.after[2])>>)
          [] OTHER -> Entry("AfterTuple", Encode(r.f.after))) = <<>>
    <3>1. Nil[1] # "bytes"
      BY DEF Nil
    <3> QED BY <1>3, <3>1
  <2>2. (IF r.f.fetchPos = B(TRUE) THEN Entry("FetchPos", <<r.f.fetchPos>>) ELSE <<>>) = <<>>
    BY <1>3, <1>4, Zenon
  <2>3. fillIterator(r.f.offset, r.f.limit, r.f.iterator) = iter /\ fillSearch(no, 0, r.f.key) = se
    BY <1>3, Zenon DEF iter, se
  <2> QED BY <2>1, <2>2, <2>3, Zenon DEF fillSelect
<1>6. Without(iter, <<w>>)
  <2>1. \A key, n : Without(Entry(key, <<U(n)>>), <<w>>)
    BY PairTokens, WithoutTuples, EntryWithout
  <2> QED BY <2>1, WithoutConcat DEF fillIterator
<1>7. Without(se, <<w>>)
  <2>1. \A key, n : Without(Entry(key, <<U(n)>>), <<w>>)
    BY PairTokens, WithoutTuples, EntryWithout
  <2>2. Without(Entry("Key", keyToks), <<w>>)
    BY <1>2, EntryWithout
  <2> QED BY <2>1, <2>2, WithoutConcat DEF fillSearch, keyToks
<1> HIDE DEF iter, se
<1>8. Without(<<MapLen(SelectMapLen(r.f))>>, <<w>>)
  BY PairTokens, WithoutTuples
<1>9. Without(<<MapLen(SelectMapLen(r.f))>> \o iter \o se \o <<>> \o <<>>, <<w>>)
  BY <1>6, <1>7, <1>8, WithoutTuples, WithoutConcat
<1> QED BY <1>1, <1>5, <1>9 DEF r

-----------------------------------------------------------------------------
(* Session: answers.                                                       *)

\* The states f of decodeBody on an answer, and the result by the last of them.
AnswerRun(code, pairs, f) ==
    LET r == MakeResponse(code, Some(pairs))
        q == DecodeBody(r)
    IN /\ HasKeys(r, RespKeys) /\ Stepwise(r, EffectsOf("Get", pairs), Len(pairs), f)
       /\ q["code"] = code \/ (code \notin {OkCode, PushCode} /\ q["code"] = ClearErrorBit(code))
       /\ q["err"] = ErrOf("Get", r, f[Len(pairs)]) /\ q["Data"] = DataOf("Get", f[Len(pairs)])

\* Every answer with a body has them.
LEMMA AnswerRuns ==
    ASSUME NEW code, NEW pairs, pairs \in Seq(ToSet(pairs)), pairs # <<>>
    PROVE  \E f : AnswerRun(code, pairs, f)
<1> DEFINE r == MakeResponse(code, Some(pairs))
           q == DecodeBody(r)
           effects == EffectsOf("Get", pairs)
<1>1. HasKeys(r, RespKeys) /\ r["code"] = code /\ r["body"] = Some(pairs)
  BY DEF MakeResponse, HasKeys, RespKeys
<1>2. Decoded("Get", r) = q
  BY DEF Decoded
<1> HIDE DEF r, q
<1>3. ~NotRead("Get", r["body"]) /\ The(r["body"]) = pairs
  <2>1. Some(pairs) # Some(<<>>) /\ Some(pairs) # Absent
    BY TheSome, SomeIsThere
  <2> QED BY <1>1, <2>1, TheSome DEF NotRead
<1>4. q = ResultOf("Get", r, effects)
  BY <1>2, <1>3, DecodedIs
<1>5. /\ Len(effects) = Len(pairs) /\ Len(effects) \in Nat
      /\ \A n \in 1 .. Len(effects) : IsEffect(effects[n])
  BY EffectsSound
<1> HIDE DEF effects
<1>6. PICK f : Loop(r, effects, Len(effects), f) /\ AllPairs(r, effects) = f[Len(effects)]
  BY <1>5, AllPairsLoop
<1>7. Stepwise(r, effects, Len(pairs), f)
  BY <1>5, <1>6, LoopSteps
<1>8. /\ \/ q["code"] = r["code"]
         \/ r["code"] \notin {OkCode, PushCode} /\ q["code"] = ClearErrorBit(r["code"])
      /\ q["err"] = ErrOf("Get", r, AllPairs(r, effects)) /\ q["Data"] = DataOf("Get", AllPairs(r, effects))
  BY <1>1, <1>4, <1>5, ResultDoes
<1>9. q["err"] = ErrOf("Get", r, f[Len(pairs)]) /\ q["Data"] = DataOf("Get", f[Len(pairs)])
  BY <1>5, <1>6, <1>8
<1>10. AnswerRun(code, pairs, f)
  BY <1>1, <1>7, <1>8, <1>9, Zenon DEF AnswerRun, r, q, effects
<1> QED BY <1>10

\* A pair that only sets a local variable.
LEMMA HoldStep ==
    ASSUME NEW st, IsState(st), st.resp["err"] = Absent, NEW k \in LocalKeys, NEW v
    PROVE  LET q == Perform(st, Hold(k, Some(v))) IN
           /\ IsState(q) /\ q.resp["err"] = Absent /\ q.locals[k] = v
           /\ \A j \in LocalKeys : j # k => q.locals[j] = st.locals[j]
<1> DEFINE opt == Some(v)
           e == Hold(k, opt)
           q == Perform(st, e)
<1>1. opt # Absent /\ The(opt) = v
  BY SomeIsThere, TheSome
<1> HIDE DEF opt
<1>2. e.does = "hold" /\ e.field = k /\ e.val = v
  BY <1>1, HoldEffect
<1> HIDE DEF e
<1>3. IsEffect(e)
  BY <1>2 DEF IsEffect
<1>4. /\ IsState(q)
      /\ q.resp["err"] = IF e.does = "fail" THEN Some([kind |-> e.why]) ELSE st.resp["err"]
      /\ q.locals = IF e.does = "hold" THEN Assigned(st.locals, e.field, e.val) ELSE st.locals
  BY <1>3, PerformDoes
<1> DEFINE l == Assigned(st.locals, k, v)
<1>5. q.locals = l
  BY <1>2, <1>4
<1>6. l[k] = v /\ \A j \in LocalKeys : j # k => l[j] = st.locals[j]
  BY AssignedKeys DEF IsState
<1> HIDE DEF l, q
<1>7. IsState(q) /\ q.resp["err"] = Absent
  BY <1>2, <1>4
<1> QED BY <1>5, <1>6, <1>7 DEF q, e, opt

\* The pairs of the answers to an ID request.
LEMMA IdPairs ==
    /\ \A v : DecodePair(Pair("Version", Some(v))) = Hold("Version", Some(v))
    /\ \A v : DecodePair(Pair("Features", Some(v))) = Hold("Features", Some(Some(v)))
    /\ \A v \in {"chap-sha1", "pap-sha256"} : DecodePair(Pair("Auth", Some(v))) = Hold("Auth", Some(v))
<1>1. ASSUME NEW k, NEW v PROVE Pair(k, Some(v)).key = k /\ Pair(k, Some(v)).val = Some(v)
  BY DEF Pair
<1>2. ASSUME NEW v PROVE Some(v) # Absent /\ The(Some(v)) = v
  BY SomeIsThere, TheSome
<1>3. ASSUME NEW p, NEW v, p.key = "Version", p.val = Some(v) PROVE DecodePair(p) = Hold("Version", Some(v))
  BY <1>3 DEF DecodePair
<1>4. ASSUME NEW p, NEW v, p.key = "Features", p.val = Some(v) PROVE DecodePair(p) = Hold("Features", Some(Some(v)))
  BY <1>2, <1>4 DEF DecodePair
<1>5. ASSUME NEW p, NEW v \in {"chap-sha1", "pap-sha256"}, p.key = "Auth", p.val = Some(v)
      PROVE  DecodePair(p) = Hold("Auth", Some(v))
  BY <1>2, <1>5 DEF DecodePair
<1> QED BY <1>1, <1>3, <1>4, <1>5

\* An error of a successful answer leaves nothing to learn from it.
LEMMA OkAnswer ==
    ASSUME NEW pairs, NEW f, AnswerRun(OkCode, pairs, f),
           LET d == DecodeBody(MakeResponse(OkCode, Some(pairs))) IN d["err"] # Absent
    PROVE  IdentifiedAs(MakeResponse(OkCode, Some(pairs))) = <<>>
<1> DEFINE q == DecodeBody(MakeResponse(OkCode, Some(pairs)))
<1>1. q["code"] = OkCode /\ q["err"] # Absent
  BY DEF AnswerRun
<1> HIDE DEF q
<1>2. q.code # 48 /\ q.err # Absent
  BY <1>1 DEF OkCode
<1> QED BY <1>2, Zenon DEF IdentifiedAs, q

\* A refusal tells at most that the server knows no ID requests.
LEMMA RefusalTells ==
    /\ IdentifiedAs(Refusal(20)) = <<>>
    /\ IdentifiedAs(Refusal(48)) \in {<<>>, <<NoInfo>>}
<1> DEFINE pairs == <<Pair("Error24", Some("text"))>>
<1>1. pairs \in Seq(ToSet(pairs)) /\ pairs # <<>>
  BY DEF ToSet
<1> HIDE DEF pairs
<1>2. ASSUME NEW c \in {20, 48}
      PROVE  LET q == DecodeBody(Refusal(c)) IN q.err # Absent /\ q.code \in {c, ErrorCodeBit + c}
  <2> DEFINE code == ErrorCodeBit + c
             q == DecodeBody(Refusal(c))
  <2>1. code \notin {OkCode, PushCode} /\ ClearErrorBit(code) = c
    <3>1. ErrorCodeBit \in Nat /\ 0 < ErrorCodeBit /\ 128 < ErrorCodeBit
      BY SMT DEF ErrorCodeBit
    <3> QED BY <3>1 DEF OkCode, PushCode, ClearErrorBit
  <2> HIDE DEF code
  <2>2. PICK f : AnswerRun(code, pairs, f)
    BY <1>1, AnswerRuns
  <2>3. q = DecodeBody(MakeResponse(code, Some(pairs)))
    BY DEF Refusal, code, pairs
  <2> DEFINE st == f[Len(pairs)]
             r == MakeResponse(code, Some(pairs))
  <2>4. q["code"] \in {code, c} /\ q["err"] = ErrOf("Get", r, st)
    BY <2>1, <2>2, <2>3 DEF AnswerRun
  <2>5. r["code"] = code
    BY DEF MakeResponse
  <2> HIDE DEF q, st, r
  <2>6. ErrOf("Get", r, st) # Absent
    BY <2>1, <2>5, SomeIsThere DEF ErrOf, FinalErr
  <2> QED BY <2>4, <2>6 DEF q, code
<1>3. IdentifiedAs(Refusal(20)) = <<>>
  <2> DEFINE q == DecodeBody(Refusal(20))
  <2>1. q.err # Absent /\ q.code \in {20, ErrorCodeBit + 20}
    BY <1>2
  <2>2. ErrorCodeBit + 20 # 48
    BY SMT DEF ErrorCodeBit
  <2> HIDE DEF q
  <2>3. q.code # 48
    BY <2>1, <2>2
  <2> QED BY <2>1, <2>3, Zenon DEF IdentifiedAs, q
<1>4. IdentifiedAs(Refusal(48)) \in {<<>>, <<NoInfo>>}
  <2> DEFINE q == DecodeBody(Refusal(48))
  <2>1. q.err # Absent
    BY <1>2
  <2> HIDE DEF q
  <2> QED BY <2>1, Zenon DEF IdentifiedAs, q
<1> QED BY <1>3, <1>4

\* An empty answer tells nothing,
LEMMA EmptyTells == IdentifiedAs(MakeResponse(OkCode, Some(<<>>))) = <<>>
<1> DEFINE r == MakeResponse(OkCode, Some(<<>>))
           none == Absent
           q == DecodeBody(r)
<1>1. HasKeys(r, RespKeys) /\ r["Data"] = none /\ r["body"] = Some(<<>>)
  BY DEF MakeResponse, HasKeys, RespKeys
<1>2. q = Assigned(r, "err", none)
  BY <1>1 DEF DecodeBody
<1> HIDE DEF r, q, none
<1>3. "err" \in RespKeys /\ "Data" \in RespKeys
  BY DEF RespKeys
<1>4. q["err"] = none /\ q["Data"] = none
  BY <1>1, <1>2, <1>3, AssignedKeys
<1>5. q.err = Absent /\ q.Data = Absent
  BY <1>4 DEF none
<1> QED BY <1>5, Zenon DEF IdentifiedAs, q, r

\* and neither does one with other data.
LEMMA BesideTells == IdentifiedAs(Beside) = <<>>
<1> DEFINE rows1 == <<[other |-> TRUE]>>
           val == [array |-> TRUE, items |-> rows1]
           pair == Pair("Data", Some(val))
           pairs == <<pair>>
           r == MakeResponse(OkCode, Some(pairs))
           q == DecodeBody(r)
<1>1. r = Beside
  BY DEF Beside
<1>2. pairs \in Seq(ToSet(pairs)) /\ pairs # <<>> /\ Len(pairs) = 1 /\ pairs[1] = pair /\ DOMAIN pairs = 1 .. 1
  BY DEF ToSet
<1>3. DecodePair(pair) = Put("Data", Some(rows1))
  <2>1. pair.key = "Data" /\ pair.val = Some(val) /\ Some(val) # Absent /\ The(Some(val)) = val
    BY SomeIsThere, TheSome DEF Pair
  <2>2. val.array /\ val.items = rows1
    OBVIOUS
  <2> HIDE DEF pair, val, rows1
  <2>3. DecodePair(pair) = IF The(pair.val).array THEN Put("Data", Some(The(pair.val).items)) ELSE Fail("not array")
    BY <2>1 DEF DecodePair
  <2> QED BY <2>1, <2>2, <2>3, Zenon
<1>4. rows1 # <<>> /\ "Version" \notin DOMAIN rows1[1]
  OBVIOUS
<1> HIDE DEF pair, pairs, rows1, val
<1>5. PICK f : AnswerRun(OkCode, pairs, f)
  BY <1>2, AnswerRuns
<1>6. /\ HasKeys(r, RespKeys) /\ Stepwise(r, EffectsOf("Get", pairs), 1, f)
      /\ q["err"] = ErrOf("Get", r, f[1]) /\ q["Data"] = DataOf("Get", f[1])
  BY <1>2, <1>5 DEF AnswerRun
<1> HIDE DEF r, q
<1>7. EffectsOf("Get", pairs)[1] = Put("Data", Some(rows1))
  BY <1>2, <1>3 DEF EffectsOf, EffectOf
<1>8. IsState(f[0]) /\ f[0].resp["err"] = Absent /\ f[0].locals["stmtID"] = 0 /\ f[0].locals["Version"] = 0
  BY <1>6, StartState DEF Stepwise
<1>9. f[1] = Perform(f[0], Put("Data", Some(rows1)))
  <2>1. 0 \in Nat /\ 0 + 1 = 1 /\ 1 \in 0 .. 1
    OBVIOUS
  <2>2. f[0 + 1] = IF f[0].resp.err # Absent THEN f[0] ELSE Perform(f[0], EffectsOf("Get", pairs)[0 + 1])
    BY <1>6, <2>1 DEF Stepwise
  <2> QED BY <1>7, <1>8, <2>1, <2>2
<1>10. f[1].resp["Data"] = Some(rows1) /\ f[1].resp["err"] = Absent /\ f[1].locals = f[0].locals
  <2> DEFINE opt == Some(rows1)
             e == Put("Data", opt)
             st == f[0]
             p == Perform(st, e)
  <2>1. opt # Absent
    BY SomeIsThere
  <2> HIDE DEF opt
  <2>2. e.does = "put" /\ e.field = "Data" /\ e.val = opt
    BY <2>1, PutEffect
  <2> HIDE DEF e
  <2>3. IsEffect(e) /\ OnData(e) /\ DataBy(e) = opt
    BY <2>2 DEF IsEffect, OnData, DataBy
  <2>4. /\ p.resp["Data"] = IF OnData(e) THEN DataBy(e) ELSE st.resp["Data"]
        /\ p.resp["err"] = IF e.does = "fail" THEN Some([kind |-> e.why]) ELSE st.resp["err"]
        /\ p.locals = IF e.does = "hold" THEN Assigned(st.locals, e.field, e.val) ELSE st.locals
    BY <1>8, <2>3, PerformDoes
  <2> QED BY <1>8, <1>9, <2>2, <2>3, <2>4 DEF opt, e
<1>11. q["Data"] = Some(rows1)
  BY <1>6, <1>8, <1>10 DEF DataOf, SpecialData
<1>12. CASE q["err"] # Absent
  BY <1>1, <1>5, <1>12, OkAnswer DEF q, r
<1>13. CASE q["err"] = Absent
  <2>1. q.err = Absent /\ q.Data # Absent /\ The(q.Data) = rows1
    BY <1>11, <1>13, SomeIsThere, TheSome
  <2> QED BY <1>1, <1>4, <2>1, Zenon DEF IdentifiedAs, q
<1> QED BY <1>12, <1>13

\* The state st of the loop knows what the record l of local variables tells.
Knows(st, version, features, auth) ==
    /\ IsState(st) /\ st.resp["err"] = Absent
    /\ st.locals["Version"] = version /\ st.locals["Features"] = features /\ st.locals["Auth"] = auth

\* What is learned from a loop that ends so.
LEMMA IdentityTold ==
    ASSUME NEW pairs, NEW f, AnswerRun(OkCode, pairs, f), NEW v, v # 0, NEW fs, NEW a,
           Knows(f[Len(pairs)], v, Some(fs), a)
    PROVE  IdentifiedAs(MakeResponse(OkCode, Some(pairs))) \in
               {<<>>, <<[Version |-> v, Features |-> fs, Auth |-> a]>>}
<1> DEFINE r == MakeResponse(OkCode, Some(pairs))
           q == DecodeBody(r)
           st == f[Len(pairs)]
           known == [Version |-> v, Features |-> fs, Auth |-> a]
<1>1. q["Data"] = DataOf("Get", st)
  BY DEF AnswerRun
<1>2. Knows(st, v, Some(fs), a)
  OBVIOUS
<1> HIDE DEF st, r, q
<1>3. Identity(st.locals) = <<known>>
  BY <1>2, TheSome DEF Identity, Knows
<1>4. q["Data"] = Some(<<known>>)
  BY <1>1, <1>2, <1>3, SomeIsThere DEF DataOf, SpecialData, Knows
<1>5. CASE q["err"] # Absent
  BY <1>5, OkAnswer DEF q, r
<1>6. CASE q["err"] = Absent
  <2>1. q.err = Absent /\ q.Data # Absent /\ The(q.Data) = <<known>>
    BY <1>4, <1>6, SomeIsThere, TheSome
  <2>2. <<known>> # <<>> /\ <<known>>[1] = known /\ "Version" \in DOMAIN known
    OBVIOUS
  <2> HIDE DEF known
  <2>3. IdentifiedAs(r) = <<known>>
    BY <2>1, <2>2, Zenon DEF IdentifiedAs, q
  <2> QED BY <2>3 DEF r, known
<1> QED BY <1>5, <1>6

\* The loop before the first pair, and after another one.
LEMMA LoopAt ==
    ASSUME NEW pairs, NEW f, AnswerRun(OkCode, pairs, f)
    PROVE  /\ Knows(f[0], 0, Absent, "auto")
           /\ \A n \in Nat : n + 1 \in 0 .. Len(pairs) /\ n + 1 \in DOMAIN pairs =>
                 f[n + 1] = IF f[n].resp.err # Absent THEN f[n] ELSE Perform(f[n], DecodePair(pairs[n + 1]))
<1> DEFINE r == MakeResponse(OkCode, Some(pairs))
           effects == EffectsOf("Get", pairs)
<1>1. HasKeys(r, RespKeys) /\ Stepwise(r, effects, Len(pairs), f)
  BY DEF AnswerRun
<1> HIDE DEF r
<1>2. f[0] = Start(r) /\ Start(0).locals["Auth"] = "auto"
  BY <1>1 DEF Stepwise, Start
<1>3. Knows(f[0], 0, Absent, "auto")
  BY <1>1, <1>2, StartState DEF Knows
<1>4. \A n \in DOMAIN pairs : effects[n] = DecodePair(pairs[n])
  BY DEF EffectsOf, EffectOf
<1> HIDE DEF effects
<1>5. ASSUME NEW n \in Nat, n + 1 \in 0 .. Len(pairs), n + 1 \in DOMAIN pairs
      PROVE  f[n + 1] = IF f[n].resp.err # Absent THEN f[n] ELSE Perform(f[n], DecodePair(pairs[n + 1]))
  <2>1. f[n + 1] = IF f[n].resp.err # Absent THEN f[n] ELSE Perform(f[n], effects[n + 1])
    BY <1>1, <1>5, Zenon DEF Stepwise
  <2> QED BY <1>4, <1>5, <2>1, Zenon
<1> QED BY <1>3, <1>5

\* Two pairs, with or without a third.
LEMMA PairsJoined ==
    ASSUME NEW x, NEW y, NEW z PROVE <<x, y>> \o <<>> = <<x, y>> /\ <<x, y>> \o <<z>> = <<x, y, z>>
<1> DEFINE T == {x, y, z}
           a == <<x, y>>
           b == <<z>>
           c == <<x, y, z>>
<1>1. a \in Seq(T) /\ b \in Seq(T) /\ c \in Seq(T)
  OBVIOUS
<1>2. Len(a) = 2 /\ Len(b) = 1 /\ Len(c) = 3 /\ a[1] = c[1] /\ a[2] = c[2] /\ b[1] = c[3]
  OBVIOUS
<1>3. <<x, y>> \o <<>> = <<x, y>>
  BY <1>1, ConcatEmptySeq
<1> HIDE DEF T, a, b, c
<1> DEFINE s == a \o b
<1>4. s \in Seq(T) /\ Len(s) = Len(a) + Len(b) /\ \A i \in 1 .. Len(a) + Len(b) : s[i] = IF i <= Len(a) THEN a[i] ELSE b[i - Len(a)]
  BY <1>1, ConcatProperties
<1> HIDE DEF s
<1>5. Len(s) = 3
  BY <1>2, <1>4
<1>6. s[1] = c[1] /\ s[2] = c[2] /\ s[3] = c[3]
  BY <1>2, <1>4
<1>7. \A i \in 1 .. 3 : s[i] = c[i]
  <2>1. \A i \in 1 .. 3 : i = 1 \/ i = 2 \/ i = 3
    OBVIOUS
  <2> QED BY <1>6, <2>1, Zenon
<1>8. s = c
  BY <1>1, <1>2, <1>4, <1>5, <1>7, SeqEqual
<1> QED BY <1>3, <1>8 DEF s, a, b, c

\* A server that says what it has is taken at its word.
LEMMA TruthTells ==
    ASSUME NEW i, i = [Version |-> i.Version, Features |-> i.Features, Auth |-> i.Auth],
           i.Version # 0, i.Auth \in {"auto", "chap-sha1", "pap-sha256"}
    PROVE  IdentifiedAs(Truth(i)) \in {<<>>, <<i>>}
<1> DEFINE p1 == Pair("Version", Some(i.Version))
           p2 == Pair("Features", Some(i.Features))
           p3 == Pair("Auth", Some(i.Auth))
           two == <<p1, p2>>
           three == <<p1, p2, p3>>
<1>0. "Version" \in LocalKeys /\ "Features" \in LocalKeys /\ "Auth" \in LocalKeys
  BY DEF LocalKeys
<1>1. Truth(i) = MakeResponse(OkCode, Some(IF i.Auth = "auto" THEN two ELSE three))
  <2>1. two \o (IF i.Auth = "auto" THEN <<>> ELSE <<p3>>) = IF i.Auth = "auto" THEN two ELSE three
    <3> HIDE DEF p1, p2, p3
    <3>1. <<p1, p2>> \o <<>> = <<p1, p2>> /\ <<p1, p2>> \o <<p3>> = <<p1, p2, p3>>
      BY PairsJoined
    <3> QED BY <3>1, Zenon
  <2> QED BY <2>1, Zenon DEF Truth
<1>2. /\ two \in Seq(ToSet(two)) /\ two # <<>> /\ Len(two) = 2 /\ DOMAIN two = 1 .. 2
      /\ two[1] = p1 /\ two[2] = p2
      /\ three \in Seq(ToSet(three)) /\ three # <<>> /\ Len(three) = 3 /\ DOMAIN three = 1 .. 3
      /\ three[1] = p1 /\ three[2] = p2 /\ three[3] = p3
  <2> HIDE DEF p1, p2, p3
  <2> QED BY DEF ToSet
<1> HIDE DEF two, three
<1>3. ASSUME NEW pairs \in {two, three}, NEW f, AnswerRun(OkCode, pairs, f)
      PROVE  Knows(f[2], i.Version, Some(i.Features), "auto")
  <2>1. /\ Len(pairs) \in Nat /\ 2 <= Len(pairs) /\ 1 \in DOMAIN pairs /\ 2 \in DOMAIN pairs
        /\ pairs[1] = p1 /\ pairs[2] = p2
    BY <1>2
  <2>2. Knows(f[0], 0, Absent, "auto")
    BY <1>3, LoopAt
  <2>3. f[1] = IF f[0].resp.err # Absent THEN f[0] ELSE Perform(f[0], DecodePair(pairs[1]))
    <3>1. 0 \in Nat /\ 0 + 1 = 1 /\ 1 \in 0 .. Len(pairs)
      BY <2>1
    <3>2. 0 + 1 \in 0 .. Len(pairs) /\ 0 + 1 \in DOMAIN pairs
      BY <2>1, <3>1
    <3>3. f[0 + 1] = IF f[0].resp.err # Absent THEN f[0] ELSE Perform(f[0], DecodePair(pairs[0 + 1]))
      BY <1>3, <3>1, <3>2, LoopAt
    <3> QED BY <3>1, <3>3
  <2>4. f[1] = Perform(f[0], Hold("Version", Some(i.Version)))
    BY <2>1, <2>2, <2>3, IdPairs DEF Knows
  <2>5. Knows(f[1], i.Version, Absent, "auto")
    BY <1>0, <2>2, <2>4, HoldStep DEF Knows
  <2>6. f[2] = IF f[1].resp.err # Absent THEN f[1] ELSE Perform(f[1], DecodePair(pairs[2]))
    <3>1. 1 \in Nat /\ 1 + 1 = 2 /\ 2 \in 0 .. Len(pairs)
      BY <2>1
    <3>2. 1 + 1 \in 0 .. Len(pairs) /\ 1 + 1 \in DOMAIN pairs
      BY <2>1, <3>1
    <3>3. f[1 + 1] = IF f[1].resp.err # Absent THEN f[1] ELSE Perform(f[1], DecodePair(pairs[1 + 1]))
      BY <1>3, <3>1, <3>2, LoopAt
    <3> QED BY <3>1, <3>3
  <2>7. f[2] = Perform(f[1], Hold("Features", Some(Some(i.Features))))
    BY <2>1, <2>5, <2>6, IdPairs DEF Knows
  <2> DEFINE v == Some(i.Features)
             st == f[1]
             q == Perform(st, Hold("Features", Some(v)))
  <2>8. IsState(st) /\ st.resp["err"] = Absent
    BY <2>5 DEF Knows
  <2> HIDE DEF v, st
  <2>9. /\ IsState(q) /\ q.resp["err"] = Absent /\ q.locals["Features"] = v
        /\ \A j \in LocalKeys : j # "Features" => q.locals[j] = st.locals[j]
    BY <1>0, <2>8, HoldStep
  <2>10. q = f[2] /\ Knows(st, i.Version, Absent, "auto")
    BY <2>5, <2>7 DEF v, st
  <2> HIDE DEF q
  <2>11. Knows(q, i.Version, v, "auto")
    BY <1>0, <2>9, <2>10 DEF Knows
  <2> QED BY <2>10, <2>11 DEF v
<1>4. CASE i.Auth = "auto"
  <2>1. PICK f : AnswerRun(OkCode, two, f)
    BY <1>2, AnswerRuns
  <2>2. Knows(f[Len(two)], i.Version, Some(i.Features), i.Auth)
    BY <1>2, <1>3, <1>4, <2>1
  <2>3. IdentifiedAs(MakeResponse(OkCode, Some(two))) \in
            {<<>>, <<[Version |-> i.Version, Features |-> i.Features, Auth |-> i.Auth]>>}
    BY <2>1, <2>2, IdentityTold
  <2> QED BY <1>1, <1>4, <2>3
<1>5. CASE i.Auth # "auto"
  <2>1. PICK f : AnswerRun(OkCode, three, f)
    BY <1>2, AnswerRuns
  <2>2. Knows(f[2], i.Version, Some(i.Features), "auto")
    BY <1>3, <2>1
  <2>3. f[3] = IF f[2].resp.err # Absent THEN f[2] ELSE Perform(f[2], DecodePair(three[3]))
    <3>1. 2 \in Nat /\ 2 + 1 = 3 /\ 3 \in 0 .. Len(three) /\ 3 \in DOMAIN three
      BY <1>2
    <3>2. 2 + 1 \in 0 .. Len(three) /\ 2 + 1 \in DOMAIN three
      BY <3>1
    <3>3. f[2 + 1] = IF f[2].resp.err # Absent THEN f[2] ELSE Perform(f[2], DecodePair(three[2 + 1]))
      BY <2>1, <3>1, <3>2, LoopAt
    <3> QED BY <3>1, <3>3
  <2>4. f[3] = Perform(f[2], Hold("Auth", Some(i.Auth)))
    BY <1>2, <1>5, <2>2, <2>3, IdPairs DEF Knows
  <2>5. Knows(f[3], i.Version, Some(i.Features), i.Auth)
    <3> DEFINE v == Some(i.Features)
               st == f[2]
               a == i.Auth
               q == Perform(st, Hold("Auth", Some(a)))
    <3>1. Knows(st, i.Version, v, "auto") /\ f[3] = q
      BY <2>2, <2>4
    <3> HIDE DEF v, st, a
    <3>2. IsState(st) /\ st.resp["err"] = Absent
      BY <3>1 DEF Knows
    <3>3. /\ IsState(q) /\ q.resp["err"] = Absent /\ q.locals["Auth"] = a
          /\ \A j \in LocalKeys : j # "Auth" => q.locals[j] = st.locals[j]
      BY <1>0, <3>2, HoldStep
    <3> HIDE DEF q
    <3>4. Knows(q, i.Version, v, a)
      BY <1>0, <3>1, <3>3 DEF Knows
    <3> QED BY <3>1, <3>4 DEF v, a
  <2>6. Knows(f[Len(three)], i.Version, Some(i.Features), i.Auth)
    BY <1>2, <2>5
  <2>7. IdentifiedAs(MakeResponse(OkCode, Some(three))) \in
            {<<>>, <<[Version |-> i.Version, Features |-> i.Features, Auth |-> i.Auth]>>}
    BY <2>1, <2>6, IdentityTold
  <2> QED BY <1>1, <1>5, <2>7
<1> QED BY <1>4, <1>5

\* So of every answer the client learns nothing, or the protocol of the server.
LEMMA AnswersTell ==
    ASSUME NEW i, \E s \in Sessions : i \in s.infos \cup {NoInfo}, NEW n \in 1 .. 4
    PROVE  IdentifiedAs(IdAnswers(i)[n]) \in {<<>>, <<i>>}
<1> DEFINE a == <<Refusal(20), MakeResponse(OkCode, Some(<<>>)), Beside, IF i = NoInfo THEN Refusal(48) ELSE Truth(i)>>
<1>1. IdAnswers(i) = a
  BY DEF IdAnswers
<1>2. i # NoInfo => IdentifiedAs(Truth(i)) \in {<<>>, <<i>>}
  BY InfosAssumption, TruthTells
<1>3. /\ a[1] = Refusal(20) /\ a[2] = MakeResponse(OkCode, Some(<<>>)) /\ a[3] = Beside
      /\ a[4] = IF i = NoInfo THEN Refusal(48) ELSE Truth(i)
  OBVIOUS
<1> HIDE DEF a
<1>4. n = 1 \/ n = 2 \/ n = 3 \/ n = 4
  OBVIOUS
<1>5. IdentifiedAs(a[n]) \in {<<>>, <<i>>}
  BY <1>2, <1>3, <1>4, RefusalTells, EmptyTells, BesideTells, Zenon
<1> QED BY <1>1, <1>5

-----------------------------------------------------------------------------
(* Session: the handshake.                                                 *)

\* Where the socket is open, and where the server has told what it can.
Talking == {"greeting", "identify", "check", "auth", "spaces", "indexes", "ready"}
Identified == {"check", "auth", "spaces", "indexes", "ready"}

\* The socket is open exactly while the dial or the connection goes on; the server
\* has been heard, and checked; the password has not been written in the clear.
SocketHeld ==
    /\ phase = "dial" => sock = "none"
    /\ phase \in Talking => sock = "open"
    /\ phase = "failed" => sock # "open"
ServerGiven == \E s \in Sessions : server \in s.infos \cup {NoInfo}
ServerKnown == ServerGiven /\ (phase \in Identified => info = server)
ServerChecked == phase \in Identified \ {"check"} => Supported(dialOpts.Required, info)
PasswordKept == dialOpts.Transport = "ssl" \/ Without(out, Password)

\* The inductive invariant of the handshake.
HandshakeInv == SocketHeld /\ ServerKnown /\ ServerChecked /\ PasswordKept

\* A request that does not hold the password does not reveal it.
LEMMA PacketKeepsSecret ==
    ASSUME NEW r, Without(Body(r, <<>>), Password), PasswordKept, WriteRequest(r), session' = session
    PROVE  PasswordKept'
<1>1. CASE dialOpts.Transport = "ssl"
  BY <1>1 DEF PasswordKept, dialOpts
<1>2. CASE Without(out, Password)
  <2>1. Without(Pack(out, 0, r, NoStream, <<>>).buf, Password)
    BY <1>2, PackWithout DEF Password
  <2> QED BY <2>1 DEF PasswordKept, WriteRequest
<1> QED BY <1>1, <1>2 DEF PasswordKept

\* The auth request holds it only on the encrypted transport: chap-sha1 scrambles
\* it and MayAuth refuses pap-sha256 elsewhere.
LEMMA AuthKeepsSecret ==
    ASSUME PasswordKept, session' = session, MayAuth(AuthMethod),
           WriteRequest(NewAuthRequest(dialOpts.User, Secret(AuthMethod), AuthMethod))
    PROVE  PasswordKept'
<1>1. CASE dialOpts.Transport = "ssl"
  BY <1>1 DEF PasswordKept, dialOpts
<1>2. CASE dialOpts.Transport # "ssl"
  <2>1. AuthMethod = "chap-sha1"
    BY <1>2 DEF MayAuth
  <2>2. Secret(AuthMethod) = S("scramble")
    BY <2>1 DEF Secret
  <2>3. Secret(AuthMethod) # Password
    BY <2>2, PairTokens DEF Password
  <2>4. Without(Body(NewAuthRequest(dialOpts.User, Secret(AuthMethod), AuthMethod), <<>>), Password)
    BY <2>3, AuthBody DEF Password
  <2> QED BY <2>4, PacketKeepsSecret
<1> QED BY <1>1, <1>2

\* How packing ends: with a panic or an error exactly when the body has their token.
LEMMA PackErr ==
    ASSUME NEW b, NEW id, NEW r, NEW stream, NEW schm
    PROVE  LET end == Pack(b, id, r, stream, schm).err
               toks == ToSet(Body(r, schm))
           IN /\ end \in {"none", "error", "panic"}
              /\ end = "panic" <=> PanicTok \in toks
              /\ end = "none" => ErrTok \notin toks /\ PanicTok \notin toks
<1> DEFINE body == Body(r, schm)
<1>1. Pack(b, id, r, stream, schm).err = IF PanicTok \in ToSet(body) THEN "panic"
                                         ELSE IF ErrTok \in ToSet(body) THEN "error" ELSE "none"
  BY DEF Pack
<1> HIDE DEF body
<1> QED BY <1>1 DEF body

\* Sending a request leaves dial and schema alone; it panics in its body, or
\* without a response.
LEMMA DoOutcomes ==
    ASSUME NEW stream, Do(stream)
    PROVE  /\ phase = "ready" /\ req # <<>> /\ req' = req
           /\ dialVars' = dialVars /\ schemaVars' = schemaVars
           /\ \/ phase' = phase /\ cause' = cause
              \/ /\ PanicTok \in ToSet(Body(req[1].req, schema)) /\ ~Foreign(req[1].req)
                 /\ phase' = "panicked" /\ cause' = <<"pack", req[1].req>>
              \/ phase' = "panicked" /\ cause' = <<"ExecuteTyped", req[1].req>>
<1> DEFINE r == req[1].req
           packed == Pack(buf, tries + 1, r, stream, schema)
<1>1. phase = "ready" /\ req # <<>> /\ req' = req /\ dialVars' = dialVars /\ schemaVars' = schemaVars
  BY DEF Do
<1>2. packed.err \in {"none", "error", "panic"} /\ (packed.err = "panic" <=> PanicTok \in ToSet(Body(r, schema)))
  BY PackErr
<1>3. (CASE Foreign(r) -> UNCHANGED <<buf, sent, phase, cause>>
        [] ~Foreign(r) /\ packed.err = "none" ->
                /\ buf' = packed.buf
                /\ sent' = Append(sent, [id |-> tries + 1, stream |-> stream, r |-> req[1]])
                /\ UNCHANGED <<phase, cause>>
        [] ~Foreign(r) /\ packed.err = "error" ->
                /\ buf' = Trunc(packed.buf, Len(buf)) /\ UNCHANGED sent
                /\ UNCHANGED <<phase, cause>> \/ NilResponse(r, stream)
        [] ~Foreign(r) /\ packed.err = "panic" ->
                buf' = packed.buf /\ UNCHANGED sent /\ Panic("pack", r))
  BY Zenon DEF Do
<1> HIDE DEF packed, r
<1>4. CASE Foreign(r)
  BY <1>1, <1>3, <1>4
<1>5. CASE ~Foreign(r) /\ packed.err = "none"
  BY <1>1, <1>3, <1>5
<1>6. CASE ~Foreign(r) /\ packed.err = "error"
  BY <1>1, <1>3, <1>6 DEF NilResponse, Panic, r
<1>7. CASE ~Foreign(r) /\ packed.err = "panic"
  BY <1>1, <1>2, <1>3, <1>7 DEF Panic, r
<1> QED BY <1>2, <1>4, <1>5, <1>6, <1>7

\* After the handshake its state does not change.
LEMMA HandshakeKept ==
    ASSUME HandshakeInv, session' = session, sock' = sock, server' = server, info' = info, out' = out,
           phase' = phase \/ phase' = "panicked"
    PROVE  HandshakeInv'
<1>1. SocketHeld'
  BY DEF HandshakeInv, SocketHeld, Talking
<1>2. ServerKnown'
  BY DEF HandshakeInv, ServerKnown, ServerGiven, Identified
<1>3. ServerChecked'
  BY DEF HandshakeInv, ServerChecked, Identified, dialOpts, Supported
<1>4. PasswordKept'
  BY DEF HandshakeInv, PasswordKept, dialOpts
<1> QED BY <1>1, <1>2, <1>3, <1>4 DEF HandshakeInv

\* The invariant is inductive: one step per action.
LEMMA HandshakeStep ==
    ASSUME HandshakeInv, [SessionNext]_sessionVars
    PROVE  HandshakeInv'
<1> USE DEF HandshakeInv, GoTo, GiveUp, HangUp
<1>1. CASE DialNet
  <2>1. /\ phase = "dial" /\ session' = session /\ server' = server /\ info' = info /\ out' = out
        /\ ((phase' = "greeting" /\ sock' = "open") \/ (phase' = "failed" /\ sock' = sock))
    BY <1>1 DEF DialNet
  <2>2. SocketHeld'
    BY <2>1 DEF SocketHeld, Talking
  <2>3. ServerKnown' /\ ServerChecked'
    BY <2>1 DEF ServerKnown, ServerGiven, ServerChecked, Identified
  <2>4. PasswordKept'
    BY <2>1 DEF PasswordKept, dialOpts
  <2> QED BY <2>2, <2>3, <2>4
<1>2. CASE ReadGreeting
  <2>1. /\ phase = "greeting" /\ session' = session /\ server' = server /\ info' = info /\ out' = out
        /\ ((phase' = "identify" /\ sock' = sock) \/ (phase' = "failed" /\ sock' = "closed"))
    BY <1>2 DEF ReadGreeting
  <2>2. SocketHeld'
    BY <2>1 DEF SocketHeld, Talking
  <2>3. ServerKnown' /\ ServerChecked'
    BY <2>1 DEF ServerKnown, ServerGiven, ServerChecked, Identified
  <2>4. PasswordKept'
    BY <2>1 DEF PasswordKept, dialOpts
  <2> QED BY <2>2, <2>3, <2>4
<1>3. CASE Identify
  <2>0. /\ phase = "identify" /\ session' = session /\ server' = server
        /\ WriteRequest(NewIdRequest(clientProtocolInfo))
        /\ \/ phase' = "failed" /\ sock' = "closed"
           \/ \E n \in 1 .. 4 : LET known == IdentifiedAs(IdAnswers(server)[n]) IN
                 known # <<>> /\ phase' = "check" /\ sock' = sock /\ info' = known[1]
    BY <1>3 DEF Identify
  <2>1. /\ phase = "identify" /\ session' = session /\ server' = server
        /\ WriteRequest(NewIdRequest(clientProtocolInfo))
        /\ \/ phase' = "failed" /\ sock' = "closed"
           \/ phase' = "check" /\ sock' = sock /\ info' = server
    <3>1. \A n \in 1 .. 4 : IdentifiedAs(IdAnswers(server)[n]) \in {<<>>, <<server>>}
      BY AnswersTell DEF ServerKnown, ServerGiven
    <3> QED BY <2>0, <3>1
  <2>2. SocketHeld'
    BY <2>1 DEF SocketHeld, Talking
  <2>3. ServerKnown' /\ ServerChecked'
    BY <2>1 DEF ServerKnown, ServerGiven, ServerChecked, Identified
  <2>4. PasswordKept'
    BY <2>1, IdBody, PacketKeepsSecret DEF Password
  <2> QED BY <2>2, <2>3, <2>4
<1>4. CASE CheckProtocolInfo
  <2>1. /\ phase = "check" /\ session' = session /\ server' = server /\ info' = info /\ out' = out
        /\ \/ phase' = "failed" /\ sock' = "closed"
           \/ phase' = "auth" /\ sock' = sock /\ Supported(dialOpts.Required, info)
    BY <1>4 DEF CheckProtocolInfo
  <2>2. SocketHeld'
    BY <2>1 DEF SocketHeld, Talking
  <2>3. ServerKnown' /\ ServerChecked'
    BY <2>1 DEF ServerKnown, ServerGiven, ServerChecked, Identified, Supported, dialOpts
  <2>4. PasswordKept'
    BY <2>1 DEF PasswordKept, dialOpts
  <2> QED BY <2>2, <2>3, <2>4
<1>5. CASE Authenticate
  <2>1. /\ phase = "auth" /\ session' = session /\ server' = server /\ info' = info
        /\ \/ phase' = "failed" /\ sock' = "closed"
           \/ phase' \in {"ready", "spaces"} /\ sock' = sock
    BY <1>5 DEF Authenticate, Connected
  <2>2. SocketHeld'
    BY <2>1 DEF SocketHeld, Talking
  <2>3. ServerKnown' /\ ServerChecked'
    BY <2>1 DEF ServerKnown, ServerGiven, ServerChecked, Identified, Supported, dialOpts
  <2>4. PasswordKept'
    <3>1. CASE out' = out
      BY <2>1, <3>1 DEF PasswordKept, dialOpts
    <3>2. CASE /\ MayAuth(AuthMethod)
               /\ WriteRequest(NewAuthRequest(dialOpts.User, Secret(AuthMethod), AuthMethod))
      BY <2>1, <3>2, AuthKeepsSecret
    <3> QED BY <1>5, <3>1, <3>2 DEF Authenticate
  <2> QED BY <2>2, <2>3, <2>4
<1>6. CASE LoadSpaces
  <2>1. /\ phase = "spaces" /\ session' = session /\ server' = server /\ info' = info
        /\ WriteRequest(Load(281))
        /\ ((phase' = "failed" /\ sock' = "closed") \/ (phase' = "indexes" /\ sock' = sock))
    BY <1>6 DEF LoadSpaces
  <2>2. SocketHeld'
    BY <2>1 DEF SocketHeld, Talking
  <2>3. ServerKnown' /\ ServerChecked'
    BY <2>1 DEF ServerKnown, ServerGiven, ServerChecked, Identified, Supported, dialOpts
  <2>4. PasswordKept'
    BY <2>1, LoadBody, PacketKeepsSecret DEF Password
  <2> QED BY <2>2, <2>3, <2>4
<1>7. CASE LoadIndexes
  <2>1. /\ phase = "indexes" /\ session' = session /\ server' = server /\ info' = info
        /\ WriteRequest(Load(289))
        /\ \/ phase' = "failed" /\ sock' = "closed"
           \/ phase' \in {"ready", "panicked"} /\ sock' = sock
    BY <1>7 DEF LoadIndexes, Panic
  <2>2. SocketHeld'
    BY <2>1 DEF SocketHeld, Talking
  <2>3. ServerKnown' /\ ServerChecked'
    BY <2>1 DEF ServerKnown, ServerGiven, ServerChecked, Identified, Supported, dialOpts
  <2>4. PasswordKept'
    BY <2>1, LoadBody, PacketKeepsSecret DEF Password
  <2> QED BY <2>2, <2>3, <2>4
<1>8. ASSUME dialVars' = dialVars, phase' = phase \/ phase' = "panicked" PROVE HandshakeInv'
  <2> USE <1>8
  <2>1. session' = session /\ sock' = sock /\ server' = server /\ info' = info /\ out' = out
    BY DEF dialVars
  <2> HIDE DEF HandshakeInv
  <2> QED BY <2>1, HandshakeKept
<1> HIDE DEF HandshakeInv
<1>9. CASE DDL
  BY <1>8, <1>9 DEF DDL
<1>10. CASE \E r, setters, crud : New(r, setters, crud)
  BY <1>8, <1>10 DEF New
<1>11. CASE \E name, v : Set(name, v)
  BY <1>8, <1>11 DEF Set
<1>12. CASE \E stream : Do(stream)
  <2>1. PICK stream : Do(stream)
    BY <1>12
  <2>2. dialVars' = dialVars /\ (phase' = phase \/ phase' = "panicked")
    BY <2>1, DoOutcomes
  <2> QED BY <1>8, <2>2
<1>13. CASE Drop
  BY <1>8, <1>13 DEF Drop
<1>14. CASE Fails \/ Answered
  BY <1>8, <1>14 DEF Fails, NilResponse, Answered, Panic
<1>15. CASE UNCHANGED sessionVars
  BY <1>8, <1>15 DEF sessionVars
<1>16. NewRequest \/ NewCrudRequest => \E r, setters, crud : New(r, setters, crud)
  BY Zenon DEF NewRequest, NewCrudRequest
<1> QED
  BY <1>1, <1>2, <1>3, <1>4, <1>5, <1>6, <1>7, <1>9, <1>10, <1>11, <1>12, <1>13, <1>14, <1>15, <1>16
  DEF SessionNext

\* Nothing is open, known or written before the dial.
LEMMA HandshakeInit == SessionInit => HandshakeInv
<1> SUFFICES ASSUME SessionInit PROVE HandshakeInv
  OBVIOUS
<1>1. phase = "dial" /\ sock = "none" /\ out = <<>> /\ \E s \in Sessions : server \in s.infos \cup {NoInfo}
  BY DEF SessionInit
<1>2. SocketHeld /\ ServerKnown /\ ServerChecked
  BY <1>1 DEF SocketHeld, ServerKnown, ServerGiven, ServerChecked, Talking, Identified
<1>3. Without(<<>>, Password)
  BY EmptySeq DEF Without, ToSet
<1> QED BY <1>1, <1>2, <1>3 DEF HandshakeInv, PasswordKept

\* Whatever the server answers and wherever the handshake fails, no socket is left
\* open behind a failed connection, a connection in use meets the requirements of
\* its options, and the password is written to an encrypted transport only.
THEOREM HandshakeIsSound == SessionSpec => []HandshakeSound
<1>1. HandshakeInv => HandshakeSound
  <2> SUFFICES ASSUME HandshakeInv PROVE HandshakeSound
    OBVIOUS
  <2>1. NoLeakedSocket
    BY DEF HandshakeInv, SocketHeld, NoLeakedSocket
  <2>2. RequirementsMet
    BY DEF HandshakeInv, SocketHeld, ServerKnown, ServerChecked, RequirementsMet, Talking, Identified, Supported
  <2>3. PasswordEncrypted
    BY DEF HandshakeInv, PasswordKept, Without, PasswordEncrypted
  <2> QED BY <2>1, <2>2, <2>3 DEF HandshakeSound
<1>2. HandshakeInv /\ [SessionNext]_sessionVars => HandshakeInv'
  BY HandshakeStep
<1> QED BY <1>1, <1>2, HandshakeInit, PTL DEF SessionSpec

-----------------------------------------------------------------------------
(* Session: the schema.                                                    *)

\* Up to the limit, the first select returns every space.
LEMMA AllSpaces ==
    ASSUME NEW all \in SUBSET Rows, ~(Cardinality(all) > maxSchemas) PROVE FirstSpaces(all) = all
<1>1. IsFiniteSet(all) /\ maxSchemas \in Nat /\ \A s \in all : s.row.id \in Nat
  BY RowsAssumption, FS_Subset
<1>2. ASSUME NEW s \in all PROVE Cardinality({x \in all : x.row.id < s.row.id}) < maxSchemas
  <2> DEFINE before == {x \in all : x.row.id < s.row.id}
             others == all \ {s}
  <2>1. s \notin before
    BY <1>1
  <2>2. before \subseteq others
    BY <2>1
  <2>3. IsFiniteSet(others) /\ Cardinality(others) = Cardinality(all) - 1
    BY <1>1, FS_RemoveElement
  <2> HIDE DEF before, others
  <2>4. Cardinality(before) <= Cardinality(others)
    BY <2>2, <2>3, FS_Subset
  <2>5. IsFiniteSet(before)
    BY <2>2, <2>3, FS_Subset
  <2>6. Cardinality(before) \in Nat /\ Cardinality(all) \in Nat
    BY <1>1, <2>5, FS_CardinalityType
  <2>7. Cardinality(before) < maxSchemas
    BY <1>1, <2>3, <2>4, <2>6
  <2> QED BY <2>7 DEF before
<1> QED BY <1>2 DEF FirstSpaces

\* Rows of one schema: every index belongs to a space that was loaded.
LEMMA IndexesHaveSpaces ==
    ASSUME NEW all \in SUBSET Rows, NEW known, NEW idx, NEW irows,
           SpacesOf({s.row : s \in all}) = <<known>>, irows \subseteq UNION {s.indexes : s \in all},
           DecodeRows(DecodeIndex, irows) = <<idx>>
    PROVE  Indexed(known, idx)
<1> DEFINE srows == {s.row : s \in all}
<1>1. idx = {DecodeIndex(r)[1] : r \in irows} /\ \A r \in irows : DecodeIndex(r) # <<>>
  <2>1. ~\E r \in irows : DecodeIndex(r) = <<>>
    BY DEF DecodeRows
  <2>2. <<{DecodeIndex(r)[1] : r \in irows}>> = <<idx>>
    BY <2>1 DEF DecodeRows
  <2> QED BY <2>1, <2>2
<1>2. known = {DecodeSpace(r)[1] : r \in srows} /\ \A r \in srows : DecodeSpace(r) # <<>>
  <2>1. ~\E r \in srows : DecodeSpace(r) = <<>>
    BY DEF DecodeRows, SpacesOf
  <2>2. <<{DecodeSpace(r)[1] : r \in srows}>> = <<known>>
    BY <2>1 DEF DecodeRows, SpacesOf
  <2> QED BY <2>1, <2>2
<1>3. ASSUME NEW i \in idx PROVE \E s \in known : s.Id = i.SpaceId
  <2>1. PICK r \in irows : i = DecodeIndex(r)[1]
    BY <1>1
  <2>2. PICK s \in all : r \in s.indexes
    BY <2>1
  <2>3. i.SpaceId = r.space
    <3>1. DecodeIndex(r) # <<>>
      BY <1>1
    <3> QED BY <2>1, <3>1 DEF DecodeIndex
  <2>4. r.space = s.row.id
    BY <2>2, RowsAssumption
  <2>5. s.row \in srows /\ DecodeSpace(s.row) # <<>> /\ DecodeSpace(s.row)[1] \in known
    BY <1>2, <2>2
  <2>6. DecodeSpace(s.row)[1].Id = s.row.id
    BY <2>5 DEF DecodeSpace
  <2> QED BY <2>3, <2>4, <2>5, <2>6
<1> QED BY <1>3 DEF Indexed

-----------------------------------------------------------------------------
(* Session: values that are encoded without a panic.                       *)

\* Tokens without a panic, and values that are encoded so at every depth.
NoPanic(s) == Without(s, PanicTok)

Encodable(v) ==
    NoPanic(EncodeLeaf(v)) /\ NoPanic(Encode1(v)) /\ NoPanic(Encode2(v)) /\ NoPanic(Encode(v))

\* The values that are encoded as arrays.
ManyTags == {"list", "key", "op"}

\* One step of the encoder, stated for a function enc from the parts to their tokens.
LEMMA ListEncoded ==
    ASSUME NEW v, v[1] \in ManyTags, NEW n \in Nat, DOMAIN v[2] = 1 .. n, NEW enc,
           enc = [i \in 1 .. n |-> enc[i]], \A i \in 1 .. n : NoPanic(enc[i])
    PROVE  NoPanic(<<ArrayLen(Len(v[2]))>> \o FlattenSeq(enc))
<1>1. NoPanic(FlattenSeq(enc))
  BY WithoutFlatten DEF NoPanic
<1>2. NoPanic(<<ArrayLen(Len(v[2]))>>)
  BY PairTokens, WithoutTuples DEF NoPanic, PanicTok
<1> QED BY <1>1, <1>2, WithoutConcat DEF NoPanic

\* A value without parts is its own token, or an error.
LEMMA LeafEncodable ==
    ASSUME NEW v, v # PanicTok PROVE NoPanic(EncodeLeaf(v))
<1>1. ErrTok # PanicTok
  BY DEF ErrTok, PanicTok
<1> QED BY <1>1, WithoutTuples DEF EncodeLeaf, NoPanic

\* So it is encodable at every depth.
LEMMA SimpleEncodable ==
    ASSUME NEW v, v # PanicTok, v[1] \notin ManyTags, v[1] # "opts"
    PROVE  Encodable(v)
<1>1. Encode1(v) = EncodeLeaf(v) /\ Encode2(v) = EncodeLeaf(v) /\ Encode(v) = EncodeLeaf(v)
  BY DEF Encode, Encode2, Encode1, EncodeParts, ManyTags
<1> QED BY <1>1, LeafEncodable DEF Encodable

\* An array of encodable values is encodable,
LEMMA ManyEncodable ==
    ASSUME NEW v, v[1] \in ManyTags, v # PanicTok, NEW n \in Nat, DOMAIN v[2] = 1 .. n,
           \A i \in 1 .. n : Encodable(v[2][i])
    PROVE  Encodable(v)
<1> DEFINE e1 == [i \in DOMAIN v[2] |-> EncodeLeaf(v[2][i])]
           e2 == [i \in DOMAIN v[2] |-> Encode1(v[2][i])]
           e3 == [i \in DOMAIN v[2] |-> Encode2(v[2][i])]
<1>1. /\ Encode1(v) = <<ArrayLen(Len(v[2]))>> \o FlattenSeq(e1)
      /\ Encode2(v) = <<ArrayLen(Len(v[2]))>> \o FlattenSeq(e2)
      /\ Encode(v) = <<ArrayLen(Len(v[2]))>> \o FlattenSeq(e3)
  <2>1. v[1] # "opts"
    BY DEF ManyTags
  <2> QED BY <2>1, Zenon DEF Encode, Encode2, Encode1, EncodeParts, ManyTags
<1>2. /\ e1 = [i \in 1 .. n |-> e1[i]] /\ \A i \in 1 .. n : NoPanic(e1[i])
      /\ e2 = [i \in 1 .. n |-> e2[i]] /\ \A i \in 1 .. n : NoPanic(e2[i])
      /\ e3 = [i \in 1 .. n |-> e3[i]] /\ \A i \in 1 .. n : NoPanic(e3[i])
  BY DEF Encodable
<1> HIDE DEF e1, e2, e3
<1>3. NoPanic(Encode1(v)) /\ NoPanic(Encode2(v)) /\ NoPanic(Encode(v))
  <2>1. /\ NoPanic(<<ArrayLen(Len(v[2]))>> \o FlattenSeq(e1))
        /\ NoPanic(<<ArrayLen(Len(v[2]))>> \o FlattenSeq(e2))
        /\ NoPanic(<<ArrayLen(Len(v[2]))>> \o FlattenSeq(e3))
    BY <1>2, ListEncoded
  <2> QED BY <1>1, <2>1, Zenon
<1> QED BY <1>3, LeafEncodable DEF Encodable

\* and so is a map of options,
LEMMA OptionsEncodable ==
    ASSUME NEW v, v[1] = "opts", v # PanicTok, NEW n \in Nat, DOMAIN v[2] = 1 .. n,
           \A i \in 1 .. n : Encodable(v[2][i][2])
    PROVE  Encodable(v)
<1> DEFINE name(i) == <<S(v[2][i][1])>>
           e1 == [i \in DOMAIN v[2] |-> name(i) \o UpTo(EncodeLeaf(v[2][i][2]), {ErrTok})]
           e2 == [i \in DOMAIN v[2] |-> name(i) \o UpTo(Encode1(v[2][i][2]), {ErrTok})]
           e3 == [i \in DOMAIN v[2] |-> name(i) \o UpTo(Encode2(v[2][i][2]), {ErrTok})]
<1>1. /\ Encode1(v) = <<MapLen(Len(v[2]))>> \o FlattenSeq(e1)
      /\ Encode2(v) = <<MapLen(Len(v[2]))>> \o FlattenSeq(e2)
      /\ Encode(v) = <<MapLen(Len(v[2]))>> \o FlattenSeq(e3)
  <2>1. v[1] \notin {"list", "key", "op"}
    OBVIOUS
  <2> QED BY <2>1, Zenon DEF Encode, Encode2, Encode1, EncodeParts
<1>2. ASSUME NEW i \in 1 .. n
      PROVE  NoPanic(e1[i]) /\ NoPanic(e2[i]) /\ NoPanic(e3[i])
  <2>1. Encodable(v[2][i][2])
    OBVIOUS
  <2>2. NoPanic(name(i))
    BY PairTokens, WithoutTuples DEF NoPanic, PanicTok
  <2>3. /\ NoPanic(UpTo(EncodeLeaf(v[2][i][2]), {ErrTok}))
        /\ NoPanic(UpTo(Encode1(v[2][i][2]), {ErrTok}))
        /\ NoPanic(UpTo(Encode2(v[2][i][2]), {ErrTok}))
    BY <2>1, WithoutUpTo DEF Encodable, NoPanic
  <2> HIDE DEF name
  <2> QED BY <2>2, <2>3, WithoutConcat DEF NoPanic
<1>3. /\ e1 = [i \in 1 .. n |-> e1[i]] /\ e2 = [i \in 1 .. n |-> e2[i]] /\ e3 = [i \in 1 .. n |-> e3[i]]
  OBVIOUS
<1> HIDE DEF e1, e2, e3
<1>4. NoPanic(FlattenSeq(e1)) /\ NoPanic(FlattenSeq(e2)) /\ NoPanic(FlattenSeq(e3))
  BY <1>2, <1>3, WithoutFlatten DEF NoPanic
<1>5. NoPanic(<<MapLen(Len(v[2]))>>)
  BY PairTokens, WithoutTuples DEF NoPanic, PanicTok
<1>6. NoPanic(Encode1(v)) /\ NoPanic(Encode2(v)) /\ NoPanic(Encode(v))
  BY <1>1, <1>4, <1>5, WithoutConcat DEF NoPanic
<1> QED BY <1>6, LeafEncodable DEF Encodable

\* enc holds n options, each with its name and its tokens up to an error.
OptionTokens(v, n, toks, enc) ==
    /\ enc = [i \in 1 .. n |-> enc[i]]
    /\ \A i \in 1 .. n :
          NoPanic(toks[i]) /\ enc[i] = <<S(v[2][i][1])>> \o UpTo(toks[i], {ErrTok})

\* One step of the encoder over the options.
LEMMA OptionsEncoded ==
    ASSUME NEW v, NEW n \in Nat, NEW toks, NEW enc, OptionTokens(v, n, toks, enc)
    PROVE  NoPanic(<<MapLen(Len(v[2]))>> \o FlattenSeq(enc))
<1>0. /\ enc = [i \in 1 .. n |-> enc[i]]
      /\ \A i \in 1 .. n :
            NoPanic(toks[i]) /\ enc[i] = <<S(v[2][i][1])>> \o UpTo(toks[i], {ErrTok})
  BY DEF OptionTokens
<1>1. ASSUME NEW i \in 1 .. n PROVE NoPanic(enc[i])
  <2>1. NoPanic(<<S(v[2][i][1])>>)
    BY PairTokens, WithoutTuples DEF NoPanic, PanicTok
  <2>2. NoPanic(UpTo(toks[i], {ErrTok}))
    BY <1>0, WithoutUpTo DEF NoPanic
  <2> QED BY <1>0, <2>1, <2>2, WithoutConcat DEF NoPanic
<1>2. NoPanic(FlattenSeq(enc))
  BY <1>0, <1>1, WithoutFlatten DEF NoPanic
<1>3. NoPanic(<<MapLen(Len(v[2]))>>)
  BY PairTokens, WithoutTuples DEF NoPanic, PanicTok
<1> QED BY <1>2, <1>3, WithoutConcat DEF NoPanic

\* So is every value a program may pass, as all its parts are.
LEMMA GoValuesEncodable == \A v \in GoValues : Encodable(v)
<1>1. /\ PanicTok \notin GoValues
      /\ \A v \in GoValues :
            /\ v[1] \in ManyTags => v[2] \in Seq(GoValues)
            /\ v[1] = "opts" => v[2] \in Seq(STRING \X GoValues)
  BY GoValuesAssumption DEF ManyTags
<1>2. ASSUME NEW v \in GoValues PROVE NoPanic(EncodeLeaf(v))
  BY <1>1, LeafEncodable
<1>3. ASSUME NEW v \in GoValues PROVE NoPanic(Encode1(v))
  <2>1. CASE v[1] \in ManyTags
    <3> DEFINE enc == [i \in DOMAIN v[2] |-> EncodeLeaf(v[2][i])]
    <3>1. Encode1(v) = <<ArrayLen(Len(v[2]))>> \o FlattenSeq(enc)
      <4>1. v[1] # "opts"
        BY <2>1 DEF ManyTags
      <4> QED BY <2>1, <4>1, Zenon DEF Encode1, EncodeParts, ManyTags
    <3>2. Len(v[2]) \in Nat /\ DOMAIN v[2] = 1 .. Len(v[2]) /\ \A i \in DOMAIN v[2] : v[2][i] \in GoValues
      BY <1>1, <2>1
    <3>3. enc = [i \in 1 .. Len(v[2]) |-> enc[i]] /\ \A i \in 1 .. Len(v[2]) : NoPanic(enc[i])
      BY <1>2, <3>2
    <3> HIDE DEF enc
    <3> QED BY <2>1, <3>1, <3>2, <3>3, ListEncoded
  <2>2. CASE v[1] = "opts"
    <3> DEFINE toks == [i \in DOMAIN v[2] |-> EncodeLeaf(v[2][i][2])]
               enc == [i \in DOMAIN v[2] |-> <<S(v[2][i][1])>> \o UpTo(EncodeLeaf(v[2][i][2]), {ErrTok})]
    <3>1. Encode1(v) = <<MapLen(Len(v[2]))>> \o FlattenSeq(enc)
      <4>1. v[1] \notin {"list", "key", "op"}
        BY <2>2
      <4> QED BY <2>2, <4>1, Zenon DEF Encode1, EncodeParts
    <3>2. Len(v[2]) \in Nat /\ DOMAIN v[2] = 1 .. Len(v[2]) /\ \A i \in DOMAIN v[2] : v[2][i][2] \in GoValues
      BY <1>1, <2>2
    <3>3. enc = [i \in 1 .. Len(v[2]) |-> enc[i]] /\ \A i \in 1 .. Len(v[2]) : NoPanic(toks[i])
      BY <1>2, <3>2
    <3>4. \A i \in 1 .. Len(v[2]) : enc[i] = <<S(v[2][i][1])>> \o UpTo(toks[i], {ErrTok})
      BY <3>2
    <3> HIDE DEF enc, toks
    <3>5. NoPanic(<<MapLen(Len(v[2]))>> \o FlattenSeq(enc))
      <4>1. OptionTokens(v, Len(v[2]), toks, enc)
        BY <3>3, <3>4 DEF OptionTokens
      <4> QED BY <3>2, <4>1, OptionsEncoded
    <3> QED BY <3>1, <3>5, Zenon
  <2>3. CASE v[1] \notin ManyTags /\ v[1] # "opts"
    <3>1. Encode1(v) = EncodeLeaf(v)
      BY <2>3 DEF Encode1, EncodeParts, ManyTags
    <3> QED BY <1>2, <3>1
  <2> QED BY <2>1, <2>2, <2>3
<1>4. ASSUME NEW v \in GoValues PROVE NoPanic(Encode2(v))
  <2>1. CASE v[1] \in ManyTags
    <3> DEFINE enc == [i \in DOMAIN v[2] |-> Encode1(v[2][i])]
    <3>1. Encode2(v) = <<ArrayLen(Len(v[2]))>> \o FlattenSeq(enc)
      <4>1. v[1] # "opts"
        BY <2>1 DEF ManyTags
      <4> QED BY <2>1, <4>1, Zenon DEF Encode2, EncodeParts, ManyTags
    <3>2. Len(v[2]) \in Nat /\ DOMAIN v[2] = 1 .. Len(v[2]) /\ \A i \in DOMAIN v[2] : v[2][i] \in GoValues
      BY <1>1, <2>1
    <3>3. enc = [i \in 1 .. Len(v[2]) |-> enc[i]] /\ \A i \in 1 .. Len(v[2]) : NoPanic(enc[i])
      BY <1>3, <3>2
    <3> HIDE DEF enc
    <3> QED BY <2>1, <3>1, <3>2, <3>3, ListEncoded
  <2>2. CASE v[1] = "opts"
    <3> DEFINE toks == [i \in DOMAIN v[2] |-> Encode1(v[2][i][2])]
               enc == [i \in DOMAIN v[2] |-> <<S(v[2][i][1])>> \o UpTo(Encode1(v[2][i][2]), {ErrTok})]
    <3>1. Encode2(v) = <<MapLen(Len(v[2]))>> \o FlattenSeq(enc)
      <4>1. v[1] \notin {"list", "key", "op"}
        BY <2>2
      <4> QED BY <2>2, <4>1, Zenon DEF Encode2, EncodeParts
    <3>2. Len(v[2]) \in Nat /\ DOMAIN v[2] = 1 .. Len(v[2]) /\ \A i \in DOMAIN v[2] : v[2][i][2] \in GoValues
      BY <1>1, <2>2
    <3>3. enc = [i \in 1 .. Len(v[2]) |-> enc[i]] /\ \A i \in 1 .. Len(v[2]) : NoPanic(toks[i])
      BY <1>3, <3>2
    <3>4. \A i \in 1 .. Len(v[2]) : enc[i] = <<S(v[2][i][1])>> \o UpTo(toks[i], {ErrTok})
      BY <3>2
    <3> HIDE DEF enc, toks
    <3>5. NoPanic(<<MapLen(Len(v[2]))>> \o FlattenSeq(enc))
      <4>1. OptionTokens(v, Len(v[2]), toks, enc)
        BY <3>3, <3>4 DEF OptionTokens
      <4> QED BY <3>2, <4>1, OptionsEncoded
    <3> QED BY <3>1, <3>5, Zenon
  <2>3. CASE v[1] \notin ManyTags /\ v[1] # "opts"
    <3>1. Encode2(v) = EncodeLeaf(v)
      BY <2>3 DEF Encode2, EncodeParts, ManyTags
    <3> QED BY <1>2, <3>1
  <2> QED BY <2>1, <2>2, <2>3
<1>5. ASSUME NEW v \in GoValues PROVE NoPanic(Encode(v))
  <2>1. CASE v[1] \in ManyTags
    <3> DEFINE enc == [i \in DOMAIN v[2] |-> Encode2(v[2][i])]
    <3>1. Encode(v) = <<ArrayLen(Len(v[2]))>> \o FlattenSeq(enc)
      <4>1. v[1] # "opts"
        BY <2>1 DEF ManyTags
      <4> QED BY <2>1, <4>1, Zenon DEF Encode, EncodeParts, ManyTags
    <3>2. Len(v[2]) \in Nat /\ DOMAIN v[2] = 1 .. Len(v[2]) /\ \A i \in DOMAIN v[2] : v[2][i] \in GoValues
      BY <1>1, <2>1
    <3>3. enc = [i \in 1 .. Len(v[2]) |-> enc[i]] /\ \A i \in 1 .. Len(v[2]) : NoPanic(enc[i])
      BY <1>4, <3>2
    <3> HIDE DEF enc
    <3> QED BY <2>1, <3>1, <3>2, <3>3, ListEncoded
  <2>2. CASE v[1] = "opts"
    <3> DEFINE toks == [i \in DOMAIN v[2] |-> Encode2(v[2][i][2])]
               enc == [i \in DOMAIN v[2] |-> <<S(v[2][i][1])>> \o UpTo(Encode2(v[2][i][2]), {ErrTok})]
    <3>1. Encode(v) = <<MapLen(Len(v[2]))>> \o FlattenSeq(enc)
      <4>1. v[1] \notin {"list", "key", "op"}
        BY <2>2
      <4> QED BY <2>2, <4>1, Zenon DEF Encode, EncodeParts
    <3>2. Len(v[2]) \in Nat /\ DOMAIN v[2] = 1 .. Len(v[2]) /\ \A i \in DOMAIN v[2] : v[2][i][2] \in GoValues
      BY <1>1, <2>2
    <3>3. enc = [i \in 1 .. Len(v[2]) |-> enc[i]] /\ \A i \in 1 .. Len(v[2]) : NoPanic(toks[i])
      BY <1>4, <3>2
    <3>4. \A i \in 1 .. Len(v[2]) : enc[i] = <<S(v[2][i][1])>> \o UpTo(toks[i], {ErrTok})
      BY <3>2
    <3> HIDE DEF enc, toks
    <3>5. NoPanic(<<MapLen(Len(v[2]))>> \o FlattenSeq(enc))
      <4>1. OptionTokens(v, Len(v[2]), toks, enc)
        BY <3>3, <3>4 DEF OptionTokens
      <4> QED BY <3>2, <4>1, OptionsEncoded
    <3> QED BY <3>1, <3>5, Zenon
  <2>3. CASE v[1] \notin ManyTags /\ v[1] # "opts"
    <3>1. Encode(v) = EncodeLeaf(v)
      BY <2>3 DEF Encode, EncodeParts, ManyTags
    <3> QED BY <1>2, <3>1
  <2> QED BY <2>1, <2>2, <2>3
<1> QED BY <1>2, <1>3, <1>4, <1>5 DEF Encodable

\* SQL arguments that EncodeSQLBind writes without a panic, unless they are a slice
\* of a type it does not know.
Bindable(v) == v[1] = "slice" \/ NoPanic(EncodeSQLBind(v))

\* A named argument, and
LEMMA NamedBindSound ==
    ASSUME NEW name, NEW v, Encodable(v) PROVE NoPanic(NamedBind(name, v))
<1>1. NoPanic(<<MapLen(1), <<"bind", name>>>>)
  BY PairTokens, WithoutTuples DEF NoPanic, PanicTok
<1> QED BY <1>1, WithoutConcat DEF NamedBind, NoPanic, Encodable

\* a sequence of them are written without a panic.
LEMMA NamedBindsSound ==
    ASSUME NEW pairs, NEW n \in Nat, DOMAIN pairs = 1 .. n, \A i \in 1 .. n : Encodable(pairs[i][2])
    PROVE  NoPanic(NamedBinds(pairs))
<1> DEFINE enc == [i \in DOMAIN pairs |-> NamedBind(pairs[i][1], pairs[i][2])]
<1>1. enc = [i \in 1 .. n |-> enc[i]] /\ \A i \in 1 .. n : NoPanic(enc[i])
  BY NamedBindSound
<1>2. NamedBinds(pairs) = <<ArrayLen(Len(pairs))>> \o FlattenSeq(enc)
  BY DEF NamedBinds
<1> HIDE DEF enc
<1>3. NoPanic(FlattenSeq(enc))
  BY <1>1, WithoutFlatten DEF NoPanic
<1>4. NoPanic(<<ArrayLen(Len(pairs))>>)
  BY PairTokens, WithoutTuples DEF NoPanic, PanicTok
<1> QED BY <1>2, <1>3, <1>4, WithoutConcat DEF NoPanic

\* Every value a program may pass is bindable.
LEMMA GoValuesBindable == \A v \in GoValues : Bindable(v)
<1> TAKE v \in GoValues
<1>1. /\ v[1] = "list" => v[2] \in Seq(GoValues)
      /\ v[1] \in {"kvs", "gomap", "struct"} => v[2] \in Seq(STRING \X GoValues)
      /\ \A x \in GoValues : x[1] = "kv" => x[3] \in GoValues
  BY GoValuesAssumption
<1>2. CASE v[1] = "list"
  <2> DEFINE enc == [n \in DOMAIN v[2] |-> IF v[2][n][1] = "kv" THEN NamedBind(v[2][n][2], v[2][n][3])
                                           ELSE Encode(v[2][n])]
  <2>1. EncodeSQLBind(v) = <<ArrayLen(Len(v[2]))>> \o FlattenSeq(enc)
    <3>1. v[1] # "kvs" /\ v[1] # "gomap" /\ v[1] # "struct" /\ v[1] # "othermap" /\ v[1] # "slice"
      BY <1>2
    <3> QED BY <1>2, <3>1, Zenon DEF EncodeSQLBind
  <2>2. Len(v[2]) \in Nat /\ DOMAIN v[2] = 1 .. Len(v[2]) /\ \A i \in DOMAIN v[2] : v[2][i] \in GoValues
    BY <1>1, <1>2
  <2>3. ASSUME NEW i \in 1 .. Len(v[2]) PROVE NoPanic(enc[i])
    <3>1. CASE v[2][i][1] = "kv"
      <4>1. v[2][i][3] \in GoValues
        BY <1>1, <2>2, <3>1
      <4>2. enc[i] = NamedBind(v[2][i][2], v[2][i][3])
        BY <2>2, <3>1
      <4> QED BY <4>1, <4>2, GoValuesEncodable, NamedBindSound
    <3>2. CASE v[2][i][1] # "kv"
      <4>1. enc[i] = Encode(v[2][i]) /\ v[2][i] \in GoValues
        BY <2>2, <3>2
      <4> QED BY <4>1, GoValuesEncodable DEF Encodable
    <3> QED BY <3>1, <3>2
  <2>4. enc = [i \in 1 .. Len(v[2]) |-> enc[i]]
    BY <2>2
  <2>5. v[1] \in ManyTags
    BY <1>2 DEF ManyTags
  <2> HIDE DEF enc
  <2>6. NoPanic(<<ArrayLen(Len(v[2]))>> \o FlattenSeq(enc))
    BY <2>2, <2>3, <2>4, <2>5, ListEncoded
  <2> QED BY <2>1, <2>6, Zenon DEF Bindable
<1>3. CASE v[1] \in {"kvs", "gomap"}
  <2>1. EncodeSQLBind(v) = NamedBinds(v[2])
    <3>1. v[1] # "list" /\ v[1] # "struct" /\ v[1] # "othermap" /\ v[1] # "slice"
      BY <1>3
    <3> QED BY <1>3, <3>1, Zenon DEF EncodeSQLBind
  <2>2. Len(v[2]) \in Nat /\ DOMAIN v[2] = 1 .. Len(v[2]) /\ \A i \in DOMAIN v[2] : v[2][i][2] \in GoValues
    BY <1>1, <1>3
  <2>3. NoPanic(NamedBinds(v[2]))
    BY <2>2, GoValuesEncodable, NamedBindsSound
  <2> QED BY <2>1, <2>3, Zenon DEF Bindable
<1>4. CASE v[1] = "struct"
  <2> DEFINE pairs == [n \in DOMAIN v[2] |-> <<Lower[v[2][n][1]], v[2][n][2]>>]
  <2>1. EncodeSQLBind(v) = NamedBinds(pairs)
    <3>1. v[1] # "list" /\ v[1] # "kvs" /\ v[1] # "gomap" /\ v[1] # "othermap" /\ v[1] # "slice"
      BY <1>4
    <3> QED BY <1>4, <3>1, Zenon DEF EncodeSQLBind
  <2>2. Len(v[2]) \in Nat /\ DOMAIN v[2] = 1 .. Len(v[2]) /\ \A i \in DOMAIN v[2] : v[2][i][2] \in GoValues
    BY <1>1, <1>4
  <2>3. DOMAIN pairs = 1 .. Len(v[2]) /\ \A i \in 1 .. Len(v[2]) : pairs[i][2] \in GoValues
    BY <2>2
  <2> HIDE DEF pairs
  <2>4. NoPanic(NamedBinds(pairs))
    BY <2>2, <2>3, GoValuesEncodable, NamedBindsSound
  <2> QED BY <2>1, <2>4, Zenon DEF Bindable
<1>5. CASE v[1] = "othermap"
  <2>1. EncodeSQLBind(v) = <<ErrTok>>
    BY <1>5 DEF EncodeSQLBind
  <2>2. ErrTok # PanicTok
    BY DEF ErrTok, PanicTok
  <2> QED BY <2>1, <2>2, WithoutTuples DEF NoPanic, Bindable
<1>6. CASE v[1] = "slice"
  BY <1>6 DEF Bindable
<1>7. CASE v[1] \notin {"list", "kvs", "gomap", "struct", "othermap", "slice"}
  <2>1. EncodeSQLBind(v) = <<>>
    BY <1>7 DEF EncodeSQLBind
  <2> QED BY <2>1, WithoutTuples DEF NoPanic, Bindable
<1> QED BY <1>2, <1>3, <1>4, <1>5, <1>6, <1>7

\* The values the client makes itself are encodable,
LEMMA ConstructorsEncodable ==
    /\ \A n : Encodable(U(n)) /\ Encodable(S(n)) /\ Encodable(B(n))
    /\ Encodable(Nil)
<1>1. ASSUME NEW n PROVE Encodable(U(n)) /\ Encodable(S(n)) /\ Encodable(B(n))
  <2>1. U(n) # PanicTok /\ S(n) # PanicTok /\ B(n) # PanicTok
    BY PairTokens DEF PanicTok, U, S, B
  <2>2. U(n)[1] = "uint" /\ S(n)[1] = "str" /\ B(n)[1] = "bool"
    BY DEF U, S, B
  <2> QED BY <2>1, <2>2, SimpleEncodable DEF ManyTags
<1>2. Encodable(Nil)
  <2>1. Nil # PanicTok /\ Nil[1] = "nil"
    BY DEF Nil, PanicTok
  <2> QED BY <2>1, SimpleEncodable DEF ManyTags
<1> QED BY <1>1, <1>2

\* and so are lists of them.
LEMMA ListEncodable ==
    ASSUME NEW n \in Nat, NEW vs, DOMAIN vs = 1 .. n, \A i \in 1 .. n : Encodable(vs[i])
    PROVE  Encodable(List(vs))
<1>1. List(vs)[1] = "list" /\ List(vs)[2] = vs /\ List(vs) # PanicTok
  BY PairTokens DEF List, PanicTok
<1> HIDE DEF List
<1> QED BY <1>1, ManyEncodable DEF ManyTags

\* A request object with the fields of its kind, all of them encodable.
SoundRequest(r) ==
    /\ <<r.code, DOMAIN r.f>> \in Shapes /\ r = Request(r.code, [k \in DOMAIN r.f |-> r.f[k]])
    /\ \A k \in DOMAIN r.f \ {"isIteratorSet", "stmt"} : Encodable(r.f[k])
    /\ "stmt" \in DOMAIN r.f => r.f.stmt[3] # PanicTok
    /\ "args" \in DOMAIN r.f /\ r.code = "execute" => Bindable(r.f.args)

\* What the constructors return is sound.
LEMMA FreshSound == \A x \in Fresh : SoundRequest(x.req)
<1> TAKE x \in Fresh
<1> DEFINE r == x.req
<1>1. /\ <<r.code, DOMAIN r.f>> \in Shapes /\ r = Request(r.code, [k \in DOMAIN r.f |-> r.f[k]])
      /\ \A k \in DOMAIN r.f \ {"isIteratorSet", "stmt"} : r.f[k] \in GoValues
      /\ "stmt" \in DOMAIN r.f => r.f.stmt[3] \in GoValues
  BY FreshAssumption
<1> HIDE DEF r
<1>2. \A k \in DOMAIN r.f \ {"isIteratorSet", "stmt"} : Encodable(r.f[k])
  BY <1>1, GoValuesEncodable
<1>3. "stmt" \in DOMAIN r.f => r.f.stmt[3] # PanicTok
  BY <1>1, GoValuesAssumption
<1>4. "args" \in DOMAIN r.f /\ r.code = "execute" => Bindable(r.f.args)
  BY <1>1, GoValuesBindable
<1> QED BY <1>1, <1>2, <1>3, <1>4 DEF r, SoundRequest

-----------------------------------------------------------------------------
(* Session: bodies without a panic.                                        *)

\* The kinds of requests and their fields, case by case.
LEMMA ShapeCases ==
    ASSUME NEW c, NEW d, <<c, d>> \in Shapes
    PROVE  \/ c \in {"ping", "commit", "rollback"} /\ d = {}
           \/ c \in {"insert", "replace"} /\ d = {"space", "tuple"}
           \/ c \in {"call", "call16", "call17"} /\ d \in {{"function", "args"}, {"function", "args", "event"}}
           \/ c \in {"watch", "unwatch"} /\ d = {"event"}
           \/ c = "select" /\ d = SelectKeys
           \/ c = "delete" /\ d = {"space", "index", "key"}
           \/ c = "update" /\ d = {"space", "index", "key", "ops"}
           \/ c = "upsert" /\ d = {"space", "tuple", "ops"}
           \/ c = "eval" /\ d = {"expr", "args"}
           \/ c = "execute" /\ d \in {{"expr", "args"}, {"stmt", "args"}}
           \/ c = "prepare" /\ d \in {{"expr"}, {"stmt"}}
           \/ c = "begin" /\ d = {"txnIsolation", "timeout"}
  BY DEF Shapes, SelectKeys

\* The pieces of a body are free of panics.
LEMMA SoundPieces ==
    /\ \A v : Encodable(v) => NoPanic(<<v>>) /\ NoPanic(Encode(v))
    /\ \A s, t : NoPanic(s) /\ NoPanic(t) => NoPanic(s \o t)
    /\ \A key, s : NoPanic(s) => NoPanic(Entry(key, s))
    /\ \A n : NoPanic(<<MapLen(n)>>) /\ NoPanic(<<U(n)>>) /\ NoPanic(<<S(n)>>)
    /\ NoPanic(<<>>) /\ NoPanic(<<ErrTok>>)
<1>1. ASSUME NEW v, Encodable(v) PROVE NoPanic(<<v>>) /\ NoPanic(Encode(v))
  <2>1. v # PanicTok
    <3> SUFFICES ASSUME v = PanicTok PROVE FALSE
      OBVIOUS
    <3>1. EncodeLeaf(PanicTok) = <<PanicTok>>
      BY DEF EncodeLeaf, PanicTok
    <3>2. NoPanic(<<PanicTok>>)
      BY <1>1, <3>1 DEF Encodable
    <3>3. PanicTok \in ToSet(<<PanicTok>>)
      BY DEF ToSet
    <3> QED BY <3>2, <3>3 DEF NoPanic, Without
  <2> QED BY <1>1, <2>1, WithoutTuples DEF Encodable, NoPanic
<1>2. ASSUME NEW s, NEW t, NoPanic(s), NoPanic(t) PROVE NoPanic(s \o t)
  BY <1>2, WithoutConcat DEF NoPanic
<1>3. ASSUME NEW key, NEW s, NoPanic(s) PROVE NoPanic(Entry(key, s))
  BY <1>3, EntryWithout DEF NoPanic, PanicTok
<1>4. ASSUME NEW n PROVE NoPanic(<<MapLen(n)>>) /\ NoPanic(<<U(n)>>) /\ NoPanic(<<S(n)>>)
  BY PairTokens, WithoutTuples DEF NoPanic, PanicTok
<1>5. NoPanic(<<>>) /\ NoPanic(<<ErrTok>>)
  BY WithoutTuples DEF NoPanic, PanicTok, ErrTok
<1> QED BY <1>1, <1>2, <1>3, <1>4, <1>5

\* The fill functions write no panic: fillSearch,
LEMMA SearchSound ==
    ASSUME NEW spaceNo, NEW indexNo, NEW key, Encodable(key)
    PROVE  NoPanic(fillSearch(spaceNo, indexNo, key))
<1>1. /\ NoPanic(Entry("SpaceNo", <<U(spaceNo)>>)) /\ NoPanic(Entry("IndexNo", <<U(indexNo)>>))
      /\ NoPanic(Entry("Key", Encode(key)))
  BY SoundPieces
<1> QED BY <1>1, SoundPieces DEF fillSearch

\* fillSelect,
LEMMA SelectSound ==
    ASSUME NEW spaceNo, NEW indexNo, NEW f,
           Encodable(f.key), Encodable(f.after), Encodable(f.fetchPos),
           Encodable(f.offset), Encodable(f.limit), Encodable(f.iterator)
    PROVE  NoPanic(fillSelect(spaceNo, indexNo, f))
<1> DEFINE len == <<MapLen(SelectMapLen(f))>>
           iter == fillIterator(f.offset, f.limit, f.iterator)
           search == fillSearch(spaceNo, indexNo, f.key)
           pos == IF f.fetchPos = B(TRUE) THEN Entry("FetchPos", <<f.fetchPos>>) ELSE <<>>
           aft == CASE f.after = Nil -> <<>>
                    [] f.after[1] = "bytes" -> Entry("AfterPos", <<S(f.after[2])>>)
                    [] OTHER -> Entry("AfterTuple", Encode(f.after))
<1>1. NoPanic(len)
  BY SoundPieces
<1>2. NoPanic(iter)
  <2>1. /\ NoPanic(Entry("Iterator", <<f.iterator>>)) /\ NoPanic(Entry("Offset", <<f.offset>>))
        /\ NoPanic(Entry("Limit", <<f.limit>>))
    BY SoundPieces
  <2> QED BY <2>1, SoundPieces DEF fillIterator
<1>3. NoPanic(search)
  BY SearchSound
<1>4. NoPanic(pos)
  <2>1. NoPanic(Entry("FetchPos", <<f.fetchPos>>)) /\ NoPanic(<<>>)
    BY SoundPieces
  <2> QED BY <2>1, Zenon
<1>5. NoPanic(aft)
  <2>1. /\ NoPanic(Entry("AfterPos", <<S(f.after[2])>>)) /\ NoPanic(<<>>)
        /\ NoPanic(Entry("AfterTuple", Encode(f.after)))
    BY SoundPieces
  <2>2. Nil[1] # "bytes"
    BY DEF Nil
  <2>3. CASE f.after = Nil
    <3>1. aft = <<>>
      BY <2>2, <2>3
    <3> QED BY <2>1, <3>1
  <2>4. CASE f.after # Nil /\ f.after[1] = "bytes"
    <3>1. aft = Entry("AfterPos", <<S(f.after[2])>>)
      BY <2>4
    <3> QED BY <2>1, <3>1
  <2>5. CASE f.after # Nil /\ f.after[1] # "bytes"
    <3>1. aft = Entry("AfterTuple", Encode(f.after))
      BY <2>5
    <3> QED BY <2>1, <3>1
  <2> QED BY <2>3, <2>4, <2>5
<1>6. fillSelect(spaceNo, indexNo, f) = len \o iter \o search \o pos \o aft
  BY Zenon DEF fillSelect
<1> HIDE DEF len, iter, search, pos, aft
<1> QED BY <1>1, <1>2, <1>3, <1>4, <1>5, <1>6, SoundPieces

\* and the bodies of all requests that name a space.
LEMMA SpaceBodySound ==
    ASSUME NEW r, SoundRequest(r), "space" \in DOMAIN r.f, NEW spaceNo, NEW indexNo
    PROVE  NoPanic(BodyIn(r, spaceNo, indexNo))
<1>1. <<r.code, DOMAIN r.f>> \in Shapes /\ \A k \in DOMAIN r.f \ {"isIteratorSet", "stmt"} : Encodable(r.f[k])
  BY DEF SoundRequest
<1>2. CASE r.code \in {"insert", "replace"} /\ DOMAIN r.f = {"space", "tuple"}
  <2>1. BodyIn(r, spaceNo, indexNo) = fillInsert(spaceNo, r.f.tuple)
    BY <1>2 DEF BodyIn
  <2>2. Encodable(r.f.tuple)
    BY <1>1, <1>2
  <2>3. NoPanic(Entry("SpaceNo", <<U(spaceNo)>>)) /\ NoPanic(Entry("Tuple", Encode(r.f.tuple)))
    BY <2>2, SoundPieces
  <2> QED BY <2>1, <2>3, SoundPieces DEF fillInsert
<1>3. CASE r.code = "select" /\ DOMAIN r.f = SelectKeys
  <2>1. BodyIn(r, spaceNo, indexNo) = fillSelect(spaceNo, indexNo, r.f)
    BY <1>3 DEF BodyIn
  <2>2. /\ Encodable(r.f.key) /\ Encodable(r.f.after) /\ Encodable(r.f.fetchPos)
        /\ Encodable(r.f.offset) /\ Encodable(r.f.limit) /\ Encodable(r.f.iterator)
    BY <1>1, <1>3 DEF SelectKeys
  <2> QED BY <2>1, <2>2, SelectSound
<1>4. CASE r.code = "delete" /\ DOMAIN r.f = {"space", "index", "key"}
  <2>1. BodyIn(r, spaceNo, indexNo) = fillDelete(spaceNo, indexNo, r.f.key)
    BY <1>4 DEF BodyIn
  <2>2. Encodable(r.f.key)
    BY <1>1, <1>4
  <2> QED BY <2>1, <2>2, SearchSound, SoundPieces DEF fillDelete
<1>5. CASE r.code = "update" /\ DOMAIN r.f = {"space", "index", "key", "ops"}
  <2>1. BodyIn(r, spaceNo, indexNo) = fillUpdate(spaceNo, indexNo, r.f.key, r.f.ops)
    BY <1>5 DEF BodyIn
  <2>2. Encodable(r.f.key) /\ Encodable(r.f.ops)
    BY <1>1, <1>5
  <2>3. NoPanic(fillSearch(spaceNo, indexNo, r.f.key)) /\ NoPanic(Entry("Tuple", Encode(r.f.ops)))
    BY <2>2, SearchSound, SoundPieces
  <2> QED BY <2>1, <2>3, SoundPieces DEF fillUpdate
<1>6. CASE r.code = "upsert" /\ DOMAIN r.f = {"space", "tuple", "ops"}
  <2>1. BodyIn(r, spaceNo, indexNo) = fillUpsert(spaceNo, r.f.tuple, r.f.ops)
    BY <1>6 DEF BodyIn
  <2>2. Encodable(r.f.tuple) /\ Encodable(r.f.ops)
    BY <1>1, <1>6
  <2>3. /\ NoPanic(Entry("SpaceNo", <<U(spaceNo)>>)) /\ NoPanic(Entry("Tuple", Encode(r.f.tuple)))
        /\ NoPanic(Entry("DefTuple", Encode(r.f.ops)))
    BY <2>2, SoundPieces
  <2> QED BY <2>1, <2>3, SoundPieces DEF fillUpsert
<1>7. \/ r.code \in {"insert", "replace"} /\ DOMAIN r.f = {"space", "tuple"}
      \/ r.code = "select" /\ DOMAIN r.f = SelectKeys
      \/ r.code = "delete" /\ DOMAIN r.f = {"space", "index", "key"}
      \/ r.code = "update" /\ DOMAIN r.f = {"space", "index", "key", "ops"}
      \/ r.code = "upsert" /\ DOMAIN r.f = {"space", "tuple", "ops"}
  BY <1>1, ShapeCases
<1> QED BY <1>2, <1>3, <1>4, <1>5, <1>6, <1>7

\* The body of a sound request holds no panic, unless it has a value it cannot be
\* packed with.
LEMMA BodySound ==
    ASSUME NEW r, NEW schm, SoundRequest(r), ~Unpackable(r)
    PROVE  NoPanic(Body(r, schm))
<1>0. ~(r.code = "execute" /\ r.f.args[1] = "slice")
  BY DEF Unpackable
<1>1. /\ <<r.code, DOMAIN r.f>> \in Shapes
      /\ \A k \in DOMAIN r.f \ {"isIteratorSet", "stmt"} : Encodable(r.f[k])
      /\ "stmt" \in DOMAIN r.f => r.f.stmt[3] # PanicTok
      /\ "args" \in DOMAIN r.f /\ r.code = "execute" => Bindable(r.f.args)
  BY DEF SoundRequest
<1> DEFINE c == r.code
           d == DOMAIN r.f
<1>2. CASE "space" \in d
  <2>1. c \notin {"ping", "commit", "rollback", "call", "call16", "call17", "eval", "execute", "prepare",
                  "begin", "watch", "unwatch", "id", "auth"}
    BY <1>1, <1>2, ShapeCases
  <2>4. ~ResolvePanics(schm, ParamOf(r.f.space), ParamOf(IndexOf(r)))
    <3>1. ParamOf(Nil).by # "other"
      BY DEF ParamOf
    <3>2. ParamOf(r.f.space).by \in {"name", "number"} /\ ParamOf(IndexOf(r)).by # "other"
      BY <1>2, <3>1 DEF Unpackable, IndexOf
    <3> QED BY <3>2 DEF ResolvePanics
  <2>2. Body(r, schm) = LET nos == NumbersOf(r, schm)
                        IN IF nos = Unresolved THEN <<ErrTok>> ELSE BodyIn(r, nos[1], nos[2])
    BY <1>2, <2>1, <2>4, Zenon DEF Body
  <2>3. NoPanic(<<ErrTok>>) /\ NoPanic(BodyIn(r, NumbersOf(r, schm)[1], NumbersOf(r, schm)[2]))
    BY <1>2, SpaceBodySound, SoundPieces
  <2> QED BY <2>2, <2>3, Zenon
<1>3. CASE c \in {"ping", "commit", "rollback"} /\ "space" \notin d
  <2>1. Body(r, schm) = fillEmpty
    BY <1>3 DEF Body
  <2> QED BY <2>1, SoundPieces DEF fillEmpty
<1>4. CASE c \in {"call", "call16", "call17"} /\ "space" \notin d /\ "function" \in d /\ "args" \in d
  <2> DEFINE args == IF r.f.args = Nil THEN List(<<>>) ELSE r.f.args
  <2>1. Body(r, schm) = fillCall(r.f.function, args)
    BY <1>4 DEF Body
  <2>2. Encodable(r.f.function) /\ Encodable(r.f.args)
    BY <1>1, <1>4
  <2>3. Encodable(List(<<>>))
    <3>1. DOMAIN <<>> = 1 .. 0 /\ 0 \in Nat
      OBVIOUS
    <3> QED BY <3>1, ListEncodable
  <2>4. Encodable(args)
    BY <2>2, <2>3
  <2> HIDE DEF args
  <2>5. NoPanic(Entry("FunctionName", <<r.f.function>>)) /\ NoPanic(Entry("Tuple", Encode(args)))
    BY <2>2, <2>4, SoundPieces
  <2> QED BY <2>1, <2>5, SoundPieces DEF fillCall
<1>5. CASE c = "eval" /\ d = {"expr", "args"}
  <2>1. Body(r, schm) = fillEval(r.f.expr, r.f.args)
    BY <1>5 DEF Body
  <2>2. Encodable(r.f.expr) /\ Encodable(r.f.args)
    BY <1>1, <1>5
  <2>3. NoPanic(Entry("Expression", <<r.f.expr>>)) /\ NoPanic(Entry("Tuple", Encode(r.f.args)))
    BY <2>2, SoundPieces
  <2> QED BY <2>1, <2>3, SoundPieces DEF fillEval
<1>6. CASE c = "execute" /\ d = {"expr", "args"}
  <2>1. Body(r, schm) = fillExecute(r.f.expr, r.f.args)
    BY <1>6 DEF Body
  <2>2. Encodable(r.f.expr) /\ NoPanic(EncodeSQLBind(r.f.args))
    BY <1>0, <1>1, <1>6 DEF Bindable
  <2>3. NoPanic(Entry("SQLText", <<r.f.expr>>)) /\ NoPanic(Entry("SQLBind", EncodeSQLBind(r.f.args)))
    BY <2>2, SoundPieces
  <2> QED BY <2>1, <2>3, SoundPieces DEF fillExecute
<1>7. CASE c = "execute" /\ d = {"stmt", "args"}
  <2>1. Body(r, schm) = fillExecutePrepared(r.f.stmt, r.f.args)
    BY <1>7 DEF Body
  <2>2. NoPanic(<<r.f.stmt[3]>>) /\ NoPanic(EncodeSQLBind(r.f.args))
    BY <1>0, <1>1, <1>7, WithoutTuples DEF Bindable, NoPanic
  <2>3. NoPanic(Entry("StmtID", <<r.f.stmt[3]>>)) /\ NoPanic(Entry("SQLBind", EncodeSQLBind(r.f.args)))
    BY <2>2, SoundPieces
  <2> QED BY <2>1, <2>3, SoundPieces DEF fillExecutePrepared
<1>8. CASE c = "prepare" /\ d = {"expr"}
  <2>1. Body(r, schm) = fillPrepare(r.f.expr)
    BY <1>8 DEF Body
  <2>2. Encodable(r.f.expr)
    BY <1>1, <1>8
  <2>3. NoPanic(Entry("SQLText", <<r.f.expr>>))
    BY <2>2, SoundPieces
  <2> QED BY <2>1, <2>3, SoundPieces DEF fillPrepare
<1>9. CASE c = "prepare" /\ d = {"stmt"}
  <2>1. Body(r, schm) = fillUnprepare(r.f.stmt)
    BY <1>9 DEF Body
  <2>2. NoPanic(<<r.f.stmt[3]>>)
    BY <1>1, <1>9, WithoutTuples DEF NoPanic
  <2>3. NoPanic(Entry("StmtID", <<r.f.stmt[3]>>))
    BY <2>2, SoundPieces
  <2> QED BY <2>1, <2>3, SoundPieces DEF fillUnprepare
<1>10. CASE c = "begin" /\ d = {"txnIsolation", "timeout"}
  <2> DEFINE t == IF r.f.timeout = U(0) THEN <<>> ELSE Entry("Timeout", <<r.f.timeout>>)
             i == IF r.f.txnIsolation = U(0) THEN <<>> ELSE Entry("TxnIsolation", <<r.f.txnIsolation>>)
             n == (Len(t) + Len(i)) \div 2
  <2>1. Body(r, schm) = fillBegin(r.f)
    BY <1>10 DEF Body
  <2>2. Encodable(r.f.timeout) /\ Encodable(r.f.txnIsolation)
    BY <1>1, <1>10
  <2>3. NoPanic(Entry("Timeout", <<r.f.timeout>>)) /\ NoPanic(Entry("TxnIsolation", <<r.f.txnIsolation>>))
    BY <2>2, SoundPieces
  <2>4. NoPanic(t) /\ NoPanic(i)
    BY <2>3, SoundPieces
  <2>5. fillBegin(r.f) = <<MapLen(n)>> \o t \o i
    BY Zenon DEF fillBegin
  <2> HIDE DEF t, i, n
  <2> QED BY <2>1, <2>4, <2>5, SoundPieces
<1>11. CASE c \in {"watch", "unwatch"} /\ d = {"event"}
  <2>1. Body(r, schm) = fillWatch(r.f.event)
    BY <1>11 DEF Body
  <2>2. Encodable(r.f.event)
    BY <1>1, <1>11
  <2>3. NoPanic(Entry("Event", <<r.f.event>>))
    BY <2>2, SoundPieces
  <2> QED BY <2>1, <2>3, SoundPieces DEF fillWatch
<1> HIDE DEF c, d
<1>12. \/ "space" \in d
       \/ c \in {"ping", "commit", "rollback"} /\ "space" \notin d
       \/ c \in {"call", "call16", "call17"} /\ "space" \notin d /\ "function" \in d /\ "args" \in d
       \/ c = "eval" /\ d = {"expr", "args"}
       \/ c = "execute" /\ d = {"expr", "args"}
       \/ c = "execute" /\ d = {"stmt", "args"}
       \/ c = "prepare" /\ d = {"expr"}
       \/ c = "prepare" /\ d = {"stmt"}
       \/ c = "begin" /\ d = {"txnIsolation", "timeout"}
       \/ c \in {"watch", "unwatch"} /\ d = {"event"}
  <2>1. <<c, d>> \in Shapes
    BY <1>1 DEF c, d
  <2> QED BY <2>1, ShapeCases DEF SelectKeys
<1> QED BY <1>2, <1>3, <1>4, <1>5, <1>6, <1>7, <1>8, <1>9, <1>10, <1>11, <1>12

\* A sound request stays sound when an encodable value is assigned,
LEMMA AssignSound ==
    ASSUME NEW r, SoundRequest(r), NEW field \in DOMAIN r.f \ {"stmt"}, NEW v,
           field # "isIteratorSet" => Encodable(v), field = "args" /\ r.code = "execute" => Bindable(v)
    PROVE  /\ SoundRequest(Assign(r, field, v))
           /\ Assign(r, field, v).code = r.code /\ DOMAIN Assign(r, field, v).f = DOMAIN r.f
<1> DEFINE d == DOMAIN r.f
           c == r.code
           g == [r.f EXCEPT ![field] = v]
           q == Assign(r, field, v)
<1>1. /\ <<c, d>> \in Shapes /\ r = [code |-> c, f |-> [k \in d |-> r.f[k]]]
      /\ \A k \in d \ {"isIteratorSet", "stmt"} : Encodable(r.f[k])
      /\ "stmt" \in d => r.f.stmt[3] # PanicTok
      /\ "args" \in d /\ c = "execute" => Bindable(r.f.args)
  BY DEF SoundRequest, Request
<1>2. q = [code |-> c, f |-> g]
  BY <1>1 DEF Assign
<1>3. r.f = [k \in d |-> r.f[k]]
  BY <1>1
<1>4. g = [k \in d |-> IF k = field THEN v ELSE r.f[k]]
  BY <1>3
<1> HIDE DEF g, q, d, c
<1>5. q.code = c /\ q.f = g
  BY <1>2
<1>6. DOMAIN g = d /\ \A k \in d : g[k] = IF k = field THEN v ELSE r.f[k]
  BY <1>4
<1>7. q = Request(q.code, [k \in DOMAIN q.f |-> q.f[k]]) /\ <<q.code, DOMAIN q.f>> \in Shapes
  <2>1. g = [k \in DOMAIN g |-> g[k]]
    BY <1>4, <1>6
  <2>2. q = [code |-> q.code, f |-> q.f]
    BY <1>2, <1>5
  <2> QED BY <1>1, <1>5, <1>6, <2>1, <2>2, Zenon DEF Request
<1>8. field \in d /\ field # "stmt"
  BY DEF d
<1>9. \A k \in DOMAIN q.f \ {"isIteratorSet", "stmt"} : Encodable(q.f[k])
  BY <1>1, <1>5, <1>6, <1>8
<1>10. "stmt" \in DOMAIN q.f => q.f.stmt[3] # PanicTok
  BY <1>1, <1>5, <1>6, <1>8
<1>11. "args" \in DOMAIN q.f /\ q.code = "execute" => Bindable(q.f.args)
  BY <1>1, <1>5, <1>6, <1>8
<1>12. SoundRequest(q)
  BY <1>7, <1>9, <1>10, <1>11 DEF SoundRequest
<1> QED BY <1>5, <1>6, <1>12 DEF q, c, d

\* so every setter that the request has keeps it sound.
LEMMA SetterSound ==
    ASSUME NEW r, SoundRequest(r), NEW name \in Settable(r), NEW v \in GoValues
    PROVE  SoundRequest(Apply(r, name, v))
<1> DEFINE c == r.code
           d == DOMAIN r.f
<1>1. /\ <<c, d>> \in Shapes
      /\ \A k \in d \ {"isIteratorSet", "stmt"} : Encodable(r.f[k])
  BY DEF SoundRequest
<1>2. Encodable(v) /\ Bindable(v)
  BY GoValuesEncodable, GoValuesBindable
<1>3. \/ name = "value" /\ "event" \in d /\ "args" \in d
      \/ "event" \notin d /\ name \in d \ {"isIteratorSet", "stmt"}
  BY DEF Settable
<1> HIDE DEF c, d
<1>4. /\ "value" \notin d /\ ("event" \in d /\ "args" \in d => c # "execute")
      /\ c = "select" => d = SelectKeys
  BY <1>1, ShapeCases DEF SelectKeys
<1>5. CASE c = "select" /\ name = "iterator"
  <2> DEFINE p == Assign(r, "iterator", v)
  <2>1. PICK t : t = TRUE
    OBVIOUS
  <2>2. Apply(r, name, v) = Assign(p, "isIteratorSet", t)
    <3>1. Apply(r, name, v) = Assign(p, "isIteratorSet", TRUE)
      BY <1>5 DEF Apply, c
    <3> QED BY <2>1, <3>1, Zenon
  <2>3. "iterator" \in d /\ "isIteratorSet" \in d
    BY <1>4, <1>5 DEF SelectKeys
  <2>4. SoundRequest(p) /\ DOMAIN p.f = d
    BY <1>2, <2>3, AssignSound DEF d
  <2> HIDE DEF p
  <2>5. SoundRequest(Assign(p, "isIteratorSet", t))
    BY <2>3, <2>4, AssignSound
  <2> QED BY <2>2, <2>5
<1>6. CASE c = "select" /\ name = "key"
  <2> DEFINE i == IF r.f.isIteratorSet THEN r.f.iterator ELSE U(Iter.EQ)
             p == Assign(r, "key", v)
  <2>1. Apply(r, name, v) = Assign(p, "iterator", i)
    BY <1>6 DEF Apply, WithKey, c
  <2>2. "iterator" \in d /\ "key" \in d
    BY <1>4, <1>6 DEF SelectKeys
  <2>3. SoundRequest(p) /\ DOMAIN p.f = d
    BY <1>2, <2>2, AssignSound DEF d
  <2>4. Encodable(i)
    <3>1. Encodable(r.f.iterator) /\ Encodable(U(Iter.EQ))
      BY <1>1, <2>2, ConstructorsEncodable
    <3> QED BY <3>1, Zenon
  <2> HIDE DEF i, p
  <2>5. SoundRequest(Assign(p, "iterator", i))
    BY <2>2, <2>3, <2>4, AssignSound
  <2> QED BY <2>1, <2>5
<1>7. CASE name = "ops" /\ v = Nil
  <2>1. Apply(r, name, v) = r
    BY <1>7 DEF Apply
  <2> QED BY <2>1
<1>8. CASE name = "value"
  <2> DEFINE vs == <<r.f.event, v>>
  <2>1. Apply(r, name, v) = Assign(r, "args", List(vs))
    BY <1>8 DEF Apply
  <2>2. "event" \in d /\ "args" \in d /\ c # "execute"
    BY <1>3, <1>4, <1>8
  <2>3. Encodable(r.f.event)
    BY <1>1, <2>2
  <2>4. DOMAIN vs = 1 .. 2 /\ 2 \in Nat /\ vs[1] = r.f.event /\ vs[2] = v
    OBVIOUS
  <2>5. \A i \in 1 .. 2 : Encodable(vs[i])
    <3> HIDE DEF vs
    <3>1. \A i \in 1 .. 2 : i = 1 \/ i = 2
      OBVIOUS
    <3> QED BY <1>2, <2>3, <2>4, <3>1, Zenon
  <2> HIDE DEF vs
  <2>6. Encodable(List(vs))
    BY <2>4, <2>5, ListEncodable
  <2>7. SoundRequest(Assign(r, "args", List(vs)))
    BY <2>2, <2>6, AssignSound DEF c, d
  <2> QED BY <2>1, <2>7
<1>9. CASE /\ ~(c = "select" /\ name = "iterator") /\ ~(c = "select" /\ name = "key")
           /\ ~(name = "ops" /\ v = Nil) /\ name # "value"
  <2>1. Apply(r, name, v) = Assign(r, name, v)
    BY <1>9 DEF Apply, c
  <2>2. SoundRequest(Assign(r, name, v))
    BY <1>2, <1>3, <1>9, AssignSound DEF d
  <2> QED BY <2>1, <2>2
<1> QED BY <1>5, <1>6, <1>7, <1>8, <1>9

\* Arguments that a crud method fills in, and kinds of options whose names are a
\* sequence.
Defaults == {EmptyList, EmptyObject, Nil}

Slots(kind) == \E n \in Nat : DOMAIN kind.names = 1 .. n
KindNames(m) == m.opts = <<>> \/ Slots(m.opts[1])

\* Every crud method has such defaults and options.
LEMMA MethodsKnown == \A m \in Methods : m.defaults \in Seq(Defaults) /\ KindNames(m)
<1>1. /\ Slots(BaseOpts) /\ Slots(SimpleOperationOpts)
      /\ Slots(SimpleOperationObjectOpts) /\ Slots(OperationManyOpts)
      /\ Slots(OperationObjectManyOpts) /\ Slots(BorderOpts)
      /\ Slots(CountOpts) /\ Slots(GetOpts) /\ Slots(SelectOpts)
  <2>1. Slots(BaseOpts)
    <3>1. DOMAIN BaseOpts.names = 1 .. 2
      BY DEF BaseOpts, Plain
    <3> QED BY <3>1 DEF Slots
  <2>2. Slots(SimpleOperationOpts)
    <3>1. DOMAIN SimpleOperationOpts.names = 1 .. 4
      BY DEF SimpleOperationOpts, Plain
    <3> QED BY <3>1 DEF Slots
  <2>3. Slots(SimpleOperationObjectOpts)
    <3>1. DOMAIN SimpleOperationObjectOpts.names = 1 .. 5
      BY DEF SimpleOperationObjectOpts, Plain
    <3> QED BY <3>1 DEF Slots
  <2>4. Slots(OperationManyOpts)
    <3>1. DOMAIN OperationManyOpts.names = 1 .. 5
      BY DEF OperationManyOpts, Plain
    <3> QED BY <3>1 DEF Slots
  <2>5. Slots(OperationObjectManyOpts)
    <3>1. DOMAIN OperationObjectManyOpts.names = 1 .. 6
      BY DEF OperationObjectManyOpts, Plain
    <3> QED BY <3>1 DEF Slots
  <2>6. Slots(BorderOpts)
    <3>1. DOMAIN BorderOpts.names = 1 .. 3
      BY DEF BorderOpts, Plain
    <3> QED BY <3>1 DEF Slots
  <2>7. Slots(CountOpts)
    <3>1. DOMAIN CountOpts.names = 1 .. 9
      BY DEF CountOpts, Plain
    <3> QED BY <3>1 DEF Slots
  <2>8. Slots(GetOpts)
    <3>1. DOMAIN GetOpts.names = 1 .. 7
      BY DEF GetOpts
    <3> QED BY <3>1 DEF Slots
  <2>9. Slots(SelectOpts)
    <3>1. DOMAIN SelectOpts.names = 1 .. 12
      BY DEF SelectOpts
    <3> QED BY <3>1 DEF Slots
  <2> QED BY <2>1, <2>2, <2>3, <2>4, <2>5, <2>6, <2>7, <2>8, <2>9
<1>2. ASSUME NEW name, NEW defaults \in Seq(Defaults),
             NEW opts \in {BaseOpts, SimpleOperationOpts, SimpleOperationObjectOpts, OperationManyOpts,
                           OperationObjectManyOpts, BorderOpts, CountOpts, GetOpts, SelectOpts}
      PROVE  Method(name, defaults, opts).defaults \in Seq(Defaults) /\ KindNames(Method(name, defaults, opts))
  <2>1. Slots(opts)
    BY <1>1
  <2> QED BY <2>1 DEF Method, KindNames
<1>3. /\ <<EmptyList>> \in Seq(Defaults) /\ <<EmptyObject>> \in Seq(Defaults) /\ <<Nil>> \in Seq(Defaults)
      /\ <<>> \in Seq(Defaults) /\ <<EmptyList, EmptyList>> \in Seq(Defaults)
      /\ <<EmptyObject, EmptyList>> \in Seq(Defaults)
  BY DEF Defaults
<1> DEFINE Good(m) == m.defaults \in Seq(Defaults) /\ KindNames(m)
<1>4. /\ Good(Insert) /\ Good(InsertObject) /\ Good(InsertMany) /\ Good(InsertObjectMany)
      /\ Good(Replace) /\ Good(ReplaceObject) /\ Good(ReplaceMany) /\ Good(ReplaceObjectMany)
  BY <1>2, <1>3 DEF Insert, InsertObject, InsertMany, InsertObjectMany,
                    Replace, ReplaceObject, ReplaceMany, ReplaceObjectMany
<1>5. /\ Good(Upsert) /\ Good(UpsertObject) /\ Good(UpsertMany) /\ Good(UpsertObjectMany)
      /\ Good(Update) /\ Good(Delete) /\ Good(Get_) /\ Good(Select) /\ Good(Count)
      /\ Good(Min_) /\ Good(Max_) /\ Good(Length) /\ Good(Truncate)
  BY <1>2, <1>3 DEF Upsert, UpsertObject, UpsertMany, UpsertObjectMany, Update, Delete, Get_, Select,
                    Count, Min_, Max_, Length, Truncate
<1>6. Good(StorageInfo)
  <2>1. StorageInfo.defaults = <<>> /\ StorageInfo.opts = <<BaseOpts>>
    BY DEF StorageInfo, Method
  <2> QED BY <1>1, <1>3, <2>1 DEF KindNames
<1>7. Good(Stats)
  <2>1. Stats.defaults = <<>> /\ Stats.opts = <<>>
    BY DEF Stats, Method
  <2> QED BY <1>3, <2>1 DEF KindNames
<1> HIDE DEF Good
<1>8. \A m \in Methods : Good(m)
  BY <1>4, <1>5, <1>6, <1>7, Zenon DEF Methods
<1> QED BY <1>8 DEF Good

\* The options of a crud call are encodable,
LEMMA CrudOptionsEncodable ==
    ASSUME NEW kind, Slots(kind), NEW opts, \A o \in DOMAIN opts : opts[o] \in GoValues
    PROVE  Encodable(EncodeOptions(kind, opts))
<1>1. PICK n \in Nat : DOMAIN kind.names = 1 .. n
  BY DEF Slots
<1> DEFINE there(i) == InSlot(kind, i) # <<>> /\ InSlot(kind, i)[1] \in DOMAIN opts
           slot(i) == <<kind.names[i], opts[InSlot(kind, i)[1]]>>
           seqs == [i \in DOMAIN kind.names |-> IF there(i) THEN <<slot(i)>> ELSE <<>>]
           T == {<<kind.names[i], v>> : i \in 1 .. n, v \in GoValues}
           e == EncodeOptions(kind, opts)
<1>2. e = <<"opts", FlattenSeq(seqs)>>
  BY Zenon DEF EncodeOptions
<1>3. ASSUME NEW i \in 1 .. n PROVE seqs[i] \in Seq(T)
  <2>1. CASE there(i)
    <3>1. opts[InSlot(kind, i)[1]] \in GoValues
      BY <2>1
    <3>2. slot(i) \in T
      BY <3>1
    <3>3. seqs[i] = <<slot(i)>>
      BY <1>1, <2>1
    <3> HIDE DEF slot, seqs, T
    <3> QED BY <3>2, <3>3
  <2>2. CASE ~there(i)
    <3>1. seqs[i] = <<>>
      BY <1>1, <2>2
    <3> HIDE DEF seqs, T
    <3> QED BY <3>1
  <2> QED BY <2>1, <2>2
<1>4. seqs = [i \in 1 .. n |-> seqs[i]]
  BY <1>1
<1> HIDE DEF there, slot, seqs, e
<1>5. FlattenSeq(seqs) \in Seq(T)
  <2> HIDE DEF T
  <2> QED BY <1>3, <1>4, FlattenIn
<1>6. \A p \in T : p[2] \in GoValues
  OBVIOUS
<1> HIDE DEF T
<1> DEFINE flat == FlattenSeq(seqs)
<1>7. Len(flat) \in Nat /\ DOMAIN flat = 1 .. Len(flat) /\ \A i \in 1 .. Len(flat) : Encodable(flat[i][2])
  <2>1. Len(flat) \in Nat /\ DOMAIN flat = 1 .. Len(flat) /\ \A i \in 1 .. Len(flat) : flat[i] \in T
    <3> HIDE DEF flat
    <3> QED BY <1>5 DEF flat
  <2> HIDE DEF flat
  <2> QED BY <1>6, <2>1, GoValuesEncodable
<1> HIDE DEF flat
<1>8. e[1] = "opts" /\ e[2] = flat /\ e # PanicTok
  BY <1>2, PairTokens DEF flat, PanicTok
<1>9. Encodable(e)
  BY <1>7, <1>8, OptionsEncodable
<1> QED BY <1>9 DEF e

\* so a crud request is a sound call request.
LEMMA CrudSound ==
    ASSUME NEW m \in Methods, NEW opts \in CrudOpts(m),
           NEW given \in {<<>>, [n \in DOMAIN m.defaults |-> List(<<U(n)>>)]}
    PROVE  SoundRequest(CrudRequest(m, S("a"), given, opts))
<1> DEFINE args == [n \in DOMAIN m.defaults |-> IF n \in DOMAIN given THEN given[n] ELSE m.defaults[n]]
           head == IF m.spaced /\ S("a") # Nil THEN <<S("a")>> ELSE <<>>
           tail == IF m.opts = <<>> THEN <<>> ELSE <<EncodeOptions(m.opts[1], opts)>>
           all == head \o args \o tail
           call == NewCall17Request(m.name)
<1>1. CrudRequest(m, S("a"), given, opts) = Apply(call, "args", List(all))
  BY Zenon DEF CrudRequest
<1>2. m.defaults \in Seq(Defaults) /\ KindNames(m)
  BY MethodsKnown
<1>3. Encodable(EmptyList) /\ Encodable(EmptyObject) /\ Encodable(Nil)
  <2>1. DOMAIN <<>> = 1 .. 0 /\ 0 \in Nat
    OBVIOUS
  <2>2. Encodable(EmptyList)
    BY <2>1, ListEncodable DEF EmptyList
  <2>3. EmptyObject[1] = "opts" /\ EmptyObject[2] = <<>> /\ EmptyObject # PanicTok
    BY PairTokens DEF EmptyObject, PanicTok
  <2>4. Encodable(EmptyObject)
    <3> HIDE DEF EmptyObject
    <3> QED BY <2>1, <2>3, OptionsEncodable
  <2> QED BY <2>2, <2>4, ConstructorsEncodable
<1>4. Len(args) \in Nat /\ DOMAIN args = 1 .. Len(args) /\ \A n \in DOMAIN args : Encodable(args[n])
  <2>1. Len(m.defaults) \in Nat /\ DOMAIN m.defaults = 1 .. Len(m.defaults)
        /\ \A n \in DOMAIN m.defaults : m.defaults[n] \in Defaults
    BY <1>2
  <2>2. ASSUME NEW n \in DOMAIN given PROVE n \in DOMAIN m.defaults /\ given[n] = List(<<U(n)>>)
    BY <2>2
  <2>3. ASSUME NEW n PROVE Encodable(List(<<U(n)>>))
    <3>1. DOMAIN <<U(n)>> = 1 .. 1 /\ 1 \in Nat /\ \A i \in 1 .. 1 : <<U(n)>>[i] = U(n)
      OBVIOUS
    <3> QED BY <3>1, ConstructorsEncodable, ListEncodable
  <2>4. \A n \in DOMAIN m.defaults : Encodable(args[n])
    <3> TAKE n \in DOMAIN m.defaults
    <3>1. Encodable(m.defaults[n])
      BY <1>3, <2>1 DEF Defaults
    <3>2. args[n] = IF n \in DOMAIN given THEN given[n] ELSE m.defaults[n]
      OBVIOUS
    <3> QED BY <2>2, <2>3, <3>1, <3>2
  <2>5. args = [n \in 1 .. Len(m.defaults) |-> args[n]]
    BY <2>1
  <2> HIDE DEF args
  <2>6. DOMAIN args = 1 .. Len(m.defaults)
    BY <2>5
  <2>7. Len(args) = Len(m.defaults)
    <3>1. args \in Seq({args[n] : n \in 1 .. Len(m.defaults)})
      BY <2>1, <2>5
    <3> QED BY <2>1, <2>6, <3>1, LenProperties
  <2> QED BY <2>1, <2>4, <2>6, <2>7
<1>5. tail = <<>> \/ \E t : tail = <<t>> /\ Encodable(t)
  <2>1. CASE m.opts = <<>>
    BY <2>1
  <2>2. CASE m.opts # <<>>
    <3>1. Slots(m.opts[1])
      BY <1>2, <2>2 DEF KindNames
    <3>2. \A o \in DOMAIN opts : opts[o] \in GoValues
      BY ValuesAssumption
    <3>3. Encodable(EncodeOptions(m.opts[1], opts))
      BY <3>1, <3>2, CrudOptionsEncodable
    <3> QED BY <2>2, <3>3
  <2> QED BY <2>1, <2>2
<1>6. head = <<>> \/ head = <<S("a")>>
  BY Zenon
<1> HIDE DEF args, head, tail
<1>7. \E n \in Nat : DOMAIN all = 1 .. n /\ \A i \in 1 .. n : Encodable(all[i])
  <2> DEFINE T == {S("a")} \cup {args[n] : n \in DOMAIN args} \cup {tail[n] : n \in DOMAIN tail}
  <2>1. head \in Seq(T)
    <3>1. S("a") \in T
      OBVIOUS
    <3> HIDE DEF T
    <3>2. <<>> \in Seq(T) /\ <<S("a")>> \in Seq(T)
      BY <3>1
    <3> QED BY <1>6, <3>2, Zenon
  <2>2. args \in Seq(T)
    <3>1. args = [n \in 1 .. Len(args) |-> args[n]]
      BY <1>4 DEF args
    <3> QED BY <1>4, <3>1
  <2>3. tail \in Seq(T)
    <3>1. ASSUME NEW t, tail = <<t>> PROVE t \in T
      <4>1. 1 \in DOMAIN tail /\ tail[1] = t
        BY <3>1
      <4> QED BY <4>1
    <3> HIDE DEF T
    <3>2. <<>> \in Seq(T) /\ \A t \in T : <<t>> \in Seq(T)
      OBVIOUS
    <3> QED BY <1>5, <3>1, <3>2, Zenon
  <2>4. \A v \in T : Encodable(v)
    BY <1>4, <1>5, ConstructorsEncodable
  <2> HIDE DEF T
  <2>5. all \in Seq(T)
    BY <2>1, <2>2, <2>3, ConcatProperties
  <2> HIDE DEF all
  <2>6. Len(all) \in Nat /\ DOMAIN all = 1 .. Len(all) /\ \A i \in 1 .. Len(all) : all[i] \in T
    BY <2>5
  <2> QED BY <2>4, <2>6
<1> HIDE DEF all
<1>8. Encodable(List(all))
  BY <1>7, ListEncodable
<1>9. SoundRequest(call) /\ call.code = "call17" /\ "args" \in DOMAIN call.f
  <2>1. call = [code |-> "call17", f |-> [function |-> S(m.name), args |-> Nil]]
    BY DEF NewCall17Request, NewCallRequest, Request
  <2> HIDE DEF call
  <2>2. call.code = "call17" /\ call.f = [function |-> S(m.name), args |-> Nil]
    BY <2>1
  <2>3. DOMAIN call.f = {"function", "args"} /\ call.f["function"] = S(m.name) /\ call.f["args"] = Nil
    BY <2>2
  <2>4. call.f = [k \in DOMAIN call.f |-> call.f[k]]
    BY <2>2
  <2>5. <<"call17", {"function", "args"}>> \in Shapes
    BY DEF Shapes
  <2>6. call = Request(call.code, [k \in DOMAIN call.f |-> call.f[k]])
    BY <2>1, <2>2, <2>4 DEF Request
  <2>7. Encodable(S(m.name)) /\ Encodable(Nil)
    BY ConstructorsEncodable
  <2> QED BY <2>2, <2>3, <2>5, <2>6, <2>7 DEF SoundRequest
<1>10. Apply(call, "args", List(all)) = Assign(call, "args", List(all))
  <2> HIDE DEF call
  <2> QED BY DEF Apply
<1> HIDE DEF call
<1>11. SoundRequest(Assign(call, "args", List(all)))
  BY <1>8, <1>9, AssignSound
<1> QED BY <1>1, <1>10, <1>11 DEF call

-----------------------------------------------------------------------------
(* Session: panics.                                                        *)

\* A pair that fails says why, and only metadata with a mistyped value panics.
LEMMA PairFails ==
    ASSUME NEW p
    PROVE  /\ DecodePair(p).does = "fail" => DecodePair(p) = Fail(DecodePair(p).why)
           /\ DecodePair(p) = Fail("panic") =>
                 p.key = "MetaData" /\ p.val # Absent /\ "panic" \in ToSet(MetaFaults(The(p.val)))
<1> DEFINE Told(e) == e.does = "fail" => e = Fail(e.why)
           Calm(e) == Told(e) /\ e # Fail("panic")
<1>1. ASSUME NEW why PROVE Told(Fail(why)) /\ (why # "panic" => Calm(Fail(why)))
  BY FailEffect
<1>2. ASSUME NEW field, NEW opt PROVE Calm(Put(field, opt)) /\ Calm(Hold(field, opt))
  <2>1. Calm(Fail("decode"))
    BY <1>1
  <2>2. \A e : e.does # "fail" => Calm(e)
    BY FailEffect
  <2> HIDE DEF Calm
  <2> QED BY <2>1, <2>2, PutEffect, HoldEffect
<1>3. Calm(Skip)
  BY FailEffect DEF Skip
<1>4. CASE p.key = "MetaData"
  <2> DEFINE faults == MetaFaults(The(p.val))
             bad == {n \in DOMAIN faults : faults[n] # "none"}
             panics == \E n \in bad : faults[n] = "panic" /\ \A m \in bad : n <= m
             e == DecodePair(p)
  <2>1. e = DecodeMetaData(p.val)
    BY <1>4 DEF DecodePair, DecodeCommon
  <2>2. DecodeMetaData(p.val) = IF p.val = Absent THEN Fail("decode")
                                ELSE IF bad = {} THEN Put("MetaData", p.val)
                                ELSE Fail(IF panics THEN "panic" ELSE "decode")
    BY Zenon DEF DecodeMetaData
  <2>3. panics => "panic" \in ToSet(faults)
    BY DEF ToSet
  <2> HIDE DEF e, bad, panics, faults
  <2>4. Calm(e) \/ (e = Fail("panic") /\ p.val # Absent /\ panics)
    <3> HIDE DEF Calm
    <3> QED BY <1>1, <1>2, <2>1, <2>2
  <2> QED BY <1>1, <1>4, <2>3, <2>4 DEF e, faults
<1>5. CASE p.key # "MetaData"
  <2> DEFINE c == DecodeCommon(p)
             e == DecodePair(p)
  <2>1. Calm(c)
    <3> HIDE DEF Calm
    <3>1. \/ \E field, opt : c = Put(field, opt) \/ c = Hold(field, opt)
          \/ c = Fail("decode") \/ c = Skip
      BY <1>5, Zenon DEF DecodeCommon
    <3> QED BY <1>1, <1>2, <1>3, <3>1
  <2>2. Calm(e)
    <3> HIDE DEF Calm, c
    <3>1. \/ \E field, opt : e = Put(field, opt) \/ e = Hold(field, opt)
          \/ e = Fail("not array") \/ e = Fail("unknown auth type") \/ e = c
      BY <1>5, Zenon DEF DecodePair, c
    <3> QED BY <1>1, <1>2, <2>1, <3>1
  <2> QED BY <2>2
<1> QED BY <1>4, <1>5

\* The error of a pair that fails says why.
LEMMA KindTold == \A why : The(Some([kind |-> why])).kind = why
<1> TAKE why
<1> DEFINE e == [kind |-> why]
<1>1. The(Some(e)) = e /\ e.kind = why
  BY TheSome
<1> QED BY <1>1

\* A decoded answer tells of a panic only when the metadata of a column has a value
\* of another type.
LEMMA MetaDataPanics ==
    ASSUME NEW b \in Bodies,
           LET e == DecodeBody(MakeResponse(OkCode, Some(b))).err IN e # Absent /\ The(e).kind = "panic"
    PROVE  MistypedColumn(b)
<1> DEFINE r == MakeResponse(OkCode, Some(b))
           q == DecodeBody(r)
<1>1. b \in Seq(ToSet(b)) /\ Len(b) \in Nat /\ DOMAIN b = 1 .. Len(b)
  BY BodiesAssumption
<1>2. q["err"] # Absent /\ The(q["err"]).kind = "panic"
  OBVIOUS
<1>3. b # <<>>
  <2> SUFFICES ASSUME b = <<>> PROVE FALSE
    OBVIOUS
  <2>1. HasKeys(r, RespKeys) /\ r["body"] = Some(<<>>) /\ "err" \in RespKeys
    BY DEF MakeResponse, HasKeys, RespKeys
  <2> DEFINE none == Absent
  <2>2. q = Assigned(r, "err", none)
    BY <2>1 DEF DecodeBody
  <2> HIDE DEF r, q, none
  <2>3. q["err"] = none
    BY <2>1, <2>2, AssignedKeys
  <2> QED BY <1>2, <2>3 DEF none
<1>4. PICK f : AnswerRun(OkCode, b, f)
  BY <1>1, <1>3, AnswerRuns
<1>5. q["err"] = ErrOf("Get", r, f[Len(b)]) /\ r["code"] = OkCode
  BY <1>4 DEF AnswerRun, MakeResponse
<1> HIDE DEF r, q
<1>6. f[Len(b)].resp["err"] # Absent /\ The(f[Len(b)].resp["err"]).kind = "panic"
  <2> DEFINE st == f[Len(b)]
             half == Some([kind |-> "incomplete ID"])
  <2>1. The(half).kind # "panic"
    BY KindTold
  <2> HIDE DEF st, half
  <2>2. q["err"] \in {half, st.resp["err"]}
    BY <1>5 DEF st, half, ErrOf, FinalErr
  <2> QED BY <1>2, <2>1, <2>2 DEF st
<1> DEFINE Fine(n) ==
              /\ IsState(f[n])
              /\ f[n].resp["err"] # Absent /\ The(f[n].resp["err"]).kind = "panic"
                    => \E k \in 1 .. n : DecodePair(b[k]) = Fail("panic")
           P == {n \in Nat : n \in 0 .. Len(b) => Fine(n)}
<1>7. 0 \in P
  BY <1>4, LoopAt DEF Knows
<1>8. ASSUME NEW n \in Nat, n \in P PROVE n + 1 \in P
  <2> SUFFICES ASSUME n + 1 \in 0 .. Len(b) PROVE Fine(n + 1)
    OBVIOUS
  <2>1. Fine(n) /\ n + 1 \in DOMAIN b /\ n + 1 \in 1 .. n + 1 /\ \A k \in 1 .. n : k \in 1 .. n + 1
    BY <1>1, <1>8
  <2>2. f[n + 1] = IF f[n].resp.err # Absent THEN f[n] ELSE Perform(f[n], DecodePair(b[n + 1]))
    BY <1>4, <2>1, LoopAt
  <2>3. CASE f[n].resp.err # Absent
    BY <2>1, <2>2, <2>3
  <2>4. CASE f[n].resp.err = Absent
    <3> DEFINE e == DecodePair(b[n + 1])
               st == f[n]
               t == f[n + 1]
    <3>1. t = Perform(st, e) /\ st.resp["err"] = Absent /\ IsState(st)
      BY <2>1, <2>2, <2>4
    <3>2. IsEffect(e) /\ (e.does = "fail" => e = Fail(e.why))
      BY PairEffects, PairFails
    <3> HIDE DEF e, st, t
    <3>3. IsState(t) /\ t.resp["err"] = IF e.does = "fail" THEN Some([kind |-> e.why]) ELSE st.resp["err"]
      BY <3>1, <3>2, PerformDoes
    <3>4. t.resp["err"] # Absent /\ The(t.resp["err"]).kind = "panic" => e = Fail("panic")
      <4> SUFFICES ASSUME t.resp["err"] # Absent, The(t.resp["err"]).kind = "panic" PROVE e = Fail("panic")
        OBVIOUS
      <4>1. e.does = "fail" /\ t.resp["err"] = Some([kind |-> e.why])
        BY <3>1, <3>3
      <4>2. e.why = "panic"
        BY <4>1, TheSome
      <4> QED BY <3>2, <4>1, <4>2
    <3> QED BY <2>1, <3>3, <3>4 DEF e, st, t
  <2> QED BY <2>3, <2>4
<1> HIDE DEF P
<1>9. \A n \in Nat : n \in P
  BY <1>7, <1>8, SetInduction
<1>10. PICK k \in 1 .. Len(b) : DecodePair(b[k]) = Fail("panic")
  BY <1>1, <1>6, <1>9 DEF P
<1>11. b[k].key = "MetaData" /\ b[k].val # Absent /\ "panic" \in ToSet(MetaFaults(The(b[k].val)))
  BY <1>10, PairFails
<1>12. b[k] \in ToSet(b)
  BY <1>1 DEF ToSet
<1> QED BY <1>11, <1>12 DEF MistypedColumn


\* The rows are rows of the server; between the two selects the spaces are those the
\* server still has, unless it changed them; the request at hand is sound.
RowsKnown == rows \in SUBSET Rows
SpacesSeen ==
    phase = "indexes" => ddl.raced \/ SpacesOf({s.row : s \in FirstSpaces(rows)}) = <<spaces>>
RequestSound == req # <<>> => SoundRequest(req[1].req)
\* The inductive invariant about panics.
PanicsInv == RowsKnown /\ SpacesSeen /\ RequestSound /\ PanicsExplained

\* It holds before the dial.
LEMMA PanicsInit == SessionInit => PanicsInv
<1> SUFFICES ASSUME SessionInit PROVE PanicsInv
  OBVIOUS
<1>1. phase = "dial" /\ req = <<>> /\ \E s \in Sessions : rows = s.rows
  BY DEF SessionInit
<1> QED BY <1>1, RowsAssumption DEF PanicsInv, RowsKnown, SpacesSeen, RequestSound, PanicsExplained

\* A step before the schema is loaded.
LEMMA EarlySteps ==
    ASSUME PanicsInv, DialNet \/ ReadGreeting \/ Identify \/ CheckProtocolInfo \/ Authenticate
    PROVE  PanicsInv'
<1>1. phase' \notin {"panicked", "indexes"}
  BY DEF DialNet, ReadGreeting, Identify, CheckProtocolInfo, Authenticate, Connected, GoTo, GiveUp
<1>2. rows' = rows /\ req' = req
  BY DEF DialNet, ReadGreeting, Identify, CheckProtocolInfo, Authenticate, schemaVars, requestVars
<1> QED BY <1>1, <1>2 DEF PanicsInv, RowsKnown, SpacesSeen, RequestSound, PanicsExplained

\* Loading the schema panics only when it changed in between, or is too large.
LEMMA LoadSteps ==
    ASSUME PanicsInv, LoadSpaces \/ LoadIndexes \/ DDL
    PROVE  PanicsInv'
<1>1. CASE LoadSpaces
  <2>1. rows' = rows /\ req' = req /\ ddl' = ddl
    BY <1>1 DEF LoadSpaces, requestVars
  <2>2. \/ phase' = "failed"
        \/ phase' = "indexes" /\ DecodedSpaces # <<>> /\ spaces' = DecodedSpaces[1]
    BY <1>1 DEF LoadSpaces, GoTo, GiveUp
  <2>3. SpacesSeen'
    <3>1. DecodedSpaces # <<>> => DecodedSpaces = <<DecodedSpaces[1]>>
      BY DEF DecodedSpaces, SpacesOf, DecodeRows
    <3> QED BY <2>1, <2>2, <3>1 DEF SpacesSeen, DecodedSpaces
  <2> QED BY <2>1, <2>2, <2>3 DEF PanicsInv, RowsKnown, RequestSound, PanicsExplained
<1>2. CASE LoadIndexes
  <2> DEFINE irows == FirstIndexes(UNION {s.indexes : s \in rows})
             idx == DecodeRows(DecodeIndex, irows)
  <2>1. rows' = rows /\ req' = req /\ ddl' = ddl /\ phase = "indexes"
    BY <1>2 DEF LoadIndexes, requestVars
  <2>2. \/ phase' = "failed" \/ phase' = "ready"
        \/ phase' = "panicked" /\ cause' = <<"schema", <<>>>> /\ idx # <<>> /\ ~Indexed(spaces, idx[1])
    BY <1>2 DEF LoadIndexes, GoTo, GiveUp, Panic
  <2>3. ASSUME idx # <<>>, ~Indexed(spaces, idx[1]) PROVE ddl.raced \/ Cardinality(rows) > maxSchemas
    <3>1. idx = <<idx[1]>>
      BY <2>3 DEF DecodeRows
    <3>2. rows \in SUBSET Rows
      BY DEF PanicsInv, RowsKnown
    <3>3. ASSUME ~(Cardinality(rows) > maxSchemas), SpacesOf({s.row : s \in FirstSpaces(rows)}) = <<spaces>>
          PROVE  FALSE
      <4>1. SpacesOf({s.row : s \in rows}) = <<spaces>>
        <5>1. FirstSpaces(rows) = rows
          BY <3>2, <3>3, AllSpaces
        <5> QED BY <3>3, <5>1, Zenon
      <4>2. irows \subseteq UNION {s.indexes : s \in rows}
        BY DEF FirstIndexes
      <4> HIDE DEF idx, irows
      <4>3. DecodeRows(DecodeIndex, irows) = <<idx[1]>>
        BY <3>1 DEF idx
      <4> QED BY <2>3, <3>2, <4>1, <4>2, <4>3, IndexesHaveSpaces
    <3> QED BY <2>1, <3>3 DEF PanicsInv, SpacesSeen
  <2>4. SpacesSeen'
    BY <2>2 DEF SpacesSeen
  <2>5. PanicsExplained'
    <3> HIDE DEF idx
    <3>1. phase' = "panicked" => cause' = <<"schema", <<>>>> /\ (ddl.raced \/ Cardinality(rows) > maxSchemas)
      BY <2>2, <2>3
    <3> QED BY <2>1, <3>1 DEF PanicsExplained
  <2> QED BY <2>1, <2>4, <2>5 DEF PanicsInv, RowsKnown, RequestSound
<1>3. CASE DDL
  <2>1. /\ phase \in {"spaces", "indexes"} /\ phase' = phase /\ req' = req
        /\ ddl' = [count |-> ddl.count + 1, raced |-> ddl.raced \/ phase = "indexes"]
        /\ \E s \in Rows : rows' = (rows \cup {s}) \ (rows \cap {s})
    BY <1>3 DEF DDL, requestVars
  <2>2. RowsKnown'
    BY <2>1 DEF PanicsInv, RowsKnown
  <2>3. phase' = "indexes" => ddl'.raced
    BY <2>1
  <2>4. SpacesSeen'
    BY <2>3 DEF SpacesSeen
  <2> QED BY <2>1, <2>2, <2>4 DEF PanicsInv, RequestSound, PanicsExplained
<1> QED BY <1>1, <1>2, <1>3

\* A step that leaves a sound request keeps the invariant,
LEMMA RequestSteps ==
    ASSUME PanicsInv, phase = "ready", rows' = rows, phase' = phase, RequestSound'
    PROVE  PanicsInv'
  BY DEF PanicsInv, RowsKnown, SpacesSeen, PanicsExplained

\* as constructors and setters do.
LEMMA BuildSteps ==
    ASSUME PanicsInv,
           \/ NewRequest \/ NewCrudRequest \/ Drop
           \/ \E name \in DOMAIN Values : \E v \in Values[name] : Set(name, v)
    PROVE  PanicsInv'
<1>1. CASE NewRequest
  <2>1. PICK r \in Fresh : New(r.req, r.setters, <<>>)
    BY <1>1 DEF NewRequest
  <2>2. /\ phase = "ready" /\ phase' = phase /\ rows' = rows
        /\ req' = <<[req |-> r.req, setters |-> r.setters, crud |-> <<>>]>>
    BY <2>1 DEF New, schemaVars
  <2>3. SoundRequest(r.req)
    BY FreshSound
  <2>4. RequestSound'
    BY <2>2, <2>3 DEF RequestSound
  <2> QED BY <2>2, <2>4, RequestSteps
<1>2. CASE NewCrudRequest
  <2>0. PICK m \in Methods : \E opts \in CrudOpts(m) :
             \E given \in {<<>>, [n \in DOMAIN m.defaults |-> List(<<U(n)>>)]} :
                 New(CrudRequest(m, S("a"), given, opts), <<>>, <<[method |-> m.name, opts |-> opts]>>)
    BY <1>2, Zenon DEF NewCrudRequest
  <2>1. PICK opts \in CrudOpts(m), given \in {<<>>, [n \in DOMAIN m.defaults |-> List(<<U(n)>>)]} :
             New(CrudRequest(m, S("a"), given, opts), <<>>, <<[method |-> m.name, opts |-> opts]>>)
    BY <2>0, Zenon
  <2> DEFINE r == CrudRequest(m, S("a"), given, opts)
  <2>2. SoundRequest(r)
    BY CrudSound
  <2> HIDE DEF r
  <2>3. /\ phase = "ready" /\ phase' = phase /\ rows' = rows
        /\ req' = <<[req |-> r, setters |-> <<>>, crud |-> <<[method |-> m.name, opts |-> opts]>>]>>
    BY <2>1 DEF New, schemaVars, r
  <2>4. RequestSound'
    BY <2>2, <2>3 DEF RequestSound
  <2> QED BY <2>3, <2>4, RequestSteps
<1>3. CASE Drop
  <2>1. phase = "ready" /\ phase' = phase /\ rows' = rows /\ req' = <<>>
    BY <1>3 DEF Drop, schemaVars
  <2> QED BY <2>1, RequestSteps DEF RequestSound
<1>4. ASSUME NEW name \in DOMAIN Values, NEW v \in Values[name], Set(name, v) PROVE PanicsInv'
  <2> DEFINE r == Apply(req[1].req, name, v)
             setters == Append(req[1].setters, <<name, v>>)
  <2>1. /\ phase = "ready" /\ phase' = phase /\ rows' = rows /\ req # <<>>
        /\ name \in Settable(req[1].req) /\ req' = <<[req |-> r, setters |-> setters, crud |-> <<>>]>>
    BY <1>4 DEF Set, schemaVars
  <2>2. SoundRequest(req[1].req)
    BY <2>1 DEF PanicsInv, RequestSound
  <2>3. v \in GoValues
    BY ValuesAssumption
  <2>4. SoundRequest(r)
    BY <2>1, <2>2, <2>3, SetterSound
  <2> HIDE DEF r, setters
  <2>6. RequestSound'
    BY <2>1, <2>4 DEF RequestSound
  <2> QED BY <2>1, <2>6, RequestSteps
<1> QED BY <1>1, <1>2, <1>3, <1>4

\* Sending a sound request panics only for its values; ExecuteTyped, and the
\* decoder of an answer, where they are known to.
LEMMA SendSteps ==
    ASSUME PanicsInv, (\E stream \in {NoStream, 7} : Do(stream)) \/ Fails \/ Answered
    PROVE  PanicsInv'
<1>1. CASE Fails
  <2>1. phase' = "panicked" /\ cause'[1] = "ExecuteTyped" /\ rows' = rows /\ req' = req
    BY <1>1 DEF Fails, NilResponse, Panic, schemaVars, requestVars
  <2> QED BY <2>1 DEF PanicsInv, RowsKnown, SpacesSeen, RequestSound, PanicsExplained
<1>2. ASSUME NEW stream, Do(stream) PROVE PanicsInv'
  <2> DEFINE r == req[1].req
  <2>1. /\ phase = "ready" /\ req # <<>> /\ req' = req /\ schemaVars' = schemaVars
        /\ \/ phase' = phase /\ cause' = cause
           \/ PanicTok \in ToSet(Body(r, schema)) /\ phase' = "panicked" /\ cause' = <<"pack", r>>
           \/ phase' = "panicked" /\ cause' = <<"ExecuteTyped", r>>
    BY <1>2, DoOutcomes
  <2>2. rows' = rows
    BY <2>1 DEF schemaVars
  <2>3. SoundRequest(r)
    BY <2>1 DEF PanicsInv, RequestSound
  <2>4. PanicTok \in ToSet(Body(r, schema)) => Unpackable(r)
    <3> HIDE DEF r
    <3> QED BY <2>3, BodySound DEF NoPanic, Without
  <2>5. PanicsExplained'
    <3> HIDE DEF r
    <3>1. phase' = "panicked" => \/ cause'[1] = "pack" /\ Unpackable(cause'[2])
                                 \/ cause'[1] = "ExecuteTyped"
      BY <2>1, <2>4
    <3> QED BY <3>1 DEF PanicsExplained
  <2> QED BY <2>1, <2>2, <2>5 DEF PanicsInv, RowsKnown, SpacesSeen, RequestSound
<1>3. CASE Answered
  <2>1. PICK b \in Bodies :
            LET e == DecodeBody(MakeResponse(OkCode, Some(b))).err IN
            e # Absent /\ The(e).kind = "panic" /\ Panic("answer", b)
    BY <1>3 DEF Answered
  <2>2. MistypedColumn(b)
    BY <2>1, MetaDataPanics
  <2>3. phase' = "panicked" /\ cause' = <<"answer", b>> /\ rows' = rows /\ req' = req
    BY <1>3, <2>1 DEF Answered, Panic, schemaVars, requestVars
  <2> QED BY <2>2, <2>3 DEF PanicsInv, RowsKnown, SpacesSeen, RequestSound, PanicsExplained
<1> QED BY <1>1, <1>2, <1>3

\* The invariant is inductive.
LEMMA PanicsStep ==
    ASSUME PanicsInv, [SessionNext]_sessionVars PROVE PanicsInv'
<1>1. CASE UNCHANGED sessionVars
  <2>1. phase' = phase /\ rows' = rows /\ ddl' = ddl /\ spaces' = spaces /\ req' = req /\ cause' = cause
    BY <1>1 DEF sessionVars, schemaVars, requestVars
  <2> QED BY <2>1 DEF PanicsInv, RowsKnown, SpacesSeen, RequestSound, PanicsExplained
<1> QED BY <1>1, EarlySteps, LoadSteps, BuildSteps, SendSteps DEF SessionNext

\* Whatever requests a program builds, from values of any type, and whatever the
\* server does to its schema and answers, the program panics only in the places that
\* PanicsExplained names, and each time for the reason given there.
THEOREM PanicsAreExplained == SessionSpec => []PanicsExplained
<1>1. SessionInit => PanicsInv
  BY PanicsInit
<1>2. PanicsInv /\ [SessionNext]_sessionVars => PanicsInv'
  BY PanicsStep
<1>3. PanicsInv => PanicsExplained
  BY DEF PanicsInv
<1> QED BY <1>1, <1>2, <1>3, PTL DEF SessionSpec
=============================================================================
