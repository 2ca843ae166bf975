-------------------------- MODULE RoundRobinProofs --------------------------
(* Theorems about RoundRobin, for every set of addresses and of callers    *)
(* and every width of the counter; it implements ConnSet.                  *)
EXTENDS RoundRobin, TLAPS, SequenceTheorems

USE WidthAssumption, ConnsAssumption

-----------------------------------------------------------------------------
(* The strengthening that makes the properties inductive.                  *)

AllConns == UNION {ConnsOf[a] : a \in Addrs}

TypeOK ==
    /\ conns \in Seq(AllConns)
    /\ Indexed \subseteq Addrs /\ indexByAddr \in [Indexed -> 0 .. size - 1]
    /\ current \in 0 .. Width - 1
    /\ loaded \in [Callers -> Nat \cup {None}]
    /\ served \in Seq(AllConns)

\* What is at the index of an address is a connection to that address.
InItsPlace == \A a \in Indexed : At(indexByAddr[a]) \in ConnsOf[a]

\* A caller that has loaded current holds the read lock: the list it found
\* filled cannot have been emptied since.
FilledWhileLocked == \A u \in Callers : loaded[u] # None => size > 0

\* The last undisturbed calls returned the connections before current.
ServedBefore ==
    LET n == Len(served) IN
    /\ n <= size /\ n <= current
    /\ \A k \in 1 .. n : served[k] = At((current - n + k - 1) % size)

RoundRobinInv ==
    /\ TypeOK /\ IndexBijective /\ InItsPlace /\ FilledWhileLocked /\ ServedBefore

-----------------------------------------------------------------------------
(* Arithmetic.                                                             *)

\* Division with remainder.
LEMMA DivMod ==
    ASSUME NEW a \in Int, NEW s \in Int, s > 0
    PROVE  a = (a \div s) * s + (a % s) /\ a \div s \in Int /\ a % s \in 0 .. s - 1
OBVIOUS

\* A number below s is its own remainder.
LEMMA ModSmall ==
    ASSUME NEW a \in Int, NEW s \in Int, 0 <= a, a < s PROVE a % s = a
OBVIOUS

\* Less than s apart means different modulo s: current goes round.
LEMMA ModDistinct ==
    ASSUME NEW a \in Int, NEW b \in Int, NEW s \in Int, s > 0, a < b, b - a < s
    PROVE  a % s # b % s
<1> SUFFICES ASSUME a % s = b % s PROVE FALSE
  OBVIOUS
<1> DEFINE p == a \div s
           q == b \div s
<1>1. a = p * s + (a % s) /\ b = q * s + (a % s) /\ p \in Int /\ q \in Int /\ a % s \in Int
  BY DivMod
<1> HIDE DEF p, q
<1>2. b - a = q * s - p * s
  BY <1>1
<1>3. CASE q <= p
  <2>1. (p - q) * s >= 0
    BY <1>1, <1>3
  <2> QED BY <1>1, <1>2, <2>1
<1>4. CASE q > p
  <2>1. (q - p) * s >= s
    BY <1>1, <1>4
  <2> QED BY <1>1, <1>2, <2>1
<1> QED BY <1>1, <1>3, <1>4

-----------------------------------------------------------------------------
(* What the operators on the list do.                                      *)

\* The elements of a sequence with one removed.
LEMMA RemoveAtProperties ==
    ASSUME NEW S, NEW s \in Seq(S), NEW i \in 1 .. Len(s)
    PROVE  /\ RemoveAt(s, i) \in Seq(S) /\ Len(RemoveAt(s, i)) = Len(s) - 1
           /\ \A j \in 1 .. Len(s) - 1 : RemoveAt(s, i)[j] = s[IF j < i THEN j ELSE j + 1]
<1> DEFINE l == SubSeq(s, 1, i - 1)
           r == SubSeq(s, i + 1, Len(s))
<1>1. l \in Seq(S) /\ Len(l) = i - 1 /\ \A j \in 1 .. i - 1 : l[j] = s[j]
  BY SubSeqProperties
<1>2. /\ r \in Seq(S) /\ Len(r) = Len(s) - i
      /\ \A j \in 1 .. Len(s) - i : r[j] = s[i + j]
  BY SubSeqProperties
<1> HIDE DEF l, r
<1>3. RemoveAt(s, i) = l \o r
  BY DEF RemoveAt, l, r
<1>4. /\ l \o r \in Seq(S) /\ Len(l \o r) = Len(s) - 1
      /\ \A j \in 1 .. Len(s) - 1 : (l \o r)[j] = IF j <= i - 1 THEN l[j] ELSE r[j - (i - 1)]
  <2>1. Len(s) \in Nat /\ Len(l) + Len(r) = Len(s) - 1
    BY <1>1, <1>2, LenProperties
  <2>2. /\ l \o r \in Seq(S) /\ Len(l \o r) = Len(l) + Len(r)
        /\ \A j \in 1 .. Len(l) + Len(r) :
              (l \o r)[j] = IF j <= Len(l) THEN l[j] ELSE r[j - Len(l)]
    BY <1>1, <1>2, ConcatProperties
  <2> QED BY <1>1, <2>1, <2>2
<1>5. ASSUME NEW j \in 1 .. Len(s) - 1
      PROVE  (l \o r)[j] = s[IF j < i THEN j ELSE j + 1]
  <2>1. CASE j < i
    BY <1>1, <1>4, <2>1
  <2>2. CASE ~(j < i)
    <3>1. j - (i - 1) \in 1 .. Len(s) - i /\ i + (j - (i - 1)) = j + 1
      BY <2>2
    <3> QED BY <1>2, <1>4, <2>2, <3>1
  <2> QED BY <2>1, <2>2
<1> QED BY <1>3, <1>4, <1>5

\* The invariant's facts about the list, one by one.
LEMMA ListFacts ==
    ASSUME TypeOK, IndexBijective
    PROVE  /\ conns \in Seq(AllConns) /\ Len(conns) = size /\ size \in Nat
           /\ indexByAddr \in [Indexed -> 0 .. size - 1] /\ Indexed \subseteq Addrs
           /\ \A a, b \in Indexed : indexByAddr[a] = indexByAddr[b] => a = b
           /\ \A i \in 0 .. size - 1 : \E a \in Indexed : indexByAddr[a] = i
           /\ \A i \in 0 .. size - 1 : At(i) \in AllConns
<1>1. conns \in Seq(AllConns) /\ Len(conns) = size /\ size \in Nat
  BY LenProperties DEF TypeOK, IndexBijective
<1>2. \A i \in 0 .. size - 1 : At(i) \in AllConns
  <2> TAKE i \in 0 .. size - 1
  <2>1. i + 1 \in 1 .. Len(conns)
    BY <1>1
  <2> QED BY <1>1, <2>1, ElementOfSeq DEF At
<1>3. \A i \in 0 .. size - 1 : \E a \in Indexed : indexByAddr[a] = i
  BY DEF IndexBijective
<1> QED BY <1>1, <1>2, <1>3 DEF TypeOK, IndexBijective, IsInjective

\* A connection to an address is one of all connections.
LEMMA OfAll == ASSUME NEW a \in Addrs, NEW k \in ConnsOf[a] PROVE k \in AllConns
BY DEF AllConns

\* AddConn for an address that has an entry replaces the connection in place.
LEMMA ReplaceList ==
    ASSUME TypeOK, IndexBijective, InItsPlace, NEW a \in Indexed, NEW k \in ConnsOf[a],
           conns' = [conns EXCEPT ![indexByAddr[a] + 1] = k],
           indexByAddr' = indexByAddr, size' = size
    PROVE  /\ conns' \in Seq(AllConns) /\ IndexBijective' /\ InItsPlace'
           /\ Indexed' = Indexed /\ indexByAddr' \in [Indexed' -> 0 .. size' - 1]
           /\ At(indexByAddr[a])' = k
           /\ \A b \in Indexed \ {a} : At(indexByAddr[b])' = At(indexByAddr[b])
<1> DEFINE i == indexByAddr[a] + 1
<1>1. i \in 1 .. Len(conns) /\ k \in AllConns /\ i = indexByAddr[a] + 1
  BY ListFacts, OfAll
<1> HIDE DEF i
<1>2. /\ conns' \in Seq(AllConns) /\ Len(conns') = Len(conns)
      /\ \A j \in 1 .. Len(conns) : conns'[j] = IF j = i THEN k ELSE conns[j]
  BY <1>1, ListFacts, ExceptSeq
<1>3. Indexed' = Indexed
  BY DEF Indexed
<1>4. At(indexByAddr[a])' = k
  BY <1>1, <1>2 DEF At
<1>5. ASSUME NEW b \in Indexed \ {a} PROVE At(indexByAddr[b])' = At(indexByAddr[b])
  <2>1. indexByAddr[b] + 1 \in 1 .. Len(conns) /\ indexByAddr[b] + 1 # i
    BY <1>1, ListFacts
  <2> QED BY <1>2, <2>1 DEF At
<1>6. InItsPlace'
  BY <1>3, <1>4, <1>5 DEF InItsPlace
<1>7. IndexBijective'
  BY <1>2, <1>3 DEF IndexBijective
<1> QED BY <1>2, <1>3, <1>4, <1>5, <1>6, <1>7, ListFacts

\* AddConn for a new address appends.
LEMMA AppendList ==
    ASSUME TypeOK, IndexBijective, InItsPlace, NEW a \in Addrs, a \notin Indexed,
           NEW k \in ConnsOf[a], conns' = Append(conns, k), size' = size + 1,
           indexByAddr' = [b \in Indexed \cup {a} |-> IF b = a THEN size ELSE indexByAddr[b]]
    PROVE  /\ conns' \in Seq(AllConns) /\ IndexBijective' /\ InItsPlace'
           /\ Indexed' = Indexed \cup {a} /\ indexByAddr' \in [Indexed' -> 0 .. size' - 1]
           /\ At(indexByAddr[a])' = k
           /\ \A b \in Indexed : At(indexByAddr[b])' = At(indexByAddr[b])
<1>0. k \in AllConns
  BY OfAll
<1>1. /\ conns' \in Seq(AllConns) /\ Len(conns') = size + 1
      /\ \A j \in 1 .. size : conns'[j] = conns[j]
      /\ conns'[size + 1] = k
  BY <1>0, ListFacts, AppendProperties
<1>2. Indexed' = Indexed \cup {a}
  BY DEF Indexed
<1>3. /\ indexByAddr'[a] = size
      /\ \A b \in Indexed : indexByAddr'[b] = indexByAddr[b]
  OBVIOUS
<1>4. indexByAddr' \in [Indexed' -> 0 .. size' - 1]
  BY <1>2, ListFacts
<1>5. At(indexByAddr[a])' = k
  BY <1>1, <1>3 DEF At
<1>6. ASSUME NEW b \in Indexed PROVE At(indexByAddr[b])' = At(indexByAddr[b])
  <2>1. indexByAddr[b] + 1 \in 1 .. size
    BY ListFacts
  <2> QED BY <1>1, <1>3, <2>1 DEF At
<1>7. InItsPlace'
  BY <1>2, <1>5, <1>6 DEF InItsPlace
<1>8. IndexBijective'
  <2>1. IsInjective(indexByAddr)'
    BY <1>2, <1>3, ListFacts DEF IsInjective, Indexed
  <2>2. ASSUME NEW i \in 0 .. size' - 1 PROVE \E b \in Indexed' : indexByAddr'[b] = i
    <3>1. CASE i = size
      BY <1>2, <1>3, <3>1
    <3>2. CASE i # size
      <4>1. i \in 0 .. size - 1
        BY <3>2, ListFacts
      <4> QED BY <1>2, <1>3, <4>1, ListFacts
    <3> QED BY <3>1, <3>2
  <2>3. {indexByAddr'[b] : b \in Indexed'} = 0 .. size' - 1
    <3>0. \A b \in Indexed' : indexByAddr'[b] \in 0 .. size' - 1
      BY <1>4
    <3>1. {indexByAddr'[b] : b \in Indexed'} \subseteq 0 .. size' - 1
      BY <3>0, Zenon
    <3>2. 0 .. size' - 1 \subseteq {indexByAddr'[b] : b \in Indexed'}
      BY <2>2, Zenon
    <3> QED BY <3>1, <3>2
  <2> QED BY <1>1, <2>1, <2>3 DEF IndexBijective
<1> QED BY <1>1, <1>2, <1>4, <1>5, <1>6, <1>7, <1>8

\* DeleteConnByAddr closes the gap: whatever comes after moves up by one, in the
\* slice and in the map alike.
LEMMA ShrinkList ==
    ASSUME TypeOK, IndexBijective, InItsPlace, NEW a \in Indexed,
           conns' = RemoveAt(conns, indexByAddr[a] + 1), size' = size - 1,
           indexByAddr' = Restrict(Reindex(indexByAddr[a]), Indexed \ {a})
    PROVE  /\ conns' \in Seq(AllConns) /\ IndexBijective' /\ InItsPlace'
           /\ Indexed' = Indexed \ {a} /\ indexByAddr' \in [Indexed' -> 0 .. size' - 1]
           /\ \A b \in Indexed' : At(indexByAddr[b])' = At(indexByAddr[b])
<1> DEFINE i == indexByAddr[a]
<1>1. i \in 0 .. size - 1 /\ i + 1 \in 1 .. Len(conns) /\ size \in Nat \ {0}
  BY ListFacts
<1>2. /\ conns' \in Seq(AllConns) /\ Len(conns') = size - 1
      /\ \A j \in 1 .. size - 1 : conns'[j] = conns[IF j < i + 1 THEN j ELSE j + 1]
  <2> DEFINE k == i + 1
  <2>1. k \in 1 .. Len(conns) /\ conns' = RemoveAt(conns, k) /\ Len(conns) = size
        /\ conns \in Seq(AllConns)
    BY <1>1, ListFacts
  <2> HIDE DEF k
  <2>2. /\ RemoveAt(conns, k) \in Seq(AllConns)
        /\ Len(RemoveAt(conns, k)) = Len(conns) - 1
        /\ \A j \in 1 .. Len(conns) - 1 :
              RemoveAt(conns, k)[j] = conns[IF j < k THEN j ELSE j + 1]
    BY <2>1, RemoveAtProperties, Zenon
  <2> HIDE DEF i
  <2> QED BY <2>1, <2>2 DEF k
<1>3. Indexed' = Indexed \ {a}
  BY DEF Indexed, Restrict
<1>4. ASSUME NEW b \in Indexed \ {a}
      PROVE  /\ indexByAddr'[b] = IF indexByAddr[b] > i THEN indexByAddr[b] - 1
                                  ELSE indexByAddr[b]
             /\ indexByAddr[b] \in 0 .. size - 1 /\ indexByAddr[b] # i
  BY <1>4, ListFacts DEF Restrict, Reindex
<1> HIDE DEF i
<1>5. ASSUME NEW b \in Indexed \ {a} PROVE indexByAddr'[b] \in 0 .. size' - 1
  <2> DEFINE n == indexByAddr[b]
             m == indexByAddr'[b]
  <2>1. n \in 0 .. size - 1 /\ n # i /\ m = IF n > i THEN n - 1 ELSE n
    BY <1>4
  <2> HIDE DEF n, m
  <2>2. m \in 0 .. size' - 1
    BY <1>1, <2>1
  <2> QED BY <2>2 DEF m
<1>6. indexByAddr' \in [Indexed' -> 0 .. size' - 1]
  BY <1>3, <1>5 DEF Restrict
<1>7. ASSUME NEW b \in Indexed \ {a} PROVE At(indexByAddr[b])' = At(indexByAddr[b])
  <2> DEFINE n == indexByAddr[b]
             m == indexByAddr'[b]
  <2>0. n \in 0 .. size - 1 /\ n # i /\ m = IF n > i THEN n - 1 ELSE n
    BY <1>4
  <2> HIDE DEF n, m
  <2>1. m + 1 \in 1 .. size - 1
    BY <1>1, <2>0
  <2>2. conns'[m + 1] = conns[n + 1]
    BY <1>1, <1>2, <2>0, <2>1
  <2> QED BY <2>2 DEF At, n, m
<1>8. InItsPlace'
  <2>1. ASSUME NEW b \in Indexed \ {a} PROVE At(indexByAddr[b])' \in ConnsOf[b]
    <3>1. At(indexByAddr[b]) \in ConnsOf[b]
      BY DEF InItsPlace
    <3> QED BY <1>7, <3>1
  <2> QED BY <1>3, <2>1 DEF InItsPlace
<1>9. ASSUME NEW b \in Indexed \ {a}, NEW d \in Indexed \ {a}, indexByAddr'[b] = indexByAddr'[d]
      PROVE  b = d
  <2> DEFINE n == indexByAddr[b]
             m == indexByAddr[d]
  <2>0. /\ n \in 0 .. size - 1 /\ n # i /\ m \in 0 .. size - 1 /\ m # i
        /\ (IF n > i THEN n - 1 ELSE n) = (IF m > i THEN m - 1 ELSE m)
    BY <1>4, <1>9
  <2> HIDE DEF n, m
  <2>1. n = m
    BY <1>1, <2>0
  <2> QED BY <2>1, ListFacts DEF n, m
<1>10. ASSUME NEW j \in 0 .. size' - 1 PROVE \E b \in Indexed' : indexByAddr'[b] = j
  <2> DEFINE n == IF j >= i THEN j + 1 ELSE j
  <2>1. n \in 0 .. size - 1 /\ n # i
    BY <1>1
  <2>2. PICK b \in Indexed : indexByAddr[b] = n
    BY <2>1, ListFacts
  <2>3. b # a
    BY <2>1, <2>2 DEF i
  <2>4. indexByAddr'[b] = IF n > i THEN n - 1 ELSE n
    BY <1>4, <2>2, <2>3
  <2>5. indexByAddr'[b] = j
    BY <1>1, <2>4
  <2> QED BY <1>3, <2>3, <2>5
<1>11. IndexBijective'
  <2>1. IsInjective(indexByAddr)'
    BY <1>3, <1>9 DEF IsInjective, Indexed
  <2>2. {indexByAddr'[b] : b \in Indexed'} = 0 .. size' - 1
    <3>0. \A b \in Indexed' : indexByAddr'[b] \in 0 .. size' - 1
      BY <1>3, <1>5
    <3>1. {indexByAddr'[b] : b \in Indexed'} \subseteq 0 .. size' - 1
      BY <3>0, Zenon
    <3>2. 0 .. size' - 1 \subseteq {indexByAddr'[b] : b \in Indexed'}
      BY <1>10, Zenon
    <3> QED BY <3>1, <3>2
  <2> QED BY <1>2, <2>1, <2>2 DEF IndexBijective
<1> QED BY <1>2, <1>3, <1>6, <1>7, <1>8, <1>11

-----------------------------------------------------------------------------
(* Every step preserves the invariant.                                     *)

\* What no call changes but AddConn and DeleteConnByAddr stays consistent.
LEMMA SameList ==
    ASSUME RoundRobinInv, conns' = conns, indexByAddr' = indexByAddr, size' = size
    PROVE  /\ IndexBijective' /\ InItsPlace' /\ Indexed' = Indexed
           /\ indexByAddr' \in [Indexed' -> 0 .. size' - 1] /\ conns' \in Seq(AllConns)
           /\ \A i : At(i)' = At(i)
<1>1. Indexed' = Indexed /\ \A i : At(i)' = At(i)
  BY DEF Indexed, At
<1>2. InItsPlace'
  BY <1>1 DEF InItsPlace, RoundRobinInv
<1>3. IndexBijective'
  BY <1>1 DEF IndexBijective, RoundRobinInv
<1> QED BY <1>1, <1>2, <1>3 DEF RoundRobinInv, TypeOK

\* A call that changes neither the list nor the counters preserves the invariant.
LEMMA StepRead ==
    ASSUME RoundRobinInv, conns' = conns, indexByAddr' = indexByAddr, size' = size,
           current' = current, loaded' = loaded, served' = served
    PROVE  RoundRobinInv'
<1>1. FilledWhileLocked'
  BY DEF FilledWhileLocked, RoundRobinInv
<1>2. ServedBefore'
  BY DEF ServedBefore, At, RoundRobinInv
<1>3. TypeOK'
  BY SameList DEF TypeOK, RoundRobinInv
<1> QED BY <1>1, <1>2, <1>3, SameList DEF RoundRobinInv

\* Nobody is between the load and the store of current while the list changes,
\* and the rotation starts anew.
LEMMA StepWrite ==
    ASSUME RoundRobinInv, Unlocked, conns' \in Seq(AllConns), IndexBijective', InItsPlace',
           Indexed' \subseteq Addrs, indexByAddr' \in [Indexed' -> 0 .. size' - 1],
           current' = current, loaded' = loaded, served' = <<>>
    PROVE  RoundRobinInv'
<1>1. FilledWhileLocked'
  BY DEF FilledWhileLocked, Unlocked
<1>2. size' \in Nat
  BY LenProperties DEF IndexBijective
<1>3. ServedBefore'
  BY <1>2 DEF ServedBefore, RoundRobinInv, TypeOK
<1>4. TypeOK'
  BY DEF TypeOK, RoundRobinInv
<1> QED BY <1>1, <1>3, <1>4 DEF RoundRobinInv

\* The caller reads current: the list is not empty.
LEMMA StepLoad ==
    ASSUME RoundRobinInv, NEW u \in Callers, LoadCurrent(u)
    PROVE  RoundRobinInv'
<1>1. CASE size = 0
  BY <1>1, StepRead DEF LoadCurrent
<1>2. CASE size # 0
  <2>1. /\ conns' = conns /\ indexByAddr' = indexByAddr /\ size' = size /\ current' = current
        /\ served' = served /\ loaded' = [loaded EXCEPT ![u] = current]
    BY <1>2 DEF LoadCurrent
  <2>2. size > 0
    BY <1>2, ListFacts DEF RoundRobinInv
  <2>3. FilledWhileLocked'
    BY <2>1, <2>2 DEF FilledWhileLocked
  <2>4. ServedBefore'
    BY <2>1 DEF ServedBefore, At, RoundRobinInv
  <2>5. TypeOK'
    BY <2>1, SameList DEF TypeOK, RoundRobinInv
  <2> QED BY <2>1, <2>3, <2>4, <2>5, SameList DEF RoundRobinInv
<1> QED BY <1>1, <1>2

\* The index that nextIndex computes is in the list.
LEMMA NextInRange ==
    ASSUME RoundRobinInv, NEW u \in Callers, loaded[u] # None
    PROVE  NextIndex(u) \in 0 .. size - 1 /\ size \in Nat /\ size > 0 /\ loaded[u] \in Nat
<1>1. size \in Nat /\ size > 0 /\ loaded[u] \in Nat
  BY ListFacts DEF RoundRobinInv, TypeOK, FilledWhileLocked
<1> QED BY <1>1, DivMod DEF NextIndex

\* The call that returns the next connection and stores current: an undisturbed
\* one continues the rotation, any other starts it anew.
LEMMA StepStore ==
    ASSUME RoundRobinInv, NEW u \in Callers, StoreCurrent(u)
    PROVE  RoundRobinInv'
<1> DEFINE n == Len(served)
           c == At(NextIndex(u))
<1>1. /\ conns' = conns /\ indexByAddr' = indexByAddr /\ size' = size
      /\ loaded' = [loaded EXCEPT ![u] = None] /\ loaded[u] # None
  BY DEF StoreCurrent
<1>2. /\ size \in Nat /\ size > 0 /\ NextIndex(u) \in 0 .. size - 1 /\ loaded[u] \in Nat
      /\ current \in 0 .. Width - 1 /\ served \in Seq(AllConns) /\ n \in Nat
      /\ n <= size /\ n <= current /\ c \in AllConns
  BY <1>1, NextInRange, ListFacts, LenProperties DEF RoundRobinInv, TypeOK, ServedBefore
<1>3. current' \in 0 .. Width - 1
  BY <1>2 DEF StoreCurrent, Incremented
<1>4. loaded' \in [Callers -> Nat \cup {None}]
  BY <1>1 DEF RoundRobinInv, TypeOK
<1>5. FilledWhileLocked'
  BY <1>1, <1>2 DEF FilledWhileLocked
<1>6. served' \in Seq(AllConns) /\ ServedBefore'
  <2>1. CASE ~(current = loaded[u] /\ current < Width - 1)
    <3>1. served' = <<>>
      BY <2>1 DEF StoreCurrent
    <3> QED BY <1>1, <1>2, <1>3, <3>1 DEF ServedBefore
  <2>2. CASE current = loaded[u] /\ current < Width - 1
    <3> DEFINE s == Append(served, c)
    <3>1. /\ s \in Seq(AllConns) /\ Len(s) = n + 1 /\ s[n + 1] = c
          /\ \A k \in 1 .. n : s[k] = served[k]
      BY <1>2, AppendProperties
    <3>2. /\ served' = IF Len(s) > size THEN Tail(s) ELSE s
          /\ current' = current + 1
          /\ c = At(current % size)
      <4>1. current' = (current + 1) % Width
        BY <2>2 DEF StoreCurrent, Incremented
      <4>2. current' = current + 1
        <5>1. current + 1 \in Int /\ Width \in Int /\ 0 <= current + 1 /\ current + 1 < Width
          BY <1>2, <2>2
        <5> QED BY <4>1, <5>1, ModSmall
      <4>3. c = At(current % size)
        BY <2>2 DEF NextIndex
      <4>4. served' = IF Len(s) > size THEN Tail(s) ELSE s
        BY <2>2 DEF StoreCurrent
      <4> QED BY <4>2, <4>3, <4>4
    <3>3. \A k \in 1 .. n : served[k] = At((current - n + k - 1) % size)
      BY DEF RoundRobinInv, ServedBefore
    <3>4. \A i : At(i)' = At(i)
      BY <1>1 DEF At
    <3> HIDE DEF n, c, s
    <3>5. \A k \in 1 .. n + 1 : s[k] = At((current - n + k - 1) % size)
      <4> TAKE k \in 1 .. n + 1
      <4>1. CASE k = n + 1
        <5>1. current - n + k - 1 = current
          BY <1>2, <4>1
        <5> QED BY <3>1, <3>2, <4>1, <5>1
      <4>2. CASE k # n + 1
        <5>1. k \in 1 .. n
          BY <1>2, <4>2
        <5> QED BY <3>1, <3>3, <5>1
      <4> QED BY <4>1, <4>2
    <3>6. CASE n + 1 > size
      <4>1. n = size
        BY <1>2, <3>6
      <4>2. /\ served' = Tail(s) /\ Tail(s) \in Seq(AllConns) /\ Len(Tail(s)) = n
            /\ \A k \in 1 .. n : Tail(s)[k] = s[k + 1]
        BY <1>2, <3>1, <3>2, <3>6, HeadTailProperties
      <4>3. \A k \in 1 .. n : served'[k] = At((current' - n + k - 1) % size)
        <5> TAKE k \in 1 .. n
        <5>1. k + 1 \in 1 .. n + 1 /\ current - n + (k + 1) - 1 = current' - n + k - 1
          BY <1>2, <3>2
        <5> QED BY <3>5, <4>2, <5>1
      <4>4. n <= size' /\ n <= current' /\ Len(served') = n
        BY <1>1, <1>2, <3>2, <4>1, <4>2
      <4>5. \A k \in 1 .. n : served'[k] = conns'[((current' - n + k - 1) % size') + 1]
        BY <1>1, <4>3 DEF At
      <4> QED BY <4>2, <4>4, <4>5 DEF ServedBefore, At
    <3>7. CASE ~(n + 1 > size)
      <4>1. served' = s
        BY <3>1, <3>2, <3>7
      <4>2. \A k \in 1 .. n + 1 : served'[k] = At((current' - (n + 1) + k - 1) % size)
        <5> TAKE k \in 1 .. n + 1
        <5>1. current - n + k - 1 = current' - (n + 1) + k - 1
          BY <1>2, <3>2
        <5> QED BY <3>5, <4>1, <5>1
      <4>3. n + 1 <= size' /\ n + 1 <= current' /\ Len(served') = n + 1
        BY <1>1, <1>2, <3>1, <3>2, <3>7, <4>1
      <4>4. \A k \in 1 .. n + 1 : served'[k] = conns'[((current' - (n + 1) + k - 1) % size') + 1]
        BY <1>1, <4>2 DEF At
      <4>5. served' \in Seq(AllConns)
        BY <3>1, <4>1
      <4> QED BY <4>3, <4>4, <4>5 DEF ServedBefore, At
    <3> QED BY <3>6, <3>7
  <2> QED BY <2>1, <2>2
<1>7. TypeOK'
  BY <1>1, <1>3, <1>4, <1>6, SameList DEF TypeOK, RoundRobinInv
<1> QED BY <1>1, <1>5, <1>6, <1>7, SameList DEF RoundRobinInv

\* The empty list is consistent.
LEMMA InitInv == Init => RoundRobinInv
<1> SUFFICES ASSUME Init PROVE RoundRobinInv
  OBVIOUS
<1>1. Indexed = {} /\ size = 0 /\ Len(conns) = 0
  BY DEF Init, Indexed
<1>2. TypeOK
  BY <1>1 DEF Init, TypeOK
<1>3. IndexBijective
  BY <1>1 DEF Init, IndexBijective, IsInjective, Indexed
<1>4. ServedBefore
  BY DEF Init, ServedBefore
<1> QED BY <1>1, <1>2, <1>3, <1>4 DEF Init, RoundRobinInv, InItsPlace, FilledWhileLocked

\* Adding a connection, for a new address or a known one.
LEMMA StepAdd ==
    ASSUME RoundRobinInv, NEW a \in Addrs, NEW k \in ConnsOf[a], AddConn(a, k)
    PROVE  RoundRobinInv'
<1>1. Unlocked /\ current' = current /\ loaded' = loaded /\ served' = <<>>
  BY DEF AddConn
<1>2. CASE a \in Indexed
  <2>1. /\ conns' = [conns EXCEPT ![indexByAddr[a] + 1] = k]
        /\ indexByAddr' = indexByAddr /\ size' = size
    BY <1>2 DEF AddConn
  <2> QED BY <1>1, <1>2, <2>1, ReplaceList, StepWrite DEF RoundRobinInv, TypeOK
<1>3. CASE a \notin Indexed
  <2>1. /\ conns' = Append(conns, k) /\ size' = size + 1
        /\ indexByAddr' = [b \in Indexed \cup {a} |-> IF b = a THEN size ELSE indexByAddr[b]]
    BY <1>3 DEF AddConn
  <2> QED BY <1>1, <1>3, <2>1, AppendList, StepWrite DEF RoundRobinInv, TypeOK
<1> QED BY <1>2, <1>3

\* Deleting the connection of an address.
LEMMA StepDelete ==
    ASSUME RoundRobinInv, NEW a \in Addrs, DeleteConnByAddr(a)
    PROVE  RoundRobinInv'
<1>1. Unlocked /\ current' = current /\ loaded' = loaded
  BY DEF DeleteConnByAddr
<1>2. CASE a \in Indexed
  <2>1. /\ conns' = RemoveAt(conns, indexByAddr[a] + 1) /\ size' = size - 1
        /\ indexByAddr' = Restrict(Reindex(indexByAddr[a]), Indexed \ {a}) /\ served' = <<>>
    BY <1>2 DEF DeleteConnByAddr
  <2> QED BY <1>1, <1>2, <2>1, ShrinkList, StepWrite DEF RoundRobinInv, TypeOK
<1>3. CASE a \notin Indexed
  BY <1>1, <1>3, StepRead DEF DeleteConnByAddr
<1> QED BY <1>2, <1>3

\* Every step preserves the invariant.
LEMMA StepInv == RoundRobinInv /\ [Next]_vars => RoundRobinInv'
<1> SUFFICES ASSUME RoundRobinInv, [Next]_vars PROVE RoundRobinInv'
  OBVIOUS
<1>1. ASSUME NEW a \in Addrs, NEW k \in ConnsOf[a], AddConn(a, k) PROVE RoundRobinInv'
  BY <1>1, StepAdd
<1>2. ASSUME NEW a \in Addrs, DeleteConnByAddr(a) PROVE RoundRobinInv'
  BY <1>2, StepDelete
<1>3. ASSUME NEW a \in Addrs, GetConnByAddr(a) PROVE RoundRobinInv'
  BY <1>3, StepRead DEF GetConnByAddr
<1>4. CASE GetConnections
  BY <1>4, StepRead DEF GetConnections
<1>5. ASSUME NEW u \in Callers, LoadCurrent(u) PROVE RoundRobinInv'
  BY <1>5, StepLoad
<1>6. ASSUME NEW u \in Callers, StoreCurrent(u) PROVE RoundRobinInv'
  BY <1>6, StepStore
<1>7. CASE UNCHANGED vars
  BY <1>7, StepRead DEF vars
<1> QED BY <1>1, <1>2, <1>3, <1>4, <1>5, <1>6, <1>7 DEF Next

\* The strengthened invariant holds in every reachable state.
LEMMA RoundRobinInductive == Spec => []RoundRobinInv
BY InitInv, StepInv, PTL DEF Spec

\* No connection is at two indices: connections to different addresses differ.
LEMMA AtInjective ==
    ASSUME RoundRobinInv, NEW i \in 0 .. size - 1, NEW j \in 0 .. size - 1, At(i) = At(j)
    PROVE  i = j
<1>1. PICK a \in Indexed : indexByAddr[a] = i
  BY ListFacts DEF RoundRobinInv
<1>2. PICK b \in Indexed : indexByAddr[b] = j
  BY ListFacts DEF RoundRobinInv
<1>3. At(i) \in ConnsOf[a] \cap ConnsOf[b] /\ a \in Addrs /\ b \in Addrs
  BY <1>1, <1>2 DEF RoundRobinInv, InItsPlace, TypeOK
<1> QED BY <1>1, <1>2, <1>3

\* The invariant implies that undisturbed calls go round: what they returned is
\* less than size apart in the rotation.
LEMMA GoesRound == RoundRobinInv => RotatesEvenly
<1> SUFFICES ASSUME RoundRobinInv PROVE RotatesEvenly
  OBVIOUS
<1> DEFINE n == Len(served)
           idx(k) == (current - n + k - 1) % size
<1>1. /\ n \in Nat /\ n <= size /\ n <= current /\ current \in Int /\ size \in Int
      /\ DOMAIN served = 1 .. n
      /\ \A k \in 1 .. n : served[k] = At(idx(k))
  BY LenProperties, ListFacts DEF RoundRobinInv, ServedBefore, TypeOK
<1> HIDE DEF n
<1>2. ASSUME NEW k \in 1 .. n, NEW l \in 1 .. n, k < l PROVE served[k] # served[l]
  <2> DEFINE p == current - n + k - 1
             q == current - n + l - 1
  <2>1. p \in Int /\ q \in Int /\ p < q /\ q - p < size /\ size > 0
    BY <1>1, <1>2
  <2>2. p % size # q % size /\ p % size \in 0 .. size - 1 /\ q % size \in 0 .. size - 1
    <3> HIDE DEF p, q
    <3> QED BY <1>1, <2>1, ModDistinct, DivMod
  <2>3. At(p % size) # At(q % size)
    BY <2>2, AtInjective
  <2> QED BY <1>1, <2>3
<1>3. ASSUME NEW k \in DOMAIN served, NEW l \in DOMAIN served, served[k] = served[l]
      PROVE  k = l
  BY <1>1, <1>2, <1>3
<1> QED BY <1>3 DEF RotatesEvenly, IsInjective

\* The map, the slice and the size of the strategy stay one list, and calls of
\* GetNextConnection that nobody disturbs return every connection once per round,
\* for every number of addresses and callers and every width of the counter.
THEOREM ListConsistentHolds == Spec => []ListConsistent
<1>1. RoundRobinInv => ListConsistent
  BY GoesRound DEF RoundRobinInv, ListConsistent
<1> QED BY <1>1, RoundRobinInductive, PTL

-----------------------------------------------------------------------------
(* The strategy implements the map of ConnSet.                             *)

\* The connection kept for each address, as the refinement mapping computes it.
HeldConns == [a \in Addrs |-> IF a \in Indexed THEN At(indexByAddr[a]) ELSE None]

\* What is kept for an address.
LEMMA HeldFacts ==
    ASSUME RoundRobinInv
    PROVE  \A a \in Addrs : /\ a \in Indexed => /\ HeldConns[a] = At(indexByAddr[a])
                                                /\ Map!Of(HeldConns[a]) = {At(indexByAddr[a])}
                            /\ a \notin Indexed => /\ HeldConns[a] = None
                                                   /\ Map!Of(HeldConns[a]) = {}
<1> TAKE a \in Addrs
<1>1. CASE a \in Indexed
  <2>1. At(indexByAddr[a]) # None /\ HeldConns[a] = At(indexByAddr[a])
    BY <1>1 DEF HeldConns, RoundRobinInv, InItsPlace
  <2> QED BY <1>1, <2>1 DEF Map!Of
<1>2. CASE a \notin Indexed
  BY <1>2 DEF HeldConns, Map!Of
<1> QED BY <1>1, <1>2

\* The connections of the map are those of the slice.
LEMMA HeldIsList ==
    ASSUME RoundRobinInv
    PROVE  /\ Map!Held = ToSet(conns)
           /\ Map!Held = {} <=> size = 0
           /\ \A i \in 0 .. size - 1 : At(i) \in Map!Held
<1>1. Map!Held = UNION {Map!Of(HeldConns[a]) : a \in Addrs}
  BY DEF Map!Held, HeldConns
<1>2. \A c : c \in Map!Held <=> \E a \in Indexed : c = At(indexByAddr[a])
  <2>1. ASSUME NEW c, c \in Map!Held PROVE \E a \in Indexed : c = At(indexByAddr[a])
    <3>1. PICK a \in Addrs : c \in Map!Of(HeldConns[a])
      BY <1>1, <2>1, Zenon
    <3> QED BY <3>1, HeldFacts
  <2>2. ASSUME NEW a \in Indexed PROVE At(indexByAddr[a]) \in Map!Held
    <3>1. a \in Addrs /\ At(indexByAddr[a]) \in Map!Of(HeldConns[a])
      BY HeldFacts DEF RoundRobinInv, TypeOK
    <3> QED BY <1>1, <3>1, Zenon
  <2> QED BY <2>1, <2>2
<1>3. \A i \in 0 .. size - 1 : At(i) \in Map!Held
  BY <1>2, ListFacts DEF RoundRobinInv
<1>4. \A c \in Map!Held : \E i \in 0 .. size - 1 : c = At(i)
  BY <1>2, ListFacts DEF RoundRobinInv
<1>5. size \in Nat /\ DOMAIN conns = 1 .. size
  BY ListFacts, LenProperties DEF RoundRobinInv
<1>6. Map!Held = {} <=> size = 0
  BY <1>3, <1>4, <1>5
<1>7. \A c \in Map!Held : c \in ToSet(conns)
  <2> TAKE c \in Map!Held
  <2>1. PICK i \in 0 .. size - 1 : c = At(i)
    BY <1>4
  <2>2. i + 1 \in DOMAIN conns
    BY <1>5
  <2> QED BY <2>1, <2>2 DEF At, ToSet
<1>8. \A c \in ToSet(conns) : c \in Map!Held
  <2> TAKE c \in ToSet(conns)
  <2>1. PICK j \in 1 .. size : c = conns[j]
    BY <1>5 DEF ToSet
  <2>2. j - 1 \in 0 .. size - 1 /\ j = (j - 1) + 1
    BY <1>5
  <2>3. c = At(j - 1)
    BY <2>1, <2>2 DEF At
  <2> QED BY <1>3, <2>2, <2>3
<1> QED BY <1>3, <1>6, <1>7, <1>8

\* A step that leaves the list alone leaves the map alone.
LEMMA HeldKept ==
    ASSUME conns' = conns, indexByAddr' = indexByAddr
    PROVE  HeldConns' = HeldConns
BY DEF HeldConns, Indexed, At

\* AddConn of the strategy is AddConn of the map.
LEMMA RefineAdd ==
    ASSUME RoundRobinInv, NEW a \in Addrs, NEW k \in ConnsOf[a], AddConn(a, k)
    PROVE  Map!AddConn(a, k)
<1> SUFFICES HeldConns' = [HeldConns EXCEPT ![a] = k]
  BY DEF AddConn, Map!AddConn, HeldConns
<1>1. CASE a \in Indexed
  <2>1. /\ conns' = [conns EXCEPT ![indexByAddr[a] + 1] = k]
        /\ indexByAddr' = indexByAddr /\ size' = size
    BY <1>1 DEF AddConn
  <2>2. /\ Indexed' = Indexed /\ At(indexByAddr[a])' = k
        /\ \A b \in Indexed \ {a} : At(indexByAddr[b])' = At(indexByAddr[b])
    BY <1>1, <2>1, ReplaceList DEF RoundRobinInv
  <2> QED BY <1>1, <2>2 DEF HeldConns
<1>2. CASE a \notin Indexed
  <2>1. /\ conns' = Append(conns, k) /\ size' = size + 1
        /\ indexByAddr' = [b \in Indexed \cup {a} |-> IF b = a THEN size ELSE indexByAddr[b]]
    BY <1>2 DEF AddConn
  <2>2. /\ Indexed' = Indexed \cup {a} /\ At(indexByAddr[a])' = k
        /\ \A b \in Indexed : At(indexByAddr[b])' = At(indexByAddr[b])
    BY <1>2, <2>1, AppendList DEF RoundRobinInv
  <2> QED BY <1>2, <2>2 DEF HeldConns
<1> QED BY <1>1, <1>2

\* DeleteConnByAddr of the strategy is DeleteConnByAddr of the map.
LEMMA RefineDelete ==
    ASSUME RoundRobinInv, NEW a \in Addrs, DeleteConnByAddr(a)
    PROVE  Map!DeleteConnByAddr(a)
<1> SUFFICES HeldConns' = [HeldConns EXCEPT ![a] = None] /\ ret' = Map!Of(HeldConns[a])
  BY DEF Map!DeleteConnByAddr, HeldConns
<1>1. CASE a \in Indexed
  <2>1. /\ conns' = RemoveAt(conns, indexByAddr[a] + 1) /\ size' = size - 1
        /\ indexByAddr' = Restrict(Reindex(indexByAddr[a]), Indexed \ {a})
        /\ ret' = {At(indexByAddr[a])}
    BY <1>1 DEF DeleteConnByAddr, Deleted
  <2>2. /\ Indexed' = Indexed \ {a}
        /\ \A b \in Indexed' : At(indexByAddr[b])' = At(indexByAddr[b])
    BY <1>1, <2>1, ShrinkList DEF RoundRobinInv
  <2>3. HeldConns' = [HeldConns EXCEPT ![a] = None]
    BY <1>1, <2>2 DEF HeldConns
  <2> QED BY <1>1, <2>1, <2>3, HeldFacts
<1>2. CASE a \notin Indexed
  <2>1. conns' = conns /\ indexByAddr' = indexByAddr /\ ret' = {}
    BY <1>2 DEF DeleteConnByAddr
  <2>2. HeldConns[a] = None /\ ret' = Map!Of(HeldConns[a])
    BY <1>2, <2>1, HeldFacts
  <2>3. HeldConns = [HeldConns EXCEPT ![a] = None]
    BY <2>2 DEF HeldConns
  <2> QED BY <2>1, <2>2, <2>3, HeldKept
<1> QED BY <1>1, <1>2

\* GetNextConnection takes effect when it stores current: what it returns is kept
\* for some address then, whatever value it had loaded.
LEMMA RefineNext ==
    ASSUME RoundRobinInv, NEW u \in Callers, StoreCurrent(u)
    PROVE  Map!GetNextConnection
<1>1. loaded[u] # None /\ ret' = {At(NextIndex(u))} /\ HeldConns' = HeldConns
  BY HeldKept DEF StoreCurrent
<1>2. At(NextIndex(u)) \in Map!Held
  BY <1>1, NextInRange, HeldIsList
<1> QED BY <1>1, <1>2 DEF Map!GetNextConnection, HeldConns

\* On an empty list GetNextConnection returns nil at once.
LEMMA RefineLoad ==
    ASSUME RoundRobinInv, NEW u \in Callers, LoadCurrent(u)
    PROVE  Map!GetNextConnection \/ (HeldConns' = HeldConns /\ ret' = ret)
<1>1. HeldConns' = HeldConns
  BY HeldKept DEF LoadCurrent
<1>2. CASE size = 0
  <2>1. Map!Held = {} /\ ret' = {}
    BY <1>2, HeldIsList DEF LoadCurrent
  <2> QED BY <1>1, <2>1 DEF Map!GetNextConnection, HeldConns
<1>3. CASE size # 0
  BY <1>1, <1>3 DEF LoadCurrent
<1> QED BY <1>2, <1>3

\* RoundRobinStrategy implements ConnSet: every call of it does what the same call
\* does to a map from addresses to connections, whatever callers race on current,
\* for every number of addresses and callers and every width of the counter.
THEOREM ImplementsMapHolds == Spec => ImplementsMap
<1>1. Init => Map!Init
  BY DEF Init, Map!Init, Indexed
<1>2. RoundRobinInv /\ [Next]_vars => [Map!Next]_<<HeldConns, ret>>
  <2> SUFFICES ASSUME RoundRobinInv, [Next]_vars
               PROVE  Map!Next \/ (HeldConns' = HeldConns /\ ret' = ret)
    OBVIOUS
  <2>1. ASSUME NEW a \in Addrs, NEW k \in ConnsOf[a], AddConn(a, k) PROVE Map!Next
    BY <2>1, RefineAdd DEF Map!Next
  <2>2. ASSUME NEW a \in Addrs, DeleteConnByAddr(a) PROVE Map!Next
    BY <2>2, RefineDelete DEF Map!Next
  <2>3. ASSUME NEW a \in Addrs, GetConnByAddr(a) PROVE Map!GetConnByAddr(a)
    <3>1. /\ ret' = IF a \in Indexed THEN {At(indexByAddr[a])} ELSE {}
          /\ conns' = conns /\ indexByAddr' = indexByAddr
      BY <2>3 DEF GetConnByAddr
    <3>2. ret' = Map!Of(HeldConns[a]) /\ HeldConns' = HeldConns
      BY <3>1, HeldFacts, HeldKept
    <3> QED BY <3>2 DEF Map!GetConnByAddr, HeldConns
  <2>4. CASE GetConnections
    <3>1. ret' = ToSet(conns) /\ conns' = conns /\ indexByAddr' = indexByAddr
      BY <2>4 DEF GetConnections
    <3>2. ret' = Map!Held /\ HeldConns' = HeldConns
      BY <3>1, HeldIsList, HeldKept
    <3> QED BY <3>2 DEF Map!GetConnections, Map!Next, HeldConns
  <2>5. ASSUME NEW u \in Callers, LoadCurrent(u)
        PROVE  Map!Next \/ (HeldConns' = HeldConns /\ ret' = ret)
    BY <2>5, RefineLoad DEF Map!Next
  <2>6. ASSUME NEW u \in Callers, StoreCurrent(u) PROVE Map!Next
    BY <2>6, RefineNext DEF Map!Next
  <2>7. CASE UNCHANGED vars
    BY <2>7, HeldKept DEF vars
  <2>8. ASSUME NEW a \in Addrs, GetConnByAddr(a) PROVE Map!Next
    BY <2>3, <2>8 DEF Map!Next
  <2> QED BY <2>1, <2>2, <2>4, <2>5, <2>6, <2>7, <2>8 DEF Next
<1> QED BY <1>1, <1>2, RoundRobinInductive, PTL DEF Spec, ImplementsMap, Map!Spec, HeldConns
=============================================================================
