----------------------------- MODULE RoundRobin -----------------------------
(***************************************************************************)
(* RoundRobinStrategy: the slice conns, the index of each address in it    *)
(* and the rotating counter current.  AddConn and DeleteConnByAddr hold    *)
(* the write lock.  GetNextConnection holds the read lock only, so that    *)
(* several callers race on current: ret := current % size loads it, and    *)
(* current++ stores the loaded value plus one, or loads it once more.      *)
(***************************************************************************)
EXTENDS Integers, SequencesExt

CONSTANTS
    Addrs,     \* addresses
    ConnsOf,   \* the connections that may exist for each address
    Callers,   \* goroutines that call GetNextConnection
    Width,     \* number of values of the uint current (2^64 in the code)
    None       \* nil

ASSUME WidthAssumption == Width \in Nat \ {0}

\* A connection is to one address, and it is not nil.
ASSUME ConnsAssumption ==
    /\ None \notin Nat /\ \A a \in Addrs : None \notin ConnsOf[a]
    /\ \A a, b \in Addrs : a # b => ConnsOf[a] \cap ConnsOf[b] = {}

VARIABLES
    conns, indexByAddr, size, current,
    loaded,    \* the value of current each caller has loaded, or None
    ret,       \* the connections the last call returned
    served     \* history: results of the last undisturbed calls, size at most

vars == <<conns, indexByAddr, size, current, loaded, ret, served>>

Indexed == DOMAIN indexByAddr
Unlocked == \A u \in Callers : loaded[u] = None
At(i) == conns[i + 1]

Init ==
    /\ conns = <<>> /\ indexByAddr = [a \in {} |-> 0] /\ size = 0 /\ current = 0
    /\ loaded = [u \in Callers |-> None] /\ ret = {} /\ served = <<>>

\* Mutant: the indices behind the removed connection stay as they were.
ReindexNot(i) == indexByAddr

\* Every index behind the removed one moves up.
Reindex(i) ==
    [b \in Indexed |-> IF indexByAddr[b] > i THEN indexByAddr[b] - 1
                       ELSE indexByAddr[b]]

AddConn(a, c) ==
    /\ Unlocked
    /\ IF a \in Indexed
       THEN /\ conns' = [conns EXCEPT ![indexByAddr[a] + 1] = c]
            /\ UNCHANGED <<indexByAddr, size>>
       ELSE /\ conns' = Append(conns, c)
            /\ indexByAddr' = [b \in Indexed \cup {a} |->
                                  IF b = a THEN size ELSE indexByAddr[b]]
            /\ size' = size + 1
    /\ ret' = {} /\ served' = <<>>
    /\ UNCHANGED <<current, loaded>>

\* Mutant: the connection is read after append has moved the others over it.
DeletedLate(i) == IF i + 1 < size THEN At(i + 1) ELSE At(i)

Deleted(i) == At(i)

DeleteConnByAddr(a) ==
    /\ Unlocked
    /\ IF a \in Indexed
       THEN LET i == indexByAddr[a] IN
            /\ conns' = RemoveAt(conns, i + 1)
            /\ indexByAddr' = Restrict(Reindex(i), Indexed \ {a})
            /\ size' = size - 1
            /\ ret' = {Deleted(i)} /\ served' = <<>>
       ELSE ret' = {} /\ UNCHANGED <<conns, indexByAddr, size, served>>
    /\ UNCHANGED <<current, loaded>>

GetConnByAddr(a) ==
    /\ ret' = IF a \in Indexed THEN {At(indexByAddr[a])} ELSE {}
    /\ UNCHANGED <<conns, indexByAddr, size, current, loaded, served>>

GetConnections ==
    /\ ret' = ToSet(conns)
    /\ UNCHANGED <<conns, indexByAddr, size, current, loaded, served>>

\* GetNextConnection, up to the load of current in nextIndex.
LoadCurrent(u) ==
    /\ loaded[u] = None
    /\ IF size = 0 THEN ret' = {} /\ UNCHANGED loaded
       ELSE loaded' = [loaded EXCEPT ![u] = current] /\ UNCHANGED ret
    /\ UNCHANGED <<conns, indexByAddr, size, current, served>>

NextIndex(u) == loaded[u] % size

\* Mutant: the counter is not stored.
IncrementedNot(v) == v

Incremented(v) == (v + 1) % Width

\* The rest of GetNextConnection.
StoreCurrent(u) ==
    /\ loaded[u] # None
    /\ \E v \in {loaded[u], current} : current' = Incremented(v)
    /\ ret' = {At(NextIndex(u))}
    /\ loaded' = [loaded EXCEPT ![u] = None]
    /\ served' = IF current = loaded[u] /\ current < Width - 1
                 THEN LET s == Append(served, At(NextIndex(u)))
                      IN IF Len(s) > size THEN Tail(s) ELSE s
                 ELSE <<>>
    /\ UNCHANGED <<conns, indexByAddr, size>>

Next ==
    \/ \E a \in Addrs :
        \/ \E c \in ConnsOf[a] : AddConn(a, c)
        \/ DeleteConnByAddr(a)
        \/ GetConnByAddr(a)
    \/ GetConnections
    \/ \E u \in Callers : LoadCurrent(u) \/ StoreCurrent(u)

Spec == Init /\ [][Next]_vars

-----------------------------------------------------------------------------
(* Properties.                                                             *)

\* The map, the slice and the size describe the same connections: the indices
\* in indexByAddr are exactly 0 .. size - 1, each of one address.
IndexBijective ==
    /\ size = Len(conns)
    /\ IsInjective(indexByAddr)
    /\ {indexByAddr[a] : a \in Indexed} = 0 .. size - 1

\* Calls of GetNextConnection that no other call or change of the set disturbs
\* go round: no connection comes twice within size calls.  (When the uint
\* overflows, the rotation starts again from the first connection.)
RotatesEvenly == IsInjective(served)

Map == INSTANCE ConnSet WITH
    held <- [a \in Addrs |-> IF a \in Indexed THEN At(indexByAddr[a]) ELSE None]

\* The strategy implements the map of ConnSet, whatever callers race on
\* current: GetNextConnection returns a connection that is in the pool when it
\* returns, and DeleteConnByAddr the one that was kept for the address.
ImplementsMap == Map!Spec

\* The list is consistent and goes round, whoever adds and deletes.
ListConsistent == IndexBijective /\ RotatesEvenly
=============================================================================
