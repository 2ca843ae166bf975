------------------------------ MODULE ConnSet -------------------------------
(***************************************************************************)
(* What a balancing strategy of the connection pool promises its callers:  *)
(* a map from addresses to connections, read and changed one call at a     *)
(* time, whose GetNextConnection hands out one of its connections.         *)
(***************************************************************************)
CONSTANTS
    Addrs,     \* addresses
    ConnsOf,   \* the connections that may exist for each address
    None       \* nil

VARIABLES
    held,      \* the connection kept for each address, or None
    ret        \* the connections the last call returned

\* A call that returns one connection returns {} for nil.
Of(c) == IF c = None THEN {} ELSE {c}
Held == UNION {Of(held[a]) : a \in Addrs}

Init == held = [a \in Addrs |-> None] /\ ret = {}

AddConn(a, c) == held' = [held EXCEPT ![a] = c] /\ ret' = {}

DeleteConnByAddr(a) == held' = [held EXCEPT ![a] = None] /\ ret' = Of(held[a])

GetConnByAddr(a) == ret' = Of(held[a]) /\ UNCHANGED held

GetConnections == ret' = Held /\ UNCHANGED held

GetNextConnection ==
    /\ ret' \in IF Held = {} THEN {{}} ELSE {{c} : c \in Held}
    /\ UNCHANGED held

Next ==
    \/ \E a \in Addrs :
        \/ \E c \in ConnsOf[a] : AddConn(a, c)
        \/ DeleteConnByAddr(a)
        \/ GetConnByAddr(a)
    \/ GetConnections
    \/ GetNextConnection

Spec == Init /\ [][Next]_<<held, ret>>
=============================================================================
