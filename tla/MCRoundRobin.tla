---------------------------- MODULE MCRoundRobin ----------------------------
EXTENDS RoundRobin

\* One address whose connection may be replaced, two with one connection.
MCConnsOf == [a1 |-> {"c1", "c2"}, a2 |-> {"c3"}, a3 |-> {"c4"}]
=============================================================================
