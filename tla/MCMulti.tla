------------------------------ MODULE MCMulti -------------------------------
EXTENDS Multi

MCInitAddrs == <<"a1", "a2">>
MCDiscovered == {<<"a2", "a3">>, <<"a1">>}
=============================================================================
