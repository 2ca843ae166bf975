------------------------------- MODULE MCPool -------------------------------
EXTENDS Pool

MCModeOf == [w \in Watchers |-> IF w = "wrw" THEN "RW" ELSE "ANY"]
=============================================================================
