------------------------------ MODULE MCWatch -------------------------------
(* Module Watch for TLC: the NewWatcher calls are interchangeable.         *)
EXTENDS Watch

WatcherSymmetry == Permutations(Watchers)
=============================================================================
