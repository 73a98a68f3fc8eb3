---- MODULE MCLiveSocket ----
EXTENDS LiveSocket, TLC
\* The slots are interchangeable, and so are the devices.
Symmetry == Permutations(Device) \cup Permutations(Socket) \cup Permutations(Timer)
            \cup Permutations(Run)

\* Bound: at most this many sockets, timers and runs at one time.
MaxPending == 5
FewPending ==
    Cardinality({s \in Socket : socket[s].phase # "none"})
      + Cardinality({i \in Timer : timer[i] # None})
      + Cardinality({u \in Run : run[u] # None}) <= MaxPending
====
