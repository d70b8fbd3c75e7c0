---- MODULE MCHubPairing ----
\* Instances of HubPairing for TLC: requests of a kind are interchangeable.
EXTENDS HubPairing, TLC

TaskSymmetry ==
    Permutations(Pairings) \cup Permutations(Exchanges)
        \cup Permutations(Unpairings) \cup Permutations(Rooms)
====
