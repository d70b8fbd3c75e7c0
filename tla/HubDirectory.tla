---------------------------- MODULE HubDirectory ----------------------------
(***************************************************************************)
(* What the connection manager promises to whoever pushes to a hub: a hub  *)
(* has at most one current connection; it keeps its place until it ends or *)
(* a newer one replaces it; and a connection gets a place at most once.    *)
(* HubConnections implements this module.                                  *)
(***************************************************************************)
CONSTANTS Hubs, Sockets, Nobody

VARIABLES
    current,   \* hub -> its connection, or Nobody
    attached,  \* connections that were given a place and have not ended
    ended      \* connections that have ended

directoryVars == <<current, attached, ended>>

DirectoryInit ==
    /\ current = [h \in Hubs |-> Nobody]
    /\ attached = {}
    /\ ended = {}

\* A fresh connection takes the place, from an older one if there is one.
Attach(h, s) ==
    /\ s \notin attached \cup ended
    /\ current' = [current EXCEPT ![h] = s]
    /\ attached' = attached \cup {s}
    /\ UNCHANGED ended

\* A connection ends; only its own place becomes free.
End(s) ==
    /\ s \notin ended
    /\ current' = [h \in Hubs |-> IF current[h] = s THEN Nobody ELSE current[h]]
    /\ attached' = attached \ {s}
    /\ ended' = ended \cup {s}

DirectoryNext == \E s \in Sockets : End(s) \/ \E h \in Hubs : Attach(h, s)

DirectorySpec == DirectoryInit /\ [][DirectoryNext]_directoryVars
=============================================================================
