----------------------------- MODULE MCDBusLoop -----------------------------
(* Small instances of DBusLoop for TLC, one of which is chosen at first:   *)
(* watches and timeouts that are added, removed and toggled, or the        *)
(* messages of two connections.                                            *)
EXTENDS DBusLoop

CONSTANT Parts
VARIABLE part

\* A watch for both directions and one to read, of the same descriptor, and one to
\* read from another connection.
AllWatches == {"both", "read", "other"}
AllFd == [w \in AllWatches |-> IF w = "other" THEN "conn2" ELSE "conn1"]
AllFlags == [w \in AllWatches |-> IF w = "both" THEN Dirs ELSE {"read"}]

\* What takes part, and how many messages and wakeups there are at a time.
Ups == IF part = "watches" THEN {"conn1"} \cup Servers ELSE Conns
Used == IF part = "watches" THEN {"both", "read"} ELSE {"read", "other"}
Timed == IF part = "watches" THEN Timeouts ELSE {}
AtOnce == IF part = "watches" THEN 1 ELSE 2

Within ==
    /\ up' \subseteq Ups
    /\ \A w \in Watches \ Used : watch'[w] = "none"
    /\ \A t \in Timeouts \ Timed : timeout'[t] = "none"
    /\ wakeups' <= AtOnce /\ \A c \in Conns : inbox'[c] <= AtOnce

MCInit == Init /\ part \in Parts
MCSpec == MCInit /\ [][Next /\ Within /\ UNCHANGED part]_<<vars, part>> /\ Fairness
=============================================================================
