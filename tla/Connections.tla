---------------------------- MODULE Connections ----------------------------
(***************************************************************************)
(* What the application may expect of a connection between a signal and a  *)
(* Python slot, whatever PyQt does underneath: the slot is entered only    *)
(* while the connection is open, closing it (disconnect(), the death of    *)
(* the transmitter or of the receiver, or a single shot having been fired) *)
(* is final, and what implements it is freed only when the connection is   *)
(* closed and no activation of the slot is running.                        *)
(***************************************************************************)
EXTENDS Naturals

CONSTANT Conns

VARIABLES
    status,   \* of each connection
    running   \* the activations of its slot

vars == <<status, running>>

Init ==
    /\ status = [c \in Conns |-> "none"]
    /\ running = [c \in Conns |-> 0]

Open(c) ==
    /\ status[c] = "none"
    /\ status' = [status EXCEPT ![c] = "open"]
    /\ UNCHANGED running

Close(S) ==
    /\ \A c \in S : status[c] = "open"
    /\ status' = [c \in Conns |-> IF c \in S THEN "closed" ELSE status[c]]
    /\ UNCHANGED running

Enter(c) ==
    /\ status[c] = "open"
    /\ running' = [running EXCEPT ![c] = @ + 1]
    /\ UNCHANGED status

Leave(c) ==
    /\ running[c] > 0
    /\ running' = [running EXCEPT ![c] = @ - 1]
    /\ \/ UNCHANGED status
       \/ /\ status[c] = "open"
          /\ status' = [status EXCEPT ![c] = "closed"]

Free(c) ==
    /\ status[c] = "closed"
    /\ running[c] = 0
    /\ status' = [status EXCEPT ![c] = "freed"]
    /\ UNCHANGED running

Next ==
    \/ \E c \in Conns : Open(c) \/ Enter(c) \/ Leave(c) \/ Free(c)
    \/ \E S \in SUBSET Conns : Close(S)

Spec == Init /\ [][Next]_vars
=============================================================================
