--------------------------- MODULE SharedConnection ---------------------------
(***************************************************************************)
(* What ElectrumNetworkProvider promises about the one connection its      *)
(* callers share, without counters, clocks, retries or the breaker: who    *)
(* uses the connection, whose shutdown is under way, how many slots were   *)
(* lost, and what state the connection is in.                              *)
(***************************************************************************)
EXTENDS Integers, FiniteSets

CONSTANTS Callers,  \* whoever may call performRequest
          Slots     \* how many may use the connection at once

VARIABLES
    managed, \* the provider connects and disconnects by itself
    users,   \* the callers that use the connection
    closing, \* the user that waits for the connection to be shut down
    lost,    \* slots no caller will give back
    link     \* "off", "starting", "on" or "stopping"

vars == <<managed, users, closing, lost, link>>

Init ==
    /\ managed \in BOOLEAN
    /\ users = {}
    /\ closing = {}
    /\ lost = 0
    /\ link = "off"

Unused == users = {} /\ lost = 0
Alone(c) == users = {c} /\ lost = 0

\* A caller joins while there is room; the first one finds the connection off and
\* starts it, the others take it as it is.
Join(c) ==
    /\ c \notin users
    /\ Cardinality(users) + lost < Slots
    /\ users' = users \cup {c}
    /\ IF managed /\ Unused
         THEN link = "off" /\ link' = "starting"
         ELSE UNCHANGED link
    /\ UNCHANGED <<closing, lost>>

\* Whoever is not the last to use the connection leaves it as it is.
Leave(c) ==
    /\ c \in users \ closing
    /\ managed => ~Alone(c)
    /\ users' = users \ {c}
    /\ UNCHANGED <<closing, lost, link>>

\* The last user shuts a managed connection down and waits for the end of it;
\* meanwhile others may join.
Close(c) ==
    /\ managed
    /\ Alone(c)
    /\ closing = {}
    /\ closing' = {c}
    /\ link' = "stopping"
    /\ UNCHANGED <<users, lost>>

Closed(c) ==
    /\ c \in closing
    /\ users' = users \ {c}
    /\ closing' = {}
    /\ link' = "off"
    /\ UNCHANGED lost

\* A caller that gave up on a connection that never was ready takes its slot with
\* it; so does one whose shutdown failed.
Lose(c) ==
    /\ c \in users
    /\ users' = users \ {c}
    /\ lost' = lost + 1
    /\ closing' = closing \ {c}
    /\ IF c \in closing THEN link' \in {"off", "on"} ELSE UNCHANGED link

\* The network moves the connection; so does the application when it manages it.
LinkMoves ==
    /\ \/ link = "starting" /\ link' \in {"on", "off"}
       \/ link = "on" /\ link' = "starting"
       \/ ~managed /\ link = "off" /\ link' = "starting"
       \/ ~managed /\ link \in {"starting", "on"} /\ link' = "off"
    /\ UNCHANGED <<users, closing, lost>>

Next ==
    /\ UNCHANGED managed
    /\ \/ \E c \in Callers : Join(c) \/ Leave(c) \/ Close(c) \/ Closed(c) \/ Lose(c)
       \/ LinkMoves

Spec == Init /\ [][Next]_vars
===============================================================================
