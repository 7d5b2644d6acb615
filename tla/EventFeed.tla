----------------------------- MODULE EventFeed -----------------------------
(***************************************************************************)
(* What the lifecycle event stream promises a client, without saying how:  *)
(* there is one log of events, and a client that has a place in it reads   *)
(* the events it watches from there on, in order, each once and with none  *)
(* left out, until it is told that it has lost its place.                  *)
(***************************************************************************)
EXTENDS Naturals, Sequences

CONSTANTS Clients, Agents, Types

Event == [agent : Agents, type : Types]

VARIABLES
    log,      \* every event published, in order
    place,    \* the event each client saw last, 0 for none
    watches   \* the agents whose events each client asked for

vars == <<log, place, watches>>

Init ==
    /\ log = << >>
    /\ place = [c \in Clients |-> 0]
    /\ watches \in [Clients -> SUBSET Agents]

Wanted(c, n) == log[n].agent \in watches[c]

Publish(e) ==
    /\ log' = Append(log, e)
    /\ UNCHANGED <<place, watches>>

\* A client with no place may begin anywhere.
Sees(c, n) ==
    /\ place[c] < n /\ Wanted(c, n)
    /\ place[c] # 0 => \A m \in 1..Len(log) : place[c] < m /\ m < n => ~Wanted(c, m)
    /\ place' = [place EXCEPT ![c] = n]
    /\ UNCHANGED <<log, watches>>

LosesPlace(c) ==
    /\ place' = [place EXCEPT ![c] = 0]
    /\ UNCHANGED <<log, watches>>

Next ==
    \/ \E e \in Event : Publish(e)
    \/ \E c \in Clients, n \in 1..Len(log) : Sees(c, n)
    \/ \E c \in Clients : LosesPlace(c)

Spec == Init /\ [][Next]_vars
=============================================================================
