------------------------------- MODULE Events -------------------------------
(***************************************************************************)
(* Lifecycle events: the bus (internal/lifecycle/events.go), those that    *)
(* publish on it (the API's handlers and the reconciler), the handler of   *)
(* an event stream (handleEvents in internal/controlplane/server.go) and a *)
(* client that reconnects with Last-Event-ID.                              *)
(*                                                                         *)
(* `log' is every event ever published; an event's id is its number in it. *)
(* The bus keeps the newest of them, from `oldest' on, and nothing across  *)
(* a restart of the control plane.  Publish, Subscribe and cancel run      *)
(* under the bus's mutex and are one step each.  A handler is the          *)
(* goroutine of one request; it outlives its connection until it looks.    *)
(***************************************************************************)
EXTENDS Integers, Sequences, FiniteSets

CONSTANTS
    Agents, Owners, Owner,  \* agents, principals, and whose each agent is
    Clients, Principal,     \* clients, and as whom each authenticates
    Handlers,               \* request goroutines
    None,                   \* no agent filter, no handler
    Capacity,               \* NewEventBus(capacity): 2048
    ChannelCapacity,        \* of a subscriber's channel: 64
    MaxEvents,              \* bound: events published
    MaxFaults,              \* bound: connections lost, finalizations that fail
    MaxRestarts             \* bound: restarts of the control plane

ASSUME EventsAssumption ==
    /\ Owner \in [Agents -> Owners] /\ Principal \in [Clients -> Owners]
    /\ None \notin Agents /\ None \notin Handlers /\ None \notin Clients
    /\ {Capacity, ChannelCapacity} \subseteq Nat \ {0}
    /\ {MaxEvents, MaxFaults, MaxRestarts} \subseteq Nat

VARIABLES
    log, oldest, subscribers,     \* the bus
    phase, serves, after,         \* handlers: where, for whom, with which Last-Event-ID
    replay, channel, closed,      \* what Subscribe returned: numbers of events
    filter, conn, cursor, refused,\* clients: agentId, handler, last id seen, told "not found"
    existence,                    \* agents: stored, announced as deleted, or gone
    faults, restarts              \* how much of two bounds is used up

busVars == <<log, oldest, subscribers>>
handlerVars == <<phase, serves, after, replay, channel, closed>>
clientVars == <<filter, conn, cursor, refused>>
boundVars == <<faults, restarts>>
vars == <<busVars, handlerVars, clientVars, existence, boundVars>>

Types == {"changed", "deleted"}
Event == [agent : Agents, type : Types]
Numbers == 1..Len(log)

\* The history and every channel stay within their capacities.
TypeOK ==
    /\ log \in Seq(Event)
    /\ oldest \in 1..(Len(log) + 1) /\ Len(log) - oldest < Capacity
    /\ subscribers \subseteq Handlers
    /\ phase \in [Handlers -> {"idle", "checked", "replaying", "live"}]
    /\ serves \in [Handlers -> Clients \cup {None}]
    /\ after \in [Handlers -> Nat]
    /\ replay \in [Handlers -> SUBSET Numbers]
    /\ channel \in [Handlers -> Seq(Numbers)]
    /\ \A h \in Handlers : Len(channel[h]) <= ChannelCapacity
    /\ closed \in [Handlers -> BOOLEAN]
    /\ filter \in [Clients -> Agents \cup {None}]
    /\ conn \in [Clients -> Handlers \cup {None}]
    /\ cursor \in [Clients -> Nat]
    /\ refused \subseteq Clients
    /\ existence \in [Agents -> {"stored", "announced", "gone"}]
    /\ faults \in Nat /\ restarts \in Nat

Init ==
    /\ log = << >> /\ oldest = 1 /\ subscribers = {}
    /\ phase = [h \in Handlers |-> "idle"] /\ serves = [h \in Handlers |-> None]
    /\ after = [h \in Handlers |-> 0] /\ replay = [h \in Handlers |-> {}]
    /\ channel = [h \in Handlers |-> << >>] /\ closed = [h \in Handlers |-> FALSE]
    /\ filter \in [Clients -> Agents \cup {None}]
    /\ \A c \in Clients : filter[c] # None => Owner[filter[c]] = Principal[c]
    /\ conn = [c \in Clients |-> None] /\ cursor = [c \in Clients |-> 0] /\ refused = {}
    /\ existence = [a \in Agents |-> "stored"]
    /\ faults = 0 /\ restarts = 0

-----------------------------------------------------------------------------
(* Publish, and who calls it.                                              *)

\* Fault: a subscriber that is closed stays subscribed.
PublishKeepingClosed(e) ==
    LET slow == {h \in subscribers : Len(channel[h]) >= ChannelCapacity} IN
    /\ Len(log) < MaxEvents
    /\ log' = Append(log, e)
    /\ oldest' = IF Len(log') - oldest >= Capacity THEN Len(log') - Capacity + 1 ELSE oldest
    /\ closed' = [h \in Handlers |-> h \in slow \/ closed[h]]
    /\ channel' = [h \in Handlers |-> IF h \in subscribers \ slow
                                      THEN Append(channel[h], Len(log')) ELSE channel[h]]
    /\ UNCHANGED subscribers

\* Fault: the history is trimmed one event late.
PublishTrimmingLate(e) ==
    LET slow == {h \in subscribers : Len(channel[h]) >= ChannelCapacity} IN
    /\ Len(log) < MaxEvents
    /\ log' = Append(log, e)
    /\ oldest' = IF Len(log') - oldest > Capacity THEN Len(log') - Capacity + 1 ELSE oldest
    /\ subscribers' = subscribers \ slow
    /\ closed' = [h \in Handlers |-> h \in slow \/ closed[h]]
    /\ channel' = [h \in Handlers |-> IF h \in subscribers \ slow
                                      THEN Append(channel[h], Len(log')) ELSE channel[h]]

\* The event joins the history, of which the newest are kept, and is sent to every
\* subscriber, whoever owns the agent; one with no room is closed and forgotten.
Publish(e) ==
    LET slow == {h \in subscribers : Len(channel[h]) >= ChannelCapacity} IN
    /\ Len(log) < MaxEvents
    /\ log' = Append(log, e)
    /\ oldest' = IF Len(log') - oldest >= Capacity THEN Len(log') - Capacity + 1 ELSE oldest
    /\ subscribers' = subscribers \ slow
    /\ closed' = [h \in Handlers |-> h \in slow \/ closed[h]]
    /\ channel' = [h \in Handlers |-> IF h \in subscribers \ slow
                                      THEN Append(channel[h], Len(log')) ELSE channel[h]]

\* An API handler or the reconciler has written the agent and publishes that, or the
\* gateway a takeover, before or after whatever else happens to the agent: nothing
\* orders the two.
PublishChange(a) ==
    /\ Publish([agent |-> a, type |-> "changed"])
    /\ UNCHANGED <<phase, serves, after, replay, clientVars, existence, boundVars>>

\* reconcileDelete, when the claim is gone: the event first ...
PublishDeleted(a) ==
    /\ existence[a] = "stored"
    /\ Publish([agent |-> a, type |-> "deleted"])
    /\ existence' = [existence EXCEPT ![a] = "announced"]
    /\ UNCHANGED <<phase, serves, after, replay, clientVars, boundVars>>

\* Fault: the agent is removed before its event is published.
FinalizeUnannounced(a) ==
    /\ existence[a] # "gone"
    /\ existence' = [existence EXCEPT ![a] = "gone"] /\ UNCHANGED faults
    /\ UNCHANGED <<busVars, handlerVars, clientVars, restarts>>

\* ... and then FinalizeDelete.  If that fails, all of it is done again.
FinalizeDelete(a) ==
    /\ existence[a] = "announced"
    /\ \/ existence' = [existence EXCEPT ![a] = "gone"] /\ UNCHANGED faults
       \/ /\ faults < MaxFaults /\ faults' = faults + 1
          /\ existence' = [existence EXCEPT ![a] = "stored"]
    /\ UNCHANGED <<busVars, handlerVars, clientVars, restarts>>

-----------------------------------------------------------------------------
(* handleEvents.                                                           *)

\* A client asks for the stream.  An agent that is filtered on must exist.
Request(c, h) ==
    /\ conn[c] = None /\ c \notin refused /\ phase[h] = "idle"
    /\ IF filter[c] # None /\ existence[filter[c]] = "gone"
       THEN /\ refused' = refused \cup {c}
            /\ UNCHANGED <<phase, serves, after, conn>>
       ELSE /\ phase' = [phase EXCEPT ![h] = "checked"]
            /\ serves' = [serves EXCEPT ![h] = c]
            /\ after' = [after EXCEPT ![h] = cursor[c]]
            /\ conn' = [conn EXCEPT ![c] = h]
            /\ UNCHANGED refused
    /\ UNCHANGED <<busVars, replay, channel, closed, filter, cursor, existence, boundVars>>

Owned(h, n) == Owner[log[n].agent] = Principal[serves[h]]
Filtered(h, n) == filter[serves[h]] \in {None, log[n].agent}

Connected(h) == serves[h] \in Clients /\ conn[serves[h]] = h

\* Fault: a cursor that is not found is taken for none.
CursorValidAlways(id) == TRUE

\* Whether the history holds the event named by Last-Event-ID, if one is named.
CursorValid(id) == id = 0 \/ id \in oldest..Len(log)

\* The events after the cursor, of this owner.
Replay(h) == {n \in oldest..Len(log) : n > after[h] /\ Owned(h, n)}

\* Subscribe: the replay and the subscription are taken under one lock.
Subscribe(h) ==
    /\ phase[h] = "checked" /\ CursorValid(after[h])
    /\ phase' = [phase EXCEPT ![h] = "replaying"]
    /\ replay' = [replay EXCEPT ![h] = Replay(h)]
    /\ channel' = [channel EXCEPT ![h] = << >>]
    /\ closed' = [closed EXCEPT ![h] = FALSE]
    /\ subscribers' = subscribers \cup {h}
    /\ UNCHANGED <<log, oldest, serves, after, clientVars, existence, boundVars>>

\* cancel, deferred by the handler: a channel that Publish has closed is left alone,
\* and any other is taken off the bus before it is closed.
cancel(h) == subscribers' = subscribers \ {h}

\* The handler returns, and its variables and its connection end with it.
Returns(h) ==
    /\ phase' = [phase EXCEPT ![h] = "idle"]
    /\ serves' = [serves EXCEPT ![h] = None] /\ after' = [after EXCEPT ![h] = 0]
    /\ replay' = [replay EXCEPT ![h] = {}] /\ channel' = [channel EXCEPT ![h] = << >>]
    /\ closed' = [closed EXCEPT ![h] = FALSE]
    /\ conn' = IF Connected(h) THEN [conn EXCEPT ![serves[h]] = None] ELSE conn
    /\ cancel(h)

\* event_cursor_expired.  The client will begin anew, without a cursor.
CursorExpired(h) ==
    /\ phase[h] = "checked" /\ ~CursorValid(after[h])
    /\ Returns(h)
    /\ cursor' = IF Connected(h) THEN [cursor EXCEPT ![serves[h]] = 0] ELSE cursor
    /\ UNCHANGED <<log, oldest, filter, refused, existence, boundVars>>

\* writeSSE ignores errors: what is written to a lost connection is not seen.
writeSSE(h, n) ==
    cursor' = IF Connected(h) /\ Filtered(h, n)
              THEN [cursor EXCEPT ![serves[h]] = n] ELSE cursor

WriteReplay(h) ==
    /\ phase[h] = "replaying"
    /\ \E n \in replay[h] :
          /\ \A m \in replay[h] : n <= m
          /\ writeSSE(h, n)
          /\ replay' = [replay EXCEPT ![h] = @ \ {n}]
    /\ UNCHANGED <<busVars, phase, serves, after, channel, closed, filter, conn, refused,
                   existence, boundVars>>

Flush(h) ==
    /\ phase[h] = "replaying" /\ replay[h] = {}
    /\ phase' = [phase EXCEPT ![h] = "live"]
    /\ UNCHANGED <<busVars, serves, after, replay, channel, closed, clientVars, existence,
                   boundVars>>

\* An event from the channel, which carries those of every owner.
WriteEvent(h) ==
    /\ phase[h] = "live" /\ channel[h] # << >>
    /\ IF Owned(h, Head(channel[h])) THEN writeSSE(h, Head(channel[h])) ELSE UNCHANGED cursor
    /\ channel' = [channel EXCEPT ![h] = Tail(@)]
    /\ UNCHANGED <<busVars, phase, serves, after, replay, closed, filter, conn, refused,
                   existence, boundVars>>

\* Fault: a closed channel is read as if it were empty.
EndsNever(h) == FALSE /\ UNCHANGED vars

\* The channel is closed and drained.
Ends(h) ==
    /\ phase[h] = "live" /\ channel[h] = << >> /\ closed[h]
    /\ Returns(h)
    /\ UNCHANGED <<log, oldest, filter, cursor, refused, existence, boundVars>>

\* The request's context is done, and select takes that case.
Quits(h) ==
    /\ phase[h] = "live" /\ ~Connected(h)
    /\ Returns(h)
    /\ UNCHANGED <<log, oldest, filter, cursor, refused, existence, boundVars>>

-----------------------------------------------------------------------------
(* Faults.                                                                 *)

Disconnect(c) ==
    /\ conn[c] # None
    /\ faults < MaxFaults /\ faults' = faults + 1
    /\ conn' = [conn EXCEPT ![c] = None]
    /\ UNCHANGED <<busVars, handlerVars, filter, cursor, refused, existence, restarts>>

\* The control plane restarts: the bus and the requests were in memory.
Restart ==
    /\ restarts < MaxRestarts /\ restarts' = restarts + 1
    /\ oldest' = Len(log) + 1 /\ subscribers' = {}
    /\ phase' = [h \in Handlers |-> "idle"] /\ serves' = [h \in Handlers |-> None]
    /\ after' = [h \in Handlers |-> 0] /\ replay' = [h \in Handlers |-> {}]
    /\ channel' = [h \in Handlers |-> << >>] /\ closed' = [h \in Handlers |-> FALSE]
    /\ conn' = [c \in Clients |-> None]
    /\ existence' = [a \in Agents |-> IF existence[a] = "announced" THEN "stored"
                                      ELSE existence[a]]
    /\ UNCHANGED <<log, filter, cursor, refused, faults>>

-----------------------------------------------------------------------------
PublisherNext(a) ==
    PublishChange(a) \/ PublishDeleted(a) \/ FinalizeDelete(a)

HandlerNext(h) ==
    \/ Subscribe(h) \/ CursorExpired(h) \/ WriteReplay(h) \/ Flush(h) \/ WriteEvent(h)
    \/ Ends(h) \/ Quits(h)

Next ==
    \/ \E a \in Agents : PublisherNext(a)
    \/ \E h \in Handlers : HandlerNext(h)
    \/ \E c \in Clients : Disconnect(c) \/ \E h \in Handlers : Request(c, h)
    \/ Restart

Spec == Init /\ [][Next]_vars

\* Handlers are goroutines that run when they can, and a client whose stream ended
\* asks again.  Agents need not change or be deleted.
FairSpec ==
    /\ Spec
    /\ \A h \in Handlers : WF_vars(HandlerNext(h))
    /\ \A c \in Clients : WF_vars(\E h \in Handlers : Request(c, h))

-----------------------------------------------------------------------------
(* Properties.                                                             *)

\* The subscribers are exactly the handlers that read a channel which is open.  One
\* that is closed is not sent to (that would bring the control plane down), no handler
\* waits for ever for an event it will not be sent, and none that has returned is
\* left on the bus, whoever closed its channel.
ChannelsSafe ==
    subscribers = {h \in Handlers : phase[h] \in {"replaying", "live"} /\ ~closed[h]}

\* An agent that is gone for good was announced as deleted first, whatever failed in
\* between: ADR 0001 has `deleted' observable through events only.
GoneAnnounced ==
    \A a \in Agents :
        existence[a] = "gone" => \E n \in Numbers : log[n] = [agent |-> a, type |-> "deleted"]

\* The refinement: the bus, its bounded history, the channels and the reconnections
\* together are the feed that EventFeed describes.  A client never misses, repeats or
\* reorders an event without being told, and sees none that it may not or did not ask for.
Watches(c) == {a \in Agents : Owner[a] = Principal[c] /\ filter[c] \in {None, a}}
Feed == INSTANCE EventFeed WITH place <- cursor, watches <- [c \in Clients |-> Watches(c)]
ImplementsFeed == Feed!Spec

\* A client with a place in the stream comes to see every event it watches, through
\* lost connections, full channels and restarts, unless it is told that its cursor has
\* expired or that the agent it filters on is gone.
Delivered ==
    \A c \in Clients, n \in 1..MaxEvents :
        (n <= Len(log) /\ log[n].agent \in Watches(c) /\ 0 < cursor[c] /\ cursor[c] < n)
            ~> (cursor[c] >= n \/ cursor[c] = 0 \/ c \in refused)
=============================================================================
