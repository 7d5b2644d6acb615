------------------------------ MODULE Gateway ------------------------------
(***************************************************************************)
(* The terminal gateway (internal/gateway/gateway.go): ServeTerminal takes *)
(* a place from the limiter, upgrades the client's connection, reads its   *)
(* attach frame, dials the agent's runner and proxies until either side or *)
(* a time limit ends it.  proxy runs three goroutines: client to runner,   *)
(* runner to client and the idle timer.  Each of them ends by sending one  *)
(* error to a channel, of which the handler receives the first.            *)
(*                                                                         *)
(* The runner is module Hub's, reduced to whom it makes the controller.    *)
(* Time limits may pass at any moment.                                     *)
(***************************************************************************)
EXTENDS Integers, Sequences, FiniteSets

CONSTANTS
    Conns,                  \* requests for a terminal
    Agents, AgentOf,        \* agents, and which one each request is for
    CanControl,             \* the requests whose principal may control
    None, Elsewhere,        \* no controller, and one attached otherwise
    MaxConnections, MaxConnectionsPerAgent,  \* Limits
    MaxFrames               \* bound: frames a client sends after attach

ASSUME GatewayAssumption ==
    /\ IsFiniteSet(Conns) /\ None \notin Conns /\ Elsewhere \notin Conns
    /\ AgentOf \in [Conns -> Agents] /\ CanControl \subseteq Conns
    /\ {MaxConnections, MaxConnectionsPerAgent} \subseteq Nat \ {0}
    /\ MaxFrames \in Nat

VARIABLES
    total, perAgent,    \* the limiter
    active,             \* metrics.active
    at,                 \* where each handler is
    client, upstream,   \* its two connections
    toRunner, toClient, \* frames on their way
    thread,             \* the goroutines of its proxy
    attach,            \* the client's attach frame, until it is sent on
    errs,               \* how many errors the channel holds
    ctx,                \* the proxy's context: "live" or "done"
    pending, takeovers, \* takeoverPending; how many takeovers were counted
    sent,               \* frames the client has sent
    holder, grants      \* the runners: the controller, and how often each became it

limiterVars == <<total, perAgent, active>>
proxyVars == <<thread, attach, errs, ctx, pending, takeovers, sent>>
runnerVars == <<holder, grants>>
vars == <<limiterVars, at, client, upstream, toRunner, toClient, proxyVars, runnerVars>>

Threads == {"fwd", "back", "idle"}
Roles == {"control", "observe"}
Frame == [type : {"attach", "attached", "takeover", "other"}, role : Roles, takeover : BOOLEAN]
Simple(t) == [type |-> t, role |-> "observe", takeover |-> FALSE]
Attached(r) == [type |-> "attached", role |-> r, takeover |-> FALSE]
Attach(r, t) == [type |-> "attach", role |-> r, takeover |-> t]

\* Counters do not go below zero, and the error channel holds no more than it can.
TypeOK ==
    /\ total \in Nat /\ perAgent \in [Agents -> Nat] /\ active \in Nat
    /\ at \in [Conns -> {"idle", "accepting", "attaching", "dialing", "proxy", "leaving", "gone"}]
    /\ client \in [Conns -> {"none", "up", "down"}] /\ upstream \in [Conns -> {"none", "up", "down"}]
    /\ toRunner \in [Conns -> Seq(Frame)] /\ toClient \in [Conns -> Seq(Frame)]
    /\ thread \in [Conns -> [Threads -> {"off", "runs", "done"}]]
    /\ attach \in [Conns -> Frame]
    /\ errs \in [Conns -> 0..3] /\ ctx \in [Conns -> {"live", "done"}]
    /\ pending \in [Conns -> Nat] /\ takeovers \in [Conns -> Nat] /\ sent \in [Conns -> Nat]
    /\ holder \in [Agents -> Conns \cup {None, Elsewhere}] /\ grants \in [Conns -> Nat]

Init ==
    /\ total = 0 /\ perAgent = [a \in Agents |-> 0] /\ active = 0
    /\ at = [c \in Conns |-> "idle"]
    /\ client = [c \in Conns |-> "none"] /\ upstream = [c \in Conns |-> "none"]
    /\ toRunner = [c \in Conns |-> << >>] /\ toClient = [c \in Conns |-> << >>]
    /\ thread = [c \in Conns |-> [g \in Threads |-> "off"]]
    /\ attach = [c \in Conns |-> Simple("other")]
    /\ errs = [c \in Conns |-> 0] /\ ctx = [c \in Conns |-> "live"]
    /\ pending = [c \in Conns |-> 0] /\ takeovers = [c \in Conns |-> 0]
    /\ sent = [c \in Conns |-> 0]
    /\ holder \in [Agents -> {None, Elsewhere}] /\ grants = [c \in Conns |-> 0]

-----------------------------------------------------------------------------
(* ServeTerminal.                                                          *)

HasPlace(a) == total < MaxConnections /\ perAgent[a] < MaxConnectionsPerAgent

acquire(a) ==
    /\ HasPlace(a)
    /\ total' = total + 1
    /\ perAgent' = [perAgent EXCEPT ![a] = @ + 1]

\* Fault: the place of the agent is not given back.
releaseTotal(a) == total' = total - 1 /\ UNCHANGED perAgent

release(a) ==
    /\ total' = total - 1
    /\ perAgent' = [perAgent EXCEPT ![a] = @ - 1]

\* A terminal is asked for; the runner is resolved and a place taken, or the request
\* is answered with connection_limit_exceeded.
Serve(c) ==
    /\ at[c] = "idle"
    /\ \/ acquire(AgentOf[c]) /\ at' = [at EXCEPT ![c] = "accepting"]
       \/ ~HasPlace(AgentOf[c]) /\ at' = [at EXCEPT ![c] = "gone"] /\ UNCHANGED <<total, perAgent>>
    /\ UNCHANGED <<active, client, upstream, toRunner, toClient, proxyVars, runnerVars>>

Accept(c) ==
    /\ at[c] = "accepting"
    /\ \/ /\ client' = [client EXCEPT ![c] = "up"] /\ active' = active + 1
          /\ at' = [at EXCEPT ![c] = "attaching"]
       \/ at' = [at EXCEPT ![c] = "leaving"] /\ UNCHANGED <<client, active>>
    /\ UNCHANGED <<total, perAgent, upstream, toRunner, toClient, proxyVars, runnerVars>>

\* The first frame does not come in time, is not a valid attach, or asks for more
\* than the principal may do; the client is told and closed.
AttachRefused(c) ==
    /\ at[c] = "attaching"
    /\ at' = [at EXCEPT ![c] = "leaving"]
    /\ UNCHANGED <<limiterVars, client, upstream, toRunner, toClient, proxyVars, runnerVars>>

\* proxy is about to begin, or the capability, the token, the dial or the first write failed.
Dials(c) ==
    /\ at[c] = "dialing"
    /\ \/ /\ upstream' = [upstream EXCEPT ![c] = "up"]
          /\ toRunner' = [toRunner EXCEPT ![c] = << attach[c] >>]
          /\ at' = [at EXCEPT ![c] = "proxy"]
          /\ thread' = [thread EXCEPT ![c] = [g \in Threads |-> "runs"]]
          /\ pending' = [pending EXCEPT ![c] = IF attach[c].takeover /\ c \in CanControl
                                               THEN 1 ELSE 0]
       \/ /\ at' = [at EXCEPT ![c] = "leaving"]
          /\ UNCHANGED <<upstream, toRunner, thread, pending>>
    /\ attach' = [attach EXCEPT ![c] = Simple("other")]
    /\ UNCHANGED <<limiterVars, client, toClient, errs, ctx, takeovers, sent, runnerVars>>

ReadsAttach(c) ==
    /\ at[c] = "attaching" /\ client[c] = "up"
    /\ \E r \in Roles, t \in BOOLEAN :
          /\ r = "control" => c \in CanControl
          /\ attach' = [attach EXCEPT ![c] = Attach(r, t)]
    /\ at' = [at EXCEPT ![c] = "dialing"]
    /\ UNCHANGED <<limiterVars, client, upstream, toRunner, toClient, thread, errs, ctx, pending,
                   takeovers, sent, runnerVars>>

\* The deferred calls: both connections are closed, with what was on its way, and the
\* place is given back.  Nothing reads what is reset here again.
Leaves(c) ==
    /\ at[c] = "leaving"
    /\ at' = [at EXCEPT ![c] = "gone"]
    /\ active' = IF client[c] = "none" THEN active ELSE active - 1
    /\ client' = [client EXCEPT ![c] = IF @ = "none" THEN @ ELSE "down"]
    /\ upstream' = [upstream EXCEPT ![c] = IF @ = "none" THEN @ ELSE "down"]
    /\ release(AgentOf[c])
    /\ toRunner' = [toRunner EXCEPT ![c] = << >>] /\ toClient' = [toClient EXCEPT ![c] = << >>]
    /\ pending' = [pending EXCEPT ![c] = 0] /\ sent' = [sent EXCEPT ![c] = 0]
    /\ takeovers' = [takeovers EXCEPT ![c] = 0] /\ grants' = [grants EXCEPT ![c] = 0]
    /\ UNCHANGED <<attach, thread, errs, ctx, holder>>

-----------------------------------------------------------------------------
(* proxy.                                                                  *)

Goes(c, g, to) == thread' = [thread EXCEPT ![c][g] = to]

\* Fault: the channel has room for the error that the handler receives.
ErrorsOne == 1

\* The capacity of errorsChannel.
Errors == 3

\* A goroutine's last act is to send its error, when there is room for it.
Fails(c, g) ==
    /\ errs[c] < Errors
    /\ errs' = [errs EXCEPT ![c] = @ + 1]
    /\ Goes(c, g, "done")

\* The handler has returned from proxy, or the connection has lived too long.
Cancelled(c) == ctx[c] = "done"

MaxLifetime(c) ==
    /\ at[c] = "proxy" /\ ctx[c] = "live"
    /\ ctx' = [ctx EXCEPT ![c] = "done"]
    /\ UNCHANGED <<limiterVars, at, client, upstream, toRunner, toClient, thread, attach, errs,
                   pending, takeovers, sent, runnerVars>>

\* A frame from the client is forwarded.  A takeover by one who may control is counted
\* as pending first.  A frame that is not text, or a write that fails or takes too
\* long, ends the goroutine.
ReadsClient(c) ==
    /\ thread[c]["fwd"] = "runs" /\ client[c] = "up" /\ ~Cancelled(c) /\ sent[c] < MaxFrames
    /\ sent' = [sent EXCEPT ![c] = @ + 1]
    /\ \E t \in {"takeover", "other"} :
          /\ pending' = [pending EXCEPT ![c] = IF t = "takeover" /\ c \in CanControl
                                               THEN @ + 1 ELSE @]
          /\ \/ /\ upstream[c] = "up"
                /\ toRunner' = [toRunner EXCEPT ![c] = Append(@, Simple(t))]
                /\ UNCHANGED <<thread, errs>>
             \/ Fails(c, "fwd") /\ UNCHANGED toRunner
    /\ UNCHANGED <<limiterVars, at, client, upstream, toClient, attach, ctx, takeovers, runnerVars>>

ReadClientFails(c) ==
    /\ thread[c]["fwd"] = "runs" /\ (client[c] = "down" \/ Cancelled(c))
    /\ Fails(c, "fwd")
    /\ UNCHANGED <<limiterVars, at, client, upstream, toRunner, toClient, attach, ctx, pending,
                   takeovers, sent, runnerVars>>

\* Fault: any attached frame answers a takeover.
AnswersAny(c, f) == f.type = "attached" /\ pending[c] > 0

\* The frame is taken for the answer to a pending takeover.
Answers(c, f) == f.type = "attached" /\ f.role = "control" /\ pending[c] > 0

\* A frame from the runner is looked at and forwarded; a write that fails or takes too
\* long ends the goroutine.
ReadsRunner(c) ==
    /\ thread[c]["back"] = "runs" /\ toClient[c] # << >> /\ ~Cancelled(c)
    /\ toClient' = [toClient EXCEPT ![c] = Tail(@)]
    /\ IF Answers(c, Head(toClient[c]))
       THEN /\ pending' = [pending EXCEPT ![c] = @ - 1]
            /\ takeovers' = [takeovers EXCEPT ![c] = @ + 1]
       ELSE UNCHANGED <<pending, takeovers>>
    /\ \/ client[c] = "up" /\ UNCHANGED <<thread, errs>>
       \/ Fails(c, "back")
    /\ UNCHANGED <<limiterVars, at, client, upstream, toRunner, attach, ctx, sent, runnerVars>>

\* Fault: the reader of a runner's connection that ended returns without a word.
ReadRunnerReturns(c) ==
    /\ thread[c]["back"] = "runs" /\ (upstream[c] = "down" \/ Cancelled(c))
    /\ Goes(c, "back", "done")
    /\ UNCHANGED <<limiterVars, at, client, upstream, toRunner, toClient, attach, errs, ctx,
                   pending, takeovers, sent, runnerVars>>

ReadRunnerFails(c) ==
    /\ thread[c]["back"] = "runs" /\ (upstream[c] = "down" \/ Cancelled(c))
    /\ Fails(c, "back")
    /\ UNCHANGED <<limiterVars, at, client, upstream, toRunner, toClient, attach, ctx, pending,
                   takeovers, sent, runnerVars>>

\* A tick finds the connection idle, even when the context is done too.
IdleTimeout(c) ==
    /\ thread[c]["idle"] = "runs"
    /\ Fails(c, "idle")
    /\ UNCHANGED <<limiterVars, at, client, upstream, toRunner, toClient, attach, ctx, pending,
                   takeovers, sent, runnerVars>>

IdleStops(c) ==
    /\ thread[c]["idle"] = "runs" /\ Cancelled(c)
    /\ Goes(c, "idle", "done")
    /\ UNCHANGED <<limiterVars, at, client, upstream, toRunner, toClient, attach, errs, ctx,
                   pending, takeovers, sent, runnerVars>>

\* The handler receives the first error, cancels the context and returns.
Receives(c) ==
    /\ at[c] = "proxy" /\ errs[c] > 0
    /\ errs' = [errs EXCEPT ![c] = @ - 1]
    /\ ctx' = [ctx EXCEPT ![c] = "done"]
    /\ at' = [at EXCEPT ![c] = "leaving"]
    /\ UNCHANGED <<limiterVars, client, upstream, toRunner, toClient, thread, attach, pending,
                   takeovers, sent, runnerVars>>

-----------------------------------------------------------------------------
(* The client, the network and the runner.                                 *)

ClientGone(c) ==
    /\ client[c] = "up" /\ client' = [client EXCEPT ![c] = "down"]
    /\ UNCHANGED <<limiterVars, at, upstream, toRunner, toClient, proxyVars, runnerVars>>

UpstreamLost(c) ==
    /\ upstream[c] = "up" /\ upstream' = [upstream EXCEPT ![c] = "down"]
    /\ toRunner' = [toRunner EXCEPT ![c] = << >>]
    /\ UNCHANGED <<limiterVars, at, client, toClient, proxyVars, runnerVars>>

Grants(c) ==
    /\ holder' = [holder EXCEPT ![AgentOf[c]] = c]
    /\ grants' = [grants EXCEPT ![c] = @ + 1]
    /\ toClient' = [toClient EXCEPT ![c] = Append(@, Attached("control"))]
    /\ UNCHANGED upstream

\* The runner reads a frame: an attachment that may not control now is refused and
\* closed, an observer is attached, and a takeover by one who may control succeeds.
RunnerReads(c) ==
    LET f == Head(toRunner[c])
        free == holder[AgentOf[c]] = None \/ f.takeover
    IN
    /\ toRunner[c] # << >> /\ upstream[c] = "up"
    /\ toRunner' = [toRunner EXCEPT ![c] = Tail(@)]
    /\ \/ f.type = "attach" /\ f.role = "control" /\ free /\ Grants(c)
       \/ /\ f.type = "attach" /\ f.role = "control" /\ ~free
          /\ upstream' = [upstream EXCEPT ![c] = "down"]
          /\ toClient' = [toClient EXCEPT ![c] = Append(@, Simple("other"))]
          /\ UNCHANGED runnerVars
       \/ /\ f.type = "attach" /\ f.role = "observe"
          /\ toClient' = [toClient EXCEPT ![c] = Append(@, Attached("observe"))]
          /\ UNCHANGED <<upstream, runnerVars>>
       \/ f.type = "takeover" /\ c \in CanControl /\ Grants(c)
       \/ /\ f.type = "takeover" /\ c \notin CanControl
          /\ toClient' = [toClient EXCEPT ![c] = Append(@, Simple("other"))]
          /\ UNCHANGED <<upstream, runnerVars>>
       \/ f.type = "other" /\ UNCHANGED <<toClient, upstream, runnerVars>>
    /\ UNCHANGED <<limiterVars, at, client, proxyVars>>

\* The runner sees that a connection is gone.
RunnerDetaches(c) ==
    /\ upstream[c] = "down" /\ holder[AgentOf[c]] = c
    /\ holder' = [holder EXCEPT ![AgentOf[c]] = None]
    /\ UNCHANGED <<limiterVars, at, client, upstream, toRunner, toClient, proxyVars, grants>>

-----------------------------------------------------------------------------
Handler(c) ==
    Accept(c) \/ AttachRefused(c) \/ ReadsAttach(c) \/ Dials(c) \/ Receives(c) \/ Leaves(c)

Back(c) == ReadsRunner(c) \/ ReadRunnerFails(c)

Next ==
    \E c \in Conns :
        \/ Serve(c) \/ Handler(c) \/ ReadsClient(c) \/ ReadClientFails(c) \/ Back(c) \/ IdleStops(c)
        \/ IdleTimeout(c) \/ MaxLifetime(c)
        \/ ClientGone(c) \/ UpstreamLost(c) \/ RunnerReads(c) \/ RunnerDetaches(c)

Spec == Init /\ [][Next]_vars

\* The goroutines run when they can, the attach frame has a time limit, and a dial
\* returns.  Nothing is assumed of the two time limits of proxy, of the client or of
\* the runner.
FairSpec ==
    /\ Spec
    /\ \A c \in Conns :
          /\ WF_vars(Handler(c)) /\ WF_vars(ReadClientFails(c)) /\ WF_vars(Back(c)) /\ WF_vars(IdleStops(c))

-----------------------------------------------------------------------------
(* Properties.                                                             *)

\* The limiter counts exactly the requests that hold a place, in total and for each
\* agent, on every path out of ServeTerminal, and no limit is exceeded; the gauge of
\* active connections counts those that were upgraded and not yet closed.  No counter
\* goes below zero, and the error channel holds no more than it can.
Placed == {c \in Conns : at[c] \notin {"idle", "gone"}}
SlotsExact ==
    /\ TypeOK
    /\ total = Cardinality(Placed) /\ total <= MaxConnections
    /\ \A a \in Agents : /\ perAgent[a] = Cardinality({c \in Placed : AgentOf[c] = a})
                         /\ perAgent[a] <= MaxConnectionsPerAgent
    /\ active = Cardinality({c \in Placed : client[c] # "none"})

\* docs/terminal-gateway.md has successful takeovers counted and published.  Whichever
\* attached frame a pending takeover is matched with, no more are counted for a
\* connection than the runner has given it the lease.
TakeoversBacked == \A c \in Conns : takeovers[c] <= grants[c]

\* When one side of a proxied connection goes, the other is closed and the place is
\* given back, without waiting for a time limit; and when the lifetime has passed both
\* are closed, although neither peer may do anything.
EndsTogether ==
    \A c \in Conns :
        (at[c] = "proxy" /\ (client[c] = "down" \/ upstream[c] = "down" \/ ctx[c] = "done"))
            ~> (at[c] = "gone" /\ client[c] = "down" /\ upstream[c] = "down")

\* No goroutine of a proxy outlives it for ever, whatever the order in which the
\* three of them end.
ThreadsEnd ==
    \A c \in Conns : at[c] = "gone" ~> \A g \in Threads : thread[c][g] \in {"off", "done"}
=============================================================================
