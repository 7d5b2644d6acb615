----------------------------- MODULE Controller -----------------------------
(***************************************************************************)
(* The lifecycle controller's work queue (internal/kubernetes/             *)
(* controller.go): how a notification that an agent changed becomes a call *)
(* of Reconcile.                                                           *)
(*                                                                         *)
(* `queue' is a bounded channel of agent ids.  `pending' and `dirty',      *)
(* guarded by mu, keep an id from being queued twice: an id that is        *)
(* announced while it is pending is only marked dirty, and the worker that *)
(* finishes with it queues it again.  Enqueue takes mu, releases it, tries *)
(* the channel without blocking, and takes mu again if the channel was     *)
(* full; these are separate steps here.                                    *)
(*                                                                         *)
(* What Reconcile does is in module Lifecycle; here it reads the agent's   *)
(* version when it starts and succeeds or fails later.                     *)
(***************************************************************************)
EXTENDS Integers, Sequences, FiniteSets

CONSTANTS Agents,       \* agent ids
          Workers,      \* the goroutines of worker (two in the code)
          Callers,      \* goroutines inside Enqueue: watches, API handlers, timers
          ResyncLoop,   \* the one of them that runs Run's loop
          NoAgent,
          QueueCap,     \* capacity of the channel (1024 in the code)
          MaxRetries,   \* maxRetries (5 in the code)
          MaxChanges,   \* bound: changes per agent
          MaxFailures,  \* bound: reconciliations that fail
          MaxRestarts,  \* bound: crashes of the control plane
          MaxTimers     \* bound: retry timers armed at once per agent

ASSUME ControllerAssumption ==
    /\ ResyncLoop \in Callers
    /\ NoAgent \notin Agents
    /\ QueueCap \in Nat \ {0}
    /\ MaxRetries \in Nat
    /\ MaxChanges \in Nat /\ MaxFailures \in Nat /\ MaxRestarts \in Nat /\ MaxTimers \in Nat

VARIABLES
    queue, pending, dirty, retries,   \* the controller's fields
    timers,     \* AfterFunc retries armed, per agent
    todo,       \* the agents resyncAll has listed and not yet enqueued
    cpc, cid,   \* where each caller is in Enqueue, and with which agent
    wpc, wid,   \* where each worker is, and with which agent
    read,       \* the version Reconcile read, per worker, while it runs
    version,    \* the agent as stored: how often it has changed
    done,       \* the newest version reconciled with success
    failed,     \* agents whose status is failed, reconcile_retries_exhausted
    told,       \* history: the newest version announced to Enqueue and not given up
    failures, restarts   \* how much of two bounds is used up

enqueueVars == <<queue, pending, dirty, cpc, cid>>
agentVars == <<version, done, failed>>
boundVars == <<failures, restarts>>
workerVars == <<wpc, wid, read>>
vars == <<enqueueVars, retries, timers, todo, workerVars, agentVars, told, boundVars>>

\* The channel holds no more than its capacity, and a retry timer is armed at most
\* as often as the bound allows.
TypeOK ==
    /\ queue \in Seq(Agents) /\ Len(queue) <= QueueCap
    /\ pending \subseteq Agents /\ dirty \subseteq Agents
    /\ retries \in [Agents -> Nat] /\ timers \in [Agents -> 0..MaxTimers]
    /\ todo \subseteq Agents
    /\ cpc \in [Callers -> {"idle", "sending", "full"}]
    /\ cid \in [Callers -> Agents \cup {NoAgent}]
    /\ wpc \in [Workers -> {"select", "took", "reconciling", "requeue", "exhausted", "marking"}]
    /\ wid \in [Workers -> Agents \cup {NoAgent}]
    /\ read \in [Workers -> Nat]
    /\ version \in [Agents -> Nat] /\ done \in [Agents -> Nat] /\ told \in [Agents -> Nat]
    /\ failed \subseteq Agents
    /\ failures \in Nat /\ restarts \in Nat

\* NewController, and Run up to the first resyncAll's list.
Init ==
    /\ queue = << >> /\ pending = {} /\ dirty = {} /\ todo = Agents
    /\ retries = [id \in Agents |-> 0] /\ timers = [id \in Agents |-> 0]
    /\ cpc = [g \in Callers |-> "idle"] /\ cid = [g \in Callers |-> NoAgent]
    /\ wpc = [w \in Workers |-> "select"] /\ wid = [w \in Workers |-> NoAgent]
    /\ read = [w \in Workers |-> 0]
    /\ version = [id \in Agents |-> 1]
    /\ done = [id \in Agents |-> 0]
    /\ told = [id \in Agents |-> 1]
    /\ failed = {}
    /\ failures = 0 /\ restarts = 0

-----------------------------------------------------------------------------
(* Enqueue.                                                                *)

\* Fault: an id that is pending is sent to the channel again.
MarksAlways(g, id) ==
    /\ pending' = pending \cup {id}
    /\ cpc' = [cpc EXCEPT ![g] = "sending"]
    /\ cid' = [cid EXCEPT ![g] = id]
    /\ UNCHANGED dirty

\* The first critical section: an id that is pending is marked dirty, any other
\* becomes pending and is g's to send.
Marks(g, id) ==
    IF id \in pending
    THEN /\ dirty' = dirty \cup {id}
         /\ UNCHANGED <<pending, cpc, cid>>
    ELSE /\ pending' = pending \cup {id}
         /\ cpc' = [cpc EXCEPT ![g] = "sending"]
         /\ cid' = [cid EXCEPT ![g] = id]
         /\ UNCHANGED dirty

\* Enqueue is called by g with id, and announces what is stored by now.
Enqueue(g, id) ==
    /\ cpc[g] = "idle"
    /\ Marks(g, id)
    /\ told' = [told EXCEPT ![id] = version[id]]
    /\ UNCHANGED queue

\* The select: a channel with room takes the id, otherwise the default branch runs.
Send(g) ==
    /\ cpc[g] = "sending"
    /\ IF Len(queue) < QueueCap
       THEN /\ queue' = Append(queue, cid[g])
            /\ cpc' = [cpc EXCEPT ![g] = "idle"]
            /\ cid' = [cid EXCEPT ![g] = NoAgent]
       ELSE /\ cpc' = [cpc EXCEPT ![g] = "full"]
            /\ UNCHANGED <<queue, cid>>
    /\ UNCHANGED <<pending, dirty, retries, timers, todo, workerVars, agentVars, told, boundVars>>

\* Fault: the default branch leaves the id pending.
DropsKeepingPending(g) ==
    /\ cpc[g] = "full"
    /\ dirty' = dirty \ {cid[g]}
    /\ told' = [told EXCEPT ![cid[g]] = done[cid[g]]]
    /\ cpc' = [cpc EXCEPT ![g] = "idle"]
    /\ cid' = [cid EXCEPT ![g] = NoAgent]
    /\ UNCHANGED <<queue, pending, retries, timers, todo, workerVars, agentVars, boundVars>>

\* The default branch: the id is dropped, with whatever was announced meanwhile.
Drops(g) ==
    /\ cpc[g] = "full"
    /\ pending' = pending \ {cid[g]}
    /\ dirty' = dirty \ {cid[g]}
    /\ told' = [told EXCEPT ![cid[g]] = done[cid[g]]]
    /\ cpc' = [cpc EXCEPT ![g] = "idle"]
    /\ cid' = [cid EXCEPT ![g] = NoAgent]
    /\ UNCHANGED <<queue, retries, timers, todo, workerVars, agentVars, boundVars>>

-----------------------------------------------------------------------------
(* Who calls Enqueue.                                                      *)

\* The agent, or a resource of it, changes.  That a watch or an API handler will
\* call Enqueue for it is not certain: a watch may be down.
Change(id) ==
    /\ version[id] < MaxChanges
    /\ version' = [version EXCEPT ![id] = @ + 1]
    /\ UNCHANGED <<enqueueVars, retries, timers, todo, workerVars, done, failed, told, boundVars>>

\* consumeWatch with an event, or an API handler after its update.
Notify(g, id) ==
    /\ g # ResyncLoop
    /\ Enqueue(g, id)
    /\ UNCHANGED <<retries, timers, todo, workerVars, agentVars, boundVars>>

\* An AfterFunc fires.
RetryFires(g, id) ==
    /\ g # ResyncLoop /\ timers[id] > 0
    /\ Enqueue(g, id)
    /\ timers' = [timers EXCEPT ![id] = @ - 1]
    /\ UNCHANGED <<retries, todo, workerVars, agentVars, boundVars>>

\* Fault: the resync passes over agents that are already marked failed.
ResyncListsHealthy ==
    /\ todo = {} /\ cpc[ResyncLoop] = "idle"
    /\ todo' = Agents \ failed
    /\ UNCHANGED <<enqueueVars, retries, timers, workerVars, agentVars, told, boundVars>>

\* The ticker: resyncAll lists every agent (a list that fails is no tick) ...
ResyncTick ==
    /\ todo = {} /\ cpc[ResyncLoop] = "idle"
    /\ todo' = Agents
    /\ UNCHANGED <<enqueueVars, retries, timers, workerVars, agentVars, told, boundVars>>

\* ... and enqueues them one after the other.
ResyncNext(id) ==
    /\ id \in todo
    /\ Enqueue(ResyncLoop, id)
    /\ todo' = todo \ {id}
    /\ UNCHANGED <<retries, timers, workerVars, agentVars, boundVars>>

-----------------------------------------------------------------------------
(* worker.                                                                 *)

Take(w) ==
    /\ wpc[w] = "select" /\ queue # << >>
    /\ queue' = Tail(queue)
    /\ wpc' = [wpc EXCEPT ![w] = "took"]
    /\ wid' = [wid EXCEPT ![w] = Head(queue)]
    /\ UNCHANGED <<pending, dirty, cpc, cid, retries, timers, todo, read, agentVars, told, boundVars>>

\* Reconcile begins with GetAny and acts on what it has read.
Reads(w) ==
    /\ wpc[w] = "took"
    /\ wpc' = [wpc EXCEPT ![w] = "reconciling"]
    /\ read' = [read EXCEPT ![w] = version[wid[w]]]
    /\ UNCHANGED <<enqueueVars, retries, timers, todo, wid, agentVars, told, boundVars>>

\* Fault: a dirty id is not queued again.
FinishesClean(w) ==
    LET id == wid[w] IN
    /\ pending' = pending \ {id}
    /\ wpc' = [wpc EXCEPT ![w] = "select"]
    /\ wid' = [wid EXCEPT ![w] = NoAgent]
    /\ dirty' = dirty \ {id}

\* The critical section after a reconciliation without error.
Finishes(w) ==
    LET id == wid[w] IN
    IF id \in dirty
    THEN /\ dirty' = dirty \ {id}
         /\ wpc' = [wpc EXCEPT ![w] = "requeue"]
         /\ UNCHANGED <<pending, wid>>
    ELSE /\ pending' = pending \ {id}
         /\ wpc' = [wpc EXCEPT ![w] = "select"]
         /\ wid' = [wid EXCEPT ![w] = NoAgent]
         /\ UNCHANGED dirty

Succeeds(w) ==
    LET id == wid[w] IN
    /\ wpc[w] = "reconciling"
    /\ Finishes(w)
    /\ retries' = [retries EXCEPT ![id] = 0]
    /\ done' = [done EXCEPT ![id] = read[w]]
    /\ failed' = failed \ {id}
    /\ read' = [read EXCEPT ![w] = 0]
    /\ UNCHANGED <<queue, cpc, cid, timers, todo, version, told, boundVars>>

\* Fault: the send of a dirty id does not wait for room.
RequeuesPastCapacity(w) ==
    /\ wpc[w] = "requeue"
    /\ queue' = Append(queue, wid[w])
    /\ wpc' = [wpc EXCEPT ![w] = "select"]
    /\ wid' = [wid EXCEPT ![w] = NoAgent]
    /\ UNCHANGED <<pending, dirty, cpc, cid, retries, timers, todo, read, agentVars, told, boundVars>>

\* The blocking send of a dirty id: it waits for room.
Requeues(w) ==
    /\ wpc[w] = "requeue" /\ Len(queue) < QueueCap
    /\ queue' = Append(queue, wid[w])
    /\ wpc' = [wpc EXCEPT ![w] = "select"]
    /\ wid' = [wid EXCEPT ![w] = NoAgent]
    /\ UNCHANGED <<pending, dirty, cpc, cid, retries, timers, todo, read, agentVars, told, boundVars>>

\* Fault: an agent whose reconciliation failed stays pending.
GivesKeepingPending(w, id) ==
    /\ wpc[w] = "reconciling" /\ id = wid[w]
    /\ failures < MaxFailures /\ failures' = failures + 1
    /\ dirty' = dirty \ {id}
    /\ retries' = [retries EXCEPT ![id] = @ + 1]
    /\ read' = [read EXCEPT ![w] = 0]
    /\ UNCHANGED <<queue, pending, cpc, cid, todo, agentVars, restarts>>

\* The critical section after an error, common to the two cases below.
Gives(w, id) ==
    /\ wpc[w] = "reconciling" /\ id = wid[w]
    /\ failures < MaxFailures /\ failures' = failures + 1
    /\ pending' = pending \ {id} /\ dirty' = dirty \ {id}
    /\ retries' = [retries EXCEPT ![id] = @ + 1]
    /\ read' = [read EXCEPT ![w] = 0]
    /\ UNCHANGED <<queue, cpc, cid, todo, agentVars, restarts>>

\* An error with retries left: a timer will enqueue the id again.
FailsAndRetries(w) ==
    \E id \in Agents :
        /\ Gives(w, id)
        /\ retries[id] + 1 <= MaxRetries /\ timers[id] < MaxTimers
        /\ timers' = [timers EXCEPT ![id] = @ + 1]
        /\ wpc' = [wpc EXCEPT ![w] = "select"]
        /\ wid' = [wid EXCEPT ![w] = NoAgent]
        /\ UNCHANGED told

\* An error too many.  The id is no longer pending when markRetryExhausted runs.
FailsForGood(w) ==
    \E id \in Agents :
        /\ Gives(w, id)
        /\ retries[id] + 1 > MaxRetries
        /\ wpc' = [wpc EXCEPT ![w] = "exhausted"]
        /\ told' = [told EXCEPT ![id] = done[id]]
        /\ UNCHANGED <<timers, wid>>

\* markRetryExhausted reads the agent.  It stops there if that fails or the agent
\* is to be deleted.
MarkReads(w) ==
    /\ wpc[w] = "exhausted"
    /\ \/ wpc' = [wpc EXCEPT ![w] = "marking"] /\ UNCHANGED wid
       \/ wpc' = [wpc EXCEPT ![w] = "select"] /\ wid' = [wid EXCEPT ![w] = NoAgent]
    /\ UNCHANGED <<enqueueVars, retries, timers, todo, read, agentVars, told, boundVars>>

\* It writes the status it read, changed to failed, whatever happened since.
MarkWrites(w) ==
    /\ wpc[w] = "marking"
    /\ failed' = failed \cup {wid[w]}
    /\ wpc' = [wpc EXCEPT ![w] = "select"]
    /\ wid' = [wid EXCEPT ![w] = NoAgent]
    /\ UNCHANGED <<enqueueVars, retries, timers, todo, read, version, done, told, boundVars>>

\* NewController again: everything the controller knew was in memory.
Afresh ==
    /\ queue' = << >> /\ pending' = {} /\ dirty' = {} /\ todo' = Agents
    /\ retries' = [id \in Agents |-> 0] /\ timers' = [id \in Agents |-> 0]
    /\ cpc' = [g \in Callers |-> "idle"] /\ cid' = [g \in Callers |-> NoAgent]
    /\ wpc' = [w \in Workers |-> "select"] /\ wid' = [w \in Workers |-> NoAgent]
    /\ read' = [w \in Workers |-> 0]

\* The control plane crashes, or Run returns an error, and is started again.
Restart ==
    /\ restarts < MaxRestarts /\ restarts' = restarts + 1
    /\ Afresh
    /\ UNCHANGED <<agentVars, told, failures>>

-----------------------------------------------------------------------------
CallerNext ==
    \/ \E id \in Agents : Change(id) \/ ResyncNext(id)
    \/ \E g \in Callers, id \in Agents : Notify(g, id) \/ RetryFires(g, id)
    \/ \E g \in Callers : Send(g) \/ Drops(g)
    \/ ResyncTick \/ Restart

WorkerNext(w) ==
    \/ Take(w) \/ Reads(w) \/ Succeeds(w) \/ Requeues(w)
    \/ FailsAndRetries(w) \/ FailsForGood(w) \/ MarkReads(w) \/ MarkWrites(w)

Next == CallerNext \/ \E w \in Workers : WorkerNext(w)

Spec == Init /\ [][Next]_vars

(***************************************************************************)
(* Fairness.  Workers and callers are goroutines and run when they can; a  *)
(* send that waits for room in a channel is served in order of arrival, so *)
(* Requeues is strongly fair.  The ticker ticks and armed timers fire.     *)
(* Nothing is assumed of the watches.                                      *)
(***************************************************************************)
\* What a worker does without waiting for another goroutine.
Works(w) ==
    \/ Reads(w) \/ Succeeds(w) \/ FailsAndRetries(w) \/ FailsForGood(w)
    \/ MarkReads(w) \/ MarkWrites(w)

Fairness ==
    /\ WF_vars(ResyncTick \/ \E id \in Agents : ResyncNext(id))
    /\ WF_vars(\E g \in Callers, id \in Agents : RetryFires(g, id))
    /\ \A g \in Callers : WF_vars(Send(g) \/ Drops(g))
    /\ WF_vars(\E w \in Workers : Take(w))
    /\ \A w \in Workers : WF_vars(Works(w)) /\ SF_vars(Requeues(w))

FairSpec == Spec /\ Fairness

-----------------------------------------------------------------------------
(* Safety.                                                                 *)

\* The places from which an id goes on: a caller about to send it, the channel, or
\* a worker that has received it and has not let go of it.
Sender(g, id) == cpc[g] \in {"sending", "full"} /\ cid[g] = id
Holder(w, id) == wpc[w] \in {"took", "reconciling", "requeue"} /\ wid[w] = id
Queued(id) == \E i \in 1..Len(queue) : queue[i] = id

\* No two workers reconcile the same agent at the same time.
OneReconcilePerAgent ==
    \A v, w \in Workers :
        v # w /\ wpc[v] \in {"took", "reconciling"} /\ wpc[w] \in {"took", "reconciling"}
            => wid[v] # wid[w]

\* pending is exact: an id is pending if and only if it is in just one place, once.
\* One that is pending and nowhere is never reconciled again, for every Enqueue
\* only marks it dirty; one that is in two places is reconciled twice at once.
PendingExact ==
    \A id \in Agents :
        /\ id \in pending <=>
              \/ \E g \in Callers : Sender(g, id)
              \/ Queued(id)
              \/ \E w \in Workers : Holder(w, id)
        /\ \A g \in Callers : Sender(g, id) =>
              ~Queued(id) /\ (\A w \in Workers : ~Holder(w, id))
                          /\ (\A k \in Callers : Sender(k, id) => k = g)
        /\ \A w \in Workers : Holder(w, id) =>
              ~Queued(id) /\ (\A v \in Workers : Holder(v, id) => v = w)
        /\ \A i, j \in 1..Len(queue) : queue[i] = id /\ queue[j] = id => i = j

\* A reconciliation that will read id as it is stored now, or a later one.
WillRun(id) ==
    \/ id \in todo \/ timers[id] > 0 \/ Queued(id)
    \/ \E g \in Callers : cpc[g] \in {"sending", "full"} /\ cid[g] = id
    \/ \E w \in Workers : wpc[w] \in {"took", "requeue"} /\ wid[w] = id
    \/ \E w \in Workers :
          wpc[w] = "reconciling" /\ wid[w] = id /\ (id \in dirty \/ read[w] >= told[id])

\* No wakeup is lost: a change that was announced, and not given up with a full
\* channel or an exhausted retry budget, is reconciled or is going to be, whatever
\* the order in which Enqueue, the workers, the timers and a restart took their
\* steps.
NoLostWakeup == \A id \in Agents : told[id] > done[id] => WillRun(id)

-----------------------------------------------------------------------------
(* Liveness.                                                               *)

\* docs/control-plane.md: watches "trigger reconciliation, with a periodic resync
\* as a safety net".  Whatever notifications are lost or dropped, every change is
\* reconciled in the end.
ResyncSafetyNet == \A id \in Agents : done[id] < version[id] ~> done[id] = version[id]

\* A failure is not forever: when reconciliations stop failing, an agent marked
\* failed by a worker that was overtaken is set right again.
FailedRecovers == \A id \in Agents : id \in failed ~> id \notin failed
=============================================================================
