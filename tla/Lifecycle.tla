----------------------------- MODULE Lifecycle ------------------------------
(***************************************************************************)
(* One agent's life: the API handlers that ask for a change                *)
(* (internal/controlplane/server.go), the repository that stores it        *)
(* (internal/kubernetes/repository.go), the reconciler that carries it out *)
(* (reconciler.go), and the Kubernetes objects it works on.                *)
(*                                                                         *)
(* The Agent object is updated with optimistic concurrency: an update made *)
(* with an object that is no longer current is refused.  So a Get followed *)
(* by an Update that succeeds is one step here, and one that is refused    *)
(* changes nothing.  What the handlers and the reconciler read earlier,    *)
(* and act on without that protection, is kept in `req' and `snap'.        *)
(*                                                                         *)
(* A worker reconciles an agent alone (Controller, OneReconcilePerAgent),  *)
(* at any time: reconciliation is level based.  The workers' mark of an    *)
(* exhausted retry budget is made outside of that exclusion.               *)
(***************************************************************************)
EXTENDS Integers

CONSTANTS Clients,       \* concurrent API requests
          Retain,        \* workspace.retentionPolicy = "retain"
          MaxGen,        \* bound: runtime generations
          MaxRequests,   \* bound: API requests
          MaxErrors,     \* bound: failures, of Reconcile, of a start or of a Pod
          MaxMarks       \* bound: exhausted retry budgets

ASSUME LifecycleAssumption ==
    /\ Retain \in BOOLEAN
    /\ MaxGen \in Nat \ {0}
    /\ MaxRequests \in Nat /\ MaxErrors \in Nat /\ MaxMarks \in Nat

VARIABLES
    agent,      \* the Agent object
    claim,      \* its SandboxClaim
    sandbox,    \* the Sandbox of the same name
    pod,        \* the runner Pod of that Sandbox
    pvc,        \* the workspace: none, owned by the Sandbox, or free of owners
    req,        \* each API request between its Get and its update
    rpc,        \* where Reconcile is
    snap,       \* the agent as Reconcile read it
    target,     \* the state Reconcile is about to write
    mark,       \* where markRetryExhausted is
    runtimeSeen,\* the status.runtime markRetryExhausted has read
    asked,      \* history: a DELETE has reached the Agent's spec
    saved,      \* history: a workspace was created before any DELETE
    used        \* how much of each bound is used up

kube == <<claim, sandbox, pod, pvc>>
history == <<asked, saved>>
reconciler == <<rpc, snap, target>>
marker == <<mark, runtimeSeen>>
vars == <<agent, kube, req, reconciler, marker, history, used>>

States == {"unset", "requested", "provisioning", "starting", "running", "reconfiguring",
           "stopping", "stopped", "failed", "deleting"}
Desired == {"running", "stopped", "deleted"}
Ops == {"none", "create", "stop", "resume", "delete", "change"}

Agent == [exists : BOOLEAN, desired : Desired, gen : 1..MaxGen, state : States, runtime : 0..MaxGen]
NoAgent == [exists |-> FALSE, desired |-> "running", gen |-> 1, state |-> "unset", runtime |-> 0]

\* The generation that a claim and its Sandbox were made for, or 0 if the registry has
\* another version or pool of that adapter since.
Claim == [exists : BOOLEAN, gen : 0..MaxGen, assigned : BOOLEAN, ready : BOOLEAN,
          deleting : {"no", "foreground", "orphan"}]
NoClaim == [exists |-> FALSE, gen |-> 0, assigned |-> FALSE, ready |-> FALSE, deleting |-> "no"]
Sandbox == [exists : BOOLEAN, gen : 0..MaxGen, mode : {"Running", "Suspended"},
            suspended : BOOLEAN, owned : BOOLEAN, deleting : BOOLEAN]
NoSandbox == [exists |-> FALSE, gen |-> 0, mode |-> "Running", suspended |-> FALSE,
              owned |-> FALSE, deleting |-> FALSE]
\* `stopped' is whether the Get of a change returned a stopped agent, `spec' whether the
\* spec is written and the status is to follow, `fresh' whether the object that the write
\* of the spec returned is current.  A change of adapter asked for the one that was in place (`same') at generation `seen'.
Request == [op : Ops, stopped : BOOLEAN, same : BOOLEAN, seen : 0..MaxGen,
            spec : BOOLEAN, fresh : BOOLEAN]
NoRequest == [op |-> "none", stopped |-> FALSE, same |-> FALSE, seen |-> 0,
              spec |-> FALSE, fresh |-> FALSE]

\* The stored objects, the generations of the claim and its Sandbox included, are of
\* the kinds declared above.
TypeOK ==
    /\ agent \in Agent /\ claim \in Claim /\ sandbox \in Sandbox
    /\ pod \in {"none", "starting", "ready", "failed"} /\ pvc \in {"none", "owned", "free"}
    /\ req \in [Clients -> Request]
    /\ rpc \in {"idle", "read", "retained", "status"} /\ snap \in Agent /\ target \in States
    /\ mark \in {"none", "due", "read"} /\ runtimeSeen \in 0..MaxGen
    /\ asked \in BOOLEAN /\ saved \in BOOLEAN
    /\ used \in [requests : 0..MaxRequests, errors : 0..MaxErrors, marks : 0..MaxMarks]

Init ==
    /\ agent = NoAgent /\ claim = NoClaim /\ sandbox = NoSandbox
    /\ pod = "none" /\ pvc = "none"
    /\ req = [c \in Clients |-> NoRequest]
    /\ rpc = "idle" /\ snap = NoAgent /\ target = "unset"
    /\ mark = "none" /\ runtimeSeen = 0
    /\ asked = FALSE /\ saved = FALSE
    /\ used = [requests |-> 0, errors |-> 0, marks |-> 0]

-----------------------------------------------------------------------------
(* The API.                                                                *)

\* A write of the Agent object: what other requests have read is out of date.
Stale == [c \in Clients |-> [req[c] EXCEPT !.fresh = FALSE]]

\* Every request that is not itself answered by this step.
Answered(c) == [Stale EXCEPT ![c] = NoRequest]

\* The spec is written for c, whose status is to follow.
Written(c, op) ==
    [Stale EXCEPT ![c] = [NoRequest EXCEPT !.op = op, !.spec = TRUE, !.fresh = TRUE]]

\* createAgent: the object is created, without a status, which reads as requested.
Create(c) ==
    /\ used.requests < MaxRequests /\ used' = [used EXCEPT !.requests = @ + 1]
    /\ req[c] = NoRequest /\ ~agent.exists /\ agent.state = "unset"
    /\ agent' = [NoAgent EXCEPT !.exists = TRUE, !.state = "requested"]
    /\ req' = Written(c, "create")
    /\ UNCHANGED <<kube, reconciler, marker, history>>

CanStop(s) == s \in {"running", "stopping", "stopped"}
CanResume(s) == s \in {"stopped", "provisioning", "starting", "running"}
CanChangeAdapter(s) == s \in {"requested", "provisioning", "starting", "running", "stopped", "failed"}

\* The states from which a request is refused, and those in which there is nothing
\* to do and it is answered at once.
Refused(op, s) ==
    CASE op = "stop" -> ~CanStop(s)
      [] op = "resume" -> ~CanResume(s)
      [] op = "change" -> ~CanChangeAdapter(s)
      [] OTHER -> FALSE

Satisfied(op, s) ==
    CASE op = "stop" -> s \in {"stopping", "stopped"}
      [] op = "resume" -> s # "stopped"
      [] op = "delete" -> s = "deleting"
      [] OTHER -> FALSE

\* mutateAgent and changeAdapter up to the repository's update: Get and the checks.
\* A request that is refused, or that finds nothing to do, changes nothing and is left
\* out.  One for the adapter that is in place is let through in any state.
mutateAgent(c, op, same) ==
    /\ used.requests < MaxRequests /\ used' = [used EXCEPT !.requests = @ + 1]
    /\ req[c] = NoRequest /\ agent.exists
    /\ same => op = "change"
    /\ same \/ ~Refused(op, agent.state)
    /\ ~Satisfied(op, agent.state)
    /\ req' = [req EXCEPT ![c] =
          [NoRequest EXCEPT !.op = op, !.same = same,
                            !.stopped = op = "change" /\ agent.state = "stopped",
                            !.seen = IF op = "change" THEN agent.gen ELSE 0]]
    /\ UNCHANGED <<agent, kube, reconciler, marker, history>>

\* The repository's own Get finds the agent, and an If-Match that was sent still matches.
Current(c) == agent.exists /\ ~req[c].spec

DesiredBy(op) == CASE op = "stop" -> "stopped" [] op = "resume" -> "running" [] op = "delete" -> "deleted"
StateBy(op) ==
    CASE op = "create" -> "requested" [] op = "stop" -> "stopping" [] op = "resume" -> "provisioning"
      [] op = "delete" -> "deleting" [] OTHER -> "reconfiguring"   \* change

\* SetDesired writes the spec ...
SetDesired(c) ==
    /\ req[c].op \in {"stop", "resume", "delete"} /\ Current(c)
    /\ agent' = [agent EXCEPT !.desired = DesiredBy(req[c].op)]
    /\ asked' = (asked \/ req[c].op = "delete")
    /\ req' = Written(c, req[c].op)
    /\ UNCHANGED <<kube, reconciler, marker, saved, used>>

\* ... as does ChangeAdapter, if the adapter asked for is not the one now in place, after
\* which a stopped agent's status is left alone.  Every generation has an adapter other
\* than the one before it.
ChangeAdapter(c) ==
    /\ req[c].op = "change" /\ Current(c)
    /\ req[c].same => agent.gen # req[c].seen
    /\ agent.gen < MaxGen
    /\ agent' = [agent EXCEPT !.gen = @ + 1]
    /\ req' = IF req[c].stopped THEN Answered(c) ELSE Written(c, "change")
    /\ UNCHANGED <<kube, reconciler, marker, history, used>>

\* updateStatusObject, with the object the write of the spec returned.  It is refused
\* if the object was touched since, and the spec stays as it is.
UpdateStatus(c, ok) ==
    /\ req[c].spec
    /\ IF ok THEN /\ agent.exists /\ req[c].fresh
                  /\ agent' = [agent EXCEPT !.state = StateBy(req[c].op)]
                  /\ req' = Answered(c)
             ELSE UNCHANGED agent /\ req' = [req EXCEPT ![c] = NoRequest]
    /\ UNCHANGED <<kube, reconciler, marker, history, used>>

\* 404, 412, a conflict, or an adapter that is in place: nothing is written.  As every
\* request may fail, those with an If-Match do nothing that others do not.
RequestFails(c) ==
    /\ req[c].op # "none" /\ ~req[c].spec
    /\ req' = [req EXCEPT ![c] = NoRequest]
    /\ UNCHANGED <<agent, kube, reconciler, marker, history, used>>

-----------------------------------------------------------------------------
(* Reconcile.  Each case changes at most one Kubernetes object and then    *)
(* goes on to write a state.                                               *)

ReconcileReads ==
    /\ rpc = "idle" /\ agent.exists
    /\ rpc' = "read" /\ snap' = agent
    /\ UNCHANGED <<agent, kube, req, target, marker, history, used>>

\* Reconcile has chosen the state it will report.
Reports(s) ==
    /\ rpc' = "status" /\ target' = s
    /\ UNCHANGED <<agent, snap, req, marker, history, used>>

Running == rpc = "read" /\ snap.desired = "running"

\* A failure, within the bound.
Failure == used.errors < MaxErrors /\ used' = [used EXCEPT !.errors = @ + 1]

\* A provisioning timeout, an adapter or profile that is not installed, a failed claim.
RunFails ==
    /\ Running /\ Failure
    /\ rpc' = "status" /\ target' = "failed"
    /\ UNCHANGED <<agent, kube, snap, req, marker, history>>

\* Fault: the old Sandbox is deleted with what it owns.
ReleasesSandboxCascading ==
    sandbox' = NoSandbox /\ pod' = "none" /\ pvc' = IF pvc = "owned" THEN "none" ELSE pvc

\* Deletion with orphan propagation; the Sandbox goes when Kubernetes is done.
ReleasesSandbox == sandbox' = [sandbox EXCEPT !.deleting = TRUE] /\ UNCHANGED <<pod, pvc>>

\* A Sandbox is left of the claim that is being replaced; the status alone says so.
ToRelease == snap.state = "reconfiguring" /\ sandbox.exists

\* No claim, and one is being replaced: the old Sandbox is to let go of the PVC.
RunReleases ==
    /\ Running /\ ~claim.exists
    /\ ToRelease
    /\ ReleasesSandbox
    /\ Reports("reconfiguring") /\ UNCHANGED claim

\* Fault: the claim is made for a generation nobody asked for.
RunCreatesAhead ==
    /\ Running /\ ~claim.exists
    /\ ~ToRelease
    /\ claim' = [NoClaim EXCEPT !.exists = TRUE, !.gen = snap.gen + 1]
    /\ Reports("provisioning") /\ UNCHANGED <<sandbox, pod, pvc>>

\* No claim and no Sandbox in the way of one.
RunCreates ==
    /\ Running /\ ~claim.exists
    /\ ~ToRelease
    /\ claim' = [NoClaim EXCEPT !.exists = TRUE, !.gen = snap.gen]
    /\ Reports("provisioning") /\ UNCHANGED <<sandbox, pod, pvc>>

\* The old Sandbox has stopped, or is not there.
Drained == sandbox.exists => sandbox.suspended

\* Fault: another version or pool in the registry makes no difference.
MatchesAnyVersion == claim.gen \in {0, snap.gen}

\* The claim is of the runtime that the agent's generation has in the registry.
claimMatchesRuntime == claim.gen = snap.gen

\* reconcileRuntimeReplacement.
Replaced == Running /\ claim.exists /\ ~claimMatchesRuntime

ReplaceWaits ==
    /\ Replaced /\ claim.deleting # "no"
    /\ Reports("reconfiguring") /\ UNCHANGED kube

ReplaceDrains ==
    /\ Replaced /\ claim.deleting = "no" /\ ~Drained
    /\ sandbox' = [sandbox EXCEPT !.mode = "Suspended"]
    /\ Reports("reconfiguring") /\ UNCHANGED <<claim, pod, pvc>>

ReplaceDeletes ==
    /\ Replaced /\ claim.deleting = "no" /\ Drained
    /\ claim' = [claim EXCEPT !.deleting = "orphan"]
    /\ Reports("reconfiguring") /\ UNCHANGED <<sandbox, pod, pvc>>

Matched == Running /\ claim.exists /\ claimMatchesRuntime
HasSandbox == claim.exists /\ claim.assigned /\ sandbox.exists

RunResumes ==
    /\ Matched /\ HasSandbox /\ sandbox.mode = "Suspended"
    /\ sandbox' = [sandbox EXCEPT !.mode = "Running"]
    /\ Reports("starting") /\ UNCHANGED <<claim, pod, pvc>>

\* The claim reports Ready as well as the Pod.
Ready == claim.ready /\ pod = "ready"

\* What there is to wait for, or that there is nothing more.
RunObserves ==
    /\ Matched
    /\ HasSandbox => sandbox.mode = "Running"
    /\ Reports(CASE ~HasSandbox -> "provisioning"
                 [] HasSandbox /\ pod # "failed" /\ ~Ready -> "starting"
                 [] HasSandbox /\ pod = "failed" -> "failed"
                 [] HasSandbox /\ Ready -> "running")
    /\ UNCHANGED kube

\* reconcileStopped.
Stopping == rpc = "read" /\ snap.desired = "stopped"

StopObserves ==
    /\ Stopping
    /\ HasSandbox => sandbox.suspended
    /\ Reports("stopped") /\ UNCHANGED kube

StopSuspends ==
    /\ Stopping /\ HasSandbox /\ ~sandbox.suspended
    /\ sandbox' = [sandbox EXCEPT !.mode = "Suspended"]
    /\ Reports("stopping") /\ UNCHANGED <<claim, pod, pvc>>

\* reconcileDelete, first retainPVCs ...
DeleteRetains ==
    /\ rpc = "read" /\ snap.desired = "deleted"
    /\ rpc' = "retained"
    /\ pvc' = IF Retain /\ pvc = "owned" THEN "free" ELSE pvc
    /\ UNCHANGED <<agent, claim, sandbox, pod, req, snap, target, marker, history, used>>

\* ... then the claim.  What a second deletion with another policy does to one that
\* is under way is up to Kubernetes.
DeleteClaim ==
    /\ rpc = "retained" /\ claim.exists
    /\ \E d \in {claim.deleting, "foreground"} \ {"no"} : claim' = [claim EXCEPT !.deleting = d]
    /\ Reports("deleting") /\ UNCHANGED <<sandbox, pod, pvc>>

\* Fault: the agent is given up as soon as its claim is being deleted.
ClaimGoneEarly == ~claim.exists \/ claim.deleting # "no"

ClaimGone == ~claim.exists

\* FinalizeDelete.  Identifiers are not used again.
FinalizeDelete ==
    /\ rpc = "retained" /\ ClaimGone
    /\ agent' = [NoAgent EXCEPT !.state = "deleting"]
    /\ req' = Stale
    /\ rpc' = "idle" /\ snap' = NoAgent
    /\ UNCHANGED <<kube, target, marker, history, used>>

\* transition: nothing is written if the status would not change (its reason may).
ReconcileWrites ==
    /\ rpc = "status"
    /\ \/ /\ agent' = [agent EXCEPT !.state = target,
                                    !.runtime = IF target = "running" THEN snap.gen ELSE snap.runtime]
          /\ req' = Stale
       \/ snap.state = target /\ UNCHANGED <<agent, req>>
    /\ rpc' = "idle" /\ snap' = NoAgent /\ target' = "unset"
    /\ UNCHANGED <<kube, marker, history, used>>

\* A call to Kubernetes fails, an update is refused, or the control plane restarts.
\* An error too many makes the worker call markRetryExhausted.
ReconcileFails(exhausted) ==
    /\ rpc # "idle"
    /\ used.errors < MaxErrors
    /\ exhausted => mark = "none" /\ used.marks < MaxMarks
    /\ used' = [used EXCEPT !.errors = @ + 1, !.marks = IF exhausted THEN @ + 1 ELSE @]
    /\ mark' = IF exhausted THEN "due" ELSE mark
    /\ rpc' = "idle" /\ snap' = NoAgent /\ target' = "unset"
    /\ UNCHANGED <<agent, kube, req, runtimeSeen, history>>

\* The control plane is restarted with another adapter registry: requests,
\* reconciliations and marks under way are gone, and no claim matches.
Upgrade ==
    /\ Failure
    /\ claim' = [claim EXCEPT !.gen = 0] /\ sandbox' = [sandbox EXCEPT !.gen = 0]
    /\ req' = [c \in Clients |-> NoRequest]
    /\ rpc' = "idle" /\ snap' = NoAgent /\ target' = "unset"
    /\ mark' = "none" /\ runtimeSeen' = 0
    /\ UNCHANGED <<agent, pod, pvc, history>>

MarkReads ==
    /\ mark = "due"
    /\ IF agent.exists /\ agent.desired # "deleted"
       THEN mark' = "read" /\ runtimeSeen' = agent.runtime
       ELSE mark' = "none" /\ UNCHANGED runtimeSeen
    /\ UNCHANGED <<agent, kube, req, reconciler, history, used>>

MarkWrites ==
    /\ mark = "read"
    /\ IF agent.exists
       THEN /\ agent' = [agent EXCEPT !.state = "failed", !.runtime = runtimeSeen]
            /\ req' = Stale
       ELSE UNCHANGED <<agent, req>>
    /\ mark' = "none" /\ runtimeSeen' = 0
    /\ UNCHANGED <<kube, reconciler, history, used>>

-----------------------------------------------------------------------------
(* Kubernetes and Agent Sandbox, as the reconciler relies on them.         *)

control == <<agent, req, reconciler, marker, used>>

\* The claim gets the Sandbox of its name: one that has no owner is adopted as it
\* is, otherwise one is made.  It takes the PVC of its name if there is one.
ClaimAssigns ==
    /\ claim.exists /\ claim.deleting = "no" /\ ~claim.assigned /\ ~sandbox.deleting
    /\ claim' = [claim EXCEPT !.assigned = TRUE]
    /\ sandbox' = IF sandbox.exists THEN [sandbox EXCEPT !.owned = TRUE]
                  ELSE [NoSandbox EXCEPT !.exists = TRUE, !.gen = claim.gen, !.owned = TRUE]
    /\ pvc' = IF sandbox.exists THEN pvc ELSE "owned"
    /\ saved' = (saved \/ ~asked)
    /\ UNCHANGED <<control, pod, asked>>

PodStarts ==
    /\ sandbox.exists /\ ~sandbox.deleting /\ sandbox.mode = "Running" /\ pod = "none"
    /\ pod' = "starting" /\ sandbox' = [sandbox EXCEPT !.suspended = FALSE]
    /\ UNCHANGED <<control, claim, pvc, history>>

PodReady ==
    /\ pod = "starting" /\ pod' = "ready"
    /\ UNCHANGED <<control, claim, sandbox, pvc, history>>

\* The claim's Ready condition follows its Sandbox's Pod.
ClaimReports ==
    /\ claim.exists /\ claim.ready # (HasSandbox /\ pod = "ready")
    /\ claim' = [claim EXCEPT !.ready = ~@]
    /\ UNCHANGED <<control, sandbox, pod, pvc, history>>

PodFails ==
    /\ Failure /\ pod \in {"starting", "ready"} /\ pod' = "failed"
    /\ UNCHANGED <<agent, req, reconciler, marker, claim, sandbox, pvc, history>>

SandboxSuspends ==
    /\ sandbox.exists /\ sandbox.mode = "Suspended" /\ ~sandbox.suspended
    /\ pod' = "none" /\ sandbox' = [sandbox EXCEPT !.suspended = TRUE]
    /\ UNCHANGED <<control, claim, pvc, history>>

\* Orphan propagation.
ClaimReleased ==
    /\ claim.deleting = "orphan"
    /\ claim' = NoClaim /\ sandbox' = [sandbox EXCEPT !.owned = FALSE]
    /\ UNCHANGED <<control, pod, pvc, history>>

SandboxReleased ==
    /\ sandbox.deleting
    /\ sandbox' = NoSandbox /\ pvc' = IF pvc = "owned" THEN "free" ELSE pvc
    /\ UNCHANGED <<control, claim, pod, history>>

\* Foreground propagation: what the claim owns goes first.
SandboxCollected ==
    /\ claim.deleting = "foreground" /\ sandbox.exists /\ sandbox.owned
    /\ sandbox' = NoSandbox /\ pod' = "none" /\ pvc' = IF pvc = "owned" THEN "none" ELSE pvc
    /\ UNCHANGED <<control, claim, history>>

ClaimCollected ==
    /\ claim.deleting = "foreground" /\ ~(sandbox.exists /\ sandbox.owned)
    /\ claim' = NoClaim
    /\ UNCHANGED <<control, sandbox, pod, pvc, history>>

-----------------------------------------------------------------------------
ApiNext(c) ==
    \/ Create(c) \/ SetDesired(c) \/ ChangeAdapter(c) \/ RequestFails(c)
    \/ \E op \in {"stop", "resume", "delete", "change"}, same \in BOOLEAN :
          mutateAgent(c, op, same)
    \/ \E ok \in BOOLEAN : UpdateStatus(c, ok)

ReconcileNext ==
    \/ ReconcileReads \/ RunFails \/ RunReleases \/ RunCreates
    \/ ReplaceWaits \/ ReplaceDrains \/ ReplaceDeletes \/ RunResumes \/ RunObserves
    \/ StopObserves \/ StopSuspends
    \/ DeleteRetains \/ DeleteClaim \/ FinalizeDelete \/ ReconcileWrites

MarkNext == MarkReads \/ MarkWrites

KubeNext ==
    \/ ClaimAssigns \/ PodStarts \/ PodReady \/ ClaimReports \/ PodFails \/ SandboxSuspends
    \/ ClaimReleased \/ SandboxReleased \/ SandboxCollected \/ ClaimCollected

Next ==
    \/ \E c \in Clients : ApiNext(c)
    \/ ReconcileNext \/ (\E x \in BOOLEAN : ReconcileFails(x)) \/ Upgrade \/ MarkNext \/ KubeNext

Spec == Init /\ [][Next]_vars

\* Fairness.  The resync reconciles every agent again and again, whatever else
\* happens (Controller, ResyncSafetyNet); a worker that has begun goes on; the
\* Kubernetes controllers do their work.  Nobody has to send a request, and nothing
\* has to fail.
Fairness ==
    /\ WF_vars(ReconcileNext) /\ WF_vars(MarkNext)
    /\ WF_vars(ClaimAssigns) /\ WF_vars(PodStarts) /\ WF_vars(PodReady)
    /\ WF_vars(ClaimReports) /\ WF_vars(SandboxSuspends)
    /\ WF_vars(ClaimReleased) /\ WF_vars(SandboxReleased)
    /\ WF_vars(SandboxCollected) /\ WF_vars(ClaimCollected)

FairSpec == Spec /\ Fairness

-----------------------------------------------------------------------------
(* Safety.                                                                 *)

\* There is no claim without its agent, so the sweep for orphan claims (which does
\* not honour `retain') has nothing to do: an agent is given up only after its claim
\* is gone, and no claim is created after that.
NoOrphanClaim == claim.exists => agent.exists

\* The workspace outlives stop, resume, adapter changes, failures and restarts: it
\* goes only if the agent's deletion was asked for (docs/workspaces.md, "Retention
\* and recovery").
WorkspaceKept == saved /\ ~asked => pvc # "none"

-----------------------------------------------------------------------------
(* Liveness.                                                               *)

\* The agent is as desired: gone; reported stopped, when a claim it may have has its
\* Sandbox suspended; or reported running, when the Sandbox is of the generation asked
\* for.  A Pod that failed is reported instead.
Carried(desired) ==
    CASE desired = "deleted" -> ~agent.exists
      [] desired = "stopped" -> /\ agent.state = "stopped"
                                /\ claim.exists => HasSandbox /\ sandbox.suspended
      [] desired = "running" -> /\ HasSandbox /\ {claim.gen, sandbox.gen} = {agent.gen}
                                /\ \/ agent.state = "running" /\ agent.runtime = agent.gen /\ Ready
                                   \/ agent.state = "failed" /\ pod = "failed"

\* Reconcile finds the Sandbox that a replacement has left and a status that no longer
\* tells of one: the new claim will adopt it as it is.
Forgotten == Running /\ ~claim.exists /\ sandbox.exists /\ snap.state # "reconfiguring"

\* What is desired of an agent in the end is carried out for good, in whatever state of a
\* start, stop, deletion, adapter change or upgrade the request finds it and whatever
\* overwrites its status meanwhile.  The one exception: of a replacement that is forgotten
\* half-way the new runtime is not promised, against docs/control-plane.md ("drain the
\* old Sandbox and create a new runtime generation").
RequestsComplete ==
    \A d \in Desired :
        /\ <>[](agent.exists => agent.desired = d)
        /\ d = "running" => []~Forgotten
        => <>[](agent.exists => Carried(d))

-----------------------------------------------------------------------------
(* What the documentation says, where the code does otherwise.             *)

\* docs/workspaces.md: "`delete`: Agent deletion removes the claim, Sandbox, Pod,
\* Service, and PVC."  Once the agent is gone nobody is left to remove a Sandbox
\* that no claim owns.
DeleteRemovesAll == ~agent.exists => ~(sandbox.exists /\ ~sandbox.owned /\ ~sandbox.deleting)
=============================================================================
