-------------------------- MODULE LifecycleProofs ---------------------------
(***************************************************************************)
(* One agent's life, for any number of concurrent requests, any number of  *)
(* runtime generations and any number of failures: a claim never outlives  *)
(* its agent, and the workspace is lost only if deletion was asked for.    *)
(***************************************************************************)
EXTENDS Lifecycle, TLAPS

\* Reconcile runs for an agent that exists, and only a snapshot of an agent to be
\* deleted gets as far as its claim.
Reconciling ==
    /\ rpc # "idle" => agent.exists
    /\ rpc = "retained" => snap.desired = "deleted"

\* Whatever leads to a deletion in the foreground was asked for.
Asked ==
    /\ agent.desired = "deleted" => asked
    /\ snap.desired = "deleted" => asked
    /\ claim.deleting = "foreground" => asked

\* A Sandbox has a workspace, and is not deleted while it is assigned to a claim
\* that is about to get one.
HasWorkspace == sandbox.exists /\ ~asked => saved

IInv == TypeOK /\ Reconciling /\ Asked /\ HasWorkspace /\ NoOrphanClaim /\ WorkspaceKept

-----------------------------------------------------------------------------
\* The initial state.
LEMMA InitIInv == Init => IInv
<1> SUFFICES ASSUME Init PROVE IInv
  OBVIOUS
<1> USE LifecycleAssumption
<1>1. agent \in Agent /\ snap \in Agent /\ claim \in Claim /\ sandbox \in Sandbox
  BY DEF Init, Agent, Claim, Sandbox, NoAgent, NoClaim, NoSandbox, States, Desired
<1>2. req \in [Clients -> Request]
  BY DEF Init, NoRequest, Request, States, Ops
<1>3. used \in [requests : 0..MaxRequests, errors : 0..MaxErrors, marks : 0..MaxMarks]
      /\ runtimeSeen \in 0..MaxGen
  BY DEF Init
<1>4. TypeOK  BY <1>1, <1>2, <1>3 DEF Init, TypeOK, States
<1>5. Reconciling /\ Asked /\ HasWorkspace /\ NoOrphanClaim /\ WorkspaceKept
  BY DEF Init, Reconciling, Asked, HasWorkspace, NoOrphanClaim, WorkspaceKept, NoAgent, NoClaim, NoSandbox
<1> QED BY <1>4, <1>5 DEF IInv

\* A failure is counted within its bound.
LEMMA FailureType ==
    ASSUME TypeOK, Failure
    PROVE  used' \in [requests : 0..MaxRequests, errors : 0..MaxErrors, marks : 0..MaxMarks]
<1>1. used \in [requests : 0..MaxRequests, errors : 0..MaxErrors, marks : 0..MaxMarks]
  BY DEF TypeOK
<1>2. used.errors + 1 \in 0..MaxErrors  BY <1>1, LifecycleAssumption DEF Failure
<1> QED BY <1>1, <1>2 DEF Failure

\* What a write of the Agent leaves of the requests.
LEMMA StaleType ==
    ASSUME TypeOK
    PROVE  /\ Stale \in [Clients -> Request]
           /\ \A c \in Clients : Answered(c) \in [Clients -> Request]
           /\ \A c \in Clients, op \in Ops : Written(c, op) \in [Clients -> Request]
<1>1. Stale \in [Clients -> Request]  BY DEF TypeOK, Stale, Request
<1>2. NoRequest \in Request  BY LifecycleAssumption DEF NoRequest, Request, States, Ops
<1>3. \A op \in Ops :
        [NoRequest EXCEPT !.op = op, !.spec = TRUE, !.fresh = TRUE] \in Request
  BY <1>2 DEF Request
<1> QED BY <1>1, <1>2, <1>3 DEF Answered, Written

\* The API handlers.
LEMMA ApiStep ==
    ASSUME IInv, NEW c \in Clients, ApiNext(c)
    PROVE  IInv'
<1> USE LifecycleAssumption DEF kube, history, reconciler, marker
<1>0. /\ TypeOK /\ agent \in Agent /\ NoRequest \in Request
      /\ Stale \in [Clients -> Request] /\ Answered(c) \in [Clients -> Request]
      /\ \A op \in Ops : Written(c, op) \in [Clients -> Request]
  BY StaleType DEF IInv, TypeOK, NoRequest, Request, States, Ops
<1> DEFINE Rest == Reconciling' /\ Asked' /\ HasWorkspace' /\ NoOrphanClaim' /\ WorkspaceKept'
<1>1. CASE Create(c)
  <2>1. agent' = [exists |-> TRUE, desired |-> "running", gen |-> 1, state |-> "requested", runtime |-> 0]
    BY <1>1 DEF Create, NoAgent
  <2>2. TypeOK'
    <3>1. agent' \in Agent  BY <2>1 DEF Agent, States, Desired
    <3>2. req' \in [Clients -> Request]  BY <1>0, <1>1 DEF Create, Ops
    <3>3. used' \in [requests : 0..MaxRequests, errors : 0..MaxErrors, marks : 0..MaxMarks]
      BY <1>0, <1>1 DEF Create, TypeOK
    <3> QED BY <3>1, <3>2, <3>3, <1>0, <1>1 DEF Create, TypeOK
  <2>3. Rest
    BY <2>1, <1>1 DEF Create, IInv, Reconciling, Asked, HasWorkspace, NoOrphanClaim, WorkspaceKept
  <2> QED BY <2>2, <2>3 DEF IInv
<1>2. CASE RequestFails(c)
  <2>1. TypeOK'  BY <1>0, <1>2 DEF RequestFails, TypeOK
  <2>2. Rest
    BY <1>2 DEF RequestFails, IInv, Reconciling, Asked, HasWorkspace, NoOrphanClaim, WorkspaceKept
  <2> QED BY <2>1, <2>2 DEF IInv
<1>3. ASSUME NEW op \in {"stop", "resume", "delete", "change"},
             NEW same \in BOOLEAN, mutateAgent(c, op, same)
      PROVE  IInv'
  <2>1. TypeOK'
    <3>1. req' \in [Clients -> Request]
      <4>1. (op = "change" /\ agent.state = "stopped") \in BOOLEAN  OBVIOUS
      <4>2. (IF op = "change" THEN agent.gen ELSE 0) \in 0..MaxGen  BY <1>0 DEF Agent
      <4>3. [NoRequest EXCEPT !.op = op, !.same = same,
                              !.stopped = op = "change" /\ agent.state = "stopped",
                              !.seen = IF op = "change" THEN agent.gen ELSE 0] \in Request
        BY <4>1, <4>2 DEF Request, NoRequest, Ops
      <4> QED BY <4>3, <1>0, <1>3 DEF mutateAgent, TypeOK
    <3>2. used' \in [requests : 0..MaxRequests, errors : 0..MaxErrors, marks : 0..MaxMarks]
      BY <1>0, <1>3 DEF mutateAgent, TypeOK
    <3> QED BY <3>1, <3>2, <1>0, <1>3 DEF mutateAgent, TypeOK
  <2>2. Rest
    BY <1>3 DEF mutateAgent, IInv, Reconciling, Asked, HasWorkspace, NoOrphanClaim, WorkspaceKept
  <2> QED BY <2>1, <2>2 DEF IInv
<1>4. CASE SetDesired(c)
  <2>1. DesiredBy(req[c].op) \in Desired /\ req[c].op \in Ops
        /\ (DesiredBy(req[c].op) = "deleted" => req[c].op = "delete")
    BY <1>4 DEF SetDesired, DesiredBy, Desired, Ops
  <2>2. agent' \in Agent /\ agent'.exists = agent.exists /\ agent'.desired = DesiredBy(req[c].op)
    BY <2>1, <1>0, <1>4 DEF SetDesired, Agent
  <2>3. asked' = (asked \/ req[c].op = "delete")  BY <1>4 DEF SetDesired
  <2>4. asked' \in BOOLEAN  BY <2>3, Zenon
  <2>5. TypeOK'  BY <2>1, <2>2, <2>4, <1>0, <1>4 DEF SetDesired, TypeOK
  <2>6. Rest
    BY <2>1, <2>2, <2>3, <1>4
    DEF SetDesired, IInv, Reconciling, Asked, HasWorkspace, NoOrphanClaim, WorkspaceKept
  <2> QED BY <2>5, <2>6 DEF IInv
<1>5. CASE ChangeAdapter(c)
  <2>1. agent' \in Agent /\ agent'.exists = agent.exists /\ agent'.desired = agent.desired
    <3>1. agent.gen + 1 \in 1..MaxGen  BY <1>0, <1>5 DEF ChangeAdapter, Agent
    <3> QED BY <3>1, <1>0, <1>5 DEF ChangeAdapter, Agent
  <2>2. TypeOK'  BY <2>1, <1>0, <1>5 DEF ChangeAdapter, TypeOK, Ops
  <2>3. Rest
    BY <2>1, <1>5 DEF ChangeAdapter, IInv, Reconciling, Asked, HasWorkspace, NoOrphanClaim, WorkspaceKept
  <2> QED BY <2>2, <2>3 DEF IInv
<1>6. ASSUME NEW ok \in BOOLEAN, UpdateStatus(c, ok) PROVE IInv'
  <2>1. agent' \in Agent /\ agent'.exists = agent.exists /\ agent'.desired = agent.desired
    <3>1. CASE ok
      <4>1. StateBy(req[c].op) \in States  BY DEF StateBy, States
      <4>2. agent' = [agent EXCEPT !.state = StateBy(req[c].op)]  BY <1>6, <3>1 DEF UpdateStatus
      <4> QED BY <4>1, <4>2, <1>0 DEF Agent
    <3>2. CASE ~ok  BY <3>2, <1>0, <1>6 DEF UpdateStatus
    <3> QED BY <3>1, <3>2
  <2>2. req' \in [Clients -> Request]  BY <1>0, <1>6 DEF UpdateStatus, TypeOK
  <2>3. TypeOK'  BY <2>1, <2>2, <1>0, <1>6 DEF UpdateStatus, TypeOK
  <2>4. Rest
    BY <2>1, <1>6 DEF UpdateStatus, IInv, Reconciling, Asked, HasWorkspace, NoOrphanClaim, WorkspaceKept
  <2> QED BY <2>3, <2>4 DEF IInv
<1> QED BY <1>1, <1>2, <1>3, <1>4, <1>5, <1>6 DEF ApiNext

\* What a step that goes on to report a state keeps: it leaves the agent, what was
\* asked for and whether the workspace is saved alone, and must look after the rest.
LEMMA ReportStep ==
    ASSUME IInv, rpc # "idle", NEW s \in States, Reports(s),
           claim' \in Claim, sandbox' \in Sandbox,
           pod' = pod, pvc' = pvc,
           claim'.deleting = "foreground" => asked,
           sandbox'.exists => sandbox.exists
    PROVE  IInv'
<1> USE DEF kube, history, reconciler, marker
<1>1. TypeOK'  BY DEF IInv, TypeOK, Reports
<1>2. Reconciling' /\ Asked' /\ HasWorkspace' /\ NoOrphanClaim' /\ WorkspaceKept'
  BY DEF IInv, Reports, Reconciling, Asked, HasWorkspace, NoOrphanClaim, WorkspaceKept
<1> QED BY <1>1, <1>2 DEF IInv

\* Reconcile, up to the write of the state.
LEMMA ReconcileStep ==
    ASSUME IInv, ReconcileNext
    PROVE  IInv'
<1> USE LifecycleAssumption DEF kube, history, reconciler, marker
<1>0. /\ TypeOK /\ agent \in Agent /\ snap \in Agent /\ claim \in Claim /\ sandbox \in Sandbox
      /\ Stale \in [Clients -> Request] /\ NoAgent \in Agent
      /\ claim.deleting = "foreground" => asked
  BY StaleType DEF IInv, Asked, TypeOK, NoAgent, Agent, Desired, States
<1> DEFINE Rest == Reconciling' /\ Asked' /\ HasWorkspace' /\ NoOrphanClaim' /\ WorkspaceKept'
<1>1. CASE ReconcileReads
  <2>1. TypeOK'  BY <1>0, <1>1 DEF ReconcileReads, TypeOK
  <2>2. Rest
    BY <1>1 DEF ReconcileReads, IInv, Reconciling, Asked, HasWorkspace, NoOrphanClaim, WorkspaceKept
  <2> QED BY <2>1, <2>2 DEF IInv
<1>2a. CASE RunFails
  <2>1. used' \in [requests : 0..MaxRequests, errors : 0..MaxErrors, marks : 0..MaxMarks]
    BY <1>2a, <1>0, FailureType DEF RunFails, TypeOK
  <2>2. TypeOK'  BY <2>1, <1>0, <1>2a DEF RunFails, TypeOK, States
  <2>3. Rest
    BY <1>2a DEF RunFails, Running, IInv, Reconciling, Asked, HasWorkspace, NoOrphanClaim, WorkspaceKept
  <2> QED BY <2>2, <2>3 DEF IInv
<1>2. CASE ReplaceWaits \/ StopObserves \/ RunObserves
  <2>1. PICK s \in States : rpc # "idle" /\ Reports(s) /\ UNCHANGED kube
    <3>1. CASE ReplaceWaits \/ StopObserves
      BY <3>1 DEF ReplaceWaits, StopObserves, Running, Replaced, Stopping, States
    <3>2. CASE RunObserves
      <4>1. \/ ~HasSandbox
            \/ HasSandbox /\ pod # "failed" /\ ~Ready
            \/ HasSandbox /\ pod = "failed"
            \/ HasSandbox /\ pod # "failed" /\ Ready
        OBVIOUS
      <4> QED BY <3>2, <4>1 DEF RunObserves, Matched, Running, States, Ready
    <3> QED BY <1>2, <3>1, <3>2
  <2> QED BY <2>1, <1>0, ReportStep
<1>3. CASE RunReleases
  <2>1. sandbox' \in Sandbox /\ (sandbox'.exists => sandbox.exists)
    BY <1>0, <1>3 DEF RunReleases, ReleasesSandbox, Sandbox
  <2>2. rpc # "idle" /\ "reconfiguring" \in States /\ Reports("reconfiguring")
        /\ claim' = claim /\ pod' = pod /\ pvc' = pvc
    BY <1>3 DEF RunReleases, ReleasesSandbox, Running, States
  <2> QED BY <2>1, <2>2, <1>0, ReportStep
<1>4. CASE RunCreates
  <2>1. claim' \in Claim /\ claim'.deleting = "no"
    <3>1. snap.gen \in 0..MaxGen  BY <1>0 DEF Agent
    <3>2. NoClaim \in Claim /\ NoClaim.deleting = "no"
      BY DEF NoClaim, Claim
    <3> QED BY <3>1, <3>2, <1>4 DEF RunCreates, Claim
  <2>2. rpc # "idle" /\ "provisioning" \in States /\ Reports("provisioning")
        /\ sandbox' = sandbox /\ pod' = pod /\ pvc' = pvc
    BY <1>4 DEF RunCreates, Running, States
  <2> QED BY <2>1, <2>2, <1>0, ReportStep
<1>5. CASE ReplaceDrains \/ RunResumes \/ StopSuspends
  <2>1. PICK s \in States : Reports(s)
    BY <1>5 DEF ReplaceDrains, RunResumes, StopSuspends, States
  <2>2. sandbox' \in Sandbox /\ (sandbox'.exists => sandbox.exists)
    BY <1>0, <1>5 DEF ReplaceDrains, RunResumes, StopSuspends, Sandbox
  <2>3. rpc # "idle" /\ claim' = claim /\ pod' = pod /\ pvc' = pvc
    BY <1>5 DEF ReplaceDrains, RunResumes, StopSuspends, Replaced, Matched, Running, Stopping
  <2> QED BY <2>1, <2>2, <2>3, <1>0, ReportStep
<1>6. CASE ReplaceDeletes
  <2>1. claim' \in Claim /\ claim'.deleting = "orphan"
    BY <1>0, <1>6 DEF ReplaceDeletes, Claim
  <2>2. rpc # "idle" /\ "reconfiguring" \in States /\ Reports("reconfiguring")
        /\ sandbox' = sandbox /\ pod' = pod /\ pvc' = pvc
    BY <1>6 DEF ReplaceDeletes, Replaced, Running, States
  <2> QED BY <2>1, <2>2, <1>0, ReportStep
<1>7. CASE DeleteRetains
  <2>1. TypeOK'  BY <1>0, <1>7 DEF DeleteRetains, TypeOK
  <2>2. Rest
    BY <1>7 DEF DeleteRetains, IInv, Reconciling, Asked, HasWorkspace, NoOrphanClaim, WorkspaceKept
  <2> QED BY <2>1, <2>2 DEF IInv
<1>8. CASE DeleteClaim
  <2>1. claim' \in Claim  BY <1>0, <1>8 DEF DeleteClaim, Claim
  <2>2. asked  BY <1>8 DEF DeleteClaim, IInv, Reconciling, Asked
  <2>3. rpc # "idle" /\ "deleting" \in States /\ Reports("deleting")
        /\ sandbox' = sandbox /\ pod' = pod /\ pvc' = pvc
    BY <1>8 DEF DeleteClaim, States
  <2> QED BY <2>1, <2>2, <2>3, <1>0, ReportStep
<1>9. CASE FinalizeDelete
  <2>1. agent' = [exists |-> FALSE, desired |-> "running", gen |-> 1, state |-> "deleting", runtime |-> 0]
        /\ snap' = NoAgent
    BY <1>9 DEF FinalizeDelete, NoAgent
  <2>2. agent' \in Agent  BY <2>1 DEF Agent, Desired, States
  <2>3. TypeOK'  BY <1>0, <1>9, <2>1, <2>2 DEF FinalizeDelete, TypeOK
  <2>4. Rest
    BY <1>9, <2>1 DEF FinalizeDelete, ClaimGone, NoAgent, IInv, Reconciling, Asked, HasWorkspace,
                      NoOrphanClaim, WorkspaceKept
  <2> QED BY <2>3, <2>4 DEF IInv
<1>10. CASE ReconcileWrites
  <2>1. agent' \in Agent /\ agent'.exists = agent.exists /\ agent'.desired = agent.desired
    <3>1. CASE agent' = agent  BY <3>1, <1>0
    <3>2. CASE agent' = [agent EXCEPT !.state = target,
                              !.runtime = IF target = "running" THEN snap.gen ELSE snap.runtime]
      <4>1. PICK n \in 0..MaxGen : agent' = [agent EXCEPT !.state = target, !.runtime = n]
        <5>1. snap.gen \in 0..MaxGen /\ snap.runtime \in 0..MaxGen  BY <1>0 DEF Agent
        <5> DEFINE n == IF target = "running" THEN snap.gen ELSE snap.runtime
        <5>2. n \in 0..MaxGen  BY <5>1
        <5>3. agent' = [agent EXCEPT !.state = target, !.runtime = n]  BY <3>2
        <5> QED BY <5>2, <5>3, Zenon
      <4>2. target \in States  BY <1>0 DEF TypeOK
      <4> QED BY <4>1, <4>2, <1>0 DEF Agent
    <3> QED BY <3>1, <3>2, <1>10 DEF ReconcileWrites
  <2>2. TypeOK'  BY <2>1, <1>0, <1>10 DEF ReconcileWrites, TypeOK, States
  <2>3. Rest
    BY <2>1, <1>10 DEF ReconcileWrites, NoAgent, IInv, Reconciling, Asked, HasWorkspace,
                       NoOrphanClaim, WorkspaceKept
  <2> QED BY <2>2, <2>3 DEF IInv
<1> QED BY <1>1, <1>2, <1>2a, <1>3, <1>4, <1>5, <1>6, <1>7, <1>8, <1>9, <1>10 DEF ReconcileNext

\* A reconciliation that fails, a restart with another registry, and the mark of an
\* exhausted retry budget.
LEMMA FailureStep ==
    ASSUME IInv, (\E x \in BOOLEAN : ReconcileFails(x)) \/ Upgrade \/ MarkNext
    PROVE  IInv'
<1> USE LifecycleAssumption DEF kube, history, reconciler, marker
<1>0. /\ TypeOK /\ agent \in Agent /\ NoAgent \in Agent
      /\ Stale \in [Clients -> Request]
  BY StaleType DEF IInv, TypeOK, NoAgent, Agent, Desired, States
<1> DEFINE Rest == Reconciling' /\ Asked' /\ HasWorkspace' /\ NoOrphanClaim' /\ WorkspaceKept'
<1>1. ASSUME NEW x \in BOOLEAN, ReconcileFails(x) PROVE IInv'
  <2>1. used' \in [requests : 0..MaxRequests, errors : 0..MaxErrors, marks : 0..MaxMarks]
    <3>0. used \in [requests : 0..MaxRequests, errors : 0..MaxErrors, marks : 0..MaxMarks]
      BY <1>0 DEF TypeOK
    <3>1. used.errors + 1 \in 0..MaxErrors
      <4>1. used.errors < MaxErrors  BY <1>1 DEF ReconcileFails
      <4> QED BY <3>0, <4>1
    <3>2. PICK n \in 0..MaxMarks : used' = [used EXCEPT !.errors = used.errors + 1, !.marks = n]
      <4>1. CASE x
        <5>1. used.marks < MaxMarks  BY <4>1, <1>1 DEF ReconcileFails
        <5>2. used.marks + 1 \in 0..MaxMarks  BY <5>1, <3>0
        <5>3. used' = [used EXCEPT !.errors = used.errors + 1, !.marks = used.marks + 1]
          BY <4>1, <1>1, Zenon DEF ReconcileFails
        <5> QED BY <5>2, <5>3
      <4>2. CASE ~x
        <5>1. used.marks \in 0..MaxMarks  BY <3>0
        <5>2. used' = [used EXCEPT !.errors = used.errors + 1, !.marks = used.marks]
          BY <4>2, <1>1, Zenon DEF ReconcileFails
        <5> QED BY <5>1, <5>2
      <4> QED BY <4>1, <4>2
    <3> QED BY <3>0, <3>1, <3>2
  <2>2. TypeOK'  BY <2>1, <1>0, <1>1 DEF ReconcileFails, TypeOK, States
  <2>3. Rest
    BY <1>1 DEF ReconcileFails, NoAgent, IInv, Reconciling, Asked, HasWorkspace, NoOrphanClaim, WorkspaceKept
  <2> QED BY <2>2, <2>3 DEF IInv
<1>2. CASE MarkReads
  <2>1. TypeOK'  BY <1>0, <1>2 DEF MarkReads, TypeOK, Agent
  <2>2. Rest
    BY <1>2 DEF MarkReads, IInv, Reconciling, Asked, HasWorkspace, NoOrphanClaim, WorkspaceKept
  <2> QED BY <2>1, <2>2 DEF IInv
<1>3. CASE MarkWrites
  <2>1. agent' \in Agent /\ agent'.exists = agent.exists /\ agent'.desired = agent.desired
    <3>1. "failed" \in States /\ runtimeSeen \in 0..MaxGen  BY <1>0 DEF TypeOK, States
    <3>2. agent' = agent \/ agent' = [agent EXCEPT !.state = "failed", !.runtime = runtimeSeen]
      BY <1>3 DEF MarkWrites
    <3>3. CASE agent' = agent  BY <3>3, <1>0
    <3>4. CASE agent' = [agent EXCEPT !.state = "failed", !.runtime = runtimeSeen]
      BY <3>1, <3>4, <1>0 DEF Agent
    <3> QED BY <3>2, <3>3, <3>4
  <2>2. TypeOK'  BY <2>1, <1>0, <1>3 DEF MarkWrites, TypeOK
  <2>3. Rest
    BY <2>1, <1>3 DEF MarkWrites, IInv, Reconciling, Asked, HasWorkspace, NoOrphanClaim, WorkspaceKept
  <2> QED BY <2>2, <2>3 DEF IInv
<1>4. CASE Upgrade
  <2>1. used' \in [requests : 0..MaxRequests, errors : 0..MaxErrors, marks : 0..MaxMarks]
    BY <1>4, <1>0, FailureType DEF Upgrade
  <2>2. /\ claim' \in Claim /\ sandbox' \in Sandbox
        /\ claim'.exists = claim.exists /\ claim'.deleting = claim.deleting
        /\ sandbox'.exists = sandbox.exists
    BY <1>0, <1>4 DEF Upgrade, TypeOK, Claim, Sandbox
  <2>3. req' \in [Clients -> Request]
    <3>1. NoRequest \in Request  BY DEF NoRequest, Request, States, Ops
    <3> QED BY <3>1, <1>4 DEF Upgrade
  <2>4. TypeOK'  BY <2>1, <2>2, <2>3, <1>0, <1>4 DEF Upgrade, TypeOK, States
  <2>5. Rest
    BY <2>2, <1>4 DEF Upgrade, NoAgent, IInv, Reconciling, Asked, HasWorkspace, NoOrphanClaim, WorkspaceKept
  <2> QED BY <2>4, <2>5 DEF IInv
<1> QED BY <1>1, <1>2, <1>3, <1>4 DEF MarkNext

\* Kubernetes.
LEMMA KubeStep ==
    ASSUME IInv, KubeNext
    PROVE  IInv'
<1> USE LifecycleAssumption DEF kube, history, reconciler, marker, control
<1>0. /\ TypeOK /\ claim \in Claim /\ sandbox \in Sandbox
      /\ NoClaim \in Claim /\ NoSandbox \in Sandbox
      /\ NoClaim.exists = FALSE /\ NoClaim.deleting = "no" /\ NoSandbox.exists = FALSE
  BY DEF IInv, TypeOK, NoClaim, NoSandbox, Claim, Sandbox
<1> DEFINE Rest == Reconciling' /\ Asked' /\ HasWorkspace' /\ NoOrphanClaim' /\ WorkspaceKept'
<1>1. CASE ClaimAssigns
  <2>1. claim' \in Claim /\ claim'.exists = claim.exists /\ claim'.deleting = claim.deleting
    BY <1>0, <1>1 DEF ClaimAssigns, Claim
  <2>2. sandbox' \in Sandbox
    <3>1. CASE sandbox.exists  BY <3>1, <1>0, <1>1 DEF ClaimAssigns, Sandbox
    <3>2. CASE ~sandbox.exists
      <4>1. claim.gen \in 0..MaxGen  BY <1>0 DEF Claim
      <4> QED BY <3>2, <4>1, <1>0, <1>1 DEF ClaimAssigns, Sandbox
    <3> QED BY <3>1, <3>2
  <2>3. saved' = (saved \/ ~asked)  BY <1>1 DEF ClaimAssigns
  <2>4. saved' \in BOOLEAN  BY <2>3, Zenon
  <2>5. TypeOK'  BY <2>1, <2>2, <2>4, <1>0, <1>1 DEF ClaimAssigns, TypeOK
  <2>6. Rest
    BY <2>1, <2>3, <1>1
    DEF ClaimAssigns, IInv, Reconciling, Asked, HasWorkspace, NoOrphanClaim, WorkspaceKept
  <2> QED BY <2>5, <2>6 DEF IInv
<1>2a. CASE PodFails
  <2>1. used' \in [requests : 0..MaxRequests, errors : 0..MaxErrors, marks : 0..MaxMarks]
    BY <1>2a, <1>0, FailureType DEF PodFails, TypeOK
  <2>2. TypeOK'  BY <2>1, <1>0, <1>2a DEF PodFails, TypeOK
  <2>3. Rest
    BY <1>2a DEF PodFails, reconciler, IInv, Reconciling, Asked, HasWorkspace, NoOrphanClaim, WorkspaceKept
  <2> QED BY <2>2, <2>3 DEF IInv
<1>2b. CASE ClaimReports
  <2>1. claim' \in Claim /\ claim'.exists = claim.exists /\ claim'.deleting = claim.deleting
    BY <1>0, <1>2b DEF ClaimReports, Claim
  <2>2. TypeOK'  BY <2>1, <1>0, <1>2b DEF ClaimReports, TypeOK
  <2>3. Rest
    BY <2>1, <1>2b DEF ClaimReports, IInv, Reconciling, Asked, HasWorkspace, NoOrphanClaim, WorkspaceKept
  <2> QED BY <2>2, <2>3 DEF IInv
<1>2. CASE PodStarts \/ PodReady \/ SandboxSuspends
  <2>1. sandbox' \in Sandbox /\ sandbox'.exists = sandbox.exists
    BY <1>0, <1>2 DEF PodStarts, PodReady, SandboxSuspends, Sandbox
  <2>2. /\ pod' \in {"none", "starting", "ready", "failed"}
        /\ UNCHANGED <<control, claim, pvc, asked, saved>>
    BY <1>2 DEF PodStarts, PodReady, SandboxSuspends
  <2>3. TypeOK'  BY <2>1, <2>2, <1>0 DEF TypeOK
  <2>4. Rest
    BY <2>1, <2>2 DEF IInv, Reconciling, Asked, HasWorkspace, NoOrphanClaim, WorkspaceKept
  <2> QED BY <2>3, <2>4 DEF IInv
<1>3. CASE ClaimReleased \/ ClaimCollected
  <2>1. /\ sandbox' \in Sandbox /\ sandbox'.exists = sandbox.exists
        /\ claim' = NoClaim /\ UNCHANGED <<control, pod, pvc, history>>
    BY <1>0, <1>3 DEF ClaimReleased, ClaimCollected, Sandbox
  <2>2. TypeOK'  BY <2>1, <1>0 DEF TypeOK
  <2>3. Rest
    BY <2>1, <1>0 DEF IInv, Reconciling, Asked, HasWorkspace, NoOrphanClaim, WorkspaceKept
  <2> QED BY <2>2, <2>3 DEF IInv
<1>4. CASE SandboxReleased \/ SandboxCollected
  <2>1. /\ sandbox' = NoSandbox /\ pvc' \in {"none", "owned", "free"}
        /\ pod' \in {"none", "starting", "ready", "failed"}
        /\ UNCHANGED <<control, claim, history>>
    BY <1>0, <1>4 DEF SandboxReleased, SandboxCollected, TypeOK
  <2>2. TypeOK'  BY <2>1, <1>0 DEF TypeOK
  <2>3. asked \/ (pvc # "none" => pvc' # "none")
    BY <1>4 DEF SandboxReleased, SandboxCollected, IInv, Asked
  <2>4. Rest
    BY <2>1, <2>3, <1>0 DEF IInv, Reconciling, Asked, HasWorkspace, NoOrphanClaim, WorkspaceKept
  <2> QED BY <2>2, <2>4 DEF IInv
<1> QED BY <1>1, <1>2, <1>2a, <1>2b, <1>3, <1>4 DEF KubeNext

\* Every step preserves the invariant.
LEMMA NextIInv == IInv /\ [Next]_vars => IInv'
<1> SUFFICES ASSUME IInv, [Next]_vars PROVE IInv'
  OBVIOUS
<1>1. CASE \E c \in Clients : ApiNext(c)  BY <1>1, ApiStep
<1>2. CASE ReconcileNext  BY <1>2, ReconcileStep
<1>3. CASE (\E x \in BOOLEAN : ReconcileFails(x)) \/ Upgrade \/ MarkNext  BY <1>3, FailureStep
<1>4. CASE KubeNext  BY <1>4, KubeStep
<1>5. CASE UNCHANGED vars
  BY <1>5 DEF vars, kube, history, reconciler, marker, IInv, TypeOK, Reconciling, Asked,
              HasWorkspace, NoOrphanClaim, WorkspaceKept
<1> QED BY <1>1, <1>2, <1>3, <1>4, <1>5 DEF Next

\* The invariant holds of every behaviour.
LEMMA Invariance == Spec => []IInv
<1> QED BY InitIInv, NextIInv, PTL DEF Spec

-----------------------------------------------------------------------------
\* The objects, requests and bounds stay what they are declared to be.
THEOREM TypeCorrect == Spec => []TypeOK
<1>1. IInv => TypeOK  BY DEF IInv
<1> QED BY <1>1, Invariance, PTL

\* reconcileDelete gives an agent up only after its claim is gone, and no worker
\* creates one for an agent it has given up, however requests, failed calls and
\* restarts come in between.
THEOREM ClaimsHaveAgents == Spec => []NoOrphanClaim
<1>1. IInv => NoOrphanClaim  BY DEF IInv
<1> QED BY <1>1, Invariance, PTL

\* The workspace goes only if a DELETE has reached the agent, whatever else is
\* asked for and whatever fails: the foreground deletion, which alone takes the PVC
\* along, is reached only from a snapshot whose desired state is deleted.
THEOREM WorkspaceIsKept == Spec => []WorkspaceKept
<1>1. IInv => WorkspaceKept  BY DEF IInv
<1> QED BY <1>1, Invariance, PTL
=============================================================================
