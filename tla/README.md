# Sandherd in TLA+

Sandherd runs coding agents in Kubernetes sandboxes. A control plane keeps one
`Agent` object per agent and drives a `SandboxClaim` towards what the object asks
for; an init container prepares the agent's workspace; a runner in the Pod owns
the agent's pseudo-terminal and serves it over WebSockets; a gateway forwards
those connections; and a bridge shows one terminal in a Herdr pane.

This directory models the parts of it in which order, failure and concurrency
decide whether the result is right. TLC checks the modules on small instances and
TLAPS proves most of the safety properties for every value of the constants.
Paths below are relative to the repository's `internal/`.

## 1. Inventory

| Component | State | Operations | Interacts with |
|---|---|---|---|
| runner hub (`runner/hub.go`) | subscribers with bounded queues, one controller lease with its expiry, process state, exit | attach, detach, takeover, input, resize, touch, publish, publishExit | handlers call it; it calls the PTY with `controlMu` held and `mu` free |
| replay buffer (`runner/replay.go`) | retained frames, byte count, next sequence | append, bounds, after | only under the hub's `mu` |
| runner process (`runner/process.go`) | child process, PTY, exit | start, read loop, wait, write, resize, terminate | publishes into the hub |
| runner server (`runner/server.go`) | per connection a reader and a writer goroutine | attach, frame dispatch, write loop | hub, WebSocket client |
| controller queue (`kubernetes/controller.go`) | channel of ids, pending, dirty, retries, timers | Enqueue, worker, resync, markRetryExhausted | watches and API handlers enqueue; workers call the reconciler |
| reconciler (`kubernetes/reconciler.go`) | none of its own | Reconcile: run, replace, stop, delete | Agent, SandboxClaim, Sandbox, PVC through the API server |
| repository (`kubernetes/repository.go`) | the Agent object | Create, SetDesired, ChangeAdapter, SetStatus, FinalizeDelete | API handlers, reconciler |
| control-plane API (`controlplane/server.go`) | none | create, stop, resume, delete, adapter change, listing, events | repository, queue, event bus |
| event bus (`lifecycle/events.go`) | bounded history, subscribers with bounded channels | Publish, Subscribe, cancel | handlers, reconciler and gateway publish; event streams read |
| bootstrap (`bootstrap/`) | files of the volume: repository, staging, intent, marker, lock | Execute | git; other containers of the same volume |
| bridge (`herdrbridge/terminal.go`, `state.go`) | cursor and generation, in memory and in a file; channels of input and sizes | Run, connection loop, save, terminal readers, writers | gateway or runner, pane |
| gateway (`gateway/`) | connection counts; per connection three goroutines and pending takeovers | ServeTerminal, proxy | clients, runner, event bus |
| bridge manager, adapters, auth, commands | little or none | lookups, validation, wiring | |

What is hard to get right, and what correctness means for each:

- **Hub.** Two locks, calls into the PTY that block, and evictions in the middle of
  other operations. A write must be fenced by the lease it was authorised with; the
  hub and the subscription must agree on the lease; replay and live output must join
  without a hole; the exit must be delivered once and last; stopping must return.
- **Queue.** Enqueue is three critical sections around a channel operation. An agent
  must not be reconciled twice at once, and no announced change may be forgotten.
- **Lifecycle.** Requests, reconciliations and Kubernetes controllers act on reads that
  may be old. No claim may outlive its agent, no workspace may go unasked, and what is
  requested must be carried out.
- **Bootstrap.** A container may die between any two file operations and another may be
  working on the same volume. The marker must be true, and a retry must complete.
- **Bridge.** Connections, the bridge and the runner fail independently. The pane must
  show output in order, with gaps announced, and come to show everything. What is typed
  passes through the writers of successive connections, and must arrive in order.
- **Events.** A subscriber that is slow is dropped, the history is short and lost with the
  process. A client must see every event it watches, in order and once, or be told that
  its place is lost.
- **Gateway.** Three goroutines share two connections and a context. One end must lead to
  the other, every goroutine must end, and the limiter must get back what it gave.

`PROJECT.json` lists every component with what is left out of it, and every hazard
with the line where it bites and the properties that are about it.

## 2. Modules

| Module | Models |
|---|---|
| `ReplayBuffer` | `runner/replay.go`, as operators on a record |
| `Hub` | `runner/hub.go`, `server.go`, `process.go`: hub, handlers, process |
| `Controller` | `kubernetes/controller.go` |
| `Lifecycle` | `kubernetes/reconciler.go`, `repository.go`, the handlers of `controlplane/server.go` and the predicates of `lifecycle/` that change an agent |
| `Bootstrap` | `bootstrap/bootstrap.go` |
| `Bridge` | `herdrbridge/terminal.go`, `state.go`: output, cursor and reconnections |
| `BridgeInput` | `herdrbridge/terminal.go`: input, sizes and the writers |
| `EventFeed` | the abstract specification of an event stream |
| `Events` | `lifecycle/events.go`, `handleEvents` of `controlplane/server.go`, the publishers; implements `EventFeed` |
| `Gateway` | `gateway/gateway.go` |
| `MC*` | model values, symmetry and initial states for TLC |
| `HubProofs`, `ControllerProofs`, `LifecycleProofs`, `EventsProofs`, `BootstrapProofs`, `BridgeProofs`, `BridgeInputProofs`, `GatewayProofs` | theorems about the module of that name |

`Hub` uses `ReplayBuffer`'s operators for its `replay` variable. `Lifecycle` takes from
`Controller` that an agent is reconciled by one worker at a time
(`OneReconcilePerAgent`) and again and again (`ResyncSafetyNet`). `Bridge` reduces the
runner of `Hub` to generation, newest sequence and lease, `BridgeInput` and `Gateway`
reduce it to its lease.

### Hub

What happens under `hub.mu` is one step: the lock is never held across anything that
blocks. The helpers that run under it (`sendLocked`, `broadcastLocked`,
`revokeControllerLocked`, `expireControllerLocked`, `grantControllerLocked`) are
functions from hub to hub with the names they have in the code. `controlMu` is a
variable, because an authorised input or resize holds it for as long as the PTY call
takes: a call is one step that begins it and one that ends it. A handler's reply to a
frame is queued in a step of its own, since the code does that in a second critical
section. A subscription that is evicted keeps its queue, as the closed channel does.

Time is abstracted: a lease may be marked expired at any moment after it was last
touched, and the code looks at the mark where it compares clocks. Frames keep their
type, lease and sequence; payloads and JSON are left out, a malformed frame being one
outcome. `view` records what a client has been sent, and appears in properties only.

### Controller

`Enqueue` is split at the points where `mu` is released: mark pending (or dirty), try
the channel, and take the mark back if it was full. Workers take, read, succeed or
fail, and put a dirty agent back with a blocking send. Retry timers, the resync with
the list it walks, the mark of exhausted retries (a read and a later write) and a
restart that loses the queue are actions. `version` and `done` stand for what
Reconcile reads and has carried out. Keeping `read[w]` is what makes a lost wakeup
visible: a reconciliation that had begun before a change does not count for it.

### Lifecycle

One agent, as agents share nothing but the queue. Updates of the Agent object carry a
resource version, so a Get with the Update that follows is one step and a refused one
changes nothing; what was read before and is used without that protection (the
handler's check, the reconciler's copy, the mark's copy) is kept in `req`, `snap` and
`runtimeSeen`. A request for the adapter in place is let through in every state and then
writes nothing, unless the adapter was changed in between: the request keeps the
generation it saw, since each generation has an adapter other than the one before. Every
outcome of Reconcile is an action, which ends with the state it is about to write; the write is a step of its own. `running` needs the claim's Ready condition as
well as the Pod's, and the two follow each other with a delay. A claim and its Sandbox keep
the generation they were made for, so that a Sandbox which is adopted shows where it comes
from; generation 0 stands for a claim of a version or pool that the registry no longer has,
which `claimMatchesRuntime` refuses as it does another generation (`Upgrade`). The
Kubernetes side is external and modelled from how the code uses it: a claim is assigned a Sandbox, a Sandbox starts or suspends its Pod and
reports the condition later, deletion in the foreground or with orphans, garbage collection.

### Bootstrap

One action per operation on the volume, in the order of `Execute`; the lock is a
variable; a run can fail or be killed at any step and be started again, and the agent
can edit its repository once a run is ready. Renames and the replacement of small files
are atomic, and what was written before a container was killed is still there: a crash
here is that of a process, not of the node. Content is reduced to origin, commit,
what was fetched, whether anything stale is mixed in, and the agent's edits.

### Bridge

The wire is the sequence of frames sent and not yet handled, lost when the connection
ends. `at` follows `Run` and `runConnection`; the time that a reconnect window allows
is a number of failed attempts. `screen` is what the pane has shown and `notes` what
happened between two frames on it; both appear in properties only. Acknowledgements and
reports to Herdr are not modelled.

### BridgeInput

The reader of the terminal, the watcher of its size, `runConnection` and one writer per
connection, which takes from the two channels and then writes: the two steps between
which its connection can end. A writer that is cancelled may still take one thing, as a
`select` with several ready cases takes any of them. Wires and the lease are named by the
number of their connection; a new connection may be dialled while the runner still has
frames of the old one. Chunks are numbered as they are typed. That `publishSize` drops the
oldest size and puts the newest is one step: it is the only sender, so a writer that takes
between the two only makes more room. The signals that wait are one, since
handling any of them reads the size as it is then. `lost` and `sizeLost` are
history and appear in properties only.

### EventFeed and Events

`EventFeed` has a log, a place in it for each client and the agents each watches; a client
sees the next event it watches or loses its place, and one without a place may begin
anywhere. `Events` has the bus, the handlers and the clients. What runs under the bus's
mutex is one step. Events are numbered as they are published, the number standing for the
random id: a cursor is only ever compared for equality with the ids of the history. A
handler is in one of four phases (the filter checked, replaying, live, idle), and goes on
for a while after its connection is lost. A client keeps the id of the last event it was
sent and begins anew when told that its cursor has expired. The mapping takes a client's
cursor for its place, and for what it watches the agents of its principal that pass its
filter: the bus sends every subscriber the events of every owner, and the handler drops them.

Deletion is two steps, publish and finalize, of which the second may fail and both are
then repeated.

### Gateway

`at` follows `ServeTerminal`; the deferred calls are the one step `Leaves`. Each goroutine
of `proxy` has a state of its own, and ends by sending an error into a channel that has
room for `Errors` of them. Reading a frame and writing it on is one step with two
outcomes, because nothing but the writer's own failure is decided between them; the
context may be done before. Time limits may pass at any moment, also those that need a quiet connection.

## 3. Runs

Each run is a question. The bounds are named constants; deadlock is checked where a
system never stops by itself (`ctl_*`, `boot`) and not where the bounds, the end of
the agent or giving up legitimately end it.

| Run | Instance | Shows |
|---|---|---|
| `hub_lease` | two attachments that may control, queues of one, two leases, one output | `WriteFenced`, `LeaseAgreement`, `HolderKnowsLease`, `RevocationTold` |
| `hub_stream` | one attachment that may control, a queue of one, three outputs of one or two bytes, a buffer of two bytes and two frames, two leases, a stop request | `OutputContiguous`, `ExitOnceAndLast`, `ReplayExact`, `StopReturns`, `ExitDelivered`, `DisconnectReleases` |
| `ctl_queue` | two agents, two workers, two callers, a channel of one, failures, a restart | `OneReconcilePerAgent`, `PendingExact`, `NoLostWakeup` |
| `ctl_live` | as many agents as places in the channel | `ResyncSafetyNet`, `FailedRecovers` |
| `life` | four requests, two generations, a failure or an upgrade, a mark, `retain` | `NoOrphanClaim`, `WorkspaceKept`, `RequestsComplete` |
| `boot` | two containers, any request, any volume, two failures, two crashes, one edit | `MarkerTrue`, `MarkerOnce`, `ContentKept`, `RetrySucceeds` |
| `bridge` | three frames per generation, two generations, two faults, a crash, a rival | `ShownInOrder`, `CursorShown`, `CatchesUp` |
| `bridge_input` | three chunks, two sizes, channels of one, two connections, `--takeover` | `InputInOrder`, `InputArrives`, `SizeSettles` |
| `events` | two agents of two owners, one client, two handlers, three events, a history of two, channels of one, a fault, a restart | `ImplementsFeed`, `ChannelsSafe`, `GoneAnnounced`, `Delivered` |
| `gateway` | two requests for one agent, one that may control, places for two and one per agent, one frame after attach | `SlotsExact`, `TakeoversBacked`, `EndsTogether`, `ThreadsEnd` |
| `hub_ghost_lease`, `life_leak` | the smallest that shows it | a counterexample, section 4 |

The type invariant is a property of its own where theorems rest on it (`Hub`,
`Controller`, `Lifecycle`, `Events`), and elsewhere the first conjunct of `MarkerTrue`,
`CursorShown`, `SlotsExact` and `InputInOrder`.

Why the bounds are enough. The hub's hazards need one lease to be lost while another
operation has its holder in hand: two attachments, two leases and a queue of one give
every such overlap, and make eviction as frequent as it can be. Replay needs more
output than the buffer holds, and frames of different size. The queue's races are
between one sender and one worker over one id, and a channel of one is full as soon as
there is a second id. In `life` the races are between a request, which is three steps,
a reconciliation and the mark; a second generation is what an adapter change adds. Two
requests at once are not in that run, but in the proofs of its safety properties,
which hold for any number of them. Bootstrap runs differ only in how far the previous one came, so two
runs with two interruptions meet every stage of the files. A gap on the bridge's
stream takes three frames and a buffer of one.
Events need an event that the channel has no room for, one that leaves the history, one of
another owner, and a handler that has not noticed its client's second request: three
events and two handlers. The gateway's connections share only the limiter and the
runner's lease, so that two of them meet each other, and one frame after the attach gives
a takeover at the attach, one after it, and both at once. The writers of two connections
meet over three chunks: one held by the old, one in the channel, one typed later.

### Fairness

- Goroutines that can run do. Whoever waits for `controlMu` or for room in a channel is
  served in turn (`sync.Mutex` hands over to a starving waiter; a channel's senders are a
  queue), hence strong fairness for those, as for waiters for a file lock.
- The grace period and leases end; tickers tick; armed timers fire; a killed process dies.
- Nothing is assumed of clients, except that a connection that is up accepts what is
  written to it (otherwise the write times out and the connection is down).
- A PTY call on an open terminal returns only if the agent reads its input, and that is
  not assumed; `DisconnectReleases` has it as a premise of its own.
- Kubernetes' controllers do their work, and a failed init container is restarted.
- A bridge that was killed is started again; the runner comes to notice a lost connection.
- A client whose event stream ended asks again; nobody need change or delete an agent.
- The gateway's first read has a time limit, and its dial is assumed to return (section 4).
  Neither time limit of `proxy` is assumed to pass, nor clients or runners to do
  anything: `EndsTogether` and `ThreadsEnd` hold without them, and a lifetime that
  has passed is one of the ends from which `EndsTogether` begins.
- The bridge's goroutines run, a write returns within its five seconds, and the runner
  reads. Nobody need type, resize or lose a connection.

Failures are bounded in number and never fair, which says that they stop at some time.

## 4. Where the code and its documents disagree

Two are runs that TLC ends with a counterexample; the findings in `PROJECT.json` quote
the sentence and name the line.

| Run | What happens |
|---|---|
| `hub_ghost_lease` | takeover revokes the caller's expired lease, which evicts the caller for a full queue, and then grants it the lease all the same; its disconnection releases nothing |
| `life_leak` | a delete between the release of the old Sandbox and the new claim leaves that Sandbox behind |

The models have other behaviours that the documents rule out or do not mention. No
property of a run states the opposite of them, and one names the first as its exception
(`Forgotten`); they are listed for whoever changes the
code:

- The status is the only memory of a replacement in progress, and whatever overwrites
  `reconfiguring` once the old claim is deleted loses the step that releases the old Sandbox
  (`kubernetes/reconciler.go`, line 102): the next claim adopts that Sandbox as it is, and the
  old runtime is reported `running` under the new generation. docs/control-plane.md, line 141,
  says "Adapter or adapter-version changes drain the old Sandbox and create a new runtime
  generation". No failure is needed: an adapter change, a stop that its handler had accepted
  while the agent was `running`, which writes `stopped` in between, and a resume.
  `RequestsComplete` compares the generation of the Sandbox and excepts this case and no other.
- The `attached` frame of a takeover is queued after the critical section, so it can
  follow the `controller_revoked` of the next takeover (`runner/server.go`, takeover).
  What remains true is `HolderKnowsLease`.
- A chunk larger than the replay limit evicts even itself, and the announced earliest
  sequence is then never sent (`runner/replay.go`, append). `OutputContiguous`
  says where a gap ends only if chunks fit.
- With more ids in flight than the channel has places plus workers, every worker can
  block putting a dirty id back (`kubernetes/controller.go`, worker). The channel has 1024
  places. `ctl_live` has room for every id.
- A reconciliation under way writes its older state over `deleting` or `reconfiguring`
  (`kubernetes/reconciler.go`, transition).
- A change to the adapter in place skips the check of the state (`controlplane/server.go`,
  line 305), and `ChangeAdapter` compares the adapters again without it: if another change
  came in between, it is undone in whatever state the agent is by then, `stopping` and
  `deleting` included.
- `stopped` is reported for an agent whose claim has no Sandbox yet, which then starts, until
  a later reconciliation suspends it (`kubernetes/reconciler.go`, line 211), where
  docs/control-plane.md, line 32, says that Stop "does not report `stopped` until the
  `Suspended` condition is observed". `RequestsComplete` asks that the agent is stopped for
  good in the end, its Sandbox suspended. And the `Suspended` condition of before a resume
  lets an adapter change release a Sandbox that is starting.
- With `retain`, a volume created after `retainPVCs` listed them goes with the claim.
- The intent is written before an empty repository directory is removed: a bootstrap that
  is killed between the two is taken for one interrupted after the rename, and no retry
  completes (`bootstrap/bootstrap.go`, around line 331). `RetrySucceeds` is about fresh
  volumes.
- A restarted runner refuses the old cursor in its first frame, before the frame loop
  whose case for `replay_cursor_invalid` would drop it (`herdrbridge/terminal.go`, lines
  279 and 353); the same cursor is tried until the window has passed.
- A bootstrap's retry adopts the untracked repository that the first run refused: it
  finds the first run's intent. `MarkerTrue` therefore allows a repository that no
  bootstrap fetched.
- Before the bridge has a cursor, what is written during a reconnection is skipped
  without notice (`ShownInOrder` calls this "blind"); after a network loss it can give up
  over its own lease; and nothing renews the lease of a quiet pane, which then ends.
- The writer of a bridge's ended connection can take the newest size after the next attach
  frame was sent with an older one; the size is then lost until the next resize
  (`herdrbridge/terminal.go`, line 378). And the writer has a copy of the lease: one
  granted by a later `attached` frame (line 332) would not reach it.
- The gateway matches a pending takeover with the next `attached` frame for control: that of
  the first attach is published as a takeover even if nobody held the lease, or if the
  takeover pending is a later one (`gateway/gateway.go`, line 260).
- The gateway's dial has no time limit, and a connection taken over by the WebSocket
  library no longer cancels the request's context: a router that does not answer keeps a
  place of the limiter (line 175).
- A `state_changed` event can follow the `agent.deleted` of a deletion that overtook the
  request, and `agent.deleted` is published again when the finalization is retried. A
  client that filters on an agent which has gone is refused when it reconnects, and cannot
  read the event that says so (`controlplane/server.go`, lines 402 and 425).

## 5. Theorems

All for any sets of attachments, agents, workers, callers, clients, handlers, containers
and connections, any limits and any bounds, from the assumptions named in the modules
(`ReplayAssumption`, `HubAssumption`, `ControllerAssumption`, `LifecycleAssumption`,
`EventsAssumption`, `BootstrapAssumption`, `BridgeAssumption`, `BridgeInputAssumption`,
`GatewayAssumption`): non-empty limits, distinct null values, an owner for each agent and a principal for each
client of the event stream, and for the bootstrap a volume on which no bootstrap has worked
before the first run, so that nothing in it was fetched by one or left half done.

| Module | Theorem | Statement |
|---|---|---|
| `HubProofs` | `TypeCorrect`, `WritesAreFenced`, `LeasesAgree`, `HolderKnowsItsLease`, `RevocationIsTold` | `Spec => []TypeOK`, `[]WriteFenced`, `[]LeaseAgreement`, `[]HolderKnowsLease`, `RevocationTold` |
| `HubProofs` | `ReplayIsExact`, `OutputIsContiguous`, `ExitIsOnceAndLast` | `Spec => []ReplayExact`, `[]OutputContiguous`, `[]ExitOnceAndLast` |
| `ControllerProofs` | `TypeCorrect`, `PendingIsExact`, `ReconcilesAreExclusive`, `NoWakeupIsLost` | `Spec => []TypeOK`, `[]PendingExact`, `[]OneReconcilePerAgent`, `[]NoLostWakeup` |
| `LifecycleProofs` | `TypeCorrect`, `ClaimsHaveAgents`, `WorkspaceIsKept` | `Spec => []TypeOK`, `[]NoOrphanClaim`, `[]WorkspaceKept` |
| `EventsProofs` | `TypeCorrect`, `ChannelsAreSafe`, `GoneIsAnnounced`, `FeedIsImplemented` | `Spec => []TypeOK`, `[]ChannelsSafe`, `[]GoneAnnounced`, `ImplementsFeed` |
| `BootstrapProofs` | `MarkerIsTrue`, `MarkerIsWrittenOnce`, `ContentIsKept` | `Spec => []MarkerTrue`, `MarkerOnce`, `ContentKept` |
| `BridgeProofs` | `CursorIsShown`, `OutputIsShownInOrder` | `Spec => []CursorShown`, `[]ShownInOrder` |
| `BridgeInputProofs` | `InputIsInOrder` | `Spec => []InputInOrder` |
| `GatewayProofs` | `SlotsAreExact`, `TakeoversAreBacked` | `Spec => []SlotsExact`, `[]TakeoversBacked` |

**Hub.** `WriteFenced` speaks of one write and its lease; a step preserves it only
because every lease change waits for `controlMu`, because the controller's lease is the
newest that was issued, and because a subscription's lease is the hub's. The invariant
therefore has a part about the hub alone (`HubOK`: type, queues within their bound,
`ControllerNewest`, `Agrees`) and a part tying it to `controlMu` and to the handlers.
Each function that runs under `mu` has a lemma that it keeps `HubOK` and only ever loses
a lease (`Shrinks`); each action then follows from the lemmas of what it calls.

`HolderKnowsLease` looks only at a client that has received everything. `Known` says the
same of any moment: the last frame about a lease that a holder has received or will
receive (`Told`, over what was written, the initial frames and the queue) names its lease,
or the answer that does is still with the handler (`Pending`). It needs that nothing was queued
for an attachment before its attach, and that answers are nothing else. A second lemma for
each function under `mu` (`TellsTo`) says that queues only grow, and that a frame about a
lease is added only for a subscriber that loses it; `RevocationTold` follows from the same
lemmas. The proof corrected that property: with room for two frames in a queue,
`publishExit` adds the exit after `controller_revoked` in the same step, so that the
revocation is among the frames added and not always the only one.

`ReplayExact` needs that the byte count is that of what is retained, however many frames
an append evicts. `BytesOf` is a recursive function, so its lemmas (the bytes of one frame
more, of a sequence that was appended to, of a tail) are inductions over the number of
frames. The library's induction theorem takes an operator and cannot be used here;
`SetInduction` says the same of a set of numbers and follows from the well-foundedness of
`<` on the naturals.

`OutputContiguous` and `ExitOnceAndLast` speak of what a reader has been written, has in its
connection and has still queued; a frame passes from one to the next, so that the three are
one sequence (`Pipeline`) with a cursor before it. `Streaming` says of it that one exit at
most is in it, after all output (`Tidy`), that its output is consecutive and ends at the newest
frame (`Ending`), that without a gap it begins after the cursor (`Reaches`), and that a
recorded exit is in it or was read (`Flowing`). All frames but three types are `Mute`: adding
or taking one changes nothing. The join of replay and live output is the attach: what
`afterFrames` returns ends at the newest frame because `ReplayExact` holds, and begins where
the gap says only if the newest frame is retained (`NewestKept`), which it is when no chunk is larger
than the buffer. That no output follows the exit needs `ExitRecorded`: the hub records
the exit when the read loop has ended.

**Controller.** `IInv` is `TypeOK`, `Places` (whoever is past its first step has an
agent) and `PendingExact`, which is inductive with these: an id is pending exactly when
it is in one of three places, in only one, and there once. `OneReconcilePerAgent`
follows. `NoLostWakeup` is preserved on top of it: a caller that finds an id pending
may only mark it dirty, and exactness says that somebody holds it who will look.

**Lifecycle.** `IInv` adds `Reconciling` (a reconciliation is under way only for an agent
that exists, and only a copy to be deleted reaches the claim), `Asked` (whatever leads to
a deletion in the foreground was asked for) and `HasWorkspace`. `NoOrphanClaim` needs
the first, as `FinalizeDelete` looks for the claim in an earlier step;
`WorkspaceKept` needs the others, as a volume is collected steps after its cause.

**Events.** The refinement needs that the event a handler writes is the *next* one its
client watches, which no single variable says. `IInv` therefore describes the stream of
each handler that still has its client: its channel is a stretch of consecutive events,
up to the newest while it is subscribed (`Stretch`); what is to be replayed comes before
the channel and both after the cursor (`Ahead`); and an event the client watches and has
not seen is still to come (`StillToCome`): in the replay, in the channel, or after a
channel that was closed, or else the client had no place and begins after it. Added to these are
`ChannelsSafe`, since only a closed channel may be empty with events outstanding,
`CursorsBehind`, and `PhaseOK`, by which a subscription starts from the client's cursor.
`Steady` and `OthersSteady` show that whatever a handler does leaves the streams of the
others alone, `WritesNext` that the invariant makes the event written the next one, and
`FeedStep` turns each step into one of `EventFeed` or a stutter. `GoneAnnounced` is
strengthened by the agents that are announced and not yet gone (`AnnouncedOK`).

**Bootstrap.** `MarkerTrue` is about files; what a run writes to them follows from calls it
made many steps before. `IInv` adds `Progress`, what a run knows at each stage as long as it
holds the lock (that there is no marker, that the intent is its own, what it has staged and
what it renamed), and `IntentKept`: until there is a marker, the intent remembers for which
revision a clone was fetched, which is what recovery after a crash records. The files change
under the lock or by the agent's hand only, so that no other run disturbs what one knows.

**Bridge.** Neither property survives a step alone: the next frame shown comes from the wire,
and what is on the wire was decided by the cursor when the bridge attached. `IInv`
describes the wire (`WireShape`: the answer, then a gap, then output, then the end of the
lease; `WireNumbers`: consecutive output, up to the newest as long as the lease is held, which is
`LeaseHeld`), relates it to the pane (`PaneBehind`, `CursorBehind`: the cursor is not beyond what was
shown last) and says that the next output to come follows the cursor, or a gap is noted, or there
is no cursor (`Follows`).

**BridgeInput.** Chunks pass from the channel through the writers of several connections to
the runner. `IInv` orders them: what is in the channel comes after everything taken from it
(`ChannelLast`), what a live writer holds after everything written on any connection, and
what the holder of the lease has on its way after everything received (`InFlight`). Only the
newest connection is live (`LiveOnly`), and the lease goes to it with its attach frame,
before anything else is written on it (`AttachAlone`).

**Gateway.** `SlotsExact` is inductive but for a request that leaves before the upgrade
(`NotUpgraded`); most of its proof is about cardinalities of the sets that a step changes.
`TakeoversBacked` counts grants on their way to the client as not yet spent (`GrantsAhead`).

Every invariant that a run checks is proved. Checked by TLC only: the liveness properties
(`StopReturns`, `ExitDelivered`, `DisconnectReleases`, `ResyncSafetyNet`, `FailedRecovers`,
`RequestsComplete`, `RetrySucceeds`, `CatchesUp`, `InputArrives`, `SizeSettles`, `Delivered`,
`EndsTogether`, `ThreadsEnd`), as fairness and `ENABLED` are out of the prover's reach.

## 6. Not modelled

Authentication and credentials, request validation, listings and paging, the adapter
registry, flags and listeners, the manager's menu and its HTTP client: they are
stateless or pure input and output. The acknowledgements of a bridge only renew its lease,
and its wait for the agent to run is a poll. The gateway's other metrics are only written. The sweep for orphan claims, which follows every resync, has nothing to
do as long as `NoOrphanClaim` holds. A write to the pane that fails is modelled as one of which nothing is shown. The loss of a node during a bootstrap, when files
that were not synced may be missing, is outside `Bootstrap`. Kubernetes objects and git
are modelled only as far as this code can tell.

## 7. Plan

Done, in the order of importance: `Hub` with `ReplayBuffer`; `Controller`; `Lifecycle`;
`Bootstrap`; `Bridge`; `EventFeed` and `Events` with the refinement; `Gateway`;
`BridgeInput`; and the theorems above. Next:

1. Abstract specifications: a lease (free, held by one, only ever passed on while
   nothing is written) implemented by `Hub`; a lossless numbered stream with announced
   gaps implemented by `Hub` and by `Bridge`; a work queue that is a set of
   announced changes implemented by `Controller`.
2. Proofs: the refinements of point 1.
