-------------------------------- MODULE Hub --------------------------------
(***************************************************************************)
(* The agent runner: the terminal hub (internal/runner/hub.go), the        *)
(* WebSocket handlers that drive it (server.go), the agent's PTY process   *)
(* (process.go) and the replay buffer (replay.go).                         *)
(*                                                                         *)
(* One runner serves one agent.  Every WebSocket connection is an          *)
(* attachment with a reader (the HTTP handler) and a writer goroutine.     *)
(* The hub has two locks.  `mu' guards all fields of `hub' and `replay'    *)
(* and is never held while anything blocks, so what happens under it is    *)
(* one step here.  `controlMu' is held in addition by every operation that *)
(* can move the controller lease, and by an authorised write to the PTY    *)
(* for as long as the write takes, while `mu' is free.                     *)
(***************************************************************************)
EXTENDS ReplayBuffer

CONSTANTS Attachments,       \* connections, each used once (a fresh attachment id)
          Controllers,       \* those whose credential has the Control permission
          None,              \* no attachment
          SubscriberBuffer,  \* --subscriber-buffer
          Sizes,             \* lengths a PTY read may return
          MaxOutput,         \* bound: PTY reads
          MaxLeases,         \* bound: lease identifiers issued
          MaxStops           \* bound: stop requests (stopOnce lets one through)

ASSUME HubAssumption ==
    /\ Controllers \subseteq Attachments
    /\ None \notin Attachments
    /\ SubscriberBuffer \in Nat \ {0}
    /\ Sizes \subseteq Nat \ {0}
    /\ MaxOutput \in Nat
    /\ MaxLeases \in Nat
    /\ MaxStops \in {0, 1}

VARIABLES
    hub,        \* the hub's fields and its subscriptions, guarded by mu
    replay,     \* hub.replay
    controlMu,  \* the attachment whose PTY call holds controlMu, or None
    proc,       \* the agent: unstarted, running, exited (p.exit set), done (hub told)
    stop,       \* how far the one agentProcess.terminate has come
    serving,    \* run.go: setProcess is done and the API accepts connections
    pc,         \* what each attachment's handler is doing
    using,      \* the lease presented by the handler's current PTY call, else 0
    reply,      \* the frame the handler is about to hand to hub.send
    initial,    \* subscription.initial, less what the writer has written
    conn,       \* whether each WebSocket is up
    view        \* what has been written to each client

handlerVars == <<pc, using, reply, initial, conn, view>>
procVars == <<proc, stop, serving>>
vars == <<hub, replay, controlMu, procVars, handlerVars>>

-----------------------------------------------------------------------------
(* Frames.  `lease' is used by attached, `seq' by output (its number) and  *)
(* replay_gap (its earliestSequence).  A pong or protocol error is an      *)
(* "answer": it takes a place in a queue and says nothing else here.       *)

FrameTypes == {"attached", "output", "replay_gap", "controller_revoked", "exit", "answer"}
Frame == [type : FrameTypes, lease : Nat, seq : Nat]

Simple(t) == [type |-> t, lease |-> 0, seq |-> 0]
Attached(l) == [type |-> "attached", lease |-> l, seq |-> 0]
Output(n) == [type |-> "output", lease |-> 0, seq |-> n]
ReplayGap(n) == [type |-> "replay_gap", lease |-> 0, seq |-> n]
NoReply == Simple("answer")

NoCursor == -1    \* an absent afterSequence, or a position the client was told is lost

View == [cursor : Nat \cup {NoCursor}, lease : Nat, exited : BOOLEAN]
NoView == [cursor |-> NoCursor, lease |-> 0, exited |-> FALSE]

Lease == [attachment : Attachments \cup {None}, lease : Nat, expired : BOOLEAN]
NoLease == [attachment |-> None, lease |-> 0, expired |-> FALSE]

HubState ==
    [state : {"starting", "running", "exited"},
     exit : BOOLEAN,                              \* h.exit # nil
     subscribers : SUBSET Attachments,
     controller : Lease,
     issued : Nat,                                \* leases newID has produced
     role : [Attachments -> {"control", "observe"}],
     leaseID : [Attachments -> Nat],              \* 0 for ""
     queue : [Attachments -> Seq(Frame)],
     closed : SUBSET Attachments]                 \* subscription.done is closed

\* Frames, leases and views are what they are declared to be, and no subscription
\* holds more than its channel's capacity.
TypeOK ==
    /\ hub \in HubState
    /\ \A a \in Attachments : Len(hub.queue[a]) <= SubscriberBuffer
    /\ replay.latest \in Nat /\ replay.frames \in Seq(Retained)
    /\ controlMu \in Attachments \cup {None}
    /\ proc \in {"unstarted", "running", "exited", "done"}
    /\ stop \in {"none", "grace", "killed", "returned"}
    /\ serving \in BOOLEAN
    /\ pc \in [Attachments -> {"idle", "reading", "calling", "reply", "closing", "gone"}]
    /\ using \in [Attachments -> Nat]
    /\ reply \in [Attachments -> Frame]
    /\ initial \in [Attachments -> Seq(Frame)]
    /\ conn \in [Attachments -> {"up", "down"}]
    /\ view \in [Attachments -> View]

Init ==
    /\ hub = [state |-> "starting", exit |-> FALSE, subscribers |-> {},
              controller |-> NoLease, issued |-> 0,
              role |-> [a \in Attachments |-> "observe"],
              leaseID |-> [a \in Attachments |-> 0],
              queue |-> [a \in Attachments |-> << >>], closed |-> {}]
    /\ replay = newReplayBuffer
    /\ controlMu = None
    /\ proc = "unstarted" /\ stop = "none" /\ serving = FALSE
    /\ pc = [a \in Attachments |-> "idle"]
    /\ using = [a \in Attachments |-> 0]
    /\ reply = [a \in Attachments |-> NoReply]
    /\ initial = [a \in Attachments |-> << >>]
    /\ conn = [a \in Attachments |-> "down"]
    /\ view = [a \in Attachments |-> NoView]

-----------------------------------------------------------------------------
(* The hub's ...Locked helpers, as functions of its state.                 *)

\* Fault: a queue one frame longer than its channel.
sendPastCapacity(h, a, f) ==
    IF Len(h.queue[a]) <= SubscriberBuffer
    THEN [h EXCEPT !.queue = [@ EXCEPT ![a] = Append(@, f)]]
    ELSE h

\* A full queue evicts its subscriber, and the lease with it.
sendLocked(h, a, f) ==
    IF Len(h.queue[a]) < SubscriberBuffer
    THEN [h EXCEPT !.queue = [h.queue EXCEPT ![a] = Append(h.queue[a], f)]]
    ELSE [h EXCEPT !.subscribers = @ \ {a},
                   !.closed = @ \cup {a},
                   !.controller = IF @.attachment = a THEN NoLease ELSE @]

broadcastLocked(h, f) ==
    LET slow == {a \in h.subscribers : Len(h.queue[a]) >= SubscriberBuffer}
        quick == h.subscribers \ slow
    IN  [h EXCEPT !.subscribers = quick,
                  !.closed = @ \cup slow,
                  !.controller = IF @.attachment \in slow THEN NoLease ELSE @,
                  !.queue = [a \in Attachments |->
                                IF a \in quick THEN Append(@[a], f) ELSE @[a]]]

grantControllerLocked(h, a) ==
    [h EXCEPT !.issued = @ + 1,
              !.role = [@ EXCEPT ![a] = "control"],
              !.leaseID = [@ EXCEPT ![a] = h.issued + 1],
              !.controller = [attachment |-> a, lease |-> h.issued + 1, expired |-> FALSE]]

\* Fault: the subscription keeps the identifier of a lease it has lost.
DemotedKeepsLease(h, a) ==
    sendLocked([h EXCEPT !.role = [@ EXCEPT ![a] = "observe"]], a, Simple("controller_revoked"))

\* Fault: the holder is demoted without being told.
DemotedUntold(h, a) ==
    [h EXCEPT !.role = [@ EXCEPT ![a] = "observe"],
              !.leaseID = [@ EXCEPT ![a] = 0]]

\* The holder, if still subscribed, is demoted and told.
Demoted(h, a) ==
    sendLocked([h EXCEPT !.role = [@ EXCEPT ![a] = "observe"],
                         !.leaseID = [@ EXCEPT ![a] = 0]],
               a, Simple("controller_revoked"))

revokeControllerLocked(h) ==
    LET a == h.controller.attachment
        told == IF a \in h.subscribers THEN Demoted(h, a) ELSE h
    IN  IF a = None THEN h ELSE [told EXCEPT !.controller = NoLease]

expireControllerLocked(h) == IF h.controller.expired THEN revokeControllerLocked(h) ELSE h

\* touch, and the refresh of expiresAt in acknowledge
Touched(h, a) ==
    IF h.controller.attachment = a THEN [h EXCEPT !.controller = [@ EXCEPT !.expired = FALSE]] ELSE h

authorizedController(h, a, l) ==
    /\ h.controller.attachment = a
    /\ h.controller.lease = l

\* The refresh of expiresAt that ends writeInput and resize.
Refreshed(h, a, l) == IF authorizedController(h, a, l) THEN Touched(h, a) ELSE h

-----------------------------------------------------------------------------
(* The agent process and run.go.                                           *)

\* Fault: the lease is moved without regard to a PTY call in progress.
ControlIgnored == TRUE

\* controlMu can be acquired.  It is held from one step to the next only by a PTY
\* call in writeInput or resize.
ControlFree == controlMu = None

\* Fault: wait does not wait for readDone.
ReadsOn == proc # "unstarted"

\* readOutput still runs and the PTY is open.  The agent's death is not a step of
\* its own: until wait has seen readDone the runner cannot tell.
TerminalOpen == proc = "running"

\* start launches readOutput and wait before execute reaches setProcess.
Start ==
    /\ proc = "unstarted"
    /\ proc' = "running"
    /\ UNCHANGED <<hub, replay, controlMu, stop, serving, handlerVars>>

setProcess ==
    /\ proc # "unstarted" /\ ~serving
    /\ serving' = TRUE
    /\ hub' = [hub EXCEPT !.state = IF @ = "starting" THEN "running" ELSE @]
    /\ UNCHANGED <<replay, controlMu, proc, stop, handlerVars>>

\* One PTY read handed to the hub.  It takes mu only.
publishOutput(size) ==
    /\ TerminalOpen
    /\ replay.latest < MaxOutput
    /\ append(replay, size, replay')
    /\ hub' = broadcastLocked(hub, Output(replay.latest + 1))
    /\ UNCHANGED <<controlMu, procVars, handlerVars>>

\* wait: the agent is dead, readOutput has returned (by itself, or because wait
\* closed the terminal after 250 ms) and p.exit is set; the hub has not been told.
wait ==
    /\ proc = "running"
    /\ proc' = "exited"
    /\ UNCHANGED <<hub, replay, controlMu, stop, serving, handlerVars>>

publishExit ==
    /\ proc = "exited"
    /\ ControlFree
    /\ proc' = "done"
    /\ hub' = IF hub.exit THEN hub
              ELSE broadcastLocked(
                     revokeControllerLocked([hub EXCEPT !.state = "exited", !.exit = TRUE]),
                     Simple("exit"))
    /\ UNCHANGED <<replay, controlMu, stop, serving, handlerVars>>

\* handleStop, or execute on SIGTERM; stopOnce lets the first call through.
\* The SIGTERM may be ignored by the agent, or find its process group gone already.
terminate ==
    /\ serving /\ stop = "none" /\ MaxStops = 1
    /\ stop' \in IF proc \in {"exited", "done"} THEN {"returned"} ELSE {"grace", "returned"}
    /\ UNCHANGED <<hub, replay, controlMu, proc, serving, handlerVars>>

GraceExpires ==
    /\ stop = "grace" /\ proc # "done"
    /\ stop' = "killed"
    /\ UNCHANGED <<hub, replay, controlMu, proc, serving, handlerVars>>

TerminateReturns ==
    /\ stop \in {"grace", "killed"} /\ proc = "done"
    /\ stop' = "returned"
    /\ UNCHANGED <<hub, replay, controlMu, proc, serving, handlerVars>>

\* Time: the lease's TTL passes without a refresh.
LeaseTimeout ==
    /\ hub.controller.attachment # None /\ ~hub.controller.expired
    /\ hub' = [hub EXCEPT !.controller = [@ EXCEPT !.expired = TRUE]]
    /\ UNCHANGED <<replay, controlMu, procVars, handlerVars>>

\* Fault: a lease whose holder is no longer subscribed is not reaped.
ReapSubscribedLease ==
    /\ serving /\ ControlFree
    /\ hub.controller.expired /\ hub.controller.attachment \in hub.subscribers
    /\ hub' = expireControllerLocked(hub)
    /\ UNCHANGED <<replay, controlMu, procVars, handlerVars>>

\* runLeaseReaper, on a tick that finds the lease expired.
ReapLease ==
    /\ serving /\ ControlFree
    /\ hub.controller.expired
    /\ hub' = expireControllerLocked(hub)
    /\ UNCHANGED <<replay, controlMu, procVars, handlerVars>>

-----------------------------------------------------------------------------
(* Attaching and detaching.                                                *)

\* The checks attach makes after expiring a stale lease.
AttachRefused(h, r, after, take) ==
    \/ after # NoCursor /\ ~afterValid(replay, after)
    \/ r = "control" /\ h.controller # NoLease /\ ~take
    \/ r = "control" /\ h.state = "running" /\ ~TerminalOpen   \* invalid_resize

\* Refused before any lock is taken: no attach frame in time, one that is malformed,
\* a bad terminal size, or a role the credential does not allow.
AttachRejected(a) ==
    /\ serving /\ pc[a] = "idle"
    /\ pc' = [pc EXCEPT ![a] = "gone"]
    /\ UNCHANGED <<hub, replay, controlMu, procVars, using, reply, initial, conn, view>>

\* Refused with the locks held; the expiry it began with stands.
AttachFails(a, r, after, take) ==
    /\ serving /\ pc[a] = "idle" /\ ControlFree
    /\ r = "control" => a \in Controllers
    /\ LET h == expireControllerLocked(hub) IN
        /\ AttachRefused(h, r, after, take)
        /\ hub' = h
    /\ pc' = [pc EXCEPT ![a] = "gone"]
    /\ UNCHANGED <<replay, controlMu, procVars, using, reply, initial, conn, view>>

\* Fault: an attachment that comes after the exit is not told of it.
InitialWithoutExit(h, a, after) ==
    LET missed == IF after = NoCursor THEN << >> ELSE afterFrames(replay, after)
    IN  <<Attached(h.leaseID[a])>> \o [i \in DOMAIN missed |-> Output(missed[i].seq)]

\* The frames an attachment is owed at once: attached, what it missed, the exit.
InitialFrames(h, a, after) ==
    LET missed == IF after = NoCursor THEN << >> ELSE afterFrames(replay, after)
        gap == IF after # NoCursor /\ afterGap(replay, after)
               THEN <<ReplayGap(earliest(replay))>> ELSE << >>
        exit == IF h.exit THEN <<Simple("exit")>> ELSE << >>
    IN  <<Attached(h.leaseID[a])>> \o gap
            \o [i \in DOMAIN missed |-> Output(missed[i].seq)] \o exit

attach(a, r, after, take) ==
    /\ serving /\ pc[a] = "idle" /\ ControlFree
    /\ r = "control" => a \in Controllers /\ hub.issued < MaxLeases
    /\ LET h == expireControllerLocked(hub)
           freed == IF take THEN revokeControllerLocked(h) ELSE h
           granted == IF r = "control" THEN grantControllerLocked(freed, a) ELSE h
       IN  /\ ~AttachRefused(h, r, after, take)
           /\ hub' = [granted EXCEPT !.subscribers = @ \cup {a}]
           /\ initial' = [initial EXCEPT ![a] = InitialFrames(granted, a, after)]
    /\ pc' = [pc EXCEPT ![a] = "reading"]
    /\ conn' = [conn EXCEPT ![a] = "up"]
    /\ view' = [view EXCEPT ![a].cursor = IF after = NoCursor THEN replay.latest ELSE after]
    /\ UNCHANGED <<replay, controlMu, procVars, using, reply>>

\* The connection ends, and with it what its client could still be sent.
Disconnect(a) ==
    /\ conn[a] = "up"
    /\ conn' = [conn EXCEPT ![a] = "down"]
    /\ initial' = [initial EXCEPT ![a] = << >>]
    /\ view' = [view EXCEPT ![a] = NoView]
    /\ UNCHANGED <<hub, replay, controlMu, procVars, pc, using, reply>>

\* The network, or a write timeout, takes the connection away.
ConnectionLost(a) == Disconnect(a)

\* The reader finds subscription.done closed and cancels the connection.
SeesDone(a) ==
    /\ pc[a] = "reading" /\ a \in hub.closed
    /\ Disconnect(a)

\* A subscription nobody refers to any more.
Forgotten(h, a) ==
    [h EXCEPT !.queue = [@ EXCEPT ![a] = << >>],
              !.leaseID = [@ EXCEPT ![a] = 0],
              !.role = [@ EXCEPT ![a] = "observe"]]

\* The handler returns: its deferred detach.
detach(a) ==
    /\ pc[a] \in {"reading", "closing"} /\ conn[a] = "down"
    /\ ControlFree
    /\ pc' = [pc EXCEPT ![a] = "gone"]
    /\ hub' = IF a \notin hub.subscribers THEN Forgotten(hub, a)
              ELSE [Forgotten(hub, a) EXCEPT
                               !.subscribers = @ \ {a},
                               !.controller = IF @.attachment = a THEN NoLease ELSE @]
    /\ UNCHANGED <<replay, controlMu, procVars, using, reply, initial, conn, view>>

-----------------------------------------------------------------------------
(* handleClientFrame, one action per frame type.                           *)

Handles(a) == pc[a] = "reading" /\ conn[a] = "up"

\* Fault: a takeover is answered without its lease.
AnswersPlainly(a, f) ==
    /\ pc' = [pc EXCEPT ![a] = "reply"]
    /\ reply' = [reply EXCEPT ![a] = Simple("answer")]

Answers(a, f) ==
    /\ pc' = [pc EXCEPT ![a] = "reply"]
    /\ reply' = [reply EXCEPT ![a] = f]

\* A frame answered without looking at the hub: no lease, no sequence, a bad nonce.
Malformed(a) ==
    /\ Handles(a)
    /\ Answers(a, Simple("answer"))
    /\ UNCHANGED <<hub, replay, controlMu, procVars, using, initial, conn, view>>

\* An unknown frame type, or a message that cannot be decoded, ends the attachment.
Unsupported(a) ==
    /\ Handles(a)
    /\ hub' = [hub EXCEPT !.closed = @ \cup {a}]
    /\ pc' = [pc EXCEPT ![a] = "closing"]
    /\ UNCHANGED <<replay, controlMu, procVars, using, reply, initial, conn, view>>

\* writeInput and resize, which differ only in the PTY call: expire, authorise,
\* drop mu and keep controlMu for the call.
writeInput(a, l) ==
    /\ Handles(a)
    /\ ControlFree
    /\ LET h == expireControllerLocked(hub) IN
        /\ hub' = h
        /\ IF authorizedController(h, a, l)
           THEN /\ controlMu' = a
                /\ pc' = [pc EXCEPT ![a] = "calling"]
                /\ using' = [using EXCEPT ![a] = l]
                /\ UNCHANGED reply
           ELSE /\ Answers(a, Simple("answer"))
                /\ UNCHANGED <<controlMu, using>>
    /\ UNCHANGED <<replay, procVars, initial, conn, view>>

\* Fault: closing the terminal does not interrupt a blocked write.
writeNeverInterrupted(a, ok) ==
    /\ pc[a] = "calling" /\ TerminalOpen
    /\ controlMu' = None
    /\ using' = [using EXCEPT ![a] = 0]
    /\ pc' = [pc EXCEPT ![a] = "reading"]
    /\ hub' = Refreshed(hub, a, using[a])
    /\ UNCHANGED <<reply, replay, procVars, initial, conn, view>>

\* The PTY call returns and controlMu is released.  It succeeds only while the
\* terminal is open, and may fail at any time.
writeReturns(a, ok) ==
    /\ pc[a] = "calling"
    /\ ok => TerminalOpen
    /\ controlMu' = None
    /\ using' = [using EXCEPT ![a] = 0]
    /\ IF ok
       THEN /\ hub' = Refreshed(hub, a, using[a])
            /\ pc' = [pc EXCEPT ![a] = "reading"]
            /\ UNCHANGED reply
       ELSE /\ Answers(a, Simple("answer"))
            /\ UNCHANGED hub
    /\ UNCHANGED <<replay, procVars, initial, conn, view>>

takeover(a) ==
    /\ Handles(a)
    /\ ControlFree
    /\ LET h == expireControllerLocked(hub)
           freed == IF h.controller.attachment # a THEN revokeControllerLocked(h) ELSE h
           granted == grantControllerLocked(freed, a)
       IN  IF a \in Controllers /\ a \in hub.subscribers
           THEN /\ hub.issued < MaxLeases
                /\ hub' = granted
                /\ Answers(a, Attached(granted.leaseID[a]))
           ELSE /\ Answers(a, Simple("answer"))
                /\ UNCHANGED hub
    /\ UNCHANGED <<replay, controlMu, procVars, using, initial, conn, view>>

acknowledge(a, n) ==
    /\ Handles(a)
    /\ IF a \in hub.subscribers /\ n <= replay.latest
       THEN /\ hub' = Touched(hub, a)
            /\ UNCHANGED <<pc, reply>>
       ELSE /\ Answers(a, Simple("answer"))
            /\ UNCHANGED hub
    /\ UNCHANGED <<replay, controlMu, procVars, using, initial, conn, view>>

Pong(a) ==
    /\ Handles(a)
    /\ hub' = Touched(hub, a)
    /\ UNCHANGED <<replay, controlMu, procVars, handlerVars>>

Ping(a) ==
    /\ Handles(a)
    /\ hub' = Touched(hub, a)
    /\ Answers(a, Simple("answer"))
    /\ UNCHANGED <<replay, controlMu, procVars, using, initial, conn, view>>

\* hub.send: the answer is queued in a critical section of its own.
send(a) ==
    /\ pc[a] = "reply"
    /\ hub' = IF a \in hub.subscribers THEN sendLocked(hub, a, reply[a]) ELSE hub
    /\ pc' = [pc EXCEPT ![a] = "reading"]
    /\ reply' = [reply EXCEPT ![a] = NoReply]
    /\ UNCHANGED <<replay, controlMu, procVars, using, initial, conn, view>>

-----------------------------------------------------------------------------
(* writeFrames.                                                            *)

\* What a client following api/terminal.md holds after reading frame f.
Received(v, f) ==
    CASE f.type = "output" -> [v EXCEPT !.cursor = f.seq]
      [] f.type = "replay_gap" -> [v EXCEPT !.cursor = NoCursor]
      [] f.type = "attached" -> [v EXCEPT !.lease = f.lease]
      [] f.type = "controller_revoked" -> [v EXCEPT !.lease = 0]
      [] f.type = "exit" -> [v EXCEPT !.exited = TRUE]
      [] OTHER -> v

WriteInitial(a) ==
    /\ conn[a] = "up"
    /\ initial[a] # << >>
    /\ view' = [view EXCEPT ![a] = Received(@, Head(initial[a]))]
    /\ initial' = [initial EXCEPT ![a] = Tail(@)]
    /\ UNCHANGED <<hub, replay, controlMu, procVars, pc, using, reply, conn>>

WriteQueued(a) ==
    /\ conn[a] = "up"
    /\ initial[a] = << >> /\ hub.queue[a] # << >>
    /\ view' = [view EXCEPT ![a] = Received(@, Head(hub.queue[a]))]
    /\ hub' = [hub EXCEPT !.queue = [hub.queue EXCEPT ![a] = Tail(@)]]
    /\ UNCHANGED <<replay, controlMu, procVars, pc, using, reply, initial, conn>>

\* The select may take done before what is still queued.
WriteReason(a) ==
    /\ initial[a] = << >> /\ a \in hub.closed
    /\ Disconnect(a)

-----------------------------------------------------------------------------
ProcessNext ==
    \/ Start \/ setProcess \/ wait \/ publishExit
    \/ terminate \/ GraceExpires \/ TerminateReturns
    \/ LeaseTimeout \/ ReapLease
    \/ \E size \in Sizes : publishOutput(size)

AttachmentNext(a) ==
    \/ AttachRejected(a)
    \/ \E r \in {"control", "observe"}, after \in NoCursor..(replay.latest + 1), take \in BOOLEAN :
          AttachFails(a, r, after, take) \/ attach(a, r, after, take)
    \/ ConnectionLost(a) \/ SeesDone(a) \/ detach(a)
    \/ Malformed(a) \/ Unsupported(a) \/ takeover(a) \/ Pong(a) \/ Ping(a) \/ send(a)
    \/ \E l \in 1..hub.issued : writeInput(a, l)
    \/ \E ok \in BOOLEAN : writeReturns(a, ok)
    \/ \E n \in 0..(replay.latest + 1) : acknowledge(a, n)
    \/ WriteInitial(a) \/ WriteQueued(a) \/ WriteReason(a)

Next == ProcessNext \/ \E a \in Attachments : AttachmentNext(a)

Spec == Init /\ [][Next]_vars

(***************************************************************************)
(* Fairness.  Go schedules every runnable goroutine and a blocked          *)
(* sync.Mutex acquisition is served in turn, so what waits for controlMu   *)
(* gets strong fairness.  The grace and lease timers fire.  A killed       *)
(* process dies.  A PTY call on a closed terminal returns; one on an open  *)
(* terminal returns only if the agent reads its input, which is not        *)
(* assumed.  Clients owe nothing, but a connection that is up accepts      *)
(* frames.                                                                 *)
(***************************************************************************)
Fairness ==
    /\ WF_vars(Start) /\ WF_vars(setProcess)
    /\ WF_vars(stop = "killed" /\ wait) /\ SF_vars(publishExit)
    /\ WF_vars(GraceExpires) /\ WF_vars(TerminateReturns)
    /\ WF_vars(LeaseTimeout) /\ SF_vars(ReapLease)
    /\ \A a \in Attachments :
        /\ WF_vars(~TerminalOpen /\ writeReturns(a, FALSE))
        /\ WF_vars(send(a)) /\ SF_vars(detach(a))
        /\ WF_vars(WriteInitial(a)) /\ WF_vars(WriteQueued(a)) /\ WF_vars(WriteReason(a))

FairSpec == Spec /\ Fairness

-----------------------------------------------------------------------------
(* Safety.                                                                 *)

InFlight(a) == pc[a] = "calling"

\* Two attachments never write concurrently, and a write in flight is fenced: it
\* was authorised by the newest lease ever issued, so no lease moves while input
\* is on its way to the PTY, although hub.mu is free the whole time
\* (docs/runner.md: "two attachments can never write concurrently").
WriteFenced ==
    \A a \in Attachments : InFlight(a) =>
        /\ using[a] = hub.issued
        /\ hub.controller.attachment \in {a, None}
        /\ \A b \in Attachments : InFlight(b) => b = a

\* What a subscription records of its lease agrees with the hub's controller
\* after every revocation, eviction, detach, takeover and expiry.
LeaseAgreement ==
    \A a \in hub.subscribers :
        /\ hub.leaseID[a] # 0 <=> hub.controller.attachment = a
        /\ hub.leaseID[a] # 0 => hub.controller.lease = hub.leaseID[a] /\ hub.role[a] = "control"
        /\ hub.leaseID[a] = 0 => hub.role[a] = "observe"

\* The subscribers that are being written to.
Served == {a \in hub.subscribers : conn[a] = "up"}

Pipeline(a) == initial[a] \o hub.queue[a]
Positions(s, t) == {i \in 1..Len(s) : s[i].type = t}

\* The numbers of the output among frames s.
Numbers(s) == {s[i].seq : i \in Positions(s, "output")}

\* Whoever holds the lease knows it: with nothing on its way to it, the newest
\* `attached' or `controller_revoked' its client was sent names that lease, although
\* a takeover is answered in a second critical section.  (The converse fails: a
\* lease that is revoked between the two is announced after its revocation.)  And
\* detach leaves no lease behind: it is held by a subscriber or by an attachment
\* that was evicted as a slow consumer.
HolderKnowsLease ==
    /\ hub.controller.attachment \in hub.subscribers \cup hub.closed \cup {None}
    /\ \A a \in Served :
          hub.leaseID[a] # 0 /\ Pipeline(a) = << >> /\ pc[a] # "reply"
              => view[a].lease = hub.leaseID[a]

\* Replay and live output join without a gap or a duplicate: what is on its way
\* to a subscriber, after what it has been sent, is every later frame up to the
\* newest, in order, unless it was told of a replay_gap.  After that, api/terminal.md
\* says, the stream "begins at `earliestSequence`, and then continues live", which is
\* so as long as no single frame is larger than the whole buffer.
OutputContiguous ==
    \A a \in Served :
        LET p == Pipeline(a)
            out == Positions(p, "output")
            gap == Positions(p, "replay_gap")
        IN  /\ \A i, j \in out : i < j => p[i].seq < p[j].seq
            /\ \E n \in 1..(replay.latest + 1) : Numbers(p) = n..replay.latest
            /\ view[a].cursor # NoCursor /\ gap = {}
                   => Numbers(p) = (view[a].cursor + 1)..replay.latest
            /\ (\A n \in Sizes : n <= MaxBytes)
                   => \A i \in gap : Numbers(p) = p[i].seq..replay.latest

\* Every attachment gets one exit frame and no output after it, whether it was
\* subscribed when the agent exited or came later (docs/runner.md: "delivers one
\* `exit` frame per attachment").  Nor is the exit forgotten: an agent that exits before
\* execute reaches setProcess is still reported as exited.
ExitOnceAndLast ==
    /\ hub.exit <=> hub.state = "exited"
    /\ \A a \in Attachments :
          LET out == Positions(Pipeline(a), "output")
              exits == Positions(Pipeline(a), "exit")
          IN  /\ \A i, j \in exits : i = j
              /\ view[a].exited => exits = {} /\ out = {}
              /\ \A i \in out, j \in exits : i < j
              /\ a \in Served /\ hub.exit => view[a].exited \/ exits # {}

\* The replay buffer's running byte count is that of what it retains, within both
\* limits, and the retained frames end at the newest.
ReplayExact ==
    LET kept == Len(replay.frames) IN
    /\ replay.bytes = BytesOf(replay.frames, kept)
    /\ replay.bytes <= MaxBytes /\ kept <= MaxFrames
    /\ \A i \in 1..kept : replay.frames[i].seq = replay.latest - kept + i

\* A subscriber that loses its lease to anyone else finds controller_revoked in
\* its queue; it is never demoted in silence.
RevocationTold ==
    [][\A a \in hub.subscribers \cap hub'.subscribers :
          hub.leaseID[a] # 0 /\ hub'.leaseID[a] = 0 =>
              \E i \in (Len(hub.queue[a]) + 1)..Len(hub'.queue[a]) :
                  hub'.queue[a][i] = Simple("controller_revoked")]_vars

-----------------------------------------------------------------------------
(* Liveness.                                                               *)

\* terminate returns even if a PTY write was blocked on an agent that does not
\* read its input when the stop was requested: publishExit gets controlMu because
\* closing the terminal fails the write.
StopReturns == stop = "grace" ~> stop = "returned"

\* Once the agent has exited, every attachment is sent the exit or loses its
\* connection.
ExitDelivered ==
    \A a \in Attachments :
        hub.exit /\ conn[a] = "up" ~> view[a].exited \/ conn[a] = "down"

\* A lost connection gives its lease up, also when the handler was in a PTY call
\* or the attachment had been evicted, as long as PTY calls return.
DisconnectReleases ==
    []<>(controlMu = None) =>
        \A a \in Attachments :
            pc[a] # "idle" /\ conn[a] = "down" ~> hub.controller.attachment # a

-----------------------------------------------------------------------------
(* What the documentation says, where the code does otherwise.             *)

\* docs/runner.md: "An attachment disconnect only releases that attachment and
\* its controller lease."
GoneReleasesLease == \A a \in Attachments : pc[a] = "gone" => hub.controller.attachment # a
=============================================================================
