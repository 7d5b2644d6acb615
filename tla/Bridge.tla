------------------------------- MODULE Bridge -------------------------------
(***************************************************************************)
(* internal/herdrbridge: the program in a Herdr pane that keeps one        *)
(* terminal attached to an agent's runner.  It writes output to the pane,  *)
(* saves the sequence of the last frame it wrote, and attaches again with  *)
(* that cursor when a connection ends; a runner that was restarted numbers *)
(* its output from the start, under a new generation.                      *)
(*                                                                         *)
(* The runner is module Hub's, reduced to what the bridge can tell apart:  *)
(* its generation, the newest sequence, and who holds the controller       *)
(* lease.  The lease of a connection that was lost is "stale" until the    *)
(* runner notices or the lease expires.                                    *)
(***************************************************************************)
EXTENDS Integers, Sequences

CONSTANTS
    Takeover,       \* the pane was opened with --takeover
    ReplayFrames,   \* frames the runner retains for replay
    WindowTries,    \* failed attempts that use up ReconnectLimit
    MaxOutput,      \* bound: frames per generation
    MaxGenerations, \* bound: runner restarts, plus one
    MaxFaults,      \* bound: connections lost, dials and saves that fail
    MaxCrashes      \* bound: how often the bridge is killed

ASSUME BridgeAssumption ==
    /\ Takeover \in BOOLEAN
    /\ {ReplayFrames, WindowTries, MaxGenerations} \subseteq Nat \ {0}
    /\ {MaxOutput, MaxFaults, MaxCrashes} \subseteq Nat

VARIABLES
    generation, latest, lease,  \* the runner
    wire,           \* frames sent to this connection and not yet handled
    at,             \* where the bridge is
    state, saved,   \* AgentState in memory and in its file: cursor and generation
    tries,          \* failed attempts since the last connection
    screen,         \* history: the output written to the pane
    notes,          \* history: what happened since the last output written
    faults, crashes \* how much of two bounds is used up

runnerVars == <<generation, latest, lease>>
historyVars == <<screen, notes>>
boundVars == <<faults, crashes>>
vars == <<runnerVars, wire, at, state, saved, tries, historyVars, boundVars>>

Generations == 1..MaxGenerations

\* Sequence 0 stands for "no cursor" and generation 0 for "none seen".
AgentState == [after : 0..MaxOutput, generation : 0..MaxGenerations]
NoState == [after |-> 0, generation |-> 0]

Frame == [type : {"attached", "output", "replay_gap", "controller_revoked",
                  "replay_cursor_invalid", "controller_busy"},
          seq : 0..MaxOutput]
Sent(type) == [type |-> type, seq |-> 0]
Output(n) == [type |-> "output", seq |-> n]

\* Output written to the pane, and whether since the output before it a gap was
\* shown, the bridge was restarted, or it attached without a cursor.
Notes == {"gap", "restart", "blind"}
Written == [generation : Generations, seq : 1..MaxOutput, notes : SUBSET Notes]

\* Why the bridge gave up is part of where it is.
GaveUp == {"busy", "revoked", "window"}
Places == {"off", "dial", "first", "loop", "save", "backoff"} \cup GaveUp

\* A cursor and its generation are set together, and frames are on the wire only
\* of a connection.
TypeOK ==
    /\ generation \in Generations /\ latest \in 0..MaxOutput
    /\ lease \in {"none", "bridge", "stale", "other"}
    /\ wire \in Seq(Frame)
    /\ at \in Places
    /\ wire # <<>> => at \in {"first", "loop", "save"}
    /\ state \in AgentState /\ saved \in AgentState
    /\ \A s \in {state, saved} : s.after > 0 => s.generation > 0
    /\ tries \in 0..WindowTries
    /\ screen \in Seq(Written)
    /\ notes \subseteq Notes
    /\ faults \in 0..MaxFaults /\ crashes \in 0..MaxCrashes

Init ==
    /\ generation = 1 /\ latest = 0 /\ lease = "none"
    /\ wire = <<>>
    /\ at = "off"
    /\ state = NoState /\ saved = NoState
    /\ tries = 0
    /\ screen = <<>> /\ notes = {}
    /\ faults = 0 /\ crashes = 0

-----------------------------------------------------------------------------
(* The runner *)

Connected == at \in {"first", "loop", "save"}

\* The process writes; the hub numbers the output and queues it to the attachment.
publishOutput ==
    /\ latest < MaxOutput
    /\ latest' = latest + 1
    /\ wire' = IF Connected /\ lease = "bridge" THEN Append(wire, Output(latest + 1)) ELSE wire
    /\ UNCHANGED <<generation, lease, at, state, saved, tries, historyVars, boundVars>>

\* Silence outlasts the lease, or another client takes it over.
Revoked(holder) ==
    /\ lease' = holder
    /\ wire' = IF lease = "bridge" THEN Append(wire, Sent("controller_revoked")) ELSE wire
    /\ UNCHANGED <<generation, latest, at, state, saved, tries, historyVars, boundVars>>

LeaseExpires == lease = "bridge" /\ Revoked("none")
OtherTakesOver == lease \in {"none", "bridge", "stale"} /\ Revoked("other")

\* The runner notices a lost connection, its lease expires, or the other client leaves.
LeaseReleased == lease \in {"stale", "other"} /\ Revoked("none")

\* The container restarts: a new generation, with nothing to replay.  The bridge
\* finishes with the frame it is handling before it sees the connection end.
RunnerRestarts ==
    /\ generation < MaxGenerations /\ at # "save"
    /\ generation' = generation + 1 /\ latest' = 0 /\ lease' = "none"
    /\ wire' = <<>>
    /\ at' = IF Connected THEN "backoff" ELSE at
    /\ UNCHANGED <<state, saved, tries, historyVars, boundVars>>

earliest == IF latest > ReplayFrames THEN latest - ReplayFrames + 1 ELSE 1

\* What the hub's attach queues first: attached, the notice of a gap, the replay.
Replayed(cursor) ==
    IF cursor = 0 THEN <<>>
    ELSE LET from == IF cursor + 1 < earliest THEN earliest ELSE cursor + 1 IN
         (IF cursor + 1 < earliest THEN <<Sent("replay_gap")>> ELSE <<>>)
            \o [i \in 1..(latest - from + 1) |-> Output(from + i - 1)]

-----------------------------------------------------------------------------
(* The bridge *)

\* A connection that ends leaves its lease until the runner sees the end of it.
Disconnects ==
    /\ wire' = <<>>
    /\ lease' \in (IF lease = "bridge" THEN {"none", "stale"} ELSE {lease})

\* Save replaces the file atomically; its error is ignored.
Save(new) ==
    \/ saved' = new /\ UNCHANGED faults
    \/ faults < MaxFaults /\ faults' = faults + 1 /\ UNCHANGED saved

\* Run loads the state file, when the agent is running.
Run ==
    /\ at \in {"off"} \cup GaveUp
    /\ state' = saved
    /\ tries' = 0
    /\ notes' = notes \cup {"restart"}
    /\ at' = "dial"
    /\ UNCHANGED <<runnerVars, wire, saved, screen, boundVars>>

\* runConnection dials, sends attach with the cursor, and the hub answers.
\* A cursor that is ahead of the runner is refused before the lease is looked at.
Attach ==
    /\ at = "dial"
    /\ at' = "first"
    /\ \/ /\ state.after > latest
          /\ wire' = <<Sent("replay_cursor_invalid")>>
          /\ UNCHANGED lease
       \/ /\ state.after <= latest /\ lease # "none" /\ ~Takeover
          /\ wire' = <<Sent("controller_busy")>>
          /\ UNCHANGED lease
       \/ /\ state.after <= latest /\ (lease = "none" \/ Takeover)
          /\ wire' = <<Sent("attached")>> \o Replayed(state.after)
          /\ lease' = "bridge"
    /\ notes' = IF state.after = 0 THEN notes \cup {"blind"} ELSE notes
    /\ UNCHANGED <<generation, latest, state, saved, tries, screen, boundVars>>

\* An attempt that fails before it was connected counts against the window.
AttemptFails ==
    /\ tries < WindowTries
    /\ tries' = tries + 1
    /\ at' = "backoff"

DialFails ==
    /\ at = "dial" /\ faults < MaxFaults
    /\ faults' = faults + 1
    /\ AttemptFails
    /\ UNCHANGED <<runnerVars, wire, state, saved, historyVars, crashes>>

\* bridgeProtocolError: a busy controller needs attention; every other refusal,
\* that of the cursor too, is retried as it was.
FirstRefused ==
    /\ at = "first"
    /\ \/ Head(wire).type = "controller_busy" /\ at' = "busy" /\ UNCHANGED tries
       \/ Head(wire).type = "replay_cursor_invalid" /\ AttemptFails
    /\ wire' = <<>>
    /\ UNCHANGED <<runnerVars, state, saved, historyVars, boundVars>>

OtherGeneration == state.generation # 0 /\ state.generation # generation /\ state.after # 0

\* The runner was restarted: the cursor is dropped and the connection made anew.
FirstResets ==
    /\ at = "first" /\ Head(wire).type = "attached" /\ OtherGeneration
    /\ state' = [after |-> 0, generation |-> generation]
    /\ Save(state')
    /\ at' = "backoff"
    /\ Disconnects
    /\ UNCHANGED <<generation, latest, tries, historyVars, crashes>>

FirstAttached ==
    /\ at = "first" /\ Head(wire).type = "attached" /\ ~OtherGeneration
    /\ state' = [state EXCEPT !.generation = generation]
    /\ Save(state')
    /\ tries' = 0
    /\ at' = "loop"
    /\ wire' = Tail(wire)
    /\ UNCHANGED <<runnerVars, historyVars, crashes>>

\* Fault: the cursor is saved before the output is written.
SavesBeforeWriting ==
    /\ at = "loop" /\ wire # <<>> /\ Head(wire).type = "output"
    /\ state' = [state EXCEPT !.after = Head(wire).seq]
    /\ saved' = state'
    /\ at' = "save"
    /\ UNCHANGED <<runnerVars, wire, tries, historyVars, boundVars>>

\* The frame loop writes output to the pane first ...
WritesOutput ==
    /\ at = "loop" /\ wire # <<>> /\ Head(wire).type = "output"
    /\ screen' = Append(screen, [generation |-> generation, seq |-> Head(wire).seq,
                                 notes |-> notes])
    /\ notes' = {}
    /\ at' = "save"
    /\ UNCHANGED <<runnerVars, wire, state, saved, tries, boundVars>>

\* Fault: the cursor is the next sequence wanted less one too many.
SavesPrevious ==
    /\ at = "save"
    /\ state' = [state EXCEPT !.after = Head(wire).seq - 1]
    /\ Save(state')
    /\ at' = "loop"
    /\ wire' = Tail(wire)
    /\ UNCHANGED <<runnerVars, tries, historyVars, crashes>>

\* ... and then records and acknowledges it.
SavesCursor ==
    /\ at = "save"
    /\ state' = [state EXCEPT !.after = Head(wire).seq]
    /\ Save(state')
    /\ at' = "loop"
    /\ wire' = Tail(wire)
    /\ UNCHANGED <<runnerVars, tries, historyVars, crashes>>

ShowsGap ==
    /\ at = "loop" /\ wire # <<>> /\ Head(wire).type = "replay_gap"
    /\ notes' = notes \cup {"gap"}
    /\ wire' = Tail(wire)
    /\ UNCHANGED <<runnerVars, at, state, saved, tries, screen, boundVars>>

LeaseLost ==
    /\ at = "loop" /\ wire # <<>> /\ Head(wire).type = "controller_revoked"
    /\ at' = "revoked"
    /\ wire' = <<>>
    /\ UNCHANGED <<runnerVars, state, saved, tries, historyVars, boundVars>>

\* The network, the gateway or the runner's slow-consumer limit ends the connection, or
\* the bridge does after a write to the pane that failed; frames on the way, and the one
\* that could not be written, are lost with it.
ConnectionLost ==
    /\ at \in {"first", "loop"} /\ faults < MaxFaults
    /\ faults' = faults + 1
    /\ Disconnects
    /\ IF at = "first" THEN AttemptFails ELSE at' = "backoff" /\ UNCHANGED tries
    /\ UNCHANGED <<generation, latest, state, saved, historyVars, crashes>>

\* Fault: a reconnection starts without the cursor.
RetryForgetful ==
    /\ at = "backoff"
    /\ at' = IF tries < WindowTries THEN "dial" ELSE "window"
    /\ state' = [state EXCEPT !.after = 0]
    /\ UNCHANGED <<runnerVars, wire, saved, tries, historyVars, boundVars>>

\* Run waits and tries again, until the window has passed.
Retry ==
    /\ at = "backoff"
    /\ at' = IF tries < WindowTries THEN "dial" ELSE "window"
    /\ UNCHANGED <<runnerVars, wire, state, saved, tries, historyVars, boundVars>>

\* The pane is closed or Herdr restarts: the bridge is killed at any point.
Crash ==
    /\ at \in Places \ ({"off"} \cup GaveUp) /\ crashes < MaxCrashes
    /\ crashes' = crashes + 1
    /\ at' = "off"
    /\ Disconnects
    /\ UNCHANGED <<generation, latest, state, saved, tries, historyVars, faults>>

RunnerNext ==
    publishOutput \/ LeaseExpires \/ OtherTakesOver \/ LeaseReleased \/ RunnerRestarts

BridgeNext ==
    \/ Attach \/ FirstRefused \/ FirstResets \/ FirstAttached \/ WritesOutput \/ SavesCursor
    \/ ShowsGap \/ LeaseLost \/ Retry

Next == RunnerNext \/ BridgeNext \/ Run \/ DialFails \/ ConnectionLost \/ Crash

Spec == Init /\ [][Next]_vars

\* The bridge's loop goes on, a pane that was closed is opened again, and the
\* runner's reaper and its reads end a lease whose connection is gone.  The process
\* need not write, and nobody need reopen a pane that asks for attention.
FairSpec ==
    Spec /\ WF_vars(BridgeNext) /\ WF_vars(at = "off" /\ Run)
         /\ WF_vars(lease = "stale" /\ LeaseReleased)

-----------------------------------------------------------------------------
(* Properties *)

\* Within a generation the pane shows output in order.  Nothing is left out unless
\* a gap is shown or the bridge had no cursor to attach with, and nothing is shown
\* again unless the bridge was restarted before it had saved its cursor.
ShownInOrder ==
    \A i \in 1..(Len(screen) - 1) :
        LET a == screen[i]
            b == screen[i + 1]
        IN /\ a.generation <= b.generation
           /\ a.generation = b.generation
                => \/ b.seq = a.seq + 1
                   \/ b.seq > a.seq + 1 /\ b.notes \cap {"gap", "blind"} # {}
                   \/ b.seq <= a.seq /\ "restart" \in b.notes

\* The cursor never names output the pane has not shown, in memory or on disk,
\* whichever of them a restart uses: the write comes before the save.  What is on the
\* wire went with the last connection, so that no frame of it can move the cursor.
CursorShown ==
    /\ TypeOK
    /\ \A s \in {state, saved} :
          s.after > 0 => \E i \in 1..Len(screen) :
                            screen[i].generation = s.generation /\ screen[i].seq = s.after

Shows(g, n) == \E i \in 1..Len(screen) : screen[i].generation = g /\ screen[i].seq >= n

\* A pane that has saved a cursor in the runner's generation comes to show all the
\* runner writes, through lost connections and restarts of the bridge, unless the
\* runner itself is restarted or the bridge asks for attention.
CatchesUp ==
    \A g \in Generations, n \in 1..MaxOutput :
        (generation = g /\ latest >= n /\ saved.generation = g /\ saved.after > 0)
            ~> (Shows(g, n) \/ generation # g \/ at \in GaveUp)
=============================================================================
