---------------------------- MODULE BridgeInput ----------------------------
(***************************************************************************)
(* The way in of internal/herdrbridge/terminal.go: what is typed in a pane *)
(* and the size of its terminal, on their way to the runner.  One reader   *)
(* of the terminal and one watcher of its size feed two channels for as    *)
(* long as the bridge runs; every connection has a writer of its own that  *)
(* takes from both.  A connection that ends cancels its writer, which may  *)
(* be anywhere, and does not wait for it.                                  *)
(*                                                                         *)
(* The way out is module Bridge.  The runner is module Hub's, reduced to   *)
(* its lease.  The lease, the writers and the wires are named by the       *)
(* number of the connection they belong to.                                *)
(***************************************************************************)
EXTENDS Integers, Sequences, SequencesExt

CONSTANTS
    Takeover,       \* the pane was opened with --takeover
    InputCapacity, ResizeCapacity,  \* of the two channels
    MaxChunks,      \* bound: chunks typed
    MaxSizes,       \* bound: sizes the terminal has
    MaxConnections  \* bound: connections; the last one does not fail

ASSUME BridgeInputAssumption ==
    /\ Takeover \in BOOLEAN
    /\ {InputCapacity, ResizeCapacity, MaxSizes, MaxConnections} \subseteq Nat \ {0}
    /\ MaxChunks \in Nat

VARIABLES
    typed, size, signal,    \* chunks read from the terminal; its size; a SIGWINCH not yet handled
    inputBytes, resize,     \* the two channels
    at, conn,               \* where runConnection is, and its connection
    ctx,                    \* the context of each connection
    writer, held,           \* where each writer is, and the frame it is about to write
    wire,                   \* frames on their way to the runner
    lease, pty, received,   \* the runner: the controller, the size, the input written
    lost,                   \* history: chunks that went with a connection
    sizeLost                \* history: a writer took a size after its end, since the last attach

terminalVars == <<typed, size, signal>>
channelVars == <<inputBytes, resize>>
bridgeVars == <<at, conn, ctx>>
writerVars == <<writer, held>>
runnerVars == <<lease, pty, received>>
historyVars == <<lost, sizeLost>>
vars == <<terminalVars, channelVars, bridgeVars, writerVars, wire, runnerVars, historyVars>>

Connections == 1..MaxConnections
Chunks == 1..MaxChunks
Sizes == 1..MaxSizes

\* The lease is 0 when nobody holds it.
Frame == [type : {"attach", "resize"}, value : Sizes] \cup [type : {"input"}, value : Chunks]
Attach(s) == [type |-> "attach", value |-> s]
Resize(s) == [type |-> "resize", value |-> s]
Input(n) == [type |-> "input", value |-> n]
ChunksIn(frames) == {n \in Chunks : \E i \in 1..Len(frames) : frames[i] = Input(n)}

\* Neither channel holds more than it can, and only a connection's own writer and
\* attach frame put something on its wire.
TypeOK ==
    /\ typed \in 0..MaxChunks /\ size \in Sizes /\ signal \in BOOLEAN
    /\ inputBytes \in Seq(Chunks) /\ Len(inputBytes) <= InputCapacity
    /\ resize \in Seq(Sizes) /\ Len(resize) <= ResizeCapacity
    /\ at \in {"dial", "first", "loop", "backoff", "stopped"} /\ conn \in 0..MaxConnections
    /\ ctx \in [Connections -> {"none", "live", "done"}]
    /\ writer \in [Connections -> {"off", "select", "write", "end"}]
    /\ held \in [Connections -> Seq(Frame)]
    /\ wire \in [Connections -> Seq(Frame)]
    /\ \A e \in Connections :
          /\ Len(held[e]) = IF writer[e] = "write" THEN 1 ELSE 0
          /\ e > conn => wire[e] = <<>> /\ ctx[e] = "none"
    /\ lease \in 0..MaxConnections /\ pty \in Sizes /\ received \in Seq(Chunks)
    /\ lost \subseteq Chunks /\ sizeLost \in BOOLEAN

Init ==
    /\ typed = 0 /\ size = 1 /\ signal = TRUE
    /\ inputBytes = <<>> /\ resize = <<>>
    /\ at = "dial" /\ conn = 0
    /\ ctx = [e \in Connections |-> "none"]
    /\ writer = [e \in Connections |-> "off"] /\ held = [e \in Connections |-> <<>>]
    /\ wire = [e \in Connections |-> <<>>]
    /\ lease = 0 /\ pty = 1 /\ received = <<>>
    /\ lost = {} /\ sizeLost = FALSE

-----------------------------------------------------------------------------
(* startTerminalReaders *)

\* Fault: what does not fit into the channel is dropped.
ReadsOrDrops ==
    /\ typed < MaxChunks
    /\ typed' = typed + 1
    /\ inputBytes' = IF Len(inputBytes) < InputCapacity THEN Append(inputBytes, typed + 1)
                     ELSE inputBytes
    /\ UNCHANGED <<size, signal, resize, bridgeVars, writerVars, wire, runnerVars, historyVars>>

\* A chunk is read; the reader waits for room in the channel.
Reads ==
    /\ typed < MaxChunks /\ Len(inputBytes) < InputCapacity
    /\ typed' = typed + 1
    /\ inputBytes' = Append(inputBytes, typed + 1)
    /\ UNCHANGED <<size, signal, resize, bridgeVars, writerVars, wire, runnerVars, historyVars>>

\* The terminal is resized; signals of which one is still to be handled are one.
Resized ==
    /\ size < MaxSizes
    /\ size' = size + 1 /\ signal' = TRUE
    /\ UNCHANGED <<typed, channelVars, bridgeVars, writerVars, wire, runnerVars, historyVars>>

\* Fault: a full channel keeps what it has.
WithSizeIfRoom == IF Len(resize) < ResizeCapacity THEN Append(resize, size) ELSE resize

\* The channel with the present size in it: a full one loses its oldest.
WithSize == Append(IF Len(resize) < ResizeCapacity THEN resize ELSE Tail(resize), size)

publishSize ==
    /\ signal
    /\ signal' = FALSE
    /\ resize' = WithSize
    /\ UNCHANGED <<typed, size, inputBytes, bridgeVars, writerVars, wire, runnerVars, historyVars>>

-----------------------------------------------------------------------------
(* runConnection and Run *)

\* The attach frame carries the size the terminal has now.
Dial ==
    /\ at = "dial" /\ conn < MaxConnections
    /\ conn' = conn + 1 /\ at' = "first"
    /\ ctx' = [ctx EXCEPT ![conn + 1] = "live"]
    /\ wire' = [wire EXCEPT ![conn + 1] = <<Attach(size)>>]
    /\ sizeLost' = FALSE
    /\ UNCHANGED <<terminalVars, channelVars, writerVars, runnerVars, lost>>

\* The attached frame arrives, and the connection gets its writer.
Attached ==
    /\ at = "first" /\ lease = conn
    /\ at' = "loop"
    /\ writer' = [writer EXCEPT ![conn] = "select"]
    /\ UNCHANGED <<terminalVars, channelVars, conn, ctx, held, wire, runnerVars, historyVars>>

\* runConnection returns: its writer is cancelled, the connection closed.
Ends(next) ==
    /\ at \in {"first", "loop"}
    /\ at' = next
    /\ ctx' = [ctx EXCEPT ![conn] = "done"]
    /\ UNCHANGED conn

\* The connection is lost before or after it was attached.
ConnectionLost ==
    /\ conn < MaxConnections
    /\ Ends("backoff")
    /\ UNCHANGED <<terminalVars, channelVars, writerVars, wire, runnerVars, historyVars>>

\* controller_revoked, controller_busy or the runner's refusal of a frame: attention is asked for.
Stops ==
    /\ \/ at = "loop" /\ lease # conn
       \/ at = "first" /\ lease # conn /\ wire[conn] = <<>>
    /\ Ends("stopped")
    /\ UNCHANGED <<terminalVars, channelVars, writerVars, wire, runnerVars, historyVars>>

Retry ==
    /\ at = "backoff" /\ at' = "dial"
    /\ UNCHANGED <<terminalVars, channelVars, conn, ctx, writerVars, wire, runnerVars, historyVars>>

-----------------------------------------------------------------------------
(* writeTerminal *)

\* The select takes a frame even when the context is done as well.
Takes(e, frame) ==
    /\ writer[e] = "select"
    /\ writer' = [writer EXCEPT ![e] = "write"]
    /\ held' = [held EXCEPT ![e] = <<frame>>]
    /\ UNCHANGED <<terminalVars, bridgeVars, wire, runnerVars, lost>>

TakesInput(e) ==
    /\ inputBytes # <<>> /\ inputBytes' = Tail(inputBytes)
    /\ Takes(e, Input(Head(inputBytes)))
    /\ UNCHANGED <<resize, sizeLost>>

TakesSize(e) ==
    /\ resize # <<>> /\ resize' = Tail(resize)
    /\ Takes(e, Resize(Head(resize)))
    /\ sizeLost' = (sizeLost \/ ctx[e] = "done")
    /\ UNCHANGED inputBytes

SelectsDone(e) ==
    /\ writer[e] = "select" /\ ctx[e] = "done"
    /\ writer' = [writer EXCEPT ![e] = "end"]
    /\ UNCHANGED <<terminalVars, channelVars, bridgeVars, held, wire, runnerVars, historyVars>>

Writes(e) ==
    /\ writer[e] = "write" /\ ctx[e] = "live"
    /\ wire' = [wire EXCEPT ![e] = @ \o held[e]]
    /\ writer' = [writer EXCEPT ![e] = "select"] /\ held' = [held EXCEPT ![e] = <<>>]
    /\ UNCHANGED <<terminalVars, channelVars, bridgeVars, runnerVars, historyVars>>

\* The context is done, or the write fails and ends the connection; the writer ends.
WriteFails(e) ==
    /\ writer[e] = "write"
    /\ writer' = [writer EXCEPT ![e] = "end"] /\ held' = [held EXCEPT ![e] = <<>>]
    /\ lost' = lost \cup ChunksIn(held[e])
    /\ \/ ctx[e] = "done" /\ UNCHANGED bridgeVars
       \/ ctx[e] = "live" /\ conn < MaxConnections /\ Ends("backoff")
    /\ UNCHANGED <<terminalVars, channelVars, wire, runnerVars, sizeLost>>

-----------------------------------------------------------------------------
(* The runner: attach, writeInput, resize, detach *)

\* Fault: a frame needs no lease.
AuthorizedAlways(e) == TRUE

\* authorizeControllerLocked
Authorized(e) == lease = e

\* The next frame of a connection; one without the lease changes nothing.
RunnerReads(e) ==
    LET f == Head(wire[e])
        granted == f.type = "attach" /\ (lease = 0 \/ Takeover)
        obeyed == f.type # "attach" /\ Authorized(e)
    IN
    /\ wire[e] # <<>>
    /\ wire' = [wire EXCEPT ![e] = Tail(@)]
    /\ lease' = IF granted THEN e ELSE lease
    /\ pty' = IF granted \/ (obeyed /\ f.type = "resize") THEN f.value ELSE pty
    /\ received' = IF obeyed /\ f.type = "input" THEN Append(received, f.value) ELSE received
    /\ lost' = IF f.type = "input" /\ ~obeyed THEN lost \cup {f.value} ELSE lost
    /\ UNCHANGED <<terminalVars, channelVars, bridgeVars, writerVars, sizeLost>>

\* The runner sees the end of a connection; what was on its way is lost.
RunnerDetaches(e) ==
    /\ ctx[e] = "done" /\ (wire[e] # <<>> \/ lease = e)
    /\ wire' = [wire EXCEPT ![e] = <<>>]
    /\ lost' = lost \cup ChunksIn(wire[e])
    /\ lease' = IF lease = e THEN 0 ELSE lease
    /\ UNCHANGED <<terminalVars, channelVars, bridgeVars, writerVars, pty, received, sizeLost>>

\* The lease expires.
LeaseExpires ==
    /\ lease # 0 /\ lease' = 0
    /\ UNCHANGED <<terminalVars, channelVars, bridgeVars, writerVars, wire, pty, received, historyVars>>

-----------------------------------------------------------------------------
Writer(e) == TakesInput(e) \/ TakesSize(e) \/ SelectsDone(e) \/ Writes(e)

Next ==
    \/ Reads \/ Resized \/ publishSize
    \/ Dial \/ Attached \/ ConnectionLost \/ Stops \/ Retry
    \/ LeaseExpires
    \/ \E e \in Connections : Writer(e) \/ WriteFails(e) \/ RunnerReads(e) \/ RunnerDetaches(e)

Spec == Init /\ [][Next]_vars

\* The goroutines run when they can, a write returns, and the runner reads.  Nobody
\* need type or resize, and no connection need fail.
FairSpec ==
    /\ Spec
    /\ WF_vars(publishSize) /\ WF_vars(Dial \/ Attached \/ Stops \/ Retry)
    /\ \A e \in Connections :
          /\ WF_vars(Writer(e)) /\ WF_vars(ctx[e] = "done" /\ WriteFails(e))
          /\ WF_vars(RunnerReads(e)) /\ WF_vars(RunnerDetaches(e))

-----------------------------------------------------------------------------
(* Properties *)

\* The agent receives what was typed in the order it was typed and no chunk twice,
\* although the writers of an ended connection and of its successor take from the
\* same channel and frames of both are on their way at once; and neither channel
\* holds more than it can.
InputInOrder ==
    /\ TypeOK
    /\ \A i, j \in 1..Len(received) : i < j => received[i] < received[j]

\* Every chunk typed reaches the agent, or was lost with a connection that had
\* already taken it, unless the bridge has stopped to ask for attention.
InputArrives ==
    \A n \in Chunks : typed >= n ~> (n \in ToSet(received) \cup lost \/ at = "stopped")

\* While a connection lasts and the terminal is not resized, the runner comes to have
\* the terminal's size, however many sizes were dropped from the channel and in
\* whichever order an old size, the attach and a new size were sent; unless the
\* writer of a connection that had ended took a size after the attach.
SizeSettles ==
    \A s \in Sizes :
        (at = "loop" /\ size = s) ~> (pty = s \/ size # s \/ at # "loop" \/ sizeLost)
=============================================================================
