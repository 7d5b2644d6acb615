---------------------------- MODULE ReplayBuffer ----------------------------
(***************************************************************************)
(* The runner's bounded replay buffer (internal/runner/replay.go).         *)
(*                                                                         *)
(* A buffer is a record: `latest' is the number of the newest output       *)
(* frame, `frames' the retained frames, oldest first, and `bytes' the      *)
(* running count of the bytes they hold.  A retained frame is its number   *)
(* and its length; the payload itself is of no interest here.              *)
(***************************************************************************)
EXTENDS Integers, Sequences, FiniteSets

CONSTANTS MaxBytes,    \* --replay-bytes
          MaxFrames    \* --replay-frames

\* parseRunConfig refuses limits below one.
ASSUME ReplayAssumption ==
    /\ MaxBytes \in Nat \ {0}
    /\ MaxFrames \in Nat \ {0}

Retained == [seq : Nat, size : Nat]

newReplayBuffer == [latest |-> 0, frames |-> << >>, bytes |-> 0]

\* The bytes of the first k frames, as the eviction loop subtracts them.
BytesOf(frames, k) ==
    LET total[i \in 0..k] == IF i = 0 THEN 0 ELSE total[i-1] + frames[i].size
    IN  total[k]

\* Numbering and storing a frame of `size' bytes, before anything is evicted.
Grown(b, size) ==
    [latest |-> b.latest + 1,
     frames |-> Append(b.frames, [seq |-> b.latest + 1, size |-> size]),
     bytes  |-> b.bytes + size]

\* Fault: evicted frames are still counted.
TrimmedUncounted(b, k) ==
    [b EXCEPT !.frames = SubSeq(b.frames, k + 1, Len(b.frames))]

\* The buffer without its k oldest frames.
Trimmed(b, k) ==
    [b EXCEPT !.frames = SubSeq(b.frames, k + 1, Len(b.frames)),
              !.bytes = b.bytes - BytesOf(b.frames, k)]

\* The condition under which the eviction loop goes round once more.
OverLimit(b) ==
    /\ b.frames # << >>
    /\ b.bytes > MaxBytes \/ Len(b.frames) > MaxFrames

\* The eviction loop drops exactly k frames: it runs on before each of them and
\* stops after the last.
EvictsExactly(b, k) ==
    /\ \A j \in 0..(k - 1) : OverLimit(Trimmed(b, j))
    /\ ~OverLimit(Trimmed(b, k))

\* replayBuffer.append as a relation: `after' is the buffer left by appending a
\* frame of `size' bytes to b.
append(b, size, after) ==
    \E k \in 0..(Len(b.frames) + 1) :
        /\ EvictsExactly(Grown(b, size), k)
        /\ after = Trimmed(Grown(b, size), k)

\* The `earliest' half of replayBuffer.bounds; the other half is b.latest.
earliest(b) == IF b.frames = << >> THEN b.latest ELSE b.frames[1].seq

\* replayBuffer.after, in its three results.
afterValid(b, cursor) == cursor <= b.latest

afterGap(b, cursor) ==
    IF b.frames = << >> THEN cursor < b.latest
                        ELSE cursor + 1 < b.frames[1].seq

\* The filter `sequence > cursor'.  Retained frames are in ascending order, so it
\* drops a prefix: the frames numbered no higher than the cursor.
FramesAfter(b, skipped) == SubSeq(b.frames, Cardinality(skipped) + 1, Len(b.frames))

\* Fault: the frame the cursor names is sent again.
afterFramesInclusive(b, cursor) ==
    FramesAfter(b, {i \in DOMAIN b.frames : b.frames[i].seq < cursor})

afterFrames(b, cursor) ==
    FramesAfter(b, {i \in DOMAIN b.frames : b.frames[i].seq <= cursor})
=============================================================================
