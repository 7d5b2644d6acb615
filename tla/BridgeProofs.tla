---------------------------- MODULE BridgeProofs ----------------------------
(***************************************************************************)
(* Theorems about module Bridge, for any retention, retry window, output,  *)
(* runner restarts, lost connections and crashes of the bridge: the pane   *)
(* shows a generation's output in order and says when some is missing, and *)
(* the cursor never names output that it has not shown.                    *)
(***************************************************************************)
EXTENDS Bridge, SequenceTheorems, TLAPS

-----------------------------------------------------------------------------
(* The inductive invariant: the wire.                                      *)

Answers == {"attached", "replay_cursor_invalid", "controller_busy"}
IsA(i, type) == wire[i].type = type

\* The first frame, and no other, answers the attach; a notice of a gap comes right
\* after the answer, before output; the end of the lease comes last; and the frame
\* that is being saved is output.
WireShape ==
    /\ at = "first" => wire # <<>> /\ wire[1].type \in Answers
    /\ at = "save" => wire # <<>> /\ IsA(1, "output")
    /\ \A i \in 1..Len(wire) :
          /\ wire[i].type \in Answers => at = "first" /\ i = 1
          /\ IsA(i, "replay_gap") => /\ at \in {"first", "loop"}
                                     /\ i = (IF at = "first" THEN 2 ELSE 1)
                                     /\ i < Len(wire) /\ IsA(i + 1, "output")
          /\ IsA(i, "controller_revoked") => i = Len(wire)

\* Output on the wire is what the runner has numbered, one by one.
WireNumbers ==
    \A i \in 1..Len(wire) : IsA(i, "output") =>
        /\ wire[i].seq \in 1..latest
        /\ \A j \in 1..Len(wire) : IsA(j, "output") => wire[j].seq + i = wire[i].seq + j

\* As long as the bridge has the lease the newest output is the last on the wire.
LeaseHeld ==
    lease = "bridge" =>
        /\ Connected /\ (at = "first" => IsA(1, "attached"))
        /\ \A i \in 1..Len(wire) :
              /\ ~IsA(i, "controller_revoked")
              /\ IsA(i, "output") => wire[i].seq + Len(wire) = latest + i

-----------------------------------------------------------------------------
(* The inductive invariant: the pane and the cursor.                       *)

Last == screen[Len(screen)]

\* What was shown last is of the latest generation shown, and there the newest sequence
\* the runner has numbered is not behind it.
PaneBehind ==
    /\ \A i \in 1..Len(screen) : /\ screen[i].generation <= generation
                                 /\ screen[i].generation <= Last.generation
    /\ screen # <<>> /\ Last.generation = generation => Last.seq <= latest

\* A cursor of the runner's generation is not beyond what was shown last, and it is
\* that, unless the bridge was restarted since or has yet to save.  What is on disk is
\* no further than what is in memory.
CursorBehind ==
    /\ \A s \in {state, saved} :
          /\ s.generation <= generation
          /\ s.generation = generation /\ s.after > 0 => s.after <= Last.seq
    /\ state.generation = generation /\ state.after > 0 /\ at \notin {"save", "off"}
          => state.after = Last.seq \/ "restart" \in notes
    /\ saved.generation = generation /\ saved.after > 0
          => state.generation = generation /\ saved.after <= state.after
    /\ at \in {"loop", "save"} => state.generation = generation
    /\ at = "save" => /\ screen # <<>>
                      /\ Last.generation = generation /\ Last.seq = wire[1].seq

\* How many frames are handled before the output that comes next, and its number.
Lead ==
    IF at = "first" THEN IF Len(wire) > 1 /\ IsA(2, "replay_gap") THEN 2 ELSE 1
    ELSE IF wire # <<>> /\ IsA(1, "replay_gap") THEN 1 ELSE 0

Coming(n) ==
    \/ Lead < Len(wire) /\ IsA(Lead + 1, "output") /\ n = wire[Lead + 1].seq
    \/ Lead = Len(wire) /\ lease = "bridge" /\ n = latest + 1

GapNoted == "gap" \in notes \/ \E i \in 1..Len(wire) : IsA(i, "replay_gap")

\* The output that comes next follows the cursor, or a gap is noted; without a cursor it
\* is news, and that the bridge attached without one is noted.
Follows ==
    (at = "loop" \/ (at = "first" /\ IsA(1, "attached") /\ ~OtherGeneration)) =>
        \A n \in 1..(MaxOutput + 1) : Coming(n) =>
            /\ state.after > 0 => n = state.after + 1 \/ (n > state.after + 1 /\ GapNoted)
            /\ state.after = 0 => /\ "blind" \in notes
                                  /\ screen # <<>> /\ Last.generation = generation => n > Last.seq

IInv == /\ CursorShown /\ ShownInOrder /\ WireShape /\ WireNumbers /\ LeaseHeld
        /\ PaneBehind /\ CursorBehind /\ Follows

-----------------------------------------------------------------------------
(* Sequences.                                                              *)

\* A frame, or what is shown, added at the end leaves the others where they are.
LEMMA Appended ==
    ASSUME NEW S, NEW s \in Seq(S), NEW f \in S
    PROVE  /\ Append(s, f) \in Seq(S) /\ Len(s) \in Nat /\ Len(Append(s, f)) = Len(s) + 1
           /\ \A i \in 1..Len(s) : Append(s, f)[i] = s[i]
           /\ Append(s, f)[Len(s) + 1] = f
           /\ \A i \in 1..(Len(s) + 1) : i \in 1..Len(s) \/ i = Len(s) + 1
  OBVIOUS

\* Without its first frame a wire has the others, one place nearer.
LEMMA Handled ==
    ASSUME NEW s \in Seq(Frame), s # <<>>
    PROVE  /\ Head(s) = s[1] /\ s[1] \in Frame /\ Len(s) \in Nat \ {0} /\ 1 \in 1..Len(s)
           /\ Tail(s) \in Seq(Frame) /\ Len(Tail(s)) = Len(s) - 1
           /\ \A i \in 1..(Len(s) - 1) : i + 1 \in 1..Len(s) /\ Tail(s)[i] = s[i + 1]
           /\ Tail(s) # <<>> => 1 \in 1..(Len(s) - 1)
           /\ Tail(s) = <<>> => Len(s) = 1
  <1>1. /\ Head(s) = s[1] /\ s[1] \in Frame /\ Len(s) \in Nat \ {0}
        /\ Tail(s) \in Seq(Frame) /\ Len(Tail(s)) = Len(s) - 1
    OBVIOUS
  <1>2. \A i \in 1..(Len(s) - 1) : i + 1 \in 1..Len(s) /\ Tail(s)[i] = s[i + 1]
    OBVIOUS
  <1>3. Len(<<>>) = 0
    OBVIOUS
  <1>4. ASSUME Tail(s) = <<>> PROVE Len(s) = 1
    <2>1. Len(Tail(s)) = 0
      BY <1>3, <1>4, Zenon
    <2>2. \A n \in Nat : n - 1 = 0 => n = 1
      OBVIOUS
    <2> QED
      BY <1>1, <2>1, <2>2, Zenon
  <1>5. Tail(s) # <<>> => Len(s) # 1
    BY <1>1, EmptySeq
  <1> QED
    BY <1>1, <1>2, <1>4, <1>5

\* An empty wire, or one frame.
LEMMA ShortWires ==
    ASSUME NEW f \in Frame
    PROVE  /\ <<>> \in Seq(Frame) /\ Len(<<>>) = 0 /\ 1..0 = {}
           /\ <<f>> \in Seq(Frame) /\ Len(<<f>>) = 1 /\ <<f>>[1] = f /\ <<f>> # <<>> /\ 1..1 = {1}
  OBVIOUS

\* Frames are records of their type and sequence.
LEMMA Frames ==
    /\ \A type \in {"attached", "replay_gap", "controller_revoked", "replay_cursor_invalid",
                    "controller_busy"} : Sent(type) \in Frame /\ Sent(type).type = type
    /\ \A n \in 0..MaxOutput : /\ Output(n) \in Frame
                               /\ Output(n).type = "output" /\ Output(n).seq = n
    /\ \A f \in Frame : f.seq \in 0..MaxOutput
  <1>1. MaxOutput \in Nat /\ 0 \in 0..MaxOutput
    BY BridgeAssumption
  <1>2. \A type \in {"attached", "replay_gap", "controller_revoked", "replay_cursor_invalid",
                     "controller_busy"} : Sent(type) \in Frame /\ Sent(type).type = type
    BY <1>1 DEF Sent, Frame
  <1>3. \A n \in 0..MaxOutput : /\ Output(n) \in Frame
                                /\ Output(n).type = "output" /\ Output(n).seq = n
    BY DEF Output, Frame
  <1>4. \A f \in Frame : f.seq \in 0..MaxOutput
    BY DEF Frame
  <1> QED
    BY <1>2, <1>3, <1>4

\* The answer to an attach that is granted: attached, a gap before what is retained, and
\* output up to the newest from the one after the cursor or the oldest that is retained.
LEMMA Answer ==
    ASSUME NEW c \in 0..latest, latest \in 0..MaxOutput
    PROVE  \E w \in Seq(Frame), g \in {0, 1}, k \in 0..latest :
              /\ w = <<Sent("attached")>> \o Replayed(c)
              /\ Len(w) = 1 + g + k
              /\ w[1] = Sent("attached")
              /\ g = 1 => w[2] = Sent("replay_gap") /\ k > 0 /\ c + k < latest
              /\ \A i \in (2 + g)..(1 + g + k) : w[i] = Output(latest + i - (1 + g + k))
              /\ c > 0 /\ g = 0 => c + k = latest
              /\ c = 0 => g = 0 /\ k = 0
  <1>0. /\ MaxOutput \in Nat /\ ReplayFrames \in Nat \ {0} /\ latest \in Nat /\ latest <= MaxOutput
        /\ c \in Nat /\ c <= latest
    BY BridgeAssumption
  <1>1. /\ <<Sent("attached")>> \in Seq(Frame) /\ Len(<<Sent("attached")>>) = 1
        /\ <<Sent("attached")>>[1] = Sent("attached")
    BY Frames, ShortWires
  <1>2. CASE c = 0
    <2>1. Replayed(c) = <<>>
      BY <1>2 DEF Replayed
    <2>2. <<Sent("attached")>> \o Replayed(c) = <<Sent("attached")>>
      BY <2>1, <1>1, ConcatEmptySeq
    <2>3. \A i \in (2 + 0)..(1 + 0 + 0) : FALSE
      OBVIOUS
    <2>4. /\ 0 \in {0, 1} /\ 0 \in 0..latest
          /\ Len(<<Sent("attached")>>) = 1 + 0 + 0
      BY <1>0, <1>1
    <2>5. ~(c > 0) /\ ~(0 = 1)
      BY <1>2
    <2> USE <1>1, <2>4
    <2> WITNESS <<Sent("attached")>> \in Seq(Frame), 0 \in {0, 1}, 0 \in 0..latest
    <2> QED
      <3>1. <<Sent("attached")>> = <<Sent("attached")>> \o Replayed(c)
        BY <2>2
      <3>2. \A i \in (2 + 0)..(1 + 0 + 0) :
               <<Sent("attached")>>[i] = Output(latest + i - (1 + 0 + 0))
        BY <2>3
      <3> QED
        BY <2>5, <3>1, <3>2
  <1>3. CASE c > 0
    <2> DEFINE missing == c + 1 < earliest
               from == IF missing THEN earliest ELSE c + 1
               gap == IF missing THEN <<Sent("replay_gap")>> ELSE <<>>
               k == latest - from + 1
               output == [i \in 1..k |-> Output(from + i - 1)]
               g == IF missing THEN 1 ELSE 0
               w == <<Sent("attached")>> \o (gap \o output)
    <2>15. c # 0
      BY <1>0, <1>3
    <2>1. earliest \in Nat \ {0} /\ (latest > 0 => earliest <= latest)
      BY <1>0 DEF earliest
    <2>2. /\ from \in Nat \ {0} /\ k \in 0..latest /\ from = latest - k + 1
          /\ missing => k > 0 /\ c + k < latest
          /\ ~missing => c + k = latest
      BY <1>0, <1>3, <2>1
    <2>3. Replayed(c) = gap \o output
      BY <2>15 DEF Replayed
    <2>4. /\ gap \in Seq(Frame) /\ Len(gap) = g /\ g \in {0, 1}
          /\ missing => gap[1] = Sent("replay_gap")
      <3>1. CASE missing
        BY <3>1, Frames, ShortWires
      <3>2. CASE ~missing
        BY <3>2, Frames, ShortWires
      <3> QED
        BY <3>1, <3>2
    <2> HIDE DEF missing, gap, from, k, g
    <2>5. output \in Seq(Frame) /\ Len(output) = k /\ \A i \in 1..k : output[i] = Output(from + i - 1)
      <3>1. k \in Nat
        BY <2>2, <1>0
      <3>2. \A i \in 1..k : from + i - 1 \in 0..MaxOutput
        BY <2>2, <1>0
      <3>3. \A i \in 1..k : Output(from + i - 1) \in Frame
        BY <3>2, Frames
      <3> QED
        BY <3>1, <3>3
    <2> HIDE DEF output
    <2>6. /\ gap \o output \in Seq(Frame) /\ Len(gap \o output) = g + k
          /\ \A i \in 1..(g + k) : (gap \o output)[i] = IF i <= g THEN gap[i] ELSE output[i - g]
      BY <2>4, <2>5, ConcatProperties
    <2>7. /\ w \in Seq(Frame) /\ Len(w) = 1 + (g + k)
          /\ \A i \in 1..(1 + (g + k)) :
                w[i] = IF i <= 1 THEN <<Sent("attached")>>[i] ELSE (gap \o output)[i - 1]
      BY <1>1, <2>6, ConcatProperties
    <2> HIDE DEF w
    <2>8. k \in Nat /\ g \in Nat
      BY <2>2, <2>4, <1>0
    <2>9. w[1] = Sent("attached")
      <3>1. 1 \in 1..(1 + (g + k)) /\ 1 <= 1
        BY <2>8
      <3> QED
        BY <1>1, <2>7, <3>1
    <2>10. ASSUME g = 1 PROVE w[2] = Sent("replay_gap") /\ k > 0 /\ c + k < latest
      <3>1. missing
        BY <2>10 DEF g
      <3>2. 2 \in 1..(1 + (g + k)) /\ ~(2 <= 1) /\ 2 - 1 = 1 /\ 1 \in 1..(g + k) /\ 1 <= g
        BY <2>8, <2>10
      <3>3. w[2] = (gap \o output)[1]
        BY <2>7, <3>2
      <3> QED
        BY <2>2, <2>4, <2>6, <3>1, <3>2, <3>3
    <2>11. ASSUME NEW i \in (2 + g)..(1 + g + k) PROVE w[i] = Output(latest + i - (1 + g + k))
      <3>1. /\ i \in 1..(1 + (g + k)) /\ ~(i <= 1) /\ i - 1 \in 1..(g + k) /\ ~(i - 1 <= g)
            /\ (i - 1) - g \in 1..k
        BY <2>8
      <3>2. w[i] = output[(i - 1) - g]
        BY <2>6, <2>7, <3>1
      <3>3. output[(i - 1) - g] = Output(from + ((i - 1) - g) - 1)
        BY <2>5, <3>1
      <3>4. from + ((i - 1) - g) - 1 = latest + i - (1 + g + k)
        BY <1>0, <2>2, <2>8
      <3> QED
        BY <3>2, <3>3, <3>4
    <2>12. g = 0 => ~missing
      BY DEF g
    <2>13. w = <<Sent("attached")>> \o Replayed(c) /\ Len(w) = 1 + g + k
      BY <2>3, <2>7, <2>8 DEF w
    <2>14. g = 0 => c + k = latest
      BY <2>2, <2>12
    <2> QED
      BY <2>2, <2>4, <2>7, <2>9, <2>10, <2>11, <2>13, <2>14, <2>15
  <1>4. c = 0 \/ c > 0
    BY <1>0
  <1> QED
    BY <1>2, <1>3, <1>4

-----------------------------------------------------------------------------
(* Type correctness.                                                       *)

\* An AgentState with a cursor or a generation changed is an AgentState.
LEMMA StateChanged ==
    ASSUME TypeOK, NEW n \in 0..MaxOutput, NEW g \in 0..MaxGenerations
    PROVE  /\ [state EXCEPT !.after = n] \in AgentState
           /\ [state EXCEPT !.after = n].after = n
           /\ [state EXCEPT !.after = n].generation = state.generation
           /\ [state EXCEPT !.generation = g] \in AgentState
           /\ [state EXCEPT !.generation = g].after = state.after
           /\ [state EXCEPT !.generation = g].generation = g
  BY DEF TypeOK, AgentState

\* What the invariant says of numbers.
LEMMA Numbers ==
    ASSUME TypeOK
    PROVE  /\ generation \in Nat \ {0} /\ latest \in Nat /\ latest <= MaxOutput /\ MaxOutput \in Nat
           /\ generation \in 0..MaxGenerations /\ MaxGenerations \in Nat
           /\ \A s \in {state, saved} : /\ s.after \in 0..MaxOutput /\ s.generation \in 0..MaxGenerations
                                        /\ s.after \in Nat /\ s.generation \in Nat
           /\ Len(wire) \in Nat /\ Len(screen) \in Nat
           /\ \A i \in 1..Len(wire) : wire[i] \in Frame /\ wire[i].seq \in Nat
           /\ \A i \in 1..Len(screen) : /\ screen[i] \in Written
                                        /\ screen[i].seq \in Nat \ {0} /\ screen[i].generation \in Nat
  <1>1. /\ MaxOutput \in Nat /\ MaxGenerations \in Nat
        /\ generation \in 1..MaxGenerations /\ latest \in 0..MaxOutput
    BY BridgeAssumption DEF TypeOK, Generations
  <1>2. \A s \in {state, saved} : s.after \in 0..MaxOutput /\ s.generation \in 0..MaxGenerations
    BY DEF TypeOK, AgentState
  <1>3. Len(wire) \in Nat /\ \A i \in 1..Len(wire) : wire[i] \in Frame
    BY DEF TypeOK
  <1>4. Len(screen) \in Nat /\ \A i \in 1..Len(screen) : screen[i] \in Written
    BY DEF TypeOK
  <1>5. \A f \in Frame : f.seq \in Nat
    BY <1>1, Frames
  <1>6. \A w \in Written : w.seq \in Nat \ {0} /\ w.generation \in Nat
    BY <1>1 DEF Written, Generations
  <1> QED
    BY <1>1, <1>2, <1>3, <1>4, <1>5, <1>6

\* Frames are on the wire only of a connection, and the lease is the bridge's only then.
LEMMA OnlyConnected ==
    ASSUME IInv, ~Connected
    PROVE  wire = <<>> /\ lease # "bridge"
  BY DEF IInv, CursorShown, TypeOK, LeaseHeld, Connected

\* The state that the three actions that change it leave, in memory and on disk.
LEMMA NewStates ==
    ASSUME IInv
    PROVE  /\ FirstResets => /\ state' \in AgentState
                             /\ state'.after = 0 /\ state'.generation = generation
           /\ FirstAttached => /\ state' \in AgentState
                               /\ state'.after = state.after /\ state'.generation = generation
           /\ SavesCursor => /\ wire # <<>> /\ state' \in AgentState
                             /\ state'.after = wire[1].seq /\ state'.generation = generation
           /\ FirstResets \/ FirstAttached \/ SavesCursor => saved' \in {saved, state'}
  <1> TypeOK /\ WireShape /\ CursorBehind
    BY DEF IInv, CursorShown
  <1>1. 0 \in 0..MaxOutput /\ generation \in 0..MaxGenerations
    BY Numbers
  <1>2. FirstResets => /\ state' \in AgentState
                       /\ state'.after = 0 /\ state'.generation = generation
    <2>1. FirstResets => state' = [after |-> 0, generation |-> generation]
      BY DEF FirstResets
    <2> QED
      BY <1>1, <2>1 DEF AgentState
  <1>3. FirstAttached => /\ state' \in AgentState
                         /\ state'.after = state.after /\ state'.generation = generation
    <2>1. FirstAttached => state' = [state EXCEPT !.generation = generation]
      BY DEF FirstAttached
    <2> QED
      BY <1>1, <2>1, StateChanged
  <1>4. SavesCursor => /\ wire # <<>> /\ state' \in AgentState
                       /\ state'.after = wire[1].seq /\ state'.generation = generation
    <2> SUFFICES ASSUME SavesCursor
                 PROVE  /\ wire # <<>> /\ state' \in AgentState
                        /\ state'.after = wire[1].seq /\ state'.generation = generation
      OBVIOUS
    <2>1. wire # <<>> /\ state.generation = generation
      BY DEF SavesCursor, WireShape, CursorBehind
    <2>2. Head(wire) = wire[1] /\ wire[1].seq \in 0..MaxOutput
      BY <2>1, Handled, Frames DEF TypeOK
    <2>3. state' = [state EXCEPT !.after = wire[1].seq]
      BY <2>2 DEF SavesCursor
    <2> QED
      BY <1>1, <2>1, <2>2, <2>3, StateChanged
  <1>5. FirstResets \/ FirstAttached \/ SavesCursor => saved' \in {saved, state'}
    BY DEF FirstResets, FirstAttached, SavesCursor, Save
  <1> QED
    BY <1>2, <1>3, <1>4, <1>5

\* Every step of the runner keeps the types.
LEMMA RunnerTypes ==
    ASSUME IInv, RunnerNext
    PROVE  TypeOK'
  <1> TypeOK /\ LeaseHeld
    BY DEF IInv, CursorShown
  <1>1. CASE publishOutput
    <2>1. latest + 1 \in 0..MaxOutput
      BY <1>1, Numbers DEF publishOutput
    <2>2. wire' \in Seq(Frame) /\ (wire' # <<>> => at \in {"first", "loop", "save"})
      <3>1. Append(wire, Output(latest + 1)) \in Seq(Frame)
        BY <2>1, Frames, Appended DEF TypeOK
      <3> QED
        BY <1>1, <3>1 DEF publishOutput, TypeOK, Connected
    <2> QED
      BY <1>1, <2>1, <2>2 DEF publishOutput, TypeOK, historyVars, boundVars
  <1>2. ASSUME NEW holder \in {"none", "other"}, Revoked(holder)
        PROVE  TypeOK'
    <2>1. wire' \in Seq(Frame) /\ (wire' # <<>> => at \in {"first", "loop", "save"})
      <3>1. Append(wire, Sent("controller_revoked")) \in Seq(Frame)
        BY Frames, Appended DEF TypeOK
      <3> QED
        BY <1>2, <3>1 DEF Revoked, TypeOK, LeaseHeld, Connected
    <2> QED
      BY <1>2, <2>1 DEF Revoked, TypeOK, historyVars, boundVars
  <1>3. CASE RunnerRestarts
    <2>1. generation + 1 \in Generations /\ 0 \in 0..MaxOutput
      BY <1>3, Numbers DEF RunnerRestarts, Generations
    <2>2. <<>> \in Seq(Frame) /\ at' \in Places
      BY <1>3 DEF RunnerRestarts, TypeOK, Places
    <2> QED
      BY <1>3, <2>1, <2>2 DEF RunnerRestarts, TypeOK, historyVars, boundVars
  <1> QED
    BY <1>1, <1>2, <1>3 DEF RunnerNext, LeaseExpires, OtherTakesOver, LeaseReleased

\* Every step that the bridge takes of itself keeps the types.
LEMMA BridgeTypes ==
    ASSUME IInv, BridgeNext
    PROVE  TypeOK'
  <1> TypeOK /\ WireShape /\ CursorBehind
    BY DEF IInv, CursorShown
  <1> USE DEF runnerVars, historyVars, boundVars
  <1>a. <<>> \in Seq(Frame)
    OBVIOUS
  <1>b. wire # <<>> => Tail(wire) \in Seq(Frame) /\ Head(wire) = wire[1] /\ Head(wire).seq \in 0..MaxOutput
    BY Handled, Frames DEF TypeOK
  <1>c. \A new \in AgentState : Save(new) => saved' \in {saved, new} /\ faults' \in 0..MaxFaults
    <2>1. MaxFaults \in Nat /\ faults \in 0..MaxFaults
      BY BridgeAssumption DEF TypeOK
    <2>2. faults < MaxFaults => faults + 1 \in 0..MaxFaults
      BY <2>1
    <2> QED
      BY <2>1, <2>2 DEF Save
  <1>d. AttemptFails => tries' \in 0..WindowTries /\ at' = "backoff"
    <2>1. WindowTries \in Nat /\ tries \in 0..WindowTries
      BY BridgeAssumption DEF TypeOK
    <2> QED
      BY <2>1 DEF AttemptFails
  <1>e. 0 \in 0..WindowTries
    BY BridgeAssumption
  <1>1. CASE Attach
    <2>1. wire' \in Seq(Frame)
      <3>1. CASE wire' = <<Sent("replay_cursor_invalid")>> \/ wire' = <<Sent("controller_busy")>>
        BY <3>1, Frames, ShortWires
      <3>2. CASE state.after <= latest /\ wire' = <<Sent("attached")>> \o Replayed(state.after)
        <4>1. state.after \in 0..latest /\ latest \in 0..MaxOutput
          BY <3>2, Numbers
        <4> QED
          BY <3>2, <4>1, Answer
      <3> QED
        BY <1>1, <3>1, <3>2 DEF Attach
    <2>2. notes' \subseteq Notes /\ lease' \in {"none", "bridge", "stale", "other"}
      BY <1>1 DEF Attach, TypeOK, Notes
    <2> QED
      BY <1>1, <2>1, <2>2 DEF Attach, TypeOK, Places
  <1>2. CASE FirstRefused
    <2>1. tries' \in 0..WindowTries /\ at' \in Places
      BY <1>2, <1>d DEF FirstRefused, TypeOK, Places, GaveUp
    <2> QED
      BY <1>2, <1>a, <2>1 DEF FirstRefused, TypeOK
  <1>3. CASE FirstResets
    <2>1. state' \in AgentState /\ state'.after = 0
      BY <1>3, NewStates
    <2>2. saved' \in {saved, state'} /\ faults' \in 0..MaxFaults
      BY <1>3, <1>c, <2>1 DEF FirstResets
    <2>3. saved' \in AgentState /\ \A s \in {state', saved'} : s.after > 0 => s.generation > 0
      BY <2>1, <2>2 DEF TypeOK
    <2>4. lease' \in {"none", "bridge", "stale", "other"}
      BY <1>3 DEF FirstResets, Disconnects, TypeOK
    <2>5. at' \in Places /\ wire' = <<>>
      BY <1>3 DEF FirstResets, Disconnects, Places
    <2> QED
      BY <1>3, <1>a, <2>1, <2>2, <2>3, <2>4, <2>5 DEF FirstResets, TypeOK
  <1>4. CASE FirstAttached
    <2>1. state' \in AgentState /\ state'.generation > 0
      BY <1>4, NewStates, Numbers
    <2>2. saved' \in {saved, state'} /\ faults' \in 0..MaxFaults
      BY <1>4, <1>c, <2>1 DEF FirstAttached
    <2>3. saved' \in AgentState /\ \A s \in {state', saved'} : s.after > 0 => s.generation > 0
      BY <2>1, <2>2 DEF TypeOK
    <2>4. wire' \in Seq(Frame) /\ at' \in Places
      BY <1>4, <1>b DEF FirstAttached, WireShape, Places
    <2> QED
      BY <1>4, <1>e, <2>1, <2>2, <2>3, <2>4 DEF FirstAttached, TypeOK
  <1>5. CASE WritesOutput
    <2>1. [generation |-> generation, seq |-> Head(wire).seq, notes |-> notes] \in Written
      <3>1. wire # <<>> /\ 1 \in 1..Len(wire) /\ wire[1].type = "output"
        BY <1>5, <1>b, Handled DEF WritesOutput, TypeOK
      <3>2. wire[1].seq \in 1..latest
        BY <3>1 DEF IInv, WireNumbers, IsA
      <3>3. Head(wire).seq \in 1..MaxOutput
        BY <1>b, <3>1, <3>2, Numbers
      <3> QED
        BY <3>3 DEF TypeOK, Written
    <2>2. screen' \in Seq(Written)
      BY <1>5, <2>1, Appended DEF WritesOutput, TypeOK
    <2> QED
      BY <1>5, <2>2 DEF WritesOutput, TypeOK, Places, Notes
  <1>6. CASE SavesCursor
    <2>1. state' \in AgentState /\ state'.generation > 0
      BY <1>6, NewStates, Numbers
    <2>2. saved' \in {saved, state'} /\ faults' \in 0..MaxFaults
      BY <1>6, <1>c, <2>1 DEF SavesCursor
    <2>3. saved' \in AgentState /\ \A s \in {state', saved'} : s.after > 0 => s.generation > 0
      BY <2>1, <2>2 DEF TypeOK
    <2>4. wire' \in Seq(Frame) /\ at' \in Places
      BY <1>6, <1>b DEF SavesCursor, WireShape, Places
    <2> QED
      BY <1>6, <2>1, <2>2, <2>3, <2>4 DEF SavesCursor, TypeOK
  <1>7. CASE ShowsGap
    <2>1. wire' \in Seq(Frame) /\ notes' \subseteq Notes
      BY <1>7, <1>b DEF ShowsGap, TypeOK, Notes
    <2> QED
      BY <1>7, <2>1 DEF ShowsGap, TypeOK
  <1>8. CASE LeaseLost
    BY <1>8, <1>a DEF LeaseLost, TypeOK, Places, GaveUp
  <1>9. CASE Retry
    <2>1. at' \in Places /\ wire' = <<>>
      BY <1>9, OnlyConnected DEF Retry, Places, GaveUp, Connected
    <2> QED
      BY <1>9, <2>1 DEF Retry, TypeOK
  <1> QED
    BY <1>1, <1>2, <1>3, <1>4, <1>5, <1>6, <1>7, <1>8, <1>9 DEF BridgeNext

\* So do the start of the bridge, and what ends a connection.
LEMMA OtherTypes ==
    ASSUME IInv, Run \/ DialFails \/ ConnectionLost \/ Crash
    PROVE  TypeOK'
  <1> TypeOK
    BY DEF IInv, CursorShown
  <1> USE DEF runnerVars, historyVars, boundVars
  <1>a. <<>> \in Seq(Frame) /\ 0 \in 0..WindowTries
    BY BridgeAssumption
  <1>b. AttemptFails => tries' \in 0..WindowTries /\ at' = "backoff"
    <2>1. WindowTries \in Nat /\ tries \in 0..WindowTries
      BY BridgeAssumption DEF TypeOK
    <2> QED
      BY <2>1 DEF AttemptFails
  <1>c. /\ faults < MaxFaults => faults + 1 \in 0..MaxFaults
        /\ crashes < MaxCrashes => crashes + 1 \in 0..MaxCrashes
    BY BridgeAssumption DEF TypeOK
  <1>d. Disconnects => wire' = <<>> /\ lease' \in {"none", "bridge", "stale", "other"}
    BY DEF Disconnects, TypeOK
  <1>e. "dial" \in Places /\ "backoff" \in Places /\ "off" \in Places /\ "restart" \in Notes
    BY DEF Places, Notes
  <1>1. CASE Run
    <2>1. ~Connected
      BY <1>1 DEF Run, GaveUp, Connected
    <2>2. wire = <<>>
      BY <2>1, OnlyConnected
    <2> QED
      BY <1>1, <1>a, <1>e, <2>2 DEF Run, TypeOK
  <1>2. CASE DialFails
    <2>1. wire = <<>>
      BY <1>2, OnlyConnected DEF DialFails, Connected
    <2> QED
      BY <1>2, <1>b, <1>c, <1>e, <2>1 DEF DialFails, TypeOK
  <1>3. CASE ConnectionLost
    <2>1. tries' \in 0..WindowTries /\ at' = "backoff"
      BY <1>3, <1>b DEF ConnectionLost, TypeOK
    <2> QED
      BY <1>3, <1>a, <1>c, <1>d, <1>e, <2>1 DEF ConnectionLost, TypeOK
  <1>4. CASE Crash
    BY <1>4, <1>a, <1>c, <1>d, <1>e DEF Crash, TypeOK
  <1> QED
    BY <1>1, <1>2, <1>3, <1>4

-----------------------------------------------------------------------------
(* The wire.                                                               *)

\* When the connection is gone there is nothing to say of the wire.
LEMMA WireGone ==
    ASSUME wire' = <<>>, at' \notin {"first", "loop", "save"}, lease' # "bridge"
    PROVE  WireShape' /\ WireNumbers' /\ LeaseHeld' /\ Follows'
  <1>1. \A i \in 1..Len(<<>>) : FALSE
    <2>1. Len(<<>>) = 0
      OBVIOUS
    <2> QED
      BY <2>1
  <1>2. WireShape' /\ WireNumbers'
    BY <1>1 DEF WireShape, WireNumbers
  <1>3. LeaseHeld' /\ Follows'
    BY DEF LeaseHeld, Follows
  <1> QED
    BY <1>2, <1>3

\* Output that is not sent leaves the wire as it is.
LEMMA NothingSent ==
    ASSUME IInv, wire' = wire, lease # "bridge", lease' # "bridge", latest' \in Nat, latest <= latest',
           UNCHANGED <<generation, at, state, screen, notes>>
    PROVE  WireShape' /\ WireNumbers' /\ LeaseHeld' /\ Follows'
  <1> TypeOK /\ WireShape /\ WireNumbers /\ Follows
    BY DEF IInv, CursorShown
  <1>1. WireShape' /\ LeaseHeld'
    BY DEF WireShape, LeaseHeld, IsA
  <1>2. \A n \in 1..latest : n \in 1..latest'
    BY Numbers
  <1>3. WireNumbers'
    BY <1>2 DEF WireNumbers, IsA
  <1>4. \A n : Coming(n)' => Coming(n)
    BY DEF Coming, Lead, IsA
  <1>5. Follows'
    BY <1>4 DEF Follows, GapNoted, OtherGeneration, IsA, Last
  <1> QED
    BY <1>1, <1>3, <1>5

\* A frame is sent: the next output, or the end of the lease.
Sends(f) ==
    /\ wire' = Append(wire, f)
    /\ \/ f.type = "output" /\ f.seq = latest + 1 /\ latest' = latest + 1 /\ lease' = lease
       \/ f.type = "controller_revoked" /\ latest' = latest /\ lease' # "bridge"
    /\ UNCHANGED <<generation, at, state, screen, notes>>

\* A frame that is sent while the bridge has the lease comes after everything else.
LEMMA OneSent ==
    ASSUME IInv, lease = "bridge", NEW f \in Frame, Sends(f)
    PROVE  WireShape' /\ WireNumbers' /\ LeaseHeld' /\ Follows'
  <1> TypeOK /\ WireShape /\ WireNumbers /\ Follows
    BY DEF IInv, CursorShown
  <1> DEFINE L == Len(wire)
  <1>s. /\ UNCHANGED <<generation, at, state, screen, notes>>
        /\ \/ f.type = "output" /\ f.seq = latest + 1 /\ latest' = latest + 1 /\ lease' = lease
           \/ f.type = "controller_revoked" /\ latest' = latest /\ lease' # "bridge"
    BY DEF Sends
  <1>1. /\ L \in Nat /\ wire' \in Seq(Frame) /\ Len(wire') = L + 1
        /\ \A i \in 1..L : wire'[i] = wire[i]
        /\ wire'[L + 1] = f
        /\ \A i \in 1..(L + 1) : i \in 1..L \/ i = L + 1
    BY Appended DEF TypeOK, Sends
  <1>2. /\ Connected /\ (at = "first" => wire[1].type = "attached")
        /\ \A i \in 1..L : /\ wire[i].type # "controller_revoked"
                           /\ wire[i].type = "output" => wire[i].seq + L = latest + i
    BY DEF IInv, LeaseHeld, IsA
  <1>3. /\ latest \in Nat /\ latest' \in Nat /\ latest <= latest'
        /\ \A i \in 1..L : wire[i].seq \in Nat
    BY <1>s, Numbers
  <1>4. at \in {"first", "save"} => L > 0 /\ 1 \in 1..L
    <2>1. at \in {"first", "save"} => L # 0
      BY EmptySeq DEF WireShape, TypeOK
    <2> QED
      BY <1>1, <2>1
  <1> HIDE DEF L
  <1>0. /\ L \in Nat /\ latest \in Nat /\ latest' \in Nat
        /\ L + 1 \in Nat /\ latest + 1 \in Nat
    BY <1>1, <1>3
  <1>5. WireShape'
    <2>0. /\ at = "first" => wire # <<>> /\ wire[1].type \in Answers
          /\ at = "save" => wire # <<>> /\ wire[1].type = "output"
          /\ \A i \in 1..L :
                /\ wire[i].type \in Answers => at = "first" /\ i = 1
                /\ wire[i].type = "replay_gap"
                     => /\ at \in {"first", "loop"}
                        /\ i = (IF at = "first" THEN 2 ELSE 1)
                        /\ i < L /\ wire[i + 1].type = "output"
      BY <1>s DEF WireShape, IsA, L
    <2>1. at' = "first" => wire' # <<>> /\ wire'[1].type \in Answers
      <3>1. wire' # <<>>
        BY <1>1, EmptySeq
      <3> QED
        BY <1>s, <1>1, <1>4, <2>0, <3>1
    <2>2. at' = "save" => wire' # <<>> /\ wire'[1].type = "output"
      <3>1. wire' # <<>>
        BY <1>1, EmptySeq
      <3> QED
        BY <1>s, <1>1, <1>4, <2>0, <3>1
    <2>3. ASSUME NEW i \in 1..(L + 1)
          PROVE  /\ wire'[i].type \in Answers => at' = "first" /\ i = 1
                 /\ wire'[i].type = "replay_gap"
                      => /\ at' \in {"first", "loop"}
                         /\ i = (IF at' = "first" THEN 2 ELSE 1)
                         /\ i < L + 1 /\ wire'[i + 1].type = "output"
                 /\ wire'[i].type = "controller_revoked" => i = L + 1
      <3>1. CASE i \in 1..L
        <4>1. wire'[i] = wire[i] /\ wire'[i].type # "controller_revoked"
          BY <1>s, <1>1, <1>2, <3>1
        <4>2. wire'[i].type \in Answers => at' = "first" /\ i = 1
          BY <1>s, <2>0, <3>1, <4>1
        <4>3. wire'[i].type = "replay_gap"
                 => /\ at' \in {"first", "loop"}
                    /\ i = (IF at' = "first" THEN 2 ELSE 1)
                    /\ i < L /\ wire[i + 1].type = "output"
          BY <1>s, <2>0, <3>1, <4>1
        <4>4. i < L => i + 1 \in 1..L /\ i < L + 1
          BY <1>s, <1>1
        <4> QED
          BY <1>s, <1>1, <4>1, <4>2, <4>3, <4>4
      <3>2. CASE i = L + 1
        BY <1>s, <1>1, <3>2 DEF Answers
      <3> QED
        BY <1>s, <1>1, <3>1, <3>2
    <2> QED
      BY <1>s, <1>1, <2>1, <2>2, <2>3 DEF WireShape, IsA
  <1>6. \A i \in 1..(L + 1) : wire'[i].type = "output"
            => /\ wire'[i].seq \in 1..latest' /\ wire'[i].seq \in Nat
               /\ wire'[i].seq + (L + 1) = (latest + 1) + i
    <2> SUFFICES ASSUME NEW i \in 1..(L + 1), wire'[i].type = "output"
                 PROVE  /\ wire'[i].seq \in 1..latest' /\ wire'[i].seq \in Nat
                        /\ wire'[i].seq + (L + 1) = (latest + 1) + i
      BY <1>s
    <2>1. CASE i \in 1..L
      <3>1. wire[i].seq \in 1..latest
        BY <1>1, <2>1 DEF WireNumbers, IsA, L
      <3> QED
        <4>1. wire'[i] = wire[i] /\ wire'[i].seq \in 1..latest
          BY <1>s, <1>1, <2>1, <3>1
        <4>2. wire[i].seq \in Nat /\ wire[i].seq + L = latest + i /\ i \in Nat
          BY <1>s, <1>0, <1>1, <1>2, <1>3, <2>1
        <4>3. wire[i].seq + (L + 1) = (latest + 1) + i
          BY <1>0, <4>2
        <4>4. \A n \in 1..latest : n \in 1..latest' /\ n \in Nat
          BY <1>0, <1>3
        <4> QED
          BY <4>1, <4>3, <4>4
    <2>2. CASE i = L + 1
      <3>1. wire'[i].seq = latest + 1 /\ latest' = latest + 1
        BY <1>s, <1>1, <2>2
      <3>2. /\ latest + 1 \in 1..(latest + 1) /\ latest + 1 \in Nat
            /\ (latest + 1) + (L + 1) = (latest + 1) + (L + 1)
        BY <1>0
      <3> QED
        BY <1>s, <2>2, <3>1, <3>2
    <2> QED
      BY <1>s, <1>1, <2>1, <2>2
  <1>7. WireNumbers'
    <2>1. \A i, j \in 1..(L + 1) : wire'[i].type = "output" /\ wire'[j].type = "output"
             => wire'[j].seq + i = wire'[i].seq + j
      <3> SUFFICES ASSUME NEW i \in 1..(L + 1), NEW j \in 1..(L + 1),
                          wire'[i].type = "output", wire'[j].type = "output"
                   PROVE  wire'[j].seq + i = wire'[i].seq + j
        OBVIOUS
      <3>1. /\ wire'[i].seq \in Nat /\ wire'[i].seq + (L + 1) = (latest + 1) + i
            /\ wire'[j].seq \in Nat /\ wire'[j].seq + (L + 1) = (latest + 1) + j
        BY <1>6
      <3> QED
        BY <1>0, <3>1
    <2> QED
      BY <1>s, <1>1, <1>6, <2>1 DEF WireNumbers, IsA
  <1>8. LeaseHeld'
    <2> SUFFICES ASSUME lease' = "bridge" PROVE LeaseHeld'
      BY <1>s DEF LeaseHeld
    <2>1. f.type = "output" /\ latest' = latest + 1
      BY <1>s
    <2>2. Connected' /\ (at' = "first" => wire'[1].type = "attached")
      BY <1>s, <1>1, <1>2, <1>4 DEF Connected
    <2>3. ASSUME NEW i \in 1..(L + 1)
          PROVE  /\ wire'[i].type # "controller_revoked"
                 /\ wire'[i].type = "output" => wire'[i].seq + (L + 1) = latest' + i
      <3>1. wire'[i].type # "controller_revoked"
        BY <1>s, <1>1, <1>2, <2>1
      <3> QED
        BY <1>s, <1>6, <2>1, <3>1
    <2> QED
      BY <1>s, <1>1, <2>2, <2>3 DEF LeaseHeld, IsA
  <1>9. Lead' = Lead /\ Lead \in Nat /\ Lead <= L
    <2>1. CASE at = "first"
      <3>1. L + 1 > 1 /\ (2 \in 1..L \/ 2 = L + 1) /\ (2 \in 1..L <=> L > 1)
        BY <1>s, <1>1, <1>4, <2>1
      <3>2. f.type # "replay_gap"
        BY <1>s
      <3>3. wire'[2].type = "replay_gap" <=> L > 1 /\ wire[2].type = "replay_gap"
        BY <1>s, <1>1, <3>1, <3>2
      <3>4. Lead = (IF L > 1 /\ wire[2].type = "replay_gap" THEN 2 ELSE 1)
        BY <1>s, <2>1 DEF Lead, IsA, L
      <3>5. Lead' = (IF Len(wire') > 1 /\ wire'[2].type = "replay_gap" THEN 2 ELSE 1)
        BY <1>s, <2>1 DEF Lead, IsA
      <3> QED
        BY <1>s, <1>1, <1>4, <2>1, <3>1, <3>3, <3>4, <3>5
    <2>2. CASE at # "first"
      <3>1. wire # <<>> => L # 0
        BY EmptySeq DEF TypeOK, L
      <3>2. wire = <<>> => L = 0
        BY EmptySeq DEF L
      <3>3. wire' # <<>>
        BY <1>1, EmptySeq
      <3>4. wire'[1].type = "replay_gap" <=> wire # <<>> /\ wire[1].type = "replay_gap"
        <4>1. CASE L = 0
          BY <1>s, <1>1, <3>1, <4>1
        <4>2. CASE L # 0
          <5>1. 1 \in 1..L
            BY <1>s, <1>1, <4>2
          <5> QED
            BY <1>s, <1>1, <3>2, <4>2, <5>1
        <4> QED
          BY <4>1, <4>2
      <3>5. Lead = (IF wire # <<>> /\ wire[1].type = "replay_gap" THEN 1 ELSE 0)
        BY <1>s, <2>2 DEF Lead, IsA
      <3>6. Lead' = (IF wire' # <<>> /\ wire'[1].type = "replay_gap" THEN 1 ELSE 0)
        BY <1>s, <2>2 DEF Lead, IsA
      <3> QED
        BY <1>s, <1>1, <3>1, <3>3, <3>4, <3>5, <3>6
    <2> QED
      BY <2>1, <2>2
  <1>10. \A n : Coming(n)' => Coming(n)
    <2> SUFFICES ASSUME NEW n, Coming(n)' PROVE Coming(n)
      BY <1>s
    <2>1. Lead < L => Lead + 1 \in 1..L
      BY <1>s, <1>1, <1>9
    <2>2. \/ Lead < L + 1 /\ wire'[Lead + 1].type = "output" /\ n = wire'[Lead + 1].seq
          \/ Lead = L + 1 /\ lease' = "bridge" /\ n = latest' + 1
      BY <1>s, <1>1, <1>9 DEF Coming, IsA
    <2>3. Lead # L + 1 /\ (Lead < L \/ Lead = L)
      BY <1>s, <1>1, <1>9
    <2>4. CASE Lead < L
      BY <1>s, <1>1, <2>1, <2>2, <2>3, <2>4 DEF Coming, IsA, L
    <2>5. CASE Lead = L
      BY <1>s, <1>1, <2>2, <2>3, <2>5 DEF Coming, L
    <2> QED
      BY <1>s, <2>3, <2>4, <2>5
  <1>11. GapNoted => GapNoted'
    <2>1. \A i \in 1..L : i \in 1..(L + 1)
      BY <1>s, <1>1
    <2> QED
      BY <1>s, <1>1, <2>1 DEF GapNoted, IsA, L
  <1>12. at = "first" => wire'[1] = wire[1]
    BY <1>s, <1>1, <1>4
  <1>13. Follows'
    BY <1>s, <1>10, <1>11, <1>12 DEF Follows, OtherGeneration, IsA, Last
  <1> QED
    BY <1>s, <1>5, <1>7, <1>8, <1>13

\* A frame is handled and leaves the wire.
Handles ==
    /\ at \in {"first", "loop", "save"} /\ wire # <<>>
    /\ at = "loop" => wire[1].type = "replay_gap"
    /\ wire' = Tail(wire) /\ at' = "loop"
    /\ UNCHANGED <<generation, latest, lease>>

\* The rest of the wire is as it was, one place nearer, and so is the output that is next.
LEMMA OneHandled ==
    ASSUME IInv, Handles
    PROVE  /\ WireShape' /\ WireNumbers' /\ LeaseHeld'
           /\ at # "save" => Lead = Lead' + 1 /\ Lead' \in Nat /\ \A n : Coming(n)' => Coming(n)
           /\ at # "first" => Lead' = 0
           /\ at = "first" /\ GapNoted /\ UNCHANGED notes => GapNoted'
  <1> DEFINE L == Len(wire)
  <1>0. /\ at \in {"first", "loop", "save"} /\ wire # <<>> /\ at' = "loop"
        /\ UNCHANGED <<generation, latest, lease>>
    BY DEF Handles
  <1>g. at = "loop" => wire[1].type = "replay_gap"
    BY DEF Handles
  <1>1. /\ L \in Nat \ {0} /\ 1 \in 1..L /\ Len(wire') = L - 1
        /\ \A i \in 1..(L - 1) : i + 1 \in 1..L /\ wire'[i] = wire[i + 1]
        /\ wire' # <<>> => 1 \in 1..(L - 1)
        /\ wire' = <<>> => L = 1
    BY Handled DEF IInv, CursorShown, TypeOK, Handles
  <1>2. /\ latest \in Nat
        /\ \A i \in 1..L : wire[i].seq \in Nat
    BY Numbers DEF IInv, CursorShown
  <1>3. /\ at = "first" => wire[1].type \in Answers
        /\ at = "save" => wire[1].type = "output"
        /\ \A i \in 1..L :
              /\ wire[i].type \in Answers => at = "first" /\ i = 1
              /\ wire[i].type = "replay_gap"
                   => /\ at \in {"first", "loop"}
                      /\ i = (IF at = "first" THEN 2 ELSE 1)
                      /\ i < L /\ wire[i + 1].type = "output"
              /\ wire[i].type = "controller_revoked" => i = L
    BY DEF IInv, WireShape, IsA, L
  <1>4. \A i \in 1..L : wire[i].type = "output" =>
            /\ wire[i].seq \in 1..latest
            /\ \A j \in 1..L : wire[j].type = "output" => wire[j].seq + i = wire[i].seq + j
    BY DEF IInv, WireNumbers, IsA, L
  <1>5. lease = "bridge" =>
           \A i \in 1..L : /\ wire[i].type # "controller_revoked"
                           /\ wire[i].type = "output" => wire[i].seq + L = latest + i
    BY DEF IInv, LeaseHeld, IsA, L
  <1> HIDE DEF L
  <1>n. L \in Nat /\ L >= 1 /\ latest \in Nat
    BY <1>1, <1>2
  <1>6. WireShape'
    <2> SUFFICES ASSUME NEW i \in 1..(L - 1)
                 PROVE  /\ wire'[i].type \notin Answers
                        /\ wire'[i].type = "replay_gap"
                             => i = 1 /\ i < L - 1 /\ wire'[i + 1].type = "output"
                        /\ wire'[i].type = "controller_revoked" => i = L - 1
      BY <1>0, <1>1 DEF WireShape, IsA
    <2>1. /\ i \in Nat \ {0} /\ i + 1 \in 1..L /\ i + 1 # 1 /\ wire'[i] = wire[i + 1]
      BY <1>1
    <2>2. wire'[i].type \notin Answers
      BY <1>3, <2>1
    <2>3. wire'[i].type = "controller_revoked" => i = L - 1
      BY <1>1, <1>3, <2>1
    <2>4. ASSUME wire'[i].type = "replay_gap"
          PROVE  i = 1 /\ i < L - 1 /\ wire'[i + 1].type = "output"
      <3>1. i + 1 = (IF at = "first" THEN 2 ELSE 1) /\ i + 1 < L /\ wire[(i + 1) + 1].type = "output"
        BY <1>3, <2>1, <2>4
      <3>2. i = 1 /\ i + 1 \in 1..(L - 1) /\ i < L - 1
        BY <1>1, <2>1, <3>1
      <3> QED
        BY <1>1, <3>1, <3>2
    <2> QED
      BY <2>2, <2>3, <2>4
  <1>7. WireNumbers'
    <2> SUFFICES ASSUME NEW i \in 1..(L - 1), wire'[i].type = "output"
                 PROVE  /\ wire'[i].seq \in 1..latest
                        /\ \A j \in 1..(L - 1) : wire'[j].type = "output"
                                => wire'[j].seq + i = wire'[i].seq + j
      BY <1>0, <1>1 DEF WireNumbers, IsA
    <2>1. i + 1 \in 1..L /\ wire'[i] = wire[i + 1] /\ i \in Nat
      BY <1>1
    <2>2. wire'[i].seq \in 1..latest
      BY <1>4, <2>1
    <2>3. ASSUME NEW j \in 1..(L - 1), wire'[j].type = "output"
          PROVE  wire'[j].seq + i = wire'[i].seq + j
      <3>1. j + 1 \in 1..L /\ wire'[j] = wire[j + 1] /\ j \in Nat
        BY <1>1
      <3>2. wire[j + 1].seq + (i + 1) = wire[i + 1].seq + (j + 1)
        BY <1>4, <2>1, <2>3, <3>1
      <3>3. wire[j + 1].seq \in Nat /\ wire[i + 1].seq \in Nat
        BY <1>2, <2>1, <3>1
      <3>4. wire[j + 1].seq + i = wire[i + 1].seq + j
        BY <2>1, <3>1, <3>2, <3>3
      <3> QED
        BY <2>1, <3>1, <3>4
    <2> QED
      BY <2>2, <2>3
  <1>8. LeaseHeld'
    <2> SUFFICES ASSUME lease = "bridge", NEW i \in 1..(L - 1)
                 PROVE  /\ wire'[i].type # "controller_revoked"
                        /\ wire'[i].type = "output" => wire'[i].seq + (L - 1) = latest + i
      BY <1>0, <1>1 DEF LeaseHeld, IsA, Connected
    <2>1. i + 1 \in 1..L /\ wire'[i] = wire[i + 1] /\ i \in Nat
      BY <1>1
    <2>2. /\ wire[i + 1].type # "controller_revoked"
          /\ wire[i + 1].type = "output" => wire[i + 1].seq + L = latest + (i + 1)
      BY <1>5, <2>1
    <2>3. wire[i + 1].seq \in Nat
      BY <1>2, <2>1
    <2>4. wire[i + 1].seq + L = latest + (i + 1) => wire[i + 1].seq + (L - 1) = latest + i
      BY <1>n, <2>1, <2>3
    <2> QED
      BY <2>1, <2>2, <2>4
  <1>9. Lead' = (IF wire' # <<>> /\ wire'[1].type = "replay_gap" THEN 1 ELSE 0)
    BY <1>0 DEF Lead, IsA
  <1>10. ASSUME at # "first" PROVE Lead' = 0
    <2>1. ASSUME wire' # <<>> PROVE wire'[1].type # "replay_gap"
      <3>1. 2 \in 1..L /\ wire'[1] = wire[2] /\ ~(2 = 1)
        BY <1>1, <2>1
      <3> QED
        BY <1>3, <1>10, <3>1
    <2> QED
      BY <1>9, <2>1
  <1>11. at # "save" => Lead = Lead' + 1 /\ Lead' \in Nat
    <2>1. CASE at = "first"
      <3>1. Lead = (IF L > 1 /\ wire[2].type = "replay_gap" THEN 2 ELSE 1)
        BY <2>1 DEF Lead, IsA, L
      <3>2. wire' # <<>> => L > 1 /\ wire'[1] = wire[2]
        BY <1>1
      <3>3. wire' = <<>> => ~(L > 1)
        BY <1>1
      <3> QED
        BY <1>9, <3>1, <3>2, <3>3
    <2>2. CASE at = "loop"
      <3>1. Lead = 1
        BY <1>0, <1>g, <2>2 DEF Lead, IsA
      <3> QED
        BY <1>10, <2>2, <3>1
    <2> QED
      BY <1>0, <2>1, <2>2
  <1>12. ASSUME at # "save", NEW n, Coming(n)' PROVE Coming(n)
    <2>1. \/ Lead' < L - 1 /\ wire'[Lead' + 1].type = "output" /\ n = wire'[Lead' + 1].seq
          \/ Lead' = L - 1 /\ lease = "bridge" /\ n = latest + 1
      BY <1>0, <1>1, <1>12 DEF Coming, IsA
    <2>2. Lead = Lead' + 1 /\ Lead' \in Nat
      BY <1>11, <1>12
    <2>3. Lead' < L - 1 => Lead < L /\ Lead' + 1 \in 1..(L - 1) /\ (Lead' + 1) + 1 = Lead + 1
      <3>1. \A a \in Nat : a < L - 1 => a + 1 < L /\ a + 1 \in 1..(L - 1)
        BY <1>n
      <3> QED
        BY <2>2, <3>1
    <2>4. Lead' = L - 1 => Lead = L
      BY <1>n, <2>2
    <2>5. Lead' < L - 1 => wire'[Lead' + 1] = wire[Lead + 1]
      BY <1>1, <2>3
    <2> QED
      BY <2>1, <2>3, <2>4, <2>5 DEF Coming, IsA, L
  <1>13. ASSUME at = "first", GapNoted, UNCHANGED notes PROVE GapNoted'
    <2>1. CASE \E i \in 1..L : wire[i].type = "replay_gap"
      <3>1. PICK i \in 1..L : wire[i].type = "replay_gap"
        BY <2>1
      <3>2. i = 2 /\ 1 \in 1..(L - 1)
        BY <1>1, <1>3, <1>13, <3>1
      <3>3. wire'[1] = wire[2]
        BY <1>1, <3>2
      <3> QED
        BY <1>1, <3>1, <3>2, <3>3 DEF GapNoted, IsA
    <2> QED
      BY <1>13, <2>1 DEF GapNoted, IsA, L
  <1> QED
    BY <1>6, <1>7, <1>8, <1>10, <1>11, <1>12, <1>13

\* A refusal is all there is on the wire, and the bridge does not have the lease.
LEMMA Refused ==
    ASSUME NEW type \in {"replay_cursor_invalid", "controller_busy"},
           wire' = <<Sent(type)>>, at' = "first", lease' # "bridge"
    PROVE  WireShape' /\ WireNumbers' /\ LeaseHeld' /\ Follows'
  <1>1. /\ wire' # <<>> /\ Len(wire') = 1 /\ wire'[1].type = type
        /\ \A i \in 1..Len(wire') : i = 1
    <2>1. Sent(type) \in Frame /\ Sent(type).type = type
      BY Frames
    <2> QED
      BY <2>1, ShortWires
  <1>2. WireShape'
    BY <1>1 DEF WireShape, IsA, Answers
  <1>3. WireNumbers'
    BY <1>1 DEF WireNumbers, IsA
  <1>4. LeaseHeld' /\ Follows'
    BY <1>1 DEF LeaseHeld, Follows, IsA
  <1> QED
    BY <1>2, <1>3, <1>4

\* An attach is granted.
Grants ==
    /\ Attach
    /\ state.after <= latest
    /\ wire' = <<Sent("attached")>> \o Replayed(state.after)
    /\ lease' = "bridge"

\* What follows the answer is what the runner retains after the cursor.
LEMMA Granted ==
    ASSUME IInv, Grants
    PROVE  WireShape' /\ WireNumbers' /\ LeaseHeld' /\ Follows'
  <1> TypeOK /\ PaneBehind
    BY DEF IInv, CursorShown
  <1>0. /\ at' = "first"
        /\ state.after = 0 => "blind" \in notes'
        /\ UNCHANGED <<generation, latest, state, screen>>
        /\ state.after <= latest
    BY DEF Attach, Grants
  <1>1. /\ latest \in Nat /\ latest \in 0..MaxOutput /\ MaxOutput \in Nat
        /\ state.after \in Nat /\ state.after \in 0..latest
    BY <1>0, Numbers
  <1>2. PICK w \in Seq(Frame), g \in {0, 1}, k \in 0..latest :
              /\ w = wire'
              /\ Len(w) = 1 + g + k
              /\ w[1] = Sent("attached")
              /\ g = 1 => w[2] = Sent("replay_gap") /\ k > 0 /\ state.after + k < latest
              /\ \A i \in (2 + g)..(1 + g + k) : w[i] = Output(latest + i - (1 + g + k))
              /\ state.after > 0 /\ g = 0 => state.after + k = latest
              /\ state.after = 0 => g = 0 /\ k = 0
    BY <1>1, Answer DEF Grants
  <1>3. g \in Nat /\ k \in Nat /\ k <= latest /\ (g = 0 \/ g = 1)
    BY <1>1
  <1>l. lease' = "bridge"
    BY DEF Grants
  <1> DEFINE L == 1 + g + k
  <1>4. L \in Nat \ {0} /\ \A i \in 1..L : i = 1 \/ (g = 1 /\ i = 2) \/ i \in (2 + g)..L
    BY <1>3
  <1>5. wire'[1].type = "attached" /\ Len(wire') = L /\ wire' # <<>>
    <2>1. Sent("attached").type = "attached"
      BY Frames
    <2>2. wire' # <<>>
      BY <1>2, <1>4, EmptySeq
    <2> QED
      BY <1>2, <2>1, <2>2
  <1>6. g = 1 => wire'[2].type = "replay_gap" /\ 2 < L /\ 3 \in (2 + g)..L
    <2>1. Sent("replay_gap").type = "replay_gap"
      BY Frames
    <2>2. g = 1 => k > 0
      BY <1>2
    <2>3. g = 1 /\ k > 0 => 2 < L /\ 3 \in (2 + g)..L
      BY <1>3
    <2> QED
      BY <1>2, <2>1, <2>2, <2>3
  <1>7. \A i \in (2 + g)..L : /\ wire'[i].type = "output" /\ wire'[i].seq \in 1..latest
                              /\ wire'[i].seq + L = latest + i
                              /\ wire'[i].seq \in Nat /\ i \in Nat
    <2> SUFFICES ASSUME NEW i \in (2 + g)..L
                 PROVE  /\ wire'[i].type = "output" /\ wire'[i].seq \in 1..latest
                        /\ wire'[i].seq + L = latest + i
                        /\ wire'[i].seq \in Nat /\ i \in Nat
      OBVIOUS
    <2> DEFINE n == latest + i - L
    <2>1. /\ n \in 1..latest /\ n \in 0..MaxOutput /\ n \in Nat /\ n + L = latest + i /\ i \in Nat
      BY <1>1, <1>3
    <2>2. wire'[i] = Output(n)
      BY <1>2
    <2> HIDE DEF n
    <2>3. Output(n).type = "output" /\ Output(n).seq = n
      BY <2>1, Frames
    <2> QED
      BY <2>1, <2>2, <2>3
  <1> HIDE DEF L
  <1>8. \A i \in 1..L : /\ wire'[i].type \in Answers => i = 1
                        /\ wire'[i].type = "replay_gap" => g = 1 /\ i = 2
                        /\ wire'[i].type = "output" => i \in (2 + g)..L
                        /\ wire'[i].type # "controller_revoked"
    <2> SUFFICES ASSUME NEW i \in 1..L
                 PROVE  /\ wire'[i].type \in Answers => i = 1
                        /\ wire'[i].type = "replay_gap" => g = 1 /\ i = 2
                        /\ wire'[i].type = "output" => i \in (2 + g)..L
                        /\ wire'[i].type # "controller_revoked"
      OBVIOUS
    <2>1. CASE i = 1
      BY <1>5, <2>1
    <2>2. CASE g = 1 /\ i = 2
      BY <1>6, <2>2 DEF Answers
    <2>3. CASE i \in (2 + g)..L
      BY <1>7, <2>3 DEF Answers
    <2> QED
      BY <1>4, <2>1, <2>2, <2>3
  <1>9. WireShape'
    BY <1>0, <1>5, <1>6, <1>7, <1>8 DEF WireShape, IsA, Answers
  <1>10. WireNumbers'
    <2>1. ASSUME NEW i \in (2 + g)..L, NEW j \in (2 + g)..L
          PROVE  wire'[j].seq + i = wire'[i].seq + j
      <3>1. /\ wire'[i].seq \in Nat /\ wire'[i].seq + L = latest + i /\ i \in Nat
            /\ wire'[j].seq \in Nat /\ wire'[j].seq + L = latest + j /\ j \in Nat
        BY <1>7
      <3>2. L \in Nat
        BY <1>4
      <3>3. \A a, b \in Nat : a + L = latest + i /\ b + L = latest + j => b + i = a + j
        BY <1>1, <3>1, <3>2
      <3> QED
        BY <3>1, <3>3
    <2> QED
      BY <1>0, <1>5, <1>7, <1>8, <2>1 DEF WireNumbers, IsA
  <1>11. LeaseHeld'
    BY <1>0, <1>l, <1>5, <1>7, <1>8 DEF LeaseHeld, IsA, Connected
  <1>12. Lead' = 1 + g
    <2>1. Lead' = (IF L > 1 /\ wire'[2].type = "replay_gap" THEN 2 ELSE 1)
      BY <1>0, <1>5 DEF Lead, IsA
    <2>2. L > 1 => 2 \in 1..L
      BY <1>4
    <2>3. g = 1 => L > 1
      BY <1>4, <1>6
    <2>4. CASE g = 1
      BY <1>6, <2>1, <2>3, <2>4
    <2>5. CASE g = 0
      <3>1. ~(L > 1 /\ wire'[2].type = "replay_gap")
        BY <1>8, <2>2, <2>5
      <3> QED
        BY <2>1, <2>5, <3>1
    <2> QED
      BY <1>3, <2>4, <2>5
  <1>13. ASSUME NEW n, Coming(n)' PROVE n = (latest + 1) - k
    <2>1. \/ 1 + g < L /\ n = wire'[(1 + g) + 1].seq
          \/ 1 + g = L /\ n = latest + 1
      BY <1>0, <1>l, <1>5, <1>12, <1>13 DEF Coming, IsA
    <2>2. CASE 1 + g < L /\ n = wire'[(1 + g) + 1].seq
      <3>1. (1 + g) + 1 \in (2 + g)..L
        BY <1>3, <1>4, <2>2
      <3>2. n \in Nat /\ n + L = latest + ((1 + g) + 1)
        BY <1>7, <2>2, <3>1
      <3>3. L = 1 + g + k
        BY DEF L
      <3> QED
        BY <1>1, <1>3, <3>2, <3>3
    <2>3. CASE 1 + g = L /\ n = latest + 1
      <3>1. L = 1 + g + k
        BY DEF L
      <3> QED
        BY <1>1, <1>3, <2>3, <3>1
    <2> QED
      BY <2>1, <2>2, <2>3
  <1>14. Follows'
    <2> SUFFICES ASSUME NEW n \in 1..(MaxOutput + 1), Coming(n)'
                 PROVE  /\ state.after > 0
                             => n = state.after + 1 \/ (n > state.after + 1 /\ GapNoted')
                        /\ state.after = 0
                             => /\ "blind" \in notes'
                                /\ screen # <<>> /\ Last.generation = generation => n > Last.seq
      BY <1>0 DEF Follows, Last
    <2>1. n = (latest + 1) - k
      BY <1>13
    <2>2. ASSUME state.after > 0
          PROVE  n = state.after + 1 \/ (n > state.after + 1 /\ GapNoted')
      <3>1. CASE g = 0
        <4>1. state.after + k = latest
          BY <1>2, <2>2, <3>1
        <4> QED
          BY <1>1, <1>3, <2>1, <4>1
      <3>2. CASE g = 1
        <4>1. state.after + k < latest
          BY <1>2, <3>2
        <4>2. 2 \in 1..L
          BY <1>4, <1>6, <3>2
        <4>3. GapNoted'
          BY <1>5, <1>6, <3>2, <4>2 DEF GapNoted, IsA
        <4>4. n > state.after + 1
          BY <1>1, <1>3, <2>1, <4>1
        <4> QED
          BY <4>3, <4>4
      <3> QED
        BY <1>3, <3>1, <3>2
    <2>3. ASSUME state.after = 0, screen # <<>>, Last.generation = generation PROVE n > Last.seq
      <3>1. Last.seq <= latest
        BY <2>3 DEF PaneBehind
      <3>2. Last.seq \in Nat
        <4>1. Len(screen) \in 1..Len(screen)
          BY <2>3, EmptySeq, Numbers DEF TypeOK
        <4> QED
          BY <4>1, Numbers DEF Last
      <3>3. k = 0
        BY <1>2, <2>3
      <3> QED
        BY <1>1, <2>1, <3>1, <3>2, <3>3
    <2> QED
      BY <1>0, <2>2, <2>3
  <1> QED
    BY <1>9, <1>10, <1>11, <1>14

-----------------------------------------------------------------------------
(* The pane and the cursor.                                                *)

\* What was shown last is something that was shown.
LEMMA LastShown ==
    ASSUME TypeOK, screen # <<>>
    PROVE  /\ Len(screen) \in 1..Len(screen)
           /\ Last \in Written /\ Last.seq \in Nat \ {0} /\ Last.generation \in Nat
  <1>1. Len(screen) \in 1..Len(screen)
    <2>1. Len(screen) \in Nat \ {0}
      BY EmptySeq DEF TypeOK
    <2> QED
      BY <2>1
  <1> QED
    BY <1>1, Numbers DEF Last

\* A generation that was shown, and a cursor that was, mean that something was shown.
LEMMA ShownCursor ==
    ASSUME IInv, NEW s \in {state, saved}, s.after > 0
    PROVE  screen # <<>>
  <1>1. PICK i \in 1..Len(screen) : screen[i].seq = s.after
    BY DEF IInv, CursorShown
  <1>2. Len(<<>>) = 0
    OBVIOUS
  <1> QED
    BY <1>1, <1>2

\* A step that shows nothing and starts no generation over leaves the pane in order.
LEMMA PaneKept ==
    ASSUME IInv, screen' = screen, generation' \in Nat, generation <= generation',
           generation' = generation => latest' \in Nat /\ latest <= latest'
    PROVE  ShownInOrder' /\ PaneBehind'
  <1> TypeOK /\ ShownInOrder /\ PaneBehind
    BY DEF IInv, CursorShown
  <1>1. ShownInOrder'
    BY DEF ShownInOrder
  <1>2. \A i \in 1..Len(screen) : screen[i].generation <= generation'
    <2> SUFFICES ASSUME NEW i \in 1..Len(screen) PROVE screen[i].generation <= generation'
      OBVIOUS
    <2>1. screen[i].generation <= generation /\ screen[i].generation \in Nat /\ generation \in Nat
      BY Numbers DEF PaneBehind
    <2> QED
      BY <2>1
  <1>3. ASSUME screen # <<>>, Last.generation = generation' PROVE Last.seq <= latest'
    <2>1. Last.generation <= generation /\ Last.generation \in Nat /\ Last.seq \in Nat
      BY <1>3, LastShown DEF PaneBehind, Last
    <2>2. generation' = generation
      BY <1>3, <2>1, Numbers
    <2>3. Last.seq <= latest
      BY <1>3, <2>2 DEF PaneBehind
    <2> QED
      BY <2>1, <2>2, <2>3, Numbers
  <1> QED
    BY <1>1, <1>2, <1>3 DEF PaneBehind, Last

\* A step that changes neither the cursor nor what is shown.
LEMMA CursorKept ==
    ASSUME IInv, TypeOK', UNCHANGED <<state, saved, screen>>, notes \subseteq notes',
           generation' \in Nat, generation <= generation',
           at' \in {"loop", "save"} => at' = at /\ generation' = generation,
           at' = "save" => wire'[1] = wire[1],
           at \in {"save", "off"} => at' \in {"save", "off"}
    PROVE  CursorShown' /\ CursorBehind'
  <1> TypeOK /\ CursorShown /\ CursorBehind
    BY DEF IInv, CursorShown
  <1>1. CursorShown'
    BY DEF CursorShown
  <1>2. \A s \in {state, saved} : s.generation <= generation' /\ (s.generation = generation' => generation' = generation)
    <2>1. \A s \in {state, saved} : s.generation <= generation
      BY DEF CursorBehind
    <2>2. state.generation \in Nat /\ saved.generation \in Nat /\ generation \in Nat
      BY Numbers
    <2>3. \A s \in {state, saved} : s.generation \in Nat
      BY <2>2
    <2> QED
      BY <2>1, <2>2, <2>3
  <1>3. CursorBehind'
    <2>1. \A s \in {state', saved'} :
             /\ s.generation <= generation'
             /\ s.generation = generation' /\ s.after > 0 => s.after <= Last'.seq
      BY <1>2 DEF CursorBehind, Last
    <2>2. state'.generation = generation' /\ state'.after > 0 /\ at' \notin {"save", "off"}
             => state'.after = Last'.seq \/ "restart" \in notes'
      BY <1>2 DEF CursorBehind, Last
    <2>3. saved'.generation = generation' /\ saved'.after > 0
             => state'.generation = generation' /\ saved'.after <= state'.after
      BY <1>2 DEF CursorBehind
    <2>4. at' \in {"loop", "save"} => state'.generation = generation'
      BY DEF CursorBehind
    <2>5. at' = "save" => /\ screen' # <<>>
                          /\ Last'.generation = generation' /\ Last'.seq = wire'[1].seq
      BY DEF CursorBehind, Last
    <2> QED
      BY <2>1, <2>2, <2>3, <2>4, <2>5 DEF CursorBehind
  <1> QED
    BY <1>1, <1>3

-----------------------------------------------------------------------------
(* Every step keeps the invariant.                                         *)

\* The hub numbers output, and sends it to the bridge if that has the lease.
LEMMA Published ==
    ASSUME IInv, publishOutput
    PROVE  IInv'
  <1> TypeOK /\ LeaseHeld /\ WireShape
    BY DEF IInv, CursorShown
  <1>0. TypeOK'
    BY RunnerTypes DEF RunnerNext
  <1>1. /\ UNCHANGED <<generation, lease, at, state, saved, screen, notes>>
        /\ latest' = latest + 1 /\ latest < MaxOutput
        /\ wire' = IF Connected /\ lease = "bridge" THEN Append(wire, Output(latest + 1)) ELSE wire
    BY DEF publishOutput, historyVars
  <1>2. latest \in Nat /\ latest' \in Nat /\ latest <= latest' /\ latest + 1 \in 0..MaxOutput
        /\ generation \in Nat /\ generation' \in Nat /\ generation <= generation'
    <2>1. latest \in Nat /\ MaxOutput \in Nat /\ generation \in Nat
      BY Numbers
    <2> QED
      BY <1>1, <2>1
  <1>3. WireShape' /\ WireNumbers' /\ LeaseHeld' /\ Follows'
    <2>1. CASE lease = "bridge"
      <3>1. Output(latest + 1) \in Frame /\ Output(latest + 1).type = "output"
            /\ Output(latest + 1).seq = latest + 1
        BY <1>2, Frames
      <3>2. Sends(Output(latest + 1))
        BY <1>1, <2>1, <3>1 DEF Sends, LeaseHeld
      <3> QED
        BY <2>1, <3>1, <3>2, OneSent
    <2>2. CASE lease # "bridge"
      BY <1>1, <1>2, <2>2, NothingSent
    <2> QED
      BY <2>1, <2>2
  <1>4. at' = "save" => wire'[1] = wire[1]
    <2> SUFFICES ASSUME at = "save", lease = "bridge" PROVE wire'[1] = wire[1]
      BY <1>1
    <2>1. 1 \in 1..Len(wire)
      BY Handled DEF WireShape, TypeOK
    <2>2. Output(latest + 1) \in Frame
      BY <1>2, Frames
    <2> QED
      BY <1>1, <2>1, <2>2, Appended DEF TypeOK
  <1>5. CursorShown' /\ CursorBehind'
    BY <1>0, <1>1, <1>2, <1>4, CursorKept
  <1>6. ShownInOrder' /\ PaneBehind'
    BY <1>1, <1>2, PaneKept
  <1> QED
    BY <1>3, <1>5, <1>6 DEF IInv

\* The lease goes to another or to nobody, which the bridge is told if it had it.
LEMMA Revocation ==
    ASSUME IInv, RunnerNext, NEW holder \in {"none", "other"}, Revoked(holder)
    PROVE  IInv'
  <1> TypeOK /\ LeaseHeld /\ WireShape
    BY DEF IInv, CursorShown
  <1>0. TypeOK'
    BY RunnerTypes
  <1>1. /\ UNCHANGED <<generation, latest, at, state, saved, screen, notes>>
        /\ lease' # "bridge"
        /\ wire' = IF lease = "bridge" THEN Append(wire, Sent("controller_revoked")) ELSE wire
    BY DEF Revoked, historyVars
  <1>2. /\ latest \in Nat /\ latest' \in Nat /\ latest <= latest'
        /\ generation \in Nat /\ generation' \in Nat /\ generation <= generation'
    <2>1. latest \in Nat /\ generation \in Nat
      BY Numbers
    <2> QED
      BY <1>1, <2>1
  <1>3. Sent("controller_revoked") \in Frame /\ Sent("controller_revoked").type = "controller_revoked"
    BY Frames
  <1>4. WireShape' /\ WireNumbers' /\ LeaseHeld' /\ Follows'
    <2>1. CASE lease = "bridge"
      <3>1. Sends(Sent("controller_revoked"))
        BY <1>1, <1>3, <2>1 DEF Sends
      <3> QED
        BY <1>3, <2>1, <3>1, OneSent
    <2>2. CASE lease # "bridge"
      BY <1>1, <1>2, <2>2, NothingSent
    <2> QED
      BY <2>1, <2>2
  <1>5. at' = "save" => wire'[1] = wire[1]
    <2> SUFFICES ASSUME at = "save", lease = "bridge" PROVE wire'[1] = wire[1]
      BY <1>1
    <2>1. 1 \in 1..Len(wire)
      BY Handled DEF WireShape, TypeOK
    <2> QED
      BY <1>1, <1>3, <2>1, Appended DEF TypeOK
  <1>6. CursorShown' /\ CursorBehind'
    BY <1>0, <1>1, <1>2, <1>5, CursorKept
  <1>7. ShownInOrder' /\ PaneBehind'
    BY <1>1, <1>2, PaneKept
  <1> QED
    BY <1>4, <1>6, <1>7 DEF IInv

\* A step that leaves no connection, and keeps the cursor and what is shown.
LEMMA Ended ==
    ASSUME IInv, TypeOK', wire' = <<>>, at' \notin {"first", "loop", "save"}, lease' # "bridge",
           UNCHANGED <<state, saved, screen>>, notes \subseteq notes',
           generation' \in Nat, generation <= generation',
           generation' = generation => latest' \in Nat /\ latest <= latest',
           at \in {"save", "off"} => at' = "off"
    PROVE  IInv'
  <1>1. WireShape' /\ WireNumbers' /\ LeaseHeld' /\ Follows'
    BY WireGone
  <1>2. ShownInOrder' /\ PaneBehind'
    BY PaneKept
  <1>3. CursorShown' /\ CursorBehind'
    BY CursorKept
  <1> QED
    BY <1>1, <1>2, <1>3 DEF IInv

\* The steps that end a connection, or are taken without one, and keep the cursor.
LEMMA WithoutConnection ==
    ASSUME IInv,
           \/ RunnerNext /\ RunnerRestarts
           \/ BridgeNext /\ (FirstRefused \/ LeaseLost \/ Retry)
           \/ DialFails \/ ConnectionLost \/ Crash
    PROVE  IInv'
  <1> TypeOK /\ LeaseHeld /\ WireShape
    BY DEF IInv, CursorShown
  <1> USE DEF runnerVars, historyVars, boundVars
  <1>0. TypeOK'
    BY RunnerTypes, BridgeTypes, OtherTypes
  <1>1. latest \in Nat /\ generation \in Nat /\ generation <= generation + 1 /\ generation + 1 # generation
        /\ generation + 1 \in Nat /\ latest <= latest /\ generation <= generation
    <2>1. latest \in Nat /\ generation \in Nat
      BY Numbers
    <2> QED
      BY <2>1
  <1>2. Disconnects => wire' = <<>> /\ lease' # "bridge"
    BY DEF Disconnects
  <1>3. wire # <<>> => Head(wire) = wire[1] /\ 1 \in 1..Len(wire)
    BY Handled DEF TypeOK
  <1>4. CASE RunnerRestarts
    <2>1. at' \notin {"first", "loop", "save"} /\ (at \in {"save", "off"} => at' = "off")
      BY <1>4 DEF RunnerRestarts, Connected
    <2> QED
      BY <1>0, <1>1, <1>4, <2>1, Ended DEF RunnerRestarts
  <1>5. CASE FirstRefused
    <2>1. wire # <<>> /\ wire[1].type # "attached"
      BY <1>3, <1>5 DEF FirstRefused, WireShape
    <2>2. lease # "bridge"
      BY <1>5, <2>1 DEF FirstRefused, LeaseHeld, IsA
    <2>3. at' \notin {"first", "loop", "save"}
      BY <1>5 DEF FirstRefused, AttemptFails
    <2>4. wire' = <<>> /\ at = "first" /\ UNCHANGED <<generation, latest, lease, state, saved, screen, notes>>
      BY <1>5 DEF FirstRefused
    <2> QED
      BY <1>0, <1>1, <2>2, <2>3, <2>4, Ended
  <1>6. CASE LeaseLost
    <2>1. wire # <<>> /\ wire[1].type = "controller_revoked" /\ 1 \in 1..Len(wire)
      BY <1>3, <1>6 DEF LeaseLost
    <2>2. lease # "bridge"
      BY <2>1 DEF LeaseHeld, IsA
    <2>3. at' \notin {"first", "loop", "save"} /\ at = "loop"
      BY <1>6 DEF LeaseLost
    <2>4. wire' = <<>> /\ UNCHANGED <<generation, latest, lease, state, saved, screen, notes>>
      BY <1>6 DEF LeaseLost
    <2> QED
      BY <1>0, <1>1, <2>2, <2>3, <2>4, Ended
  <1>7. CASE Retry \/ DialFails
    <2>1. wire = <<>> /\ lease # "bridge"
      BY <1>7, OnlyConnected DEF Retry, DialFails, Connected
    <2>2. at' \notin {"first", "loop", "save"} /\ at \notin {"save", "off"}
      BY <1>7 DEF Retry, DialFails, AttemptFails
    <2>3. UNCHANGED <<wire, generation, latest, lease, state, saved, screen, notes>>
      BY <1>7 DEF Retry, DialFails
    <2> QED
      BY <1>0, <1>1, <2>1, <2>2, <2>3, Ended
  <1>8. CASE ConnectionLost
    <2>1. at' = "backoff" /\ at \notin {"save", "off"}
      BY <1>8 DEF ConnectionLost, AttemptFails
    <2>2. UNCHANGED <<generation, latest, state, saved, screen, notes>>
      BY <1>8 DEF ConnectionLost
    <2>3. wire' = <<>> /\ lease' # "bridge"
      BY <1>2, <1>8 DEF ConnectionLost
    <2> QED
      BY <1>0, <1>1, <2>1, <2>2, <2>3, Ended
  <1>9. CASE Crash
    <2>1. at' = "off" /\ UNCHANGED <<generation, latest, state, saved, screen, notes>>
      BY <1>9 DEF Crash
    <2>2. wire' = <<>> /\ lease' # "bridge"
      BY <1>2, <1>9 DEF Crash
    <2> QED
      BY <1>0, <1>1, <2>1, <2>2, Ended
  <1> QED
    BY <1>4, <1>5, <1>6, <1>7, <1>8, <1>9

\* The bridge starts with what is on disk.
LEMMA Started ==
    ASSUME IInv, Run
    PROVE  IInv'
  <1> TypeOK /\ CursorShown /\ CursorBehind
    BY DEF IInv, CursorShown
  <1>0. TypeOK'
    BY OtherTypes
  <1>1. wire = <<>> /\ lease # "bridge"
    BY OnlyConnected DEF Run, Connected, GaveUp
  <1>2. /\ UNCHANGED <<generation, latest, lease, wire, saved, screen>>
        /\ state' = saved /\ at' = "dial" /\ "restart" \in notes'
    BY DEF Run, runnerVars
  <1>3. WireShape' /\ WireNumbers' /\ LeaseHeld' /\ Follows'
    BY <1>1, <1>2, WireGone
  <1>4. generation \in Nat /\ latest \in Nat /\ saved.after \in Nat
    BY Numbers
  <1>5. generation <= generation /\ latest <= latest /\ saved.after <= saved.after
    BY <1>4
  <1>6. ShownInOrder' /\ PaneBehind'
    BY <1>2, <1>4, <1>5, PaneKept
  <1>7. CursorShown'
    BY <1>0, <1>2 DEF CursorShown
  <1>8. CursorBehind'
    BY <1>2, <1>5 DEF CursorBehind, Last
  <1> QED
    BY <1>3, <1>6, <1>7, <1>8 DEF IInv

\* The cursor of another generation is dropped, in memory and perhaps on disk.
LEMMA Reset ==
    ASSUME IInv, FirstResets
    PROVE  IInv'
  <1> TypeOK /\ CursorShown /\ CursorBehind
    BY DEF IInv, CursorShown
  <1>0. TypeOK'
    BY BridgeTypes DEF BridgeNext
  <1>1. wire' = <<>> /\ lease' # "bridge" /\ at' = "backoff" /\ UNCHANGED <<generation, latest, screen, notes>>
    BY DEF FirstResets, Disconnects, historyVars
  <1>2. /\ state'.after = 0 /\ state'.generation = generation
        /\ saved' \in {saved, state'} /\ state.generation # generation
    BY NewStates DEF FirstResets, OtherGeneration
  <1>3. WireShape' /\ WireNumbers' /\ LeaseHeld' /\ Follows'
    BY <1>1, WireGone
  <1>4. generation \in Nat /\ latest \in Nat /\ saved.after \in Nat
    BY Numbers
  <1>5. generation <= generation /\ latest <= latest /\ ~(0 > 0)
    BY <1>4
  <1>6. ShownInOrder' /\ PaneBehind'
    BY <1>1, <1>4, <1>5, PaneKept
  <1>7. CursorShown'
    BY <1>0, <1>1, <1>2, <1>5 DEF CursorShown
  <1>8. CursorBehind'
    BY <1>1, <1>2, <1>5 DEF CursorBehind, Last
  <1> QED
    BY <1>3, <1>6, <1>7, <1>8 DEF IInv

\* The hub answers an attach.
LEMMA Answered ==
    ASSUME IInv, Attach
    PROVE  IInv'
  <1> TypeOK /\ LeaseHeld
    BY DEF IInv, CursorShown
  <1>0. TypeOK'
    BY BridgeTypes DEF BridgeNext
  <1>1. /\ at = "dial" /\ at' = "first" /\ UNCHANGED <<generation, latest, state, saved, screen>>
        /\ notes \subseteq notes'
    BY DEF Attach
  <1>2. lease # "bridge"
    BY <1>1, OnlyConnected DEF Connected
  <1>3. WireShape' /\ WireNumbers' /\ LeaseHeld' /\ Follows'
    <2>1. CASE wire' = <<Sent("replay_cursor_invalid")>> /\ UNCHANGED lease
      BY <1>1, <1>2, <2>1, Refused
    <2>2. CASE wire' = <<Sent("controller_busy")>> /\ UNCHANGED lease
      BY <1>1, <1>2, <2>2, Refused
    <2>3. CASE Grants
      BY <2>3, Granted
    <2> QED
      BY <2>1, <2>2, <2>3 DEF Attach, Grants
  <1>4. generation \in Nat /\ latest \in Nat
    BY Numbers
  <1>5. generation <= generation /\ latest <= latest
    BY <1>4
  <1>6. ShownInOrder' /\ PaneBehind'
    BY <1>1, <1>4, <1>5, PaneKept
  <1>7. CursorShown' /\ CursorBehind'
    BY <1>0, <1>1, <1>4, <1>5, CursorKept
  <1> QED
    BY <1>3, <1>6, <1>7 DEF IInv

\* The first frame says that the bridge is attached.
LEMMA Attached ==
    ASSUME IInv, FirstAttached
    PROVE  IInv'
  <1> TypeOK /\ CursorShown /\ CursorBehind /\ WireShape /\ Follows
    BY DEF IInv, CursorShown
  <1>0. TypeOK'
    BY BridgeTypes DEF BridgeNext
  <1>1. /\ at = "first" /\ at' = "loop" /\ wire # <<>> /\ wire' = Tail(wire) /\ ~OtherGeneration
        /\ wire[1].type = "attached"
        /\ UNCHANGED <<generation, latest, lease, screen, notes>>
    <2>1. at = "first" /\ wire # <<>>
      BY DEF FirstAttached, WireShape
    <2>2. Head(wire) = wire[1]
      BY <2>1, Handled DEF TypeOK
    <2> QED
      BY <2>1, <2>2 DEF FirstAttached, runnerVars, historyVars
  <1>2. /\ state'.after = state.after /\ state'.generation = generation
        /\ saved' \in {saved, state'}
    BY NewStates
  <1>3. state.after \in Nat /\ state.generation \in Nat /\ saved.after \in Nat
        /\ generation \in Nat /\ latest \in Nat /\ generation <= generation /\ latest <= latest
    <2>1. state.after \in Nat /\ state.generation \in Nat /\ saved.after \in Nat
          /\ generation \in Nat /\ latest \in Nat
      BY Numbers
    <2> QED
      BY <2>1
  <1>4. state.after > 0 => state.generation = generation
    <2>1. state.after > 0 => state.generation # 0 /\ state.after # 0
      BY <1>3 DEF TypeOK
    <2> QED
      BY <1>1, <2>1 DEF OtherGeneration
  <1>5. /\ WireShape' /\ WireNumbers' /\ LeaseHeld'
        /\ \A n : Coming(n)' => Coming(n)
        /\ GapNoted => GapNoted'
    <2>1. Handles
      BY <1>1 DEF Handles
    <2> QED
      BY <1>1, <2>1, OneHandled
  <1>6. Follows'
    BY <1>1, <1>2, <1>5 DEF Follows, IsA, Last
  <1>7. ShownInOrder' /\ PaneBehind'
    BY <1>1, <1>3, PaneKept
  <1>8. CursorShown'
    BY <1>0, <1>1, <1>2, <1>4 DEF CursorShown
  <1>9. CursorBehind'
    <2>1. state.after > 0 => /\ state.after <= Last.seq
                             /\ state.after = Last.seq \/ "restart" \in notes
      BY <1>1, <1>4 DEF CursorBehind
    <2>2. saved.generation = generation /\ saved.after > 0
             => saved.after <= state.after /\ saved.after <= Last.seq
      BY DEF CursorBehind
    <2>3. state.after <= state.after /\ saved.generation <= generation
      BY <1>3 DEF CursorBehind
    <2> QED
      BY <1>1, <1>2, <1>3, <2>1, <2>2, <2>3 DEF CursorBehind, Last
  <1> QED
    BY <1>5, <1>6, <1>7, <1>8, <1>9 DEF IInv

\* The bridge shows that output is missing.
LEMMA GapShown ==
    ASSUME IInv, ShowsGap
    PROVE  IInv'
  <1> TypeOK /\ WireShape /\ Follows
    BY DEF IInv, CursorShown
  <1>0. TypeOK'
    BY BridgeTypes DEF BridgeNext
  <1>1. /\ at = "loop" /\ at' = "loop" /\ wire # <<>> /\ wire' = Tail(wire)
        /\ wire[1].type = "replay_gap"
        /\ UNCHANGED <<generation, latest, lease, state, saved, screen>>
        /\ "gap" \in notes' /\ notes \subseteq notes'
    <2>1. at = "loop" /\ wire # <<>>
      BY DEF ShowsGap
    <2>2. Head(wire) = wire[1]
      BY <2>1, Handled DEF TypeOK
    <2> QED
      BY <2>1, <2>2 DEF ShowsGap, runnerVars
  <1>2. generation \in Nat /\ latest \in Nat /\ generation <= generation /\ latest <= latest
    <2>1. generation \in Nat /\ latest \in Nat
      BY Numbers
    <2> QED
      BY <2>1
  <1>3. /\ WireShape' /\ WireNumbers' /\ LeaseHeld'
        /\ \A n : Coming(n)' => Coming(n)
    <2>1. Handles
      BY <1>1 DEF Handles
    <2> QED
      BY <1>1, <2>1, OneHandled
  <1>4. Follows'
    BY <1>1, <1>3 DEF Follows, GapNoted, Last
  <1>5. ShownInOrder' /\ PaneBehind'
    BY <1>1, <1>2, PaneKept
  <1>6. CursorShown' /\ CursorBehind'
    BY <1>0, <1>1, <1>2, CursorKept
  <1> QED
    BY <1>3, <1>4, <1>5, <1>6 DEF IInv

\* The bridge saves the sequence of what it has written.
LEMMA CursorSaved ==
    ASSUME IInv, SavesCursor
    PROVE  IInv'
  <1> TypeOK /\ CursorShown /\ CursorBehind /\ WireShape /\ WireNumbers /\ LeaseHeld
    BY DEF IInv, CursorShown
  <1>0. TypeOK'
    BY BridgeTypes DEF BridgeNext
  <1>1. /\ at = "save" /\ at' = "loop" /\ wire # <<>> /\ wire' = Tail(wire)
        /\ wire[1].type = "output"
        /\ UNCHANGED <<generation, latest, lease, screen, notes>>
    BY DEF SavesCursor, WireShape, IsA, runnerVars, historyVars
  <1>2. /\ state'.after = wire[1].seq /\ state'.generation = generation
        /\ saved' \in {saved, state'}
    BY NewStates
  <1>3. generation \in Nat /\ latest \in Nat /\ generation <= generation /\ latest <= latest
    <2>1. generation \in Nat /\ latest \in Nat
      BY Numbers
    <2> QED
      BY <2>1
  <1>4. screen # <<>> /\ Last.generation = generation /\ Last.seq = wire[1].seq
    BY <1>1 DEF CursorBehind
  <1>5. Len(screen) \in 1..Len(screen) /\ Last.seq \in Nat \ {0} /\ Last.seq <= Last.seq /\ Last.seq > 0
    <2>1. Len(screen) \in 1..Len(screen) /\ Last.seq \in Nat \ {0}
      BY <1>4, LastShown
    <2> QED
      BY <2>1
  <1>6. WireShape' /\ WireNumbers' /\ LeaseHeld' /\ Lead' = 0
    <2>1. Handles
      BY <1>1 DEF Handles
    <2> QED
      BY <1>1, <2>1, OneHandled
  <1>7. Follows'
    <2> SUFFICES ASSUME NEW n, Coming(n)' PROVE n = wire[1].seq + 1
      BY <1>1, <1>2, <1>4, <1>5 DEF Follows, IsA, Last
    <2>1. /\ Len(wire) \in Nat \ {0} /\ 1 \in 1..Len(wire) /\ Len(wire') = Len(wire) - 1
          /\ \A i \in 1..(Len(wire) - 1) : i + 1 \in 1..Len(wire) /\ wire'[i] = wire[i + 1]
      BY <1>1, Handled DEF TypeOK
    <2>2. \/ 0 < Len(wire) - 1 /\ wire'[1].type = "output" /\ n = wire'[1].seq
          \/ 0 = Len(wire) - 1 /\ lease = "bridge" /\ n = latest + 1
      BY <1>1, <1>6, <2>1 DEF Coming, IsA
    <2>3. CASE 0 < Len(wire) - 1 /\ wire'[1].type = "output" /\ n = wire'[1].seq
      <3>1. 2 \in 1..Len(wire) /\ wire'[1] = wire[2]
        BY <2>1, <2>3
      <3>2. wire[2].seq + 1 = wire[1].seq + 2
        BY <1>1, <2>1, <2>3, <3>1 DEF WireNumbers, IsA
      <3>3. wire[2].seq \in Nat /\ wire[1].seq \in Nat
        BY <2>1, <3>1, Numbers
      <3>4. wire[2].seq = wire[1].seq + 1
        BY <3>2, <3>3
      <3> QED
        BY <2>3, <3>1, <3>4
    <2>4. CASE 0 = Len(wire) - 1 /\ lease = "bridge" /\ n = latest + 1
      <3>1. Len(wire) = 1
        <4>1. \A k \in Nat : 0 = k - 1 => k = 1
          OBVIOUS
        <4> QED
          BY <2>1, <2>4, <4>1
      <3>2. wire[1].seq + 1 = latest + 1
        BY <1>1, <2>1, <2>4, <3>1 DEF LeaseHeld, IsA
      <3> QED
        BY <2>4, <3>2
    <2> QED
      BY <2>2, <2>3, <2>4
  <1>8. ShownInOrder' /\ PaneBehind'
    BY <1>1, <1>3, PaneKept
  <1>9. CursorShown'
    <2>1. \E i \in 1..Len(screen) : screen[i].generation = generation /\ screen[i].seq = wire[1].seq
      BY <1>4, <1>5 DEF Last
    <2> QED
      BY <1>0, <1>1, <1>2, <2>1 DEF CursorShown
  <1>10. CursorBehind'
    <2>1. saved.generation = generation /\ saved.after > 0 => saved.after <= Last.seq
      BY DEF CursorBehind
    <2>2. saved.generation <= generation
      BY DEF CursorBehind
    <2> QED
      BY <1>1, <1>2, <1>3, <1>4, <1>5, <2>1, <2>2 DEF CursorBehind, Last
  <1> QED
    BY <1>6, <1>7, <1>8, <1>9, <1>10 DEF IInv

\* The bridge writes output to the pane.
LEMMA OutputWritten ==
    ASSUME IInv, WritesOutput
    PROVE  IInv'
  <1> TypeOK /\ CursorShown /\ ShownInOrder /\ CursorBehind /\ PaneBehind
    BY DEF IInv, CursorShown
  <1> DEFINE m == Len(screen)
             n == wire[1].seq
  <1>0. TypeOK'
    BY BridgeTypes DEF BridgeNext
  <1>1. /\ at = "loop" /\ at' = "save" /\ wire # <<>> /\ wire' = wire /\ wire[1].type = "output"
        /\ 1 \in 1..Len(wire) /\ Len(wire) \in Nat \ {0}
        /\ UNCHANGED <<generation, latest, lease, state, saved>>
    <2>1. at = "loop" /\ wire # <<>>
      BY DEF WritesOutput
    <2>2. Head(wire) = wire[1] /\ 1 \in 1..Len(wire) /\ Len(wire) \in Nat \ {0}
      BY <2>1, Handled DEF TypeOK
    <2> QED
      BY <2>1, <2>2 DEF WritesOutput, runnerVars
  <1>2. n \in 1..latest
    BY <1>1 DEF IInv, WireNumbers, IsA
  <1>3. /\ latest \in Nat /\ generation \in Nat /\ MaxOutput \in Nat /\ latest <= MaxOutput
        /\ state.after \in Nat /\ saved.after \in Nat
        /\ state.generation \in Nat /\ saved.generation \in Nat /\ m \in Nat
    BY Numbers
  <1>4. n \in Nat /\ n > 0 /\ n <= latest /\ n \in 1..(MaxOutput + 1) /\ generation <= generation /\ n <= n
    BY <1>2, <1>3
  <1>5. /\ screen' \in Seq(Written) /\ Len(screen') = m + 1 /\ screen' # <<>>
        /\ \A i \in 1..m : screen'[i] = screen[i]
        /\ screen'[m + 1].generation = generation /\ screen'[m + 1].seq = n
        /\ screen'[m + 1].notes = notes
        /\ \A i \in 1..(m + 1) : i \in 1..m \/ i = m + 1
    <2> DEFINE e == [generation |-> generation, seq |-> n, notes |-> notes]
    <2>1. screen' = Append(screen, e)
      BY <1>1, Handled DEF WritesOutput, TypeOK
    <2>2. e \in Written
      <3>1. generation \in Generations /\ notes \in SUBSET Notes
        BY DEF TypeOK
      <3>2. n \in 1..MaxOutput
        BY <1>2, <1>3
      <3> QED
        BY <3>1, <3>2 DEF Written
    <2>3. e.generation = generation /\ e.seq = n /\ e.notes = notes
      OBVIOUS
    <2> HIDE DEF e
    <2>4. /\ screen' \in Seq(Written) /\ Len(screen') = m + 1
          /\ \A i \in 1..m : screen'[i] = screen[i]
          /\ screen'[m + 1] = e
          /\ \A i \in 1..(m + 1) : i \in 1..m \/ i = m + 1
      BY <2>1, <2>2, Appended DEF TypeOK
    <2>5. screen' # <<>>
      BY <1>3, <2>4, EmptySeq
    <2> QED
      BY <2>3, <2>4, <2>5
  <1>6. Last'.generation = generation /\ Last'.seq = n
    BY <1>5 DEF Last
  <1> HIDE DEF m, n
  <1>7. \A i \in 1..Len(wire) : wire[i].type # "replay_gap"
    BY <1>1 DEF IInv, WireShape, IsA
  <1>8. /\ state.after > 0 => n = state.after + 1 \/ (n > state.after + 1 /\ "gap" \in notes)
        /\ state.after = 0 => /\ "blind" \in notes
                              /\ screen # <<>> /\ Last.generation = generation => n > Last.seq
    <2>1. Lead = 0
      BY <1>1 DEF Lead, IsA
    <2>2. 0 < Len(wire) /\ 0 + 1 = 1
      BY <1>1
    <2>3. Coming(n)
      BY <1>1, <2>1, <2>2 DEF Coming, IsA, n
    <2>4. GapNoted => "gap" \in notes
      BY <1>7 DEF GapNoted, IsA
    <2> QED
      BY <1>1, <1>4, <2>3, <2>4 DEF IInv, Follows
  <1>9. WireShape' /\ WireNumbers' /\ LeaseHeld' /\ Follows'
    <2>1. WireShape'
      BY <1>1, <1>7 DEF IInv, WireShape, IsA
    <2>2. WireNumbers'
      BY <1>1 DEF IInv, WireNumbers, IsA
    <2>3. LeaseHeld'
      BY <1>1 DEF IInv, LeaseHeld, IsA, Connected
    <2>4. Follows'
      BY <1>1 DEF Follows
    <2> QED
      BY <2>1, <2>2, <2>3, <2>4
  <1>10. PaneBehind'
    <2>1. \A i \in 1..m : screen[i].generation <= generation
      BY DEF PaneBehind, m
    <2> QED
      BY <1>1, <1>4, <1>5, <1>6, <2>1 DEF PaneBehind
  <1>11. CursorShown'
    <2>1. \A i \in 1..m : i \in 1..(m + 1)
      BY <1>3
    <2>2. \A s \in {state, saved} : s.after > 0 =>
             \E i \in 1..m : screen[i].generation = s.generation /\ screen[i].seq = s.after
      BY DEF CursorShown, m
    <2>3. \A s \in {state, saved} : s.after > 0 =>
             \E i \in 1..(m + 1) : screen'[i].generation = s.generation /\ screen'[i].seq = s.after
      BY <1>5, <2>1, <2>2
    <2> QED
      BY <1>0, <1>1, <1>5, <2>3 DEF CursorShown
  <1>12. CursorBehind'
    <2>1. state.after > 0 => state.after <= n
      BY <1>3, <1>4, <1>8
    <2>2. saved.generation = generation /\ saved.after > 0
            => state.generation = generation /\ saved.after <= state.after
      BY DEF CursorBehind
    <2>3. saved.generation = generation /\ saved.after > 0 => saved.after <= n
      BY <1>3, <1>4, <2>1, <2>2
    <2>4. /\ state.generation = generation /\ state.generation <= generation
          /\ saved.generation <= generation
      BY <1>1 DEF CursorBehind
    <2> QED
      BY <1>1, <1>5, <1>6, <2>1, <2>2, <2>3, <2>4 DEF CursorBehind, n
  <1>13. ShownInOrder'
    <2> SUFFICES ASSUME NEW i \in 1..m
                 PROVE  LET a == screen'[i]
                            b == screen'[i + 1]
                        IN /\ a.generation <= b.generation
                           /\ a.generation = b.generation
                                => \/ b.seq = a.seq + 1
                                   \/ b.seq > a.seq + 1 /\ b.notes \cap {"gap", "blind"} # {}
                                   \/ b.seq <= a.seq /\ "restart" \in b.notes
      <3>1. Len(screen') - 1 = m
        BY <1>3, <1>5
      <3> QED
        BY <3>1 DEF ShownInOrder
    <2>1. CASE i # m
      <3>1. i \in 1..(m - 1) /\ i + 1 \in 1..m
        BY <1>3, <2>1
      <3> QED
        BY <1>5, <3>1 DEF ShownInOrder, m
    <2>2. CASE i = m
      <3>1. screen # <<>>
        BY <1>3, <2>2, EmptySeq DEF m
      <3>2. screen'[i] = Last
        BY <1>5, <2>2 DEF Last, m
      <3>3. Last.seq \in Nat /\ Last.generation <= generation
        BY <3>1, LastShown DEF PaneBehind, Last
      <3>4. ASSUME Last.generation = generation
            PROVE  \/ n = Last.seq + 1
                   \/ n > Last.seq + 1 /\ notes \cap {"gap", "blind"} # {}
                   \/ n <= Last.seq /\ "restart" \in notes
        <4>1. CASE state.after = 0
          <5>1. "blind" \in notes /\ n > Last.seq
            BY <1>8, <3>1, <3>4, <4>1
          <5>2. n = Last.seq + 1 \/ n > Last.seq + 1
            BY <1>4, <3>3, <5>1
          <5> QED
            BY <5>1, <5>2
        <4>2. CASE state.after > 0
          <5>1. state.after <= Last.seq /\ (state.after = Last.seq \/ "restart" \in notes)
            BY <1>1, <4>2 DEF CursorBehind
          <5>2. CASE state.after = Last.seq
            BY <1>8, <4>2, <5>2
          <5>3. CASE "restart" \in notes
            <6>1. n > Last.seq + 1 => n > state.after + 1 /\ n # state.after + 1
              BY <1>3, <1>4, <3>3, <5>1
            <6>2. n > Last.seq + 1 => "gap" \in notes
              BY <1>8, <4>2, <6>1
            <6>3. n > Last.seq + 1 \/ n = Last.seq + 1 \/ n <= Last.seq
              BY <1>4, <3>3
            <6> QED
              BY <5>3, <6>2, <6>3
          <5> QED
            BY <5>1, <5>2, <5>3
        <4> QED
          BY <1>3, <4>1, <4>2
      <3> QED
        BY <1>5, <2>2, <3>2, <3>3, <3>4
    <2> QED
      BY <2>1, <2>2
  <1> QED
    BY <1>9, <1>10, <1>11, <1>12, <1>13 DEF IInv

-----------------------------------------------------------------------------
(* The theorems.                                                           *)

\* Nothing was sent, shown or saved yet.
LEMMA Initially == Init => IInv
  <1> SUFFICES ASSUME Init PROVE IInv
    OBVIOUS
  <1>1. Len(<<>>) = 0 /\ \A i \in 1..0 : FALSE
    OBVIOUS
  <1>2. /\ generation = 1 /\ latest = 0 /\ lease = "none" /\ wire = <<>> /\ at = "off"
        /\ state.after = 0 /\ state.generation = 0 /\ saved.after = 0 /\ saved.generation = 0
        /\ screen = <<>> /\ 0 <= 1 /\ ~(0 > 0)
    BY DEF Init, NoState
  <1>3. TypeOK
    <2>1. /\ 1 \in Generations /\ 0 \in 0..MaxOutput /\ 0 \in 0..WindowTries
          /\ 0 \in 0..MaxFaults /\ 0 \in 0..MaxCrashes /\ 0 \in 0..MaxGenerations
      BY BridgeAssumption DEF Generations
    <2>2. NoState \in AgentState
      BY <2>1 DEF NoState, AgentState
    <2>3. <<>> \in Seq(Frame) /\ <<>> \in Seq(Written) /\ "off" \in Places
      BY DEF Places
    <2> QED
      BY <1>2, <2>1, <2>2, <2>3 DEF Init, TypeOK
  <1>4. CursorShown
    BY <1>2, <1>3 DEF CursorShown
  <1>5. ShownInOrder
    <2>1. \A i \in 1..(0 - 1) : FALSE
      OBVIOUS
    <2> QED
      BY <1>1, <1>2, <2>1 DEF ShownInOrder
  <1>6. WireShape /\ WireNumbers /\ LeaseHeld /\ Follows
    BY <1>1, <1>2 DEF WireShape, WireNumbers, LeaseHeld, Follows
  <1>7. PaneBehind /\ CursorBehind
    BY <1>1, <1>2 DEF PaneBehind, CursorBehind
  <1> QED
    BY <1>4, <1>5, <1>6, <1>7 DEF IInv

\* Every step, of the runner, the bridge or what goes wrong, keeps the invariant.
LEMMA Inductive == IInv /\ [Next]_vars => IInv'
  <1> SUFFICES ASSUME IInv, [Next]_vars PROVE IInv'
    OBVIOUS
  <1>1. CASE RunnerNext
    <2>1. ASSUME NEW holder \in {"none", "other"}, Revoked(holder) PROVE IInv'
      BY <1>1, <2>1, Revocation
    <2> QED
      BY <1>1, <2>1, Published, WithoutConnection
      DEF RunnerNext, LeaseExpires, OtherTakesOver, LeaseReleased
  <1>2. CASE BridgeNext
    BY <1>2, Answered, Reset, Attached, OutputWritten, CursorSaved, GapShown, WithoutConnection
    DEF BridgeNext
  <1>3. CASE Run \/ DialFails \/ ConnectionLost \/ Crash
    BY <1>3, Started, WithoutConnection
  <1>4. CASE UNCHANGED vars
    <2>1. UNCHANGED <<generation, latest, lease, wire, at, state, saved, tries, screen, notes, faults, crashes>>
      BY <1>4 DEF vars, runnerVars, historyVars, boundVars
    <2> QED
      BY <2>1 DEF IInv, CursorShown, TypeOK, ShownInOrder, WireShape, WireNumbers, LeaseHeld,
                  PaneBehind, CursorBehind, Follows, IsA, Last, Lead, Coming, GapNoted,
                  Connected, OtherGeneration
  <1> QED
    BY <1>1, <1>2, <1>3, <1>4 DEF Next

\* The cursor, in memory and on disk, names output that the pane has shown, of the
\* generation it is saved with: the frame loop writes a frame before it saves its
\* sequence, and the cursor of another generation is dropped.
THEOREM CursorIsShown == Spec => []CursorShown
  <1>1. IInv => CursorShown
    BY DEF IInv
  <1> QED
    BY Initially, Inductive, <1>1, PTL DEF Spec

\* Within a generation the pane shows output in order, and leaves some out or shows some
\* again only when it says so: a reconnection attaches with the cursor, the runner
\* replays what follows it or sends a notice of the gap, and only a restart of the
\* bridge may go back to the cursor on disk.
THEOREM OutputIsShownInOrder == Spec => []ShownInOrder
  <1>1. IInv => ShownInOrder
    BY DEF IInv
  <1> QED
    BY Initially, Inductive, <1>1, PTL DEF Spec
=============================================================================
