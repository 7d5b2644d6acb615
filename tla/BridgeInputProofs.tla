------------------------- MODULE BridgeInputProofs --------------------------
(***************************************************************************)
(* Theorems about module BridgeInput, for any capacities, chunks, sizes    *)
(* and connections: the agent receives what was typed in the order it was  *)
(* typed and no chunk twice, and neither channel overflows.                *)
(***************************************************************************)
EXTENDS BridgeInput, SequenceTheorems, TLAPS

-----------------------------------------------------------------------------
(* The inductive invariant.                                                *)

\* The chunks of a channel, those among some frames, and that all of one come before
\* all of the other.
Elements(s) == {s[i] : i \in 1..Len(s)}
InputsIn(s) == {s[i].value : i \in {j \in 1..Len(s) : s[j].type = "input"}}
Before(A, B) == \A m \in A, n \in B : m < n
Increasing(s) == \A i, j \in 1..Len(s) : i < j => s[i] < s[j]
InputsIncrease(s) ==
    \A i, j \in 1..Len(s) : i < j /\ s[i].type = "input" /\ s[j].type = "input"
                              => s[i].value < s[j].value

\* What is in the channel was typed, in order, after everything taken from it.
ChannelLast ==
    /\ Increasing(inputBytes) /\ Elements(inputBytes) \subseteq 1..typed
    /\ Elements(received) \subseteq 1..typed /\ Before(Elements(received), Elements(inputBytes))
    /\ \A e \in Connections :
          /\ InputsIn(wire[e]) \subseteq 1..typed /\ Before(InputsIn(wire[e]), Elements(inputBytes))
          /\ InputsIn(held[e]) \subseteq 1..typed /\ Before(InputsIn(held[e]), Elements(inputBytes))

\* Only the connection that runConnection is busy with is live.
LiveOnly == \A e \in Connections : ctx[e] = "live" => e = conn /\ at \in {"first", "loop"}

\* A connection's attach frame is alone on its wire, and nothing is written for it
\* before the runner has read that frame; the lease goes to it by reading the frame.
AttachAlone ==
    /\ lease <= conn
    /\ \A e \in Connections :
          /\ e > conn \/ (e = conn /\ at = "first") => writer[e] = "off"
          /\ \A i \in 1..Len(held[e]) : held[e][i].type # "attach"
          /\ \A i \in 1..Len(wire[e]) : wire[e][i].type = "attach"
                => Len(wire[e]) = 1 /\ writer[e] = "off" /\ lease # e

\* What a writer may still write comes after all that was ever written; what the holder
\* of the lease has on its way comes after all that was received.
InFlight ==
    /\ Increasing(received)
    /\ \A e \in Connections :
          /\ InputsIncrease(wire[e])
          /\ lease = e => Before(Elements(received), InputsIn(wire[e]))
          /\ ctx[e] = "live" => /\ Before(Elements(received), InputsIn(held[e]))
                                /\ \A d \in Connections : Before(InputsIn(wire[d]), InputsIn(held[e]))

IInv == TypeOK /\ ChannelLast /\ LiveOnly /\ AttachAlone /\ InFlight

-----------------------------------------------------------------------------
(* Sequences.                                                              *)

\* What is written to the end of some frames is added to their inputs.
LEMMA FramesAppended ==
    ASSUME NEW s \in Seq(Frame), NEW t \in Seq(Frame), Len(t) = 1
    PROVE  /\ s \o t \in Seq(Frame) /\ Len(s \o t) = Len(s) + 1
           /\ \A i \in 1..Len(s) : (s \o t)[i] = s[i]
           /\ (s \o t)[Len(s) + 1] = t[1]
           /\ InputsIn(s \o t) = InputsIn(s) \cup InputsIn(t)
           /\ InputsIncrease(s) /\ Before(InputsIn(s), InputsIn(t)) => InputsIncrease(s \o t)
  <1>1. Len(s) \in Nat /\ s \o t \in Seq(Frame) /\ Len(s \o t) = Len(s) + 1
    <2>1. Len(s) \in Nat
      OBVIOUS
    <2>2. s \o t \in Seq(Frame) /\ Len(s \o t) = Len(s) + Len(t)
      BY ConcatProperties
    <2> QED
      BY <2>1, <2>2
  <1>2. /\ \A i \in 1..Len(s) : (s \o t)[i] = s[i]
        /\ (s \o t)[Len(s) + 1] = t[1]
    <2>1. Len(s) \in Nat
      OBVIOUS
    <2>2. \A i \in 1..(Len(s) + Len(t)) : (s \o t)[i] = IF i <= Len(s) THEN s[i] ELSE t[i - Len(s)]
      BY ConcatProperties
    <2>3. \A i \in 1..Len(s) : i \in 1..(Len(s) + Len(t)) /\ i <= Len(s)
      BY <2>1
    <2>4. Len(s) + 1 \in 1..(Len(s) + Len(t)) /\ ~(Len(s) + 1 <= Len(s)) /\ (Len(s) + 1) - Len(s) = 1
      BY <2>1
    <2> QED
      BY <2>2, <2>3, <2>4
  <1>3. /\ 1..(Len(s) + 1) = (1..Len(s)) \cup {Len(s) + 1} /\ Len(s) + 1 \notin 1..Len(s)
        /\ 1..Len(t) = {1}
    BY <1>1
  <1>4. \A n : n \in InputsIn(s \o t) <=> n \in InputsIn(s) \cup InputsIn(t)
    <2>1. \A n : n \in InputsIn(t) <=> t[1].type = "input" /\ n = t[1].value
      BY <1>3 DEF InputsIn
    <2>2. \A n : n \in InputsIn(s) <=> \E i \in 1..Len(s) : s[i].type = "input" /\ n = s[i].value
      BY DEF InputsIn
    <2>3. \A n : n \in InputsIn(s \o t)
                    <=> \E i \in 1..(Len(s) + 1) : (s \o t)[i].type = "input" /\ n = (s \o t)[i].value
      BY <1>1 DEF InputsIn
    <2> SUFFICES ASSUME NEW n PROVE n \in InputsIn(s \o t) <=> n \in InputsIn(s) \cup InputsIn(t)
      OBVIOUS
    <2>4. (\E i \in 1..(Len(s) + 1) : (s \o t)[i].type = "input" /\ n = (s \o t)[i].value)
             <=> \/ \E i \in 1..Len(s) : (s \o t)[i].type = "input" /\ n = (s \o t)[i].value
                 \/ (s \o t)[Len(s) + 1].type = "input" /\ n = (s \o t)[Len(s) + 1].value
      BY <1>3, Zenon
    <2>5. (\E i \in 1..Len(s) : (s \o t)[i].type = "input" /\ n = (s \o t)[i].value)
             <=> n \in InputsIn(s)
      BY <1>2, <2>2, Zenon
    <2>6. n \in InputsIn(s \o t) <=> n \in InputsIn(s) \/ n \in InputsIn(t)
      BY <1>2, <2>1, <2>3, <2>4, <2>5, Zenon
    <2> QED
      BY <2>6, Zenon
  <1>5. ASSUME InputsIncrease(s), Before(InputsIn(s), InputsIn(t)) PROVE InputsIncrease(s \o t)
    <2> SUFFICES ASSUME NEW i \in 1..(Len(s) + 1), NEW j \in 1..(Len(s) + 1), i < j,
                        (s \o t)[i].type = "input", (s \o t)[j].type = "input"
                 PROVE  (s \o t)[i].value < (s \o t)[j].value
      BY <1>1 DEF InputsIncrease
    <2>1. i \in 1..Len(s)
      BY <1>1
    <2>2. CASE j \in 1..Len(s)
      BY <1>2, <1>5, <2>1, <2>2 DEF InputsIncrease
    <2>3. CASE j = Len(s) + 1
      <3>1. s[i].value \in InputsIn(s) /\ t[1].value \in InputsIn(t)
        BY <1>2, <1>3, <2>1, <2>3 DEF InputsIn
      <3> QED
        BY <1>2, <1>5, <2>1, <2>3, <3>1 DEF Before
    <2> QED
      BY <1>3, <2>2, <2>3
  <1> QED
    BY <1>1, <1>2, <1>4, <1>5

\* Without its first frame a wire has no other inputs, and the ones it has come after
\* an input that was read.
LEMMA FrameRead ==
    ASSUME NEW s \in Seq(Frame), s # << >>
    PROVE  /\ Head(s) \in Frame /\ Head(s) = s[1]
           /\ Tail(s) \in Seq(Frame) /\ Len(Tail(s)) = Len(s) - 1 /\ Len(s) \in Nat \ {0}
           /\ \A i \in 1..Len(Tail(s)) : i + 1 \in 1..Len(s) /\ Tail(s)[i] = s[i + 1]
           /\ InputsIn(Tail(s)) \subseteq InputsIn(s)
           /\ InputsIncrease(s) => InputsIncrease(Tail(s))
           /\ Head(s).type = "input"
                => /\ Head(s).value \in InputsIn(s)
                   /\ InputsIncrease(s) => Before({Head(s).value}, InputsIn(Tail(s)))
  <1>1. /\ Head(s) \in Frame /\ Head(s) = s[1] /\ Len(s) \in Nat \ {0}
        /\ Tail(s) \in Seq(Frame) /\ Len(Tail(s)) = Len(s) - 1
    OBVIOUS
  <1>2. \A i \in 1..Len(Tail(s)) : i + 1 \in 1..Len(s) /\ Tail(s)[i] = s[i + 1]
    OBVIOUS
  <1>3. ASSUME NEW n \in InputsIn(Tail(s)) PROVE n \in InputsIn(s)
    <2>1. PICK i \in 1..Len(Tail(s)) : Tail(s)[i].type = "input" /\ n = Tail(s)[i].value
      BY DEF InputsIn
    <2> QED
      BY <1>2, <2>1 DEF InputsIn
  <1>4. ASSUME InputsIncrease(s) PROVE InputsIncrease(Tail(s))
    <2> SUFFICES ASSUME NEW i \in 1..Len(Tail(s)), NEW j \in 1..Len(Tail(s)), i < j,
                        Tail(s)[i].type = "input", Tail(s)[j].type = "input"
                 PROVE  Tail(s)[i].value < Tail(s)[j].value
      BY DEF InputsIncrease
    <2>1. i + 1 < j + 1
      BY <1>1
    <2> QED
      BY <1>2, <1>4, <2>1 DEF InputsIncrease
  <1>5. ASSUME Head(s).type = "input" PROVE Head(s).value \in InputsIn(s)
    <2>1. 1 \in 1..Len(s)
      BY <1>1
    <2> QED
      BY <1>1, <1>5, <2>1 DEF InputsIn
  <1>6. ASSUME Head(s).type = "input", InputsIncrease(s), NEW n \in InputsIn(Tail(s))
        PROVE  Head(s).value < n
    <2>1. PICK i \in 1..Len(Tail(s)) : Tail(s)[i].type = "input" /\ n = Tail(s)[i].value
      BY DEF InputsIn
    <2>2. 1 \in 1..Len(s) /\ i + 1 \in 1..Len(s) /\ 1 < i + 1
      BY <1>1, <1>2
    <2> QED
      BY <1>1, <1>2, <1>6, <2>1, <2>2 DEF InputsIncrease
  <1> QED
    BY <1>1, <1>2, <1>3, <1>4, <1>5, <1>6 DEF Before

\* A chunk that is added after all the others keeps them in order.
LEMMA ChunkAppended ==
    ASSUME NEW s \in Seq(Chunks), NEW n \in Chunks
    PROVE  /\ Append(s, n) \in Seq(Chunks) /\ Len(Append(s, n)) = Len(s) + 1
           /\ Elements(Append(s, n)) = Elements(s) \cup {n}
           /\ Increasing(s) /\ Before(Elements(s), {n}) => Increasing(Append(s, n))
  <1>1. Len(s) \in Nat /\ Append(s, n) \in Seq(Chunks) /\ Len(Append(s, n)) = Len(s) + 1
    OBVIOUS
  <1>2. /\ \A i \in 1..Len(s) : Append(s, n)[i] = s[i]
        /\ Append(s, n)[Len(s) + 1] = n
    OBVIOUS
  <1>3. 1..(Len(s) + 1) = (1..Len(s)) \cup {Len(s) + 1}
    BY <1>1
  <1>4. Elements(Append(s, n)) = Elements(s) \cup {n}
    BY <1>1, <1>2, <1>3 DEF Elements
  <1>5. ASSUME Increasing(s), Before(Elements(s), {n}) PROVE Increasing(Append(s, n))
    <2> SUFFICES ASSUME NEW i \in 1..(Len(s) + 1), NEW j \in 1..(Len(s) + 1), i < j
                 PROVE  Append(s, n)[i] < Append(s, n)[j]
      BY <1>1 DEF Increasing
    <2>1. i \in 1..Len(s)
      BY <1>1
    <2>2. CASE j \in 1..Len(s)
      BY <1>2, <1>5, <2>1, <2>2 DEF Increasing
    <2>3. CASE j = Len(s) + 1
      <3>1. s[i] \in Elements(s)
        BY <2>1 DEF Elements
      <3> QED
        BY <1>2, <1>5, <2>1, <2>3, <3>1 DEF Before
    <2> QED
      BY <1>3, <2>2, <2>3
  <1> QED
    BY <1>1, <1>4, <1>5

\* A chunk that is taken comes before those that stay in the channel.
LEMMA ChunkTaken ==
    ASSUME NEW s \in Seq(Chunks), s # << >>, Increasing(s)
    PROVE  /\ Head(s) \in Chunks /\ Head(s) \in Elements(s)
           /\ Tail(s) \in Seq(Chunks) /\ Len(Tail(s)) = Len(s) - 1 /\ Increasing(Tail(s))
           /\ Elements(Tail(s)) \subseteq Elements(s) /\ Before({Head(s)}, Elements(Tail(s)))
  <1>1. /\ Head(s) \in Chunks /\ Head(s) = s[1] /\ Len(s) \in Nat \ {0}
        /\ Tail(s) \in Seq(Chunks) /\ Len(Tail(s)) = Len(s) - 1
    OBVIOUS
  <1>2. \A i \in 1..Len(Tail(s)) : i + 1 \in 1..Len(s) /\ Tail(s)[i] = s[i + 1]
    OBVIOUS
  <1>3. 1 \in 1..Len(s)
    BY <1>1
  <1>4. Increasing(Tail(s))
    <2> SUFFICES ASSUME NEW i \in 1..Len(Tail(s)), NEW j \in 1..Len(Tail(s)), i < j
                 PROVE  Tail(s)[i] < Tail(s)[j]
      BY DEF Increasing
    <2>1. i + 1 < j + 1
      BY <1>1
    <2> QED
      BY <1>2, <2>1 DEF Increasing
  <1>5. ASSUME NEW n \in Elements(Tail(s)) PROVE n \in Elements(s) /\ Head(s) < n
    <2>1. PICK i \in 1..Len(Tail(s)) : n = Tail(s)[i]
      BY DEF Elements
    <2>2. 1 < i + 1
      BY <1>1
    <2> QED
      BY <1>1, <1>2, <1>3, <2>1, <2>2 DEF Elements, Increasing
  <1>6. Head(s) \in Elements(s)
    BY <1>1, <1>3 DEF Elements
  <1> QED
    BY <1>1, <1>4, <1>5, <1>6 DEF Before

\* Nothing is in an empty sequence, and what one frame has is its chunk.
LEMMA Few ==
    /\ Elements(<< >>) = {} /\ InputsIn(<< >>) = {} /\ Increasing(<< >>) /\ InputsIncrease(<< >>)
    /\ << >> \in Seq(Frame) /\ << >> \in Seq(Chunks) /\ << >> \in Seq(Sizes) /\ Len(<< >>) = 0
    /\ \A n \in Chunks : /\ << Input(n) >> \in Seq(Frame) /\ InputsIn(<< Input(n) >>) = {n}
                         /\ Len(<< Input(n) >>) = 1 /\ << Input(n) >>[1].type # "attach"
    /\ \A s \in Sizes : /\ << Resize(s) >> \in Seq(Frame) /\ InputsIn(<< Resize(s) >>) = {}
                        /\ Len(<< Resize(s) >>) = 1 /\ << Resize(s) >>[1].type # "attach"
                        /\ << Attach(s) >> \in Seq(Frame) /\ InputsIn(<< Attach(s) >>) = {}
                        /\ InputsIncrease(<< Attach(s) >>) /\ Len(<< Attach(s) >>) = 1
  <1>1. /\ Elements(<< >>) = {} /\ InputsIn(<< >>) = {} /\ Increasing(<< >>) /\ InputsIncrease(<< >>)
        /\ << >> \in Seq(Frame) /\ << >> \in Seq(Chunks) /\ << >> \in Seq(Sizes) /\ Len(<< >>) = 0
    BY DEF Elements, InputsIn, Increasing, InputsIncrease
  <1>2. ASSUME NEW f \in Frame
        PROVE  /\ << f >> \in Seq(Frame) /\ Len(<< f >>) = 1 /\ << f >>[1] = f
               /\ InputsIn(<< f >>) = IF f.type = "input" THEN {f.value} ELSE {}
               /\ InputsIncrease(<< f >>)
    <2>1. << f >> \in Seq(Frame) /\ Len(<< f >>) = 1 /\ << f >>[1] = f
      OBVIOUS
    <2>2. \A i \in 1..Len(<< f >>) : i = 1
      BY <2>1
    <2>3. 1 \in 1..Len(<< f >>)
      BY <2>1
    <2>4. InputsIn(<< f >>) = IF f.type = "input" THEN {f.value} ELSE {}
      BY <2>1, <2>2, <2>3 DEF InputsIn
    <2>5. InputsIncrease(<< f >>)
      BY <2>2 DEF InputsIncrease
    <2> QED
      BY <2>1, <2>4, <2>5
  <1>3. ASSUME NEW n \in Chunks
        PROVE  Input(n) \in Frame /\ Input(n).type = "input" /\ Input(n).value = n
    BY DEF Input, Frame
  <1>4. ASSUME NEW s \in Sizes
        PROVE  /\ Resize(s) \in Frame /\ Resize(s).type = "resize"
               /\ Attach(s) \in Frame /\ Attach(s).type = "attach"
    BY DEF Resize, Attach, Frame
  <1>5. \A n \in Chunks : /\ << Input(n) >> \in Seq(Frame) /\ InputsIn(<< Input(n) >>) = {n}
                          /\ Len(<< Input(n) >>) = 1 /\ << Input(n) >>[1].type # "attach"
    <2> SUFFICES ASSUME NEW n \in Chunks
                 PROVE  /\ << Input(n) >> \in Seq(Frame) /\ InputsIn(<< Input(n) >>) = {n}
                        /\ Len(<< Input(n) >>) = 1 /\ << Input(n) >>[1].type # "attach"
      OBVIOUS
    <2>1. Input(n) \in Frame /\ Input(n).type = "input" /\ Input(n).value = n
      BY <1>3
    <2> HIDE DEF Input
    <2> QED
      BY <1>2, <2>1
  <1>6. \A s \in Sizes : /\ << Resize(s) >> \in Seq(Frame) /\ InputsIn(<< Resize(s) >>) = {}
                         /\ Len(<< Resize(s) >>) = 1 /\ << Resize(s) >>[1].type # "attach"
                         /\ << Attach(s) >> \in Seq(Frame) /\ InputsIn(<< Attach(s) >>) = {}
                         /\ InputsIncrease(<< Attach(s) >>) /\ Len(<< Attach(s) >>) = 1
    BY <1>2, <1>4
  <1> QED
    BY <1>1, <1>5, <1>6

-----------------------------------------------------------------------------
(* The terminal and the connection.                                        *)

\* Nothing is typed at first.
LEMMA InitIInv == Init => IInv
  <1> SUFFICES ASSUME Init PROVE IInv
    OBVIOUS
  <1>1. 1 \in Sizes /\ MaxChunks \in Nat /\ MaxConnections \in Nat /\ InputCapacity \in Nat
        /\ ResizeCapacity \in Nat
    BY BridgeInputAssumption DEF Sizes
  <1>2. TypeOK
    <2>1. /\ typed \in 0..MaxChunks /\ size \in Sizes /\ signal \in BOOLEAN
          /\ at \in {"dial", "first", "loop", "backoff", "stopped"} /\ conn \in 0..MaxConnections
          /\ lease \in 0..MaxConnections /\ pty \in Sizes
          /\ lost \subseteq Chunks /\ sizeLost \in BOOLEAN
      <3>1. 0 \in 0..MaxChunks /\ 0 \in 0..MaxConnections
        BY <1>1
      <3> QED
        BY <1>1, <3>1 DEF Init
    <2>2. /\ inputBytes \in Seq(Chunks) /\ Len(inputBytes) <= InputCapacity
          /\ resize \in Seq(Sizes) /\ Len(resize) <= ResizeCapacity /\ received \in Seq(Chunks)
      <3>1. 0 <= InputCapacity /\ 0 <= ResizeCapacity
        BY <1>1
      <3> QED
        BY <3>1, Few DEF Init
    <2>3. /\ ctx \in [Connections -> {"none", "live", "done"}]
          /\ writer \in [Connections -> {"off", "select", "write", "end"}]
          /\ held \in [Connections -> Seq(Frame)] /\ wire \in [Connections -> Seq(Frame)]
      BY Few DEF Init
    <2>4. ASSUME NEW e \in Connections
          PROVE  /\ Len(held[e]) = IF writer[e] = "write" THEN 1 ELSE 0
                 /\ e > conn => wire[e] = <<>> /\ ctx[e] = "none"
      BY Few DEF Init
    <2> QED
      BY <2>1, <2>2, <2>3, <2>4 DEF TypeOK
  <1>3. ChannelLast
    BY Few DEF Init, ChannelLast, Before
  <1>4. LiveOnly
    BY DEF Init, LiveOnly
  <1>5. AttachAlone
    BY Few DEF Init, AttachAlone
  <1>6. InFlight
    BY Few DEF Init, InFlight, Before
  <1> QED
    BY <1>2, <1>3, <1>4, <1>5, <1>6 DEF IInv

\* No chunk moves, nobody is given the lease and no connection comes alive.
LEMMA NoChunkMoves ==
    ASSUME IInv, UNCHANGED <<typed, inputBytes, held, wire, received>>,
           lease' = lease \/ lease' = 0,
           \A e \in Connections : ctx'[e] = "live" => ctx[e] = "live"
    PROVE  ChannelLast' /\ InFlight'
  <1>1. ChannelLast'
    BY DEF IInv, ChannelLast
  <1>2. \A e \in Connections : lease' = e => lease = e
    BY BridgeInputAssumption DEF Connections
  <1>3. InFlight'
    BY <1>2 DEF IInv, InFlight
  <1> QED
    BY <1>1, <1>3

\* The size of the terminal and the channel of sizes.
LEMMA SizeStep ==
    ASSUME IInv, Resized \/ publishSize
    PROVE  IInv'
  <1>0. TypeOK /\ size \in Sizes /\ resize \in Seq(Sizes) /\ Len(resize) <= ResizeCapacity
        /\ ResizeCapacity \in Nat \ {0} /\ MaxSizes \in Nat
    BY BridgeInputAssumption DEF IInv, TypeOK
  <1>1. UNCHANGED <<typed, inputBytes, bridgeVars, writerVars, wire, runnerVars, historyVars>>
    BY DEF Resized, publishSize, channelVars
  <1>2. size' \in Sizes /\ signal' \in BOOLEAN
    <2>1. size < MaxSizes => size + 1 \in Sizes
      BY <1>0 DEF Sizes
    <2>2. signal \in BOOLEAN
      BY <1>0 DEF TypeOK
    <2> QED
      BY <1>0, <2>1, <2>2 DEF Resized, publishSize
  <1>3. resize' \in Seq(Sizes) /\ Len(resize') <= ResizeCapacity
    <2>1. WithSize \in Seq(Sizes) /\ Len(WithSize) <= ResizeCapacity
      <3>1. CASE Len(resize) < ResizeCapacity
        <4>1. WithSize = Append(resize, size)
          BY <3>1 DEF WithSize
        <4>2. Append(resize, size) \in Seq(Sizes) /\ Len(Append(resize, size)) = Len(resize) + 1
              /\ Len(resize) \in Nat
          BY <1>0
        <4> QED
          BY <1>0, <3>1, <4>1, <4>2
      <3>2. CASE ~(Len(resize) < ResizeCapacity)
        <4>1. WithSize = Append(Tail(resize), size)
          BY <3>2 DEF WithSize
        <4>2. Len(resize) \in Nat /\ Len(resize) = ResizeCapacity
          BY <1>0, <3>2
        <4>3. Tail(resize) \in Seq(Sizes) /\ Len(Tail(resize)) = Len(resize) - 1
          BY <1>0, <4>2
        <4>4. /\ Append(Tail(resize), size) \in Seq(Sizes)
              /\ Len(Append(Tail(resize), size)) = Len(Tail(resize)) + 1
          BY <1>0, <4>3
        <4> QED
          BY <1>0, <4>1, <4>2, <4>3, <4>4
      <3> QED
        BY <3>1, <3>2
    <2> QED
      BY <1>0, <2>1 DEF Resized, publishSize, channelVars
  <1>4. TypeOK'
    BY <1>0, <1>1, <1>2, <1>3 DEF TypeOK, bridgeVars, writerVars, runnerVars, historyVars
  <1>5. ChannelLast' /\ InFlight'
    BY <1>1, NoChunkMoves DEF bridgeVars, writerVars, runnerVars
  <1>6. LiveOnly' /\ AttachAlone'
    BY <1>1 DEF IInv, LiveOnly, AttachAlone, bridgeVars, writerVars, runnerVars
  <1> QED
    BY <1>4, <1>5, <1>6 DEF IInv

\* A chunk that is read comes last in the channel.
LEMMA ReadsStep ==
    ASSUME IInv, Reads
    PROVE  IInv'
  <1>0. TypeOK /\ typed \in 0..MaxChunks /\ inputBytes \in Seq(Chunks) /\ MaxChunks \in Nat
        /\ InputCapacity \in Nat /\ ChannelLast
    BY BridgeInputAssumption DEF IInv, TypeOK
  <1>1. /\ typed < MaxChunks /\ Len(inputBytes) < InputCapacity
        /\ typed' = typed + 1 /\ inputBytes' = Append(inputBytes, typed + 1)
        /\ UNCHANGED <<size, signal, resize, bridgeVars, writerVars, wire, runnerVars, historyVars>>
    BY DEF Reads
  <1>2. typed + 1 \in Chunks /\ typed + 1 \in 0..MaxChunks
    BY <1>0, <1>1 DEF Chunks
  <1>3. \A n \in 1..typed : n < typed + 1 /\ n \in 1..(typed + 1)
    BY <1>0
  <1>4. Before(Elements(inputBytes), {typed + 1})
    BY <1>0, <1>3 DEF ChannelLast, Before
  <1>5. /\ inputBytes' \in Seq(Chunks) /\ Len(inputBytes') = Len(inputBytes) + 1
        /\ Elements(inputBytes') = Elements(inputBytes) \cup {typed + 1}
        /\ Increasing(inputBytes')
    BY <1>0, <1>1, <1>2, <1>4, ChunkAppended DEF ChannelLast
  <1>6. TypeOK'
    <2>1. Len(inputBytes') <= InputCapacity
      <3>1. Len(inputBytes) \in Nat
        BY <1>0
      <3> QED
        BY <1>0, <1>1, <1>5, <3>1
    <2> QED
      BY <1>0, <1>1, <1>2, <1>5, <2>1 DEF TypeOK, bridgeVars, writerVars, runnerVars, historyVars
  <1>7. ASSUME NEW A, A \subseteq 1..typed, Before(A, Elements(inputBytes))
        PROVE  A \subseteq 1..typed' /\ Before(A, Elements(inputBytes'))
    <2>1. typed + 1 \in 1..(typed + 1)
      BY <1>0
    <2> QED
      BY <1>1, <1>3, <1>5, <1>7, <2>1 DEF Before
  <1>8. ChannelLast'
    <2>1. Elements(inputBytes') \subseteq 1..typed'
      <3>1. typed + 1 \in 1..(typed + 1)
        BY <1>0
      <3> QED
        BY <1>0, <1>1, <1>3, <1>5, <3>1 DEF ChannelLast
    <2>2. UNCHANGED <<received, wire, held>>
      BY <1>1 DEF runnerVars, writerVars
    <2>3. Elements(received)' \subseteq 1..typed' /\ Before(Elements(received)', Elements(inputBytes)')
      BY <1>0, <1>7, <2>2 DEF ChannelLast
    <2>4. ASSUME NEW e \in Connections
          PROVE  /\ InputsIn(wire[e])' \subseteq 1..typed' /\ Before(InputsIn(wire[e])', Elements(inputBytes)')
                 /\ InputsIn(held[e])' \subseteq 1..typed' /\ Before(InputsIn(held[e])', Elements(inputBytes)')
      BY <1>0, <1>7, <2>2 DEF ChannelLast
    <2> QED
      BY <1>5, <2>1, <2>3, <2>4 DEF ChannelLast
  <1>9. InFlight' /\ LiveOnly' /\ AttachAlone'
    BY <1>1 DEF IInv, InFlight, LiveOnly, AttachAlone, bridgeVars, writerVars, runnerVars
  <1> QED
    BY <1>6, <1>8, <1>9 DEF IInv

\* A new connection begins with its attach frame, alone on a wire of its own.
LEMMA DialStep ==
    ASSUME IInv, Dial
    PROVE  IInv'
  <1> DEFINE c == conn + 1
  <1>0. /\ TypeOK /\ ChannelLast /\ LiveOnly /\ AttachAlone /\ InFlight
        /\ conn \in Nat /\ lease \in 0..MaxConnections /\ size \in Sizes /\ MaxConnections \in Nat
        /\ wire \in [Connections -> Seq(Frame)] /\ ctx \in [Connections -> {"none", "live", "done"}]
    BY BridgeInputAssumption DEF IInv, TypeOK
  <1>1. /\ at = "dial" /\ conn < MaxConnections /\ conn' = c /\ at' = "first"
        /\ ctx' = [ctx EXCEPT ![c] = "live"] /\ wire' = [wire EXCEPT ![c] = <<Attach(size)>>]
        /\ sizeLost' = FALSE
        /\ UNCHANGED <<terminalVars, channelVars, writerVars, runnerVars, lost>>
    BY DEF Dial
  <1>2. c \in Connections /\ c \in 0..MaxConnections /\ c > conn
    BY <1>0, <1>1 DEF Connections
  <1>3. /\ \A e \in Connections : /\ ctx'[e] = IF e = c THEN "live" ELSE ctx[e]
                                  /\ wire'[e] = IF e = c THEN <<Attach(size)>> ELSE wire[e]
        /\ ctx' \in [Connections -> {"none", "live", "done"}]
    BY <1>0, <1>1, <1>2
  <1>4. wire' \in [Connections -> Seq(Frame)]
    <2>1. <<Attach(size)>> \in Seq(Frame)
      BY <1>0, Few
    <2> QED
      BY <1>0, <1>1, <2>1
  <1>5. /\ InputsIn(wire'[c]) = {} /\ InputsIncrease(wire'[c]) /\ Len(wire'[c]) = 1
        /\ \A e \in Connections : InputsIn(wire'[e]) \subseteq InputsIn(wire[e])
    <2>1. /\ InputsIn(<<Attach(size)>>) = {} /\ InputsIncrease(<<Attach(size)>>)
          /\ Len(<<Attach(size)>>) = 1
      BY <1>0, Few
    <2> QED
      BY <1>2, <1>3, <2>1
  <1>6. writer[c] = "off" /\ lease # c
    <2>1. lease <= conn
      BY <1>0 DEF AttachAlone
    <2>2. lease # c
      BY <1>0, <2>1
    <2> QED
      BY <1>0, <1>2, <2>2 DEF AttachAlone
  <1>7. \A e \in Connections : e > c => e > conn /\ e # c
    BY <1>0 DEF Connections
  <1>8. TypeOK'
    <2>1. ASSUME NEW e \in Connections
          PROVE  /\ Len(held'[e]) = IF writer'[e] = "write" THEN 1 ELSE 0
                 /\ e > conn' => wire'[e] = <<>> /\ ctx'[e] = "none"
      BY <1>0, <1>1, <1>3, <1>7 DEF TypeOK, writerVars
    <2> QED
      BY <1>0, <1>1, <1>2, <1>3, <1>4, <2>1 DEF TypeOK, terminalVars, channelVars, writerVars, runnerVars
  <1>9. UNCHANGED <<typed, inputBytes, writer, held, received, lease>>
    BY <1>1 DEF terminalVars, channelVars, writerVars, runnerVars
  <1>10. ChannelLast'
    BY <1>0, <1>5, <1>9 DEF ChannelLast, Before
  <1>11. LiveOnly'
    BY <1>0, <1>1, <1>3 DEF LiveOnly
  <1>12. AttachAlone'
    <2>1. lease' <= conn'
      <3>1. lease <= conn
        BY <1>0 DEF AttachAlone
      <3> QED
        BY <1>0, <1>1, <1>9, <3>1
    <2>2. ASSUME NEW e \in Connections
          PROVE  /\ e > conn' \/ (e = conn' /\ at' = "first") => writer'[e] = "off"
                 /\ \A i \in 1..Len(held'[e]) : held'[e][i].type # "attach"
                 /\ \A i \in 1..Len(wire'[e]) : wire'[e][i].type = "attach"
                       => Len(wire'[e]) = 1 /\ writer'[e] = "off" /\ lease' # e
      <3>1. CASE e = c
        BY <1>0, <1>1, <1>5, <1>6, <1>9, <3>1 DEF AttachAlone
      <3>2. CASE e # c
        BY <1>0, <1>1, <1>3, <1>7, <1>9, <3>2 DEF AttachAlone
      <3> QED
        BY <3>1, <3>2
    <2> QED
      BY <2>1, <2>2 DEF AttachAlone
  <1>13. InFlight'
    <2>1. InputsIn(held[c]) = {}
      <3>1. Len(held[c]) = 0
        BY <1>0, <1>2, <1>6 DEF TypeOK
      <3> QED
        BY <3>1 DEF InputsIn
    <2>2. ASSUME NEW e \in Connections
          PROVE  /\ InputsIncrease(wire'[e])
                 /\ lease' = e => Before(Elements(received'), InputsIn(wire'[e]))
                 /\ ctx'[e] = "live"
                      => /\ Before(Elements(received'), InputsIn(held'[e]))
                         /\ \A d \in Connections : Before(InputsIn(wire'[d]), InputsIn(held'[e]))
      <3>1. CASE e = c
        BY <1>5, <1>6, <1>9, <2>1, <3>1 DEF Before
      <3>2. CASE e # c
        BY <1>0, <1>3, <1>5, <1>9, <3>2 DEF InFlight, Before
      <3> QED
        BY <3>1, <3>2
    <2> QED
      BY <1>0, <1>9, <2>2 DEF InFlight
  <1> QED
    BY <1>8, <1>10, <1>11, <1>12, <1>13 DEF IInv

\* runConnection goes on or returns; its writer stays where it is.
LEMMA ConnectionStep ==
    ASSUME IInv, Attached \/ ConnectionLost \/ Stops \/ Retry \/ LeaseExpires
    PROVE  IInv'
  <1>0. /\ TypeOK /\ LiveOnly /\ AttachAlone
        /\ conn \in 0..MaxConnections /\ lease \in 0..MaxConnections /\ MaxConnections \in Nat
        /\ writer \in [Connections -> {"off", "select", "write", "end"}]
        /\ ctx \in [Connections -> {"none", "live", "done"}]
    BY BridgeInputAssumption DEF IInv, TypeOK
  <1>1. UNCHANGED <<terminalVars, channelVars, conn, held, wire, pty, received, historyVars>>
    BY DEF Attached, ConnectionLost, Stops, Retry, LeaseExpires, Ends, bridgeVars, writerVars, runnerVars
  <1>2. lease' = lease \/ lease' = 0
    BY DEF Attached, ConnectionLost, Stops, Retry, LeaseExpires, runnerVars
  <1>3. \/ Attached
        \/ (Ends("backoff") \/ Ends("stopped")) /\ UNCHANGED <<writer, lease>>
        \/ at = "backoff" /\ at' = "dial" /\ UNCHANGED <<ctx, writer, lease>>
        \/ LeaseExpires
    BY DEF ConnectionLost, Stops, Retry, writerVars, runnerVars
  <1>4. /\ at' \in {"dial", "first", "loop", "backoff", "stopped"}
        /\ at' = "first" => at = "first"
    BY <1>0, <1>3 DEF Attached, Ends, LeaseExpires, bridgeVars, TypeOK
  <1>5. /\ ctx' \in [Connections -> {"none", "live", "done"}]
        /\ \A e \in Connections : /\ ctx'[e] = "live" => ctx[e] = "live"
                                  /\ ctx[e] = "none" /\ e # conn => ctx'[e] = "none"
    <2>1. ctx' = ctx \/ ctx' = [ctx EXCEPT ![conn] = "done"]
      BY <1>3 DEF Attached, Ends, LeaseExpires, bridgeVars
    <2> QED
      BY <1>0, <2>1
  <1>6. /\ writer' \in [Connections -> {"off", "select", "write", "end"}]
        /\ \A e \in Connections : \/ writer'[e] = writer[e]
                                  \/ /\ at = "first" /\ at' = "loop" /\ e = conn /\ lease = e
                                     /\ writer[e] = "off" /\ writer'[e] = "select"
    <2>1. CASE Attached
      <3>1. /\ at = "first" /\ at' = "loop" /\ lease = conn
            /\ writer' = [writer EXCEPT ![conn] = "select"]
        BY <2>1 DEF Attached
      <3>2. \A e \in Connections : e = conn => writer[e] = "off"
        BY <1>0, <3>1 DEF AttachAlone
      <3> QED
        BY <1>0, <3>1, <3>2
    <2>2. CASE UNCHANGED writer
      BY <1>0, <2>2
    <2> QED
      BY <1>3, <2>1, <2>2 DEF LeaseExpires, writerVars
  <1>7. TypeOK'
    <2>1. ASSUME NEW e \in Connections
          PROVE  /\ Len(held'[e]) = IF writer'[e] = "write" THEN 1 ELSE 0
                 /\ e > conn' => wire'[e] = <<>> /\ ctx'[e] = "none"
      <3>1. /\ Len(held[e]) = IF writer[e] = "write" THEN 1 ELSE 0
            /\ e > conn => wire[e] = <<>> /\ ctx[e] = "none"
        BY <1>0 DEF TypeOK
      <3>2. e > conn => e # conn
        BY <1>0 DEF Connections
      <3> QED
        BY <1>1, <1>5, <1>6, <3>1, <3>2
    <2>2. lease' \in 0..MaxConnections
      BY <1>0, <1>2
    <2> QED
      BY <1>0, <1>1, <1>4, <1>5, <1>6, <2>1, <2>2 DEF TypeOK, terminalVars, channelVars, historyVars
  <1>8. ChannelLast' /\ InFlight'
    BY <1>1, <1>2, <1>5, NoChunkMoves DEF terminalVars, channelVars
  <1>9. LiveOnly'
    <2> SUFFICES ASSUME NEW e \in Connections, ctx'[e] = "live"
                 PROVE  e = conn' /\ at' \in {"first", "loop"}
      BY DEF LiveOnly
    <2>1. ctx[e] = "live" /\ e = conn /\ at \in {"first", "loop"}
      BY <1>0, <1>5 DEF LiveOnly
    <2>2. ~Ends("backoff") /\ ~Ends("stopped")
      BY <1>0, <2>1 DEF Ends
    <2> QED
      BY <1>1, <1>3, <2>1, <2>2 DEF Attached, LeaseExpires, bridgeVars
  <1>10. AttachAlone'
    <2>1. lease' <= conn'
      <3>1. lease <= conn
        BY <1>0 DEF AttachAlone
      <3> QED
        BY <1>0, <1>1, <1>2, <3>1
    <2>2. ASSUME NEW e \in Connections
          PROVE  /\ e > conn' \/ (e = conn' /\ at' = "first") => writer'[e] = "off"
                 /\ \A i \in 1..Len(held'[e]) : held'[e][i].type # "attach"
                 /\ \A i \in 1..Len(wire'[e]) : wire'[e][i].type = "attach"
                       => Len(wire'[e]) = 1 /\ writer'[e] = "off" /\ lease' # e
      <3>1. lease' = e => lease = e
        BY <1>0, <1>2 DEF Connections
      <3>2. e > conn => e # conn
        BY <1>0 DEF Connections
      <3>3. /\ e > conn \/ (e = conn /\ at = "first") => writer[e] = "off"
            /\ \A i \in 1..Len(held[e]) : held[e][i].type # "attach"
            /\ \A i \in 1..Len(wire[e]) : wire[e][i].type = "attach"
                  => Len(wire[e]) = 1 /\ writer[e] = "off" /\ lease # e
        BY <1>0 DEF AttachAlone
      <3> QED
        BY <1>1, <1>4, <1>6, <3>1, <3>2, <3>3
    <2> QED
      BY <2>1, <2>2 DEF AttachAlone
  <1> QED
    BY <1>7, <1>8, <1>9, <1>10 DEF IInv

-----------------------------------------------------------------------------
(* The writers.                                                            *)

\* A writer that takes a frame holds a chunk that comes after all others, or a size.
LEMMA TakesStep ==
    ASSUME IInv, NEW e \in Connections, TakesInput(e) \/ TakesSize(e)
    PROVE  IInv'
  <1>0. /\ TypeOK /\ ChannelLast /\ LiveOnly /\ AttachAlone /\ InFlight
        /\ inputBytes \in Seq(Chunks) /\ resize \in Seq(Sizes)
        /\ Len(inputBytes) <= InputCapacity /\ Len(resize) <= ResizeCapacity
        /\ {InputCapacity, ResizeCapacity} \subseteq Nat
        /\ writer \in [Connections -> {"off", "select", "write", "end"}]
        /\ held \in [Connections -> Seq(Frame)]
    BY BridgeInputAssumption DEF IInv, TypeOK
  <1>1. /\ writer[e] = "select" /\ writer' = [writer EXCEPT ![e] = "write"]
        /\ UNCHANGED <<terminalVars, bridgeVars, wire, runnerVars, lost>>
    BY DEF TakesInput, TakesSize, Takes
  <1>2. PICK f : /\ held' = [held EXCEPT ![e] = f]
                 /\ f \in Seq(Frame) /\ Len(f) = 1 /\ f[1].type # "attach"
                 /\ InputsIn(f) \subseteq Elements(inputBytes)
                 /\ Before(InputsIn(f), Elements(inputBytes'))
    <2>1. CASE TakesInput(e)
      <3>1. inputBytes # << >> /\ inputBytes' = Tail(inputBytes)
            /\ held' = [held EXCEPT ![e] = << Input(Head(inputBytes)) >>]
        BY <2>1 DEF TakesInput, Takes
      <3>2. /\ Head(inputBytes) \in Chunks /\ Head(inputBytes) \in Elements(inputBytes)
            /\ Before({Head(inputBytes)}, Elements(inputBytes'))
        BY <1>0, <3>1, ChunkTaken DEF ChannelLast
      <3>3. /\ << Input(Head(inputBytes)) >> \in Seq(Frame) /\ Len(<< Input(Head(inputBytes)) >>) = 1
            /\ << Input(Head(inputBytes)) >>[1].type # "attach"
            /\ InputsIn(<< Input(Head(inputBytes)) >>) = {Head(inputBytes)}
        BY <3>2, Few
      <3>4. InputsIn(<< Input(Head(inputBytes)) >>) \subseteq Elements(inputBytes)
            /\ Before(InputsIn(<< Input(Head(inputBytes)) >>), Elements(inputBytes'))
        BY <3>2, <3>3
      <3> QED
        BY <3>1, <3>3, <3>4
    <2>2. CASE TakesSize(e)
      <3>1. resize # << >> /\ inputBytes' = inputBytes
            /\ held' = [held EXCEPT ![e] = << Resize(Head(resize)) >>]
        BY <2>2 DEF TakesSize, Takes
      <3>2. Head(resize) \in Sizes
        BY <1>0, <3>1
      <3> QED
        BY <3>1, <3>2, Few DEF Before
    <2> QED
      BY <2>1, <2>2
  <1>3. /\ inputBytes' \in Seq(Chunks) /\ Len(inputBytes') <= InputCapacity
        /\ Increasing(inputBytes') /\ Elements(inputBytes') \subseteq Elements(inputBytes)
    <2>1. CASE TakesInput(e)
      <3>1. inputBytes # << >> /\ inputBytes' = Tail(inputBytes)
        BY <2>1 DEF TakesInput
      <3>2. /\ Tail(inputBytes) \in Seq(Chunks) /\ Len(Tail(inputBytes)) = Len(inputBytes) - 1
            /\ Increasing(Tail(inputBytes)) /\ Elements(Tail(inputBytes)) \subseteq Elements(inputBytes)
        BY <1>0, <3>1, ChunkTaken DEF ChannelLast
      <3>3. Len(inputBytes) \in Nat /\ InputCapacity \in Nat /\ Len(inputBytes) <= InputCapacity
        BY <1>0
      <3>4. Len(inputBytes) - 1 <= InputCapacity
        BY <3>3
      <3> QED
        BY <3>1, <3>2, <3>4
    <2>2. CASE UNCHANGED inputBytes
      BY <1>0, <2>2 DEF ChannelLast
    <2> QED
      BY <2>1, <2>2 DEF TakesSize
  <1>4. resize' \in Seq(Sizes) /\ Len(resize') <= ResizeCapacity
    <2>1. CASE TakesSize(e)
      <3>1. resize # << >> /\ resize' = Tail(resize)
        BY <2>1 DEF TakesSize
      <3>2. Tail(resize) \in Seq(Sizes) /\ Len(Tail(resize)) = Len(resize) - 1 /\ Len(resize) \in Nat
        BY <1>0, <3>1
      <3>3. Len(resize) - 1 <= ResizeCapacity
        BY <1>0, <3>2
      <3> QED
        BY <3>1, <3>2, <3>3
    <2>2. CASE UNCHANGED resize
      BY <1>0, <2>2
    <2> QED
      BY <2>1, <2>2 DEF TakesInput
  <1>5. /\ \A d \in Connections : held'[d] = IF d = e THEN f ELSE held[d]
        /\ \A d \in Connections : writer'[d] = IF d = e THEN "write" ELSE writer[d]
        /\ held' \in [Connections -> Seq(Frame)]
        /\ writer' \in [Connections -> {"off", "select", "write", "end"}]
    BY <1>0, <1>1, <1>2
  <1>6. TypeOK'
    <2>1. ASSUME NEW d \in Connections
          PROVE  /\ Len(held'[d]) = IF writer'[d] = "write" THEN 1 ELSE 0
                 /\ d > conn' => wire'[d] = <<>> /\ ctx'[d] = "none"
      BY <1>0, <1>1, <1>2, <1>5 DEF TypeOK, bridgeVars
    <2>2. sizeLost' \in BOOLEAN
      BY <1>0 DEF TypeOK, TakesInput, TakesSize
    <2> QED
      BY <1>0, <1>1, <1>3, <1>4, <1>5, <2>1, <2>2 DEF TypeOK, terminalVars, bridgeVars, runnerVars
  <1>7. ChannelLast'
    <2>1. UNCHANGED <<typed, wire, received>>
      BY <1>1 DEF terminalVars, runnerVars
    <2>2. ASSUME NEW A, Before(A, Elements(inputBytes)) PROVE Before(A, Elements(inputBytes'))
      BY <1>3, <2>2 DEF Before
    <2>3. InputsIn(f) \subseteq 1..typed
      BY <1>0, <1>2 DEF ChannelLast
    <2>4. ASSUME NEW d \in Connections
          PROVE  /\ InputsIn(wire'[d]) \subseteq 1..typed' /\ Before(InputsIn(wire'[d]), Elements(inputBytes'))
                 /\ InputsIn(held'[d]) \subseteq 1..typed' /\ Before(InputsIn(held'[d]), Elements(inputBytes'))
      BY <1>0, <1>2, <1>5, <2>1, <2>2, <2>3 DEF ChannelLast
    <2>5. /\ Elements(inputBytes') \subseteq 1..typed' /\ Elements(received') \subseteq 1..typed'
          /\ Before(Elements(received'), Elements(inputBytes'))
      BY <1>0, <1>3, <2>1, <2>2 DEF ChannelLast
    <2> QED
      BY <1>3, <2>4, <2>5 DEF ChannelLast
  <1>8. LiveOnly'
    BY <1>0, <1>1 DEF LiveOnly, bridgeVars
  <1>9. AttachAlone'
    <2>1. UNCHANGED <<lease, conn, at, wire>>
      BY <1>1 DEF bridgeVars, runnerVars
    <2>2. ASSUME NEW d \in Connections
          PROVE  /\ d > conn' \/ (d = conn' /\ at' = "first") => writer'[d] = "off"
                 /\ \A i \in 1..Len(held'[d]) : held'[d][i].type # "attach"
                 /\ \A i \in 1..Len(wire'[d]) : wire'[d][i].type = "attach"
                       => Len(wire'[d]) = 1 /\ writer'[d] = "off" /\ lease' # d
      <3>1. CASE d = e
        <4>1. \A i \in 1..Len(f) : i = 1
          BY <1>2
        <4>2. \A i \in 1..Len(held'[d]) : held'[d][i].type # "attach"
          BY <1>2, <1>5, <3>1, <4>1
        <4> QED
          BY <1>0, <1>1, <2>1, <3>1, <4>2 DEF AttachAlone
      <3>2. CASE d # e
        BY <1>0, <1>5, <2>1, <3>2 DEF AttachAlone
      <3> QED
        BY <3>1, <3>2
    <2> QED
      BY <1>0, <2>1, <2>2 DEF AttachAlone
  <1>10. InFlight'
    <2>1. UNCHANGED <<lease, ctx, wire, received>>
      BY <1>1 DEF bridgeVars, runnerVars
    <2>2. /\ Before(Elements(received), InputsIn(f))
          /\ \A d \in Connections : Before(InputsIn(wire[d]), InputsIn(f))
      BY <1>0, <1>2 DEF ChannelLast, Before
    <2> QED
      BY <1>0, <1>5, <2>1, <2>2 DEF InFlight
  <1> QED
    BY <1>6, <1>7, <1>8, <1>9, <1>10 DEF IInv

\* A writer that finds its context done ends.
LEMMA SelectsDoneStep ==
    ASSUME IInv, NEW e \in Connections, SelectsDone(e)
    PROVE  IInv'
  <1>0. TypeOK /\ LiveOnly /\ AttachAlone
        /\ writer \in [Connections -> {"off", "select", "write", "end"}]
    BY DEF IInv, TypeOK
  <1>1. /\ writer[e] = "select" /\ writer' = [writer EXCEPT ![e] = "end"]
        /\ UNCHANGED <<terminalVars, channelVars, bridgeVars, held, wire, runnerVars, historyVars>>
    BY DEF SelectsDone
  <1>2. /\ \A d \in Connections : writer'[d] = IF d = e THEN "end" ELSE writer[d]
        /\ writer' \in [Connections -> {"off", "select", "write", "end"}]
    BY <1>0, <1>1
  <1>3. TypeOK'
    <2>1. ASSUME NEW d \in Connections
          PROVE  /\ Len(held'[d]) = IF writer'[d] = "write" THEN 1 ELSE 0
                 /\ d > conn' => wire'[d] = <<>> /\ ctx'[d] = "none"
      BY <1>0, <1>1, <1>2 DEF TypeOK, bridgeVars
    <2> QED
      BY <1>0, <1>1, <1>2, <2>1 DEF TypeOK, terminalVars, channelVars, bridgeVars, runnerVars, historyVars
  <1>4. ChannelLast' /\ InFlight'
    BY <1>1, NoChunkMoves DEF terminalVars, channelVars, bridgeVars, runnerVars
  <1>5. LiveOnly' /\ AttachAlone'
    BY <1>0, <1>1, <1>2 DEF LiveOnly, AttachAlone, bridgeVars, runnerVars
  <1> QED
    BY <1>3, <1>4, <1>5 DEF IInv

\* Only the live connection is written to, and what is written comes after all that was.
LEMMA WritesStep ==
    ASSUME IInv, NEW e \in Connections, Writes(e)
    PROVE  IInv'
  <1>0. /\ TypeOK /\ ChannelLast /\ LiveOnly /\ AttachAlone /\ InFlight
        /\ writer \in [Connections -> {"off", "select", "write", "end"}]
        /\ held \in [Connections -> Seq(Frame)] /\ wire \in [Connections -> Seq(Frame)]
        /\ held[e] \in Seq(Frame) /\ wire[e] \in Seq(Frame)
    BY DEF IInv, TypeOK
  <1>1. /\ writer[e] = "write" /\ ctx[e] = "live" /\ wire' = [wire EXCEPT ![e] = @ \o held[e]]
        /\ writer' = [writer EXCEPT ![e] = "select"] /\ held' = [held EXCEPT ![e] = <<>>]
        /\ UNCHANGED <<terminalVars, channelVars, bridgeVars, runnerVars, historyVars>>
    BY DEF Writes
  <1>2. Len(held[e]) = 1
    BY <1>0, <1>1 DEF TypeOK
  <1>3. DEFINE w == wire[e] \o held[e]
  <1>4. /\ w \in Seq(Frame) /\ Len(w) = Len(wire[e]) + 1
        /\ \A i \in 1..Len(wire[e]) : w[i] = wire[e][i]
        /\ w[Len(wire[e]) + 1] = held[e][1]
        /\ InputsIn(w) = InputsIn(wire[e]) \cup InputsIn(held[e])
        /\ InputsIncrease(wire[e]) /\ Before(InputsIn(wire[e]), InputsIn(held[e])) => InputsIncrease(w)
    BY <1>0, <1>2, FramesAppended
  <1> HIDE DEF w
  <1>5. /\ \A d \in Connections : /\ held'[d] = IF d = e THEN <<>> ELSE held[d]
                                  /\ writer'[d] = IF d = e THEN "select" ELSE writer[d]
                                  /\ wire'[d] = IF d = e THEN w ELSE wire[d]
        /\ writer' \in [Connections -> {"off", "select", "write", "end"}]
    BY <1>0, <1>1 DEF w
  <1>6. held' \in [Connections -> Seq(Frame)] /\ wire' \in [Connections -> Seq(Frame)]
    <2>1. <<>> \in Seq(Frame)
      BY Few
    <2> QED
      BY <1>0, <1>1, <1>4, <2>1 DEF w
  <1>7. e = conn /\ at \in {"first", "loop"} /\ \A d \in Connections : ctx[d] = "live" => d = e
    BY <1>0, <1>1 DEF LiveOnly
  <1>8. TypeOK'
    <2>1. ASSUME NEW d \in Connections
          PROVE  /\ Len(held'[d]) = IF writer'[d] = "write" THEN 1 ELSE 0
                 /\ d > conn' => wire'[d] = <<>> /\ ctx'[d] = "none"
      <3>1. /\ Len(held[d]) = IF writer[d] = "write" THEN 1 ELSE 0
            /\ d > conn => wire[d] = <<>> /\ ctx[d] = "none"
        BY <1>0 DEF TypeOK
      <3>2. conn' = conn /\ ctx' = ctx
        BY <1>1 DEF bridgeVars
      <3>3. d > conn => d # e
        BY <1>1, <3>1
      <3> QED
        BY <1>5, <3>1, <3>2, <3>3, Few
    <2> QED
      BY <1>0, <1>1, <1>5, <1>6, <2>1 DEF TypeOK, terminalVars, channelVars, bridgeVars, runnerVars, historyVars
  <1>9. UNCHANGED <<typed, inputBytes, at, conn, ctx, lease, received>>
    BY <1>1 DEF terminalVars, channelVars, bridgeVars, runnerVars
  <1>10. ChannelLast'
    BY <1>0, <1>4, <1>5, <1>9, Few DEF ChannelLast, Before
  <1>11. LiveOnly'
    BY <1>0, <1>9 DEF LiveOnly
  <1>12. AttachAlone'
    <2>1. \A i \in 1..Len(wire[e]) : wire[e][i].type # "attach"
      BY <1>0, <1>1 DEF AttachAlone
    <2>2. held[e][1].type # "attach"
      <3>1. 1 \in 1..Len(held[e])
        BY <1>2
      <3> QED
        BY <1>0, <3>1 DEF AttachAlone
    <2>3. \A i \in 1..Len(w) : w[i].type # "attach"
      <3>1. Len(wire[e]) \in Nat
        BY <1>0
      <3>2. \A i \in 1..Len(w) : i \in 1..Len(wire[e]) \/ i = Len(wire[e]) + 1
        BY <1>4, <3>1
      <3> QED
        BY <1>4, <2>1, <2>2, <3>2
    <2>4. e # conn \/ at # "first"
      BY <1>0, <1>1 DEF AttachAlone
    <2>5. ~(e > conn)
      BY <1>0, <1>1 DEF AttachAlone
    <2>6. \A i \in 1..Len(<<>>) : FALSE
      OBVIOUS
    <2>7. ASSUME NEW d \in Connections
          PROVE  /\ d > conn' \/ (d = conn' /\ at' = "first") => writer'[d] = "off"
                 /\ \A i \in 1..Len(held'[d]) : held'[d][i].type # "attach"
                 /\ \A i \in 1..Len(wire'[d]) : wire'[d][i].type = "attach"
                       => Len(wire'[d]) = 1 /\ writer'[d] = "off" /\ lease' # d
      <3>1. CASE d = e
        BY <1>5, <1>9, <2>3, <2>4, <2>5, <2>6, <3>1
      <3>2. CASE d # e
        BY <1>0, <1>5, <1>9, <3>2 DEF AttachAlone
      <3> QED
        BY <3>1, <3>2
    <2> QED
      BY <1>0, <1>9, <2>7 DEF AttachAlone
  <1>13. InFlight'
    <2>1. /\ Before(Elements(received), InputsIn(held[e]))
          /\ \A d \in Connections : Before(InputsIn(wire[d]), InputsIn(held[e]))
          /\ InputsIncrease(wire[e])
          /\ lease = e => Before(Elements(received), InputsIn(wire[e]))
      BY <1>0, <1>1 DEF InFlight
    <2>2. InputsIncrease(w) /\ (lease = e => Before(Elements(received), InputsIn(w)))
      BY <1>4, <2>1 DEF Before
    <2>3. ASSUME NEW d \in Connections
          PROVE  /\ InputsIncrease(wire'[d])
                 /\ lease' = d => Before(Elements(received'), InputsIn(wire'[d]))
                 /\ ctx'[d] = "live" => /\ Before(Elements(received'), InputsIn(held'[d]))
                                        /\ \A x \in Connections : Before(InputsIn(wire'[x]), InputsIn(held'[d]))
      <3>1. CASE d = e
        BY <1>5, <1>9, <2>2, <3>1, Few DEF Before
      <3>2. CASE d # e
        BY <1>0, <1>5, <1>7, <1>9, <3>2 DEF InFlight
      <3> QED
        BY <3>1, <3>2
    <2> QED
      BY <1>0, <1>9, <2>3 DEF InFlight
  <1> QED
    BY <1>8, <1>10, <1>11, <1>12, <1>13 DEF IInv

\* What a writer held is lost with its connection.
LEMMA WriteFailsStep ==
    ASSUME IInv, NEW e \in Connections, WriteFails(e)
    PROVE  IInv'
  <1>0. /\ TypeOK /\ ChannelLast /\ LiveOnly /\ AttachAlone /\ InFlight
        /\ writer \in [Connections -> {"off", "select", "write", "end"}]
        /\ held \in [Connections -> Seq(Frame)] /\ ctx \in [Connections -> {"none", "live", "done"}]
        /\ lost \subseteq Chunks
    BY DEF IInv, TypeOK
  <1>1. /\ writer[e] = "write"
        /\ writer' = [writer EXCEPT ![e] = "end"] /\ held' = [held EXCEPT ![e] = <<>>]
        /\ lost' = lost \cup ChunksIn(held[e])
        /\ UNCHANGED bridgeVars \/ Ends("backoff")
        /\ UNCHANGED <<terminalVars, channelVars, wire, runnerVars, sizeLost>>
    BY DEF WriteFails
  <1>2. /\ \A d \in Connections : /\ held'[d] = IF d = e THEN <<>> ELSE held[d]
                                  /\ writer'[d] = IF d = e THEN "end" ELSE writer[d]
        /\ writer' \in [Connections -> {"off", "select", "write", "end"}]
    BY <1>0, <1>1
  <1>3. held' \in [Connections -> Seq(Frame)]
    <2>1. <<>> \in Seq(Frame)
      BY Few
    <2> QED
      BY <1>0, <1>1, <2>1
  <1>4. lost' \subseteq Chunks
    BY <1>0, <1>1 DEF ChunksIn
  <1>5. /\ conn' = conn /\ (at' = at \/ at' = "backoff")
        /\ at' \in {"dial", "first", "loop", "backoff", "stopped"}
    BY <1>0, <1>1 DEF Ends, bridgeVars, TypeOK
  <1>6. /\ ctx' \in [Connections -> {"none", "live", "done"}]
        /\ \A d \in Connections : /\ ctx'[d] = "live" => ctx[d] = "live" /\ at' = at
                                  /\ d > conn => ctx'[d] = "none"
    <2>1. conn \in Nat /\ \A d \in Connections : d > conn => d # conn /\ ctx[d] = "none"
      BY <1>0, BridgeInputAssumption DEF TypeOK, Connections
    <2>2. CASE UNCHANGED bridgeVars
      BY <1>0, <2>1, <2>2 DEF bridgeVars
    <2>3. CASE Ends("backoff")
      <3>1. ctx' = [ctx EXCEPT ![conn] = "done"]
        BY <2>3 DEF Ends
      <3>2. \A d \in Connections : ctx[d] = "live" => d = conn
        BY <1>0 DEF LiveOnly
      <3> QED
        BY <1>0, <2>1, <3>1, <3>2
    <2> QED
      BY <1>1, <2>2, <2>3
  <1>7. TypeOK'
    <2>1. ASSUME NEW d \in Connections
          PROVE  /\ Len(held'[d]) = IF writer'[d] = "write" THEN 1 ELSE 0
                 /\ d > conn' => wire'[d] = <<>> /\ ctx'[d] = "none"
      <3>1. /\ Len(held[d]) = IF writer[d] = "write" THEN 1 ELSE 0
            /\ d > conn => wire[d] = <<>>
        BY <1>0 DEF TypeOK
      <3> QED
        BY <1>1, <1>2, <1>5, <1>6, <3>1, Few
    <2> QED
      BY <1>0, <1>1, <1>2, <1>3, <1>4, <1>5, <1>6, <2>1 DEF TypeOK, terminalVars, channelVars, runnerVars
  <1>8. UNCHANGED <<typed, inputBytes, wire, lease, received>>
    BY <1>1 DEF terminalVars, channelVars, runnerVars
  <1>9. ChannelLast'
    BY <1>0, <1>2, <1>8, Few DEF ChannelLast, Before
  <1>10. LiveOnly'
    BY <1>0, <1>5, <1>6 DEF LiveOnly
  <1>11. AttachAlone'
    <2>1. \A i \in 1..Len(<<>>) : FALSE
      OBVIOUS
    <2>2. ASSUME NEW d \in Connections
          PROVE  /\ d > conn' \/ (d = conn' /\ at' = "first") => writer'[d] = "off"
                 /\ \A i \in 1..Len(held'[d]) : held'[d][i].type # "attach"
                 /\ \A i \in 1..Len(wire'[d]) : wire'[d][i].type = "attach"
                       => Len(wire'[d]) = 1 /\ writer'[d] = "off" /\ lease' # d
      <3>1. CASE d = e
        BY <1>0, <1>1, <1>2, <1>5, <1>8, <2>1, <3>1 DEF AttachAlone
      <3>2. CASE d # e
        <4>1. /\ d > conn \/ (d = conn /\ at = "first") => writer[d] = "off"
              /\ \A i \in 1..Len(held[d]) : held[d][i].type # "attach"
              /\ \A i \in 1..Len(wire[d]) : wire[d][i].type = "attach"
                    => Len(wire[d]) = 1 /\ writer[d] = "off" /\ lease # d
          BY <1>0 DEF AttachAlone
        <4>2. at' = "first" => at = "first"
          BY <1>5
        <4>3. /\ held'[d] = held[d] /\ writer'[d] = writer[d] /\ wire'[d] = wire[d]
              /\ conn' = conn /\ lease' = lease
          BY <1>2, <1>5, <1>8, <3>2
        <4> QED
          BY <4>1, <4>2, <4>3
      <3> QED
        BY <3>1, <3>2
    <2> QED
      BY <1>0, <1>5, <1>8, <2>2 DEF AttachAlone
  <1>12. InFlight'
    <2>1. \A d \in Connections : InputsIn(held'[d]) \subseteq InputsIn(held[d])
      BY <1>2, Few
    <2> QED
      BY <1>0, <1>6, <1>8, <2>1 DEF InFlight, Before
  <1> QED
    BY <1>7, <1>9, <1>10, <1>11, <1>12 DEF IInv

-----------------------------------------------------------------------------
(* The runner.                                                             *)

\* A frame that the runner reads is its connection's attach, alone on the wire, and may
\* give it the lease; or it is input that the holder of the lease sent, which comes after
\* all that was received; or nothing is received.
LEMMA RunnerReadsStep ==
    ASSUME IInv, NEW e \in Connections, RunnerReads(e)
    PROVE  IInv'
  <1> DEFINE f == Head(wire[e])
             granted == f.type = "attach" /\ (lease = 0 \/ Takeover)
             obeyed == f.type # "attach" /\ Authorized(e)
  <1>0. /\ TypeOK /\ ChannelLast /\ LiveOnly /\ AttachAlone /\ InFlight
        /\ wire \in [Connections -> Seq(Frame)] /\ wire[e] \in Seq(Frame)
        /\ received \in Seq(Chunks) /\ lease \in 0..MaxConnections /\ pty \in Sizes /\ lost \subseteq Chunks
        /\ conn \in Nat /\ MaxConnections \in Nat
    BY BridgeInputAssumption DEF IInv, TypeOK
  <1>1. /\ wire[e] # <<>> /\ wire' = [wire EXCEPT ![e] = Tail(@)]
        /\ lease' = IF granted THEN e ELSE lease
        /\ pty' = IF granted \/ (obeyed /\ f.type = "resize") THEN f.value ELSE pty
        /\ received' = IF obeyed /\ f.type = "input" THEN Append(received, f.value) ELSE received
        /\ lost' = IF f.type = "input" /\ ~obeyed THEN lost \cup {f.value} ELSE lost
        /\ UNCHANGED <<terminalVars, channelVars, bridgeVars, writerVars, sizeLost>>
    BY DEF RunnerReads
  <1>2. /\ f \in Frame /\ f = wire[e][1] /\ Len(wire[e]) \in Nat \ {0}
        /\ Tail(wire[e]) \in Seq(Frame) /\ Len(Tail(wire[e])) = Len(wire[e]) - 1
        /\ \A i \in 1..Len(Tail(wire[e])) : i + 1 \in 1..Len(wire[e]) /\ Tail(wire[e])[i] = wire[e][i + 1]
        /\ InputsIn(Tail(wire[e])) \subseteq InputsIn(wire[e])
        /\ InputsIncrease(Tail(wire[e]))
        /\ f.type = "input" => f.value \in InputsIn(wire[e]) /\ Before({f.value}, InputsIn(Tail(wire[e])))
    BY <1>0, <1>1, FrameRead DEF InFlight
  <1>3. f.type = "input" => f.value \in Chunks /\ f.type # "attach"
    BY <1>2 DEF Frame
  <1>4. f.type \in {"attach", "resize"} => f.value \in Sizes
    BY <1>2 DEF Frame
  <1>5. /\ wire' \in [Connections -> Seq(Frame)]
        /\ \A d \in Connections : wire'[d] = IF d = e THEN Tail(wire[e]) ELSE wire[d]
    BY <1>0, <1>1, <1>2
  <1>6. obeyed => lease = e
    BY DEF Authorized
  <1> HIDE DEF f, granted, obeyed
  <1>7. granted => f.type = "attach" /\ Len(wire[e]) = 1 /\ writer[e] = "off"
    <2>1. 1 \in 1..Len(wire[e])
      BY <1>2
    <2> QED
      BY <1>0, <1>2, <2>1 DEF AttachAlone, granted
  <1>8. received' = received \/ (lease = e /\ f.type = "input" /\ received' = Append(received, f.value))
    BY <1>1, <1>6
  <1>9. /\ received' \in Seq(Chunks) /\ Increasing(received')
        /\ Elements(received) \subseteq Elements(received')
        /\ Elements(received') \subseteq Elements(received) \cup InputsIn(wire[e])
        /\ received' # received => lease = e /\ f.type = "input"
                                   /\ Elements(received') = Elements(received) \cup {f.value}
    <2>1. CASE received' = received
      BY <1>0, <2>1 DEF InFlight
    <2>2. CASE lease = e /\ f.type = "input" /\ received' = Append(received, f.value)
      <3>1. Before(Elements(received), {f.value})
        BY <1>0, <1>2, <2>2 DEF InFlight, Before
      <3>2. /\ Append(received, f.value) \in Seq(Chunks)
            /\ Elements(Append(received, f.value)) = Elements(received) \cup {f.value}
            /\ Increasing(Append(received, f.value))
        BY <1>0, <1>3, <2>2, <3>1, ChunkAppended DEF InFlight
      <3> QED
        BY <1>2, <2>2, <3>2
    <2> QED
      BY <1>8, <2>1, <2>2
  <1>10. e <= conn /\ e \in 0..MaxConnections
    <2>1. ~(e > conn)
      BY <1>0, <1>1 DEF TypeOK
    <2> QED
      BY <1>0, <2>1 DEF Connections
  <1>11. TypeOK'
    <2>1. ASSUME NEW d \in Connections
          PROVE  /\ Len(held'[d]) = IF writer'[d] = "write" THEN 1 ELSE 0
                 /\ d > conn' => wire'[d] = <<>> /\ ctx'[d] = "none"
      <3>1. d > conn => d # e
        BY <1>0, <1>10 DEF Connections
      <3> QED
        BY <1>0, <1>1, <1>5, <3>1 DEF TypeOK, bridgeVars, writerVars
    <2>2. lease' \in 0..MaxConnections
      BY <1>0, <1>1, <1>10
    <2>3. pty' \in Sizes
      <3>1. granted \/ (obeyed /\ f.type = "resize") => f.type \in {"attach", "resize"}
        BY <1>7
      <3> QED
        BY <1>0, <1>1, <1>4, <3>1
    <2>4. lost' \subseteq Chunks
      BY <1>0, <1>1, <1>3
    <2> QED
      BY <1>0, <1>1, <1>5, <1>9, <2>1, <2>2, <2>3, <2>4 DEF TypeOK, terminalVars, channelVars, bridgeVars, writerVars
  <1>12. UNCHANGED <<typed, inputBytes, at, conn, ctx, writer, held>>
    BY <1>1 DEF terminalVars, channelVars, bridgeVars, writerVars
  <1>13. ChannelLast'
    <2>1. Elements(received') \subseteq 1..typed /\ Before(Elements(received'), Elements(inputBytes))
      BY <1>0, <1>9 DEF ChannelLast, Before
    <2>2. ASSUME NEW d \in Connections
          PROVE  InputsIn(wire'[d]) \subseteq 1..typed /\ Before(InputsIn(wire'[d]), Elements(inputBytes))
      BY <1>0, <1>2, <1>5 DEF ChannelLast, Before
    <2> QED
      BY <1>0, <1>12, <2>1, <2>2 DEF ChannelLast
  <1>14. LiveOnly'
    BY <1>0, <1>12 DEF LiveOnly
  <1>15. AttachAlone'
    <2>1. lease' <= conn'
      <3>1. lease <= conn
        BY <1>0 DEF AttachAlone
      <3> QED
        BY <1>1, <1>10, <1>12, <3>1
    <2>2. ASSUME NEW d \in Connections, NEW i \in 1..Len(wire'[d]), wire'[d][i].type = "attach"
          PROVE  Len(wire'[d]) = 1 /\ writer'[d] = "off" /\ lease' # d
      <3>1. CASE d = e
        <4>1. i + 1 \in 1..Len(wire[e]) /\ wire[e][i + 1].type = "attach" /\ i \in 1..Len(Tail(wire[e]))
          BY <1>2, <1>5, <2>2, <3>1
        <4>2. Len(wire[e]) = 1
          BY <1>0, <4>1 DEF AttachAlone
        <4> QED
          BY <1>2, <4>1, <4>2
      <3>2. CASE d # e
        BY <1>0, <1>1, <1>5, <1>12, <2>2, <3>2 DEF AttachAlone
      <3> QED
        BY <3>1, <3>2
    <2> QED
      BY <1>0, <1>12, <2>1, <2>2 DEF AttachAlone
  <1>16. InFlight'
    <2>1. ASSUME NEW d \in Connections, lease' = d
          PROVE  Before(Elements(received'), InputsIn(wire'[d]))
      <3>1. CASE granted
        <4>1. d = e /\ Len(Tail(wire[e])) = 0
          BY <1>1, <1>2, <1>7, <2>1, <3>1
        <4>2. InputsIn(wire'[d]) = {}
          <5>1. wire'[d] = Tail(wire[e])
            BY <1>5, <4>1
          <5>2. Len(wire'[d]) = 0
            BY <4>1, <5>1
          <5>3. \A i \in 1..Len(wire'[d]) : FALSE
            BY <5>2
          <5> QED
            BY <5>3 DEF InputsIn
        <4> QED
          BY <4>2 DEF Before
      <3>2. CASE ~granted
        <4>1. lease = d /\ Before(Elements(received), InputsIn(wire[d]))
          BY <1>0, <1>1, <2>1, <3>2 DEF InFlight
        <4>2. InputsIn(wire'[d]) \subseteq InputsIn(wire[d])
          BY <1>2, <1>5
        <4>3. CASE received' = received
          BY <4>1, <4>2, <4>3 DEF Before
        <4>4. CASE received' # received
          <5>1. d = e /\ f.type = "input" /\ Elements(received') = Elements(received) \cup {f.value}
            BY <1>9, <4>1, <4>4
          <5>2. wire'[d] = Tail(wire[e])
            BY <1>5, <5>1
          <5> QED
            BY <1>2, <4>1, <4>2, <5>1, <5>2 DEF Before
        <4> QED
          BY <4>3, <4>4
      <3> QED
        BY <3>1, <3>2
    <2>2. ASSUME NEW d \in Connections, ctx[d] = "live"
          PROVE  /\ Before(Elements(received'), InputsIn(held[d]))
                 /\ \A x \in Connections : Before(InputsIn(wire'[x]), InputsIn(held[d]))
      <3>1. /\ Before(Elements(received), InputsIn(held[d]))
            /\ \A x \in Connections : Before(InputsIn(wire[x]), InputsIn(held[d]))
        BY <1>0, <2>2 DEF InFlight
      <3> QED
        BY <1>2, <1>5, <1>9, <3>1 DEF Before
    <2>3. \A d \in Connections : InputsIncrease(wire'[d])
      BY <1>0, <1>2, <1>5 DEF InFlight
    <2> QED
      BY <1>9, <1>12, <2>1, <2>2, <2>3 DEF InFlight
  <1> QED
    BY <1>11, <1>13, <1>14, <1>15, <1>16 DEF IInv

\* What was on its way is lost with the connection.
LEMMA RunnerDetachesStep ==
    ASSUME IInv, NEW e \in Connections, RunnerDetaches(e)
    PROVE  IInv'
  <1>0. /\ TypeOK /\ ChannelLast /\ LiveOnly /\ AttachAlone /\ InFlight
        /\ wire \in [Connections -> Seq(Frame)] /\ lease \in 0..MaxConnections /\ lost \subseteq Chunks
        /\ conn \in Nat /\ MaxConnections \in Nat
    BY BridgeInputAssumption DEF IInv, TypeOK
  <1>1. /\ wire' = [wire EXCEPT ![e] = <<>>] /\ lost' = lost \cup ChunksIn(wire[e])
        /\ lease' = IF lease = e THEN 0 ELSE lease
        /\ UNCHANGED <<terminalVars, channelVars, bridgeVars, writerVars, pty, received, sizeLost>>
    BY DEF RunnerDetaches
  <1>2. /\ \A d \in Connections : wire'[d] = IF d = e THEN <<>> ELSE wire[d]
        /\ wire' \in [Connections -> Seq(Frame)]
    <2>1. <<>> \in Seq(Frame)
      BY Few
    <2> QED
      BY <1>0, <1>1, <2>1
  <1>3. /\ lease' \in 0..MaxConnections /\ lost' \subseteq Chunks
        /\ \A d \in Connections : lease' = d => lease = d
    BY <1>0, <1>1 DEF ChunksIn, Connections
  <1>4. UNCHANGED <<typed, inputBytes, at, conn, ctx, writer, held, received>>
    BY <1>1 DEF terminalVars, channelVars, bridgeVars, writerVars
  <1>5. TypeOK'
    <2>1. ASSUME NEW d \in Connections
          PROVE  /\ Len(held'[d]) = IF writer'[d] = "write" THEN 1 ELSE 0
                 /\ d > conn' => wire'[d] = <<>> /\ ctx'[d] = "none"
      BY <1>0, <1>2, <1>4 DEF TypeOK
    <2> QED
      BY <1>0, <1>1, <1>2, <1>3, <2>1 DEF TypeOK, terminalVars, channelVars, bridgeVars, writerVars
  <1>6. \A d \in Connections : InputsIn(wire'[d]) \subseteq InputsIn(wire[d]) /\ InputsIncrease(wire'[d])
    BY <1>0, <1>2, Few DEF InFlight
  <1>7. ChannelLast' /\ LiveOnly' /\ InFlight'
    BY <1>0, <1>3, <1>4, <1>6 DEF ChannelLast, LiveOnly, InFlight, Before
  <1>8. AttachAlone'
    <2>1. lease' <= conn'
      <3>1. lease <= conn
        BY <1>0 DEF AttachAlone
      <3> QED
        BY <1>0, <1>1, <1>4, <3>1
    <2>2. \A i \in 1..Len(<<>>) : FALSE
      OBVIOUS
    <2>3. ASSUME NEW d \in Connections, NEW i \in 1..Len(wire'[d]), wire'[d][i].type = "attach"
          PROVE  Len(wire'[d]) = 1 /\ writer'[d] = "off" /\ lease' # d
      BY <1>0, <1>2, <1>3, <1>4, <2>2, <2>3 DEF AttachAlone
    <2> QED
      BY <1>0, <1>4, <2>1, <2>3 DEF AttachAlone
  <1> QED
    BY <1>5, <1>7, <1>8 DEF IInv

-----------------------------------------------------------------------------
(* The theorem.                                                            *)

\* No step of the terminal, of a connection, of a writer or of the runner breaks the
\* invariant.
LEMMA NextIInv == IInv /\ [Next]_vars => IInv'
  <1> SUFFICES ASSUME IInv, [Next]_vars PROVE IInv'
    OBVIOUS
  <1>1. CASE UNCHANGED vars
    <2>1. TypeOK'
      BY <1>1 DEF IInv, TypeOK, vars, terminalVars, channelVars, bridgeVars, writerVars, runnerVars, historyVars
    <2>2. ChannelLast' /\ InFlight'
      BY <1>1, NoChunkMoves DEF vars, terminalVars, channelVars, bridgeVars, writerVars, runnerVars
    <2>3. LiveOnly' /\ AttachAlone'
      BY <1>1 DEF IInv, LiveOnly, AttachAlone, vars, bridgeVars, writerVars, runnerVars
    <2> QED
      BY <2>1, <2>2, <2>3 DEF IInv
  <1>2. ASSUME NEW e \in Connections, Writer(e) \/ WriteFails(e) \/ RunnerReads(e) \/ RunnerDetaches(e)
        PROVE  IInv'
    BY <1>2, TakesStep, SelectsDoneStep, WritesStep, WriteFailsStep, RunnerReadsStep, RunnerDetachesStep
       DEF Writer
  <1> QED
    BY <1>1, <1>2, SizeStep, ReadsStep, DialStep, ConnectionStep DEF Next

\* The agent receives what was typed in the order it was typed, no chunk twice, however
\* many connections were lost and wherever their writers were; and no channel overflows.
THEOREM InputIsInOrder == Spec => []InputInOrder
  <1>1. IInv => InputInOrder
    BY DEF IInv, InFlight, Increasing, InputInOrder
  <1> QED
    BY <1>1, InitIInv, NextIInv, PTL DEF Spec
=============================================================================
