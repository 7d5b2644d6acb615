--------------------------- MODULE GatewayProofs ----------------------------
(***************************************************************************)
(* Theorems about module Gateway, for any connections, agents, principals, *)
(* limits and frames: the limiter and the gauge of active connections are  *)
(* exact on every path, and no takeover is counted that was not granted.   *)
(***************************************************************************)
EXTENDS Gateway, FiniteSetTheorems, TLAPS

-----------------------------------------------------------------------------
(* The inductive invariant.                                                *)

\* The attached frames among s that make their receiver the controller.
Controls(s) == {i \in 1..Len(s) : s[i].type = "attached" /\ s[i].role = "control"}

\* Each grant is on its way to the client or has been counted, once at most.
GrantsAhead == \A c \in Conns : takeovers[c] + Cardinality(Controls(toClient[c])) <= grants[c]

\* A request that is not yet upgraded has no client connection, so that none is counted.
NotUpgraded == \A c \in Conns : at[c] \in {"idle", "accepting"} => client[c] = "none"

IInv == SlotsExact /\ NotUpgraded /\ GrantsAhead

\* Where a handler is.
Where == {"idle", "accepting", "attaching", "dialing", "proxy", "leaving", "gone"}
USE DEF Where

-----------------------------------------------------------------------------
(* Frames and counting.                                                    *)

\* The frames that the proxy and the runner write.
LEMMA FrameTypes ==
    /\ \A t \in {"attach", "attached", "takeover", "other"} : Simple(t) \in Frame
    /\ \A r \in Roles : Attached(r) \in Frame
    /\ \A r \in Roles, t \in BOOLEAN : Attach(r, t) \in Frame
  BY DEF Simple, Attached, Attach, Frame, Roles

\* A frame that follows s is a grant or adds none.
LEMMA ControlsAppend ==
    ASSUME NEW s \in Seq(Frame), NEW f \in Frame
    PROVE  /\ IsFiniteSet(Controls(s)) /\ Cardinality(Controls(s)) \in Nat
           /\ Cardinality(Controls(Append(s, f))) \in Nat
           /\ Cardinality(Controls(Append(s, f))) <= Cardinality(Controls(s)) + 1
           /\ f.type # "attached" \/ f.role # "control" => Controls(Append(s, f)) = Controls(s)
  <1> DEFINE n == Len(s)
  <1>1. n \in Nat /\ Len(Append(s, f)) = n + 1
    OBVIOUS
  <1>2. /\ \A i \in 1..n : Append(s, f)[i] = s[i]
        /\ Append(s, f)[n + 1] = f
    OBVIOUS
  <1>3. IsFiniteSet(Controls(s)) /\ Cardinality(Controls(s)) \in Nat
    <2>1. IsFiniteSet(1..n)
      BY <1>1, FS_Interval
    <2>2. Controls(s) \in SUBSET (1..n)
      BY DEF Controls
    <2> QED
      BY <2>1, <2>2, FS_Subset, FS_CardinalityType
  <1>4. n + 1 \notin Controls(s)
    BY <1>1 DEF Controls
  <1>5. 1..(n + 1) = (1..n) \cup {n + 1}
    BY <1>1
  <1>6. CASE f.type = "attached" /\ f.role = "control"
    <2>1. Controls(Append(s, f)) = Controls(s) \cup {n + 1}
      BY <1>1, <1>2, <1>5, <1>6 DEF Controls
    <2>2. Cardinality(Controls(s) \cup {n + 1}) = Cardinality(Controls(s)) + 1
      BY <1>3, <1>4, FS_AddElement
    <2> QED
      BY <1>3, <1>6, <2>1, <2>2
  <1>7. CASE ~(f.type = "attached" /\ f.role = "control")
    <2>1. Controls(Append(s, f)) = Controls(s)
      BY <1>1, <1>2, <1>5, <1>7 DEF Controls
    <2> QED
      BY <1>3, <2>1
  <1> QED
    BY <1>6, <1>7

\* Reading a grant leaves one less of them, and reading another frame no more.
LEMMA ControlsTail ==
    ASSUME NEW s \in Seq(Frame), s # << >>
    PROVE  /\ Cardinality(Controls(s)) \in Nat /\ Cardinality(Controls(Tail(s))) \in Nat
           /\ Cardinality(Controls(Tail(s))) <= Cardinality(Controls(s))
           /\ Head(s).type = "attached" /\ Head(s).role = "control"
                => Cardinality(Controls(Tail(s))) + 1 <= Cardinality(Controls(s))
  <1> DEFINE n == Len(s)
             A == Controls(s)
             B == Controls(Tail(s))
             f == [i \in B |-> i + 1]
  <1>1. n \in Nat /\ n > 0 /\ Len(Tail(s)) = n - 1 /\ Head(s) = s[1]
    OBVIOUS
  <1>2. \A i \in 1..(n - 1) : Tail(s)[i] = s[i + 1]
    OBVIOUS
  <1>3. IsFiniteSet(A) /\ Cardinality(A) \in Nat
    <2>1. IsFiniteSet(1..n)
      BY <1>1, FS_Interval
    <2>2. A \in SUBSET (1..n)
      BY DEF Controls
    <2> QED
      BY <2>1, <2>2, FS_Subset, FS_CardinalityType
  <1>4. IsFiniteSet(A \ {1}) /\ Cardinality(A \ {1}) = IF 1 \in A THEN Cardinality(A) - 1 ELSE Cardinality(A)
    BY <1>3, FS_RemoveElement
  <1>5. f \in Injection(B, A \ {1})
    <2>1. \A i \in B : i \in 1..(n - 1) /\ i + 1 \in A \ {1}
      BY <1>1, <1>2 DEF Controls
    <2>2. f \in [B -> A \ {1}]
      BY <2>1
    <2>3. \A i, j \in B : f[i] = f[j] => i = j
      BY <2>1
    <2> QED
      BY <2>2, <2>3 DEF Injection, IsInjective
  <1>6. IsFiniteSet(B) /\ Cardinality(B) <= Cardinality(A \ {1})
    BY <1>4, <1>5, FS_Injection
  <1>7. Cardinality(B) \in Nat
    BY <1>6, FS_CardinalityType
  <1>8. Head(s).type = "attached" /\ Head(s).role = "control" => 1 \in A
    BY <1>1 DEF Controls
  <1> QED
    BY <1>3, <1>4, <1>6, <1>7, <1>8

\* With nothing on its way there is nothing to count.
LEMMA ControlsNone == Controls(<< >>) = {} /\ Cardinality(Controls(<< >>)) = 0
  <1>1. Controls(<< >>) = {}
    BY DEF Controls
  <1> QED
    BY <1>1, FS_EmptySet

\* The requests that hold a place are finitely many, and so are those of an agent and
\* those that are upgraded.
PlacedOf(a) == {c \in Placed : AgentOf[c] = a}
Upgraded == {c \in Placed : client[c] # "none"}

LEMMA PlacedFinite ==
    /\ Placed \subseteq Conns
    /\ IsFiniteSet(Placed) /\ IsFiniteSet(Upgraded) /\ \A a \in Agents : IsFiniteSet(PlacedOf(a))
  <1>1. Placed \subseteq Conns /\ IsFiniteSet(Conns)
    BY GatewayAssumption DEF Placed
  <1>2. IsFiniteSet(Placed)
    BY <1>1, FS_Subset
  <1>3. Upgraded \subseteq Placed /\ \A a \in Agents : PlacedOf(a) \subseteq Placed
    BY DEF Upgraded, PlacedOf
  <1> QED
    BY <1>1, <1>2, <1>3, FS_Subset

\* Nothing is counted before the first request.
LEMMA InitIInv == Init => IInv
  <1> SUFFICES ASSUME Init PROVE IInv
    OBVIOUS
  <1>1. TypeOK
    <2>1. Simple("other") \in Frame /\ << >> \in Seq(Frame)
      BY FrameTypes
    <2> QED
      BY <2>1 DEF Init, TypeOK, Threads
  <1>2. Placed = {} /\ Upgraded = {} /\ \A a \in Agents : PlacedOf(a) = {}
    BY DEF Init, Placed, PlacedOf, Upgraded
  <1>3. SlotsExact
    BY <1>1, <1>2, FS_EmptySet, GatewayAssumption DEF SlotsExact, Init, PlacedOf, Upgraded
  <1>4. NotUpgraded /\ GrantsAhead
    BY ControlsNone DEF Init, NotUpgraded, GrantsAhead
  <1> QED
    BY <1>3, <1>4 DEF IInv

-----------------------------------------------------------------------------
(* Steps that leave the places, or the grants, alone.                      *)

\* A handler that holds its place and goes on keeps all the counts.
LEMMA Sits ==
    ASSUME SlotsExact, TypeOK', UNCHANGED limiterVars,
           \A x \in Conns : /\ at'[x] \in {"idle", "gone"} <=> at[x] \in {"idle", "gone"}
                            /\ client'[x] = "none" <=> client[x] = "none"
    PROVE  SlotsExact'
  <1>1. Placed' = Placed /\ Upgraded' = Upgraded /\ \A a \in Agents : PlacedOf(a)' = PlacedOf(a)
    BY DEF Placed, Upgraded, PlacedOf
  <1> QED
    BY <1>1 DEF SlotsExact, Upgraded, PlacedOf, limiterVars

\* The same for one handler.
LEMMA Moves ==
    ASSUME IInv, TypeOK', NEW c \in Conns, NEW call, UNCHANGED <<limiterVars, client>>,
           at[c] \notin {"idle", "gone"}, call \notin {"idle", "gone", "accepting"},
           at' = [at EXCEPT ![c] = call]
    PROVE  SlotsExact' /\ NotUpgraded'
  <1>1. \A x \in Conns : at'[x] = IF x = c THEN call ELSE at[x]
    BY DEF IInv, SlotsExact, TypeOK
  <1>2. SlotsExact'
    BY <1>1, Sits DEF IInv
  <1>3. NotUpgraded'
    BY <1>1 DEF IInv, NotUpgraded
  <1> QED
    BY <1>2, <1>3

\* A step of the proxy, the client or the runner moves no handler.
LEMMA Stays ==
    ASSUME IInv, TypeOK', UNCHANGED <<limiterVars, at, client>>
    PROVE  SlotsExact' /\ NotUpgraded'
  BY Sits DEF IInv, NotUpgraded

\* What neither reads nor writes a frame for the client, or counts, keeps the grants.
LEMMA NoGrant ==
    ASSUME IInv, UNCHANGED <<takeovers, toClient, grants>>
    PROVE  GrantsAhead'
  BY DEF IInv, GrantsAhead

\* One connection's frames or counts change.
LEMMA OneGrant ==
    ASSUME IInv, TypeOK', NEW c \in Conns,
           \A x \in Conns : x # c => /\ takeovers'[x] = takeovers[x] /\ toClient'[x] = toClient[x]
                                     /\ grants'[x] = grants[x],
           takeovers'[c] + Cardinality(Controls(toClient'[c])) <= grants'[c]
    PROVE  GrantsAhead'
  BY DEF IInv, GrantsAhead

\* A goroutine ends with its error in the channel, or goes on.
LEMMA FailsType ==
    ASSUME TypeOK, NEW c \in Conns, NEW g \in Threads,
           Fails(c, g) \/ UNCHANGED <<thread, errs>> \/ (Goes(c, g, "done") /\ UNCHANGED errs)
    PROVE  /\ thread' \in [Conns -> [Threads -> {"off", "runs", "done"}]]
           /\ errs' \in [Conns -> 0..3]
  <1>0. thread \in [Conns -> [Threads -> {"off", "runs", "done"}]] /\ errs \in [Conns -> 0..3]
    BY DEF TypeOK
  <1>1. Goes(c, g, "done") => thread' \in [Conns -> [Threads -> {"off", "runs", "done"}]]
    BY <1>0 DEF Goes
  <1>2. Fails(c, g) => errs' \in [Conns -> 0..3]
    <2>1. errs[c] \in 0..3
      BY <1>0
    <2>2. errs[c] < 3 => errs[c] + 1 \in 0..3
      BY <2>1
    <2> QED
      BY <1>0, <2>2 DEF Fails, Errors
  <1> QED
    BY <1>0, <1>1, <1>2 DEF Fails

-----------------------------------------------------------------------------
(* ServeTerminal.                                                          *)

\* A place is taken when there is one, and the request is counted once.
LEMMA ServeStep ==
    ASSUME IInv, NEW c \in Conns, Serve(c)
    PROVE  IInv'
  <1>0. /\ TypeOK /\ SlotsExact /\ NotUpgraded /\ at \in [Conns -> Where]
        /\ total \in Nat /\ perAgent \in [Agents -> Nat] /\ AgentOf[c] \in Agents
        /\ {MaxConnections, MaxConnectionsPerAgent} \subseteq Nat
    BY GatewayAssumption DEF IInv, SlotsExact, TypeOK
  <1>1. /\ at[c] = "idle" /\ client[c] = "none"
        /\ UNCHANGED <<active, client, upstream, toRunner, toClient, proxyVars, runnerVars>>
    BY <1>0 DEF Serve, NotUpgraded
  <1>2. c \notin Placed
    BY <1>1 DEF Placed
  <1>3. GrantsAhead'
    BY <1>1, NoGrant DEF proxyVars, runnerVars
  <1>4. CASE acquire(AgentOf[c]) /\ at' = [at EXCEPT ![c] = "accepting"]
    <2>1. /\ total < MaxConnections /\ total' = total + 1
          /\ perAgent[AgentOf[c]] < MaxConnectionsPerAgent
          /\ \A a \in Agents : perAgent'[a] = IF a = AgentOf[c] THEN perAgent[a] + 1 ELSE perAgent[a]
      BY <1>0, <1>4 DEF acquire, HasPlace
    <2>2. TypeOK'
      <3>1. perAgent' \in [Agents -> Nat] /\ total' \in Nat
        BY <1>0, <1>4 DEF acquire
      <3>2. at' \in [Conns -> Where]
        BY <1>0, <1>4
      <3> QED
        BY <1>0, <1>1, <3>1, <3>2 DEF TypeOK, proxyVars, runnerVars
    <2>3. \A x \in Conns : at'[x] = IF x = c THEN "accepting" ELSE at[x]
      BY <1>0, <1>4
    <2>4. /\ Placed' = Placed \cup {c}
          /\ \A a \in Agents : PlacedOf(a)' = IF a = AgentOf[c] THEN PlacedOf(a) \cup {c} ELSE PlacedOf(a)
          /\ Upgraded' = Upgraded
      <3>1. Placed' = Placed \cup {c}
        BY <1>1, <2>3 DEF Placed
      <3> QED
        BY <1>1, <1>2, <3>1 DEF PlacedOf, Upgraded
    <2>5. /\ Cardinality(Placed \cup {c}) = Cardinality(Placed) + 1
          /\ \A a \in Agents : Cardinality(PlacedOf(a) \cup {c}) = Cardinality(PlacedOf(a)) + 1
      <3>1. c \notin Placed /\ \A a \in Agents : c \notin PlacedOf(a)
        BY <1>2 DEF PlacedOf
      <3> QED
        BY <3>1, PlacedFinite, FS_AddElement
    <2>6. total' = Cardinality(Placed') /\ total' <= MaxConnections
      <3>1. total = Cardinality(Placed)
        BY <1>0 DEF SlotsExact
      <3>2. total + 1 <= MaxConnections
        BY <1>0, <2>1
      <3> QED
        BY <2>1, <2>4, <2>5, <3>1, <3>2
    <2>7. ASSUME NEW a \in Agents
          PROVE  perAgent'[a] = Cardinality(PlacedOf(a)') /\ perAgent'[a] <= MaxConnectionsPerAgent
      <3>1. perAgent[a] = Cardinality(PlacedOf(a)) /\ perAgent[a] <= MaxConnectionsPerAgent
            /\ perAgent[a] \in Nat
        BY <1>0 DEF SlotsExact, PlacedOf
      <3>2. a = AgentOf[c] => perAgent[a] + 1 <= MaxConnectionsPerAgent
        BY <1>0, <2>1, <3>1
      <3> QED
        BY <2>1, <2>4, <2>5, <3>1, <3>2
    <2>8. active' = Cardinality(Upgraded')
      BY <1>0, <1>1, <2>4 DEF SlotsExact, Upgraded
    <2>9. SlotsExact'
      BY <2>2, <2>6, <2>7, <2>8 DEF SlotsExact, PlacedOf, Upgraded
    <2>10. NotUpgraded'
      BY <1>0, <1>1, <2>3 DEF NotUpgraded
    <2> QED
      BY <1>3, <2>9, <2>10 DEF IInv
  <1>5. CASE at' = [at EXCEPT ![c] = "gone"] /\ UNCHANGED <<total, perAgent>>
    <2>1. \A x \in Conns : at'[x] = IF x = c THEN "gone" ELSE at[x]
      BY <1>0, <1>5
    <2>2. TypeOK'
      <3>1. at' \in [Conns -> Where]
        BY <1>0, <1>5
      <3> QED
        BY <1>0, <1>1, <1>5, <3>1 DEF TypeOK, proxyVars, runnerVars
    <2>3. SlotsExact'
      BY <1>0, <1>1, <1>5, <2>1, <2>2, Sits DEF limiterVars
    <2>4. NotUpgraded'
      BY <1>0, <1>1, <2>1 DEF NotUpgraded
    <2> QED
      BY <1>3, <2>3, <2>4 DEF IInv
  <1> QED
    BY <1>4, <1>5 DEF Serve

\* The gauge counts an upgraded request once.
LEMMA AcceptStep ==
    ASSUME IInv, NEW c \in Conns, Accept(c)
    PROVE  IInv'
  <1>0. /\ TypeOK /\ SlotsExact /\ NotUpgraded /\ at \in [Conns -> Where]
        /\ client \in [Conns -> {"none", "up", "down"}] /\ active \in Nat
    BY DEF IInv, SlotsExact, TypeOK
  <1>1. /\ at[c] = "accepting" /\ client[c] = "none"
        /\ UNCHANGED <<total, perAgent, upstream, toRunner, toClient, proxyVars, runnerVars>>
    BY <1>0 DEF Accept, NotUpgraded
  <1>3. GrantsAhead'
    BY <1>1, NoGrant DEF proxyVars, runnerVars
  <1>4. CASE /\ client' = [client EXCEPT ![c] = "up"] /\ active' = active + 1
             /\ at' = [at EXCEPT ![c] = "attaching"]
    <2>1. TypeOK'
      <3>1. /\ client' \in [Conns -> {"none", "up", "down"}] /\ active' \in Nat
            /\ at' \in [Conns -> Where]
        BY <1>0, <1>4
      <3> QED
        BY <1>0, <1>1, <3>1 DEF TypeOK, proxyVars, runnerVars
    <2>2. \A x \in Conns : /\ at'[x] = IF x = c THEN "attaching" ELSE at[x]
                           /\ client'[x] = IF x = c THEN "up" ELSE client[x]
      BY <1>0, <1>4
    <2>3. Placed' = Placed /\ c \in Placed
      BY <1>1, <2>2 DEF Placed
    <2>4. /\ Upgraded' = Upgraded \cup {c} /\ c \notin Upgraded
          /\ \A a \in Agents : PlacedOf(a)' = PlacedOf(a)
      BY <1>1, <2>2, <2>3, PlacedFinite DEF Upgraded, PlacedOf
    <2>5. Cardinality(Upgraded') = Cardinality(Upgraded) + 1
      BY <2>4, PlacedFinite, FS_AddElement
    <2>6. SlotsExact'
      BY <1>0, <1>1, <1>4, <2>1, <2>3, <2>4, <2>5 DEF SlotsExact, Upgraded, PlacedOf
    <2>7. NotUpgraded'
      BY <1>0, <2>2 DEF NotUpgraded
    <2> QED
      BY <1>3, <2>6, <2>7 DEF IInv
  <1>5. CASE at' = [at EXCEPT ![c] = "leaving"] /\ UNCHANGED <<client, active>>
    <2>1. TypeOK'
      <3>1. at' \in [Conns -> Where]
        BY <1>0, <1>5
      <3> QED
        BY <1>0, <1>1, <1>5, <3>1 DEF TypeOK, proxyVars, runnerVars
    <2>2. SlotsExact' /\ NotUpgraded'
      BY <1>1, <1>5, <2>1, Moves DEF limiterVars
    <2> QED
      BY <1>3, <2>2 DEF IInv
  <1> QED
    BY <1>4, <1>5 DEF Accept

\* On the way out the place is given back once, and the gauge is lowered for those that
\* raised it.
LEMMA LeavesStep ==
    ASSUME IInv, NEW c \in Conns, Leaves(c)
    PROVE  IInv'
  <1>0. /\ TypeOK /\ SlotsExact /\ NotUpgraded /\ at \in [Conns -> Where]
        /\ client \in [Conns -> {"none", "up", "down"}] /\ upstream \in [Conns -> {"none", "up", "down"}]
        /\ active \in Nat /\ total \in Nat /\ perAgent \in [Agents -> Nat] /\ AgentOf[c] \in Agents
        /\ MaxConnections \in Nat /\ MaxConnectionsPerAgent \in Nat
    BY GatewayAssumption DEF IInv, SlotsExact, TypeOK
  <1>1. /\ at[c] = "leaving" /\ at' = [at EXCEPT ![c] = "gone"]
        /\ active' = IF client[c] = "none" THEN active ELSE active - 1
        /\ client' = [client EXCEPT ![c] = IF @ = "none" THEN @ ELSE "down"]
        /\ upstream' = [upstream EXCEPT ![c] = IF @ = "none" THEN @ ELSE "down"]
        /\ total' = total - 1 /\ perAgent' = [perAgent EXCEPT ![AgentOf[c]] = @ - 1]
    BY DEF Leaves, release
  <1>2. /\ toRunner' = [toRunner EXCEPT ![c] = << >>] /\ toClient' = [toClient EXCEPT ![c] = << >>]
        /\ pending' = [pending EXCEPT ![c] = 0] /\ sent' = [sent EXCEPT ![c] = 0]
        /\ takeovers' = [takeovers EXCEPT ![c] = 0] /\ grants' = [grants EXCEPT ![c] = 0]
        /\ UNCHANGED <<attach, thread, errs, ctx, holder>>
    BY DEF Leaves
  <1>3. /\ \A x \in Conns : at'[x] = IF x = c THEN "gone" ELSE at[x]
        /\ \A x \in Conns : client'[x] = "none" <=> client[x] = "none"
        /\ \A a \in Agents : perAgent'[a] = IF a = AgentOf[c] THEN perAgent[a] - 1 ELSE perAgent[a]
    BY <1>0, <1>1
  <1>4. c \in Placed /\ Placed' = Placed \ {c}
    BY <1>1, <1>3 DEF Placed
  <1>5. /\ \A a \in Agents : PlacedOf(a)' = PlacedOf(a) \ {c}
        /\ \A a \in Agents : c \in PlacedOf(a) <=> a = AgentOf[c]
        /\ Upgraded' = Upgraded \ {c}
        /\ c \in Upgraded <=> client[c] # "none"
    BY <1>3, <1>4, PlacedFinite DEF PlacedOf, Upgraded
  <1>6. /\ Cardinality(Placed') = Cardinality(Placed) - 1
        /\ Cardinality(Upgraded') = IF client[c] # "none" THEN Cardinality(Upgraded) - 1
                                    ELSE Cardinality(Upgraded)
        /\ \A a \in Agents : Cardinality(PlacedOf(a)') = IF a = AgentOf[c]
                                                         THEN Cardinality(PlacedOf(a)) - 1
                                                         ELSE Cardinality(PlacedOf(a))
    <2>1. Cardinality(Placed \ {c}) = Cardinality(Placed) - 1
      BY <1>4, PlacedFinite, FS_RemoveElement
    <2>2. Cardinality(Upgraded \ {c}) = IF c \in Upgraded THEN Cardinality(Upgraded) - 1
                                        ELSE Cardinality(Upgraded)
      BY PlacedFinite, FS_RemoveElement
    <2>3. ASSUME NEW a \in Agents
          PROVE  Cardinality(PlacedOf(a) \ {c}) = IF c \in PlacedOf(a)
                                                  THEN Cardinality(PlacedOf(a)) - 1
                                                  ELSE Cardinality(PlacedOf(a))
      BY PlacedFinite, FS_RemoveElement
    <2> QED
      BY <1>4, <1>5, <2>1, <2>2, <2>3
  <1>7. /\ Cardinality(Placed') \in Nat /\ Cardinality(Upgraded') \in Nat
        /\ \A a \in Agents : Cardinality(PlacedOf(a)') \in Nat
    <2>1. /\ IsFiniteSet(Placed \ {c}) /\ IsFiniteSet(Upgraded \ {c})
          /\ \A a \in Agents : IsFiniteSet(PlacedOf(a) \ {c})
      BY PlacedFinite, FS_RemoveElement
    <2> QED
      BY <1>4, <1>5, <2>1, FS_CardinalityType
  <1>8. total' = Cardinality(Placed') /\ total' \in Nat /\ total' <= MaxConnections
    <2>1. total = Cardinality(Placed) /\ total <= MaxConnections
      BY <1>0 DEF SlotsExact
    <2> QED
      BY <1>0, <1>1, <1>6, <1>7, <2>1
  <1>9. active' = Cardinality(Upgraded') /\ active' \in Nat
    <2>1. active = Cardinality(Upgraded)
      BY <1>0 DEF SlotsExact, Upgraded
    <2> QED
      BY <1>1, <1>6, <1>7, <2>1
  <1>10. ASSUME NEW a \in Agents
         PROVE  /\ perAgent'[a] = Cardinality(PlacedOf(a)') /\ perAgent'[a] \in Nat
                /\ perAgent'[a] <= MaxConnectionsPerAgent
    <2>1. perAgent[a] = Cardinality(PlacedOf(a)) /\ perAgent[a] <= MaxConnectionsPerAgent
          /\ perAgent[a] \in Nat
      BY <1>0 DEF SlotsExact, PlacedOf
    <2> QED
      BY <1>0, <1>3, <1>6, <1>7, <2>1
  <1>11. TypeOK'
    <2>1. /\ at' \in [Conns -> Where]
          /\ client' \in [Conns -> {"none", "up", "down"}]
          /\ upstream' \in [Conns -> {"none", "up", "down"}]
      BY <1>0, <1>1
    <2>2. perAgent' \in [Agents -> Nat]
      <3>1. perAgent' = [a \in Agents |-> perAgent'[a]]
        BY <1>0, <1>1
      <3> QED
        BY <1>10, <3>1
    <2>3. toRunner' \in [Conns -> Seq(Frame)] /\ toClient' \in [Conns -> Seq(Frame)]
      <3>1. << >> \in Seq(Frame)
        OBVIOUS
      <3> QED
        BY <1>0, <1>2, <3>1 DEF TypeOK
    <2>4. /\ pending' \in [Conns -> Nat] /\ takeovers' \in [Conns -> Nat] /\ sent' \in [Conns -> Nat]
          /\ grants' \in [Conns -> Nat]
      BY <1>0, <1>2 DEF TypeOK
    <2> QED
      BY <1>0, <1>2, <1>8, <1>9, <2>1, <2>2, <2>3, <2>4 DEF TypeOK
  <1>12. SlotsExact'
    BY <1>8, <1>9, <1>10, <1>11 DEF SlotsExact, PlacedOf, Upgraded
  <1>13. NotUpgraded'
    BY <1>0, <1>3 DEF NotUpgraded
  <1>14. GrantsAhead'
    <2>1. takeovers'[c] = 0 /\ toClient'[c] = << >> /\ grants'[c] = 0
          /\ \A x \in Conns : x # c => /\ takeovers'[x] = takeovers[x] /\ toClient'[x] = toClient[x]
                                       /\ grants'[x] = grants[x]
      BY <1>0, <1>2 DEF TypeOK
    <2>2. takeovers'[c] + Cardinality(Controls(toClient'[c])) <= grants'[c]
      BY <2>1, ControlsNone
    <2> QED
      BY <1>11, <2>1, <2>2, OneGrant
  <1> QED
    BY <1>12, <1>13, <1>14 DEF IInv

\* The steps of a handler between the upgrade and its return.
LEMMA HandlerStep ==
    ASSUME IInv, NEW c \in Conns, AttachRefused(c) \/ ReadsAttach(c) \/ Dials(c) \/ Receives(c)
    PROVE  IInv'
  <1>0. TypeOK /\ at \in [Conns -> Where]
    BY DEF IInv, SlotsExact, TypeOK
  <1>1. CASE AttachRefused(c)
    <2>1. /\ at[c] = "attaching" /\ at' = [at EXCEPT ![c] = "leaving"]
          /\ UNCHANGED <<limiterVars, client, upstream, toRunner, toClient, proxyVars, runnerVars>>
      BY <1>1 DEF AttachRefused
    <2>2. TypeOK'
      <3>1. at' \in [Conns -> Where]
        BY <1>0, <2>1
      <3> QED
        BY <1>0, <2>1, <3>1 DEF TypeOK, limiterVars, proxyVars, runnerVars
    <2>3. SlotsExact' /\ NotUpgraded'
      BY <2>1, <2>2, Moves
    <2>4. GrantsAhead'
      BY <2>1, NoGrant DEF proxyVars, runnerVars
    <2> QED
      BY <2>3, <2>4 DEF IInv
  <1>2. CASE ReadsAttach(c)
    <2>1. /\ at[c] = "attaching" /\ at' = [at EXCEPT ![c] = "dialing"]
          /\ UNCHANGED <<limiterVars, client, upstream, toRunner, toClient, thread, errs, ctx, pending,
                         takeovers, sent, runnerVars>>
      BY <1>2 DEF ReadsAttach
    <2>2. TypeOK'
      <3>1. at' \in [Conns -> Where]
        BY <1>0, <2>1
      <3>2. attach' \in [Conns -> Frame]
        <4>1. PICK f \in Frame : attach' = [attach EXCEPT ![c] = f]
          BY <1>2, FrameTypes DEF ReadsAttach
        <4> QED
          BY <1>0, <4>1 DEF TypeOK
      <3> QED
        BY <1>0, <2>1, <3>1, <3>2 DEF TypeOK, limiterVars, runnerVars
    <2>3. SlotsExact' /\ NotUpgraded'
      BY <2>1, <2>2, Moves
    <2>4. GrantsAhead'
      BY <2>1, NoGrant DEF runnerVars
    <2> QED
      BY <2>3, <2>4 DEF IInv
  <1>3. CASE Dials(c)
    <2>1. /\ at[c] = "dialing"
          /\ attach' = [attach EXCEPT ![c] = Simple("other")]
          /\ UNCHANGED <<limiterVars, client, toClient, errs, ctx, takeovers, sent, runnerVars>>
      BY <1>3 DEF Dials
    <2>2. PICK call \in {"proxy", "leaving"} : at' = [at EXCEPT ![c] = call]
      BY <1>3 DEF Dials
    <2>3. TypeOK'
      <3>1. at' \in [Conns -> Where]
        BY <1>0, <2>2
      <3>2. attach' \in [Conns -> Frame]
        BY <1>0, <2>1, FrameTypes DEF TypeOK
      <3>3. upstream' \in [Conns -> {"none", "up", "down"}]
        BY <1>0, <1>3 DEF Dials, TypeOK
      <3>4. toRunner' \in [Conns -> Seq(Frame)]
        <4>1. attach[c] \in Frame
          BY <1>0 DEF TypeOK
        <4>2. << attach[c] >> \in Seq(Frame)
          BY <4>1
        <4>3. toRunner' = [toRunner EXCEPT ![c] = << attach[c] >>] \/ toRunner' = toRunner
          BY <1>3 DEF Dials
        <4>4. toRunner \in [Conns -> Seq(Frame)]
          BY <1>0 DEF TypeOK
        <4> QED
          BY <4>2, <4>3, <4>4
      <3>5. thread' \in [Conns -> [Threads -> {"off", "runs", "done"}]]
        <4>1. thread' = [thread EXCEPT ![c] = [g \in Threads |-> "runs"]] \/ thread' = thread
          BY <1>3 DEF Dials
        <4>2. thread \in [Conns -> [Threads -> {"off", "runs", "done"}]]
              /\ [g \in Threads |-> "runs"] \in [Threads -> {"off", "runs", "done"}]
          BY <1>0 DEF TypeOK
        <4> QED
          BY <4>1, <4>2
      <3>6. pending' \in [Conns -> Nat]
        <4>1. (IF attach[c].takeover /\ c \in CanControl THEN 1 ELSE 0) \in Nat
          OBVIOUS
        <4> QED
          BY <1>0, <1>3, <4>1 DEF Dials, TypeOK
      <3> QED
        BY <1>0, <2>1, <3>1, <3>2, <3>3, <3>4, <3>5, <3>6 DEF TypeOK, limiterVars, runnerVars
    <2>4. SlotsExact' /\ NotUpgraded'
      BY <2>1, <2>2, <2>3, Moves
    <2>5. GrantsAhead'
      BY <2>1, NoGrant DEF runnerVars
    <2> QED
      BY <2>4, <2>5 DEF IInv
  <1>4. CASE Receives(c)
    <2>1. /\ at[c] = "proxy" /\ errs[c] > 0 /\ errs' = [errs EXCEPT ![c] = @ - 1]
          /\ ctx' = [ctx EXCEPT ![c] = "done"] /\ at' = [at EXCEPT ![c] = "leaving"]
          /\ UNCHANGED <<limiterVars, client, upstream, toRunner, toClient, thread, attach, pending,
                         takeovers, sent, runnerVars>>
      BY <1>4 DEF Receives
    <2>2. TypeOK'
      <3>1. at' \in [Conns -> Where] /\ ctx' \in [Conns -> {"live", "done"}]
        BY <1>0, <2>1 DEF TypeOK
      <3>2. errs' \in [Conns -> 0..3]
        <4>1. errs[c] \in 0..3
          BY <1>0 DEF TypeOK
        <4>2. errs[c] - 1 \in 0..3
          BY <2>1, <4>1
        <4> QED
          BY <1>0, <2>1, <4>2 DEF TypeOK
      <3> QED
        BY <1>0, <2>1, <3>1, <3>2 DEF TypeOK, limiterVars, runnerVars
    <2>3. SlotsExact' /\ NotUpgraded'
      BY <2>1, <2>2, Moves
    <2>4. GrantsAhead'
      BY <2>1, NoGrant DEF runnerVars
    <2> QED
      BY <2>3, <2>4 DEF IInv
  <1> QED
    BY <1>1, <1>2, <1>3, <1>4

-----------------------------------------------------------------------------
(* proxy.                                                                  *)

\* A goroutine that ends, or a context that is cancelled, moves no frame.
LEMMA ThreadStep ==
    ASSUME IInv, NEW c \in Conns,
           \/ MaxLifetime(c) \/ ReadClientFails(c) \/ ReadRunnerFails(c) \/ IdleTimeout(c)
           \/ IdleStops(c)
    PROVE  IInv'
  <1>0. TypeOK /\ "fwd" \in Threads /\ "back" \in Threads /\ "idle" \in Threads
    BY DEF IInv, SlotsExact, Threads
  <1>1. UNCHANGED <<limiterVars, at, client, upstream, toRunner, toClient, attach, pending,
                    takeovers, sent, runnerVars>>
    BY DEF MaxLifetime, ReadClientFails, ReadRunnerFails, IdleTimeout, IdleStops
  <1>2. ctx' \in [Conns -> {"live", "done"}]
    BY <1>0 DEF TypeOK, MaxLifetime, ReadClientFails, ReadRunnerFails, IdleTimeout, IdleStops
  <1>3. \E g \in Threads : \/ Fails(c, g) \/ UNCHANGED <<thread, errs>>
                           \/ (Goes(c, g, "done") /\ UNCHANGED errs)
    BY <1>0 DEF MaxLifetime, ReadClientFails, ReadRunnerFails, IdleTimeout, IdleStops
  <1>4. thread' \in [Conns -> [Threads -> {"off", "runs", "done"}]] /\ errs' \in [Conns -> 0..3]
    BY <1>0, <1>3, FailsType
  <1>5. TypeOK'
    BY <1>0, <1>1, <1>2, <1>4 DEF TypeOK, limiterVars, runnerVars
  <1> QED
    BY <1>1, <1>5, Stays, NoGrant DEF IInv, runnerVars

\* A frame of the client goes to the runner; what it asks for is only pending.
LEMMA ReadsClientStep ==
    ASSUME IInv, NEW c \in Conns, ReadsClient(c)
    PROVE  IInv'
  <1>0. TypeOK /\ "fwd" \in Threads
    BY DEF IInv, SlotsExact, Threads
  <1>1. /\ UNCHANGED <<limiterVars, at, client, upstream, toClient, attach, ctx, takeovers, runnerVars>>
        /\ sent' = [sent EXCEPT ![c] = @ + 1]
    BY DEF ReadsClient
  <1>2. PICK t \in {"takeover", "other"} :
          /\ pending' = [pending EXCEPT ![c] = IF t = "takeover" /\ c \in CanControl THEN @ + 1 ELSE @]
          /\ \/ /\ toRunner' = [toRunner EXCEPT ![c] = Append(@, Simple(t))]
                /\ UNCHANGED <<thread, errs>>
             \/ Fails(c, "fwd") /\ UNCHANGED toRunner
    BY DEF ReadsClient
  <1>3. thread' \in [Conns -> [Threads -> {"off", "runs", "done"}]] /\ errs' \in [Conns -> 0..3]
    BY <1>0, <1>2, FailsType
  <1>4. toRunner' \in [Conns -> Seq(Frame)]
    <2>1. toRunner \in [Conns -> Seq(Frame)] /\ toRunner[c] \in Seq(Frame) /\ Simple(t) \in Frame
      BY <1>0, FrameTypes DEF TypeOK
    <2>2. Append(toRunner[c], Simple(t)) \in Seq(Frame)
      BY <2>1
    <2> QED
      BY <1>2, <2>1, <2>2
  <1>5. sent' \in [Conns -> Nat] /\ pending' \in [Conns -> Nat]
    <2>1. /\ sent \in [Conns -> Nat] /\ pending \in [Conns -> Nat]
          /\ sent[c] \in Nat /\ pending[c] \in Nat
      BY <1>0 DEF TypeOK
    <2>2. sent[c] + 1 \in Nat /\ pending[c] + 1 \in Nat
      BY <2>1
    <2> QED
      BY <1>1, <1>2, <2>1, <2>2
  <1>6. TypeOK'
    BY <1>0, <1>1, <1>3, <1>4, <1>5 DEF TypeOK, limiterVars, runnerVars
  <1> QED
    BY <1>1, <1>6, Stays, NoGrant DEF IInv, runnerVars

\* A takeover is counted with a grant that is read, and each is read once.
LEMMA ReadsRunnerStep ==
    ASSUME IInv, NEW c \in Conns, ReadsRunner(c)
    PROVE  IInv'
  <1> DEFINE s == toClient[c]
             counts == Answers(c, Head(s))
  <1>0. TypeOK /\ "back" \in Threads
    BY DEF IInv, SlotsExact, Threads
  <1>1. /\ UNCHANGED <<limiterVars, at, client, upstream, toRunner, attach, ctx, sent, runnerVars>>
        /\ s # << >> /\ toClient' = [toClient EXCEPT ![c] = Tail(@)]
        /\ Fails(c, "back") \/ UNCHANGED <<thread, errs>>
        /\ IF counts THEN /\ pending' = [pending EXCEPT ![c] = @ - 1]
                          /\ takeovers' = [takeovers EXCEPT ![c] = @ + 1]
                     ELSE UNCHANGED <<pending, takeovers>>
    BY DEF ReadsRunner
  <1>2. thread' \in [Conns -> [Threads -> {"off", "runs", "done"}]] /\ errs' \in [Conns -> 0..3]
    BY <1>0, <1>1, FailsType
  <1>3. /\ toClient \in [Conns -> Seq(Frame)] /\ s \in Seq(Frame)
        /\ pending \in [Conns -> Nat] /\ takeovers \in [Conns -> Nat] /\ grants \in [Conns -> Nat]
        /\ pending[c] \in Nat /\ takeovers[c] \in Nat /\ grants[c] \in Nat
    BY <1>0 DEF TypeOK
  <1>4. toClient' \in [Conns -> Seq(Frame)] /\ toClient'[c] = Tail(s)
        /\ \A x \in Conns : x # c => toClient'[x] = toClient[x]
    <2>1. Tail(s) \in Seq(Frame)
      BY <1>1, <1>3
    <2> QED
      BY <1>1, <1>3, <2>1
  <1>5. /\ pending' \in [Conns -> Nat] /\ takeovers' \in [Conns -> Nat]
        /\ takeovers'[c] = IF counts THEN takeovers[c] + 1 ELSE takeovers[c]
        /\ \A x \in Conns : x # c => takeovers'[x] = takeovers[x]
    <2>1. counts => pending[c] - 1 \in Nat
      BY <1>3 DEF Answers
    <2>2. takeovers[c] + 1 \in Nat
      BY <1>3
    <2> QED
      BY <1>1, <1>3, <2>1, <2>2
  <1>6. TypeOK'
    BY <1>0, <1>1, <1>2, <1>4, <1>5 DEF TypeOK, limiterVars, runnerVars
  <1>7. takeovers'[c] + Cardinality(Controls(toClient'[c])) <= grants'[c]
    <2>1. takeovers[c] + Cardinality(Controls(s)) <= grants[c]
      BY DEF IInv, GrantsAhead
    <2>2. /\ Cardinality(Controls(s)) \in Nat /\ Cardinality(Controls(Tail(s))) \in Nat
          /\ Cardinality(Controls(Tail(s))) <= Cardinality(Controls(s))
          /\ counts => Cardinality(Controls(Tail(s))) + 1 <= Cardinality(Controls(s))
      BY <1>1, <1>3, ControlsTail DEF Answers
    <2>3. grants'[c] = grants[c]
      BY <1>1 DEF runnerVars
    <2> HIDE DEF counts, s
    <2> QED
      BY <1>3, <1>4, <1>5, <2>1, <2>2, <2>3
  <1>8. GrantsAhead'
    BY <1>1, <1>4, <1>5, <1>6, <1>7, OneGrant DEF runnerVars
  <1> QED
    BY <1>1, <1>6, <1>8, Stays DEF IInv

-----------------------------------------------------------------------------
(* The client, the network and the runner.                                 *)

\* A connection that is lost still counts until its handler returns.
LEMMA LossStep ==
    ASSUME IInv, NEW c \in Conns, ClientGone(c) \/ UpstreamLost(c) \/ RunnerDetaches(c)
    PROVE  IInv'
  <1>0. TypeOK
    BY DEF IInv, SlotsExact
  <1>1. UNCHANGED <<limiterVars, at, toClient, proxyVars, grants>>
    BY DEF ClientGone, UpstreamLost, RunnerDetaches, runnerVars
  <1>2. /\ client' \in [Conns -> {"none", "up", "down"}]
        /\ \A x \in Conns : client'[x] = "none" <=> client[x] = "none"
    <2>1. client \in [Conns -> {"none", "up", "down"}]
      BY <1>0 DEF TypeOK
    <2>2. \/ client[c] = "up" /\ client' = [client EXCEPT ![c] = "down"]
          \/ client' = client
      BY DEF ClientGone, UpstreamLost, RunnerDetaches
    <2> QED
      BY <2>1, <2>2
  <1>3. upstream' \in [Conns -> {"none", "up", "down"}]
    <2>1. upstream \in [Conns -> {"none", "up", "down"}]
      BY <1>0 DEF TypeOK
    <2>2. upstream' = [upstream EXCEPT ![c] = "down"] \/ upstream' = upstream
      BY DEF ClientGone, UpstreamLost, RunnerDetaches
    <2> QED
      BY <2>1, <2>2
  <1>4. toRunner' \in [Conns -> Seq(Frame)]
    <2>1. << >> \in Seq(Frame)
      OBVIOUS
    <2>2. toRunner' = [toRunner EXCEPT ![c] = << >>] \/ toRunner' = toRunner
      BY DEF ClientGone, UpstreamLost, RunnerDetaches
    <2>3. toRunner \in [Conns -> Seq(Frame)]
      BY <1>0 DEF TypeOK
    <2> QED
      BY <2>1, <2>2, <2>3
  <1>5. holder' \in [Agents -> Conns \cup {None, Elsewhere}]
    <2>1. holder \in [Agents -> Conns \cup {None, Elsewhere}]
      BY <1>0 DEF TypeOK
    <2>2. holder' = [holder EXCEPT ![AgentOf[c]] = None] \/ holder' = holder
      BY DEF ClientGone, UpstreamLost, RunnerDetaches, runnerVars
    <2> QED
      BY <2>1, <2>2
  <1>6. TypeOK'
    BY <1>0, <1>1, <1>2, <1>3, <1>4, <1>5 DEF TypeOK, limiterVars, proxyVars
  <1>7. SlotsExact'
    BY <1>1, <1>2, <1>6, Sits DEF IInv
  <1>8. NotUpgraded'
    BY <1>1, <1>2 DEF IInv, NotUpgraded
  <1>9. GrantsAhead'
    BY <1>1, NoGrant DEF proxyVars
  <1> QED
    BY <1>7, <1>8, <1>9 DEF IInv

\* The runner answers with one frame at most, and with a grant only when it counts one.
LEMMA RunnerReadsStep ==
    ASSUME IInv, NEW c \in Conns, RunnerReads(c)
    PROVE  IInv'
  <1> DEFINE s == toClient[c]
  <1>0. TypeOK /\ AgentOf[c] \in Agents
    BY GatewayAssumption DEF IInv, SlotsExact
  <1>1. /\ UNCHANGED <<limiterVars, at, client, proxyVars>>
        /\ toRunner[c] # << >> /\ toRunner' = [toRunner EXCEPT ![c] = Tail(@)]
    BY DEF RunnerReads
  <1>2. /\ toClient \in [Conns -> Seq(Frame)] /\ s \in Seq(Frame) /\ toRunner \in [Conns -> Seq(Frame)]
        /\ upstream \in [Conns -> {"none", "up", "down"}] /\ grants \in [Conns -> Nat]
        /\ takeovers[c] \in Nat /\ grants[c] \in Nat
        /\ holder \in [Agents -> Conns \cup {None, Elsewhere}]
    BY <1>0 DEF TypeOK
  <1>3. \/ Grants(c)
        \/ /\ \E f \in {Simple("other"), Attached("observe")} :
                 toClient' = [toClient EXCEPT ![c] = Append(@, f)]
           /\ upstream' = [upstream EXCEPT ![c] = "down"] \/ upstream' = upstream
           /\ UNCHANGED runnerVars
        \/ UNCHANGED <<toClient, upstream, runnerVars>>
    BY DEF RunnerReads
  <1>4. toRunner' \in [Conns -> Seq(Frame)]
    <2>1. Tail(toRunner[c]) \in Seq(Frame)
      BY <1>1, <1>2
    <2> QED
      BY <1>1, <1>2, <2>1
  <1>5. ASSUME NEW f \in Frame, toClient' = [toClient EXCEPT ![c] = Append(@, f)]
        PROVE  /\ toClient' \in [Conns -> Seq(Frame)] /\ toClient'[c] = Append(s, f)
               /\ \A x \in Conns : x # c => toClient'[x] = toClient[x]
    <2>1. Append(s, f) \in Seq(Frame)
      BY <1>2
    <2> QED
      BY <1>2, <1>5, <2>1
  <1>6. takeovers[c] + Cardinality(Controls(s)) <= grants[c]
    BY DEF IInv, GrantsAhead
  <1>7. CASE Grants(c)
    <2>1. /\ holder' = [holder EXCEPT ![AgentOf[c]] = c] /\ UNCHANGED upstream
          /\ grants' = [grants EXCEPT ![c] = @ + 1]
          /\ toClient' = [toClient EXCEPT ![c] = Append(@, Attached("control"))]
          /\ Attached("control") \in Frame
      BY <1>7, FrameTypes DEF Grants, Roles
    <2>2. /\ toClient' \in [Conns -> Seq(Frame)] /\ toClient'[c] = Append(s, Attached("control"))
          /\ \A x \in Conns : x # c => toClient'[x] = toClient[x]
      BY <1>5, <2>1
    <2>3. /\ grants' \in [Conns -> Nat] /\ grants'[c] = grants[c] + 1
          /\ \A x \in Conns : x # c => grants'[x] = grants[x]
      BY <1>2, <2>1
    <2>4. holder' \in [Agents -> Conns \cup {None, Elsewhere}]
      BY <1>0, <1>2, <2>1
    <2>5. TypeOK'
      BY <1>0, <1>1, <1>2, <1>4, <2>1, <2>2, <2>3, <2>4 DEF TypeOK, limiterVars, proxyVars
    <2>6. takeovers'[c] + Cardinality(Controls(toClient'[c])) <= grants'[c]
      <3>1. /\ Cardinality(Controls(s)) \in Nat
            /\ Cardinality(Controls(Append(s, Attached("control")))) \in Nat
            /\ Cardinality(Controls(Append(s, Attached("control")))) <= Cardinality(Controls(s)) + 1
        BY <1>2, <2>1, ControlsAppend
      <3>2. takeovers' = takeovers
        BY <1>1 DEF proxyVars
      <3> HIDE DEF s
      <3> QED
        BY <1>2, <1>6, <2>2, <2>3, <3>1, <3>2
    <2>7. GrantsAhead'
      BY <1>1, <2>2, <2>3, <2>5, <2>6, OneGrant DEF proxyVars
    <2> QED
      BY <1>1, <2>5, <2>7, Stays DEF IInv
  <1>8. CASE /\ \E f \in {Simple("other"), Attached("observe")} :
                   toClient' = [toClient EXCEPT ![c] = Append(@, f)]
             /\ upstream' = [upstream EXCEPT ![c] = "down"] \/ upstream' = upstream
             /\ UNCHANGED runnerVars
    <2>1. PICK f \in {Simple("other"), Attached("observe")} :
             toClient' = [toClient EXCEPT ![c] = Append(@, f)]
      BY <1>8
    <2>2. f \in Frame /\ (f.type # "attached" \/ f.role # "control")
      <3>1. f \in Frame
        BY FrameTypes DEF Roles
      <3> QED
        BY <3>1 DEF Simple, Attached
    <2>3. /\ toClient' \in [Conns -> Seq(Frame)] /\ toClient'[c] = Append(s, f)
          /\ \A x \in Conns : x # c => toClient'[x] = toClient[x]
      BY <1>5, <2>1, <2>2
    <2>4. upstream' \in [Conns -> {"none", "up", "down"}]
      BY <1>2, <1>8
    <2>5. TypeOK'
      BY <1>0, <1>1, <1>4, <1>8, <2>3, <2>4 DEF TypeOK, limiterVars, proxyVars, runnerVars
    <2>6. takeovers'[c] + Cardinality(Controls(toClient'[c])) <= grants'[c]
      <3>1. Controls(Append(s, f)) = Controls(s)
        BY <1>2, <2>2, ControlsAppend
      <3>2. takeovers' = takeovers /\ grants' = grants
        BY <1>1, <1>8 DEF proxyVars, runnerVars
      <3> QED
        BY <1>6, <2>3, <3>1, <3>2
    <2>7. GrantsAhead'
      BY <1>1, <1>8, <2>3, <2>5, <2>6, OneGrant DEF proxyVars, runnerVars
    <2> QED
      BY <1>1, <2>5, <2>7, Stays DEF IInv
  <1>9. CASE UNCHANGED <<toClient, upstream, runnerVars>>
    <2>1. TypeOK'
      BY <1>0, <1>1, <1>4, <1>9 DEF TypeOK, limiterVars, proxyVars, runnerVars
    <2> QED
      BY <1>1, <1>9, <2>1, Stays, NoGrant DEF IInv, proxyVars, runnerVars
  <1> QED
    BY <1>3, <1>7, <1>8, <1>9

-----------------------------------------------------------------------------
(* The theorems.                                                           *)

\* No step of a handler, of its proxy, of a client or of a runner breaks the invariant.
LEMMA NextIInv == IInv /\ [Next]_vars => IInv'
  <1> SUFFICES ASSUME IInv, [Next]_vars PROVE IInv'
    OBVIOUS
  <1>1. CASE UNCHANGED vars
    <2>1. TypeOK'
      BY <1>1 DEF IInv, SlotsExact, TypeOK, vars, limiterVars, proxyVars, runnerVars
    <2> QED
      BY <1>1, <2>1, Stays, NoGrant DEF IInv, vars, proxyVars, runnerVars
  <1>2. ASSUME NEW c \in Conns,
               \/ Serve(c) \/ Handler(c) \/ ReadsClient(c) \/ ReadClientFails(c) \/ Back(c)
               \/ IdleStops(c) \/ IdleTimeout(c) \/ MaxLifetime(c)
               \/ ClientGone(c) \/ UpstreamLost(c) \/ RunnerReads(c) \/ RunnerDetaches(c)
        PROVE  IInv'
    <2>1. CASE Handler(c)
      BY <2>1, AcceptStep, HandlerStep, LeavesStep DEF Handler
    <2>2. CASE Back(c)
      BY <2>2, ReadsRunnerStep, ThreadStep DEF Back
    <2>3. CASE ReadClientFails(c) \/ IdleStops(c) \/ IdleTimeout(c) \/ MaxLifetime(c)
      BY <2>3, ThreadStep
    <2>4. CASE ClientGone(c) \/ UpstreamLost(c) \/ RunnerDetaches(c)
      BY <2>4, LossStep
    <2> QED
      BY <1>2, <2>1, <2>2, <2>3, <2>4, ServeStep, ReadsClientStep, RunnerReadsStep
  <1> QED
    BY <1>1, <1>2 DEF Next

\* Hence the invariant always holds.
LEMMA IInvHolds == Spec => []IInv
  BY InitIInv, NextIInv, PTL DEF Spec

\* Whatever the limits, the connections and the order in which requests, proxies and
\* peers come and go, the limiter and the gauge count exactly the requests that are
\* there, no limit is exceeded and no counter goes below zero.
THEOREM SlotsAreExact == Spec => []SlotsExact
  <1>1. IInv => SlotsExact
    BY DEF IInv
  <1> QED
    BY <1>1, IInvHolds, PTL

\* No more takeovers are counted for a connection than the runner has granted it,
\* although any attached frame with control answers any pending takeover.
THEOREM TakeoversAreBacked == Spec => []TakeoversBacked
  <1>1. IInv => TakeoversBacked
    <2> SUFFICES ASSUME IInv, NEW c \in Conns PROVE takeovers[c] <= grants[c]
      BY DEF TakeoversBacked
    <2>1. takeovers[c] \in Nat /\ grants[c] \in Nat /\ toClient[c] \in Seq(Frame)
      BY DEF IInv, SlotsExact, TypeOK
    <2>2. Cardinality(Controls(toClient[c])) \in Nat
      BY <2>1, FrameTypes, ControlsAppend
    <2>3. takeovers[c] + Cardinality(Controls(toClient[c])) <= grants[c]
      BY DEF IInv, GrantsAhead
    <2> QED
      BY <2>1, <2>2, <2>3
  <1> QED
    BY <1>1, IInvHolds, PTL
=============================================================================
