-------------------------- MODULE ControllerProofs --------------------------
(***************************************************************************)
(* The controller's queue for any number of agents, workers and callers,   *)
(* any capacity and any retry budget: pending is exact, no agent is        *)
(* reconciled by two workers at once, and no announced change is lost.     *)
(***************************************************************************)
EXTENDS Controller, TLAPS

In(q, id) == \E i \in 1..Len(q) : q[i] = id
Once(q) == \A i, j \in 1..Len(q) : q[i] = q[j] => i = j

\* Whoever is past its first step has an agent.
Places ==
    /\ \A g \in Callers : cpc[g] # "idle" => cid[g] \in Agents
    /\ \A w \in Workers : wpc[w] # "select" => wid[w] \in Agents

IInv == TypeOK /\ Places /\ PendingExact

-----------------------------------------------------------------------------
\* Sending an id to the channel adds it and nothing else.
LEMMA AppendIn ==
    ASSUME NEW q \in Seq(Agents), NEW x \in Agents
    PROVE  /\ Append(q, x) \in Seq(Agents)
           /\ Len(Append(q, x)) = Len(q) + 1
           /\ \A id \in Agents : In(Append(q, x), id) <=> In(q, id) \/ id = x
           /\ Once(q) /\ ~In(q, x) => Once(Append(q, x))
<1> DEFINE r == Append(q, x)
<1>1. /\ r \in Seq(Agents) /\ Len(r) = Len(q) + 1 /\ Len(q) \in Nat
      /\ r[Len(q) + 1] = x
      /\ \A i \in 1..Len(q) : r[i] = q[i]
  OBVIOUS
<1>2. \A id \in Agents : In(r, id) <=> In(q, id) \/ id = x
  <2> SUFFICES ASSUME NEW id \in Agents PROVE In(r, id) <=> In(q, id) \/ id = x
    OBVIOUS
  <2> HIDE DEF r
  <2>1. ASSUME In(r, id) PROVE In(q, id) \/ id = x
    <3>1. PICK i \in 1..Len(r) : r[i] = id  BY <2>1 DEF In
    <3>2. CASE i = Len(q) + 1  BY <3>1, <3>2, <1>1
    <3>3. CASE i \in 1..Len(q)  BY <3>1, <3>3, <1>1 DEF In
    <3> QED BY <3>2, <3>3, <1>1
  <2>2. ASSUME In(q, id) PROVE In(r, id)
    <3>1. PICK i \in 1..Len(q) : q[i] = id  BY <2>2 DEF In
    <3>2. i \in 1..Len(r) /\ r[i] = id  BY <3>1, <1>1
    <3> QED BY <3>2 DEF In
  <2>3. ASSUME id = x PROVE In(r, id)
    <3>1. Len(q) + 1 \in 1..Len(r)  BY <1>1
    <3> QED BY <3>1, <2>3, <1>1 DEF In
  <2> QED BY <2>1, <2>2, <2>3
<1>3. ASSUME Once(q), ~In(q, x) PROVE Once(r)
  <2> SUFFICES ASSUME NEW i \in 1..Len(r), NEW j \in 1..Len(r), r[i] = r[j] PROVE i = j
    BY DEF Once
  <2> HIDE DEF r
  <2>1. CASE i \in 1..Len(q) /\ j \in 1..Len(q)  BY <2>1, <1>1, <1>3 DEF Once
  <2>2. CASE i = Len(q) + 1 /\ j \in 1..Len(q)  BY <2>2, <1>1, <1>3 DEF In
  <2>3. CASE i \in 1..Len(q) /\ j = Len(q) + 1  BY <2>3, <1>1, <1>3 DEF In
  <2> QED BY <2>1, <2>2, <2>3, <1>1
<1> QED BY <1>1, <1>2, <1>3

\* Receiving from the channel takes its head out, and nothing else.
LEMMA TailIn ==
    ASSUME NEW q \in Seq(Agents), q # << >>, Once(q)
    PROVE  /\ Head(q) \in Agents /\ In(q, Head(q))
           /\ Tail(q) \in Seq(Agents)
           /\ Len(Tail(q)) = Len(q) - 1 /\ Len(q) \in Nat
           /\ \A id \in Agents : In(Tail(q), id) <=> In(q, id) /\ id # Head(q)
           /\ Once(Tail(q))
<1> DEFINE r == Tail(q)
<1>1. /\ r \in Seq(Agents) /\ Len(r) = Len(q) - 1 /\ Len(q) \in Nat \ {0}
      /\ Head(q) = q[1] /\ Head(q) \in Agents
      /\ \A i \in 1..Len(r) : r[i] = q[i + 1]
  OBVIOUS
<1>2. In(q, Head(q))  BY <1>1 DEF In
<1>3. ASSUME NEW id \in Agents PROVE In(r, id) <=> In(q, id) /\ id # Head(q)
  <2> HIDE DEF r
  <2>1. ASSUME In(r, id) PROVE In(q, id) /\ id # Head(q)
    <3>1. PICK i \in 1..Len(r) : r[i] = id  BY <2>1 DEF In
    <3>2. i + 1 \in 1..Len(q) /\ q[i + 1] = id /\ i + 1 # 1 /\ 1 \in 1..Len(q)  BY <3>1, <1>1
    <3>3. q[i + 1] # q[1]  BY <3>2 DEF Once
    <3> QED BY <3>2, <3>3, <1>1 DEF In
  <2>2. ASSUME In(q, id), id # Head(q) PROVE In(r, id)
    <3>1. PICK i \in 1..Len(q) : q[i] = id  BY <2>2 DEF In
    <3>2. i - 1 \in 1..Len(r) /\ r[i - 1] = id  BY <3>1, <2>2, <1>1
    <3> QED BY <3>2 DEF In
  <2> QED BY <2>1, <2>2
<1>4. Once(r)
  <2> SUFFICES ASSUME NEW i \in 1..Len(r), NEW j \in 1..Len(r), r[i] = r[j] PROVE i = j
    BY DEF Once
  <2> HIDE DEF r
  <2>1. /\ i + 1 \in 1..Len(q) /\ j + 1 \in 1..Len(q)
        /\ q[i + 1] = q[j + 1]
    BY <1>1
  <2>2. i + 1 = j + 1  BY <2>1 DEF Once
  <2> QED BY <2>2, <1>1
<1> QED BY <1>1, <1>2, <1>3, <1>4

-----------------------------------------------------------------------------
\* PendingExact in the form the steps below use: per id, in terms of In.
Exact(id) ==
    /\ id \in pending <=>
          \/ \E g \in Callers : Sender(g, id)
          \/ In(queue, id)
          \/ \E w \in Workers : Holder(w, id)
    /\ \A g \in Callers : Sender(g, id) =>
          ~In(queue, id) /\ (\A w \in Workers : ~Holder(w, id))
                         /\ (\A k \in Callers : Sender(k, id) => k = g)
    /\ \A w \in Workers : Holder(w, id) =>
          ~In(queue, id) /\ (\A v \in Workers : Holder(v, id) => v = w)

\* The two forms agree.
LEMMA ExactForm ==
    ASSUME queue \in Seq(Agents)
    PROVE  PendingExact <=> (\A id \in Agents : Exact(id)) /\ Once(queue)
<1>1. \A i \in 1..Len(queue) : queue[i] \in Agents  OBVIOUS
<1> QED BY <1>1 DEF PendingExact, Exact, Once, Queued, In

\* The same, after a step.
LEMMA ExactFormNext ==
    ASSUME queue' \in Seq(Agents)
    PROVE  PendingExact' <=> (\A id \in Agents : Exact(id)') /\ Once(queue')
<1>1. \A i \in 1..Len(queue') : queue'[i] \in Agents  OBVIOUS
<1> QED BY <1>1 DEF PendingExact, Exact, Once, Queued, In

\* The initial state.
LEMMA InitIInv == Init => IInv
<1> SUFFICES ASSUME Init PROVE IInv
  OBVIOUS
<1>1. TypeOK  BY ControllerAssumption DEF Init, TypeOK
<1>2. Places  BY DEF Init, Places
<1>3. PendingExact  BY DEF Init, PendingExact, Sender, Holder, Queued
<1> QED BY <1>1, <1>2, <1>3 DEF IInv

\* The first critical section of Enqueue, whoever calls it.
LEMMA EnqueueStep ==
    ASSUME IInv, NEW g \in Callers, NEW id \in Agents, Enqueue(g, id),
           UNCHANGED <<retries, workerVars, agentVars>>,
           timers' \in [Agents -> 0..MaxTimers], todo' \subseteq Agents,
           UNCHANGED boundVars
    PROVE  IInv'
<1> USE DEF workerVars, agentVars, boundVars
<1>1. TypeOK'  BY DEF IInv, TypeOK, Enqueue, Marks
<1>2. Places'  BY DEF IInv, TypeOK, Places, Enqueue, Marks
<1>3. queue \in Seq(Agents) /\ queue' = queue  BY DEF IInv, TypeOK, Enqueue
<1>4. (\A x \in Agents : Exact(x)) /\ Once(queue)  BY <1>3, ExactForm DEF IInv
<1>5. ASSUME NEW x \in Agents PROVE Exact(x)'
  <2>1. CASE id \in pending
    <3>1. /\ UNCHANGED <<pending, cpc, cid, wpc, wid, queue>>  BY <2>1 DEF Enqueue, Marks
    <3> QED BY <3>1, <1>4 DEF Exact, Sender, Holder
  <2>2. CASE id \notin pending
    <3>1. /\ pending' = pending \cup {id}
          /\ \A k \in Callers : Sender(k, x)' <=> Sender(k, x) \/ (k = g /\ x = id)
          /\ \A w \in Workers : Holder(w, x)' <=> Holder(w, x)
          /\ ~Sender(g, x)
          /\ queue' = queue
      BY <2>2 DEF Enqueue, Marks, IInv, TypeOK, Sender, Holder
    <3>2. Exact(x) /\ Exact(id)  BY <1>4
    <3>3. CASE x = id
      <4>1. /\ ~In(queue, x)
            /\ \A k \in Callers : ~Sender(k, x)
            /\ \A w \in Workers : ~Holder(w, x)
        BY <3>2, <3>3, <2>2 DEF Exact
      <4> QED BY <4>1, <3>1, <3>3 DEF Exact
    <3>4. CASE x # id  BY <3>1, <3>2, <3>4 DEF Exact
    <3> QED BY <3>3, <3>4
  <2> QED BY <2>1, <2>2
<1> QED BY <1>1, <1>2, <1>3, <1>4, <1>5, ExactFormNext DEF IInv

\* The channel takes the id of a caller, or it is full.
LEMMA SendStep ==
    ASSUME IInv, NEW g \in Callers, Send(g)
    PROVE  IInv'
<1> USE DEF workerVars, agentVars, boundVars
<1> DEFINE id == cid[g]
<1>0. id \in Agents /\ queue \in Seq(Agents) /\ Len(queue) \in Nat
  BY DEF IInv, TypeOK, Places, Send
<1>1. queue' \in Seq(Agents) /\ Len(queue') <= QueueCap
  <2>1. CASE Len(queue) < QueueCap
    <3>1. queue' = Append(queue, id)  BY <2>1 DEF Send
    <3>2. queue' \in Seq(Agents) /\ Len(queue') = Len(queue) + 1  BY <3>1, <1>0, AppendIn
    <3> QED BY <3>2, <2>1, <1>0, ControllerAssumption
  <2>2. CASE ~(Len(queue) < QueueCap)  BY <2>2, <1>0 DEF Send, IInv, TypeOK
  <2> QED BY <2>1, <2>2
<1>2. TypeOK'  BY <1>1 DEF IInv, TypeOK, Send
<1>3. Places'  BY DEF IInv, TypeOK, Places, Send
<1>4. (\A x \in Agents : Exact(x)) /\ Once(queue)  BY <1>0, ExactForm DEF IInv
<1>5. CASE Len(queue) < QueueCap
  <2>1. queue' = Append(queue, id) /\ pending' = pending  BY <1>5 DEF Send
  <2>2. Sender(g, id) /\ ~In(queue, id)  BY <1>0, <1>4 DEF Send, Sender, Exact
  <2>3. Once(queue')  BY <2>1, <2>2, <1>0, <1>4, AppendIn
  <2>4. ASSUME NEW x \in Agents PROVE Exact(x)'
    <3>1. In(queue', x) <=> In(queue, x) \/ x = id  BY <2>1, <1>0, AppendIn
    <3>2. \A k \in Callers : Sender(k, x)' <=> Sender(k, x) /\ k # g
      BY <1>5 DEF Send, IInv, TypeOK, Sender
    <3>3. \A w \in Workers : Holder(w, x)' <=> Holder(w, x)  BY DEF Send, Holder
    <3>4. Exact(x) /\ Exact(id)  BY <1>0, <1>4
    <3>5. Sender(g, x) <=> x = id  BY DEF Send, Sender
    <3>6. CASE x = id
      <4>1. /\ x \in pending
            /\ \A w \in Workers : ~Holder(w, x)
            /\ \A k \in Callers : Sender(k, x) => k = g
        BY <3>4, <3>5, <3>6 DEF Exact
      <4> QED BY <4>1, <3>1, <3>2, <3>3, <3>6, <2>1 DEF Exact
    <3>7. CASE x # id
      <4>1. /\ In(queue', x) <=> In(queue, x)
            /\ \A k \in Callers : Sender(k, x)' <=> Sender(k, x)
        BY <3>1, <3>2, <3>5, <3>7
      <4> QED BY <4>1, <3>3, <3>4, <2>1 DEF Exact
    <3> QED BY <3>6, <3>7
  <2> QED BY <2>3, <2>4, <1>1, <1>2, <1>3, ExactFormNext DEF IInv
<1>6. CASE ~(Len(queue) < QueueCap)
  <2>1. UNCHANGED <<queue, pending, cid, wpc, wid>>  BY <1>6 DEF Send
  <2>2. ASSUME NEW x \in Agents PROVE Exact(x)'
    <3>1. /\ \A k \in Callers : Sender(k, x)' <=> Sender(k, x)
          /\ \A w \in Workers : Holder(w, x)' <=> Holder(w, x)
      BY <1>6 DEF Send, IInv, TypeOK, Sender, Holder
    <3> QED BY <3>1, <2>1, <1>4 DEF Exact
  <2> QED BY <2>1, <2>2, <1>0, <1>2, <1>3, <1>4, ExactFormNext DEF IInv
<1> QED BY <1>5, <1>6

\* A dropped id is nowhere and not pending.
LEMMA DropStep ==
    ASSUME IInv, NEW g \in Callers, Drops(g)
    PROVE  IInv'
<1> USE DEF workerVars, agentVars, boundVars
<1> DEFINE id == cid[g]
<1>0. id \in Agents /\ queue \in Seq(Agents) /\ queue' = queue
  BY DEF IInv, TypeOK, Places, Drops
<1>1. TypeOK'  BY <1>0 DEF IInv, TypeOK, Drops
<1>2. Places'  BY DEF IInv, TypeOK, Places, Drops
<1>3. (\A x \in Agents : Exact(x)) /\ Once(queue)  BY <1>0, ExactForm DEF IInv
<1>4. ASSUME NEW x \in Agents PROVE Exact(x)'
  <2>1. /\ pending' = pending \ {id}
        /\ \A k \in Callers : Sender(k, x)' <=> Sender(k, x) /\ k # g
        /\ \A w \in Workers : Holder(w, x)' <=> Holder(w, x)
        /\ Sender(g, x) <=> x = id
    BY DEF Drops, IInv, TypeOK, Sender, Holder
  <2>2. Exact(x)  BY <1>3
  <2>3. CASE x = id
    <3>1. /\ ~In(queue, x)
          /\ \A w \in Workers : ~Holder(w, x)
          /\ \A k \in Callers : Sender(k, x) => k = g
      BY <2>1, <2>2, <2>3 DEF Exact
    <3> QED BY <3>1, <2>1, <2>3, <1>0 DEF Exact
  <2>4. CASE x # id
    <3>1. \A k \in Callers : Sender(k, x)' <=> Sender(k, x)  BY <2>1, <2>4
    <3> QED BY <3>1, <2>1, <2>2, <2>4, <1>0 DEF Exact
  <2> QED BY <2>3, <2>4
<1> QED BY <1>0, <1>1, <1>2, <1>3, <1>4, ExactFormNext DEF IInv

\* A worker receives the head of the channel.
LEMMA TakeStep ==
    ASSUME IInv, NEW w \in Workers, Take(w)
    PROVE  IInv'
<1> USE DEF workerVars, agentVars, boundVars
<1> DEFINE id == Head(queue)
<1>0. queue \in Seq(Agents) /\ queue # << >> /\ queue' = Tail(queue)
  BY DEF IInv, TypeOK, Take
<1>1. (\A x \in Agents : Exact(x)) /\ Once(queue)  BY <1>0, ExactForm DEF IInv
<1>2. /\ id \in Agents /\ In(queue, id)
      /\ queue' \in Seq(Agents) /\ Len(queue') = Len(queue) - 1 /\ Len(queue) \in Nat
      /\ \A x \in Agents : In(queue', x) <=> In(queue, x) /\ x # id
      /\ Once(queue')
  BY <1>0, <1>1, TailIn
<1>3. TypeOK'
  <2>1. Len(queue') <= QueueCap  BY <1>2, ControllerAssumption DEF IInv, TypeOK
  <2>2. wid' \in [Workers -> Agents \cup {NoAgent}]  BY <1>2 DEF IInv, TypeOK, Take
  <2>3. wpc' \in [Workers -> {"select", "took", "reconciling", "requeue", "exhausted", "marking"}]
    BY DEF IInv, TypeOK, Take
  <2> HIDE DEF id
  <2> QED BY <2>1, <2>2, <2>3, <1>2 DEF IInv, TypeOK, Take
<1>4. Places'  BY <1>2 DEF IInv, TypeOK, Places, Take
<1>5. ASSUME NEW x \in Agents PROVE Exact(x)'
  <2>1. /\ pending' = pending
        /\ \A k \in Callers : Sender(k, x)' <=> Sender(k, x)
        /\ \A v \in Workers : Holder(v, x)' <=> Holder(v, x) \/ (v = w /\ x = id)
        /\ ~Holder(w, x)
    BY DEF Take, IInv, TypeOK, Sender, Holder
  <2>2. Exact(x)  BY <1>1
  <2>3. In(queue', x) <=> In(queue, x) /\ x # id  BY <1>2
  <2> HIDE DEF id
  <2>4. CASE x = id
    <3>1. /\ x \in pending
          /\ \A k \in Callers : ~Sender(k, x)
          /\ \A v \in Workers : ~Holder(v, x)
      BY <2>2, <2>4, <1>2 DEF Exact
    <3> QED BY <3>1, <2>1, <2>3, <2>4 DEF Exact
  <2>5. CASE x # id
    <3>1. /\ In(queue', x) <=> In(queue, x)
          /\ \A v \in Workers : Holder(v, x)' <=> Holder(v, x)
      BY <2>1, <2>3, <2>5
    <3> QED BY <3>1, <2>1, <2>2 DEF Exact
  <2> QED BY <2>4, <2>5
<1> QED BY <1>2, <1>3, <1>4, <1>5, ExactFormNext DEF IInv

\* A worker lets go of its id, and the id is no longer pending.
LEMMA ReleaseExact ==
    ASSUME IInv, NEW w \in Workers, Holder(w, wid[w]), wid[w] \in Agents,
           UNCHANGED <<queue, cpc, cid>>,
           pending' = pending \ {wid[w]},
           \A x \in Agents : \A v \in Workers : Holder(v, x)' <=> Holder(v, x) /\ v # w
    PROVE  PendingExact'
<1>0. queue \in Seq(Agents)  BY DEF IInv, TypeOK
<1>1. (\A x \in Agents : Exact(x)) /\ Once(queue)  BY <1>0, ExactForm DEF IInv
<1>2. ASSUME NEW x \in Agents PROVE Exact(x)'
  <2>1. Exact(x)  BY <1>1
  <2>2. \A k \in Callers : Sender(k, x)' <=> Sender(k, x)  BY DEF Sender
  <2>3. \A v \in Workers : Holder(v, x)' <=> Holder(v, x) /\ v # w  OBVIOUS
  <2>4. CASE x = wid[w]
    <3>1. /\ ~In(queue, x)
          /\ \A k \in Callers : ~Sender(k, x)
          /\ \A v \in Workers : Holder(v, x) => v = w
      BY <2>1, <2>4 DEF Exact
    <3> QED BY <3>1, <2>2, <2>3, <2>4 DEF Exact
  <2>5. CASE x # wid[w]
    <3>1. \A v \in Workers : Holder(v, x)' <=> Holder(v, x)  BY <2>3, <2>5 DEF Holder
    <3> QED BY <3>1, <2>1, <2>2, <2>5 DEF Exact
  <2> QED BY <2>4, <2>5
<1> QED BY <1>0, <1>1, <1>2, ExactFormNext

\* A step that moves no id from its place.
LEMMA SameExact ==
    ASSUME IInv, UNCHANGED <<queue, pending, cpc, cid>>,
           \A x \in Agents : \A v \in Workers : Holder(v, x)' <=> Holder(v, x)
    PROVE  PendingExact'
<1>0. queue \in Seq(Agents)  BY DEF IInv, TypeOK
<1>1. (\A x \in Agents : Exact(x)) /\ Once(queue)  BY <1>0, ExactForm DEF IInv
<1>2. ASSUME NEW x \in Agents PROVE Exact(x)'
  <2>1. Exact(x)  BY <1>1
  <2>2. /\ \A k \in Callers : Sender(k, x)' <=> Sender(k, x)
        /\ \A v \in Workers : Holder(v, x)' <=> Holder(v, x)
    BY DEF Sender
  <2> QED BY <2>1, <2>2 DEF Exact
<1> QED BY <1>0, <1>1, <1>2, ExactFormNext

\* Everything a worker does after it has received an id.
LEMMA WorkerStep ==
    ASSUME IInv, NEW w \in Workers, WorkerNext(w)
    PROVE  IInv'
<1> USE DEF enqueueVars, workerVars, agentVars, boundVars
<1>1. CASE Take(w)  BY <1>1, TakeStep
<1>2. CASE Reads(w)
  <2>1. TypeOK'  BY <1>2 DEF IInv, TypeOK, Places, Reads
  <2>2. Places'  BY <1>2 DEF IInv, TypeOK, Places, Reads
  <2>3. \A x \in Agents : \A v \in Workers : Holder(v, x)' <=> Holder(v, x)
    BY <1>2 DEF IInv, TypeOK, Reads, Holder
  <2>4. PendingExact'  BY <1>2, <2>3, SameExact DEF Reads
  <2> QED BY <2>1, <2>2, <2>4 DEF IInv
<1>3. CASE Succeeds(w)
  <2>0. wid[w] \in Agents /\ Holder(w, wid[w])
    BY <1>3 DEF IInv, Places, Succeeds, Holder
  <2>1. TypeOK'
    <3>1. /\ pending' \subseteq Agents /\ dirty' \subseteq Agents
          /\ wpc' \in [Workers -> {"select", "took", "reconciling", "requeue", "exhausted", "marking"}]
          /\ wid' \in [Workers -> Agents \cup {NoAgent}]
      BY <1>3 DEF IInv, TypeOK, Succeeds, Finishes
    <3>2. /\ retries' \in [Agents -> Nat] /\ done' \in [Agents -> Nat]
          /\ failed' \subseteq Agents /\ read' \in [Workers -> Nat]
      BY <1>3, <2>0 DEF IInv, TypeOK, Succeeds
    <3> QED BY <3>1, <3>2, <1>3 DEF IInv, TypeOK, Succeeds
  <2>2. Places'  BY <1>3, <2>0 DEF IInv, TypeOK, Places, Succeeds, Finishes
  <2>3. PendingExact'
    <3>1. CASE wid[w] \in dirty
      <4>1. /\ UNCHANGED <<queue, pending, cpc, cid>>
            /\ \A x \in Agents : \A v \in Workers : Holder(v, x)' <=> Holder(v, x)
        BY <3>1, <1>3 DEF IInv, TypeOK, Succeeds, Finishes, Holder
      <4> QED BY <4>1, SameExact
    <3>2. CASE wid[w] \notin dirty
      <4>1. /\ UNCHANGED <<queue, cpc, cid>> /\ pending' = pending \ {wid[w]}
            /\ \A x \in Agents : \A v \in Workers : Holder(v, x)' <=> Holder(v, x) /\ v # w
        BY <3>2, <1>3 DEF IInv, TypeOK, Succeeds, Finishes, Holder
      <4> QED BY <4>1, <2>0, ReleaseExact
    <3> QED BY <3>1, <3>2
  <2> QED BY <2>1, <2>2, <2>3 DEF IInv
<1>4. CASE Requeues(w)
  <2> DEFINE id == wid[w]
  <2>0. id \in Agents /\ Holder(w, id) /\ queue \in Seq(Agents) /\ queue' = Append(queue, id)
        /\ Len(queue) \in Nat /\ Len(queue) < QueueCap
    BY <1>4 DEF IInv, TypeOK, Places, Requeues, Holder
  <2>1. (\A x \in Agents : Exact(x)) /\ Once(queue)  BY <2>0, ExactForm DEF IInv
  <2>2. ~In(queue, id)  BY <2>0, <2>1 DEF Exact
  <2>3. queue' \in Seq(Agents) /\ Len(queue') = Len(queue) + 1 /\ Once(queue')
    BY <2>0, <2>1, <2>2, AppendIn
  <2>4. TypeOK'
    <3>1. Len(queue') <= QueueCap  BY <2>0, <2>3, ControllerAssumption
    <3> QED BY <3>1, <2>3, <1>4 DEF IInv, TypeOK, Requeues
  <2>5. Places'  BY <1>4 DEF IInv, TypeOK, Places, Requeues
  <2>6. ASSUME NEW x \in Agents PROVE Exact(x)'
    <3>1. In(queue', x) <=> In(queue, x) \/ x = id  BY <2>0, AppendIn
    <3>2. /\ \A k \in Callers : Sender(k, x)' <=> Sender(k, x)
          /\ \A v \in Workers : Holder(v, x)' <=> Holder(v, x) /\ v # w
          /\ Holder(w, x) <=> x = id
          /\ pending' = pending
      BY <1>4 DEF IInv, TypeOK, Requeues, Sender, Holder
    <3>3. Exact(x)  BY <2>1
    <3>4. CASE x = id
      <4>1. /\ x \in pending
            /\ \A k \in Callers : ~Sender(k, x)
            /\ \A v \in Workers : Holder(v, x) => v = w
        BY <3>2, <3>3, <3>4 DEF Exact
      <4> QED BY <4>1, <3>1, <3>2, <3>4 DEF Exact
    <3>5. CASE x # id
      <4>1. /\ In(queue', x) <=> In(queue, x)
            /\ \A v \in Workers : Holder(v, x)' <=> Holder(v, x)
        BY <3>1, <3>2, <3>5
      <4> QED BY <4>1, <3>2, <3>3 DEF Exact
    <3> QED BY <3>4, <3>5
  <2> QED BY <2>3, <2>4, <2>5, <2>6, ExactFormNext DEF IInv
<1>5. CASE FailsAndRetries(w) \/ FailsForGood(w)
  <2>1. PICK id \in Agents : Gives(w, id)  BY <1>5 DEF FailsAndRetries, FailsForGood
  <2>2. id = wid[w] /\ Holder(w, wid[w]) /\ UNCHANGED <<queue, cpc, cid>>
        /\ pending' = pending \ {wid[w]}
    BY <2>1 DEF Gives, Holder
  <2>3. \/ /\ timers[id] < MaxTimers /\ timers' = [timers EXCEPT ![id] = @ + 1]
           /\ wpc' = [wpc EXCEPT ![w] = "select"] /\ wid' = [wid EXCEPT ![w] = NoAgent]
           /\ told' = told
        \/ /\ wpc' = [wpc EXCEPT ![w] = "exhausted"] /\ wid' = wid /\ timers' = timers
           /\ told' = [told EXCEPT ![id] = done[id]]
    BY <1>5, <2>2 DEF FailsAndRetries, FailsForGood, Gives
  <2>4. TypeOK'
    <3>1. /\ wpc' \in [Workers -> {"select", "took", "reconciling", "requeue", "exhausted", "marking"}]
          /\ wid' \in [Workers -> Agents \cup {NoAgent}]
          /\ told' \in [Agents -> Nat]
      BY <2>3 DEF IInv, TypeOK
    <3>2. timers' \in [Agents -> 0..MaxTimers]
      <4>1. timers[id] \in 0..MaxTimers /\ timers \in [Agents -> 0..MaxTimers]  BY DEF IInv, TypeOK
      <4>2. timers[id] < MaxTimers => timers[id] + 1 \in 0..MaxTimers  BY <4>1, ControllerAssumption
      <4> QED BY <4>1, <4>2, <2>3
    <3>3. /\ retries' \in [Agents -> Nat] /\ read' \in [Workers -> Nat]
          /\ pending' \subseteq Agents /\ dirty' \subseteq Agents
          /\ failures' \in Nat
      BY <2>1 DEF Gives, IInv, TypeOK
    <3> QED BY <3>1, <3>2, <3>3, <2>1 DEF Gives, IInv, TypeOK
  <2>5. Places'  BY <2>1, <2>3 DEF Gives, IInv, TypeOK, Places
  <2>6. \A x \in Agents : \A v \in Workers : Holder(v, x)' <=> Holder(v, x) /\ v # w
    BY <2>1, <2>3 DEF IInv, TypeOK, Holder
  <2>7. PendingExact'  BY <2>1, <2>2, <2>6, ReleaseExact
  <2> QED BY <2>4, <2>5, <2>7 DEF IInv
<1>6. CASE MarkReads(w) \/ MarkWrites(w)
  <2>1. TypeOK'  BY <1>6 DEF IInv, TypeOK, Places, MarkReads, MarkWrites
  <2>2. Places'  BY <1>6 DEF IInv, TypeOK, Places, MarkReads, MarkWrites
  <2>3. \A x \in Agents : \A v \in Workers : Holder(v, x)' <=> Holder(v, x)
    BY <1>6 DEF IInv, TypeOK, MarkReads, MarkWrites, Holder
  <2>4. PendingExact'  BY <1>6, <2>3, SameExact DEF MarkReads, MarkWrites
  <2> QED BY <2>1, <2>2, <2>4 DEF IInv
<1> QED BY <1>1, <1>2, <1>3, <1>4, <1>5, <1>6 DEF WorkerNext

\* Callers, the resync loop, changes and restarts.
LEMMA CallerStep ==
    ASSUME IInv, CallerNext
    PROVE  IInv'
<1> USE DEF enqueueVars, workerVars, agentVars, boundVars
<1>1. ASSUME NEW id \in Agents, Change(id) PROVE IInv'
  <2>1. TypeOK' /\ Places'  BY <1>1 DEF IInv, TypeOK, Places, Change
  <2>2. PendingExact'  BY <1>1, SameExact DEF Change, Holder
  <2> QED BY <2>1, <2>2 DEF IInv
<1>2. ASSUME NEW id \in Agents, ResyncNext(id) PROVE IInv'
  <2>1. /\ ResyncLoop \in Callers /\ Enqueue(ResyncLoop, id)
        /\ timers' \in [Agents -> 0..MaxTimers] /\ todo' \subseteq Agents
    BY <1>2, ControllerAssumption DEF ResyncNext, IInv, TypeOK
  <2> QED BY <2>1, <1>2, EnqueueStep DEF ResyncNext
<1>3. ASSUME NEW g \in Callers, NEW id \in Agents, Notify(g, id) PROVE IInv'
  <2>1. Enqueue(g, id) /\ timers' \in [Agents -> 0..MaxTimers] /\ todo' \subseteq Agents
    BY <1>3 DEF Notify, IInv, TypeOK
  <2> QED BY <2>1, <1>3, EnqueueStep DEF Notify
<1>4. ASSUME NEW g \in Callers, NEW id \in Agents, RetryFires(g, id) PROVE IInv'
  <2>1. Enqueue(g, id) /\ timers' \in [Agents -> 0..MaxTimers] /\ todo' \subseteq Agents
    BY <1>4, ControllerAssumption DEF RetryFires, IInv, TypeOK
  <2> QED BY <2>1, <1>4, EnqueueStep DEF RetryFires
<1>5. CASE ResyncTick
  <2>1. TypeOK' /\ Places'  BY <1>5 DEF IInv, TypeOK, Places, ResyncTick
  <2>2. PendingExact'  BY <1>5, SameExact DEF ResyncTick, Holder
  <2> QED BY <2>1, <2>2 DEF IInv
<1>6. CASE Restart
  <2>1. TypeOK' /\ Places'  BY <1>6, ControllerAssumption DEF IInv, TypeOK, Places, Restart, Afresh
  <2>2. PendingExact'
    BY <1>6 DEF Restart, Afresh, PendingExact, Sender, Holder, Queued
  <2> QED BY <2>1, <2>2 DEF IInv
<1> QED BY <1>1, <1>2, <1>3, <1>4, <1>5, <1>6, SendStep, DropStep DEF CallerNext

\* IInv is inductive.
LEMMA NextIInv == IInv /\ [Next]_vars => IInv'
<1> SUFFICES ASSUME IInv, [Next]_vars PROVE IInv'
  OBVIOUS
<1>1. CASE CallerNext  BY <1>1, CallerStep
<1>2. ASSUME NEW w \in Workers, WorkerNext(w) PROVE IInv'  BY <1>2, WorkerStep
<1>3. CASE UNCHANGED vars
  <2> USE <1>3 DEF vars, enqueueVars, workerVars, agentVars, boundVars
  <2>1. TypeOK' /\ Places'  BY DEF IInv, TypeOK, Places
  <2>2. PendingExact'  BY SameExact DEF Holder
  <2> QED BY <2>1, <2>2 DEF IInv
<1> QED BY <1>1, <1>2, <1>3 DEF Next

\* IInv holds throughout.
LEMMA Invariance == Spec => []IInv
BY InitIInv, NextIInv, PTL DEF Spec

\* The types, and a channel within its capacity.
THEOREM TypeCorrect == Spec => []TypeOK
<1>1. IInv => TypeOK  BY DEF IInv
<1> QED BY <1>1, Invariance, PTL

\* pending is exact, for any number of agents, workers, callers and restarts.
THEOREM PendingIsExact == Spec => []PendingExact
<1>1. IInv => PendingExact  BY DEF IInv
<1> QED BY <1>1, Invariance, PTL

\* No two workers ever reconcile the same agent at once.
THEOREM ReconcilesAreExclusive == Spec => []OneReconcilePerAgent
<1>1. IInv => OneReconcilePerAgent
  BY DEF IInv, Places, PendingExact, OneReconcilePerAgent, Holder
<1> QED BY <1>1, Invariance, PTL

-----------------------------------------------------------------------------
(* No lost wakeup.  Versions only grow, and a running reconciliation has   *)
(* read one that is no older than what has been done: this needs           *)
(* OneReconcilePerAgent, or a slow worker would set `done' back.           *)

Ordered ==
    /\ \A id \in Agents : told[id] <= version[id] /\ done[id] <= version[id]
    /\ \A w \in Workers : wpc[w] = "reconciling" =>
          done[wid[w]] <= read[w] /\ read[w] <= version[wid[w]]

WInv == Ordered /\ NoLostWakeup

\* The ways in which an id is going to be reconciled, apart from a worker.
Elsewhere(id) ==
    \/ id \in todo \/ timers[id] > 0 \/ In(queue, id)
    \/ \E g \in Callers : Sender(g, id)

\* A worker that will read the id, or has read all that was announced.
AtWork(id) ==
    \E w \in Workers :
        /\ wid[w] = id
        /\ \/ wpc[w] \in {"took", "requeue"}
           \/ wpc[w] = "reconciling" /\ (id \in dirty \/ read[w] >= told[id])

\* WillRun in these two parts.
LEMMA WillRunForm == \A id \in Agents : WillRun(id) <=> Elsewhere(id) \/ AtWork(id)
BY DEF WillRun, Elsewhere, AtWork, Queued, In, Sender

\* The same, after a step.
LEMMA WillRunFormNext ==
    \A id \in Agents : WillRun(id)' <=> Elsewhere(id)' \/ AtWork(id)'
BY DEF WillRun, Elsewhere, AtWork, Queued, In, Sender

\* The initial state: the first resync has every agent to do.
LEMMA InitWInv == Init => WInv
BY DEF Init, WInv, Ordered, NoLostWakeup, WillRun

\* Announcing an id: it goes to the channel, or whoever has it sees it dirty.
LEMMA EnqueueWakes ==
    ASSUME IInv, WInv, NEW g \in Callers, NEW id \in Agents, Enqueue(g, id),
           UNCHANGED <<workerVars, agentVars>>,
           \A x \in Agents \ {id} : timers'[x] = timers[x] /\ (x \in todo' <=> x \in todo)
    PROVE  WInv'
<1> USE DEF workerVars, agentVars
<1>0. queue \in Seq(Agents)  BY DEF IInv, TypeOK
<1>1. Ordered'  BY DEF WInv, Ordered, Enqueue, IInv, TypeOK
<1>2. \A x \in Agents : Exact(x)  BY <1>0, ExactForm DEF IInv
<1>3. ASSUME NEW x \in Agents, told'[x] > done'[x] PROVE WillRun(x)'
  <2>1. CASE x # id
    <3>1. told[x] > done[x]  BY <1>3, <2>1 DEF Enqueue, IInv, TypeOK
    <3>2. Elsewhere(x) \/ AtWork(x)  BY <3>1, WillRunForm DEF WInv, NoLostWakeup
    <3>3. Elsewhere(x) => Elsewhere(x)'
      BY <2>1 DEF Elsewhere, Sender, Enqueue, Marks, IInv, TypeOK
    <3>4. AtWork(x) => AtWork(x)'
      BY <2>1 DEF AtWork, Enqueue, Marks, IInv, TypeOK
    <3> QED BY <3>2, <3>3, <3>4, WillRunFormNext
  <2>2. CASE x = id /\ id \notin pending
    <3>1. Sender(g, x)'  BY <2>2 DEF Enqueue, Marks, Sender, IInv, TypeOK
    <3> QED BY <3>1, WillRunFormNext DEF Elsewhere
  <2>3. CASE x = id /\ id \in pending
    <3>1. \/ \E k \in Callers : Sender(k, x)
          \/ In(queue, x)
          \/ \E w \in Workers : Holder(w, x)
      BY <2>3, <1>2 DEF Exact
    <3>2. UNCHANGED <<queue, cpc, cid>> /\ x \in dirty'  BY <2>3 DEF Enqueue, Marks
    <3>3. CASE (\E k \in Callers : Sender(k, x)) \/ In(queue, x)
      <4>1. Elsewhere(x)'  BY <3>2, <3>3 DEF Elsewhere, Sender
      <4> QED BY <4>1, WillRunFormNext
    <3>4. CASE \E w \in Workers : Holder(w, x)
      <4>1. AtWork(x)'  BY <3>2, <3>4 DEF AtWork, Holder
      <4> QED BY <4>1, WillRunFormNext
    <3> QED BY <3>1, <3>3, <3>4
  <2> QED BY <2>1, <2>2, <2>3
<1> QED BY <1>1, <1>3 DEF WInv, NoLostWakeup

\* Steps of callers, of the resync loop and of time.
LEMMA CallerWakes ==
    ASSUME IInv, WInv, CallerNext
    PROVE  WInv'
<1> USE DEF enqueueVars, workerVars, agentVars, boundVars
<1>1. ASSUME NEW id \in Agents, Change(id) PROVE WInv'
  <2>1. /\ \A x \in Agents : version[x] <= version'[x]
        /\ UNCHANGED <<told, done, wpc, wid, read>>
    BY <1>1 DEF Change, IInv, TypeOK
  <2>2. Ordered'
    <3>1. /\ \A x \in Agents : version[x] \in Nat /\ version'[x] \in Nat /\ told[x] \in Nat /\ done[x] \in Nat
          /\ \A w \in Workers : read[w] \in Nat
      BY <1>1 DEF Change, IInv, TypeOK
    <3>2. \A w \in Workers : wpc[w] = "reconciling" => wid[w] \in Agents  BY DEF IInv, Places
    <3> QED BY <3>1, <3>2, <2>1 DEF WInv, Ordered
  <2>3. NoLostWakeup'  BY <1>1 DEF Change, WInv, NoLostWakeup, WillRun, Queued
  <2> QED BY <2>2, <2>3 DEF WInv
<1>2. ASSUME NEW id \in Agents, ResyncNext(id) PROVE WInv'
  <2>1. /\ ResyncLoop \in Callers /\ Enqueue(ResyncLoop, id)
        /\ \A x \in Agents \ {id} : timers'[x] = timers[x] /\ (x \in todo' <=> x \in todo)
    BY <1>2, ControllerAssumption DEF ResyncNext
  <2> QED BY <2>1, <1>2, EnqueueWakes DEF ResyncNext
<1>3. ASSUME NEW g \in Callers, NEW id \in Agents, Notify(g, id) PROVE WInv'
  BY <1>3, EnqueueWakes DEF Notify
<1>4. ASSUME NEW g \in Callers, NEW id \in Agents, RetryFires(g, id) PROVE WInv'
  <2>1. /\ Enqueue(g, id)
        /\ \A x \in Agents \ {id} : timers'[x] = timers[x] /\ (x \in todo' <=> x \in todo)
    BY <1>4 DEF RetryFires, IInv, TypeOK
  <2> QED BY <2>1, <1>4, EnqueueWakes DEF RetryFires
<1>5. ASSUME NEW g \in Callers, Send(g) PROVE WInv'
  <2>0. /\ cid[g] \in Agents /\ queue \in Seq(Agents)
        /\ UNCHANGED <<told, done, version, todo, timers, dirty, wpc, wid, read>>
    BY <1>5 DEF IInv, TypeOK, Places, Send
  <2>1. Ordered'  BY <2>0 DEF WInv, Ordered
  <2>2. ASSUME NEW x \in Agents, Elsewhere(x) PROVE Elsewhere(x)'
    <3>1. CASE Len(queue) < QueueCap
      <4>1. queue' = Append(queue, cid[g])  BY <3>1, <1>5 DEF Send
      <4>2. In(queue', x) <=> In(queue, x) \/ x = cid[g]  BY <4>1, <2>0, AppendIn
      <4>3. \A k \in Callers : Sender(k, x) => Sender(k, x)' \/ x = cid[g]
        BY <3>1, <1>5 DEF Send, Sender, IInv, TypeOK
      <4> QED BY <4>2, <4>3, <2>0, <2>2 DEF Elsewhere
    <3>2. CASE ~(Len(queue) < QueueCap)
      <4>1. queue' = queue /\ (\A k \in Callers : Sender(k, x) => Sender(k, x)')
        BY <3>2, <1>5 DEF Send, Sender, IInv, TypeOK
      <4> QED BY <4>1, <2>0, <2>2 DEF Elsewhere
    <3> QED BY <3>1, <3>2
  <2>3. \A x \in Agents : AtWork(x) => AtWork(x)'  BY <2>0 DEF AtWork
  <2> QED BY <2>0, <2>1, <2>2, <2>3, WillRunForm, WillRunFormNext DEF WInv, NoLostWakeup
<1>6. ASSUME NEW g \in Callers, Drops(g) PROVE WInv'
  <2>0. cid[g] \in Agents /\ told' = [told EXCEPT ![cid[g]] = done[cid[g]]]
    BY <1>6 DEF IInv, TypeOK, Places, Drops
  <2>1. Ordered'  BY <1>6, <2>0 DEF WInv, Ordered, Drops, IInv, TypeOK
  <2>2. ASSUME NEW x \in Agents, told'[x] > done'[x] PROVE WillRun(x)'
    <3>1. x # cid[g] /\ told[x] > done[x]
      <4>1. done' = done /\ done[x] \in Nat  BY <1>6 DEF Drops, IInv, TypeOK
      <4> QED BY <4>1, <2>0, <2>2 DEF IInv, TypeOK
    <3>2. Elsewhere(x) \/ AtWork(x)  BY <3>1, WillRunForm DEF WInv, NoLostWakeup
    <3>3. Elsewhere(x) => Elsewhere(x)'
      BY <1>6, <3>1 DEF Elsewhere, Sender, Drops, IInv, TypeOK
    <3>4. AtWork(x) => AtWork(x)'
      BY <1>6, <3>1, <2>0 DEF AtWork, Drops, IInv, TypeOK
    <3> QED BY <3>2, <3>3, <3>4, WillRunFormNext
  <2> QED BY <2>1, <2>2 DEF WInv, NoLostWakeup
<1>7. CASE ResyncTick
  <2>1. Ordered'  BY <1>7 DEF ResyncTick, WInv, Ordered
  <2>2. NoLostWakeup'  BY <1>7 DEF ResyncTick, NoLostWakeup, WillRun
  <2> QED BY <2>1, <2>2 DEF WInv
<1>8. CASE Restart
  <2>1. Ordered'  BY <1>8 DEF Restart, Afresh, WInv, Ordered
  <2>2. NoLostWakeup'  BY <1>8 DEF Restart, Afresh, NoLostWakeup, WillRun
  <2> QED BY <2>1, <2>2 DEF WInv
<1> QED BY <1>1, <1>2, <1>3, <1>4, <1>5, <1>6, <1>7, <1>8 DEF CallerNext

\* Steps of a worker.
LEMMA WorkerWakes ==
    ASSUME IInv, WInv, NEW w \in Workers, WorkerNext(w)
    PROVE  WInv'
<1> USE DEF enqueueVars, workerVars, agentVars, boundVars
<1> DEFINE id == wid[w]
<1>0. /\ queue \in Seq(Agents)
      /\ \A x \in Agents : version[x] \in Nat /\ done[x] \in Nat /\ told[x] \in Nat /\ timers[x] \in Nat
      /\ \A v \in Workers : read[v] \in Nat
  BY ControllerAssumption DEF IInv, TypeOK
<1>1. CASE Take(w)
  <2>1. Ordered'  BY <1>1 DEF Take, WInv, Ordered, IInv, TypeOK
  <2>2. Once(queue)  BY <1>0, ExactForm DEF IInv
  <2>3. ASSUME NEW x \in Agents, WillRun(x) PROVE WillRun(x)'
    <3>1. In(queue, x) => In(queue', x) \/ x = Head(queue)
      BY <1>0, <1>1, <2>2, TailIn DEF Take
    <3>2. x = Head(queue) => AtWork(x)'  BY <1>1 DEF Take, AtWork, IInv, TypeOK
    <3>3. AtWork(x) => AtWork(x)'  BY <1>1 DEF Take, AtWork, IInv, TypeOK
    <3>4. Elsewhere(x) => Elsewhere(x)' \/ x = Head(queue)
      BY <1>1, <3>1 DEF Take, Elsewhere, Sender
    <3> QED BY <2>3, <3>2, <3>3, <3>4, WillRunForm, WillRunFormNext
  <2> QED BY <1>1, <2>1, <2>3 DEF Take, WInv, NoLostWakeup
<1>2. CASE Reads(w)
  <2>0. id \in Agents  BY <1>2 DEF Reads, IInv, Places
  <2>1. Ordered'  BY <1>0, <1>2, <2>0 DEF Reads, WInv, Ordered, IInv, TypeOK
  <2>2. ASSUME NEW x \in Agents PROVE /\ Elsewhere(x) => Elsewhere(x)'
                                      /\ AtWork(x) => AtWork(x)'
    <3>1. Elsewhere(x) => Elsewhere(x)'  BY <1>2 DEF Reads, Elsewhere, Sender
    <3>2. CASE x # id  BY <3>1, <3>2, <1>2 DEF Reads, AtWork, IInv, TypeOK
    <3>3. CASE x = id
      <4>1. wpc'[w] = "reconciling" /\ read'[w] = version[x] /\ wid'[w] = x /\ told' = told
        BY <1>2, <3>3 DEF Reads, IInv, TypeOK
      <4>2. read'[w] >= told'[x]  BY <4>1, <1>0 DEF WInv, Ordered
      <4> QED BY <3>1, <4>1, <4>2 DEF AtWork
    <3> QED BY <3>2, <3>3
  <2>3. told' = told /\ done' = done  BY <1>2 DEF Reads
  <2> QED BY <2>1, <2>2, <2>3, WillRunForm, WillRunFormNext DEF WInv, NoLostWakeup
<1>3. CASE Succeeds(w)
  <2>0. /\ id \in Agents /\ Holder(w, id)
        /\ done' = [done EXCEPT ![id] = read[w]]
        /\ UNCHANGED <<told, version, todo, timers, queue, cpc, cid>>
        /\ done[id] <= read[w] /\ read[w] <= version[id]
    BY <1>3 DEF Succeeds, IInv, Places, Holder, WInv, Ordered
  <2>1. \A v \in Workers : Holder(v, id) => v = w
    <3>1. Exact(id)  BY <1>0, <2>0, ExactForm DEF IInv
    <3> QED BY <3>1, <2>0 DEF Exact
  <2>2. Ordered'
    <3>1. \A x \in Agents : told'[x] <= version'[x] /\ done'[x] <= version'[x]
      BY <2>0 DEF WInv, Ordered, IInv, TypeOK
    <3>2. ASSUME NEW v \in Workers, wpc'[v] = "reconciling"
          PROVE  done'[wid'[v]] <= read'[v] /\ read'[v] <= version'[wid'[v]]
      <4>1. v # w /\ wpc[v] = "reconciling" /\ wid'[v] = wid[v] /\ read'[v] = read[v]
        BY <3>2, <1>3 DEF Succeeds, Finishes, IInv, TypeOK
      <4>2. wid[v] \in Agents  BY <4>1 DEF IInv, Places
      <4>3. wid[v] # id  BY <4>1, <2>1 DEF Holder
      <4>4. done'[wid[v]] = done[wid[v]]  BY <4>2, <4>3, <2>0 DEF IInv, TypeOK
      <4> QED BY <4>1, <4>2, <4>4, <2>0 DEF WInv, Ordered
    <3> QED BY <3>1, <3>2 DEF Ordered
  <2>3. ASSUME NEW x \in Agents, told'[x] > done'[x] PROVE WillRun(x)'
    <3>1. Elsewhere(x) => Elsewhere(x)'  BY <2>0 DEF Elsewhere, Sender
    <3>2. CASE x # id
      <4>1. told[x] > done[x]  BY <2>0, <2>3, <3>2 DEF IInv, TypeOK
      <4>2. Elsewhere(x) \/ AtWork(x)  BY <4>1, WillRunForm DEF WInv, NoLostWakeup
      <4>3. AtWork(x) => AtWork(x)'
        BY <1>3, <3>2 DEF Succeeds, Finishes, AtWork, IInv, TypeOK
      <4> QED BY <3>1, <4>2, <4>3, WillRunFormNext
    <3>3. CASE x = id /\ id \in dirty
      <4>1. AtWork(x)'  BY <1>3, <3>3 DEF Succeeds, Finishes, AtWork, IInv, TypeOK
      <4> QED BY <4>1, WillRunFormNext
    <3>4. CASE x = id /\ id \notin dirty
      <4>1. told[x] > read[w] /\ told[x] > done[x]
        <5>1. done'[x] = read[w] /\ told'[x] = told[x]  BY <2>0, <3>4 DEF IInv, TypeOK
        <5> QED BY <5>1, <2>0, <2>3, <3>4, <1>0
      <4>2. Elsewhere(x) \/ AtWork(x)  BY <4>1, WillRunForm DEF WInv, NoLostWakeup
      <4>3. ~AtWork(x)
        <5> SUFFICES ASSUME AtWork(x) PROVE FALSE
          OBVIOUS
        <5>1. PICK v \in Workers :
                /\ wid[v] = x
                /\ \/ wpc[v] \in {"took", "requeue"}
                   \/ wpc[v] = "reconciling" /\ (x \in dirty \/ read[v] >= told[x])
          BY DEF AtWork
        <5>2. v = w  BY <5>1, <3>4, <2>1 DEF Holder
        <5>3. wpc[w] = "reconciling"  BY <1>3 DEF Succeeds
        <5> QED BY <5>1, <5>2, <5>3, <4>1, <3>4, <1>0
      <4> QED BY <3>1, <4>2, <4>3, WillRunFormNext
    <3> QED BY <3>2, <3>3, <3>4
  <2> QED BY <2>2, <2>3 DEF WInv, NoLostWakeup
<1>4. CASE Requeues(w)
  <2>0. id \in Agents /\ queue' = Append(queue, id)  BY <1>4 DEF Requeues, IInv, Places
  <2>1. Ordered'  BY <1>4 DEF Requeues, WInv, Ordered, IInv, TypeOK
  <2>2. ASSUME NEW x \in Agents, WillRun(x) PROVE WillRun(x)'
    <3>1. In(queue', x) <=> In(queue, x) \/ x = id  BY <2>0, <1>0, AppendIn
    <3>2. Elsewhere(x) => Elsewhere(x)'  BY <1>4, <3>1 DEF Requeues, Elsewhere, Sender
    <3>3. AtWork(x) => AtWork(x)' \/ x = id  BY <1>4 DEF Requeues, AtWork, IInv, TypeOK
    <3>4. x = id => Elsewhere(x)'  BY <3>1 DEF Elsewhere
    <3> QED BY <2>2, <3>2, <3>3, <3>4, WillRunForm, WillRunFormNext
  <2> QED BY <1>4, <2>1, <2>2 DEF Requeues, WInv, NoLostWakeup
<1>5. CASE FailsAndRetries(w) \/ FailsForGood(w)
  <2>1. id \in Agents /\ Gives(w, id)
    BY <1>5 DEF FailsAndRetries, FailsForGood, Gives
  <2>2. \/ /\ timers' = [timers EXCEPT ![id] = @ + 1]
           /\ wpc' = [wpc EXCEPT ![w] = "select"] /\ wid' = [wid EXCEPT ![w] = NoAgent]
           /\ told' = told
        \/ /\ wpc' = [wpc EXCEPT ![w] = "exhausted"] /\ wid' = wid /\ timers' = timers
           /\ told' = [told EXCEPT ![id] = done[id]]
    BY <1>5, <2>1 DEF FailsAndRetries, FailsForGood, Gives
  <2>3. Ordered'
    <3>1. \A x \in Agents : told'[x] <= version'[x] /\ done'[x] <= version'[x]
      BY <2>1, <2>2 DEF Gives, WInv, Ordered, IInv, TypeOK
    <3>2. \A v \in Workers : wpc'[v] = "reconciling" =>
              wpc[v] = "reconciling" /\ wid'[v] = wid[v] /\ read'[v] = read[v]
      BY <2>1, <2>2 DEF Gives, IInv, TypeOK
    <3> QED BY <3>1, <3>2, <2>1 DEF Gives, WInv, Ordered
  <2>4. ASSUME NEW x \in Agents, told'[x] > done'[x] PROVE WillRun(x)'
    <3>0. done' = done /\ todo' = todo /\ queue' = queue /\ cpc' = cpc /\ cid' = cid
          /\ (x # id => (x \in dirty' <=> x \in dirty))
      BY <2>1 DEF Gives
    <3>1. CASE x = id
      <4>1. timers'[x] > 0
        <5>1. told' # [told EXCEPT ![id] = done[id]]
          BY <2>1, <2>4, <3>0, <3>1, <1>0 DEF IInv, TypeOK
        <5>2. timers' = [timers EXCEPT ![id] = @ + 1]  BY <5>1, <2>2
        <5> QED BY <5>2, <3>1, <1>0 DEF IInv, TypeOK
      <4> QED BY <4>1, WillRunFormNext DEF Elsewhere
    <3>2. CASE x # id
      <4>1. told'[x] = told[x] /\ timers'[x] = timers[x]  BY <2>2, <3>2 DEF IInv, TypeOK
      <4>2. Elsewhere(x) \/ AtWork(x)  BY <4>1, <3>0, <2>4, WillRunForm DEF WInv, NoLostWakeup
      <4>3. Elsewhere(x) => Elsewhere(x)'  BY <3>0, <4>1 DEF Elsewhere, Sender
      <4>4. AtWork(x) => AtWork(x)'
        <5>1. \A v \in Workers : wid[v] = x => wid'[v] = x /\ wpc'[v] = wpc[v] /\ read'[v] = read[v]
          BY <2>1, <2>2, <3>2 DEF Gives, IInv, TypeOK
        <5> QED BY <5>1, <4>1, <3>0, <3>2 DEF AtWork
      <4> QED BY <4>2, <4>3, <4>4, WillRunFormNext
    <3> QED BY <3>1, <3>2
  <2> QED BY <2>3, <2>4 DEF WInv, NoLostWakeup
<1>6. CASE MarkReads(w) \/ MarkWrites(w)
  <2>1. /\ UNCHANGED <<told, done, version, todo, timers, queue, cpc, cid, dirty, read>>
        /\ \A v \in Workers : wpc'[v] = "reconciling" => wpc[v] = "reconciling" /\ wid'[v] = wid[v]
        /\ \A v \in Workers : wpc[v] \in {"took", "requeue", "reconciling"} =>
              wpc'[v] = wpc[v] /\ wid'[v] = wid[v]
    BY <1>6 DEF MarkReads, MarkWrites, IInv, TypeOK
  <2>2. Ordered'  BY <2>1 DEF WInv, Ordered
  <2>3. \A x \in Agents : (Elsewhere(x) => Elsewhere(x)') /\ (AtWork(x) => AtWork(x)')
    BY <2>1 DEF Elsewhere, AtWork, Sender
  <2> QED BY <2>1, <2>2, <2>3, WillRunForm, WillRunFormNext DEF WInv, NoLostWakeup
<1> QED BY <1>1, <1>2, <1>3, <1>4, <1>5, <1>6 DEF WorkerNext

\* No change that Enqueue was told of is lost.
THEOREM NoWakeupIsLost == Spec => []NoLostWakeup
<1>1. IInv /\ WInv /\ [Next]_vars => WInv'
  <2> SUFFICES ASSUME IInv, WInv, [Next]_vars PROVE WInv'
    OBVIOUS
  <2>1. CASE CallerNext  BY <2>1, CallerWakes
  <2>2. ASSUME NEW w \in Workers, WorkerNext(w) PROVE WInv'  BY <2>2, WorkerWakes
  <2>3. CASE UNCHANGED vars
    BY <2>3 DEF vars, enqueueVars, workerVars, agentVars, boundVars,
                WInv, Ordered, NoLostWakeup, WillRun, Queued
  <2> QED BY <2>1, <2>2, <2>3 DEF Next
<1>2. WInv => NoLostWakeup  BY DEF WInv
<1> QED BY <1>1, <1>2, InitWInv, Invariance, PTL DEF Spec
=============================================================================
