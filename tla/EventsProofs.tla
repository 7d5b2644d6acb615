---------------------------- MODULE EventsProofs ----------------------------
(***************************************************************************)
(* Theorems about module Events, for any agents, owners, clients and       *)
(* handlers, any capacities and any bounds: its safety invariants, and     *)
(* that it implements EventFeed.                                           *)
(***************************************************************************)
EXTENDS Events, TLAPS

-----------------------------------------------------------------------------
(* The inductive invariant.                                                *)

\* No client is ahead of the log.
CursorsBehind == \A c \in Clients : cursor[c] <= Len(log)

\* What is live has been replayed, a channel that is closed meanwhile is not empty, and
\* Last-Event-ID was the client's cursor.
PhaseOK(h) ==
    /\ phase[h] = "live" => replay[h] = {}
    /\ phase[h] = "replaying" /\ closed[h] => channel[h] # << >>
    /\ phase[h] = "checked" /\ Connected(h) => after[h] = cursor[serves[h]]

\* The channel of a handler is a stretch of the log, up to its end if it is subscribed.
Stretch(h) ==
    /\ \A i \in 1..(Len(channel[h]) - 1) : channel[h][i + 1] = channel[h][i] + 1
    /\ h \in subscribers /\ channel[h] # << >> => channel[h][Len(channel[h])] = Len(log)

\* What is still to be replayed comes before the channel, and both after the cursor.
Ahead(h) ==
    /\ \A n \in replay[h] : /\ n > cursor[serves[h]] /\ Owned(h, n)
                            /\ channel[h] # << >> => n < channel[h][1]
    /\ channel[h] # << >> => channel[h][1] > cursor[serves[h]]

\* An event that the client watches and has not seen is still to come: in the replay,
\* in the channel, or after the channel was closed and the client has reconnected.  Or
\* the client had no place, and begins after it.
StillToCome(h, m) ==
    \/ m \in replay[h]
    \/ channel[h] # << >> /\ m >= channel[h][1]
    \/ channel[h] = << >> /\ closed[h]
    \/ /\ cursor[serves[h]] = 0
       /\ \A n \in replay[h] : m < n
       /\ channel[h] # << >> => m < channel[h][1]

Unseen(h, m) == m > cursor[serves[h]] /\ log[m].agent \in Watches(serves[h])

Streaming(h) == Connected(h) /\ phase[h] \in {"replaying", "live"}

StreamOK(h) ==
    Streaming(h) => /\ Stretch(h) /\ Ahead(h)
                    /\ \A m \in Numbers : Unseen(h, m) => StillToCome(h, m)

IInv ==
    /\ TypeOK /\ ChannelsSafe /\ CursorsBehind
    /\ \A h \in Handlers : PhaseOK(h) /\ StreamOK(h)

\* Whatever fails after an agent was announced as deleted, it was announced.
AnnouncedOK ==
    \A a \in Agents :
        existence[a] \in {"announced", "gone"}
            => \E n \in Numbers : log[n] = [agent |-> a, type |-> "deleted"]

-----------------------------------------------------------------------------
(* Types.                                                                  *)

\* A sequence over a set is one over any larger set: a channel's numbers stay numbers
\* when the log grows.
LEMMA SeqWidens ==
    ASSUME NEW S, NEW T, S \subseteq T, NEW s \in Seq(S)
    PROVE  s \in Seq(T)
  <1>1. /\ Len(s) \in Nat /\ DOMAIN s = 1..Len(s)
        /\ \A i \in 1..Len(s) : s[i] \in S
        /\ s = [i \in 1..Len(s) |-> s[i]]
    OBVIOUS
  <1>2. \A i \in 1..Len(s) : s[i] \in T
    BY <1>1
  <1> QED
    BY <1>1, <1>2

\* What Publish does to the log, and that it keeps the types of the bus.
LEMMA PublishTypes ==
    ASSUME TypeOK, NEW e \in Event, Publish(e)
    PROVE  /\ log' \in Seq(Event) /\ Len(log') = Len(log) + 1
           /\ \A n \in Numbers : log'[n] = log[n]
           /\ log'[Len(log')] = e
           /\ Numbers \subseteq Numbers'
           /\ oldest' \in 1..(Len(log') + 1) /\ Len(log') - oldest' < Capacity
           /\ subscribers' \subseteq Handlers
           /\ closed' \in [Handlers -> BOOLEAN]
           /\ channel' \in [Handlers -> Seq(Numbers')]
           /\ \A h \in Handlers : Len(channel'[h]) <= ChannelCapacity
  <1> USE EventsAssumption
  <1>1. /\ log' \in Seq(Event) /\ Len(log') = Len(log) + 1
        /\ \A n \in Numbers : log'[n] = log[n]
        /\ log'[Len(log')] = e
        /\ Len(log) \in Nat
    <2>1. log \in Seq(Event) /\ log' = Append(log, e)
      BY DEF Publish, TypeOK
    <2>2. log' \in Seq(Event) /\ Len(log') = Len(log) + 1 /\ Len(log) \in Nat
      BY <2>1
    <2>3. \A n \in 1..Len(log) : log'[n] = log[n]
      BY <2>1
    <2>4. log'[Len(log) + 1] = e
      BY <2>1
    <2> QED
      BY <2>2, <2>3, <2>4 DEF Numbers
  <1>2. Numbers \subseteq Numbers'
    BY <1>1 DEF Numbers
  <1>3. oldest' \in 1..(Len(log') + 1) /\ Len(log') - oldest' < Capacity
    <2>1. /\ oldest \in 1..(Len(log) + 1) /\ Len(log) - oldest < Capacity
          /\ Capacity \in Nat \ {0}
      BY DEF TypeOK
    <2>2. oldest' = IF Len(log') - oldest >= Capacity THEN Len(log') - Capacity + 1 ELSE oldest
      BY DEF Publish
    <2>3. Len(log') = Len(log) + 1 /\ Len(log) \in Nat
      BY <1>1
    <2>4. CASE Len(log') - oldest >= Capacity
      BY <2>1, <2>2, <2>3, <2>4
    <2>5. CASE ~(Len(log') - oldest >= Capacity)
      BY <2>1, <2>2, <2>3, <2>5
    <2> QED
      BY <2>4, <2>5
  <1>4. subscribers' \subseteq Handlers /\ closed' \in [Handlers -> BOOLEAN]
    BY DEF Publish, TypeOK
  <1>5. ASSUME NEW h \in Handlers
        PROVE  channel'[h] \in Seq(Numbers') /\ Len(channel'[h]) <= ChannelCapacity
    <2>1. channel[h] \in Seq(Numbers) /\ Len(channel[h]) <= ChannelCapacity
      BY DEF TypeOK
    <2>2. channel[h] \in Seq(Numbers')
      BY <2>1, <1>2, SeqWidens
    <2>3. Len(log') \in Numbers'
      BY <1>1 DEF Numbers
    <2>4. CASE channel'[h] = channel[h]
      BY <2>1, <2>2, <2>4
    <2>5. CASE h \in subscribers /\ Len(channel[h]) < ChannelCapacity /\ channel'[h] = Append(channel[h], Len(log'))
      <3>1. Append(channel[h], Len(log')) \in Seq(Numbers')
        BY <2>2, <2>3
      <3>2. Len(Append(channel[h], Len(log'))) = Len(channel[h]) + 1 /\ Len(channel[h]) \in Nat
        BY <2>2
      <3> QED
        BY <3>1, <3>2, <2>5
    <2> QED
      BY <2>1, <2>4, <2>5 DEF Publish
  <1>6. channel' \in [Handlers -> Seq(Numbers')]
    <2>1. channel' = [h \in Handlers |-> channel'[h]]
      BY DEF Publish
    <2> QED
      BY <2>1, <1>5
  <1> QED
    BY <1>1, <1>2, <1>3, <1>4, <1>5, <1>6

\* The bus starts empty, with no request and no cursor.
LEMMA TypeInit == Init => TypeOK
  <1> SUFFICES ASSUME Init PROVE TypeOK
    OBVIOUS
  <1> USE EventsAssumption
  <1>1. log = << >> /\ Len(log) = 0 /\ log \in Seq(Event)
    BY DEF Init
  <1>2. \A h \in Handlers : channel[h] = << >> /\ channel[h] \in Seq(Numbers) /\ Len(channel[h]) = 0
    BY DEF Init
  <1>3. channel \in [Handlers -> Seq(Numbers)]
    BY <1>2 DEF Init
  <1> QED
    BY <1>1, <1>2, <1>3 DEF Init, TypeOK

\* A handler that returns keeps the types; cancel is part of it.
LEMMA ReturnsTypes ==
    ASSUME TypeOK, NEW h \in Handlers, Returns(h), UNCHANGED <<log, oldest, filter, refused, existence, boundVars>>,
           cursor' \in [Clients -> Nat]
    PROVE  TypeOK'
  <1>1. Numbers' = Numbers
    BY DEF Numbers
  <1>2. channel' \in [Handlers -> Seq(Numbers')] /\ \A k \in Handlers : Len(channel'[k]) <= ChannelCapacity
    <2>1. << >> \in Seq(Numbers') /\ Len(<< >>) = 0
      OBVIOUS
    <2> QED
      BY <2>1, <1>1, EventsAssumption DEF Returns, TypeOK
  <1>3. conn' \in [Clients -> Handlers \cup {None}]
    BY DEF Returns, Connected, TypeOK
  <1>4. /\ phase' \in [Handlers -> {"idle", "checked", "replaying", "live"}]
        /\ serves' \in [Handlers -> Clients \cup {None}]
        /\ after' \in [Handlers -> Nat] /\ replay' \in [Handlers -> SUBSET Numbers']
        /\ closed' \in [Handlers -> BOOLEAN] /\ subscribers' \subseteq Handlers
    BY <1>1 DEF Returns, cancel, TypeOK
  <1> QED
    BY <1>1, <1>2, <1>3, <1>4 DEF TypeOK, boundVars

\* writeSSE moves a cursor to the event or leaves all as they are.
LEMMA WriteTypes ==
    ASSUME TypeOK, NEW h \in Handlers, NEW n \in Numbers, writeSSE(h, n)
    PROVE  cursor' \in [Clients -> Nat]
  <1>1. n \in Nat
    BY DEF Numbers, TypeOK
  <1> QED
    BY <1>1 DEF writeSSE, Connected, TypeOK

\* Every action keeps the types and the two capacities.
LEMMA TypeStep == TypeOK /\ [Next]_vars => TypeOK'
  <1> SUFFICES ASSUME TypeOK, [Next]_vars PROVE TypeOK'
    OBVIOUS
  <1> USE EventsAssumption
  <1>1. ASSUME NEW a \in Agents, PublishChange(a) PROVE TypeOK'
    <2>1. [agent |-> a, type |-> "changed"] \in Event
      BY DEF Event, Types
    <2>2. replay' \in [Handlers -> SUBSET Numbers']
      BY <1>1, <2>1, PublishTypes DEF PublishChange, TypeOK
    <2> QED
      BY <1>1, <2>1, <2>2, PublishTypes DEF PublishChange, TypeOK, clientVars, boundVars
  <1>2. ASSUME NEW a \in Agents, PublishDeleted(a) PROVE TypeOK'
    <2>1. [agent |-> a, type |-> "deleted"] \in Event
      BY DEF Event, Types
    <2>2. replay' \in [Handlers -> SUBSET Numbers']
      BY <1>2, <2>1, PublishTypes DEF PublishDeleted, TypeOK
    <2>3. existence' \in [Agents -> {"stored", "announced", "gone"}]
      BY <1>2 DEF PublishDeleted, TypeOK
    <2> QED
      BY <1>2, <2>1, <2>2, <2>3, PublishTypes DEF PublishDeleted, TypeOK, clientVars, boundVars
  <1>3. ASSUME NEW a \in Agents, FinalizeDelete(a) PROVE TypeOK'
    <2>1. existence' \in [Agents -> {"stored", "announced", "gone"}] /\ faults' \in Nat
      <3>1. \E x \in {"stored", "gone"} : existence' = [existence EXCEPT ![a] = x]
        BY <1>3 DEF FinalizeDelete
      <3>2. faults' \in {faults, faults + 1}
        BY <1>3 DEF FinalizeDelete
      <3> QED
        BY <3>1, <3>2 DEF TypeOK
    <2>2. UNCHANGED <<busVars, handlerVars, clientVars, restarts>>
      BY <1>3 DEF FinalizeDelete
    <2> QED
      BY <2>1, <2>2 DEF TypeOK, Numbers, busVars, handlerVars, clientVars
  <1>4. ASSUME NEW c \in Clients, NEW h \in Handlers, Request(c, h) PROVE TypeOK'
    <2>1. UNCHANGED <<busVars, replay, channel, closed, filter, cursor, existence, boundVars>>
      BY <1>4 DEF Request
    <2>2. CASE UNCHANGED <<phase, serves, after, conn>> /\ refused' = refused \cup {c}
      BY <2>1, <2>2 DEF TypeOK, Numbers, busVars, boundVars
    <2>3. CASE /\ phase' = [phase EXCEPT ![h] = "checked"]
               /\ serves' = [serves EXCEPT ![h] = c]
               /\ after' = [after EXCEPT ![h] = cursor[c]]
               /\ conn' = [conn EXCEPT ![c] = h]
               /\ UNCHANGED refused
      BY <2>1, <2>3 DEF TypeOK, Numbers, busVars, boundVars
    <2> QED
      BY <1>4, <2>2, <2>3 DEF Request
  <1>5. ASSUME NEW h \in Handlers, Subscribe(h) PROVE TypeOK'
    <2>1. Numbers' = Numbers /\ Replay(h) \subseteq Numbers'
      BY <1>5 DEF Subscribe, Replay, Numbers, TypeOK
    <2>2. << >> \in Seq(Numbers') /\ Len(<< >>) = 0
      OBVIOUS
    <2>3. channel' \in [Handlers -> Seq(Numbers')] /\ \A k \in Handlers : Len(channel'[k]) <= ChannelCapacity
      BY <1>5, <2>1, <2>2 DEF Subscribe, TypeOK
    <2> QED
      BY <1>5, <2>1, <2>3 DEF Subscribe, TypeOK, clientVars, boundVars
  <1>6. ASSUME NEW h \in Handlers, CursorExpired(h) PROVE TypeOK'
    <2>1. cursor' \in [Clients -> Nat]
      BY <1>6 DEF CursorExpired, TypeOK, Connected
    <2> QED
      BY <1>6, <2>1, ReturnsTypes DEF CursorExpired
  <1>7. ASSUME NEW h \in Handlers, WriteReplay(h) PROVE TypeOK'
    <2>1. PICK n \in replay[h] : writeSSE(h, n) /\ replay' = [replay EXCEPT ![h] = @ \ {n}]
      BY <1>7 DEF WriteReplay
    <2>2. n \in Numbers /\ Numbers' = Numbers
      BY <1>7 DEF TypeOK, WriteReplay, Numbers, busVars
    <2>3. cursor' \in [Clients -> Nat] /\ replay' \in [Handlers -> SUBSET Numbers']
      BY <2>1, <2>2, WriteTypes DEF TypeOK
    <2> QED
      BY <1>7, <2>2, <2>3 DEF WriteReplay, TypeOK, busVars, boundVars
  <1>8. ASSUME NEW h \in Handlers, Flush(h) PROVE TypeOK'
    BY <1>8 DEF Flush, TypeOK, Numbers, busVars, clientVars, boundVars
  <1>9. ASSUME NEW h \in Handlers, WriteEvent(h) PROVE TypeOK'
    <2>1. /\ channel[h] \in Seq(Numbers) /\ channel[h] # << >>
          /\ Numbers' = Numbers
      BY <1>9 DEF WriteEvent, TypeOK, Numbers, busVars
    <2>2. /\ Head(channel[h]) \in Numbers /\ Tail(channel[h]) \in Seq(Numbers)
          /\ Len(Tail(channel[h])) = Len(channel[h]) - 1 /\ Len(channel[h]) \in Nat
      BY <2>1
    <2>3. cursor' \in [Clients -> Nat]
      BY <1>9, <2>2, WriteTypes DEF WriteEvent, TypeOK
    <2>4. channel' \in [Handlers -> Seq(Numbers')] /\ \A k \in Handlers : Len(channel'[k]) <= ChannelCapacity
      BY <1>9, <2>1, <2>2 DEF WriteEvent, TypeOK
    <2> QED
      BY <1>9, <2>1, <2>3, <2>4 DEF WriteEvent, TypeOK, busVars, boundVars
  <1>10. ASSUME NEW h \in Handlers, Ends(h) \/ Quits(h) PROVE TypeOK'
    <2>1. Returns(h) /\ UNCHANGED <<log, oldest, filter, cursor, refused, existence, boundVars>>
      BY <1>10 DEF Ends, Quits
    <2> QED
      BY <2>1, ReturnsTypes DEF TypeOK
  <1>11. ASSUME NEW c \in Clients, Disconnect(c) PROVE TypeOK'
    BY <1>11 DEF Disconnect, TypeOK, Numbers, busVars, handlerVars
  <1>12. ASSUME Restart PROVE TypeOK'
    <2>1. Numbers' = Numbers /\ << >> \in Seq(Numbers') /\ Len(<< >>) = 0 /\ Len(log) \in Nat
      BY <1>12 DEF Restart, Numbers, TypeOK
    <2>2. channel' \in [Handlers -> Seq(Numbers')] /\ \A k \in Handlers : Len(channel'[k]) <= ChannelCapacity
      BY <1>12, <2>1 DEF Restart
    <2>3. existence' \in [Agents -> {"stored", "announced", "gone"}]
      BY <1>12 DEF Restart, TypeOK
    <2> QED
      BY <1>12, <2>1, <2>2, <2>3 DEF Restart, TypeOK
  <1>13. CASE UNCHANGED vars
    BY <1>13 DEF TypeOK, Numbers, vars, busVars, handlerVars, clientVars, boundVars
  <1> QED
    BY <1>1, <1>2, <1>3, <1>4, <1>5, <1>6, <1>7, <1>8, <1>9, <1>10, <1>11, <1>12, <1>13
    DEF Next, PublisherNext, HandlerNext

-----------------------------------------------------------------------------
(* The subscribers are those who read an open channel.                     *)

\* A channel is closed and taken off the bus in the same step, by Publish and by cancel.
LEMMA SafeStep == TypeOK /\ ChannelsSafe /\ [Next]_vars => ChannelsSafe'
  <1> SUFFICES ASSUME TypeOK, ChannelsSafe, [Next]_vars PROVE ChannelsSafe'
    OBVIOUS
  <1>1. ASSUME NEW e, Publish(e), UNCHANGED phase PROVE ChannelsSafe'
    BY <1>1 DEF Publish, ChannelsSafe, TypeOK
  <1>2. ASSUME NEW h \in Handlers, Returns(h) PROVE ChannelsSafe'
    BY <1>2 DEF Returns, cancel, ChannelsSafe, TypeOK
  <1>3. ASSUME NEW h \in Handlers, Subscribe(h) PROVE ChannelsSafe'
    BY <1>3 DEF Subscribe, ChannelsSafe, TypeOK
  <1>4. ASSUME NEW h \in Handlers, Flush(h) PROVE ChannelsSafe'
    BY <1>4 DEF Flush, ChannelsSafe, TypeOK, busVars
  <1>5. ASSUME NEW c \in Clients, NEW h \in Handlers, Request(c, h) PROVE ChannelsSafe'
    BY <1>5 DEF Request, ChannelsSafe, TypeOK, busVars
  <1>6. ASSUME Restart PROVE ChannelsSafe'
    BY <1>6 DEF Restart, ChannelsSafe
  <1>7. ASSUME UNCHANGED <<subscribers, phase, closed>> PROVE ChannelsSafe'
    BY <1>7 DEF ChannelsSafe
  <1>8. ASSUME NEW a \in Agents, PublisherNext(a) PROVE ChannelsSafe'
    BY <1>8, <1>1, <1>7
    DEF PublisherNext, PublishChange, PublishDeleted, FinalizeDelete, busVars, handlerVars
  <1>9. ASSUME NEW h \in Handlers, HandlerNext(h) PROVE ChannelsSafe'
    BY <1>9, <1>2, <1>3, <1>4, <1>7
    DEF HandlerNext, CursorExpired, Ends, Quits, WriteReplay, WriteEvent, busVars
  <1> QED
    BY <1>5, <1>6, <1>7, <1>8, <1>9
    DEF Next, Disconnect, vars, busVars, handlerVars

-----------------------------------------------------------------------------
(* An agent that is gone was announced.                                    *)

\* FinalizeDelete follows PublishDeleted, and the log only grows.
LEMMA AnnouncedStep == TypeOK /\ AnnouncedOK /\ [Next]_vars => AnnouncedOK'
  <1> SUFFICES ASSUME TypeOK, AnnouncedOK, [Next]_vars, NEW b \in Agents,
                      existence'[b] \in {"announced", "gone"}
               PROVE  \E n \in Numbers' : log'[n] = [agent |-> b, type |-> "deleted"]
    BY DEF AnnouncedOK
  <1>1. ASSUME UNCHANGED log, existence[b] \in {"announced", "gone"}
        PROVE  \E n \in Numbers' : log'[n] = [agent |-> b, type |-> "deleted"]
    BY <1>1 DEF AnnouncedOK, Numbers
  <1>2. ASSUME NEW e \in Event, Publish(e), existence[b] \in {"announced", "gone"}
        PROVE  \E n \in Numbers' : log'[n] = [agent |-> b, type |-> "deleted"]
    <2>1. PICK n \in Numbers : log[n] = [agent |-> b, type |-> "deleted"]
      BY <1>2 DEF AnnouncedOK
    <2>2. n \in Numbers' /\ log'[n] = log[n]
      BY <1>2, PublishTypes
    <2> QED
      BY <2>1, <2>2
  <1>3. ASSUME NEW a \in Agents, PublishChange(a)
        PROVE  \E n \in Numbers' : log'[n] = [agent |-> b, type |-> "deleted"]
    <2>1. [agent |-> a, type |-> "changed"] \in Event
      BY DEF Event, Types
    <2> QED
      BY <1>3, <2>1, <1>2 DEF PublishChange
  <1>4. ASSUME NEW a \in Agents, PublishDeleted(a)
        PROVE  \E n \in Numbers' : log'[n] = [agent |-> b, type |-> "deleted"]
    <2>1. [agent |-> a, type |-> "deleted"] \in Event
      BY DEF Event, Types
    <2>2. CASE b = a
      <3>1. log'[Len(log')] = [agent |-> a, type |-> "deleted"] /\ Len(log') = Len(log) + 1
        BY <1>4, <2>1, PublishTypes DEF PublishDeleted
      <3>2. Len(log') \in Numbers'
        BY <3>1 DEF Numbers, TypeOK
      <3> QED
        BY <3>1, <3>2, <2>2
    <2>3. CASE b # a
      BY <1>4, <2>1, <2>3, <1>2 DEF PublishDeleted, TypeOK
    <2> QED
      BY <2>2, <2>3
  <1>5. ASSUME NEW a \in Agents, FinalizeDelete(a)
        PROVE  \E n \in Numbers' : log'[n] = [agent |-> b, type |-> "deleted"]
    <2>1. UNCHANGED log /\ existence[a] = "announced"
      BY <1>5 DEF FinalizeDelete, busVars
    <2>2. \E x \in {"stored", "gone"} : existence' = [existence EXCEPT ![a] = x]
      BY <1>5 DEF FinalizeDelete
    <2>3. existence[b] \in {"announced", "gone"}
      BY <2>1, <2>2 DEF TypeOK
    <2> QED
      BY <1>1, <2>1, <2>3
  <1>6. ASSUME Restart
        PROVE  \E n \in Numbers' : log'[n] = [agent |-> b, type |-> "deleted"]
    BY <1>6, <1>1 DEF Restart
  <1>7. ASSUME UNCHANGED <<log, existence>>
        PROVE  \E n \in Numbers' : log'[n] = [agent |-> b, type |-> "deleted"]
    BY <1>7, <1>1
  <1>8. ASSUME NEW h \in Handlers, HandlerNext(h) PROVE UNCHANGED <<log, existence>>
    BY <1>8 DEF HandlerNext, Subscribe, CursorExpired, WriteReplay, Flush, WriteEvent, Ends, Quits, busVars
  <1>9. ASSUME NEW c \in Clients, Disconnect(c) \/ \E h \in Handlers : Request(c, h)
        PROVE  UNCHANGED <<log, existence>>
    BY <1>9 DEF Disconnect, Request, busVars
  <1> QED
    BY <1>3, <1>4, <1>5, <1>6, <1>7, <1>8, <1>9 DEF Next, PublisherNext, vars, busVars

-----------------------------------------------------------------------------
(* What a step does to the stream of one handler.                          *)

\* A number added at the end of a channel.
LEMMA Queued ==
    ASSUME NEW s \in Seq(Nat), NEW n \in Nat
    PROVE  /\ Append(s, n) # << >> /\ Len(Append(s, n)) = Len(s) + 1
           /\ Append(s, n)[Len(s) + 1] = n
           /\ \A i \in 1..Len(s) : Append(s, n)[i] = s[i]
           /\ s = << >> => Append(s, n)[1] = n
           /\ s # << >> => Append(s, n)[1] = s[1] /\ 1 \in 1..Len(s)
  OBVIOUS

\* Events published leave every stream whole: the new one joins the channel, or the
\* channel is closed.
LEMMA PublishStreams ==
    ASSUME IInv, NEW e \in Event, Publish(e), NEW k \in Handlers,
           UNCHANGED <<phase, serves, after, replay, filter, conn, cursor>>
    PROVE  PhaseOK(k)' /\ StreamOK(k)'
  <1> USE EventsAssumption
  <1>1. /\ Len(log') = Len(log) + 1 /\ Len(log) \in Nat
        /\ \A n \in Numbers : log'[n] = log[n]
        /\ Numbers' = Numbers \cup {Len(log) + 1}
    <2>1. Len(log') = Len(log) + 1 /\ \A n \in Numbers : log'[n] = log[n]
      BY PublishTypes DEF IInv
    <2>2. Len(log) \in Nat
      BY DEF IInv, TypeOK
    <2>3. 1..(Len(log) + 1) = 1..Len(log) \cup {Len(log) + 1}
      BY <2>2
    <2> QED
      BY <2>1, <2>2, <2>3 DEF Numbers
  <1>2. channel[k] \in Seq(Numbers) /\ replay[k] \subseteq Numbers /\ Len(channel[k]) \in Nat
    BY DEF IInv, TypeOK
  <1>a. CASE k \in subscribers /\ Len(channel[k]) < ChannelCapacity
    <2>1. /\ channel'[k] = Append(channel[k], Len(log) + 1)
          /\ k \in subscribers' /\ ~closed[k] /\ closed'[k] = FALSE
      BY <1>a, <1>1, <1>2 DEF Publish, IInv, ChannelsSafe, TypeOK
    <2>2. /\ channel'[k] # << >> /\ Len(channel'[k]) = Len(channel[k]) + 1
          /\ channel'[k][Len(channel[k]) + 1] = Len(log) + 1
          /\ \A i \in 1..Len(channel[k]) : channel'[k][i] = channel[k][i]
          /\ channel[k] = << >> => channel'[k][1] = Len(log) + 1
          /\ channel[k] # << >> => channel'[k][1] = channel[k][1] /\ channel[k][1] \in Numbers
      <3>1. channel[k] \in Seq(Nat) /\ \A i \in 1..Len(channel[k]) : channel[k][i] \in Numbers
        BY <1>2 DEF Numbers
      <3>2. Len(log) + 1 \in Nat
        BY <1>1
      <3> DEFINE s == channel[k]
                 n == Len(log) + 1
      <3> HIDE DEF s, n
      <3>3. /\ Append(s, n) # << >> /\ Len(Append(s, n)) = Len(s) + 1
            /\ Append(s, n)[Len(s) + 1] = n
            /\ \A i \in 1..Len(s) : Append(s, n)[i] = s[i]
            /\ s = << >> => Append(s, n)[1] = n
            /\ s # << >> => Append(s, n)[1] = s[1] /\ 1 \in 1..Len(s)
        <4>1. s \in Seq(Nat) /\ n \in Nat
          BY <3>1, <3>2 DEF s, n
        <4> QED
          BY <4>1, Queued
      <3>4. channel'[k] = Append(s, n) /\ \A i \in 1..Len(s) : s[i] \in Numbers
        BY <2>1, <3>1, Zenon DEF s, n
      <3>5. s # << >> => s[1] \in Numbers
        BY <3>3, <3>4, Zenon
      <3> QED
        BY <3>3, <3>4, <3>5, Zenon DEF s, n
    <2>3. PhaseOK(k)'
      BY <2>1, <2>2 DEF IInv, PhaseOK, Connected
    <2>4. ASSUME Streaming(k)'
          PROVE  Stretch(k)' /\ Ahead(k)' /\ \A m \in Numbers' : Unseen(k, m)' => StillToCome(k, m)'
      <3>1. Stretch(k) /\ Ahead(k) /\ \A m \in Numbers : Unseen(k, m) => StillToCome(k, m)
        BY <2>4 DEF IInv, StreamOK, Streaming, Connected
      <3>2. cursor[serves[k]] \in Nat /\ cursor[serves[k]] <= Len(log)
        BY <2>4 DEF Streaming, Connected, IInv, CursorsBehind, TypeOK
      <3>3. Stretch(k)'
        <4>1. ASSUME NEW i \in 1..(Len(channel'[k]) - 1)
              PROVE  channel'[k][i + 1] = channel'[k][i] + 1
          <5>0. i \in Nat \ {0} /\ Len(channel[k]) \in Nat /\ i <= Len(channel[k])
            <6>1. Len(channel'[k]) - 1 = Len(channel[k]) /\ Len(channel[k]) \in Nat
              BY <2>2, <1>2
            <6> QED
              BY <6>1
          <5>1. CASE i < Len(channel[k])
            <6>1. i \in 1..(Len(channel[k]) - 1) /\ i + 1 \in 1..Len(channel[k]) /\ i \in 1..Len(channel[k])
              BY <5>1, <5>0
            <6> QED
              BY <6>1, <2>2, <3>1 DEF Stretch
          <5>2. CASE i = Len(channel[k])
            <6>1. channel[k] # << >> /\ i \in 1..Len(channel[k])
              BY <5>2, <1>2
            <6> QED
              BY <6>1, <5>2, <2>2, <3>1, <1>a DEF Stretch
          <5>3. i < Len(channel[k]) \/ i = Len(channel[k])
            <6>1. \A m, n \in Nat : m <= n => m < n \/ m = n
              OBVIOUS
            <6> QED
              BY <5>0, <6>1, Zenon
          <5> QED
            BY <5>1, <5>2, <5>3
        <4>2. channel'[k][Len(channel'[k])] = Len(log')
          BY <2>2, <1>1
        <4> QED
          BY <4>1, <4>2 DEF Stretch
      <3>4. Ahead(k)'
        <4>1. ASSUME NEW n \in replay[k]
              PROVE  n > cursor'[serves'[k]] /\ Owned(k, n)' /\ n < channel'[k][1]
          <5>1. n \in Numbers /\ n > cursor[serves[k]] /\ Owned(k, n)
            BY <1>2, <3>1 DEF Ahead
          <5>2. Owned(k, n)'
            BY <5>1, <1>1 DEF Owned
          <5>3. n < channel'[k][1]
            <6>1. CASE channel[k] = << >>
              <7>1. n \in 1..Len(log) /\ channel'[k][1] = Len(log) + 1
                BY <5>1, <2>2, <6>1 DEF Numbers
              <7> QED
                BY <7>1, <1>1
            <6>2. CASE channel[k] # << >>
              BY <2>2, <3>1, <6>2 DEF Ahead
            <6> QED
              BY <6>1, <6>2
          <5> QED
            BY <5>1, <5>2, <5>3
        <4>2. channel'[k][1] > cursor'[serves'[k]]
          BY <3>1, <3>2, <2>2 DEF Ahead
        <4> QED
          BY <4>1, <4>2 DEF Ahead
      <3>5. ASSUME NEW m \in Numbers', Unseen(k, m)' PROVE StillToCome(k, m)'
        <4>1. CASE m = Len(log) + 1
          BY <4>1, <2>2, <1>1 DEF StillToCome, Numbers
        <4>2. CASE m \in Numbers
          <5>1. Unseen(k, m)
            BY <3>5, <4>2, <1>1 DEF Unseen, Watches
          <5>2. StillToCome(k, m) /\ m < Len(log) + 1
            BY <5>1, <4>2, <3>1, <1>1 DEF Numbers
          <5> QED
            BY <5>2, <2>1, <2>2 DEF StillToCome
        <4> QED
          BY <4>1, <4>2, <1>1
      <3> QED
        BY <3>3, <3>4, <3>5
    <2> QED
      BY <2>3, <2>4 DEF StreamOK
  <1>b. CASE ~(k \in subscribers /\ Len(channel[k]) < ChannelCapacity)
    <2>1. channel'[k] = channel[k] /\ k \notin subscribers'
      BY <1>b, <1>2 DEF Publish, TypeOK, IInv
    <2>2. phase[k] \in {"replaying", "live"} => closed'[k]
      <3>1. CASE k \in subscribers
        <4>1. k \in {h \in subscribers : Len(channel[h]) >= ChannelCapacity}
          BY <3>1, <1>b, <1>2
        <4> QED
          BY <4>1 DEF Publish
      <3>2. CASE k \notin subscribers
        BY <3>2 DEF Publish, IInv, ChannelsSafe
      <3> QED
        BY <3>1, <3>2
    <2>3. channel[k] = << >> => closed'[k] = closed[k]
      BY <1>b, <1>2 DEF Publish, TypeOK, IInv
    <2>4. PhaseOK(k)'
      BY <2>1, <2>3 DEF IInv, PhaseOK, Connected
    <2>5. ASSUME Streaming(k)'
          PROVE  Stretch(k)' /\ Ahead(k)' /\ \A m \in Numbers' : Unseen(k, m)' => StillToCome(k, m)'
      <3>1. Stretch(k) /\ Ahead(k) /\ \A m \in Numbers : Unseen(k, m) => StillToCome(k, m)
        BY <2>5 DEF IInv, StreamOK, Streaming, Connected
      <3>2. Stretch(k)'
        BY <3>1, <2>1 DEF Stretch
      <3>3. Ahead(k)'
        BY <3>1, <2>1, <1>1, <1>2 DEF Ahead, Owned
      <3>4. closed'[k]
        BY <2>2, <2>5 DEF Streaming
      <3>5. ASSUME NEW m \in Numbers', Unseen(k, m)' PROVE StillToCome(k, m)'
        <4>1. CASE m = Len(log) + 1
          <5>1. channel[k] # << >> => channel[k][1] \in Numbers
            BY <1>2
          <5> QED
            BY <4>1, <5>1, <2>1, <3>4, <1>1 DEF StillToCome, Numbers
        <4>2. CASE m \in Numbers
          <5>1. Unseen(k, m)
            BY <3>5, <4>2, <1>1 DEF Unseen, Watches
          <5> QED
            BY <5>1, <4>2, <3>1, <2>1, <3>4 DEF StillToCome
        <4> QED
          BY <4>1, <4>2, <1>1
      <3> QED
        BY <3>2, <3>3, <3>5
    <2> QED
      BY <2>4, <2>5 DEF StreamOK
  <1> QED
    BY <1>a, <1>b

\* A step that leaves a handler's variables and its client's cursor alone leaves its
\* stream as it was; losing the connection or flushing the replay does no harm.
LEMMA Steady ==
    ASSUME NEW k \in Handlers, PhaseOK(k), StreamOK(k),
           UNCHANGED <<log, filter>>,
           serves'[k] = serves[k], after'[k] = after[k], replay'[k] = replay[k],
           channel'[k] = channel[k], closed'[k] = closed[k],
           k \in subscribers' <=> k \in subscribers,
           \/ phase'[k] = phase[k]
           \/ phase[k] = "replaying" /\ phase'[k] = "live" /\ replay[k] = {},
           Connected(k)' => Connected(k) /\ cursor'[serves[k]] = cursor[serves[k]]
    PROVE  PhaseOK(k)' /\ StreamOK(k)'
  <1>1. PhaseOK(k)'
    BY DEF PhaseOK
  <1>2. ASSUME Streaming(k)'
        PROVE  Stretch(k)' /\ Ahead(k)' /\ \A m \in Numbers' : Unseen(k, m)' => StillToCome(k, m)'
    <2>1. Streaming(k) /\ cursor'[serves[k]] = cursor[serves[k]]
      BY <1>2 DEF Streaming
    <2>2. Stretch(k) /\ Ahead(k) /\ \A m \in Numbers : Unseen(k, m) => StillToCome(k, m)
      BY <2>1 DEF StreamOK
    <2>3. Stretch(k)'
      BY <2>2 DEF Stretch
    <2>4. Ahead(k)'
      BY <2>1, <2>2 DEF Ahead, Owned
    <2>5. ASSUME NEW m \in Numbers', Unseen(k, m)' PROVE StillToCome(k, m)'
      <3>1. m \in Numbers /\ Unseen(k, m)
        BY <2>1, <2>5 DEF Unseen, Watches, Numbers
      <3> QED
        BY <2>1, <2>2, <3>1 DEF StillToCome
    <2> QED
      BY <2>3, <2>4, <2>5
  <1> QED
    BY <1>1, <1>2 DEF StreamOK

\* What one handler does, the cursor of its own client included, leaves the others steady.
LEMMA OthersSteady ==
    ASSUME TypeOK, NEW h \in Handlers, NEW k \in Handlers, k # h, PhaseOK(k), StreamOK(k),
           UNCHANGED <<log, filter>>,
           phase'[k] = phase[k], serves'[k] = serves[k], after'[k] = after[k],
           replay'[k] = replay[k], channel'[k] = channel[k], closed'[k] = closed[k],
           k \in subscribers' <=> k \in subscribers,
           \/ cursor' = cursor
           \/ Connected(h) /\ \E n \in Nat : cursor' = [cursor EXCEPT ![serves[h]] = n],
           conn' = conn \/ (Connected(h) /\ conn' = [conn EXCEPT ![serves[h]] = None])
    PROVE  PhaseOK(k)' /\ StreamOK(k)'
  <1>1. Connected(k)' => Connected(k) /\ cursor'[serves[k]] = cursor[serves[k]]
    <2>1. SUFFICES ASSUME Connected(k)' PROVE Connected(k) /\ cursor'[serves[k]] = cursor[serves[k]]
      OBVIOUS
    <2>2. serves[k] \in Clients /\ conn'[serves[k]] = k
      BY <2>1 DEF Connected
    <2>3. Connected(k)
      BY <2>2, EventsAssumption DEF Connected, TypeOK
    <2>4. Connected(h) => serves[h] # serves[k]
      BY <2>3 DEF Connected
    <2> QED
      BY <2>2, <2>3, <2>4 DEF Connected, TypeOK
  <1> QED
    BY <1>1, Steady

-----------------------------------------------------------------------------
(* The invariant is inductive.                                             *)

\* No stream is open at first.
LEMMA IInvInit == Init => IInv
  <1> SUFFICES ASSUME Init PROVE IInv
    OBVIOUS
  <1>1. TypeOK
    BY TypeInit
  <1>2. ChannelsSafe
    BY DEF Init, ChannelsSafe
  <1>3. CursorsBehind
    BY DEF Init, CursorsBehind
  <1>4. ASSUME NEW h \in Handlers PROVE PhaseOK(h) /\ StreamOK(h)
    BY DEF Init, PhaseOK, StreamOK, Streaming
  <1> QED
    BY <1>1, <1>2, <1>3, <1>4 DEF IInv

\* A cursor is only ever set to the number of an event in the log, or to none.
LEMMA BehindStep == TypeOK /\ CursorsBehind /\ [Next]_vars => CursorsBehind'
  <1> SUFFICES ASSUME TypeOK, CursorsBehind, [Next]_vars PROVE CursorsBehind'
    OBVIOUS
  <1>1. ASSUME UNCHANGED <<log, cursor>> PROVE CursorsBehind'
    BY <1>1 DEF CursorsBehind
  <1>2. ASSUME NEW e \in Event, Publish(e), UNCHANGED cursor PROVE CursorsBehind'
    BY <1>2, PublishTypes DEF CursorsBehind, TypeOK
  <1>3. ASSUME NEW h \in Handlers, NEW n \in Numbers, writeSSE(h, n), UNCHANGED log
        PROVE  CursorsBehind'
    BY <1>3 DEF writeSSE, CursorsBehind, TypeOK, Numbers
  <1>4. ASSUME NEW a \in Agents, PublisherNext(a) PROVE CursorsBehind'
    <2>1. \A t \in Types : [agent |-> a, type |-> t] \in Event
      BY DEF Event
    <2> QED
      BY <2>1, <1>1, <1>2, <1>4
      DEF PublisherNext, PublishChange, PublishDeleted, FinalizeDelete, Types, busVars, clientVars
  <1>5. ASSUME NEW h \in Handlers, WriteReplay(h) PROVE CursorsBehind'
    <2>1. PICK n \in replay[h] : writeSSE(h, n)
      BY <1>5 DEF WriteReplay
    <2>2. n \in Numbers /\ UNCHANGED log
      BY <1>5 DEF WriteReplay, TypeOK, busVars
    <2> QED
      BY <2>1, <2>2, <1>3
  <1>6. ASSUME NEW h \in Handlers, WriteEvent(h) PROVE CursorsBehind'
    <2>1. channel[h] \in Seq(Numbers) /\ channel[h] # << >> /\ UNCHANGED log
      BY <1>6 DEF WriteEvent, TypeOK, busVars
    <2>2. Head(channel[h]) \in Numbers
      BY <2>1
    <2> QED
      BY <1>6, <2>1, <2>2, <1>1, <1>3 DEF WriteEvent
  <1>7. ASSUME NEW h \in Handlers, CursorExpired(h) PROVE CursorsBehind'
    BY <1>7 DEF CursorExpired, CursorsBehind, TypeOK, Connected
  <1>8. ASSUME NEW h \in Handlers, HandlerNext(h) PROVE CursorsBehind'
    BY <1>8, <1>1, <1>5, <1>6, <1>7
    DEF HandlerNext, Subscribe, Flush, Ends, Quits, busVars, clientVars
  <1> QED
    BY <1>1, <1>4, <1>8
    DEF Next, Disconnect, Request, Restart, vars, busVars, clientVars

\* What is replayed and what was live while it was replayed, and after that the live
\* events: the client is sent the next event that it watches.
LEMMA WritesNext ==
    ASSUME IInv, NEW h \in Handlers, Connected(h), NEW n \in Numbers,
           \/ /\ phase[h] = "replaying" /\ n \in replay[h]
              /\ \A m \in replay[h] : n <= m
           \/ phase[h] = "live" /\ channel[h] # << >> /\ n = channel[h][1]
    PROVE  /\ n > cursor[serves[h]] /\ cursor[serves[h]] \in Nat
           /\ cursor[serves[h]] # 0 => \A m \in Numbers : m < n => ~Unseen(h, m)
  <1>1. Streaming(h)
    BY DEF Streaming
  <1>2. /\ Ahead(h) /\ PhaseOK(h)
        /\ \A m \in Numbers : Unseen(h, m) => StillToCome(h, m)
    BY <1>1 DEF IInv, StreamOK
  <1>3. cursor[serves[h]] \in Nat /\ n > cursor[serves[h]]
    BY <1>2 DEF Connected, IInv, TypeOK, Ahead
  <1>4. channel[h] # << >> => channel[h][1] \in Nat
    BY DEF IInv, TypeOK, Numbers
  <1>5. ASSUME NEW m \in Numbers, m < n, cursor[serves[h]] # 0, Unseen(h, m) PROVE FALSE
    <2>1. StillToCome(h, m) /\ m \in Nat /\ n \in Nat
      BY <1>2, <1>5 DEF Numbers, IInv, TypeOK
    <2>2. CASE phase[h] = "replaying"
      BY <2>1, <2>2, <1>2, <1>4, <1>5 DEF StillToCome, Ahead, PhaseOK
    <2>3. CASE phase[h] = "live"
      BY <2>1, <2>3, <1>2, <1>4, <1>5 DEF StillToCome, PhaseOK
    <2> QED
      BY <2>2, <2>3
  <1> QED
    BY <1>3, <1>5

\* Each step leaves each stream whole: a subscription begins after the cursor, and what a
\* handler writes is the next event of its replay or of its channel.
LEMMA StreamStep ==
    ASSUME IInv, [Next]_vars, NEW k \in Handlers
    PROVE  PhaseOK(k)' /\ StreamOK(k)'
  <1> USE EventsAssumption
  <1>0. TypeOK /\ PhaseOK(k) /\ StreamOK(k)
    BY DEF IInv
  <1>1. ASSUME NEW a \in Agents, PublishChange(a) \/ PublishDeleted(a)
        PROVE  PhaseOK(k)' /\ StreamOK(k)'
    <2>1. \A t \in Types : [agent |-> a, type |-> t] \in Event
      BY DEF Event
    <2>2. \E e \in Event : Publish(e)
      BY <1>1, <2>1 DEF PublishChange, PublishDeleted, Types
    <2>3. UNCHANGED <<phase, serves, after, replay, filter, conn, cursor>>
      BY <1>1 DEF PublishChange, PublishDeleted, clientVars
    <2> QED
      BY <2>2, <2>3, PublishStreams
  <1>2. ASSUME UNCHANGED <<busVars, handlerVars, clientVars>>
        PROVE  PhaseOK(k)' /\ StreamOK(k)'
    <2>1. Connected(k)' => Connected(k) /\ cursor'[serves[k]] = cursor[serves[k]]
      BY <1>2 DEF Connected, clientVars, handlerVars
    <2> QED
      BY <1>0, <1>2, <2>1, Steady DEF busVars, handlerVars, clientVars
  <1>3. ASSUME NEW c \in Clients, NEW h \in Handlers, Request(c, h)
        PROVE  PhaseOK(k)' /\ StreamOK(k)'
    <2>1. /\ UNCHANGED <<log, filter, cursor, subscribers>>
          /\ replay'[k] = replay[k] /\ channel'[k] = channel[k] /\ closed'[k] = closed[k]
      BY <1>3 DEF Request, busVars
    <2>2. CASE UNCHANGED <<phase, serves, after, conn>>
      <3>1. Connected(k)' => Connected(k) /\ cursor'[serves[k]] = cursor[serves[k]]
        BY <2>1, <2>2 DEF Connected
      <3> QED
        BY <1>0, <2>1, <2>2, <3>1, Steady
    <2>3. CASE /\ phase' = [phase EXCEPT ![h] = "checked"]
               /\ serves' = [serves EXCEPT ![h] = c]
               /\ after' = [after EXCEPT ![h] = cursor[c]]
               /\ conn' = [conn EXCEPT ![c] = h]
      <3>1. CASE k = h
        <4>1. phase'[k] = "checked" /\ after'[k] = cursor'[serves'[k]]
          BY <1>0, <2>1, <2>3, <3>1 DEF TypeOK
        <4> QED
          BY <4>1 DEF PhaseOK, StreamOK, Streaming
      <3>2. CASE k # h
        <4>1. phase'[k] = phase[k] /\ serves'[k] = serves[k] /\ after'[k] = after[k]
          BY <1>0, <2>3, <3>2 DEF TypeOK
        <4>2. Connected(k)' => Connected(k) /\ cursor'[serves[k]] = cursor[serves[k]]
          BY <1>0, <2>1, <2>3, <3>2, <4>1 DEF Connected, TypeOK
        <4> QED
          BY <1>0, <2>1, <4>1, <4>2, Steady
      <3> QED
        BY <3>1, <3>2
    <2> QED
      BY <1>3, <2>2, <2>3 DEF Request
  <1>4. ASSUME NEW h \in Handlers, Subscribe(h)
        PROVE  PhaseOK(k)' /\ StreamOK(k)'
    <2>1. CASE k # h
      <3>1. /\ phase'[k] = phase[k] /\ replay'[k] = replay[k] /\ channel'[k] = channel[k]
            /\ closed'[k] = closed[k] /\ (k \in subscribers' <=> k \in subscribers)
            /\ UNCHANGED <<log, filter, serves, after, conn, cursor>>
        BY <1>0, <1>4, <2>1 DEF Subscribe, TypeOK, clientVars
      <3> QED
        BY <1>0, <3>1, <2>1, OthersSteady
    <2>2. CASE k = h
      <3>1. /\ phase[k] = "checked" /\ phase'[k] = "replaying" /\ CursorValid(after[k])
            /\ replay'[k] = Replay(k) /\ channel'[k] = << >> /\ closed'[k] = FALSE
            /\ UNCHANGED <<log, filter, serves, after, conn, cursor>>
        BY <1>0, <1>4, <2>2 DEF Subscribe, TypeOK, clientVars
      <3>2. PhaseOK(k)'
        BY <3>1 DEF PhaseOK
      <3>3. ASSUME Streaming(k)'
            PROVE  Stretch(k)' /\ Ahead(k)' /\ \A m \in Numbers' : Unseen(k, m)' => StillToCome(k, m)'
        <4>1. Connected(k) /\ after[k] = cursor[serves[k]]
          BY <3>1, <3>3, <1>0 DEF Streaming, Connected, PhaseOK
        <4>2. Stretch(k)'
          BY <3>1 DEF Stretch
        <4>3. Ahead(k)'
          BY <3>1, <4>1 DEF Ahead, Replay, Owned
        <4>4. ASSUME NEW m \in Numbers', Unseen(k, m)' PROVE StillToCome(k, m)'
          <5>1. /\ m \in Numbers /\ m > cursor[serves[k]]
                /\ log[m].agent \in Watches(serves[k])
            BY <4>4, <3>1 DEF Unseen, Watches, Numbers
          <5>2. Owned(k, m) /\ m \in 1..Len(log) /\ Len(log) \in Nat /\ oldest \in Nat /\ after[k] \in Nat
            <6>1. Owned(k, m) /\ m \in 1..Len(log)
              BY <5>1 DEF Owned, Watches, Numbers
            <6>2. Len(log) \in Nat /\ oldest \in 1..(Len(log) + 1) /\ after[k] \in Nat
              BY <1>0 DEF TypeOK
            <6> QED
              BY <6>1, <6>2
          <5>3. CASE m >= oldest
            BY <5>1, <5>2, <5>3, <4>1, <3>1 DEF StillToCome, Replay
          <5>4. CASE m < oldest
            <6>1. cursor[serves[k]] = 0
              BY <5>1, <5>2, <5>4, <4>1, <3>1 DEF CursorValid
            <6>2. \A n \in Replay(k) : m < n
              BY <5>2, <5>4 DEF Replay
            <6> QED
              BY <6>1, <6>2, <3>1 DEF StillToCome
          <5> QED
            BY <5>2, <5>3, <5>4
        <4> QED
          BY <4>2, <4>3, <4>4
      <3> QED
        BY <3>2, <3>3 DEF StreamOK
    <2> QED
      BY <2>1, <2>2
  <1>5. ASSUME NEW h \in Handlers, Returns(h), UNCHANGED <<log, filter>>,
               \/ cursor' = cursor
               \/ Connected(h) /\ cursor' = [cursor EXCEPT ![serves[h]] = 0]
        PROVE  PhaseOK(k)' /\ StreamOK(k)'
    <2>1. CASE k = h
      <3>1. phase'[k] = "idle"
        BY <1>0, <1>5, <2>1 DEF Returns, TypeOK
      <3> QED
        BY <3>1 DEF PhaseOK, StreamOK, Streaming
    <2>2. CASE k # h
      <3>1. /\ phase'[k] = phase[k] /\ serves'[k] = serves[k] /\ after'[k] = after[k]
            /\ replay'[k] = replay[k] /\ channel'[k] = channel[k] /\ closed'[k] = closed[k]
            /\ (k \in subscribers' <=> k \in subscribers)
        BY <1>0, <1>5, <2>2 DEF Returns, cancel, TypeOK
      <3>2. conn' = conn \/ (Connected(h) /\ conn' = [conn EXCEPT ![serves[h]] = None])
        BY <1>5 DEF Returns
      <3> QED
        BY <1>0, <1>5, <2>2, <3>1, <3>2, OthersSteady
    <2> QED
      BY <2>1, <2>2
  <1>6. ASSUME NEW h \in Handlers, Flush(h)
        PROVE  PhaseOK(k)' /\ StreamOK(k)'
    <2>1. /\ UNCHANGED <<log, filter, serves, after, replay, channel, closed, subscribers, conn, cursor>>
          /\ \/ phase'[k] = phase[k]
             \/ phase[k] = "replaying" /\ phase'[k] = "live" /\ replay[k] = {}
      BY <1>0, <1>6 DEF Flush, TypeOK, busVars, clientVars
    <2>2. Connected(k)' => Connected(k) /\ cursor'[serves[k]] = cursor[serves[k]]
      BY <2>1 DEF Connected
    <2> QED
      BY <1>0, <2>1, <2>2, Steady
  <1>7. ASSUME NEW h \in Handlers, WriteReplay(h)
        PROVE  PhaseOK(k)' /\ StreamOK(k)'
    <2>1. PICK n \in replay[h] : /\ \A m \in replay[h] : n <= m
                                 /\ writeSSE(h, n)
                                 /\ replay' = [replay EXCEPT ![h] = @ \ {n}]
      BY <1>7 DEF WriteReplay
    <2>2. /\ n \in Numbers /\ n \in Nat /\ phase[h] = "replaying"
          /\ UNCHANGED <<log, subscribers, phase, serves, after, channel, closed, filter, conn>>
      BY <1>0, <1>7 DEF WriteReplay, TypeOK, busVars, Numbers
    <2>3. CASE k # h
      <3>1. replay'[k] = replay[k]
        BY <1>0, <2>1, <2>3 DEF TypeOK
      <3>2. \/ cursor' = cursor
            \/ Connected(h) /\ \E i \in Nat : cursor' = [cursor EXCEPT ![serves[h]] = i]
        BY <2>1, <2>2 DEF writeSSE
      <3> QED
        BY <1>0, <2>2, <2>3, <3>1, <3>2, OthersSteady
    <2>4. CASE k = h
      <3>1. replay'[k] = replay[k] \ {n}
        BY <1>0, <2>1, <2>4 DEF TypeOK
      <3>2. PhaseOK(k)'
        BY <1>0, <2>2, <2>4 DEF PhaseOK
      <3>3. ASSUME Streaming(k)'
            PROVE  Stretch(k)' /\ Ahead(k)' /\ \A m \in Numbers' : Unseen(k, m)' => StillToCome(k, m)'
        <4>1. Connected(k) /\ serves[k] \in Clients
          BY <3>3, <2>2 DEF Streaming, Connected
        <4>2. Stretch(k) /\ Ahead(k) /\ \A m \in Numbers : Unseen(k, m) => StillToCome(k, m)
          BY <4>1, <1>0, <2>2, <2>4 DEF StreamOK, Streaming
        <4>3. n > cursor[serves[k]] /\ cursor[serves[k]] \in Nat
          BY <4>1, <2>1, <2>2, <2>4, WritesNext
        <4>4. \/ cursor'[serves[k]] = n
              \/ cursor'[serves[k]] = cursor[serves[k]] /\ ~Filtered(k, n)
          BY <4>1, <2>1, <2>4, <1>0 DEF writeSSE, TypeOK
        <4>5. replay[k] \subseteq Nat /\ (channel[k] # << >> => channel[k][1] \in Nat)
          <5>1. replay[k] \subseteq Numbers /\ channel[k] \in Seq(Numbers)
            BY <1>0 DEF TypeOK
          <5>2. Numbers \subseteq Nat
            BY DEF Numbers
          <5>3. channel[k] # << >> => channel[k][1] \in Numbers
            BY <5>1
          <5> QED
            BY <5>1, <5>2, <5>3
        <4>6. Stretch(k)'
          BY <4>2, <2>2 DEF Stretch
        <4>7. Ahead(k)'
          <5>1. ASSUME NEW i \in replay'[k]
                PROVE  /\ i > cursor'[serves[k]] /\ Owned(k, i)
                       /\ channel[k] # << >> => i < channel[k][1]
            BY <5>1, <3>1, <4>2, <4>3, <4>4, <4>5, <2>1, <2>4 DEF Ahead
          <5>2. channel[k] # << >> => channel[k][1] > cursor'[serves[k]]
            BY <4>2, <4>4, <4>5, <2>1, <2>4 DEF Ahead
          <5> QED
            BY <5>1, <5>2, <2>2 DEF Ahead, Owned
        <4>8. ASSUME NEW m \in Numbers', Unseen(k, m)' PROVE StillToCome(k, m)'
          <5>1. /\ m \in Numbers /\ m \in Nat /\ m > cursor'[serves[k]]
                /\ log[m].agent \in Watches(serves[k])
            BY <4>8, <2>2, <1>0 DEF Unseen, Watches, Numbers, TypeOK
          <5>2. Unseen(k, m)
            <6>1. m > cursor[serves[k]]
              BY <5>1, <4>3, <4>4, <2>2
            <6> QED
              BY <6>1, <5>1 DEF Unseen
          <5>3. StillToCome(k, m)
            BY <5>1, <5>2, <4>2
          <5>4. m # n
            <6>1. SUFFICES ASSUME m = n PROVE FALSE
              OBVIOUS
            <6>2. ~Filtered(k, n)
              BY <6>1, <5>1, <4>4
            <6> QED
              BY <6>1, <6>2, <5>1 DEF Filtered, Watches
          <5>5. cursor[serves[k]] = 0 /\ (\A i \in replay[k] : m < i) => cursor'[serves[k]] = 0
            BY <5>1, <4>4, <2>1, <2>2, <2>4
          <5> QED
            BY <5>3, <5>4, <5>5, <3>1, <2>2 DEF StillToCome
        <4> QED
          BY <4>6, <4>7, <4>8
      <3> QED
        BY <3>2, <3>3 DEF StreamOK
    <2> QED
      BY <2>3, <2>4
  <1>8. ASSUME NEW h \in Handlers, WriteEvent(h)
        PROVE  PhaseOK(k)' /\ StreamOK(k)'
    <2> DEFINE n == channel[h][1]
    <2>1. /\ phase[h] = "live" /\ channel[h] # << >> /\ channel[h] \in Seq(Numbers)
          /\ UNCHANGED <<log, subscribers, phase, serves, after, replay, closed, filter, conn>>
          /\ channel' = [channel EXCEPT ![h] = Tail(@)]
      BY <1>0, <1>8 DEF WriteEvent, TypeOK, busVars
    <2>2. n = Head(channel[h]) /\ n \in Numbers /\ n \in Nat
      <3>1. n = Head(channel[h]) /\ n \in Numbers
        BY <2>1
      <3> QED
        BY <3>1 DEF Numbers
    <2>3. IF Owned(h, n) THEN writeSSE(h, n) ELSE UNCHANGED cursor
      BY <1>8, <2>2 DEF WriteEvent
    <2> HIDE DEF n
    <2>4. CASE k # h
      <3>1. channel'[k] = channel[k]
        BY <1>0, <2>1, <2>4 DEF TypeOK
      <3>2. \/ cursor' = cursor
            \/ Connected(h) /\ \E i \in Nat : cursor' = [cursor EXCEPT ![serves[h]] = i]
        BY <2>2, <2>3 DEF writeSSE
      <3> QED
        BY <1>0, <2>1, <2>4, <3>1, <3>2, OthersSteady
    <2>5. CASE k = h
      <3>1. channel'[k] = Tail(channel[k])
        BY <1>0, <2>1, <2>5 DEF TypeOK
      <3>2. PhaseOK(k)'
        BY <1>0, <2>1, <2>5 DEF PhaseOK
      <3>3. ASSUME Streaming(k)'
            PROVE  Stretch(k)' /\ Ahead(k)' /\ \A m \in Numbers' : Unseen(k, m)' => StillToCome(k, m)'
        <4>1. Connected(k) /\ serves[k] \in Clients
          BY <3>3, <2>1 DEF Streaming, Connected
        <4>2. Stretch(k) /\ Ahead(k) /\ \A m \in Numbers : Unseen(k, m) => StillToCome(k, m)
          BY <4>1, <1>0, <2>1, <2>5 DEF StreamOK, Streaming
        <4>3. n > cursor[serves[k]] /\ cursor[serves[k]] \in Nat
          BY <4>1, <2>1, <2>2, <2>5, WritesNext DEF n
        <4>4. \/ cursor'[serves[k]] = n
              \/ cursor'[serves[k]] = cursor[serves[k]] /\ ~(Owned(k, n) /\ Filtered(k, n))
          BY <4>1, <2>3, <2>5, <1>0 DEF writeSSE, TypeOK
        <4>5. replay[k] = {} /\ replay'[k] = {}
          BY <1>0, <2>1, <2>5 DEF PhaseOK
        <4>6. /\ Len(channel[k]) \in Nat \ {0} /\ Len(channel'[k]) = Len(channel[k]) - 1
              /\ \A i \in 1..(Len(channel[k]) - 1) : channel'[k][i] = channel[k][i + 1]
              /\ channel'[k] = << >> <=> Len(channel[k]) = 1
          <5>1. channel[k] \in Seq(Numbers) /\ channel[k] # << >>
            BY <2>1, <2>5
          <5>2. Len(channel[k]) \in Nat \ {0}
            BY <5>1
          <5>3. /\ Tail(channel[k]) \in Seq(Numbers)
                /\ Len(Tail(channel[k])) = Len(channel[k]) - 1
            BY <5>1
          <5>4. \A i \in 1..(Len(channel[k]) - 1) : Tail(channel[k])[i] = channel[k][i + 1]
            BY <5>1
          <5>5. Tail(channel[k]) = << >> <=> Len(channel[k]) = 1
            <6>1. \A s \in Seq(Numbers) : s = << >> <=> Len(s) = 0
              OBVIOUS
            <6>2. Tail(channel[k]) = << >> <=> Len(Tail(channel[k])) = 0
              BY <5>3, <6>1
            <6> QED
              BY <5>2, <5>3, <6>2
          <5> QED
            BY <5>2, <5>3, <5>4, <5>5, <3>1
        <4>7. channel'[k] # << >> => channel'[k][1] = n + 1
          BY <4>2, <4>6, <2>5 DEF Stretch, n
        <4>8. Stretch(k)'
          <5>1. ASSUME NEW i \in 1..(Len(channel'[k]) - 1)
                PROVE  channel'[k][i + 1] = channel'[k][i] + 1
            <6>1. /\ i \in 1..(Len(channel[k]) - 1) /\ i + 1 \in 1..(Len(channel[k]) - 1)
              BY <4>6
            <6> QED
              BY <6>1, <4>2, <4>6 DEF Stretch
          <5>2. ASSUME k \in subscribers', channel'[k] # << >>
                PROVE  channel'[k][Len(channel'[k])] = Len(log')
            <6>1. k \in subscribers /\ Len(channel'[k]) \in 1..(Len(channel[k]) - 1)
              BY <5>2, <4>6, <2>1
            <6> QED
              BY <6>1, <4>2, <4>6, <2>1, <2>5 DEF Stretch
          <5> QED
            BY <5>1, <5>2 DEF Stretch
        <4>9. Ahead(k)'
          <5>1. channel'[k] # << >> => channel'[k][1] > cursor'[serves[k]]
            BY <4>3, <4>4, <4>7, <2>2
          <5>2. serves'[k] = serves[k]
            BY <2>1
          <5> QED
            BY <5>1, <5>2, <4>5 DEF Ahead
        <4>10. ASSUME NEW m \in Numbers', Unseen(k, m)' PROVE StillToCome(k, m)'
          <5>1. /\ m \in Numbers /\ m \in Nat /\ m <= Len(log) /\ m > cursor'[serves[k]]
                /\ log[m].agent \in Watches(serves[k])
            BY <4>10, <2>1, <1>0 DEF Unseen, Watches, Numbers, TypeOK
          <5>2. Unseen(k, m)
            <6>1. m > cursor[serves[k]]
              BY <5>1, <4>3, <4>4, <2>2
            <6> QED
              BY <6>1, <5>1 DEF Unseen
          <5>3. StillToCome(k, m)
            BY <5>1, <5>2, <4>2
          <5>4. m # n
            <6>1. SUFFICES ASSUME m = n PROVE FALSE
              OBVIOUS
            <6>2. ~(Owned(k, n) /\ Filtered(k, n))
              BY <6>1, <5>1, <4>4, <2>2
            <6> QED
              BY <6>1, <6>2, <5>1 DEF Filtered, Owned, Watches
          <5>5. CASE m > n
            <6>1. CASE channel'[k] # << >>
              BY <6>1, <5>5, <5>1, <2>2, <4>7 DEF StillToCome
            <6>2. CASE channel'[k] = << >>
              <7>1. k \notin subscribers
                BY <6>2, <5>5, <5>1, <2>1, <2>2, <2>5, <4>2, <4>6 DEF Stretch, n
              <7>2. closed[k]
                BY <7>1, <2>1, <2>5 DEF IInv, ChannelsSafe
              <7> QED
                BY <6>2, <7>2, <2>1 DEF StillToCome
            <6> QED
              BY <6>1, <6>2
          <5>6. CASE m < n
            <6>1. cursor[serves[k]] = 0
              BY <5>3, <5>6, <5>1, <2>1, <2>2, <2>5, <4>5 DEF StillToCome, n
            <6>2. cursor'[serves[k]] = 0
              BY <6>1, <5>1, <5>6, <4>4, <2>2
            <6>3. channel'[k] # << >> => m < channel'[k][1]
              BY <4>7, <5>6, <5>1, <2>2
            <6>4. serves'[k] = serves[k]
              BY <2>1
            <6> QED
              BY <6>2, <6>3, <6>4, <4>5 DEF StillToCome
          <5> QED
            BY <5>1, <5>4, <5>5, <5>6, <2>2
        <4> QED
          BY <4>8, <4>9, <4>10
      <3> QED
        BY <3>2, <3>3 DEF StreamOK
    <2> QED
      BY <2>4, <2>5
  <1>9. ASSUME NEW c \in Clients, Disconnect(c)
        PROVE  PhaseOK(k)' /\ StreamOK(k)'
    <2>1. /\ UNCHANGED <<busVars, handlerVars, filter, cursor>>
          /\ conn' = [conn EXCEPT ![c] = None]
      BY <1>9 DEF Disconnect
    <2>2. Connected(k)' => Connected(k) /\ cursor'[serves[k]] = cursor[serves[k]]
      BY <1>0, <2>1 DEF Connected, TypeOK, handlerVars
    <2> QED
      BY <1>0, <2>1, <2>2, Steady DEF busVars, handlerVars
  <1>10. ASSUME Restart
         PROVE  PhaseOK(k)' /\ StreamOK(k)'
    BY <1>10 DEF Restart, PhaseOK, StreamOK, Streaming
  <1>11. ASSUME NEW h \in Handlers, HandlerNext(h)
         PROVE  PhaseOK(k)' /\ StreamOK(k)'
    BY <1>11, <1>4, <1>5, <1>6, <1>7, <1>8
    DEF HandlerNext, CursorExpired, Ends, Quits
  <1> QED
    BY <1>1, <1>2, <1>3, <1>9, <1>10, <1>11
    DEF Next, PublisherNext, FinalizeDelete, vars

\* The parts together are inductive.
LEMMA IInvStep == IInv /\ [Next]_vars => IInv'
  <1> SUFFICES ASSUME IInv, [Next]_vars PROVE IInv'
    OBVIOUS
  <1>1. TypeOK' /\ ChannelsSafe' /\ CursorsBehind'
    BY TypeStep, SafeStep, BehindStep DEF IInv
  <1>2. \A k \in Handlers : PhaseOK(k)' /\ StreamOK(k)'
    BY StreamStep
  <1> QED
    BY <1>1, <1>2 DEF IInv

-----------------------------------------------------------------------------
(* The refinement.                                                         *)

\* The first states are first states of the feed.
LEMMA FeedInit == Init => Feed!Init
  BY DEF Init, Feed!Init, Watches

\* A handler that writes an event to a client that is there lets it see the next one
\* it watches; to one that is not, or that did not ask for it, nothing happens.
LEMMA FeedWrites ==
    ASSUME IInv, NEW h \in Handlers, NEW n \in Numbers, writeSSE(h, n), Owned(h, n),
           UNCHANGED <<log, filter>>,
           \/ /\ phase[h] = "replaying" /\ n \in replay[h]
              /\ \A m \in replay[h] : n <= m
           \/ phase[h] = "live" /\ channel[h] # << >> /\ n = channel[h][1]
    PROVE  [Feed!Next]_(Feed!vars)
  <1>1. CASE Connected(h) /\ Filtered(h, n)
    <2> DEFINE c == serves[h]
    <2>1. c \in Clients /\ cursor' = [cursor EXCEPT ![c] = n]
      BY <1>1 DEF Connected, writeSSE
    <2>2. n > cursor[c] /\ cursor[c] # 0 => \A m \in Numbers : m < n => ~Unseen(h, m)
      BY <1>1, WritesNext
    <2>3. n > cursor[c]
      BY <1>1, WritesNext
    <2>4. log[n] \in Event
      BY DEF IInv, TypeOK, Numbers
    <2>5. log[n].agent \in Watches(c)
      BY <1>1, <2>4 DEF Owned, Filtered, Watches, Event
    <2>6. Feed!Sees(c, n)
      <3>1. ASSUME cursor[c] # 0, NEW m \in 1..Len(log), cursor[c] < m, m < n
            PROVE  ~(log[m].agent \in Watches(c))
        <4>1. cursor[c] \in Nat /\ m \in Nat
          BY <2>1 DEF IInv, TypeOK
        <4> QED
          BY <2>2, <2>3, <3>1, <4>1 DEF Unseen, Numbers
      <3>2. cursor[c] < n
        BY <2>1, <2>3 DEF IInv, TypeOK, Numbers
      <3> QED
        BY <2>1, <2>5, <3>1, <3>2 DEF Feed!Sees, Feed!Wanted, Watches
    <2> QED
      BY <2>1, <2>6 DEF Feed!Next, Numbers
  <1>2. CASE ~(Connected(h) /\ Filtered(h, n))
    BY <1>2 DEF writeSSE, Feed!vars, Watches
  <1> QED
    BY <1>1, <1>2

\* A step publishes, shows a client its next event, takes its place away, or is a stutter.
LEMMA FeedStep == IInv /\ [Next]_vars => [Feed!Next]_(Feed!vars)
  <1> SUFFICES ASSUME IInv, [Next]_vars PROVE [Feed!Next]_(Feed!vars)
    OBVIOUS
  <1>0. TypeOK
    BY DEF IInv
  <1>1. ASSUME UNCHANGED <<log, cursor, filter>> PROVE [Feed!Next]_(Feed!vars)
    BY <1>1 DEF Feed!vars, Watches
  <1>2. ASSUME NEW a \in Agents, PublishChange(a) \/ PublishDeleted(a)
        PROVE  [Feed!Next]_(Feed!vars)
    <2>1. PICK t \in Types : Publish([agent |-> a, type |-> t])
      BY <1>2 DEF PublishChange, PublishDeleted, Types
    <2>2. [agent |-> a, type |-> t] \in Feed!Event
      BY DEF Feed!Event
    <2>3. Feed!Publish([agent |-> a, type |-> t])
      BY <1>2, <2>1 DEF Feed!Publish, Publish, PublishChange, PublishDeleted, clientVars, Watches
    <2> QED
      BY <2>2, <2>3 DEF Feed!Next
  <1>3. ASSUME NEW h \in Handlers, CursorExpired(h) PROVE [Feed!Next]_(Feed!vars)
    <2>1. CASE Connected(h)
      <3>1. serves[h] \in Clients /\ cursor' = [cursor EXCEPT ![serves[h]] = 0] /\ UNCHANGED <<log, filter>>
        BY <1>3, <2>1 DEF CursorExpired, Connected
      <3>2. Feed!LosesPlace(serves[h])
        BY <3>1 DEF Feed!LosesPlace, Watches
      <3> QED
        BY <3>1, <3>2 DEF Feed!Next
    <2>2. CASE ~Connected(h)
      BY <1>1, <1>3, <2>2 DEF CursorExpired
    <2> QED
      BY <2>1, <2>2
  <1>4. ASSUME NEW h \in Handlers, WriteReplay(h) PROVE [Feed!Next]_(Feed!vars)
    <2>1. PICK n \in replay[h] : (\A m \in replay[h] : n <= m) /\ writeSSE(h, n)
      BY <1>4 DEF WriteReplay
    <2>2. n \in Numbers /\ phase[h] = "replaying" /\ UNCHANGED <<log, filter, conn, serves, phase>>
      BY <1>0, <1>4 DEF WriteReplay, TypeOK, busVars
    <2>3. CASE Connected(h)
      <3>1. Owned(h, n)
        BY <2>1, <2>2, <2>3 DEF IInv, StreamOK, Streaming, Ahead
      <3> QED
        BY <2>1, <2>2, <3>1, FeedWrites
    <2>4. CASE ~Connected(h)
      BY <2>1, <2>2, <2>4, <1>1 DEF writeSSE
    <2> QED
      BY <2>3, <2>4
  <1>5. ASSUME NEW h \in Handlers, WriteEvent(h) PROVE [Feed!Next]_(Feed!vars)
    <2>1. /\ phase[h] = "live" /\ channel[h] # << >> /\ channel[h] \in Seq(Numbers)
          /\ UNCHANGED <<log, filter>>
      BY <1>0, <1>5 DEF WriteEvent, TypeOK, busVars
    <2>2. Head(channel[h]) = channel[h][1] /\ channel[h][1] \in Numbers
      BY <2>1
    <2>3. CASE Owned(h, channel[h][1])
      <3>1. writeSSE(h, channel[h][1])
        BY <1>5, <2>2, <2>3 DEF WriteEvent
      <3> QED
        BY <2>1, <2>2, <2>3, <3>1, FeedWrites
    <2>4. CASE ~Owned(h, channel[h][1])
      BY <1>1, <1>5, <2>1, <2>2, <2>4 DEF WriteEvent
    <2> QED
      BY <2>3, <2>4
  <1>6. ASSUME NEW h \in Handlers, HandlerNext(h) PROVE [Feed!Next]_(Feed!vars)
    BY <1>6, <1>1, <1>3, <1>4, <1>5
    DEF HandlerNext, Subscribe, Flush, Ends, Quits, busVars, clientVars
  <1>7. ASSUME NEW a \in Agents, PublisherNext(a) PROVE [Feed!Next]_(Feed!vars)
    BY <1>7, <1>1, <1>2 DEF PublisherNext, FinalizeDelete, busVars, clientVars
  <1> QED
    BY <1>1, <1>6, <1>7
    DEF Next, Disconnect, Request, Restart, vars, busVars, clientVars

-----------------------------------------------------------------------------
(* Theorems.                                                               *)

\* The history never holds more events than its capacity and no subscriber's channel
\* more than its own, whatever the number of subscribers and agents.
THEOREM TypeCorrect == Spec => []TypeOK
  BY TypeInit, TypeStep, PTL DEF Spec

\* The subscribers of the bus are exactly the handlers that read a channel which is
\* open: Publish never sends on a channel that it or cancel has closed.
THEOREM ChannelsAreSafe == Spec => []ChannelsSafe
  <1>1. Init => ChannelsSafe
    BY DEF Init, ChannelsSafe
  <1> QED
    BY <1>1, TypeCorrect, SafeStep, PTL DEF Spec

\* No agent goes without its agent.deleted, however often its finalization fails and
\* the control plane restarts between the two.
THEOREM GoneIsAnnounced == Spec => []GoneAnnounced
  <1>1. Init => AnnouncedOK
    BY DEF Init, AnnouncedOK
  <1>2. AnnouncedOK => GoneAnnounced
    BY DEF AnnouncedOK, GoneAnnounced
  <1> QED
    BY <1>1, <1>2, TypeCorrect, AnnouncedStep, PTL DEF Spec

\* The event bus and the handlers of its streams implement the feed: a client sees the
\* events it watches in order, once and with none left out, or is told.
THEOREM FeedIsImplemented == Spec => ImplementsFeed
  BY IInvInit, IInvStep, FeedInit, FeedStep, PTL DEF Spec, ImplementsFeed, Feed!Spec
=============================================================================
