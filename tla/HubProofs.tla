----------------------------- MODULE HubProofs -----------------------------
(***************************************************************************)
(* Proofs about the runner's hub, for any number of attachments, any queue *)
(* and replay limits and any bounds.                                       *)
(*                                                                         *)
(* The helpers that run under hub.mu are functions of the hub's state, so  *)
(* each gets a lemma: it keeps a well-formed hub (HubOK) well formed and   *)
(* changes no more than a lease-losing step may (Shrinks).  The inductive  *)
(* invariant adds what ties the hub to controlMu and to the handlers.      *)
(*                                                                         *)
(* Three further invariants are built on it: Known, what an attachment     *)
(* knows of its lease once its queue has been read out; ReplayExact, an    *)
(* induction over the totals of BytesOf; and Streaming, what a reader has  *)
(* been written, has in its connection and has still queued, taken as one  *)
(* sequence.                                                               *)
(***************************************************************************)
EXTENDS Hub, FiniteSetTheorems, TLAPS

\* The lease is the newest one issued, and nil is one value.
ControllerNewest(h) ==
    IF h.controller.attachment = None
    THEN h.controller = NoLease
    ELSE h.controller.lease = h.issued /\ h.issued # 0

Agrees(h) ==
    \A a \in h.subscribers :
        /\ h.leaseID[a] # 0 <=> h.controller.attachment = a
        /\ h.leaseID[a] # 0 => h.controller.lease = h.leaseID[a] /\ h.role[a] = "control"
        /\ h.leaseID[a] = 0 => h.role[a] = "observe"

QueuesFit(h) == \A a \in Attachments : Len(h.queue[a]) <= SubscriberBuffer

HubOK(h) == h \in HubState /\ QueuesFit(h) /\ ControllerNewest(h) /\ Agrees(h)

\* An attachment the hub knows nothing of yet.
Untouched(h, a) ==
    /\ a \notin h.subscribers
    /\ h.controller.attachment # a
    /\ h.leaseID[a] = 0
    /\ h.role[a] = "observe"

\* From h to g no lease is issued, nobody is subscribed and the lease can only be lost.
Shrinks(h, g) ==
    /\ g.issued = h.issued
    /\ g.subscribers \subseteq h.subscribers
    /\ g.controller.attachment \in {h.controller.attachment, None}
    /\ \A a \in Attachments \ h.subscribers :
          g.leaseID[a] \in {h.leaseID[a], 0} /\ g.role[a] \in {h.role[a], "observe"}

\* A lease-losing step leaves an unknown attachment unknown.
LEMMA UntouchedKept ==
    ASSUME NEW h, NEW g, NEW a \in Attachments, Shrinks(h, g), Untouched(h, a)
    PROVE  Untouched(g, a)
  BY HubAssumption DEF Shrinks, Untouched

\* sendLocked keeps the hub well formed, whether the frame is queued or its
\* receiver evicted.
LEMMA SendOK ==
    ASSUME NEW h, HubOK(h), NEW a \in Attachments, NEW f \in Frame
    PROVE  HubOK(sendLocked(h, a, f)) /\ Shrinks(h, sendLocked(h, a, f))
  <1> DEFINE g == sendLocked(h, a, f)
             q == [h.queue EXCEPT ![a] = Append(h.queue[a], f)]
             c == IF h.controller.attachment = a THEN NoLease ELSE h.controller
  <1>0. h \in HubState
    BY DEF HubOK
  <1>1. CASE Len(h.queue[a]) < SubscriberBuffer
    <2>1. g = [h EXCEPT !.queue = q]
      BY <1>1, Zenon DEF sendLocked
    <2>2. q \in [Attachments -> Seq(Frame)]
      BY <1>0 DEF HubState
    <2>3. \A b \in Attachments : Len(q[b]) <= SubscriberBuffer
      BY <1>0, <1>1, HubAssumption DEF HubOK, HubState, QueuesFit
    <2> HIDE DEF q, g
    <2>4. /\ g \in HubState
          /\ g.queue = q /\ g.subscribers = h.subscribers /\ g.controller = h.controller
          /\ g.issued = h.issued /\ g.role = h.role /\ g.leaseID = h.leaseID
      BY <1>0, <2>1, <2>2 DEF HubState
    <2>5. HubOK(g) /\ Shrinks(h, g)
      BY <2>3, <2>4 DEF HubOK, QueuesFit, ControllerNewest, Agrees, Shrinks
    <2>. QED  BY <2>5 DEF g
  <1>2. CASE ~(Len(h.queue[a]) < SubscriberBuffer)
    <2>1. g = [h EXCEPT !.subscribers = h.subscribers \ {a},
                        !.closed = h.closed \cup {a},
                        !.controller = c]
      BY <1>0, <1>2 DEF sendLocked, HubState
    <2>2. c \in Lease
      BY <1>0 DEF HubState, Lease, NoLease
    <2>3. c.attachment \in {h.controller.attachment, None} /\ c.attachment # a
      BY HubAssumption DEF NoLease
    <2>4. c.attachment # None => c = h.controller
      BY DEF NoLease
    <2>5. c.attachment = None => c = NoLease
      BY DEF HubOK, ControllerNewest
    <2> HIDE DEF c, g
    <2>6. /\ g \in HubState
          /\ g.queue = h.queue /\ g.subscribers = h.subscribers \ {a} /\ g.controller = c
          /\ g.issued = h.issued /\ g.role = h.role /\ g.leaseID = h.leaseID
      BY <1>0, <2>1, <2>2 DEF HubState
    <2>7. Agrees(g)
      BY <1>0, <2>3, <2>4, <2>6, HubAssumption DEF HubOK, Agrees, HubState, c
    <2>8. HubOK(g) /\ Shrinks(h, g)
      BY <2>3, <2>4, <2>5, <2>6, <2>7 DEF HubOK, QueuesFit, ControllerNewest, Shrinks
    <2>. QED  BY <2>8 DEF g
  <1>. QED  BY <1>1, <1>2

\* broadcastLocked: the same for all subscribers at once.
LEMMA BroadcastOK ==
    ASSUME NEW h, HubOK(h), NEW f \in Frame
    PROVE  HubOK(broadcastLocked(h, f)) /\ Shrinks(h, broadcastLocked(h, f))
  <1> DEFINE g == broadcastLocked(h, f)
             slow == {a \in h.subscribers : Len(h.queue[a]) >= SubscriberBuffer}
             quick == h.subscribers \ slow
             c == IF h.controller.attachment \in slow THEN NoLease ELSE h.controller
             q == [a \in Attachments |->
                      IF a \in quick THEN Append(h.queue[a], f) ELSE h.queue[a]]
  <1>0. h \in HubState
    BY DEF HubOK
  <1>1. g = [h EXCEPT !.subscribers = quick, !.closed = h.closed \cup slow,
                      !.controller = c, !.queue = q]
    BY <1>0 DEF broadcastLocked, HubState
  <1>2. q \in [Attachments -> Seq(Frame)]
    BY <1>0 DEF HubState
  <1>3. \A a \in Attachments : Len(q[a]) <= SubscriberBuffer
    <2> SUFFICES ASSUME NEW a \in Attachments PROVE Len(q[a]) <= SubscriberBuffer
      OBVIOUS
    <2>0. h.queue[a] \in Seq(Frame) /\ Len(h.queue[a]) <= SubscriberBuffer
      BY DEF HubOK, QueuesFit, HubState
    <2>1. CASE a \in quick
      BY <2>0, <2>1, HubAssumption
    <2>2. CASE a \notin quick
      BY <2>0, <2>2
    <2>. QED  BY <2>1, <2>2
  <1>4. c \in Lease /\ c.attachment \in {h.controller.attachment, None} /\ c.attachment \notin slow
    BY <1>0, HubAssumption DEF HubState, Lease, NoLease
  <1>5. c = NoLease \/ c = h.controller
    BY Zenon
  <1>6. slow \subseteq Attachments /\ quick \subseteq h.subscribers
    BY <1>0 DEF HubState
  <1>7. \A a \in quick : h.controller.attachment = a <=> c.attachment = a
    BY <1>0, HubAssumption DEF NoLease, HubState
  <1>8. quick \in SUBSET Attachments
    BY <1>0, <1>6 DEF HubState
  <1> HIDE DEF q, c, slow, quick, g
  <1>9. /\ g \in HubState
        /\ g.queue = q /\ g.subscribers = quick /\ g.controller = c
        /\ g.issued = h.issued /\ g.role = h.role /\ g.leaseID = h.leaseID
    BY <1>0, <1>1, <1>2, <1>4, <1>6, <1>8 DEF HubState
  <1>10. Agrees(g)
    <2> SUFFICES ASSUME NEW a \in quick
                 PROVE  /\ h.leaseID[a] # 0 <=> c.attachment = a
                        /\ h.leaseID[a] # 0 => c.lease = h.leaseID[a] /\ h.role[a] = "control"
                        /\ h.leaseID[a] = 0 => h.role[a] = "observe"
      BY <1>9 DEF Agrees
    <2>1. a # None
      BY <1>8, HubAssumption
    <2>2. c = NoLease => c.attachment = None
      BY DEF NoLease
    <2>. QED  BY <1>5, <1>6, <1>7, <2>1, <2>2 DEF HubOK, Agrees
  <1>11. HubOK(g) /\ Shrinks(h, g)
    BY <1>3, <1>4, <1>5, <1>6, <1>9, <1>10, HubAssumption
    DEF HubOK, QueuesFit, ControllerNewest, Shrinks, NoLease
  <1>. QED  BY <1>11 DEF g

\* revokeControllerLocked leaves a well-formed hub without a controller.
LEMMA RevokeOK ==
    ASSUME NEW h, HubOK(h)
    PROVE  /\ HubOK(revokeControllerLocked(h))
           /\ Shrinks(h, revokeControllerLocked(h))
           /\ revokeControllerLocked(h).controller = NoLease
  <1> DEFINE a == h.controller.attachment
             g == revokeControllerLocked(h)
  <1>0. h \in HubState /\ NoLease \in Lease
    BY DEF HubOK, NoLease, Lease
  <1>1. CASE a = None
    BY <1>1, HubAssumption DEF revokeControllerLocked, HubOK, ControllerNewest, Shrinks
  <1>2. CASE a # None /\ a \notin h.subscribers
    <2>1. g = [h EXCEPT !.controller = NoLease]
      BY <1>2 DEF revokeControllerLocked
    <2> HIDE DEF g
    <2>2. /\ g \in HubState
          /\ g.queue = h.queue /\ g.subscribers = h.subscribers /\ g.controller = NoLease
          /\ g.issued = h.issued /\ g.role = h.role /\ g.leaseID = h.leaseID
      BY <1>0, <2>1 DEF HubState
    <2>3. Agrees(g)
      BY <1>0, <1>2, <2>2, HubAssumption DEF HubOK, Agrees, NoLease, HubState
    <2>4. HubOK(g) /\ Shrinks(h, g)
      BY <2>2, <2>3 DEF HubOK, QueuesFit, ControllerNewest, Shrinks, NoLease
    <2>. QED  BY <2>2, <2>4 DEF g
  <1>3. CASE a # None /\ a \in h.subscribers
    <2> DEFINE r == [h.role EXCEPT ![a] = "observe"]
               l == [h.leaseID EXCEPT ![a] = 0]
               d == [h EXCEPT !.role = r, !.leaseID = l]
               s == sendLocked(d, a, Simple("controller_revoked"))
               q == [h.queue EXCEPT ![a] = Append(h.queue[a], Simple("controller_revoked"))]
    <2>0. a \in Attachments
      BY <1>0, <1>3 DEF HubState
    <2>1. g = [s EXCEPT !.controller = NoLease]
      BY <1>0, <1>3 DEF revokeControllerLocked, Demoted, HubState
    <2>2. r \in [Attachments -> {"control", "observe"}] /\ l \in [Attachments -> Nat]
      BY <1>0, <2>0 DEF HubState
    <2>3. Simple("controller_revoked") \in Frame
      BY DEF Simple, Frame, FrameTypes
    <2>4. \A b \in Attachments : IF b = a THEN l[b] = 0 /\ r[b] = "observe"
                                         ELSE l[b] = h.leaseID[b] /\ r[b] = h.role[b]
      BY <1>0, <2>0 DEF HubState
    <2>5. /\ d \in HubState
          /\ d.queue = h.queue /\ d.subscribers = h.subscribers /\ d.closed = h.closed
          /\ d.controller = h.controller /\ d.issued = h.issued /\ d.role = r /\ d.leaseID = l
      <3> HIDE DEF r, l
      <3>. QED  BY <1>0, <2>2 DEF HubState
    <2>6. q \in [Attachments -> Seq(Frame)]
      BY <1>0, <2>0, <2>3 DEF HubState
    <2>7. CASE Len(h.queue[a]) < SubscriberBuffer
      <3>1. s = [d EXCEPT !.queue = q]
        <4> HIDE DEF d
        <4>1. Len(d.queue[a]) < SubscriberBuffer
          BY <2>5, <2>7
        <4>2. s = [d EXCEPT !.queue = [d.queue EXCEPT ![a] = Append(d.queue[a], Simple("controller_revoked"))]]
          BY <4>1, Zenon DEF sendLocked
        <4>. QED  BY <2>5, <4>2
      <3>2. \A b \in Attachments : Len(q[b]) <= SubscriberBuffer
        BY <1>0, <2>0, <2>3, <2>7, HubAssumption DEF HubOK, HubState, QueuesFit
      <3> HIDE DEF q, r, l, d, s, g
      <3>3. /\ s \in HubState
            /\ s.queue = q /\ s.subscribers = h.subscribers
            /\ s.issued = h.issued /\ s.role = r /\ s.leaseID = l
        BY <2>5, <2>6, <3>1 DEF HubState
      <3>4. /\ g \in HubState
            /\ g.queue = q /\ g.subscribers = h.subscribers /\ g.controller = NoLease
            /\ g.issued = h.issued /\ g.role = r /\ g.leaseID = l
        BY <1>0, <2>1, <3>3 DEF HubState
      <3>5. Agrees(g)
        <4> SUFFICES ASSUME NEW b \in g.subscribers
                     PROVE  l[b] = 0 /\ r[b] = "observe" /\ b # None
          BY <3>4 DEF Agrees, NoLease
        <4>1. b \in h.subscribers /\ b \in Attachments /\ b # None
          BY <1>0, <3>2, <3>4, HubAssumption DEF HubState
        <4>2. b # a => h.leaseID[b] = 0 /\ h.role[b] = "observe"
          BY <4>1 DEF HubOK, Agrees
        <4>. QED  BY <2>4, <4>1, <4>2
      <3>6. HubOK(g)
        BY <3>2, <3>4, <3>5 DEF HubOK, QueuesFit, ControllerNewest, NoLease
      <3>7. Shrinks(h, g)
        BY <1>0, <1>3, <2>4, <3>4 DEF Shrinks, NoLease
      <3>. QED  BY <3>4, <3>6, <3>7 DEF g
    <2>8. CASE ~(Len(h.queue[a]) < SubscriberBuffer)
      <3> DEFINE S == h.subscribers \ {a}
      <3>1. s = [d EXCEPT !.subscribers = S,
                          !.closed = h.closed \cup {a},
                          !.controller = NoLease]
        <4> HIDE DEF d
        <4>. QED  BY <2>5, <2>8 DEF sendLocked
      <3>2. S \in SUBSET Attachments /\ S \subseteq h.subscribers
        BY <1>0 DEF HubState
      <3> HIDE DEF r, l, d, s, g
      <3>3. /\ s \in HubState
            /\ s.queue = h.queue /\ s.subscribers = S
            /\ s.issued = h.issued /\ s.role = r /\ s.leaseID = l
        BY <1>0, <2>0, <2>5, <3>1, <3>2 DEF HubState
      <3>4. /\ g \in HubState
            /\ g.queue = h.queue /\ g.subscribers = S /\ g.controller = NoLease
            /\ g.issued = h.issued /\ g.role = r /\ g.leaseID = l
        BY <1>0, <2>1, <3>3 DEF HubState
      <3>5. Agrees(g)
        <4> SUFFICES ASSUME NEW b \in g.subscribers
                     PROVE  l[b] = 0 /\ r[b] = "observe" /\ b # None
          BY <3>4 DEF Agrees, NoLease
        <4>1. b \in h.subscribers /\ b \in Attachments /\ b # None
          BY <1>0, <3>2, <3>4, HubAssumption DEF HubState
        <4>2. b # a => h.leaseID[b] = 0 /\ h.role[b] = "observe"
          BY <4>1 DEF HubOK, Agrees
        <4>. QED  BY <2>4, <4>1, <4>2
      <3>6. HubOK(g)
        BY <3>4, <3>5 DEF HubOK, QueuesFit, ControllerNewest, NoLease
      <3>7. Shrinks(h, g)
        BY <1>0, <1>3, <2>4, <3>2, <3>4 DEF Shrinks, NoLease
      <3>. QED  BY <3>4, <3>6, <3>7 DEF g
    <2>. QED  BY <2>7, <2>8
  <1>. QED  BY <1>1, <1>2, <1>3

\* expireControllerLocked revokes or does nothing.
LEMMA ExpireOK ==
    ASSUME NEW h, HubOK(h)
    PROVE  HubOK(expireControllerLocked(h)) /\ Shrinks(h, expireControllerLocked(h))
  <1>1. CASE h.controller.expired
    BY <1>1, RevokeOK DEF expireControllerLocked
  <1>2. CASE ~h.controller.expired
    BY <1>2 DEF expireControllerLocked, Shrinks
  <1>. QED  BY <1>1, <1>2

\* touch and its variants only clear the expiry.
LEMMA TouchOK ==
    ASSUME NEW h, HubOK(h), NEW a \in Attachments
    PROVE  HubOK(Touched(h, a)) /\ Shrinks(h, Touched(h, a))
  <1> DEFINE g == [h EXCEPT !.controller = [@ EXCEPT !.expired = FALSE]]
  <1>0. h \in HubState
    BY DEF HubOK
  <1>1. CASE h.controller.attachment = a
    <2>1. Touched(h, a) = g
      BY <1>1 DEF Touched
    <2>2. [h.controller EXCEPT !.expired = FALSE] \in Lease
      BY <1>0 DEF HubState, Lease
    <2>3. /\ g \in HubState
          /\ g.queue = h.queue /\ g.subscribers = h.subscribers
          /\ g.controller.attachment = h.controller.attachment
          /\ g.controller.lease = h.controller.lease
          /\ g.issued = h.issued /\ g.role = h.role /\ g.leaseID = h.leaseID
      BY <1>0, <2>2 DEF HubState, Lease
    <2> HIDE DEF g
    <2>4. HubOK(g) /\ Shrinks(h, g)
      BY <1>1, <2>3, HubAssumption DEF HubOK, QueuesFit, ControllerNewest, Agrees, Shrinks
    <2>. QED  BY <2>1, <2>4
  <1>2. CASE h.controller.attachment # a
    BY <1>2 DEF Touched, Shrinks
  <1>. QED  BY <1>1, <1>2

\* Granting to a when nobody else holds the lease.
LEMMA GrantOK ==
    ASSUME NEW h, HubOK(h), NEW a \in Attachments, h.controller.attachment \in {None, a}
    PROVE  LET g == grantControllerLocked(h, a) IN
           /\ HubOK(g)
           /\ g.subscribers = h.subscribers /\ g.issued = h.issued + 1
           /\ g.controller.attachment = a /\ g.controller.lease = h.issued + 1
           /\ g.leaseID = [h.leaseID EXCEPT ![a] = h.issued + 1]
           /\ g.role = [h.role EXCEPT ![a] = "control"]
           /\ g.exit = h.exit
  <1> DEFINE g == grantControllerLocked(h, a)
             r == [h.role EXCEPT ![a] = "control"]
             l == [h.leaseID EXCEPT ![a] = h.issued + 1]
             c == [attachment |-> a, lease |-> h.issued + 1, expired |-> FALSE]
             n == h.issued + 1
  <1>0. h \in HubState
    BY DEF HubOK
  <1>1. g = [h EXCEPT !.issued = n, !.role = r, !.leaseID = l, !.controller = c]
    BY DEF grantControllerLocked
  <1>2. r \in [Attachments -> {"control", "observe"}] /\ l \in [Attachments -> Nat] /\ c \in Lease
    BY <1>0 DEF HubState, Lease
  <1>3. \A b \in Attachments : IF b = a THEN l[b] = h.issued + 1 /\ r[b] = "control"
                                       ELSE l[b] = h.leaseID[b] /\ r[b] = h.role[b]
    BY <1>0 DEF HubState
  <1>4. c.attachment = a /\ c.lease = n /\ h.issued \in Nat /\ n \in Nat
    BY <1>0 DEF HubState
  <1> HIDE DEF r, l, c, g, n
  <1>5. /\ g \in HubState
        /\ g.queue = h.queue /\ g.subscribers = h.subscribers /\ g.controller = c
        /\ g.issued = n /\ g.role = r /\ g.leaseID = l /\ g.exit = h.exit
    BY <1>0, <1>1, <1>2, <1>4 DEF HubState
  <1>6. Agrees(g)
    <2> SUFFICES ASSUME NEW b \in h.subscribers
                 PROVE  /\ l[b] # 0 <=> a = b
                        /\ l[b] # 0 => h.issued + 1 = l[b] /\ r[b] = "control"
                        /\ l[b] = 0 => r[b] = "observe"
      BY <1>4, <1>5 DEF Agrees, n
    <2>1. b \in Attachments /\ b # None
      BY <1>0, HubAssumption DEF HubState
    <2>2. b # a => h.leaseID[b] = 0 /\ h.role[b] = "observe"
      BY <2>1 DEF HubOK, Agrees
    <2>. QED  BY <1>3, <1>4, <2>1, <2>2
  <1>7. HubOK(g)
    BY <1>4, <1>5, <1>6, HubAssumption DEF HubOK, QueuesFit, ControllerNewest, n
  <1>. QED  BY <1>4, <1>5, <1>7 DEF g, r, l, n

-----------------------------------------------------------------------------
(* The inductive invariant.                                                *)

\* The handler in a PTY call, and nobody else, holds controlMu.
LockHeld == \A a \in Attachments : pc[a] = "calling" <=> controlMu = a

\* While controlMu is held no lease is issued, and only its holder can have one.
Fenced ==
    controlMu # None =>
        using[controlMu] = hub.issued /\ hub.controller.attachment \in {None, controlMu}

IdleUnknown == \A a \in Attachments : pc[a] = "idle" => Untouched(hub, a)

IInv == TypeOK /\ HubOK(hub) /\ LockHeld /\ Fenced /\ IdleUnknown

\* The frames that tell a client of a lease, and frames among which there is none.
LeaseFrame(f) == f.type \in {"attached", "controller_revoked"}
Silent(s) == \A i \in 1..Len(s) : ~LeaseFrame(s[i])

\* The frames that attach prepares: the lease it granted comes first, and nothing of
\* leases after it.
LEMMA InitialFramesParts ==
    ASSUME TypeOK, NEW h \in HubState, NEW a \in Attachments, NEW after \in Nat \cup {NoCursor}
    PROVE  /\ Attached(h.leaseID[a]) \in Frame
           /\ \E gap, outs, exit \in {s \in Seq(Frame) : Silent(s)} :
                 InitialFrames(h, a, after) = <<Attached(h.leaseID[a])>> \o gap \o outs \o exit
  <1> DEFINE missed == IF after = NoCursor THEN << >> ELSE afterFrames(replay, after)
             outs == [i \in DOMAIN missed |-> Output(missed[i].seq)]
             gap == IF after # NoCursor /\ afterGap(replay, after)
                    THEN <<ReplayGap(earliest(replay))>> ELSE << >>
             exit == IF h.exit THEN <<Simple("exit")>> ELSE << >>
  <1>0. \A n \in Nat, t \in FrameTypes, m \in Nat : [type |-> t, lease |-> n, seq |-> m] \in Frame
    BY DEF Frame
  <1>1. missed \in Seq(Retained)
    <2>1. CASE after = NoCursor
      BY <2>1
    <2>2. CASE after # NoCursor
      <3> DEFINE skipped == {i \in DOMAIN replay.frames : replay.frames[i].seq <= after}
      <3>1. replay.frames \in Seq(Retained)
        BY DEF TypeOK
      <3>2. IsFiniteSet(1..Len(replay.frames))
        BY <3>1, FS_Interval
      <3>3. Cardinality(skipped) \in Nat
        BY <3>1, <3>2, FS_Subset, FS_CardinalityType
      <3> HIDE DEF skipped
      <3>4. SubSeq(replay.frames, Cardinality(skipped) + 1, Len(replay.frames)) \in Seq(Retained)
        BY <3>1, <3>3
      <3>. QED  BY <2>2, <3>4 DEF afterFrames, FramesAfter, skipped
    <2>. QED  BY <2>1, <2>2
  <1>2. outs \in Seq(Frame) /\ Silent(outs)
    <2> HIDE DEF missed
    <2>1. \A i \in DOMAIN missed : missed[i] \in Retained
      BY <1>1
    <2>2. \A m \in Retained : Output(m.seq) \in Frame /\ ~LeaseFrame(Output(m.seq))
      BY <1>0 DEF Output, Retained, FrameTypes, LeaseFrame
    <2>3. outs \in Seq(Frame)
      BY <1>1, <2>1, <2>2
    <2>4. Len(outs) = Len(missed) /\ \A i \in 1..Len(missed) : outs[i] = Output(missed[i].seq)
      BY <1>1
    <2>5. Silent(outs)
      BY <1>1, <2>1, <2>2, <2>4 DEF Silent
    <2>. QED  BY <2>3, <2>5
  <1>3. gap \in Seq(Frame) /\ Silent(gap)
    <2>0. replay.frames # << >> => replay.frames[1] \in Retained
      BY DEF TypeOK
    <2>1. earliest(replay) \in Nat
      BY <2>0 DEF TypeOK, earliest, Retained
    <2>2. ReplayGap(earliest(replay)) \in Frame /\ ~LeaseFrame(ReplayGap(earliest(replay)))
      BY <1>0, <2>1 DEF ReplayGap, FrameTypes, LeaseFrame
    <2>. QED  BY <2>2 DEF Silent
  <1>4. exit \in Seq(Frame) /\ Silent(exit)
    <2>1. Simple("exit") \in Frame /\ ~LeaseFrame(Simple("exit"))
      BY <1>0 DEF Simple, FrameTypes, LeaseFrame
    <2>. QED  BY <2>1 DEF Silent
  <1>5. Attached(h.leaseID[a]) \in Frame
    BY <1>0 DEF Attached, FrameTypes, HubState
  <1> HIDE DEF missed, outs, gap, exit
  <1>6. InitialFrames(h, a, after) = <<Attached(h.leaseID[a])>> \o gap \o outs \o exit
    BY DEF InitialFrames, missed, outs, gap, exit
  <1>. QED  BY <1>2, <1>3, <1>4, <1>5, <1>6, Zenon

\* They are frames.
LEMMA InitialFramesType ==
    ASSUME TypeOK, NEW h \in HubState, NEW a \in Attachments, NEW after \in Nat \cup {NoCursor}
    PROVE  InitialFrames(h, a, after) \in Seq(Frame)
  <1>1. PICK gap, outs, exit \in {s \in Seq(Frame) : Silent(s)} :
            InitialFrames(h, a, after) = <<Attached(h.leaseID[a])>> \o gap \o outs \o exit
    BY InitialFramesParts
  <1>2. Attached(h.leaseID[a]) \in Frame
    BY InitialFramesParts
  <1>. QED  BY <1>1, <1>2

\* Simple frames are frames.
LEMMA SimpleFrame == \A t \in FrameTypes : Simple(t) \in Frame
  BY DEF Simple, Frame

\* What a step that issues no lease has to show.
LEMMA ShrinkingStep ==
    ASSUME IInv, TypeOK', HubOK(hub)', Shrinks(hub, hub'), LockHeld',
           \A a \in Attachments : pc'[a] = "idle" => pc[a] = "idle",
           controlMu' # None => controlMu' = controlMu /\ using'[controlMu'] = using[controlMu]
    PROVE  IInv'
  <1>1. IdleUnknown'
    BY UntouchedKept DEF IInv, IdleUnknown, Untouched, Shrinks, TypeOK
  <1>2. Fenced'
    BY DEF IInv, Fenced, Shrinks
  <1>. QED  BY <1>1, <1>2 DEF IInv

\* The initial state.
LEMMA InitIInv == Init => IInv
  <1> SUFFICES ASSUME Init PROVE IInv
    OBVIOUS
  <1>1. NoLease \in Lease /\ NoReply \in Frame /\ NoView \in View
    BY SimpleFrame DEF NoLease, Lease, NoReply, NoView, View, FrameTypes
  <1>2. << >> \in Seq(Frame) /\ Len(<< >>) = 0
    OBVIOUS
  <1>3. hub \in HubState
    BY <1>1, <1>2 DEF Init, HubState
  <1>4. /\ hub.subscribers = {} /\ hub.controller = NoLease /\ hub.issued = 0
        /\ \A a \in Attachments : hub.queue[a] = << >> /\ hub.leaseID[a] = 0 /\ hub.role[a] = "observe"
    BY DEF Init
  <1>5. TypeOK
    <2>1. replay.latest \in Nat /\ replay.frames \in Seq(Retained)
      BY DEF Init, newReplayBuffer
    <2>2. \A a \in Attachments : Len(hub.queue[a]) <= SubscriberBuffer
      BY <1>2, <1>4, HubAssumption
    <2>3. /\ reply \in [Attachments -> Frame] /\ view \in [Attachments -> View]
          /\ initial \in [Attachments -> Seq(Frame)] /\ using \in [Attachments -> Nat]
      BY <1>1, <1>2 DEF Init
    <2>. QED  BY <1>3, <2>1, <2>2, <2>3 DEF Init, TypeOK
  <1>6. HubOK(hub)
    BY <1>2, <1>3, <1>4, HubAssumption DEF HubOK, QueuesFit, ControllerNewest, Agrees, NoLease
  <1>7. LockHeld /\ Fenced
    BY HubAssumption DEF Init, LockHeld, Fenced
  <1>8. IdleUnknown
    BY <1>4, HubAssumption DEF IdleUnknown, Untouched, NoLease
  <1>. QED  BY <1>5, <1>6, <1>7, <1>8 DEF IInv

\* The steps of the process, the timers and the reaper.
LEMMA ProcessStep == ASSUME IInv, ProcessNext PROVE IInv'
  <1> USE DEF procVars, handlerVars
  <1>0. TypeOK /\ HubOK(hub) /\ LockHeld /\ hub \in HubState
    BY DEF IInv, TypeOK
  <1>a. ASSUME HubOK(hub'), Shrinks(hub, hub'), UNCHANGED <<controlMu, handlerVars>>, TypeOK'
        PROVE  IInv'
    BY <1>a, <1>0, ShrinkingStep DEF LockHeld
  <1>b. ASSUME UNCHANGED <<hub, replay, controlMu, handlerVars>>,
               proc' \in {"unstarted", "running", "exited", "done"},
               stop' \in {"none", "grace", "killed", "returned"}, serving' \in BOOLEAN
        PROVE  IInv'
    <2>1. TypeOK'
      BY <1>b, <1>0 DEF TypeOK
    <2>. QED  BY <1>b, <1>0, <2>1, <1>a DEF Shrinks
  <1>c. ASSUME HubOK(hub'), UNCHANGED <<replay, controlMu, handlerVars>>,
               proc' \in {"unstarted", "running", "exited", "done"},
               stop' \in {"none", "grace", "killed", "returned"}, serving' \in BOOLEAN
        PROVE  TypeOK'
    BY <1>c, <1>0 DEF TypeOK, HubOK, QueuesFit
  <1>1. CASE Start
    BY <1>1, <1>0, <1>b DEF Start, TypeOK
  <1>2. CASE setProcess
    <2> DEFINE s == IF hub.state = "starting" THEN "running" ELSE hub.state
    <2>1. hub' = [hub EXCEPT !.state = s]
      BY <1>2 DEF setProcess
    <2>2. s \in {"starting", "running", "exited"}
      BY <1>0 DEF HubState
    <2> HIDE DEF s
    <2>3. /\ hub' \in HubState
          /\ hub'.queue = hub.queue /\ hub'.subscribers = hub.subscribers
          /\ hub'.controller = hub.controller /\ hub'.issued = hub.issued
          /\ hub'.role = hub.role /\ hub'.leaseID = hub.leaseID
      BY <1>0, <2>1, <2>2 DEF HubState
    <2>4. HubOK(hub') /\ Shrinks(hub, hub')
      BY <1>0, <2>3 DEF HubOK, QueuesFit, ControllerNewest, Agrees, Shrinks
    <2>5. TypeOK'
      BY <1>0, <1>2, <1>c, <2>4 DEF setProcess, TypeOK
    <2>. QED  BY <1>2, <1>a, <2>4, <2>5 DEF setProcess
  <1>3. CASE wait
    BY <1>3, <1>0, <1>b DEF wait, TypeOK
  <1>4. CASE publishExit
    <2> DEFINE h == [hub EXCEPT !.state = "exited", !.exit = TRUE]
    <2>1. /\ h \in HubState
          /\ h.queue = hub.queue /\ h.subscribers = hub.subscribers
          /\ h.controller = hub.controller /\ h.issued = hub.issued
          /\ h.role = hub.role /\ h.leaseID = hub.leaseID
      BY <1>0 DEF HubState
    <2>2. hub' = IF hub.exit THEN hub
                 ELSE broadcastLocked(revokeControllerLocked(h), Simple("exit"))
      BY <1>4 DEF publishExit
    <2> HIDE DEF h
    <2>3. HubOK(h) /\ Shrinks(hub, h)
      BY <1>0, <2>1 DEF HubOK, QueuesFit, ControllerNewest, Agrees, Shrinks
    <2> DEFINE r == revokeControllerLocked(h)
               g == broadcastLocked(r, Simple("exit"))
    <2>4. HubOK(r) /\ Shrinks(h, r)
      BY <2>3, RevokeOK
    <2>5. HubOK(g) /\ Shrinks(r, g)
      <3> HIDE DEF r
      <3>. QED  BY <2>4, BroadcastOK, SimpleFrame DEF FrameTypes
    <2>6. Shrinks(hub, hub') /\ HubOK(hub')
      <3>1. Shrinks(hub, hub)
        BY DEF Shrinks
      <3>2. Shrinks(hub, g)
        BY <2>3, <2>4, <2>5 DEF Shrinks
      <3>. QED  BY <1>0, <2>2, <2>5, <3>1, <3>2
    <2>7. TypeOK'
      BY <1>0, <1>4, <1>c, <2>6 DEF publishExit, TypeOK
    <2>. QED  BY <1>4, <1>a, <2>6, <2>7 DEF publishExit
  <1>5. CASE terminate
    BY <1>5, <1>0, <1>b DEF terminate, TypeOK
  <1>6. CASE GraceExpires
    BY <1>6, <1>0, <1>b DEF GraceExpires, TypeOK
  <1>7. CASE TerminateReturns
    BY <1>7, <1>0, <1>b DEF TerminateReturns, TypeOK
  <1>8. CASE LeaseTimeout
    <2> DEFINE c == [hub.controller EXCEPT !.expired = TRUE]
    <2>1. hub' = [hub EXCEPT !.controller = c]
      BY <1>8 DEF LeaseTimeout
    <2>2. c \in Lease /\ c.attachment = hub.controller.attachment /\ c.lease = hub.controller.lease
      BY <1>0 DEF HubState, Lease
    <2> HIDE DEF c
    <2>3. /\ hub' \in HubState
          /\ hub'.queue = hub.queue /\ hub'.subscribers = hub.subscribers
          /\ hub'.controller = c /\ hub'.issued = hub.issued
          /\ hub'.role = hub.role /\ hub'.leaseID = hub.leaseID
      BY <1>0, <2>1, <2>2 DEF HubState
    <2>. hub.controller.attachment # None
      BY <1>8 DEF LeaseTimeout
    <2>4. HubOK(hub') /\ Shrinks(hub, hub')
      BY <1>0, <2>2, <2>3 DEF HubOK, QueuesFit, ControllerNewest, Agrees, Shrinks
    <2>5. TypeOK'
      BY <1>0, <1>8, <1>c, <2>4 DEF LeaseTimeout, TypeOK
    <2>. QED  BY <1>8, <1>a, <2>4, <2>5 DEF LeaseTimeout
  <1>9. CASE ReapLease
    <2>1. HubOK(hub') /\ Shrinks(hub, hub')
      BY <1>0, <1>9, ExpireOK DEF ReapLease
    <2>2. TypeOK'
      BY <1>0, <1>9, <1>c, <2>1 DEF ReapLease, TypeOK
    <2>. QED  BY <1>9, <1>a, <2>1, <2>2 DEF ReapLease
  <1>10. ASSUME NEW size \in Sizes, publishOutput(size) PROVE IInv'
    <2>1. replay'.latest \in Nat /\ replay'.frames \in Seq(Retained)
      <3> DEFINE b == Grown(replay, size)
      <3>1. PICK k \in 0..(Len(replay.frames) + 1) : replay' = Trimmed(b, k)
        BY <1>10 DEF publishOutput, append
      <3>2. [seq |-> replay.latest + 1, size |-> size] \in Retained
        BY <1>0, HubAssumption DEF TypeOK, Retained
      <3>3. /\ b.latest \in Nat /\ b.frames \in Seq(Retained)
        BY <1>0, <3>2 DEF TypeOK, Grown
      <3>4. /\ replay'.latest = b.latest
            /\ replay'.frames = SubSeq(b.frames, k + 1, Len(b.frames))
        BY <3>1 DEF Trimmed, Grown
      <3>5. k \in Nat
        BY <1>0 DEF TypeOK
      <3> HIDE DEF b
      <3>. QED  BY <3>3, <3>4, <3>5
    <2>2. Output(replay.latest + 1) \in Frame
      BY <1>0 DEF TypeOK, Output, Frame, FrameTypes
    <2>3. HubOK(hub') /\ Shrinks(hub, hub')
      BY <1>0, <1>10, <2>2, BroadcastOK DEF publishOutput
    <2>4. TypeOK'
      BY <1>0, <1>10, <2>1, <2>3 DEF publishOutput, TypeOK, HubOK, QueuesFit
    <2>. QED  BY <1>10, <1>a, <2>3, <2>4 DEF publishOutput
  <1>. QED  BY <1>1, <1>2, <1>3, <1>4, <1>5, <1>6, <1>7, <1>8, <1>9, <1>10 DEF ProcessNext

\* A client's record of what it was sent stays a record.
LEMMA ReceivedType ==
    ASSUME NEW v \in View, NEW f \in Frame
    PROVE  Received(v, f) \in View
  BY DEF Received, View, Frame, FrameTypes, NoCursor

\* What a step that grants a lease to a has to show.  h is the hub before the
\* grant and S the subscribers after it.
LEMMA GrantStep ==
    ASSUME IInv, NEW h, HubOK(h), Shrinks(hub, h), NEW a \in Attachments,
           h.controller.attachment \in {None, a},
           hub' = [grantControllerLocked(h, a) EXCEPT !.subscribers = h.subscribers \cup {a}],
           \A b \in Attachments : pc'[b] = "idle" => pc[b] = "idle" /\ b # a
    PROVE  HubOK(hub') /\ IdleUnknown'
  <1> DEFINE g == grantControllerLocked(h, a)
  <1>0. h \in HubState
    BY DEF HubOK
  <1>1. /\ HubOK(g)
        /\ g.subscribers = h.subscribers /\ g.issued = h.issued + 1
        /\ g.controller.attachment = a /\ g.controller.lease = h.issued + 1
        /\ g.leaseID = [h.leaseID EXCEPT ![a] = h.issued + 1]
        /\ g.role = [h.role EXCEPT ![a] = "control"]
    BY GrantOK
  <1>2. /\ g.leaseID[a] = h.issued + 1 /\ g.role[a] = "control"
        /\ \A b \in Attachments \ {a} : g.leaseID[b] = h.leaseID[b] /\ g.role[b] = h.role[b]
    BY <1>0, <1>1 DEF HubState
  <1>3. h.issued \in Nat /\ h.subscribers \cup {a} \in SUBSET Attachments
    BY <1>0 DEF HubState
  <1> HIDE DEF g
  <1>4. /\ hub' \in HubState
        /\ hub'.queue = g.queue /\ hub'.subscribers = h.subscribers \cup {a}
        /\ hub'.controller = g.controller /\ hub'.issued = g.issued
        /\ hub'.role = g.role /\ hub'.leaseID = g.leaseID
    BY <1>1, <1>3 DEF HubOK, HubState, g
  <1>5. Agrees(hub')
    <2>0. hub'.controller.attachment = a /\ hub'.controller.lease = h.issued + 1
      BY <1>1, <1>4
    <2> SUFFICES ASSUME NEW b \in hub'.subscribers
                 PROVE  /\ g.leaseID[b] # 0 <=> a = b
                        /\ g.leaseID[b] # 0 => h.issued + 1 = g.leaseID[b] /\ g.role[b] = "control"
                        /\ g.leaseID[b] = 0 => g.role[b] = "observe"
      <3>1. hub'.leaseID = g.leaseID /\ hub'.role = g.role
        BY <1>4
      <3>. QED  BY <2>0, <3>1 DEF Agrees
    <2>1. CASE b = a
      BY <1>2, <1>3, <2>1
    <2>2. CASE b # a
      <3>1. Agrees(g) /\ b \in g.subscribers
        BY <1>1, <1>4, <2>2 DEF HubOK
      <3>2. /\ g.leaseID[b] # 0 <=> g.controller.attachment = b
            /\ g.leaseID[b] = 0 => g.role[b] = "observe"
        BY <3>1 DEF Agrees
      <3>. QED  BY <1>1, <2>2, <3>2
    <2>. QED  BY <2>1, <2>2
  <1>6. HubOK(hub')
    <2>1. QueuesFit(hub')
      BY <1>1, <1>4 DEF HubOK, QueuesFit
    <2>2. ControllerNewest(hub')
      BY <1>1, <1>3, <1>4, HubAssumption DEF ControllerNewest
    <2>. QED  BY <1>4, <1>5, <2>1, <2>2 DEF HubOK
  <1>7. ASSUME NEW b \in Attachments, pc'[b] = "idle" PROVE Untouched(hub', b)
    <2>1. Untouched(h, b) /\ b # a
      BY <1>7, UntouchedKept DEF IInv, IdleUnknown
    <2>2. b \notin hub'.subscribers /\ hub'.controller.attachment # b
      BY <1>1, <1>4, <2>1 DEF Untouched
    <2>3. hub'.leaseID[b] = 0 /\ hub'.role[b] = "observe"
      BY <1>2, <1>4, <2>1 DEF Untouched
    <2>. QED  BY <2>2, <2>3 DEF Untouched
  <1>8. IdleUnknown'
    BY <1>7 DEF IdleUnknown, Untouched
  <1>. QED  BY <1>6, <1>8

\* Connecting and leaving: attach in its three outcomes, the ends of a connection
\* and detach.
LEMMA ConnectionStep ==
    ASSUME IInv, NEW a \in Attachments,
           \/ AttachRejected(a)
           \/ \E r \in {"control", "observe"}, after \in NoCursor..(replay.latest + 1), take \in BOOLEAN :
                 AttachFails(a, r, after, take) \/ attach(a, r, after, take)
           \/ Disconnect(a) \/ detach(a)
    PROVE  IInv'
  <1> USE DEF procVars
  <1>0. TypeOK /\ HubOK(hub) /\ LockHeld /\ hub \in HubState /\ a # None
    BY HubAssumption DEF IInv, TypeOK
  <1>s. Shrinks(hub, hub)
    BY DEF Shrinks
  <1>e. HubOK(expireControllerLocked(hub)) /\ Shrinks(hub, expireControllerLocked(hub))
    BY <1>0, ExpireOK
  \* The handler ends or has not begun, so controlMu is as it was.
  <1>g. ASSUME pc[a] # "calling", pc' = [pc EXCEPT ![a] = "gone"],
               HubOK(hub'), Shrinks(hub, hub'),
               UNCHANGED <<replay, controlMu, procVars, using, reply, initial, conn, view>>
        PROVE  IInv'
    <2>1. LockHeld'
      BY <1>0, <1>g DEF LockHeld, TypeOK
    <2>2. TypeOK'
      BY <1>0, <1>g DEF TypeOK, HubOK, QueuesFit
    <2>3. \A b \in Attachments : pc'[b] = "idle" => pc[b] = "idle"
      BY <1>0, <1>g DEF TypeOK
    <2>. QED  BY <1>g, <2>1, <2>2, <2>3, ShrinkingStep
  <1>1. CASE AttachRejected(a)
    BY <1>0, <1>1, <1>s, <1>g DEF AttachRejected
  <1>2. ASSUME NEW r \in {"control", "observe"}, NEW after \in NoCursor..(replay.latest + 1),
               NEW take \in BOOLEAN, AttachFails(a, r, after, take)
        PROVE  IInv'
    BY <1>2, <1>e, <1>g DEF AttachFails
  <1>3. ASSUME NEW r \in {"control", "observe"}, NEW after \in NoCursor..(replay.latest + 1),
               NEW take \in BOOLEAN, attach(a, r, after, take)
        PROVE  IInv'
    <2> DEFINE h == expireControllerLocked(hub)
               freed == IF take THEN revokeControllerLocked(h) ELSE h
               granted == IF r = "control" THEN grantControllerLocked(freed, a) ELSE h
    <2>1. /\ pc[a] = "idle" /\ controlMu = None
          /\ ~AttachRefused(h, r, after, take)
          /\ hub' = [granted EXCEPT !.subscribers = @ \cup {a}]
          /\ initial' = [initial EXCEPT ![a] = InitialFrames(granted, a, after)]
          /\ pc' = [pc EXCEPT ![a] = "reading"]
          /\ conn' = [conn EXCEPT ![a] = "up"]
          /\ view' = [view EXCEPT ![a].cursor = IF after = NoCursor THEN replay.latest ELSE after]
          /\ UNCHANGED <<replay, controlMu, procVars, using, reply>>
      BY <1>3, Zenon DEF attach, ControlFree
    <2>2. after \in Nat \cup {NoCursor}
      BY <1>0 DEF TypeOK, NoCursor
    <2>3. \A b \in Attachments : pc'[b] = "idle" => pc[b] = "idle" /\ b # a
      BY <1>0, <2>1 DEF TypeOK
    <2>4. LockHeld' /\ Fenced'
      BY <1>0, <2>1 DEF LockHeld, TypeOK, Fenced
    <2>5. Untouched(h, a)
      BY <1>e, <2>1, UntouchedKept DEF IInv, IdleUnknown
    <2>6. view' \in [Attachments -> View]
      <3>1. view[a] \in View
        BY <1>0 DEF TypeOK
      <3>2. [view[a] EXCEPT !.cursor = IF after = NoCursor THEN replay.latest ELSE after] \in View
        BY <1>0, <2>2, <3>1 DEF View, TypeOK
      <3>. QED  BY <1>0, <2>1, <3>2 DEF TypeOK
    <2>7. HubOK(freed) /\ Shrinks(hub, freed)
      <3> HIDE DEF h
      <3>1. CASE take
        <4>1. HubOK(freed) /\ Shrinks(h, freed) /\ Shrinks(hub, h)
          BY <1>e, <3>1, RevokeOK DEF h
        <4>. QED  BY <4>1 DEF Shrinks
      <3>2. CASE ~take
        BY <1>e, <3>2 DEF h
      <3>. QED  BY <3>1, <3>2
    <2>8. r = "control" => freed.controller.attachment = None
      <3>1. HubOK(h)
        BY <1>e
      <3>2. NoLease.attachment = None
        BY DEF NoLease
      <3>3. CASE take
        <4> HIDE DEF h
        <4>1. revokeControllerLocked(h).controller = NoLease
          BY <3>1, RevokeOK
        <4>. QED  BY <3>2, <3>3, <4>1
      <3>4. CASE ~take
        BY <2>1, <3>2, <3>4 DEF AttachRefused
      <3>. QED  BY <3>3, <3>4
    <2>9. HubOK(hub') /\ IdleUnknown' /\ granted \in HubState
      <3> HIDE DEF h, freed
      <3>1. CASE r = "control"
        <4>1. granted = grantControllerLocked(freed, a)
          BY <3>1
        <4>2. freed.controller.attachment \in {None, a}
          BY <2>8, <3>1
        <4>3. HubOK(granted) /\ granted.subscribers = freed.subscribers
          <5>1. /\ HubOK(grantControllerLocked(freed, a))
                /\ grantControllerLocked(freed, a).subscribers = freed.subscribers
            BY <2>7, <4>2, GrantOK
          <5> HIDE DEF granted
          <5>. QED  BY <4>1, <5>1
        <4>4. hub' = [granted EXCEPT !.subscribers = freed.subscribers \cup {a}]
          BY <2>1, <4>3
        <4> HIDE DEF granted
        <4>5. hub' = [grantControllerLocked(freed, a) EXCEPT !.subscribers = freed.subscribers \cup {a}]
          BY <4>1, <4>4
        <4>6. HubOK(hub') /\ IdleUnknown'
          BY <2>3, <2>7, <4>2, <4>5, GrantStep
        <4>. QED  BY <4>3, <4>6 DEF HubOK
      <3>2. CASE r # "control"
        <4>1. hub' = [h EXCEPT !.subscribers = h.subscribers \cup {a}] /\ granted = h
          BY <2>1, <3>2
        <4>2. HubOK(h) /\ h \in HubState /\ Shrinks(hub, h)
          BY <1>e DEF h, HubOK
        <4>3. h.subscribers \cup {a} \in SUBSET Attachments
          BY <4>2 DEF HubState
        <4>4. /\ hub' \in HubState
              /\ hub'.queue = h.queue /\ hub'.subscribers = h.subscribers \cup {a}
              /\ hub'.controller = h.controller /\ hub'.issued = h.issued
              /\ hub'.role = h.role /\ hub'.leaseID = h.leaseID
          BY <4>1, <4>2, <4>3 DEF HubState
        <4>5. Agrees(hub')
          BY <2>5, <4>2, <4>4 DEF HubOK, Agrees, Untouched
        <4>6. HubOK(hub')
          BY <4>2, <4>4, <4>5 DEF HubOK, QueuesFit, ControllerNewest
        <4>7. ASSUME NEW b \in Attachments, pc'[b] = "idle" PROVE Untouched(hub', b)
          <5>1. Untouched(h, b) /\ b # a
            BY <2>3, <4>2, <4>7, UntouchedKept DEF IInv, IdleUnknown
          <5>. QED  BY <4>4, <5>1 DEF Untouched
        <4>8. IdleUnknown'
          BY <4>7 DEF IdleUnknown, Untouched
        <4>. QED  BY <4>1, <4>2, <4>6, <4>8
      <3>. QED  BY <3>1, <3>2
    <2>10. TypeOK'
      <3>1. InitialFrames(granted, a, after) \in Seq(Frame)
        <4> HIDE DEF granted
        <4>. QED  BY <1>0, <2>2, <2>9, InitialFramesType
      <3> HIDE DEF granted
      <3>2. initial' \in [Attachments -> Seq(Frame)]
        BY <1>0, <2>1, <3>1 DEF TypeOK
      <3>. QED  BY <1>0, <2>1, <2>6, <2>9, <3>2 DEF TypeOK, HubOK, QueuesFit
    <2>. QED  BY <2>4, <2>9, <2>10 DEF IInv, HubOK, QueuesFit, ControllerNewest, Agrees
  <1>4. CASE Disconnect(a)
    <2>1. TypeOK'
      <3>1. NoView \in View
        BY DEF NoView, View
      <3>. QED  BY <1>0, <1>4, <3>1 DEF Disconnect, TypeOK
    <2>2. LockHeld'
      BY <1>0, <1>4 DEF Disconnect, LockHeld
    <2>3. HubOK(hub') /\ Shrinks(hub, hub') /\ pc' = pc /\ controlMu' = controlMu /\ using' = using
      BY <1>0, <1>4, <1>s DEF Disconnect
    <2>. QED  BY <2>1, <2>2, <2>3, ShrinkingStep
  <1>5. CASE detach(a)
    <2> DEFINE q == [hub.queue EXCEPT ![a] = << >>]
               l == [hub.leaseID EXCEPT ![a] = 0]
               r == [hub.role EXCEPT ![a] = "observe"]
               f == [hub EXCEPT !.queue = q, !.leaseID = l, !.role = r]
               c == IF hub.controller.attachment = a THEN NoLease ELSE hub.controller
               S == hub.subscribers \ {a}
    <2>1. q \in [Attachments -> Seq(Frame)] /\ \A b \in Attachments : Len(q[b]) <= SubscriberBuffer
      BY <1>0, HubAssumption DEF HubOK, HubState, QueuesFit
    <2>2. l \in [Attachments -> Nat] /\ r \in [Attachments -> {"control", "observe"}]
      BY <1>0 DEF HubState
    <2>3. \A b \in Attachments : IF b = a THEN l[b] = 0 /\ r[b] = "observe"
                                         ELSE l[b] = hub.leaseID[b] /\ r[b] = hub.role[b]
      BY <1>0 DEF HubState
    <2>4. hub' = IF a \notin hub.subscribers THEN f
                 ELSE [f EXCEPT !.subscribers = @ \ {a},
                                !.controller = IF @.attachment = a THEN NoLease ELSE @]
      BY <1>5 DEF detach, Forgotten
    <2>5. c \in Lease /\ c.attachment \in {hub.controller.attachment, None} /\ c.attachment # a
      BY <1>0 DEF HubState, Lease, NoLease
    <2>6. c = NoLease \/ c = hub.controller
      BY Zenon
    <2>7. S \in SUBSET Attachments /\ S \subseteq hub.subscribers /\ a \notin S
      BY <1>0 DEF HubState
    <2>8. \A b \in S : hub.controller.attachment = b <=> c.attachment = b
      BY <1>0, <2>7, HubAssumption DEF NoLease
    <2>9. f \in HubState /\ f.queue = q /\ f.leaseID = l /\ f.role = r
          /\ f.subscribers = hub.subscribers /\ f.controller = hub.controller /\ f.issued = hub.issued
      <3> HIDE DEF q, l, r
      <3>. QED  BY <1>0, <2>1, <2>2 DEF HubState
    <2>10. Agrees(hub) /\ ControllerNewest(hub)
      BY <1>0 DEF HubOK
    <2>11. HubOK(hub') /\ Shrinks(hub, hub')
      <3>1. CASE a \notin hub.subscribers
        <4>1. hub' = f
          BY <2>4, <3>1, Zenon
        <4> HIDE DEF f, q, l, r
        <4>2. Agrees(hub')
          <5> SUFFICES ASSUME NEW b \in hub.subscribers
                       PROVE  b \in Attachments \ {a} /\ l[b] = hub.leaseID[b] /\ r[b] = hub.role[b]
            BY <2>9, <2>10, <4>1 DEF Agrees
          <5>. QED  BY <1>0, <2>3, <3>1 DEF HubState
        <4>. QED  BY <1>0, <2>1, <2>3, <2>9, <2>10, <4>1, <4>2
                  DEF HubOK, QueuesFit, ControllerNewest, Shrinks
      <3>2. CASE a \in hub.subscribers
        <4>1. hub' = [f EXCEPT !.subscribers = S, !.controller = c]
          <5> HIDE DEF f
          <5>. QED  BY <2>4, <2>9, <3>2
        <4> HIDE DEF f, q, l, r, c, S
        <4>2. /\ hub' \in HubState
              /\ hub'.queue = q /\ hub'.subscribers = S /\ hub'.controller = c
              /\ hub'.issued = hub.issued /\ hub'.role = r /\ hub'.leaseID = l
          BY <2>5, <2>7, <2>9, <4>1 DEF HubState
        <4>3. Agrees(hub')
          <5> SUFFICES ASSUME NEW b \in S
                       PROVE  /\ l[b] # 0 <=> c.attachment = b
                              /\ l[b] # 0 => c.lease = l[b] /\ r[b] = "control"
                              /\ l[b] = 0 => r[b] = "observe"
            BY <4>2 DEF Agrees
          <5>1. l[b] = hub.leaseID[b] /\ r[b] = hub.role[b] /\ b \in hub.subscribers /\ b # None
            BY <2>3, <2>7, HubAssumption
          <5>2. c.attachment = b => c = hub.controller
            BY <2>6, <5>1 DEF NoLease
          <5>. QED  BY <2>8, <2>10, <5>1, <5>2 DEF Agrees
        <4>4. ControllerNewest(hub')
          BY <2>6, <2>10, <4>2 DEF ControllerNewest, NoLease
        <4>5. HubOK(hub')
          BY <2>1, <4>2, <4>3, <4>4 DEF HubOK, QueuesFit
        <4>. QED  BY <2>3, <2>5, <2>7, <4>2, <4>5 DEF Shrinks
      <3>. QED  BY <3>1, <3>2
    <2>. QED  BY <1>5, <1>g, <2>11 DEF detach
  <1>. QED  BY <1>1, <1>2, <1>3, <1>4, <1>5

\* handleClientFrame, hub.send and the return of a PTY call.
LEMMA HandlerStep ==
    ASSUME IInv, NEW a \in Attachments,
           \/ Malformed(a) \/ Unsupported(a) \/ takeover(a) \/ Pong(a) \/ Ping(a) \/ send(a)
           \/ \E l \in 1..hub.issued : writeInput(a, l)
           \/ \E ok \in BOOLEAN : writeReturns(a, ok)
           \/ \E n \in 0..(replay.latest + 1) : acknowledge(a, n)
    PROVE  IInv'
  <1> USE DEF procVars, handlerVars
  <1>0. TypeOK /\ HubOK(hub) /\ LockHeld /\ hub \in HubState /\ a # None
    BY HubAssumption DEF IInv, TypeOK
  <1>s. Shrinks(hub, hub)
    BY DEF Shrinks
  <1>t. HubOK(Touched(hub, a)) /\ Shrinks(hub, Touched(hub, a))
    BY <1>0, TouchOK
  <1>e. HubOK(expireControllerLocked(hub)) /\ Shrinks(hub, expireControllerLocked(hub))
    BY <1>0, ExpireOK
  <1>n. Simple("answer") \in Frame
    BY SimpleFrame DEF FrameTypes
  \* A handler that was not in a PTY call goes on outside one, and no lease is issued.
  <1>g. ASSUME pc[a] \notin {"calling", "idle"},
               \/ UNCHANGED pc
               \/ \E s \in {"reading", "reply", "closing"} : pc' = [pc EXCEPT ![a] = s],
               \/ UNCHANGED reply
               \/ \E f \in Frame : reply' = [reply EXCEPT ![a] = f],
               HubOK(hub'), Shrinks(hub, hub'),
               UNCHANGED <<replay, controlMu, procVars, using, initial, conn, view>>
        PROVE  IInv'
    <2>1. LockHeld'
      BY <1>0, <1>g DEF LockHeld, TypeOK
    <2>2. reply' \in [Attachments -> Frame]
      BY <1>0, <1>g DEF TypeOK
    <2>3. pc' \in [Attachments -> {"idle", "reading", "calling", "reply", "closing", "gone"}]
      BY <1>0, <1>g DEF TypeOK
    <2>4. TypeOK'
      BY <1>0, <1>g, <2>2, <2>3 DEF TypeOK, HubOK, QueuesFit
    <2>5. \A b \in Attachments : pc'[b] = "idle" => pc[b] = "idle"
      BY <1>0, <1>g DEF TypeOK
    <2>. QED  BY <1>g, <2>1, <2>4, <2>5, ShrinkingStep
  <1>1. CASE Malformed(a)
    BY <1>0, <1>1, <1>s, <1>n, <1>g DEF Malformed, Handles, Answers
  <1>2. CASE Unsupported(a)
    <2>1. hub' = [hub EXCEPT !.closed = hub.closed \cup {a}]
      BY <1>2 DEF Unsupported
    <2>2. /\ hub' \in HubState
          /\ hub'.queue = hub.queue /\ hub'.subscribers = hub.subscribers
          /\ hub'.controller = hub.controller /\ hub'.issued = hub.issued
          /\ hub'.role = hub.role /\ hub'.leaseID = hub.leaseID
      BY <1>0, <2>1 DEF HubState
    <2>3. HubOK(hub') /\ Shrinks(hub, hub')
      BY <1>0, <2>2 DEF HubOK, QueuesFit, ControllerNewest, Agrees, Shrinks
    <2>. QED  BY <1>2, <1>g, <2>3 DEF Unsupported, Handles
  <1>3. CASE takeover(a)
    <2> DEFINE h == expireControllerLocked(hub)
               freed == IF h.controller.attachment # a THEN revokeControllerLocked(h) ELSE h
               granted == grantControllerLocked(freed, a)
    <2>1. /\ pc[a] = "reading" /\ controlMu = None
          /\ UNCHANGED <<replay, controlMu, procVars, using, initial, conn, view>>
      BY <1>3 DEF takeover, Handles, ControlFree
    <2>2. CASE a \in Controllers /\ a \in hub.subscribers
      <3>1. /\ hub' = granted
            /\ pc' = [pc EXCEPT ![a] = "reply"]
            /\ reply' = [reply EXCEPT ![a] = Attached(granted.leaseID[a])]
        BY <1>3, <2>2 DEF takeover, Answers
      <3>2. HubOK(freed) /\ Shrinks(hub, freed) /\ freed.controller.attachment \in {None, a}
        <4> HIDE DEF h
        <4>1. CASE h.controller.attachment # a
          <5>1. /\ HubOK(freed) /\ Shrinks(h, freed) /\ freed.controller = NoLease
                /\ Shrinks(hub, h)
            BY <1>e, <4>1, RevokeOK DEF h
          <5>. QED  BY <5>1 DEF Shrinks, NoLease
        <4>2. CASE h.controller.attachment = a
          BY <1>e, <4>2 DEF h
        <4>. QED  BY <4>1, <4>2
      <3> HIDE DEF freed
      <3>3. /\ HubOK(granted)
            /\ granted.subscribers = freed.subscribers /\ granted.issued = freed.issued + 1
            /\ granted.controller.attachment = a
            /\ granted.leaseID = [freed.leaseID EXCEPT ![a] = freed.issued + 1]
            /\ granted.role = [freed.role EXCEPT ![a] = "control"]
        BY <3>2, GrantOK
      <3> HIDE DEF granted
      <3>4. freed \in HubState /\ granted \in HubState
        BY <3>2, <3>3 DEF HubOK
      <3>5. IdleUnknown'
        <4> SUFFICES ASSUME NEW b \in Attachments, pc'[b] = "idle" PROVE Untouched(hub', b)
          BY DEF IdleUnknown, Untouched
        <4>1. b # a /\ pc[b] = "idle"
          BY <1>0, <3>1 DEF TypeOK
        <4>2. Untouched(freed, b)
          BY <3>2, <4>1, UntouchedKept DEF IInv, IdleUnknown
        <4>3. granted.leaseID[b] = freed.leaseID[b] /\ granted.role[b] = freed.role[b]
          BY <3>3, <3>4, <4>1 DEF HubState
        <4>. QED  BY <3>1, <3>3, <4>1, <4>2, <4>3 DEF Untouched
      <3>6. Attached(granted.leaseID[a]) \in Frame
        BY <3>4 DEF HubState, Attached, Frame, FrameTypes
      <3>7. TypeOK'
        BY <1>0, <2>1, <3>1, <3>3, <3>4, <3>6 DEF TypeOK, HubOK, QueuesFit
      <3>8. LockHeld' /\ Fenced'
        BY <1>0, <2>1, <3>1, HubAssumption DEF LockHeld, TypeOK, Fenced
      <3>9. HubOK(hub')
        BY <3>1, <3>3
      <3>. QED  BY <3>5, <3>7, <3>8, <3>9 DEF IInv, HubOK, QueuesFit, ControllerNewest, Agrees
    <2>3. CASE ~(a \in Controllers /\ a \in hub.subscribers)
      <3>1. /\ pc' = [pc EXCEPT ![a] = "reply"] /\ reply' = [reply EXCEPT ![a] = Simple("answer")]
            /\ hub' = hub
        BY <1>3, <2>3 DEF takeover, Answers
      <3>. QED  BY <1>0, <1>s, <1>n, <1>g, <2>1, <3>1
    <2>. QED  BY <2>2, <2>3
  <1>4. CASE Pong(a)
    BY <1>4, <1>t, <1>g DEF Pong, Handles
  <1>5. CASE Ping(a)
    BY <1>5, <1>t, <1>n, <1>g DEF Ping, Handles, Answers
  <1>6. CASE send(a)
    <2>1. reply[a] \in Frame /\ NoReply \in Frame
      BY <1>0, <1>n DEF TypeOK, NoReply
    <2>2. HubOK(hub') /\ Shrinks(hub, hub')
      <3>1. CASE a \in hub.subscribers
        BY <1>0, <1>6, <2>1, <3>1, SendOK DEF send
      <3>2. CASE a \notin hub.subscribers
        BY <1>0, <1>6, <1>s, <3>2 DEF send
      <3>. QED  BY <3>1, <3>2
    <2>. QED  BY <1>6, <1>g, <2>1, <2>2 DEF send
  <1>7. ASSUME NEW l \in 1..hub.issued, writeInput(a, l) PROVE IInv'
    <2> DEFINE h == expireControllerLocked(hub)
    <2>1. /\ pc[a] = "reading" /\ controlMu = None /\ hub' = h
          /\ UNCHANGED <<replay, procVars, initial, conn, view>>
      BY <1>7 DEF writeInput, Handles, ControlFree
    <2>2. CASE authorizedController(h, a, l)
      <3>1. /\ controlMu' = a /\ reply' = reply
            /\ pc' = [pc EXCEPT ![a] = "calling"]
            /\ using' = [using EXCEPT ![a] = l]
        BY <1>7, <2>2 DEF writeInput
      <3>2. l \in Nat
        BY <1>0 DEF HubState
      <3> HIDE DEF h
      <3>3. h.controller.attachment = a /\ l = h.issued
        BY <1>0, <1>e, <2>2 DEF authorizedController, HubOK, ControllerNewest, h
      <3>4. TypeOK'
        BY <1>0, <1>e, <2>1, <3>1, <3>2 DEF TypeOK, HubOK, QueuesFit, h
      <3>5. LockHeld'
        BY <1>0, <2>1, <3>1, HubAssumption DEF LockHeld, TypeOK
      <3>6. Fenced'
        BY <1>0, <2>1, <3>1, <3>3 DEF Fenced, TypeOK
      <3>7. IdleUnknown'
        BY <1>0, <1>e, <2>1, <3>1, UntouchedKept DEF IInv, IdleUnknown, Untouched, TypeOK, h
      <3>. QED  BY <1>e, <2>1, <3>4, <3>5, <3>6, <3>7
                DEF IInv, HubOK, QueuesFit, ControllerNewest, Agrees, h
    <2>3. CASE ~authorizedController(h, a, l)
      <3>1. /\ pc' = [pc EXCEPT ![a] = "reply"] /\ reply' = [reply EXCEPT ![a] = Simple("answer")]
            /\ UNCHANGED <<controlMu, using>>
        BY <1>7, <2>3 DEF writeInput, Answers
      <3>. QED  BY <1>e, <1>n, <1>g, <2>1, <3>1
    <2>. QED  BY <2>2, <2>3
  <1>8. ASSUME NEW ok \in BOOLEAN, writeReturns(a, ok) PROVE IInv'
    <2>1. /\ pc[a] = "calling" /\ controlMu' = None /\ using' = [using EXCEPT ![a] = 0]
          /\ \E s \in {"reading", "reply"} : pc' = [pc EXCEPT ![a] = s]
          /\ \/ reply' = reply
             \/ reply' = [reply EXCEPT ![a] = Simple("answer")]
          /\ hub' \in {hub, Touched(hub, a)}
          /\ UNCHANGED <<replay, procVars, initial, conn, view>>
      BY <1>8 DEF writeReturns, Answers, Refreshed
    <2>2. HubOK(hub') /\ Shrinks(hub, hub')
      BY <1>0, <1>s, <1>t, <2>1
    <2>3. controlMu = a
      BY <1>0, <2>1 DEF LockHeld
    <2>4. LockHeld'
      BY <1>0, <2>1, <2>3, HubAssumption DEF LockHeld, TypeOK
    <2>5. TypeOK'
      BY <1>0, <1>n, <2>1, <2>2 DEF TypeOK, HubOK, QueuesFit
    <2>6. \A b \in Attachments : pc'[b] = "idle" => pc[b] = "idle"
      BY <1>0, <2>1 DEF TypeOK
    <2>. QED  BY <2>1, <2>2, <2>4, <2>5, <2>6, ShrinkingStep
  <1>9. ASSUME NEW n \in 0..(replay.latest + 1), acknowledge(a, n) PROVE IInv'
    <2>1. CASE a \in hub.subscribers /\ n <= replay.latest
      BY <1>9, <1>t, <1>g, <2>1 DEF acknowledge, Handles
    <2>2. CASE ~(a \in hub.subscribers /\ n <= replay.latest)
      BY <1>0, <1>9, <1>s, <1>n, <1>g, <2>2 DEF acknowledge, Handles, Answers
    <2>. QED  BY <2>1, <2>2
  <1>. QED  BY <1>1, <1>2, <1>3, <1>4, <1>5, <1>6, <1>7, <1>8, <1>9

\* The writer goroutine.
LEMMA WriterStep ==
    ASSUME IInv, NEW a \in Attachments, WriteInitial(a) \/ WriteQueued(a)
    PROVE  IInv'
  <1> USE DEF procVars
  <1>0. TypeOK /\ HubOK(hub) /\ LockHeld /\ hub \in HubState
    BY DEF IInv, TypeOK
  <1>1. CASE WriteInitial(a)
    <2>1. initial[a] \in Seq(Frame) /\ initial[a] # << >> /\ view[a] \in View
      BY <1>0, <1>1 DEF WriteInitial, TypeOK
    <2>2. Head(initial[a]) \in Frame /\ Tail(initial[a]) \in Seq(Frame)
      BY <2>1
    <2>3. Received(view[a], Head(initial[a])) \in View
      BY <2>1, <2>2, ReceivedType
    <2>4. TypeOK'
      BY <1>0, <1>1, <2>2, <2>3 DEF WriteInitial, TypeOK
    <2>5. LockHeld' /\ HubOK(hub') /\ Shrinks(hub, hub')
      BY <1>0, <1>1 DEF WriteInitial, LockHeld, Shrinks
    <2>. QED  BY <1>1, <2>4, <2>5, ShrinkingStep DEF WriteInitial
  <1>2. CASE WriteQueued(a)
    <2> DEFINE q == [hub.queue EXCEPT ![a] = Tail(hub.queue[a])]
    <2>1. hub.queue[a] \in Seq(Frame) /\ hub.queue[a] # << >> /\ view[a] \in View
      BY <1>0, <1>2 DEF WriteQueued, TypeOK, HubState
    <2>2. /\ Head(hub.queue[a]) \in Frame /\ Tail(hub.queue[a]) \in Seq(Frame)
          /\ Len(Tail(hub.queue[a])) = Len(hub.queue[a]) - 1
          /\ Len(hub.queue[a]) \in Nat
      BY <2>1
    <2>3. Received(view[a], Head(hub.queue[a])) \in View
      BY <2>1, <2>2, ReceivedType
    <2>4. q \in [Attachments -> Seq(Frame)]
      BY <1>0, <2>2 DEF HubState
    <2>5. \A b \in Attachments : Len(q[b]) <= SubscriberBuffer
      BY <1>0, <2>2, HubAssumption DEF HubOK, QueuesFit, HubState
    <2>6. hub' = [hub EXCEPT !.queue = q]
      BY <1>2 DEF WriteQueued
    <2> HIDE DEF q
    <2>7. /\ hub' \in HubState
          /\ hub'.queue = q /\ hub'.subscribers = hub.subscribers
          /\ hub'.controller = hub.controller /\ hub'.issued = hub.issued
          /\ hub'.role = hub.role /\ hub'.leaseID = hub.leaseID
      BY <1>0, <2>4, <2>6 DEF HubState
    <2>8. HubOK(hub') /\ Shrinks(hub, hub')
      BY <1>0, <2>5, <2>7 DEF HubOK, QueuesFit, ControllerNewest, Agrees, Shrinks
    <2>9. view' \in [Attachments -> View]
      <3> DEFINE v == Received(view[a], Head(hub.queue[a]))
      <3>1. view' = [view EXCEPT ![a] = v]
        BY <1>2 DEF WriteQueued
      <3>2. v \in View /\ view \in [Attachments -> View]
        BY <1>0, <2>3 DEF TypeOK
      <3> HIDE DEF v
      <3>. QED  BY <3>1, <3>2
    <2>10. /\ UNCHANGED <<replay, controlMu, proc, stop, serving, pc, using, reply, initial, conn>>
      BY <1>2 DEF WriteQueued
    <2>11. TypeOK'
      BY <1>0, <2>7, <2>8, <2>9, <2>10 DEF TypeOK, HubOK, QueuesFit
    <2>12. LockHeld'
      BY <1>0, <2>10 DEF LockHeld
    <2>. QED  BY <2>8, <2>10, <2>11, <2>12, ShrinkingStep
  <1>. QED  BY <1>1, <1>2

\* Every step of the runner keeps the invariant.
LEMMA NextIInv == IInv /\ [Next]_vars => IInv'
  <1> SUFFICES ASSUME IInv, [Next]_vars PROVE IInv'
    OBVIOUS
  <1>1. CASE ProcessNext
    BY <1>1, ProcessStep
  <1>2. ASSUME NEW a \in Attachments, AttachmentNext(a) PROVE IInv'
    BY <1>2, ConnectionStep, HandlerStep, WriterStep
    DEF AttachmentNext, ConnectionLost, SeesDone, WriteReason
  <1>3. CASE UNCHANGED vars
    BY <1>3 DEF vars, procVars, handlerVars, IInv, TypeOK, HubOK, QueuesFit, ControllerNewest,
                Agrees, LockHeld, Fenced, IdleUnknown, Untouched
  <1>. QED  BY <1>1, <1>2, <1>3 DEF Next

\* The invariant holds throughout.
LEMMA Invariance == Spec => []IInv
  BY InitIInv, NextIInv, PTL DEF Spec

-----------------------------------------------------------------------------
\* The hub's state stays well typed and no subscriber queue outgrows its channel,
\* for any number of attachments and any limits.
THEOREM TypeCorrect == Spec => []TypeOK
  <1>1. IInv => TypeOK
    BY DEF IInv
  <1>. QED  BY <1>1, Invariance, PTL

\* However many attachments contend, at most one PTY write is in flight, and it
\* carries the newest lease ever issued: takeover, attach, expiry, exit and
\* eviction never let a second writer in, although hub.mu is free during the
\* write.
THEOREM WritesAreFenced == Spec => []WriteFenced
  <1>1. IInv => WriteFenced
    BY HubAssumption DEF IInv, LockHeld, Fenced, WriteFenced, InFlight
  <1>. QED  BY <1>1, Invariance, PTL

\* The role and lease a subscription records agree with the hub's controller at
\* every moment a lock is free.
THEOREM LeasesAgree == Spec => []LeaseAgreement
  <1>1. IInv => LeaseAgreement
    BY DEF IInv, HubOK, Agrees, LeaseAgreement
  <1>. QED  BY <1>1, Invariance, PTL

-----------------------------------------------------------------------------
(* What the holder of the lease has been told.  A client learns of a lease *)
(* from the attached and controller_revoked frames alone; the invariant    *)
(* says of the last of them, counting those on their way, that it is right *)
(* for whoever holds the lease.                                            *)

\* Frames the last of which that is about a lease names lease l.
Names(s, l) ==
    \E i \in 1..Len(s) : /\ s[i].type = "attached" /\ s[i].lease = l
                         /\ \A j \in 1..Len(s) : j > i => ~LeaseFrame(s[j])

\* The client whose queue is q, whose initial frames are s and who has been told of
\* lease held will have been told of l at last.
Told(q, s, held, l) ==
    \/ Names(q, l)
    \/ Silent(q) /\ Names(s, l)
    \/ Silent(q) /\ Silent(s) /\ held = l

\* A takeover has been granted and not been answered.
Pending(a) == pc[a] = "reply" /\ reply[a].type = "attached"

Knows(a) ==
    a \in hub.subscribers /\ conn[a] = "up" /\ hub.leaseID[a] # 0 =>
        IF Pending(a) THEN reply[a].lease = hub.leaseID[a]
                      ELSE Told(hub.queue[a], initial[a], view[a].lease, hub.leaseID[a])

\* Nothing is queued for an attachment that the hub does not know yet.
IdleQuiet == \A a \in Attachments : pc[a] = "idle" => hub.queue[a] = << >>

AnswersPlain == \A a \in Attachments : reply[a].type \in {"attached", "answer"}

NotLeftBehind(h) == h.controller.attachment \in h.subscribers \cup h.closed \cup {None}

Known == (\A a \in Attachments : Knows(a)) /\ IdleQuiet /\ AnswersPlain /\ NotLeftBehind(hub)

\* Queue q has become p: by frames that are not about a lease, and by some of which one
\* revokes it.
Lengthened(q, p) == Len(q) <= Len(p) /\ \A i \in 1..Len(q) : p[i] = q[i]
Quietly(q, p) == Lengthened(q, p) /\ \A i \in (Len(q) + 1)..Len(p) : ~LeaseFrame(p[i])
Revoking(q, p) ==
    Lengthened(q, p) /\ \E i \in (Len(q) + 1)..Len(p) : p[i] = Simple("controller_revoked")

\* From h to g attachment b can be sent frames and be evicted; it hears of a lease if it
\* is a subscriber that loses it, and then is told so.
TellsTo(h, g, b) ==
    /\ b \in g.subscribers =>
          /\ b \in h.subscribers
          /\ IF g.leaseID[b] = h.leaseID[b]
             THEN Quietly(h.queue[b], g.queue[b])
             ELSE g.leaseID[b] = 0 /\ Revoking(h.queue[b], g.queue[b])
    /\ b \notin h.subscribers => g.queue[b] = h.queue[b]
    /\ b \in h.subscribers \cup h.closed => b \in g.subscribers \cup g.closed

\* The steps in which a subscriber loses its lease and stays have told it so.
Demotions ==
    \A a \in hub.subscribers \cap hub'.subscribers :
        hub.leaseID[a] # 0 /\ hub'.leaseID[a] = 0 =>
            \E i \in (Len(hub.queue[a]) + 1)..Len(hub'.queue[a]) :
                hub'.queue[a][i] = Simple("controller_revoked")

\* A queue that gets one more frame, and one that does not change.
LEMMA OneMore ==
    ASSUME NEW q \in Seq(Frame), NEW f \in Frame
    PROVE  /\ Lengthened(q, Append(q, f)) /\ Quietly(q, q)
           /\ ~LeaseFrame(f) => Quietly(q, Append(q, f))
           /\ f = Simple("controller_revoked") => Revoking(q, Append(q, f))
  <1> DEFINE p == Append(q, f)
  <1>1. /\ Len(q) \in Nat /\ Len(p) = Len(q) + 1 /\ p[Len(q) + 1] = f
        /\ \A i \in 1..Len(q) : p[i] = q[i]
    OBVIOUS
  <1> HIDE DEF p
  <1>2. Lengthened(q, p)
    BY <1>1 DEF Lengthened
  <1>3. \A i \in (Len(q) + 1)..Len(p) : i = Len(q) + 1
    BY <1>1
  <1>4. ~LeaseFrame(f) => Quietly(q, p)
    BY <1>1, <1>2, <1>3 DEF Quietly
  <1>5. f = Simple("controller_revoked") => Revoking(q, p)
    BY <1>1, <1>2 DEF Revoking
  <1>6. Quietly(q, q)
    BY <1>1 DEF Quietly, Lengthened
  <1>. QED  BY <1>2, <1>4, <1>5, <1>6 DEF p

\* Quiet frames do not change what was said of a lease.
LEMMA QuietKept ==
    ASSUME NEW q \in Seq(Frame), NEW p \in Seq(Frame), NEW l, Quietly(q, p)
    PROVE  (Names(q, l) => Names(p, l)) /\ (Silent(q) => Silent(p))
  <1>1. /\ Len(q) \in Nat /\ Len(p) \in Nat /\ Len(q) <= Len(p)
        /\ \A i \in 1..Len(q) : p[i] = q[i]
        /\ \A i \in (Len(q) + 1)..Len(p) : ~LeaseFrame(p[i])
    BY DEF Quietly, Lengthened
  <1>2. Names(q, l) => Names(p, l)
    <2> SUFFICES ASSUME NEW i \in 1..Len(q), q[i].type = "attached", q[i].lease = l,
                        \A j \in 1..Len(q) : j > i => ~LeaseFrame(q[j])
                 PROVE  Names(p, l)
      BY DEF Names
    <2>1. i \in 1..Len(p) /\ p[i] = q[i]
      BY <1>1
    <2>2. ASSUME NEW j \in 1..Len(p), j > i PROVE ~LeaseFrame(p[j])
      <3>1. CASE j \in 1..Len(q)
        BY <1>1, <2>2, <3>1
      <3>2. CASE j \in (Len(q) + 1)..Len(p)
        BY <1>1, <3>2
      <3>. QED  BY <1>1, <3>1, <3>2
    <2>. QED  BY <2>1, <2>2 DEF Names
  <1>3. Silent(q) => Silent(p)
    <2> SUFFICES ASSUME Silent(q), NEW j \in 1..Len(p) PROVE ~LeaseFrame(p[j])
      BY DEF Silent
    <2>1. CASE j \in 1..Len(q)
      BY <1>1, <2>1 DEF Silent
    <2>2. CASE j \in (Len(q) + 1)..Len(p)
      BY <1>1, <2>2
    <2>. QED  BY <1>1, <2>1, <2>2
  <1>. QED  BY <1>2, <1>3

\* Nor what the client will have been told.
LEMMA ToldKept ==
    ASSUME NEW q \in Seq(Frame), NEW p \in Seq(Frame), NEW s, NEW held, NEW l,
           Quietly(q, p), Told(q, s, held, l)
    PROVE  Told(p, s, held, l)
  BY QuietKept DEF Told

\* The first frame is received.
LEMMA HeadReceived ==
    ASSUME NEW s \in Seq(Frame), s # << >>, NEW v \in View, NEW l
    PROVE  LET w == Received(v, Head(s)).lease IN
           /\ Names(s, l) => Names(Tail(s), l) \/ (Silent(Tail(s)) /\ w = l)
           /\ Silent(s) => Silent(Tail(s)) /\ w = v.lease
  <1> DEFINE f == Head(s)
             t == Tail(s)
             w == Received(v, f).lease
  <1>1. /\ Len(s) \in Nat /\ Len(s) >= 1 /\ Len(t) = Len(s) - 1 /\ f = s[1] /\ f \in Frame
        /\ \A i \in 1..Len(t) : t[i] = s[i + 1] /\ i + 1 \in 1..Len(s)
    OBVIOUS
  <1>2. /\ f.type = "attached" => w = f.lease
        /\ ~LeaseFrame(f) => w = v.lease
    BY <1>1 DEF Received, View, LeaseFrame
  <1> HIDE DEF f, t, w
  <1>3. Silent(s) => Silent(t) /\ w = v.lease
    BY <1>1, <1>2 DEF Silent
  <1>4. ASSUME NEW i \in 1..Len(s), s[i].type = "attached", s[i].lease = l,
               \A j \in 1..Len(s) : j > i => ~LeaseFrame(s[j])
        PROVE  Names(t, l) \/ (Silent(t) /\ w = l)
    <2>1. CASE i = 1
      <3>1. \A j \in 1..Len(t) : j + 1 > i
        BY <1>1, <2>1
      <3>. QED  BY <1>1, <1>2, <1>4, <2>1, <3>1 DEF Silent
    <2>2. CASE i # 1
      <3>1. i - 1 \in 1..Len(t) /\ (i - 1) + 1 = i
        BY <1>1, <2>2
      <3>2. t[i - 1] = s[i]
        BY <1>1, <3>1
      <3>3. ASSUME NEW j \in 1..Len(t), j > i - 1 PROVE ~LeaseFrame(t[j])
        <4>1. j + 1 > i
          BY <3>3, <1>1
        <4>. QED  BY <1>1, <1>4, <4>1
      <3>4. t[i - 1].type = "attached" /\ t[i - 1].lease = l
        BY <1>4, <3>2
      <3>5. \E k \in 1..Len(t) : /\ t[k].type = "attached" /\ t[k].lease = l
                                 /\ \A j \in 1..Len(t) : j > k => ~LeaseFrame(t[j])
        BY <3>1, <3>3, <3>4, Zenon
      <3>6. Names(t, l)
        BY <3>5, Zenon DEF Names
      <3>. QED  BY <3>6
    <2>. QED  BY <2>1, <2>2
  <1>5. Names(s, l) => Names(t, l) \/ (Silent(t) /\ w = l)
    BY <1>4 DEF Names
  <1>. QED  BY <1>3, <1>5 DEF f, t, w

\* A hub of which only the controller, the state or the closed attachments change.
LEMMA SameTells ==
    ASSUME NEW h, HubOK(h), NEW g, NEW b \in Attachments,
           g.queue = h.queue, g.subscribers = h.subscribers, g.leaseID = h.leaseID,
           h.closed \subseteq g.closed
    PROVE  TellsTo(h, g, b)
  <1>1. h.queue[b] \in Seq(Frame) /\ NoReply \in Frame
    BY SimpleFrame DEF HubOK, HubState, NoReply, FrameTypes
  <1>2. Quietly(h.queue[b], h.queue[b])
    BY <1>1, OneMore
  <1>. QED  BY <1>2 DEF TellsTo

\* What is told in two steps is told.
LEMMA TellsTrans ==
    ASSUME NEW h, HubOK(h), NEW g, HubOK(g), NEW k, HubOK(k), NEW b \in Attachments,
           TellsTo(h, g, b), TellsTo(g, k, b)
    PROVE  TellsTo(h, k, b)
  <1> DEFINE q == h.queue[b]
             p == g.queue[b]
             o == k.queue[b]
  <1>0. /\ Len(q) \in Nat /\ Len(p) \in Nat /\ Len(o) \in Nat
    BY DEF HubOK, HubState
  <1>1. ASSUME Lengthened(q, p), Lengthened(p, o) PROVE Lengthened(q, o)
    <2> HIDE DEF p, q, o
    <2>. QED  BY <1>0, <1>1 DEF Lengthened
  <1>2. ASSUME Quietly(q, p), Quietly(p, o) PROVE Quietly(q, o)
    <2> HIDE DEF p, q, o
    <2>1. Lengthened(q, p) /\ Lengthened(p, o) /\ Lengthened(q, o)
      BY <1>1, <1>2 DEF Quietly
    <2>2. ASSUME NEW i \in (Len(q) + 1)..Len(o) PROVE ~LeaseFrame(o[i])
      <3>1. CASE i <= Len(p)
        <4>1. i \in (Len(q) + 1)..Len(p) /\ i \in 1..Len(p)
          BY <1>0, <3>1
        <4>. QED  BY <1>2, <2>1, <4>1 DEF Quietly, Lengthened
      <3>2. CASE ~(i <= Len(p))
        <4>1. i \in (Len(p) + 1)..Len(o)
          BY <1>0, <3>2
        <4>. QED  BY <1>2, <4>1 DEF Quietly
      <3>. QED  BY <3>1, <3>2
    <2>. QED  BY <2>1, <2>2 DEF Quietly
  <1>3. ASSUME Revoking(q, p), Lengthened(p, o) PROVE Revoking(q, o)
    <2> HIDE DEF p, q, o
    <2>1. PICK i \in (Len(q) + 1)..Len(p) : p[i] = Simple("controller_revoked")
      BY <1>3 DEF Revoking
    <2>2. Lengthened(q, p) /\ Len(p) <= Len(o)
      BY <1>3 DEF Revoking, Lengthened
    <2>3. i \in 1..Len(p) /\ i \in (Len(q) + 1)..Len(o)
      BY <1>0, <2>2
    <2>4. o[i] = p[i]
      BY <1>3, <2>3 DEF Lengthened
    <2>. QED  BY <1>1, <1>3, <2>1, <2>2, <2>3, <2>4 DEF Revoking
  <1>4. ASSUME Lengthened(q, p), Revoking(p, o) PROVE Revoking(q, o)
    <2> HIDE DEF p, q, o
    <2>1. PICK i \in (Len(p) + 1)..Len(o) : o[i] = Simple("controller_revoked")
      BY <1>4 DEF Revoking
    <2>2. Lengthened(p, o) /\ Len(q) <= Len(p)
      BY <1>4 DEF Revoking, Lengthened
    <2>3. i \in (Len(q) + 1)..Len(o)
      BY <1>0, <2>2
    <2>. QED  BY <1>1, <1>4, <2>1, <2>2, <2>3 DEF Revoking
  <1>5. /\ Quietly(q, p) => Lengthened(q, p) 
        /\ Quietly(p, o) => Lengthened(p, o) 
        /\ Revoking(p, o) => Lengthened(p, o)
    BY DEF Quietly, Revoking
  <1> HIDE DEF q, p, o
  <1>6. b \in k.subscribers =>
           /\ b \in h.subscribers
           /\ IF k.leaseID[b] = h.leaseID[b] THEN Quietly(q, o)
              ELSE k.leaseID[b] = 0 /\ Revoking(q, o)
    <2> SUFFICES ASSUME b \in k.subscribers
                 PROVE  /\ b \in h.subscribers
                        /\ IF k.leaseID[b] = h.leaseID[b] THEN Quietly(q, o)
                           ELSE k.leaseID[b] = 0 /\ Revoking(q, o)
      OBVIOUS
    <2>1. /\ b \in g.subscribers
          /\ IF k.leaseID[b] = g.leaseID[b] THEN Quietly(p, o)
             ELSE k.leaseID[b] = 0 /\ Revoking(p, o)
      BY DEF TellsTo, p, o
    <2>2. /\ b \in h.subscribers
          /\ IF g.leaseID[b] = h.leaseID[b] THEN Quietly(q, p)
             ELSE g.leaseID[b] = 0 /\ Revoking(q, p)
      BY <2>1 DEF TellsTo, q, p
    <2>. QED  BY <1>2, <1>3, <1>4, <1>5, <2>1, <2>2
  <1>. QED  BY <1>6 DEF TellsTo, q, p, o

\* broadcastLocked, of a frame that is not about a lease.
LEMMA BroadcastTells ==
    ASSUME NEW h, HubOK(h), NEW f \in Frame, ~LeaseFrame(f), NEW b \in Attachments
    PROVE  TellsTo(h, broadcastLocked(h, f), b)
  <1> DEFINE g == broadcastLocked(h, f)
             slow == {a \in h.subscribers : Len(h.queue[a]) >= SubscriberBuffer}
             quick == h.subscribers \ slow
             q == [a \in Attachments |->
                      IF a \in quick THEN Append(h.queue[a], f) ELSE h.queue[a]]
  <1>0. h \in HubState
    BY DEF HubOK
  <1>1. /\ g.subscribers = quick /\ g.closed = h.closed \cup slow
        /\ g.queue = q /\ g.leaseID = h.leaseID
    BY <1>0 DEF broadcastLocked, HubState
  <1>2. h.queue[b] \in Seq(Frame)
    BY <1>0 DEF HubState
  <1>3. b \in quick => q[b] = Append(h.queue[b], f)
    OBVIOUS
  <1>4. b \notin quick => q[b] = h.queue[b]
    OBVIOUS
  <1>5. quick \subseteq h.subscribers /\ h.subscribers \subseteq quick \cup slow
    OBVIOUS
  <1> HIDE DEF g, q, slow, quick
  <1>6. Quietly(h.queue[b], Append(h.queue[b], f))
    BY <1>2, OneMore
  <1>7. b \in g.subscribers =>
           /\ b \in h.subscribers /\ g.leaseID[b] = h.leaseID[b]
           /\ Quietly(h.queue[b], g.queue[b])
    BY <1>1, <1>3, <1>5, <1>6
  <1>8. /\ b \notin h.subscribers => g.queue[b] = h.queue[b]
        /\ b \in h.subscribers \cup h.closed => b \in g.subscribers \cup g.closed
    BY <1>1, <1>4, <1>5
  <1>. QED  BY <1>7, <1>8 DEF TellsTo, g

\* sendLocked to subscriber a: the frame is queued or a evicted.
LEMMA SendTells ==
    ASSUME NEW h, HubOK(h), NEW a \in h.subscribers, NEW f \in Frame, NEW b \in Attachments
    PROVE  LET g == sendLocked(h, a, f) IN
           /\ ~LeaseFrame(f) => TellsTo(h, g, b)
           /\ g.leaseID = h.leaseID /\ g.subscribers \subseteq h.subscribers
           /\ h.subscribers \subseteq g.subscribers \cup g.closed /\ h.closed \subseteq g.closed
           /\ b # a => g.queue[b] = h.queue[b] /\ (b \in g.subscribers <=> b \in h.subscribers)
           /\ a \in g.subscribers => g.queue[a] = Append(h.queue[a], f)
  <1> DEFINE g == sendLocked(h, a, f)
             q == [h.queue EXCEPT ![a] = Append(h.queue[a], f)]
  <1>0. h \in HubState /\ a \in Attachments
    BY DEF HubOK, HubState
  <1>1. /\ h.queue[b] \in Seq(Frame) /\ h.queue[a] \in Seq(Frame)
        /\ q[a] = Append(h.queue[a], f) /\ (b # a => q[b] = h.queue[b])
    BY <1>0 DEF HubState
  <1>2. CASE Len(h.queue[a]) < SubscriberBuffer
    <2>1. g = [h EXCEPT !.queue = q]
      BY <1>2 DEF sendLocked
    <2> HIDE DEF g, q
    <2>2. /\ g.queue = q /\ g.leaseID = h.leaseID /\ g.subscribers = h.subscribers
          /\ g.closed = h.closed
      BY <1>0, <2>1 DEF HubState
    <2>3. /\ ~LeaseFrame(f) => Quietly(h.queue[a], g.queue[a])
          /\ Quietly(h.queue[b], h.queue[b])
      BY <1>1, <2>2, OneMore
    <2>4. ~LeaseFrame(f) => TellsTo(h, g, b)
      BY <1>1, <2>2, <2>3 DEF TellsTo
    <2>. QED  BY <1>1, <2>2, <2>4 DEF g
  <1>3. CASE ~(Len(h.queue[a]) < SubscriberBuffer)
    <2>1. /\ g.queue = h.queue /\ g.leaseID = h.leaseID
          /\ g.subscribers = h.subscribers \ {a} /\ g.closed = h.closed \cup {a}
      BY <1>0, <1>3 DEF sendLocked, HubState
    <2> HIDE DEF g, q
    <2>3. Quietly(h.queue[b], h.queue[b])
      BY <1>1, OneMore
    <2>4. TellsTo(h, g, b)
      BY <2>1, <2>3 DEF TellsTo
    <2>. QED  BY <1>1, <2>1, <2>4 DEF g
  <1>. QED  BY <1>2, <1>3

\* revokeControllerLocked and expireControllerLocked.
LEMMA RevokeTells ==
    ASSUME NEW h, HubOK(h), NEW b \in Attachments
    PROVE  /\ TellsTo(h, revokeControllerLocked(h), b)
           /\ TellsTo(h, expireControllerLocked(h), b)
  <1> DEFINE a == h.controller.attachment
             g == revokeControllerLocked(h)
  <1>0. h \in HubState /\ TellsTo(h, h, b)
    BY SameTells DEF HubOK
  <1> SUFFICES TellsTo(h, revokeControllerLocked(h), b)
    BY <1>0 DEF expireControllerLocked
  <1>1. CASE a = None
    BY <1>0, <1>1 DEF revokeControllerLocked
  <1>2. CASE a # None /\ a \notin h.subscribers
    <2>1. g = [h EXCEPT !.controller = NoLease]
      BY <1>2 DEF revokeControllerLocked
    <2> HIDE DEF g
    <2>2. /\ g.queue = h.queue /\ g.subscribers = h.subscribers /\ g.closed = h.closed
          /\ g.leaseID = h.leaseID
      BY <1>0, <2>1 DEF HubState
    <2>3. TellsTo(h, g, b)
      BY <2>2, SameTells
    <2>. QED  BY <2>3 DEF g
  <1>3. CASE a # None /\ a \in h.subscribers
    <2> DEFINE r == [h.role EXCEPT ![a] = "observe"]
               l == [h.leaseID EXCEPT ![a] = 0]
               d == [h EXCEPT !.role = r, !.leaseID = l]
               f == Simple("controller_revoked")
               t == sendLocked(d, a, f)
    <2>1. a \in Attachments /\ f \in Frame
      BY <1>0, <1>3, SimpleFrame DEF HubState, FrameTypes
    <2>2. h.leaseID[a] # 0
      BY <1>3 DEF HubOK, Agrees
    <2>3. l \in [Attachments -> Nat] /\ r \in [Attachments -> {"control", "observe"}]
      BY <1>0, <2>1 DEF HubState
    <2>4. \A c \in Attachments : IF c = a THEN l[c] = 0 ELSE l[c] = h.leaseID[c]
      BY <1>0 DEF HubState
    <2>5. h.queue[b] \in Seq(Frame) /\ h.queue[a] \in Seq(Frame)
      BY <1>0, <2>1 DEF HubState
    <2>6. /\ d \in HubState /\ d.queue = h.queue /\ d.subscribers = h.subscribers
          /\ d.closed = h.closed /\ d.leaseID = l /\ d.controller = h.controller
      <3> HIDE DEF l, r
      <3>. QED  BY <1>0, <2>3 DEF HubState
    <2>7. g = [t EXCEPT !.controller = NoLease]
      BY <1>3 DEF revokeControllerLocked, Demoted
    <2> DEFINE q == [d.queue EXCEPT ![a] = Append(d.queue[a], f)]
    <2>8. q[a] = Append(h.queue[a], f) /\ (b # a => q[b] = h.queue[b])
      BY <1>0, <2>1, <2>6 DEF HubState
    <2> HIDE DEF d, l, r, f, g
    <2>9. CASE Len(d.queue[a]) < SubscriberBuffer
      <3>1. t = [d EXCEPT !.queue = q]
        BY <2>9 DEF sendLocked
      <3> HIDE DEF q, t
      <3>2. /\ g.queue = q /\ g.leaseID = l /\ g.subscribers = h.subscribers
            /\ g.closed = h.closed
        BY <2>6, <2>7, <3>1 DEF HubState
      <3>3. Revoking(h.queue[a], q[a]) /\ Quietly(h.queue[b], h.queue[b])
        BY <2>1, <2>5, <2>8, OneMore DEF f
      <3>4. TellsTo(h, g, b)
        <4>1. CASE b = a
          BY <1>3, <2>2, <2>4, <3>2, <3>3, <4>1 DEF TellsTo
        <4>2. CASE b # a
          BY <2>4, <2>8, <3>2, <3>3, <4>2 DEF TellsTo
        <4>. QED  BY <4>1, <4>2
      <3>. QED  BY <3>4 DEF g
    <2>10. CASE ~(Len(d.queue[a]) < SubscriberBuffer)
      <3>1. /\ t.queue = d.queue /\ t.leaseID = d.leaseID
            /\ t.subscribers = d.subscribers \ {a} /\ t.closed = d.closed \cup {a}
            /\ g.queue = t.queue /\ g.leaseID = t.leaseID
            /\ g.subscribers = t.subscribers /\ g.closed = t.closed
        <4>1. t = [d EXCEPT !.subscribers = @ \ {a}, !.closed = @ \cup {a},
                            !.controller = IF @.attachment = a THEN NoLease ELSE @]
          BY <2>10 DEF sendLocked
        <4> HIDE DEF t
        <4>. QED  BY <2>6, <2>7, <4>1 DEF HubState
      <3> HIDE DEF t, q
      <3>2. Quietly(h.queue[b], h.queue[b])
        BY <2>1, <2>5, OneMore
      <3>3. TellsTo(h, g, b)
        BY <2>4, <2>6, <3>1, <3>2 DEF TellsTo
      <3>. QED  BY <3>3 DEF g
    <2>. QED  BY <2>9, <2>10
  <1>. QED  BY <1>1, <1>2, <1>3

\* What a step has to show for an attachment b whose handler and client it leaves alone.
LEMMA KnowsKept ==
    ASSUME IInv, HubOK(hub'), NEW b \in Attachments, Knows(b), TellsTo(hub, hub', b),
           conn'[b] = "up" =>
               conn[b] = "up" /\ initial'[b] = initial[b] /\ view'[b] = view[b],
           Pending(b)' <=> Pending(b),
           Pending(b) => reply'[b] = reply[b]
    PROVE  Knows(b)'
  <1> SUFFICES ASSUME b \in hub'.subscribers, conn'[b] = "up", hub'.leaseID[b] # 0
               PROVE  IF Pending(b)' THEN reply'[b].lease = hub'.leaseID[b]
                      ELSE Told(hub'.queue[b], initial'[b], view'[b].lease, hub'.leaseID[b])
    BY DEF Knows, Pending
  <1>1. hub.queue[b] \in Seq(Frame) /\ hub'.queue[b] \in Seq(Frame)
    BY DEF IInv, HubOK, HubState
  <1>2. /\ b \in hub.subscribers /\ hub'.leaseID[b] = hub.leaseID[b]
        /\ Quietly(hub.queue[b], hub'.queue[b])
    BY DEF TellsTo
  <1>3. CASE Pending(b)
    BY <1>2, <1>3 DEF Knows
  <1>4. CASE ~Pending(b)
    <2>1. Told(hub.queue[b], initial[b], view[b].lease, hub.leaseID[b])
      BY <1>2, <1>4 DEF Knows
    <2>2. Told(hub'.queue[b], initial[b], view[b].lease, hub.leaseID[b])
      BY <1>1, <1>2, <2>1, ToldKept
    <2>. QED  BY <1>2, <1>4, <2>2
  <1>. QED  BY <1>3, <1>4

\* What a step has to show that leaves all clients alone and whose handler, if it
\* answers, answers plainly.
LEMMA TellingStep ==
    ASSUME IInv, Known, HubOK(hub'), Shrinks(hub, hub'),
           \A b \in Attachments : TellsTo(hub, hub', b),
           \A b \in Attachments :
               /\ conn'[b] = "up" =>
                     conn[b] = "up" /\ initial'[b] = initial[b] /\ view'[b] = view[b]
               /\ pc'[b] = "idle" => pc[b] = "idle"
               /\ \/ pc'[b] = pc[b] /\ reply'[b] = reply[b]
                  \/ /\ pc[b] # "reply"
                     /\ (reply'[b] = reply[b] /\ pc'[b] # "reply") \/ reply'[b].type = "answer"
    PROVE  Known' /\ Demotions
  <1>1. ASSUME NEW b \in Attachments PROVE Knows(b)'
    <2>1. (Pending(b)' <=> Pending(b)) /\ (Pending(b) => reply'[b] = reply[b])
      BY DEF Pending
    <2>. QED  BY <2>1, KnowsKept DEF Known
  <1>2. IdleQuiet'
    <2> SUFFICES ASSUME NEW b \in Attachments, pc'[b] = "idle" PROVE hub'.queue[b] = << >>
      BY DEF IdleQuiet
    <2>1. hub.queue[b] = << >> /\ b \notin hub.subscribers
      BY DEF Known, IdleQuiet, IInv, IdleUnknown, Untouched
    <2>. QED  BY <2>1 DEF TellsTo
  <1>3. AnswersPlain'
    BY DEF Known, AnswersPlain
  <1>4. NotLeftBehind(hub')
    <2>0. hub \in HubState
      BY DEF IInv, HubOK
    <2>1. hub.controller.attachment \in Attachments \cup {None}
      BY <2>0 DEF HubState, Lease
    <2>2. hub.controller.attachment \in hub.subscribers \cup hub.closed \cup {None}
      BY DEF Known, NotLeftBehind
    <2>. QED  BY <2>1, <2>2 DEF NotLeftBehind, Shrinks, TellsTo
  <1>5. Demotions
    <2> SUFFICES ASSUME NEW b \in hub.subscribers \cap hub'.subscribers,
                        hub.leaseID[b] # 0, hub'.leaseID[b] = 0
                 PROVE  \E i \in (Len(hub.queue[b]) + 1)..Len(hub'.queue[b]) :
                            hub'.queue[b][i] = Simple("controller_revoked")
      BY DEF Demotions
    <2>1. b \in Attachments
      BY DEF IInv, HubOK, HubState
    <2>. QED  BY <2>1 DEF TellsTo, Revoking
  <1>. QED  BY <1>1, <1>2, <1>3, <1>4, <1>5 DEF Known, NotLeftBehind

\* The process, the timers and the reaper.
LEMMA ProcessTells ==
    ASSUME IInv, Known, ProcessNext PROVE Known' /\ Demotions
  <1> USE DEF procVars, handlerVars
  <1>0. HubOK(hub) /\ hub \in HubState /\ HubOK(hub')
    <2>1. IInv'
      BY ProcessStep
    <2>. QED  BY <2>1 DEF IInv, HubOK, QueuesFit, ControllerNewest, Agrees
  <1>g. ASSUME Shrinks(hub, hub'), \A b \in Attachments : TellsTo(hub, hub', b),
               UNCHANGED handlerVars
        PROVE  Known' /\ Demotions
    BY <1>0, <1>g, TellingStep
  <1>s. ASSUME hub'.queue = hub.queue, hub'.subscribers = hub.subscribers,
               hub'.leaseID = hub.leaseID, hub'.closed = hub.closed, hub'.role = hub.role,
               hub'.issued = hub.issued, 
               hub'.controller.attachment = hub.controller.attachment,
               UNCHANGED handlerVars
        PROVE  Known' /\ Demotions
    <2>1. \A b \in Attachments : TellsTo(hub, hub', b)
      BY <1>0, <1>s, SameTells
    <2>2. Shrinks(hub, hub')
      BY <1>s DEF Shrinks
    <2>. QED  BY <1>g, <1>s, <2>1, <2>2
  <1>1. CASE Start \/ wait \/ terminate \/ GraceExpires \/ TerminateReturns
    BY <1>1, <1>s DEF Start, wait, terminate, GraceExpires, TerminateReturns
  <1>2. CASE setProcess
    <2>1. /\ hub' = [hub EXCEPT !.state = IF hub.state = "starting" THEN "running" ELSE hub.state]
          /\ UNCHANGED handlerVars
      BY <1>2 DEF setProcess
    <2>2. /\ hub'.queue = hub.queue /\ hub'.subscribers = hub.subscribers
          /\ hub'.leaseID = hub.leaseID /\ hub'.closed = hub.closed /\ hub'.role = hub.role
          /\ hub'.issued = hub.issued /\ hub'.controller = hub.controller
      BY <1>0, <2>1 DEF HubState
    <2>. QED  BY <1>s, <2>1, <2>2
  <1>3. CASE publishExit
    <2> DEFINE h == [hub EXCEPT !.state = "exited", !.exit = TRUE]
    <2>1. /\ h \in HubState
          /\ h.queue = hub.queue /\ h.subscribers = hub.subscribers
          /\ h.controller = hub.controller /\ h.issued = hub.issued
          /\ h.role = hub.role /\ h.leaseID = hub.leaseID /\ h.closed = hub.closed
      BY <1>0 DEF HubState
    <2>2. /\ hub' = IF hub.exit THEN hub
                    ELSE broadcastLocked(revokeControllerLocked(h), Simple("exit"))
          /\ UNCHANGED handlerVars
      BY <1>3 DEF publishExit
    <2> HIDE DEF h
    <2>3. HubOK(h) /\ Shrinks(hub, h)
      BY <1>0, <2>1 DEF HubOK, QueuesFit, ControllerNewest, Agrees, Shrinks
    <2> DEFINE r == revokeControllerLocked(h)
               g == broadcastLocked(r, Simple("exit"))
    <2>4. HubOK(r) /\ Shrinks(h, r)
      BY <2>3, RevokeOK
    <2>e. Simple("exit") \in Frame /\ ~LeaseFrame(Simple("exit"))
      BY SimpleFrame DEF FrameTypes, LeaseFrame, Simple
    <2>5. HubOK(g) /\ Shrinks(r, g)
      <3> HIDE DEF r
      <3>. QED  BY <2>4, <2>e, BroadcastOK
    <2>6. Shrinks(hub, g)
      BY <2>3, <2>4, <2>5 DEF Shrinks
    <2>7. ASSUME NEW b \in Attachments PROVE TellsTo(hub, g, b)
      <3>1. TellsTo(hub, h, b)
        BY <1>0, <2>1, SameTells
      <3>2. TellsTo(h, r, b)
        BY <2>3, RevokeTells
      <3>3. TellsTo(r, g, b)
        <4> HIDE DEF r
        <4>. QED  BY <2>4, <2>e, BroadcastTells
      <3> HIDE DEF r, g
      <3>4. TellsTo(hub, r, b)
        BY <1>0, <2>3, <2>4, <3>1, <3>2, TellsTrans
      <3>. QED  BY <1>0, <2>4, <2>5, <3>3, <3>4, TellsTrans
    <2> HIDE DEF r, g
    <2>8. CASE hub.exit
      BY <1>s, <2>2, <2>8
    <2>9. CASE ~hub.exit
      <3>1. hub' = g
        BY <2>2, <2>9 DEF g, r
      <3>. QED  BY <1>g, <2>2, <2>6, <2>7, <3>1
    <2>. QED  BY <2>8, <2>9
  <1>4. CASE LeaseTimeout
    <2> DEFINE c == [hub.controller EXCEPT !.expired = TRUE]
    <2>1. hub' = [hub EXCEPT !.controller = c] /\ UNCHANGED handlerVars
      BY <1>4 DEF LeaseTimeout
    <2>2. c.attachment = hub.controller.attachment
      BY <1>0 DEF HubState, Lease
    <2> HIDE DEF c
    <2>3. /\ hub'.queue = hub.queue /\ hub'.subscribers = hub.subscribers
          /\ hub'.leaseID = hub.leaseID /\ hub'.closed = hub.closed /\ hub'.role = hub.role
          /\ hub'.issued = hub.issued /\ hub'.controller = c
      BY <1>0, <2>1 DEF HubState
    <2>. QED  BY <1>s, <2>1, <2>2, <2>3
  <1>5. CASE ReapLease
    BY <1>0, <1>5, <1>g, ExpireOK, RevokeTells DEF ReapLease
  <1>6. ASSUME NEW size \in Sizes, publishOutput(size) PROVE Known' /\ Demotions
    <2>1. Output(replay.latest + 1) \in Frame /\ ~LeaseFrame(Output(replay.latest + 1))
      BY DEF IInv, TypeOK, Output, Frame, FrameTypes, LeaseFrame
    <2>2. Shrinks(hub, hub') /\ UNCHANGED handlerVars
      BY <1>0, <1>6, <2>1, BroadcastOK DEF publishOutput
    <2>3. \A b \in Attachments : TellsTo(hub, hub', b)
      BY <1>0, <1>6, <2>1, BroadcastTells DEF publishOutput
    <2>. QED  BY <1>g, <2>2, <2>3
  <1>. QED  BY <1>1, <1>2, <1>3, <1>4, <1>5, <1>6 DEF ProcessNext

\* Silent frames are added quietly.
LEMMA SilentAdded ==
    ASSUME NEW q \in Seq(Frame), NEW s \in Seq(Frame), Silent(s)
    PROVE  q \o s \in Seq(Frame) /\ Quietly(q, q \o s)
  <1> DEFINE p == q \o s
  <1>1. /\ p \in Seq(Frame) /\ Len(q) \in Nat /\ Len(s) \in Nat /\ Len(p) = Len(q) + Len(s)
        /\ \A i \in 1..Len(q) : p[i] = q[i]
    OBVIOUS
  <1>2. ASSUME NEW i \in (Len(q) + 1)..Len(p) PROVE ~LeaseFrame(p[i])
    <2>1. i - Len(q) \in 1..Len(s)
      BY <1>1
    <2>2. p[i] = s[i - Len(q)]
      BY <1>1
    <2>. QED  BY <2>1, <2>2 DEF Silent
  <1> HIDE DEF p
  <1>3. Quietly(q, p)
    BY <1>1, <1>2 DEF Quietly, Lengthened
  <1>. QED  BY <1>1, <1>3 DEF p

\* What attach prepares names the lease it granted.
LEMMA InitialNames ==
    ASSUME TypeOK, NEW h \in HubState, NEW a \in Attachments, NEW after \in Nat \cup {NoCursor}
    PROVE  Names(InitialFrames(h, a, after), h.leaseID[a])
  <1> DEFINE l == h.leaseID[a]
             first == <<Attached(l)>>
  <1>1. PICK gap, outs, exit \in {s \in Seq(Frame) : Silent(s)} :
            InitialFrames(h, a, after) = first \o gap \o outs \o exit
    BY InitialFramesParts
  <1>2. first \in Seq(Frame) /\ Names(first, l)
    <2>1. Attached(l) \in Frame
      BY InitialFramesParts
    <2>2. first \in Seq(Frame) /\ Len(first) = 1 /\ first[1] = Attached(l)
      BY <2>1
    <2>3. Attached(l).type = "attached" /\ Attached(l).lease = l
      BY DEF Attached
    <2> HIDE DEF first
    <2>4. 1 \in 1..Len(first) /\ \A j \in 1..Len(first) : ~(j > 1)
      BY <2>2
    <2>. QED  BY <2>2, <2>3, <2>4 DEF Names
  <1> HIDE DEF first, l
  <1>3. first \o gap \in Seq(Frame) /\ Names(first \o gap, l)
    BY <1>2, SilentAdded, QuietKept
  <1>4. first \o gap \o outs \in Seq(Frame) /\ Names(first \o gap \o outs, l)
    <2> DEFINE x == first \o gap
    <2>1. x \in Seq(Frame) /\ Names(x, l)
      BY <1>3
    <2> HIDE DEF x
    <2>2. x \o outs \in Seq(Frame) /\ Names(x \o outs, l)
      BY <2>1, SilentAdded, QuietKept
    <2>. QED  BY <2>2 DEF x
  <1>5. Names(first \o gap \o outs \o exit, l)
    <2> DEFINE x == first \o gap \o outs
    <2>1. x \in Seq(Frame) /\ Names(x, l)
      BY <1>4
    <2> HIDE DEF x
    <2>2. x \o exit \in Seq(Frame) /\ Names(x \o exit, l)
      BY <2>1, SilentAdded, QuietKept
    <2>. QED  BY <2>2 DEF x
  <1>. QED  BY <1>1, <1>5 DEF l

\* A hub h that tells, then a grant to a: the others are told as by h alone.
LEMMA GrantTells ==
    ASSUME NEW k, NEW h, HubOK(h), NEW a \in Attachments,
           NEW g, g.queue = grantControllerLocked(h, a).queue,
           g.leaseID = grantControllerLocked(h, a).leaseID,
           g.closed = grantControllerLocked(h, a).closed,
           g.subscribers \in {h.subscribers, h.subscribers \cup {a}}
    PROVE  /\ g.queue = h.queue /\ g.closed = h.closed /\ g.leaseID[a] = h.issued + 1
           /\ \A b \in Attachments \ {a} : g.leaseID[b] = h.leaseID[b]
           /\ \A b \in Attachments \ {a} : TellsTo(k, h, b) => TellsTo(k, g, b)
  <1> DEFINE l == [h.leaseID EXCEPT ![a] = h.issued + 1]
             r == [h.role EXCEPT ![a] = "control"]
             c == [attachment |-> a, lease |-> h.issued + 1, expired |-> FALSE]
             n == h.issued + 1
             d == grantControllerLocked(h, a)
  <1>0. h \in HubState
    BY DEF HubOK
  <1>1. d = [h EXCEPT !.issued = n, !.role = r, !.leaseID = l, !.controller = c]
    BY DEF grantControllerLocked
  <1>2. l[a] = h.issued + 1 /\ \A b \in Attachments \ {a} : l[b] = h.leaseID[b]
    BY <1>0 DEF HubState
  <1> HIDE DEF l, r, c, n, d
  <1>3. d.queue = h.queue /\ d.closed = h.closed /\ d.leaseID = l
    BY <1>0, <1>1 DEF HubState
  <1>4. g.queue = h.queue /\ g.closed = h.closed /\ g.leaseID = l
    BY <1>3 DEF d
  <1>. QED  BY <1>2, <1>4 DEF TellsTo

\* What a step has to show that grants the lease to a, or lets a in without one.
LEMMA GrantingStep ==
    ASSUME IInv, Known, HubOK(hub'), NEW a \in Attachments,
           \A b \in Attachments \ {a} :
               /\ TellsTo(hub, hub', b)
               /\ conn'[b] = conn[b] /\ initial'[b] = initial[b] /\ view'[b] = view[b]
               /\ pc'[b] = pc[b] /\ reply'[b] = reply[b],
           pc'[a] # "idle", reply'[a].type \in {"attached", "answer"}, Knows(a)',
           NotLeftBehind(hub'), hub.leaseID[a] = 0 \/ hub'.leaseID[a] # 0
    PROVE  Known' /\ Demotions
  <1>1. ASSUME NEW b \in Attachments PROVE Knows(b)'
    <2>1. CASE b = a
      BY <2>1
    <2>2. CASE b # a
      <3>1. (Pending(b)' <=> Pending(b)) /\ (Pending(b) => reply'[b] = reply[b])
        BY <2>2 DEF Pending
      <3>. QED  BY <2>2, <3>1, KnowsKept DEF Known
    <2>. QED  BY <2>1, <2>2
  <1>2. IdleQuiet'
    <2> SUFFICES ASSUME NEW b \in Attachments, pc'[b] = "idle" PROVE hub'.queue[b] = << >>
      BY DEF IdleQuiet
    <2>0. b # a /\ pc[b] = "idle"
      OBVIOUS
    <2>1. hub.queue[b] = << >> /\ b \notin hub.subscribers
      BY <2>0 DEF Known, IdleQuiet, IInv, IdleUnknown, Untouched
    <2>. QED  BY <2>0, <2>1 DEF TellsTo
  <1>3. AnswersPlain'
    BY DEF Known, AnswersPlain
  <1>5. Demotions
    <2> SUFFICES ASSUME NEW b \in hub.subscribers \cap hub'.subscribers,
                        hub.leaseID[b] # 0, hub'.leaseID[b] = 0
                 PROVE  \E i \in (Len(hub.queue[b]) + 1)..Len(hub'.queue[b]) :
                            hub'.queue[b][i] = Simple("controller_revoked")
      BY DEF Demotions
    <2>1. b \in Attachments \ {a}
      BY DEF IInv, HubOK, HubState
    <2>. QED  BY <2>1 DEF TellsTo, Revoking
  <1>. QED  BY <1>1, <1>2, <1>3, <1>5 DEF Known, NotLeftBehind

\* Connecting and leaving.
LEMMA ConnectionTells ==
    ASSUME IInv, Known, IInv', NEW a \in Attachments,
           \/ AttachRejected(a)
           \/ \E r \in {"control", "observe"}, after \in NoCursor..(replay.latest + 1), take \in BOOLEAN :
                 AttachFails(a, r, after, take) \/ attach(a, r, after, take)
           \/ Disconnect(a) \/ detach(a)
    PROVE  Known' /\ Demotions
  <1>0. /\ TypeOK /\ HubOK(hub) /\ hub \in HubState /\ HubOK(hub') /\ hub' \in HubState
    <2>1. HubOK(hub')
      BY DEF IInv, HubOK, QueuesFit, ControllerNewest, Agrees
    <2>. QED  BY <2>1 DEF IInv, HubOK
  <1>s. Shrinks(hub, hub) /\ \A b \in Attachments : TellsTo(hub, hub, b)
    BY <1>0, SameTells DEF Shrinks
  <1>e. /\ HubOK(expireControllerLocked(hub)) /\ Shrinks(hub, expireControllerLocked(hub))
        /\ \A b \in Attachments : TellsTo(hub, expireControllerLocked(hub), b)
    BY <1>0, ExpireOK, RevokeTells
  <1>g. ASSUME pc[a] = "idle", pc' = [pc EXCEPT ![a] = "gone"],
               Shrinks(hub, hub'), \A b \in Attachments : TellsTo(hub, hub', b),
               UNCHANGED <<reply, initial, conn, view>>
        PROVE  Known' /\ Demotions
    <2>1. \A b \in Attachments : /\ pc'[b] = "idle" => pc[b] = "idle"
                                 /\ pc'[b] = pc[b] \/ (pc[b] # "reply" /\ pc'[b] # "reply")
      BY <1>0, <1>g DEF TypeOK
    <2>. QED  BY <1>0, <1>g, <2>1, TellingStep
  <1>1. CASE AttachRejected(a)
    BY <1>1, <1>s, <1>g DEF AttachRejected
  <1>2. ASSUME NEW r \in {"control", "observe"}, NEW after \in NoCursor..(replay.latest + 1),
               NEW take \in BOOLEAN, AttachFails(a, r, after, take)
        PROVE  Known' /\ Demotions
    BY <1>2, <1>e, <1>g DEF AttachFails
  <1>3. ASSUME NEW r \in {"control", "observe"}, NEW after \in NoCursor..(replay.latest + 1),
               NEW take \in BOOLEAN, attach(a, r, after, take)
        PROVE  Known' /\ Demotions
    <2> DEFINE h == expireControllerLocked(hub)
               freed == IF take THEN revokeControllerLocked(h) ELSE h
               granted == IF r = "control" THEN grantControllerLocked(freed, a) ELSE h
               s == InitialFrames(granted, a, after)
    <2>1. /\ pc[a] = "idle"
          /\ hub' = [granted EXCEPT !.subscribers = @ \cup {a}]
          /\ ~AttachRefused(h, r, after, take)
          /\ initial' = [initial EXCEPT ![a] = s]
          /\ pc' = [pc EXCEPT ![a] = "reading"]
          /\ conn' = [conn EXCEPT ![a] = "up"]
          /\ \E n : view' = [view EXCEPT ![a] = [view[a] EXCEPT !.cursor = n]]
          /\ reply' = reply
      BY <1>3, Zenon DEF attach
    <2>2. after \in Nat \cup {NoCursor}
      BY <1>0 DEF TypeOK, NoCursor
    <2>3. hub.queue[a] = << >> /\ a \notin hub.subscribers /\ hub.leaseID[a] = 0
      BY <2>1 DEF Known, IdleQuiet, IInv, IdleUnknown, Untouched
    <2>4. /\ HubOK(h) /\ \A b \in Attachments : TellsTo(hub, h, b)
          /\ Untouched(h, a)
      BY <1>e, <2>1, UntouchedKept DEF IInv, IdleUnknown
    <2>5. HubOK(freed) /\ \A b \in Attachments : TellsTo(hub, freed, b)
      <3> HIDE DEF h
      <3>1. CASE take
        <4>1. HubOK(revokeControllerLocked(h)) /\ \A b \in Attachments : TellsTo(h, revokeControllerLocked(h), b)
          BY <2>4, RevokeOK, RevokeTells
        <4> DEFINE k == revokeControllerLocked(h)
        <4> HIDE DEF k
        <4>2. HubOK(k) /\ \A b \in Attachments : TellsTo(h, k, b)
          BY <4>1 DEF k
        <4>3. \A b \in Attachments : TellsTo(hub, k, b)
          BY <1>0, <2>4, <4>2, TellsTrans
        <4>. QED  BY <3>1, <4>2, <4>3 DEF k
      <3>2. CASE ~take
        BY <2>4, <3>2
      <3>. QED  BY <3>1, <3>2
    <2>c. r = "control" => freed.controller.attachment \in {None, a}
      <3>1. NoLease.attachment = None
        BY DEF NoLease
      <3>2. CASE take
        <4> HIDE DEF h
        <4>1. revokeControllerLocked(h).controller = NoLease
          BY <2>4, RevokeOK
        <4>. QED  BY <3>1, <3>2, <4>1
      <3>3. CASE ~take
        BY <2>1, <3>1, <3>3 DEF AttachRefused
      <3>. QED  BY <3>2, <3>3
    <2>d. r = "control" => /\ granted = grantControllerLocked(freed, a) /\ HubOK(granted)
                           /\ granted.subscribers = freed.subscribers
                           /\ granted.controller.attachment = a
      <3> HIDE DEF freed, h
      <3>1. r = "control" => granted = grantControllerLocked(freed, a)
        OBVIOUS
      <3>2. ASSUME r = "control"
            PROVE  /\ HubOK(grantControllerLocked(freed, a))
                   /\ grantControllerLocked(freed, a).subscribers = freed.subscribers
                   /\ grantControllerLocked(freed, a).controller.attachment = a
        <4>1. freed.controller.attachment \in {None, a}
          BY <2>c, <3>2
        <4>2. HubOK(freed)
          BY <2>5
        <4> HIDE DEF granted
        <4>. QED  BY <4>1, <4>2, GrantOK
      <3> HIDE DEF granted
      <3>. QED  BY <3>1, <3>2
    <2>6. /\ granted \in HubState
          /\ hub'.queue = granted.queue /\ hub'.leaseID = granted.leaseID
          /\ hub'.closed = granted.closed /\ hub'.controller = granted.controller
          /\ hub'.subscribers = granted.subscribers \cup {a}
      <3>1. granted \in HubState
        <4>1. CASE r = "control"
          <5> HIDE DEF granted
          <5>. QED  BY <2>d, <4>1 DEF HubOK
        <4>2. CASE r # "control"
          <5> HIDE DEF h
          <5>. QED  BY <2>4, <4>2 DEF HubOK
        <4>. QED  BY <4>1, <4>2
      <3> HIDE DEF granted
      <3>. QED  BY <2>1, <3>1 DEF HubState
    <2>7. /\ \A b \in Attachments \ {a} : TellsTo(hub, hub', b)
          /\ hub'.queue[a] = hub.queue[a]
          /\ hub'.controller.attachment = a \/ (hub'.controller = h.controller /\ hub'.closed = h.closed /\ hub'.subscribers = h.subscribers \cup {a})
      <3> HIDE DEF h, freed
      <3>1. CASE r = "control"
        <4> HIDE DEF granted
        <4>2. granted = grantControllerLocked(freed, a) /\ granted.subscribers = freed.subscribers
          BY <2>d, <3>1
        <4>1. /\ hub'.queue = grantControllerLocked(freed, a).queue
              /\ hub'.leaseID = grantControllerLocked(freed, a).leaseID
              /\ hub'.closed = grantControllerLocked(freed, a).closed
              /\ hub'.subscribers \in {freed.subscribers, freed.subscribers \cup {a}}
          BY <2>6, <4>2
        <4>3. /\ hub'.queue = freed.queue
              /\ \A b \in Attachments \ {a} : TellsTo(hub, freed, b) => TellsTo(hub, hub', b)
          BY <2>5, <4>1, GrantTells
        <4>4. hub'.queue[a] = hub.queue[a]
          BY <2>3, <2>5, <4>3 DEF TellsTo
        <4>. QED  BY <2>5, <2>6, <2>d, <3>1, <4>3, <4>4
      <3>2. CASE r # "control"
        <4>1. granted = h
          BY <3>2
        <4>2. \A b \in Attachments \ {a} : TellsTo(hub, hub', b)
          BY <2>4, <2>6, <4>1 DEF TellsTo
        <4>3. hub'.queue[a] = hub.queue[a]
          BY <2>3, <2>4, <2>6, <4>1 DEF TellsTo
        <4>. QED  BY <2>6, <4>1, <4>2, <4>3
      <3>. QED  BY <3>1, <3>2
    <2>8. Knows(a)'
      <3>1. Names(s, granted.leaseID[a])
        <4> HIDE DEF granted
        <4>. QED  BY <1>0, <2>2, <2>6, InitialNames
      <3> HIDE DEF s, granted
      <3>2. initial'[a] = s /\ pc'[a] = "reading" /\ Silent(hub'.queue[a])
        BY <1>0, <2>1, <2>3, <2>7 DEF TypeOK, Silent
      <3>3. Told(hub'.queue[a], initial'[a], view'[a].lease, hub'.leaseID[a])
        BY <2>6, <3>1, <3>2 DEF Told
      <3>. QED  BY <3>2, <3>3 DEF Knows, Pending
    <2>9. NotLeftBehind(hub')
      <3>1. CASE hub'.controller.attachment = a
        BY <2>6, <3>1 DEF NotLeftBehind
      <3>2. CASE hub'.controller = h.controller /\ hub'.closed = h.closed /\ hub'.subscribers = h.subscribers \cup {a}
        <4> HIDE DEF h, granted
        <4>1. hub.controller.attachment \in Attachments \cup {None}
          BY <1>0 DEF HubState, Lease
        <4>2. hub.controller.attachment \in hub.subscribers \cup hub.closed \cup {None}
          BY DEF Known, NotLeftBehind
        <4>3. h.controller.attachment \in {hub.controller.attachment, None}
          BY <1>e DEF Shrinks, h
        <4>. QED  BY <2>4, <3>2, <4>1, <4>2, <4>3 DEF NotLeftBehind, TellsTo
      <3>. QED  BY <2>7, <3>1, <3>2
    <2>10. /\ pc'[a] # "idle" /\ reply'[a].type \in {"attached", "answer"}
           /\ \A b \in Attachments \ {a} :
                 /\ conn'[b] = conn[b] /\ initial'[b] = initial[b] /\ view'[b] = view[b]
                 /\ pc'[b] = pc[b] /\ reply'[b] = reply[b]
      <3> HIDE DEF s, granted, h, freed
      <3>. QED  BY <1>0, <2>1 DEF TypeOK, Known, AnswersPlain
    <2> HIDE DEF s, granted, h, freed
    <2>. QED  BY <1>0, <2>3, <2>7, <2>8, <2>9, <2>10, GrantingStep
  <1>4. CASE Disconnect(a)
    <2>1. /\ hub' = hub /\ pc' = pc /\ reply' = reply /\ conn' = [conn EXCEPT ![a] = "down"]
          /\ initial' = [initial EXCEPT ![a] = << >>] /\ view' = [view EXCEPT ![a] = NoView]
      BY <1>4 DEF Disconnect
    <2>2. \A b \in Attachments : conn'[b] = "up" =>
              conn[b] = "up" /\ initial'[b] = initial[b] /\ view'[b] = view[b]
      BY <1>0, <2>1 DEF TypeOK
    <2>. QED  BY <1>0, <1>s, <2>1, <2>2, TellingStep
  <1>5. CASE detach(a)
    <2> DEFINE q == [hub.queue EXCEPT ![a] = << >>]
               l == [hub.leaseID EXCEPT ![a] = 0]
               r == [hub.role EXCEPT ![a] = "observe"]
               f == [hub EXCEPT !.queue = q, !.leaseID = l, !.role = r]
    <2>1. /\ pc' = [pc EXCEPT ![a] = "gone"] /\ conn[a] = "down"
          /\ UNCHANGED <<reply, initial, conn, view>>
          /\ hub' = IF a \notin hub.subscribers THEN f
                    ELSE [f EXCEPT !.subscribers = @ \ {a},
                                   !.controller = IF @.attachment = a THEN NoLease ELSE @]
      BY <1>5 DEF detach, Forgotten
    <2>2. \A b \in Attachments \ {a} : q[b] = hub.queue[b] /\ l[b] = hub.leaseID[b]
      BY <1>0 DEF HubState
    <2> HIDE DEF q, l, r
    <2>3. /\ f.queue = q /\ f.leaseID = l /\ f.subscribers = hub.subscribers
          /\ f.closed = hub.closed /\ f.controller = hub.controller
      BY <1>0 DEF HubState
    <2>f. f = [hub EXCEPT !.queue = q, !.leaseID = l, !.role = r]
      OBVIOUS
    <2> HIDE DEF f
    <2>4. /\ hub'.queue = q /\ hub'.leaseID = l /\ hub'.closed = hub.closed
          /\ hub'.subscribers = hub.subscribers \ {a}
          /\ IF hub.controller.attachment = a /\ a \in hub.subscribers
             THEN hub'.controller = NoLease ELSE hub'.controller = hub.controller
      <3>1. CASE a \notin hub.subscribers
        BY <2>1, <2>3, <3>1
      <3>2. CASE a \in hub.subscribers
        <4>1. hub' = [f EXCEPT !.subscribers = @ \ {a},
                               !.controller = IF @.attachment = a THEN NoLease ELSE @]
          BY <2>1, <3>2
        <4>. QED  BY <1>0, <2>3, <2>f, <3>2, <4>1 DEF HubState
      <3>. QED  BY <3>1, <3>2
    <2>5. ASSUME NEW b \in Attachments \ {a} PROVE TellsTo(hub, hub', b)
      <3>1. TellsTo(hub, hub, b)
        BY <1>s
      <3>. QED  BY <2>2, <2>4, <3>1 DEF TellsTo
    <2>6. Knows(a)'
      BY <2>1, <2>4 DEF Knows
    <2>7. NotLeftBehind(hub')
      BY <2>4 DEF NotLeftBehind, Known, NoLease
    <2>8. /\ pc'[a] # "idle" /\ reply'[a].type \in {"attached", "answer"}
          /\ \A b \in Attachments \ {a} : pc'[b] = pc[b]
      BY <1>0, <2>1 DEF TypeOK, Known, AnswersPlain
    <2>9. ASSUME NEW b \in Attachments PROVE Knows(b)'
      <3>1. CASE b = a
        BY <2>6, <3>1
      <3>2. CASE b # a
        <4>1. (Pending(b)' <=> Pending(b)) /\ (Pending(b) => reply'[b] = reply[b])
          BY <2>1, <2>8, <3>2 DEF Pending
        <4>. QED  BY <1>0, <2>1, <2>5, <3>2, <4>1, KnowsKept DEF Known
      <3>. QED  BY <3>1, <3>2
    <2>10. IdleQuiet' /\ AnswersPlain'
      <3>1. ASSUME NEW b \in Attachments, pc'[b] = "idle" PROVE hub'.queue[b] = << >>
        <4>1. b # a /\ pc[b] = "idle"
          BY <2>8, <3>1
        <4>. QED  BY <2>2, <2>4, <4>1 DEF Known, IdleQuiet
      <3>. QED  BY <2>1, <3>1 DEF IdleQuiet, AnswersPlain, Known
    <2>11. Demotions
      BY <1>0, <2>2, <2>4 DEF Demotions, HubState
    <2>. QED  BY <2>7, <2>9, <2>10, <2>11 DEF Known, NotLeftBehind
  <1>. QED  BY <1>1, <1>2, <1>3, <1>4, <1>5

\* handleClientFrame, hub.send and the return of a PTY call.
LEMMA HandlerTells ==
    ASSUME IInv, Known, IInv', NEW a \in Attachments,
           \/ Malformed(a) \/ Unsupported(a) \/ takeover(a) \/ Pong(a) \/ Ping(a) \/ send(a)
           \/ \E l \in 1..hub.issued : writeInput(a, l)
           \/ \E ok \in BOOLEAN : writeReturns(a, ok)
           \/ \E n \in 0..(replay.latest + 1) : acknowledge(a, n)
    PROVE  Known' /\ Demotions
  <1> USE DEF handlerVars
  <1>0. TypeOK /\ HubOK(hub) /\ hub \in HubState /\ HubOK(hub')
    <2>1. HubOK(hub')
      BY DEF IInv, HubOK, QueuesFit, ControllerNewest, Agrees
    <2>. QED  BY <2>1 DEF IInv, HubOK
  <1>s. Shrinks(hub, hub) /\ \A b \in Attachments : TellsTo(hub, hub, b)
    BY <1>0, SameTells DEF Shrinks
  <1>t. /\ Shrinks(hub, Touched(hub, a))
        /\ \A b \in Attachments : TellsTo(hub, Touched(hub, a), b)
    <2> DEFINE c == [hub.controller EXCEPT !.expired = FALSE]
               g == [hub EXCEPT !.controller = c]
    <2>1. /\ g.queue = hub.queue /\ g.subscribers = hub.subscribers
          /\ g.leaseID = hub.leaseID /\ g.closed = hub.closed
      <3> HIDE DEF c
      <3>. QED  BY <1>0 DEF HubState
    <2>2. Touched(hub, a) = hub \/ Touched(hub, a) = g
      BY DEF Touched
    <2> HIDE DEF g
    <2>3. \A b \in Attachments : TellsTo(hub, g, b)
      BY <1>0, <2>1, SameTells
    <2>. QED  BY <1>0, <1>s, <2>2, <2>3, TouchOK
  <1>e. /\ HubOK(expireControllerLocked(hub)) /\ Shrinks(hub, expireControllerLocked(hub))
        /\ \A b \in Attachments : TellsTo(hub, expireControllerLocked(hub), b)
    BY <1>0, ExpireOK, RevokeTells
  <1>n. Simple("answer").type = "answer"
    BY DEF Simple
  \* A handler that has no answer to send goes on, perhaps with a plain one.
  <1>g. ASSUME pc[a] \notin {"reply", "idle"},
               \/ UNCHANGED <<pc, reply>>
               \/ /\ \E x \in {"reading", "closing", "calling"} : pc' = [pc EXCEPT ![a] = x]
                  /\ UNCHANGED reply
               \/ /\ pc' = [pc EXCEPT ![a] = "reply"]
                  /\ reply' = [reply EXCEPT ![a] = Simple("answer")],
               Shrinks(hub, hub'), \A b \in Attachments : TellsTo(hub, hub', b),
               UNCHANGED <<initial, conn, view>>
        PROVE  Known' /\ Demotions
    <2>1. \A b \in Attachments :
             /\ pc'[b] = "idle" => pc[b] = "idle"
             /\ \/ pc'[b] = pc[b] /\ reply'[b] = reply[b]
                \/ /\ pc[b] # "reply"
                   /\ (reply'[b] = reply[b] /\ pc'[b] # "reply") \/ reply'[b].type = "answer"
      BY <1>0, <1>g, <1>n DEF TypeOK
    <2>. QED  BY <1>0, <1>g, <2>1, TellingStep
  <1>1. CASE Malformed(a)
    BY <1>1, <1>s, <1>g DEF Malformed, Handles, Answers
  <1>2. CASE Unsupported(a)
    <2>1. hub' = [hub EXCEPT !.closed = hub.closed \cup {a}]
      BY <1>2 DEF Unsupported
    <2>2. /\ hub'.queue = hub.queue /\ hub'.subscribers = hub.subscribers
          /\ hub'.controller = hub.controller /\ hub'.issued = hub.issued
          /\ hub'.role = hub.role /\ hub'.leaseID = hub.leaseID
          /\ hub.closed \subseteq hub'.closed
      BY <1>0, <2>1 DEF HubState
    <2>3. Shrinks(hub, hub') /\ \A b \in Attachments : TellsTo(hub, hub', b)
      BY <1>0, <2>2, SameTells DEF Shrinks
    <2>. QED  BY <1>2, <1>g, <2>3 DEF Unsupported, Handles
  <1>3. CASE takeover(a)
    <2> DEFINE h == expireControllerLocked(hub)
               freed == IF h.controller.attachment # a THEN revokeControllerLocked(h) ELSE h
               granted == grantControllerLocked(freed, a)
    <2>1. pc[a] = "reading" /\ UNCHANGED <<initial, conn, view>>
      BY <1>3 DEF takeover, Handles
    <2>2. CASE a \in Controllers /\ a \in hub.subscribers
      <3>1. /\ hub' = granted
            /\ pc' = [pc EXCEPT ![a] = "reply"]
            /\ reply' = [reply EXCEPT ![a] = Attached(granted.leaseID[a])]
        BY <1>3, <2>2 DEF takeover, Answers
      <3>2. /\ HubOK(freed) /\ freed.controller.attachment \in {None, a}
            /\ \A b \in Attachments : TellsTo(hub, freed, b)
        <4>0. HubOK(h) /\ \A b \in Attachments : TellsTo(hub, h, b)
          BY <1>e
        <4> HIDE DEF h
        <4>1. CASE h.controller.attachment # a
          <5> DEFINE k == revokeControllerLocked(h)
          <5>1. HubOK(k) /\ k.controller = NoLease /\ \A b \in Attachments : TellsTo(h, k, b)
            BY <4>0, RevokeOK, RevokeTells
          <5>2. freed = k
            BY <4>1
          <5> HIDE DEF k, freed
          <5>3. \A b \in Attachments : TellsTo(hub, k, b)
            BY <1>0, <4>0, <5>1, TellsTrans
          <5>. QED  BY <5>1, <5>2, <5>3 DEF NoLease
        <4>2. CASE h.controller.attachment = a
          BY <4>0, <4>2
        <4>. QED  BY <4>1, <4>2
      <3> HIDE DEF freed, h
      <3>3. /\ HubOK(granted) /\ granted.subscribers = freed.subscribers
            /\ granted.controller.attachment = a
        BY <3>2, GrantOK
      <3>4. /\ granted.closed = freed.closed /\ granted.leaseID[a] = freed.issued + 1
            /\ \A b \in Attachments \ {a} : TellsTo(hub, freed, b) => TellsTo(hub, granted, b)
        BY <3>2, <3>3, GrantTells
      <3> HIDE DEF granted
      <3>5. freed.issued \in Nat /\ granted.leaseID[a] # 0
        BY <3>2, <3>4 DEF HubOK, HubState
      <3>6. /\ pc'[a] = "reply" /\ reply'[a] = Attached(granted.leaseID[a])
            /\ \A b \in Attachments \ {a} : pc'[b] = pc[b] /\ reply'[b] = reply[b]
        BY <1>0, <3>1 DEF TypeOK
      <3>7. Knows(a)' /\ reply'[a].type = "attached"
        BY <3>1, <3>6 DEF Knows, Pending, Attached
      <3>8. NotLeftBehind(hub')
        BY <2>2, <3>1, <3>2, <3>3, <3>4 DEF NotLeftBehind, TellsTo
      <3>. QED  BY <1>0, <2>1, <3>1, <3>2, <3>4, <3>5, <3>6, <3>7, <3>8, GrantingStep
    <2>3. CASE ~(a \in Controllers /\ a \in hub.subscribers)
      <3>1. /\ pc' = [pc EXCEPT ![a] = "reply"] /\ reply' = [reply EXCEPT ![a] = Simple("answer")]
            /\ hub' = hub
        BY <1>3, <2>3 DEF takeover, Answers
      <3>. QED  BY <1>s, <1>g, <2>1, <3>1
    <2>. QED  BY <2>2, <2>3
  <1>4. CASE Pong(a)
    BY <1>4, <1>t, <1>g DEF Pong, Handles
  <1>5. CASE Ping(a)
    BY <1>5, <1>t, <1>g DEF Ping, Handles, Answers
  <1>6. CASE send(a)
    <2>1. /\ pc[a] = "reply" /\ UNCHANGED <<initial, conn, view>>
          /\ hub' = IF a \in hub.subscribers THEN sendLocked(hub, a, reply[a]) ELSE hub
          /\ pc' = [pc EXCEPT ![a] = "reading"]
          /\ reply' = [reply EXCEPT ![a] = NoReply]
      BY <1>6 DEF send
    <2>2. /\ pc'[a] = "reading" /\ reply'[a].type = "answer" /\ reply[a] \in Frame
          /\ \A b \in Attachments \ {a} : pc'[b] = pc[b] /\ reply'[b] = reply[b]
      BY <1>0, <1>n, <2>1 DEF TypeOK, NoReply
    <2>3. CASE a \notin hub.subscribers
      <3>1. hub' = hub
        BY <2>1, <2>3
      <3>2. \A b \in Attachments : TellsTo(hub, hub', b)
        BY <1>s, <3>1
      <3>3. Knows(a)' /\ hub.leaseID[a] = hub'.leaseID[a] /\ NotLeftBehind(hub')
        BY <2>3, <3>1 DEF Knows, Known, NotLeftBehind
      <3>. QED  BY <1>0, <2>1, <2>2, <3>2, <3>3, GrantingStep
    <2>4. CASE a \in hub.subscribers
      <3> DEFINE f == reply[a]
                 g == sendLocked(hub, a, f)
      <3>1. hub' = g
        BY <2>1, <2>4
      <3>2. ASSUME NEW b \in Attachments
            PROVE  /\ ~LeaseFrame(f) => TellsTo(hub, g, b)
                   /\ g.leaseID = hub.leaseID /\ g.subscribers \subseteq hub.subscribers
                   /\ hub.subscribers \subseteq g.subscribers \cup g.closed
                   /\ hub.closed \subseteq g.closed
                   /\ b # a => g.queue[b] = hub.queue[b] /\ (b \in g.subscribers <=> b \in hub.subscribers)
                   /\ a \in g.subscribers => g.queue[a] = Append(hub.queue[a], f)
        BY <1>0, <2>2, <2>4, SendTells
      <3>3. Shrinks(hub, g)
        BY <1>0, <2>2, SendOK
      <3> HIDE DEF g, f
      <3>4. \A b \in Attachments \ {a} : TellsTo(hub, hub', b)
        <4> SUFFICES ASSUME NEW b \in Attachments \ {a} PROVE TellsTo(hub, hub', b)
          OBVIOUS
        <4>1. TellsTo(hub, hub, b)
          BY <1>s
        <4>. QED  BY <3>1, <3>2, <4>1 DEF TellsTo
      <3>5. NotLeftBehind(hub')
        BY <3>1, <3>2, <3>3 DEF Known, NotLeftBehind, Shrinks
      <3>6. Knows(a)'
        <4> SUFFICES ASSUME a \in g.subscribers, conn[a] = "up", hub.leaseID[a] # 0
                     PROVE  Told(g.queue[a], initial[a], view[a].lease, hub.leaseID[a])
          BY <2>1, <2>2, <3>1, <3>2 DEF Knows, Pending
        <4>1. g.queue[a] = Append(hub.queue[a], f) /\ hub.queue[a] \in Seq(Frame) /\ f \in Frame
          BY <1>0, <2>2, <3>2 DEF HubState, f
        <4>2. CASE f.type = "attached"
          <5>1. f.lease = hub.leaseID[a]
            BY <2>1, <2>4, <4>2 DEF Known, Knows, Pending, f
          <5> DEFINE p == Append(hub.queue[a], f)
          <5>2. Len(p) \in Nat /\ Len(p) \in 1..Len(p) /\ p[Len(p)] = f
            BY <4>1
          <5> HIDE DEF p
          <5>3. \A j \in 1..Len(p) : ~(j > Len(p))
            BY <5>2
          <5>4. Names(p, hub.leaseID[a])
            BY <4>2, <5>1, <5>2, <5>3 DEF Names
          <5>. QED  BY <4>1, <5>4 DEF Told, p
        <4>3. CASE f.type # "attached"
          <5>1. ~LeaseFrame(f) /\ ~Pending(a)
            BY <4>3 DEF Known, AnswersPlain, LeaseFrame, Pending, f
          <5>2. Quietly(hub.queue[a], g.queue[a])
            BY <4>1, <5>1, OneMore
          <5>3. Told(hub.queue[a], initial[a], view[a].lease, hub.leaseID[a])
            BY <2>4, <5>1 DEF Known, Knows
          <5>4. g.queue[a] \in Seq(Frame)
            BY <4>1
          <5>. QED  BY <4>1, <5>2, <5>3, <5>4, ToldKept
        <4>. QED  BY <4>2, <4>3
      <3>. QED  BY <1>0, <2>1, <2>2, <3>1, <3>2, <3>4, <3>5, <3>6, GrantingStep
    <2>. QED  BY <2>3, <2>4
  <1>7. ASSUME NEW l \in 1..hub.issued, writeInput(a, l) PROVE Known' /\ Demotions
    <2> DEFINE h == expireControllerLocked(hub)
    <2>1. pc[a] = "reading" /\ hub' = h /\ UNCHANGED <<initial, conn, view>>
      BY <1>7 DEF writeInput, Handles
    <2>2. CASE authorizedController(h, a, l)
      <3>1. reply' = reply /\ pc' = [pc EXCEPT ![a] = "calling"]
        BY <1>7, <2>2 DEF writeInput
      <3>. QED  BY <1>e, <1>g, <2>1, <3>1
    <2>3. CASE ~authorizedController(h, a, l)
      <3>1. pc' = [pc EXCEPT ![a] = "reply"] /\ reply' = [reply EXCEPT ![a] = Simple("answer")]
        BY <1>7, <2>3 DEF writeInput, Answers
      <3>. QED  BY <1>e, <1>g, <2>1, <3>1
    <2>. QED  BY <2>2, <2>3
  <1>8. ASSUME NEW ok \in BOOLEAN, writeReturns(a, ok) PROVE Known' /\ Demotions
    <2>1. /\ pc[a] = "calling"
          /\ \/ pc' = [pc EXCEPT ![a] = "reading"] /\ reply' = reply
             \/ pc' = [pc EXCEPT ![a] = "reply"] /\ reply' = [reply EXCEPT ![a] = Simple("answer")]
          /\ hub' \in {hub, Touched(hub, a)}
          /\ UNCHANGED <<initial, conn, view>>
      BY <1>8 DEF writeReturns, Answers, Refreshed
    <2>2. Shrinks(hub, hub') /\ \A b \in Attachments : TellsTo(hub, hub', b)
      BY <1>s, <1>t, <2>1
    <2>. QED  BY <1>g, <2>1, <2>2
  <1>9. ASSUME NEW n \in 0..(replay.latest + 1), acknowledge(a, n) PROVE Known' /\ Demotions
    <2>1. CASE a \in hub.subscribers /\ n <= replay.latest
      BY <1>9, <1>t, <1>g, <2>1 DEF acknowledge, Handles
    <2>2. CASE ~(a \in hub.subscribers /\ n <= replay.latest)
      BY <1>9, <1>s, <1>g, <2>2 DEF acknowledge, Handles, Answers
    <2>. QED  BY <2>1, <2>2
  <1>. QED  BY <1>1, <1>2, <1>3, <1>4, <1>5, <1>6, <1>7, <1>8, <1>9

\* The writer goroutine.
LEMMA WriterTells ==
    ASSUME IInv, Known, IInv', NEW a \in Attachments, WriteInitial(a) \/ WriteQueued(a)
    PROVE  Known' /\ Demotions
  <1>0. TypeOK /\ HubOK(hub) /\ hub \in HubState /\ HubOK(hub')
    <2>1. HubOK(hub')
      BY DEF IInv, HubOK, QueuesFit, ControllerNewest, Agrees
    <2>. QED  BY <2>1 DEF IInv, HubOK
  <1>1. /\ view[a] \in View /\ initial[a] \in Seq(Frame) /\ hub.queue[a] \in Seq(Frame)
        /\ reply[a].type \in {"attached", "answer"} /\ Knows(a)
    BY <1>0 DEF TypeOK, HubState, Known, AnswersPlain
  <1>2. CASE WriteInitial(a)
    <2> DEFINE s == initial[a]
               v == Received(view[a], Head(s))
    <2>1. /\ s # << >> /\ conn[a] = "up" /\ UNCHANGED <<hub, pc, reply, conn>>
          /\ view' = [view EXCEPT ![a] = v] /\ initial' = [initial EXCEPT ![a] = Tail(s)]
      BY <1>2 DEF WriteInitial
    <2>2. ASSUME NEW l PROVE
              /\ Names(s, l) => Names(Tail(s), l) \/ (Silent(Tail(s)) /\ v.lease = l)
              /\ Silent(s) => Silent(Tail(s)) /\ v.lease = view[a].lease
      BY <1>1, <2>1, HeadReceived
    <2> HIDE DEF v, s
    <2>3. /\ view'[a] = v /\ initial'[a] = Tail(s)
          /\ \A b \in Attachments \ {a} : view'[b] = view[b] /\ initial'[b] = initial[b]
      BY <1>0, <2>1 DEF TypeOK
    <2>4. Knows(a)'
      <3> SUFFICES ASSUME a \in hub.subscribers, hub.leaseID[a] # 0, ~Pending(a)
                   PROVE  Told(hub.queue[a], Tail(s), v.lease, hub.leaseID[a])
        BY <1>1, <2>1, <2>3 DEF Knows, Pending
      <3>1. Told(hub.queue[a], s, view[a].lease, hub.leaseID[a])
        BY <1>1, <2>1 DEF Knows, s
      <3>. QED  BY <2>2, <3>1 DEF Told
    <2>5. ASSUME NEW b \in Attachments PROVE Knows(b)'
      <3>1. CASE b = a
        BY <2>4, <3>1
      <3>2. CASE b # a
        BY <2>1, <2>3, <3>2 DEF Known, Knows, Pending
      <3>. QED  BY <3>1, <3>2
    <2>6. IdleQuiet' /\ AnswersPlain' /\ NotLeftBehind(hub') /\ Demotions
      BY <2>1 DEF Known, IdleQuiet, AnswersPlain, NotLeftBehind, Demotions
    <2>. QED  BY <2>5, <2>6 DEF Known, NotLeftBehind
  <1>3. CASE WriteQueued(a)
    <2> DEFINE s == hub.queue[a]
               v == Received(view[a], Head(s))
               q == [hub.queue EXCEPT ![a] = Tail(s)]
    <2>1. /\ s # << >> /\ initial[a] = << >> /\ conn[a] = "up"
          /\ UNCHANGED <<initial, pc, reply, conn>>
          /\ view' = [view EXCEPT ![a] = v] /\ hub' = [hub EXCEPT !.queue = q]
      BY <1>3 DEF WriteQueued
    <2>2. ASSUME NEW l PROVE
              /\ Names(s, l) => Names(Tail(s), l) \/ (Silent(Tail(s)) /\ v.lease = l)
              /\ Silent(s) => Silent(Tail(s)) /\ v.lease = view[a].lease
      BY <1>1, <2>1, HeadReceived
    <2>3. q[a] = Tail(s) /\ \A b \in Attachments \ {a} : q[b] = hub.queue[b]
      BY <1>0 DEF HubState
    <2> HIDE DEF v, q
    <2>4. /\ hub'.queue = q /\ hub'.subscribers = hub.subscribers /\ hub'.closed = hub.closed
          /\ hub'.controller = hub.controller /\ hub'.leaseID = hub.leaseID
      BY <1>0, <2>1 DEF HubState
    <2>5. view'[a] = v /\ \A b \in Attachments \ {a} : view'[b] = view[b]
      BY <1>0, <2>1 DEF TypeOK
    <2>6. Knows(a)'
      <3>0. Silent(<< >>) /\ \A l : ~Names(<< >>, l)
        BY DEF Silent, Names
      <3> SUFFICES ASSUME a \in hub.subscribers, hub.leaseID[a] # 0, ~Pending(a)
                   PROVE  Told(Tail(s), << >>, v.lease, hub.leaseID[a])
        BY <1>1, <2>1, <2>3, <2>4, <2>5 DEF Knows, Pending
      <3>1. Told(s, << >>, view[a].lease, hub.leaseID[a])
        BY <1>1, <2>1 DEF Knows
      <3> HIDE DEF s
      <3>. QED  BY <2>2, <3>0, <3>1 DEF Told
    <2>7. ASSUME NEW b \in Attachments PROVE Knows(b)'
      <3>1. CASE b = a
        BY <2>6, <3>1
      <3>2. CASE b # a
        <4>1. Knows(b) /\ hub'.queue[b] = hub.queue[b] /\ view'[b] = view[b]
          BY <2>3, <2>4, <2>5, <3>2 DEF Known
        <4>. QED  BY <2>1, <2>4, <4>1 DEF Knows, Pending
      <3>. QED  BY <3>1, <3>2
    <2>8. IdleQuiet'
      <3> SUFFICES ASSUME NEW b \in Attachments, pc[b] = "idle" PROVE hub'.queue[b] = << >>
        BY <2>1 DEF IdleQuiet
      <3>1. hub.queue[b] = << >>
        BY DEF Known, IdleQuiet
      <3>2. b # a
        BY <2>1, <3>1
      <3>. QED  BY <2>3, <2>4, <3>1, <3>2
    <2>9. AnswersPlain' /\ NotLeftBehind(hub') /\ Demotions
      BY <2>1, <2>4 DEF Known, AnswersPlain, NotLeftBehind, Demotions
    <2>. QED  BY <2>7, <2>8, <2>9 DEF Known, NotLeftBehind
  <1>. QED  BY <1>2, <1>3

\* Every step keeps what is known, and tells whoever it demotes.
LEMMA NextKnown == IInv /\ Known /\ IInv' /\ [Next]_vars => Known' /\ (Demotions \/ UNCHANGED vars)
  <1> SUFFICES ASSUME IInv, Known, IInv', [Next]_vars
               PROVE  Known' /\ (Demotions \/ UNCHANGED vars)
    OBVIOUS
  <1>1. CASE ProcessNext
    BY <1>1, ProcessTells
  <1>2. ASSUME NEW a \in Attachments, AttachmentNext(a) PROVE Known' /\ Demotions
    BY <1>2, ConnectionTells, HandlerTells, WriterTells
    DEF AttachmentNext, ConnectionLost, SeesDone, WriteReason
  <1>3. CASE UNCHANGED vars
    BY <1>3 DEF vars, procVars, handlerVars, Known, Knows, Pending, IdleQuiet, AnswersPlain,
                NotLeftBehind
  <1>. QED  BY <1>1, <1>2, <1>3 DEF Next

\* Initially nobody is connected.
LEMMA InitKnown == Init => Known
  <1> SUFFICES ASSUME Init PROVE Known
    OBVIOUS
  <1>1. /\ hub.subscribers = {} /\ hub.controller = NoLease
        /\ \A a \in Attachments : hub.queue[a] = << >> /\ reply[a] = NoReply
    BY DEF Init
  <1>2. NoReply.type = "answer" /\ NoLease.attachment = None
    BY DEF NoReply, Simple, NoLease
  <1>. QED  BY <1>1, <1>2 DEF Known, Knows, IdleQuiet, AnswersPlain, NotLeftBehind

\* Whoever holds the lease knows it once nothing is on its way to it, whatever was granted,
\* revoked, evicted, queued and written in between; and the lease is never left with an
\* attachment that detached as a subscriber.
THEOREM HolderKnowsItsLease == Spec => []HolderKnowsLease
  <1>1. IInv /\ Known => HolderKnowsLease
    <2> SUFFICES ASSUME IInv, Known PROVE HolderKnowsLease
      OBVIOUS
    <2>1. hub.subscribers \subseteq Attachments
      BY DEF IInv, HubOK, HubState
    <2>2. ASSUME NEW a \in Served, hub.leaseID[a] # 0, Pipeline(a) = << >>, pc[a] # "reply"
          PROVE  view[a].lease = hub.leaseID[a]
      <3>1. a \in Attachments /\ a \in hub.subscribers /\ conn[a] = "up"
        BY <2>1 DEF Served
      <3>2. initial[a] \in Seq(Frame) /\ hub.queue[a] \in Seq(Frame)
        BY <3>1 DEF IInv, TypeOK, HubState
      <3>3. initial[a] = << >> /\ hub.queue[a] = << >>
        BY <2>2, <3>2 DEF Pipeline
      <3>4. Told(<< >>, << >>, view[a].lease, hub.leaseID[a])
        BY <2>2, <3>1, <3>3 DEF Known, Knows, Pending
      <3>5. \A l : ~Names(<< >>, l)
        BY DEF Names
      <3>. QED  BY <3>4, <3>5 DEF Told
    <2>. QED  BY <2>2 DEF HolderKnowsLease, Known, NotLeftBehind
  <1>. QED  BY <1>1, Invariance, InitKnown, NextKnown, PTL DEF Spec

\* No subscriber is demoted in silence: whichever step takes its lease and leaves it
\* subscribed has put a controller_revoked into its queue.
THEOREM RevocationIsTold == Spec => RevocationTold
  <1>1. Demotions =>
           [\A a \in hub.subscribers \cap hub'.subscribers :
              hub.leaseID[a] # 0 /\ hub'.leaseID[a] = 0 =>
                  \E i \in (Len(hub.queue[a]) + 1)..Len(hub'.queue[a]) :
                      hub'.queue[a][i] = Simple("controller_revoked")]_vars
    BY DEF Demotions
  <1>. QED  BY <1>1, Invariance, InitKnown, NextKnown, PTL DEF Spec, RevocationTold

-----------------------------------------------------------------------------
(* The replay buffer: its byte count is that of what it retains.  BytesOf  *)
(* is a recursive function; that there is one such function, and what it   *)
(* adds up to, is shown by induction over the naturals.                    *)

\* Induction over the naturals, in a form without an operator parameter.
LEMMA SetInduction ==
    ASSUME NEW S, 0 \in S, \A n \in Nat : n \in S => n + 1 \in S
    PROVE  Nat \subseteq S
  <1> DEFINE R == OpToRel(<, Nat)
             T == Nat \ S
  <1>1. SUFFICES ASSUME T # {} PROVE FALSE
    OBVIOUS
  <1>2. PICK x \in T : \A y \in T : ~(<<y, x>> \in R)
    <2> HIDE DEF R
    <2>. QED  BY <1>1, WFMin, NatLessThanWellFounded DEF R
  <1>3. x \in Nat /\ x # 0
    OBVIOUS
  <1>4. x - 1 \in Nat /\ x - 1 < x /\ (x - 1) + 1 = x
    BY <1>3
  <1>5. x - 1 \in T
    BY <1>3, <1>4
  <1>6. <<x - 1, x>> \in R
    BY <1>3, <1>4 DEF OpToRel
  <1>. QED  BY <1>2, <1>5, <1>6

\* The running totals of BytesOf, as its recursion defines them.
IsTotal(t, s, k) == t = [i \in 0..k |-> IF i = 0 THEN 0 ELSE t[i-1] + s[i].size]

\* There are such totals for the first k frames.
LEMMA TotalExists ==
    ASSUME NEW s \in Seq(Retained), NEW k \in 0..Len(s)
    PROVE  \E t \in [0..k -> Nat] : IsTotal(t, s, k)
  <1> DEFINE Done == {n \in Nat : n <= Len(s) => \E t \in [0..n -> Nat] : IsTotal(t, s, n)}
  <1>1. 0 \in Done
    <2> DEFINE t == [i \in 0..0 |-> 0]
    <2>1. t \in [0..0 -> Nat] /\ IsTotal(t, s, 0)
      BY DEF IsTotal
    <2>. QED  BY <2>1
  <1>2. ASSUME NEW n \in Nat, n \in Done PROVE n + 1 \in Done
    <2> SUFFICES ASSUME n + 1 <= Len(s)
                 PROVE  \E t \in [0..(n + 1) -> Nat] : IsTotal(t, s, n + 1)
      OBVIOUS
    <2>1. PICK t \in [0..n -> Nat] : IsTotal(t, s, n)
      BY <1>2
    <2>2. s[n + 1] \in Retained
      OBVIOUS
    <2>3. s[n + 1].size \in Nat
      BY <2>2 DEF Retained
    <2> DEFINE u == [i \in 0..(n + 1) |-> IF i = n + 1 THEN t[n] + s[n + 1].size ELSE t[i]]
    <2>4. u \in [0..(n + 1) -> Nat]
      BY <2>3
    <2>5. \A i \in 0..(n + 1) : u[i] = IF i = 0 THEN 0 ELSE u[i-1] + s[i].size
      <3>1. \A i \in 0..n : t[i] = IF i = 0 THEN 0 ELSE t[i-1] + s[i].size
        BY <2>1 DEF IsTotal
      <3> SUFFICES ASSUME NEW i \in 0..(n + 1) PROVE u[i] = IF i = 0 THEN 0 ELSE u[i-1] + s[i].size
        OBVIOUS
      <3>2. CASE i = n + 1
        BY <3>2
      <3>3. CASE i # n + 1
        <4>1. i \in 0..n /\ u[i] = t[i] /\ (i # 0 => u[i-1] = t[i-1])
          BY <3>3
        <4> HIDE DEF u
        <4>. QED  BY <3>1, <4>1
      <3>. QED  BY <3>2, <3>3
    <2>6. IsTotal(u, s, n + 1)
      <3>1. u = [i \in 0..(n + 1) |-> u[i]]
        BY <2>4
      <3> HIDE DEF u
      <3>. QED  BY <2>5, <3>1 DEF IsTotal
    <2>. QED  BY <2>4, <2>6
  <1>3. Nat \subseteq Done
    <2> HIDE DEF Done
    <2>. QED  BY <1>1, <1>2, SetInduction
  <1>4. k \in Done /\ k \in Nat /\ k <= Len(s)
    BY <1>3
  <1>. QED  BY <1>4

\* They are numbers, the first is 0 and each adds a frame to the one before.
LEMMA TotalSteps ==
    ASSUME NEW s \in Seq(Retained), NEW k \in 0..Len(s), NEW t, IsTotal(t, s, k)
    PROVE  /\ t \in [0..k -> Nat] /\ t[0] = 0
           /\ \A i \in 0..(k - 1) : t[i + 1] = t[i] + s[i + 1].size
  <1>1. t = [i \in 0..k |-> IF i = 0 THEN 0 ELSE t[i-1] + s[i].size]
    BY DEF IsTotal
  <1>2. k \in Nat /\ k <= Len(s)
    OBVIOUS
  <1>3. t[0] = 0
    <2>1. 0 \in 0..k
      BY <1>2
    <2>. QED  BY <1>1, <2>1
  <1>4. ASSUME NEW i \in 0..(k - 1) PROVE t[i + 1] = t[i] + s[i + 1].size
    <2>1. i + 1 \in 0..k /\ i + 1 # 0 /\ (i + 1) - 1 = i
      BY <1>2
    <2>2. t[i + 1] = t[(i + 1) - 1] + s[i + 1].size
      BY <1>1, <2>1
    <2>. QED  BY <2>1, <2>2
  <1>5. \A i \in 0..(k - 1) : s[i + 1].size \in Nat
    <2>1. \A i \in 0..(k - 1) : s[i + 1] \in Retained
      BY <1>2
    <2>. QED  BY <2>1 DEF Retained
  <1> DEFINE Done == {n \in Nat : n <= k => t[n] \in Nat}
  <1>6. 0 \in Done
    BY <1>3
  <1>7. ASSUME NEW n \in Nat, n \in Done PROVE n + 1 \in Done
    <2> SUFFICES ASSUME n + 1 <= k PROVE t[n + 1] \in Nat
      OBVIOUS
    <2>1. n \in 0..(k - 1) /\ t[n] \in Nat
      BY <1>2, <1>7
    <2>2. t[n + 1] = t[n] + s[n + 1].size /\ s[n + 1].size \in Nat
      BY <1>4, <1>5, <2>1
    <2>. QED  BY <2>1, <2>2
  <1>8. Nat \subseteq Done
    <2> HIDE DEF Done
    <2>. QED  BY <1>6, <1>7, SetInduction
  <1>9. \A n \in 0..k : t[n] \in Nat
    <2>1. \A n \in 0..k : n \in Nat /\ n <= k
      BY <1>2
    <2>. QED  BY <1>8, <2>1
  <1>10. t = [n \in 0..k |-> t[n]]
    BY <1>1
  <1>11. t \in [0..k -> Nat]
    BY <1>9, <1>10
  <1>. QED  BY <1>3, <1>4, <1>11

\* The first m frames of v have the sizes of those of s after the first d.
Continues(v, m, s, d) == \A i \in 1..m : v[i].size = s[d + i].size

\* Then so are the totals.
LEMMA TotalShift ==
    ASSUME NEW s \in Seq(Retained), NEW k \in 0..Len(s), NEW t, IsTotal(t, s, k),
           NEW v \in Seq(Retained), NEW m \in 0..Len(v), NEW u, IsTotal(u, v, m),
           NEW d \in Nat, d + m <= k,
           Continues(v, m, s, d)
    PROVE  u[m] + t[d] = t[d + m]
  <1>0. k \in Nat /\ m \in Nat
    OBVIOUS
  <1>1. /\ t \in [0..k -> Nat]
        /\ \A i \in 0..(k - 1) : t[i + 1] = t[i] + s[i + 1].size
    BY TotalSteps
  <1>2. /\ u \in [0..m -> Nat] /\ u[0] = 0
        /\ \A i \in 0..(m - 1) : u[i + 1] = u[i] + v[i + 1].size
    BY TotalSteps
  <1>3. \A i \in 0..k : t[i] \in Nat
    BY <1>1
  <1>4. \A i \in 0..m : u[i] \in Nat
    BY <1>2
  <1>5. \A i \in 0..(m - 1) : v[i + 1].size \in Nat
    <2>1. \A i \in 0..(m - 1) : v[i + 1] \in Retained
      BY <1>0
    <2>. QED  BY <2>1 DEF Retained
  <1> DEFINE Done == {n \in Nat : n <= m => u[n] + t[d] = t[d + n]}
  <1>6. 0 \in Done
    <2>1. d \in 0..k /\ d + 0 = d
      BY <1>0
    <2>2. t[d] \in Nat
      BY <1>3, <2>1
    <2>3. 0 + t[d] = t[d]
      BY <2>2
    <2>. QED  BY <1>2, <2>1, <2>3
  <1>7. ASSUME NEW n \in Nat, n \in Done PROVE n + 1 \in Done
    <2> SUFFICES ASSUME n + 1 <= m PROVE u[n + 1] + t[d] = t[d + (n + 1)]
      OBVIOUS
    <2>1. /\ n \in 0..(m - 1) /\ n \in 0..m /\ n + 1 \in 1..m /\ n <= m
          /\ d + n \in 0..(k - 1) /\ d + n \in 0..k /\ d \in 0..k
          /\ (d + n) + 1 = d + (n + 1)
      BY <1>0
    <2>2. u[n + 1] = u[n] + v[n + 1].size /\ v[n + 1].size \in Nat /\ u[n] \in Nat
      BY <1>2, <1>4, <1>5, <2>1, Zenon
    <2>3. t[d + (n + 1)] = t[d + n] + s[d + (n + 1)].size
      BY <1>1, <2>1, Zenon
    <2>4. s[d + (n + 1)].size = v[n + 1].size
      BY <2>1, Zenon DEF Continues
    <2>5. u[n] + t[d] = t[d + n] /\ t[d] \in Nat
      BY <1>3, <1>7, <2>1, Zenon
    <2>6. (u[n] + v[n + 1].size) + t[d] = (u[n] + t[d]) + v[n + 1].size
      <3>1. \A a, b, c \in Nat : (a + c) + b = (a + b) + c
        OBVIOUS
      <3>. QED  BY <2>2, <2>5, <3>1, Zenon
    <2>. QED  BY <2>2, <2>3, <2>4, <2>5, <2>6
  <1>8. Nat \subseteq Done
    <2> HIDE DEF Done
    <2>. QED  BY <1>6, <1>7, SetInduction
  <1>9. m \in Done
    BY <1>0, <1>8
  <1>. QED  BY <1>0, <1>9

\* BytesOf(s, k) is the last of the totals, whichever are chosen.
LEMMA BytesOfIs ==
    ASSUME NEW s \in Seq(Retained), NEW k \in 0..Len(s)
    PROVE  \E t : IsTotal(t, s, k) /\ BytesOf(s, k) = t[k] /\ t[k] \in Nat
  <1> DEFINE t == CHOOSE t : IsTotal(t, s, k)
  <1>1. IsTotal(t, s, k)
    BY TotalExists
  <1>2. BytesOf(s, k) = t[k]
    BY DEF BytesOf, IsTotal
  <1> HIDE DEF t
  <1>3. t \in [0..k -> Nat] /\ k \in 0..k
    BY <1>1, TotalSteps
  <1>4. t[k] \in Nat
    BY <1>3
  <1>. QED  BY <1>1, <1>2, <1>4

\* What BytesOf counts for the first m frames of v, put after d frames of s of which
\* they are the continuation.
LEMMA BytesOfShift ==
    ASSUME NEW s \in Seq(Retained), NEW v \in Seq(Retained), NEW m \in 0..Len(v), NEW d \in Nat,
           d + m <= Len(s), Continues(v, m, s, d)
    PROVE  /\ BytesOf(v, m) \in Nat /\ BytesOf(s, d) \in Nat /\ BytesOf(s, d + m) \in Nat
           /\ BytesOf(v, m) + BytesOf(s, d) = BytesOf(s, d + m)
  <1>1. m \in Nat /\ d \in 0..Len(s) /\ d + m \in 0..Len(s)
    OBVIOUS
  <1>3. PICK t : IsTotal(t, s, d + m) /\ BytesOf(s, d + m) = t[d + m] /\ t[d + m] \in Nat
    BY <1>1, BytesOfIs
  <1>4. PICK p : IsTotal(p, s, d) /\ BytesOf(s, d) = p[d] /\ p[d] \in Nat
    BY <1>1, BytesOfIs
  <1>5. PICK u : IsTotal(u, v, m) /\ BytesOf(v, m) = u[m] /\ u[m] \in Nat
    BY BytesOfIs
  <1>6. u[m] + t[d] = t[d + m]
    <2>1. d + m <= d + m
      BY <1>1
    <2>. QED  BY <1>1, <1>3, <1>5, <2>1, TotalShift
  <1>7. p[d] = t[d]
    <2>1. 0 + d <= d + m /\ 0 + d = d /\ 0 \in Nat /\ 0 \in 0..(d + m) /\ d \in 0..(d + m)
      BY <1>1
    <2>2. Continues(s, d, s, 0)
      BY DEF Continues
    <2>3. p[d] + t[0] = t[0 + d]
      BY <1>1, <1>3, <1>4, <2>1, <2>2, TotalShift
    <2>4. t[0] = 0
      BY <1>1, <1>3, TotalSteps
    <2>. QED  BY <1>4, <2>1, <2>3, <2>4
  <1>. QED  BY <1>3, <1>4, <1>5, <1>6, <1>7

\* No frame, no bytes; a frame more, its size more.
LEMMA BytesOfNext ==
    ASSUME NEW s \in Seq(Retained)
    PROVE  /\ BytesOf(s, 0) = 0
           /\ \A k \in 0..(Len(s) - 1) : BytesOf(s, k + 1) = BytesOf(s, k) + s[k + 1].size
  <1>1. BytesOf(s, 0) = 0
    <2>1. 0 \in 0..Len(s) /\ 0 + 0 <= Len(s) /\ 0 + 0 = 0
      OBVIOUS
    <2>2. Continues(s, 0, s, 0)
      BY DEF Continues
    <2>3. BytesOf(s, 0) \in Nat /\ BytesOf(s, 0) + BytesOf(s, 0) = BytesOf(s, 0 + 0)
      BY <2>1, <2>2, BytesOfShift
    <2>. QED  BY <2>1, <2>3
  <1>2. ASSUME NEW k \in 0..(Len(s) - 1)
        PROVE  BytesOf(s, k + 1) = BytesOf(s, k) + s[k + 1].size
    <2>0. k \in Nat /\ k + 1 \in 0..Len(s)
      OBVIOUS
    <2>1. PICK t \in [0..(k + 1) -> Nat] : IsTotal(t, s, k + 1)
      BY <2>0, TotalExists
    <2>2. t[k + 1] = t[k] + s[k + 1].size /\ t[0] = 0 /\ t[k] \in Nat /\ t[k + 1] \in Nat
      <3>1. k \in 0..((k + 1) - 1) /\ k \in 0..(k + 1) /\ k + 1 \in 0..(k + 1)
        BY <2>0
      <3>. QED  BY <2>0, <2>1, <3>1, TotalSteps
    <2>3. ASSUME NEW j \in 0..(k + 1) PROVE BytesOf(s, j) = t[j]
      <3>0. j \in 0..Len(s) /\ j \in Nat
        BY <2>0
      <3>1. PICK u : IsTotal(u, s, j) /\ BytesOf(s, j) = u[j] /\ u[j] \in Nat
        BY <3>0, BytesOfIs
      <3>3. 0 + j <= k + 1 /\ 0 + j = j /\ 0 \in Nat
        BY <2>0, <3>0
      <3>4. Continues(s, j, s, 0)
        BY DEF Continues
      <3>5. u[j] + t[0] = t[0 + j]
        BY <2>0, <2>1, <3>0, <3>1, <3>3, <3>4, TotalShift
      <3>. QED  BY <2>2, <3>1, <3>3, <3>5
    <2>4. BytesOf(s, k + 1) = t[k + 1] /\ BytesOf(s, k) = t[k]
      BY <2>0, <2>3
    <2>. QED  BY <2>2, <2>4
  <1>. QED  BY <1>1, <1>2

\* What ReplayExact says of the hub's buffer.
Exact(b) ==
    LET kept == Len(b.frames) IN
    /\ b.bytes = BytesOf(b.frames, kept)
    /\ b.bytes <= MaxBytes /\ kept <= MaxFrames
    /\ \A i \in 1..kept : b.frames[i].seq = b.latest - kept + i

\* A sequence without its first k elements.
LEMMA Dropped ==
    ASSUME NEW S, NEW s \in Seq(S), NEW k \in Nat, k <= Len(s)
    PROVE  LET cut == SubSeq(s, k + 1, Len(s)) IN
           cut \in Seq(S) /\ Len(cut) = Len(s) - k /\ \A i \in 1..(Len(s) - k) : cut[i] = s[k + i]
  OBVIOUS

\* The buffer after a frame is stored and k are dropped: what it retains, and that
\* its count is still that of what it retains.
TrimmedTo(b, size, k) ==
    LET n == Len(b.frames) + 1
        g == Grown(b, size).frames
        a == Trimmed(Grown(b, size), k)
    IN  /\ g \in Seq(Retained) /\ Len(g) = n
        /\ g[n] = [seq |-> b.latest + 1, size |-> size]
        /\ \A i \in 1..(n - 1) : g[i] = b.frames[i]
        /\ a.latest = b.latest + 1
        /\ a.frames \in Seq(Retained) /\ Len(a.frames) = n - k
        /\ \A i \in 1..(n - k) : a.frames[i] = g[k + i]
        /\ a.bytes = BytesOf(a.frames, n - k) /\ a.bytes \in Nat
        /\ (k = n - 1 => a.bytes = size)

LEMMA TrimmedIs ==
    ASSUME NEW b, b.latest \in Nat, b.frames \in Seq(Retained), NEW size \in Nat,
           b.bytes = BytesOf(b.frames, Len(b.frames)),
           NEW k \in 0..(Len(b.frames) + 1)
    PROVE  TrimmedTo(b, size, k)
  <1> DEFINE n == Len(b.frames) + 1
             e == [seq |-> b.latest + 1, size |-> size]
             g == Append(b.frames, e)
             total == b.bytes + size
             cut == SubSeq(g, k + 1, Len(g))
             a == Trimmed(Grown(b, size), k)
  <1>1. e \in Retained /\ e.size = size
    BY DEF Retained
  <1>2. Grown(b, size) = [latest |-> b.latest + 1, frames |-> g, bytes |-> total]
    BY DEF Grown
  <1>3. a.latest = b.latest + 1 /\ a.frames = cut /\ a.bytes = total - BytesOf(g, k)
    <2> DEFINE G == Grown(b, size)
    <2>1. G.latest = b.latest + 1 /\ G.frames = g /\ G.bytes = total
      BY <1>2
    <2> HIDE DEF g, total
    <2>2. a = [G EXCEPT !.frames = cut, !.bytes = total - BytesOf(g, k)]
      BY <2>1, Zenon DEF Trimmed
    <2> HIDE DEF cut, a
    <2>. QED  BY <1>2, <2>2
  <1>4. Grown(b, size).frames = g
    BY <1>2
  <1>5. n \in Nat /\ k \in Nat /\ k <= n /\ n = Len(b.frames) + 1 /\ Len(b.frames) \in Nat
    OBVIOUS
  <1> DEFINE f == b.frames
  <1>6. f \in Seq(Retained)
    OBVIOUS
  <1>7. /\ g \in Seq(Retained) /\ Len(g) = n /\ g[n] = e
        /\ \A i \in 1..Len(f) : g[i] = f[i]
    <2> HIDE DEF e, f
    <2>. QED  BY <1>1, <1>6 DEF f
  <1> HIDE DEF e, f, g, total, n
  <1>8. BytesOf(g, Len(f)) = BytesOf(f, Len(f)) /\ BytesOf(f, Len(f)) \in Nat
    <2>1. /\ Len(f) \in Nat /\ 0 + Len(f) <= Len(g) /\ Len(f) \in 0..Len(f)
          /\ 0 + Len(f) = Len(f) /\ 0 \in Nat
      BY <1>5, <1>7 DEF f
    <2>2. Continues(f, Len(f), g, 0)
      BY <1>7 DEF Continues
    <2>3. /\ BytesOf(f, Len(f)) \in Nat /\ BytesOf(g, 0) = 0
          /\ BytesOf(f, Len(f)) + BytesOf(g, 0) = BytesOf(g, 0 + Len(f))
      <3>1. BytesOf(g, 0) = 0
        BY <1>7, BytesOfNext
      <3>. QED  BY <1>6, <1>7, <2>1, <2>2, <3>1, BytesOfShift
    <2>. QED  BY <2>1, <2>3
  <1>9. BytesOf(g, n) = total /\ total \in Nat
    <2>1. Len(f) \in 0..(Len(g) - 1) /\ Len(f) + 1 = n
      BY <1>5, <1>7 DEF f
    <2>2. BytesOf(g, n) = BytesOf(g, Len(f)) + g[n].size
      BY <1>7, <2>1, BytesOfNext
    <2>. QED  BY <1>1, <1>7, <1>8, <2>2 DEF total, f
  <1>10. cut \in Seq(Retained) /\ Len(cut) = n - k /\ \A i \in 1..(n - k) : cut[i] = g[k + i]
    BY <1>5, <1>7, Dropped DEF cut
  <1> HIDE DEF cut
  <1>11. /\ BytesOf(cut, n - k) \in Nat /\ BytesOf(g, k) \in Nat
         /\ BytesOf(cut, n - k) + BytesOf(g, k) = BytesOf(g, n)
    <2>1. n - k \in 0..Len(cut) /\ k + (n - k) <= Len(g) /\ k + (n - k) = n
      BY <1>5, <1>7, <1>10
    <2>2. Continues(cut, n - k, g, k)
      BY <1>10, Zenon DEF Continues
    <2> DEFINE m == n - k
    <2>3. /\ cut \in Seq(Retained) /\ g \in Seq(Retained) /\ k \in Nat
          /\ m \in 0..Len(cut) /\ k + m <= Len(g) /\ Continues(cut, m, g, k) /\ k + m = n
      BY <1>5, <1>7, <1>10, <2>1, <2>2
    <2> HIDE DEF m
    <2>4. /\ BytesOf(cut, m) \in Nat /\ BytesOf(g, k) \in Nat
          /\ BytesOf(cut, m) + BytesOf(g, k) = BytesOf(g, k + m)
      BY <2>3, BytesOfShift
    <2>. QED  BY <2>3, <2>4, Zenon DEF m
  <1>12. a.bytes = BytesOf(cut, n - k) /\ a.bytes \in Nat
    BY <1>3, <1>9, <1>11
  <1>13. k = n - 1 => a.bytes = size
    <2>1. k = n - 1 => k = Len(f)
      BY <1>5 DEF f
    <2>. QED  BY <1>3, <1>8, <2>1 DEF total, f
  <1>14. n - 1 = Len(f)
    BY <1>5 DEF f
  <1> HIDE DEF a
  <1>. QED  BY <1>3, <1>4, <1>7, <1>10, <1>12, <1>13, <1>14 DEF n, e, f, a, TrimmedTo

\* append keeps the buffer exact, and empties it only for a frame larger than the
\* whole buffer.
LEMMA AppendExact ==
    ASSUME NEW b, b.latest \in Nat, b.frames \in Seq(Retained), NEW size \in Nat,
           Exact(b), NEW a, append(b, size, a)
    PROVE  /\ Exact(a) /\ a.latest = b.latest + 1 /\ a.frames \in Seq(Retained)
           /\ size <= MaxBytes => a.frames # << >>
  <1> DEFINE n == Len(b.frames) + 1
             g == Grown(b, size).frames
  <1>0. b.bytes = BytesOf(b.frames, Len(b.frames)) /\ n \in Nat \ {0}
        /\ \A i \in 1..Len(b.frames) : b.frames[i].seq = b.latest - Len(b.frames) + i
    BY DEF Exact
  <1>1. PICK k \in 0..n :
            /\ \A j \in 0..(k - 1) : OverLimit(Trimmed(Grown(b, size), j))
            /\ ~OverLimit(Trimmed(Grown(b, size), k))
            /\ a = Trimmed(Grown(b, size), k)
    BY DEF append, EvictsExactly
  <1>2. /\ g[n] = [seq |-> b.latest + 1, size |-> size]
        /\ \A i \in 1..(n - 1) : g[i] = b.frames[i]
        /\ a.latest = b.latest + 1
        /\ a.frames \in Seq(Retained) /\ Len(a.frames) = n - k
        /\ \A i \in 1..(n - k) : a.frames[i] = g[k + i]
        /\ a.bytes = BytesOf(a.frames, n - k) /\ a.bytes \in Nat
    <2>1. TrimmedTo(b, size, k)
      BY <1>0, TrimmedIs
    <2>. QED  BY <1>1, <2>1, Zenon DEF TrimmedTo
  <1>3. \A i \in 1..n : g[i].seq = b.latest - (n - 1) + i
    <2> HIDE DEF g
    <2> SUFFICES ASSUME NEW i \in 1..n PROVE g[i].seq = b.latest - (n - 1) + i
      OBVIOUS
    <2>1. CASE i = n
      BY <1>0, <1>2, <2>1
    <2>2. CASE i # n
      <3>1. i \in 1..(n - 1) /\ n - 1 = Len(b.frames)
        BY <1>0, <2>2
      <3>. QED  BY <1>0, <1>2, <3>1
    <2>. QED  BY <2>1, <2>2
  <1>4. ASSUME NEW i \in 1..(n - k) PROVE a.frames[i].seq = a.latest - (n - k) + i
    <2>1. k + i \in 1..n /\ i \in Nat /\ k \in Nat /\ n - k \in Nat
      BY <1>0
    <2>2. a.frames[i].seq = b.latest - (n - 1) + (k + i)
      BY <1>2, <1>3, <2>1
    <2> HIDE DEF n
    <2>3. b.latest - (n - 1) + (k + i) = (b.latest + 1) - (n - k) + i
      BY <1>0, <2>1
    <2>. QED  BY <1>2, <2>2, <2>3
  <1>5. a.bytes <= MaxBytes /\ n - k <= MaxFrames
    <2>1. CASE k = n
      <3>1. n - k = 0 /\ 0 \in Nat
        BY <1>0, <2>1
      <3>2. a.bytes = 0
        BY <1>2, <3>1, BytesOfNext
      <3>. QED  BY <3>1, <3>2, ReplayAssumption
    <2>2. CASE k # n
      <3>1. n - k \in Nat /\ n - k # 0
        BY <1>0, <2>2
      <3>2. a.frames # << >>
        BY <1>2, <3>1
      <3>. QED  BY <1>1, <1>2, <3>1, <3>2, ReplayAssumption DEF OverLimit
    <2>. QED  BY <2>1, <2>2
  <1>6. ASSUME size <= MaxBytes PROVE a.frames # << >>
    <2> SUFFICES ASSUME a.frames = << >> PROVE FALSE
      OBVIOUS
    <2>1. Len(a.frames) = 0
      OBVIOUS
    <2>2. k = n /\ n - 1 \in 0..(k - 1) /\ n - 1 \in 0..n /\ n - (n - 1) = 1 /\ n - 1 = n - 1
      BY <1>0, <1>2, <2>1
    <2> DEFINE t == Trimmed(Grown(b, size), n - 1)
    <2>3. OverLimit(t)
      BY <1>1, <2>2
    <2>4. Len(t.frames) = n - (n - 1) /\ t.bytes = size
      <3>1. TrimmedTo(b, size, n - 1)
        BY <1>0, <2>2, TrimmedIs
      <3>. QED  BY <3>1, Zenon DEF TrimmedTo
    <2> HIDE DEF t
    <2>5. t.bytes > MaxBytes \/ 1 > MaxFrames
      BY <2>2, <2>3, <2>4 DEF OverLimit
    <2>. QED  BY <1>6, <2>4, <2>5, ReplayAssumption
  <1>7. Exact(a)
    BY <1>2, <1>4, <1>5 DEF Exact
  <1>. QED  BY <1>2, <1>6, <1>7

\* A PTY read handed to the hub: the one step that changes the buffer.
LEMMA PublishedReplay ==
    ASSUME IInv, ReplayExact, NEW size \in Sizes, publishOutput(size)
    PROVE  /\ ReplayExact' /\ replay'.latest = replay.latest + 1
           /\ size <= MaxBytes => replay'.frames # << >>
  <1>1. replay.latest \in Nat /\ replay.frames \in Seq(Retained) /\ size \in Nat
    BY HubAssumption DEF IInv, TypeOK
  <1>2. Exact(replay) /\ append(replay, size, replay')
    BY Zenon DEF ReplayExact, Exact, publishOutput
  <1>3. /\ Exact(replay') /\ replay'.latest = replay.latest + 1
        /\ size <= MaxBytes => replay'.frames # << >>
    BY <1>1, <1>2, AppendExact
  <1>. QED  BY <1>3, Zenon DEF ReplayExact, Exact

LEMMA NextReplay == IInv /\ ReplayExact /\ [Next]_vars => ReplayExact'
  <1> SUFFICES ASSUME IInv, ReplayExact, [Next]_vars PROVE ReplayExact'
    OBVIOUS
  <1>1. CASE UNCHANGED replay
    BY <1>1 DEF ReplayExact
  <1>2. ASSUME NEW size \in Sizes, publishOutput(size) PROVE ReplayExact'
    BY <1>2, PublishedReplay
  <1>3. ProcessNext => UNCHANGED replay \/ \E size \in Sizes : publishOutput(size)
    BY Zenon DEF ProcessNext, Start, setProcess, wait, publishExit, terminate, GraceExpires,
       TerminateReturns, LeaseTimeout, ReapLease
  <1>4. ASSUME NEW a \in Attachments, AttachmentNext(a) PROVE UNCHANGED replay
    BY <1>4, Zenon DEF AttachmentNext, AttachRejected, AttachFails, attach, ConnectionLost, SeesDone,
       WriteReason, Disconnect, detach, Malformed, Unsupported, takeover, Pong, Ping, send,
       writeInput, writeReturns, acknowledge, WriteInitial, WriteQueued
  <1>. QED  BY <1>1, <1>2, <1>3, <1>4, Zenon DEF Next, vars

\* The empty buffer.
LEMMA InitReplay == Init => ReplayExact
  <1> SUFFICES ASSUME Init PROVE ReplayExact
    OBVIOUS
  <1>1. replay.frames = << >> /\ replay.bytes = 0
    BY DEF Init, newReplayBuffer
  <1>2. << >> \in Seq(Retained) /\ Len(<< >>) = 0
    OBVIOUS
  <1>3. BytesOf(<< >>, 0) = 0
    BY <1>2, BytesOfNext
  <1>. QED  BY <1>1, <1>2, <1>3, ReplayAssumption DEF ReplayExact

\* For any sequence of reads of any sizes, the running byte count stays that of what is
\* retained, both limits hold and the retained frames are the newest, without a hole.
THEOREM ReplayIsExact == Spec => []ReplayExact
  BY Invariance, InitReplay, NextReplay, PTL DEF Spec

-----------------------------------------------------------------------------
(* What is on its way to a client: the output it is owed, in order, told   *)
(* of at most one gap, and the exit last.  Only three types of frame       *)
(* matter; the others are mute.                                            *)

Mute(f) == f.type \notin {"output", "replay_gap", "exit"}

\* No single frame is larger than the whole buffer.
ChunksFit == \A n \in Sizes : n <= MaxBytes

\* A client that has read the exit or not (x), with frames p on their way, when the hub
\* has recorded the exit or not (e).
Tidy(p, x, e) ==
    /\ \A i, j \in Positions(p, "exit") : i = j
    /\ x => Positions(p, "exit") = {} /\ Positions(p, "output") = {}
    /\ \A i \in Positions(p, "output"), j \in Positions(p, "exit") : i < j
    /\ ~e => Positions(p, "exit") = {} /\ ~x

\* The output on its way is the end of what has been published, up to frame n, and after
\* a gap it is all that the gap left.
Ending(p, n) ==
    /\ \A i, j \in Positions(p, "output") : i < j => p[i].seq < p[j].seq
    /\ \E m \in 1..(n + 1) : Numbers(p) = m..n
    /\ \A i \in Positions(p, "replay_gap"), j \in Positions(p, "output") : i < j
    /\ ChunksFit => \A i \in Positions(p, "replay_gap") :
                       p[i].seq <= n /\ Numbers(p) = (p[i].seq)..n

\* A client at cursor c will have read everything up to frame n.
Reaches(p, c, n) ==
    /\ c \in 0..n \cup {NoCursor}
    /\ c # NoCursor /\ Positions(p, "replay_gap") = {} => Numbers(p) = (c + 1)..n

\* A subscriber that is being written to.
Flowing(p, v, n, e) ==
    Ending(p, n) /\ Reaches(p, v.cursor, n) /\ (e => v.exited \/ Positions(p, "exit") # {})

Fed(a) ==
    /\ Tidy(Pipeline(a), view[a].exited, hub.exit)
    /\ a \in Served => Flowing(Pipeline(a), view[a], replay.latest, hub.exit)

\* The exit is recorded when wait's goroutine has told the hub, and never again undone.
ExitRecorded ==
    /\ hub.exit <=> hub.state = "exited"
    /\ hub.exit <=> proc = "done"

\* A connection that is down has no writer.
DownQuiet ==
    \A a \in Attachments :
        /\ conn[a] = "down" => initial[a] = << >> /\ view[a] = NoView
        /\ pc[a] = "idle" => conn[a] = "down"

\* The newest frame is retained, as long as it fits.
NewestKept == ChunksFit /\ replay.latest # 0 => replay.frames # << >>

Streaming == ReplayExact /\ NewestKept /\ ExitRecorded /\ DownQuiet /\ \A a \in Attachments : Fed(a)
-----------------------------------------------------------------------------
(* Lemmas about frames on their way.                                       *)

\* Where the frames of one type are, after another frame is put at the end.
LEMMA AppendedPositions ==
    ASSUME NEW p \in Seq(Frame), NEW f \in Frame
    PROVE  /\ Append(p, f) \in Seq(Frame) /\ Len(p) \in Nat
           /\ \A i \in 1..Len(p) : Append(p, f)[i] = p[i]
           /\ Append(p, f)[Len(p) + 1] = f
           /\ \A t : Positions(Append(p, f), t)
                        = IF f.type = t THEN Positions(p, t) \cup {Len(p) + 1} ELSE Positions(p, t)
  <1> DEFINE g == Append(p, f)
  <1>1. /\ g \in Seq(Frame) /\ Len(p) \in Nat /\ Len(g) = Len(p) + 1
        /\ \A i \in 1..Len(p) : g[i] = p[i]
        /\ g[Len(p) + 1] = f
    OBVIOUS
  <1> HIDE DEF g
  <1>2. 1..Len(g) = 1..Len(p) \cup {Len(p) + 1}
    BY <1>1
  <1>3. ASSUME NEW t
        PROVE  Positions(g, t) = IF f.type = t THEN Positions(p, t) \cup {Len(p) + 1} ELSE Positions(p, t)
    <2>1. \A i : i \in Positions(g, t) <=> i \in 1..Len(g) /\ g[i].type = t
      BY DEF Positions
    <2>2. \A i : i \in Positions(p, t) <=> i \in 1..Len(p) /\ p[i].type = t
      BY DEF Positions
    <2>3. \A i : i \in Positions(g, t) <=> i \in Positions(p, t) \/ (i = Len(p) + 1 /\ f.type = t)
      BY <1>1, <1>2, <2>1, <2>2, Zenon
    <2>. QED  BY <2>3
  <1>. QED  BY <1>1, <1>3 DEF g

\* And after the first is taken.
LEMMA TailPositions ==
    ASSUME NEW p \in Seq(Frame), p # << >>
    PROVE  /\ Tail(p) \in Seq(Frame) /\ Head(p) = p[1] /\ p[1] \in Frame
           /\ \A t : 1 \in Positions(p, t) <=> p[1].type = t
           /\ \A t : Positions(p, t) \subseteq Nat \ {0} /\ Positions(Tail(p), t) \subseteq Nat \ {0}
           /\ \A t : \A i \in Nat \ {0} : i \in Positions(Tail(p), t) <=> i + 1 \in Positions(p, t)
           /\ \A t : \A i \in Positions(Tail(p), t) : Tail(p)[i] = p[i + 1]
           /\ \A t : \A i \in Positions(p, t) : i = 1 \/ (i - 1 \in Positions(Tail(p), t) /\ Tail(p)[i - 1] = p[i])
  <1> DEFINE q == Tail(p)
  <1>1. /\ q \in Seq(Frame) /\ Len(p) \in Nat \ {0} /\ Len(q) = Len(p) - 1
        /\ Head(p) = p[1] /\ p[1] \in Frame
        /\ \A i \in 1..Len(q) : q[i] = p[i + 1]
    OBVIOUS
  <1> HIDE DEF q
  <1>2. \A t, i : i \in Positions(q, t) <=> i \in 1..Len(q) /\ q[i].type = t
    BY DEF Positions
  <1>3. \A t, i : i \in Positions(p, t) <=> i \in 1..Len(p) /\ p[i].type = t
    BY DEF Positions
  <1>4. 1 \in 1..Len(p) /\ \A i \in Nat \ {0} : i \in 1..Len(q) <=> i + 1 \in 1..Len(p)
    BY <1>1
  <1>5. \A i \in 1..Len(p) : i \in Nat \ {0} /\ (i = 1 \/ (i - 1 \in 1..Len(q) /\ (i - 1) + 1 = i))
    BY <1>1
  <1>6. \A i \in 1..Len(q) : i \in Nat \ {0}
    BY <1>1
  <1>7. \A t : 1 \in Positions(p, t) <=> p[1].type = t
    BY <1>3, <1>4, Zenon
  <1>8. \A t : Positions(p, t) \subseteq Nat \ {0} /\ Positions(q, t) \subseteq Nat \ {0}
    BY <1>2, <1>3, <1>5, <1>6, Zenon
  <1>9. ASSUME NEW t, NEW i \in Nat \ {0} PROVE i \in Positions(q, t) <=> i + 1 \in Positions(p, t)
    BY <1>1, <1>2, <1>3, <1>4, Zenon
  <1>10. \A t : \A i \in Positions(q, t) : q[i] = p[i + 1]
    BY <1>1, <1>2, Zenon
  <1>11. ASSUME NEW t, NEW i \in Positions(p, t), i # 1
         PROVE  i - 1 \in Positions(q, t) /\ q[i - 1] = p[i]
    <2>1. i \in 1..Len(p) /\ p[i].type = t
      BY <1>3
    <2>2. i - 1 \in 1..Len(q) /\ (i - 1) + 1 = i
      BY <1>5, <1>11, <2>1, Zenon
    <2>3. q[i - 1] = p[i]
      BY <1>1, <2>2, Zenon
    <2>. QED  BY <1>2, <2>1, <2>2, <2>3, Zenon
  <1>. QED  BY <1>1, <1>7, <1>8, <1>9, <1>10, <1>11, Zenon DEF q

\* The pipeline of an attachment whose writer or queue moves on.
LEMMA PipelineMoves ==
    ASSUME NEW s \in Seq(Frame), NEW q \in Seq(Frame), NEW f \in Frame
    PROVE  /\ s \o q \in Seq(Frame)
           /\ s \o Append(q, f) = Append(s \o q, f)
           /\ << >> \o q = q
           /\ s # << >> => s \o q # << >> /\ Head(s \o q) = Head(s) /\ Tail(s \o q) = Tail(s) \o q
  <1>1. s \o q \in Seq(Frame) /\ s \o Append(q, f) = Append(s \o q, f)
    OBVIOUS
  <1>2. << >> \o q = q
    OBVIOUS
  <1>3. s # << >> => s \o q # << >> /\ Head(s \o q) = Head(s) 
    OBVIOUS
  <1>4. s # << >> => Tail(s \o q) = Tail(s) \o q
    OBVIOUS
  <1>. QED  BY <1>1, <1>2, <1>3, <1>4

\* From p to g the frames of types T are where they were, and no others are among them.
Same(p, g, T) ==
    \A t \in T : Positions(g, t) = Positions(p, t) /\ \A i \in Positions(p, t) : g[i] = p[i]

\* Queue q has become p by frames that say nothing of output or exit.
MuteGrowth(q, p) == Lengthened(q, p) /\ \A i \in (Len(q) + 1)..Len(p) : Mute(p[i])

LEMMA MuteAdds ==
    ASSUME NEW s \in Seq(Frame), NEW q \in Seq(Frame), NEW r \in Seq(Frame), MuteGrowth(q, r)
    PROVE  Same(s \o q, s \o r, {"output", "replay_gap", "exit"})
  <1> DEFINE p == s \o q
             g == s \o r
             d == Len(s)
  <1>1. /\ Len(q) \in Nat /\ Len(r) \in Nat /\ d \in Nat
        /\ Len(p) = d + Len(q) /\ Len(g) = d + Len(r)
        /\ \A i \in 1..(d + Len(q)) : p[i] = IF i <= d THEN s[i] ELSE q[i - d]
        /\ \A i \in 1..(d + Len(r)) : g[i] = IF i <= d THEN s[i] ELSE r[i - d]
    OBVIOUS
  <1>2. /\ Len(q) <= Len(r) /\ \A i \in 1..Len(q) : r[i] = q[i]
        /\ \A i \in (Len(q) + 1)..Len(r) : Mute(r[i])
    BY DEF MuteGrowth, Lengthened
  <1> HIDE DEF p, g, d
  <1>3. ASSUME NEW i \in 1..Len(p) PROVE i \in 1..Len(g) /\ g[i] = p[i]
    <2>1. i \in 1..Len(g)
      BY <1>1, <1>2
    <2>2. CASE i <= d
      <3>1. i \in 1..(d + Len(q)) /\ i \in 1..(d + Len(r))
        BY <1>1, <2>1
      <3>. QED  BY <1>1, <2>1, <2>2, <3>1, Zenon
    <2>3. CASE ~(i <= d)
      <3>1. i \in 1..(d + Len(q)) /\ i \in 1..(d + Len(r)) /\ i - d \in 1..Len(q)
        BY <1>1, <2>1, <2>3
      <3>. QED  BY <1>1, <1>2, <2>1, <2>3, <3>1, Zenon
    <2>. QED  BY <2>2, <2>3
  <1>4. ASSUME NEW i \in 1..Len(g), i \notin 1..Len(p) PROVE Mute(g[i])
    <2>1. ~(i <= d) /\ i \in 1..(d + Len(r)) /\ i - d \in (Len(q) + 1)..Len(r)
      BY <1>1, <1>2, <1>4
    <2>. QED  BY <1>1, <1>2, <2>1, Zenon
  <1>5. ASSUME NEW t \in {"output", "replay_gap", "exit"}
        PROVE  Positions(g, t) = Positions(p, t) /\ \A i \in Positions(p, t) : g[i] = p[i]
    <2>1. \A i : i \in Positions(g, t) <=> i \in 1..Len(g) /\ g[i].type = t
      BY DEF Positions
    <2>2. \A i : i \in Positions(p, t) <=> i \in 1..Len(p) /\ p[i].type = t
      BY DEF Positions
    <2>3. \A i \in 1..Len(g) : i \notin 1..Len(p) => g[i].type # t
      BY <1>4 DEF Mute
    <2>4. \A i : i \in Positions(g, t) <=> i \in Positions(p, t)
      BY <1>3, <2>1, <2>2, <2>3, Zenon
    <2>. QED  BY <1>3, <2>2, <2>4
  <1>. QED  BY <1>5, Zenon DEF Same, p, g

\* What is said of a pipeline is said of its frames of these types.
LEMMA SameEnding ==
    ASSUME NEW p, NEW g, Same(p, g, {"output", "replay_gap"}), NEW n, NEW c
    PROVE  /\ Numbers(g) = Numbers(p)
           /\ Ending(p, n) => Ending(g, n)
           /\ Reaches(p, c, n) => Reaches(g, c, n)
  <1>1. /\ Positions(g, "output") = Positions(p, "output")
        /\ \A i \in Positions(p, "output") : g[i] = p[i]
        /\ Positions(g, "replay_gap") = Positions(p, "replay_gap")
        /\ \A i \in Positions(p, "replay_gap") : g[i] = p[i]
    BY DEF Same
  <1>2. Numbers(g) = Numbers(p)
    BY <1>1 DEF Numbers
  <1>3. Ending(p, n) => Ending(g, n)
    BY <1>1, <1>2, Zenon DEF Ending
  <1>4. Reaches(p, c, n) => Reaches(g, c, n)
    BY <1>1, <1>2, Zenon DEF Reaches
  <1>. QED  BY <1>2, <1>3, <1>4

LEMMA SameTidy ==
    ASSUME NEW p, NEW g, Same(p, g, {"output", "replay_gap", "exit"})
    PROVE  /\ Same(p, g, {"output", "replay_gap"})
           /\ Positions(g, "exit") = Positions(p, "exit")
           /\ \A x, e : Tidy(p, x, e) => Tidy(g, x, e)
  BY Zenon DEF Same, Tidy

\* A frame of output published after frame n.
LEMMA OutputAdded ==
    ASSUME NEW p \in Seq(Frame), NEW n \in Nat, NEW x, NEW c, Tidy(p, x, FALSE)
    PROVE  LET g == Append(p, Output(n + 1)) IN
           /\ Tidy(g, x, FALSE) /\ Positions(g, "exit") = {}
           /\ Ending(p, n) => Ending(g, n + 1)
           /\ Ending(p, n) /\ Reaches(p, c, n) => Reaches(g, c, n + 1)
  <1> DEFINE f == Output(n + 1)
             g == Append(p, f)
             l == Len(p) + 1
  <1>1. f \in Frame /\ f.type = "output" /\ f.seq = n + 1
    BY DEF Output, Frame, FrameTypes
  <1> HIDE DEF f
  <1>2. /\ Len(p) \in Nat /\ g[l] = f
        /\ \A i \in 1..Len(p) : g[i] = p[i]
        /\ Positions(g, "output") = Positions(p, "output") \cup {l}
        /\ Positions(g, "replay_gap") = Positions(p, "replay_gap")
        /\ Positions(g, "exit") = Positions(p, "exit")
    BY <1>1, AppendedPositions
  <1>3. \A t : \A i \in Positions(p, t) : i \in 1..Len(p) /\ i < l /\ g[i] = p[i]
    BY <1>2 DEF Positions
  <1> HIDE DEF g, l
  <1>4. Numbers(g) = Numbers(p) \cup {n + 1}
    BY <1>1, <1>2, <1>3 DEF Numbers
  <1>5. Tidy(g, x, FALSE) /\ Positions(g, "exit") = {}
    BY <1>2 DEF Tidy
  <1>6. ASSUME Ending(p, n) PROVE Ending(g, n + 1)
    <2>1. PICK m \in 1..(n + 1) : Numbers(p) = m..n
      BY <1>6 DEF Ending
    <2>2. m \in 1..((n + 1) + 1) /\ Numbers(g) = m..(n + 1)
      BY <1>4, <2>1
    <2>3. \A i \in Positions(p, "output") : p[i].seq \in Numbers(p)
      BY DEF Numbers
    <2>4. \A i \in Positions(p, "output") : p[i].seq < n + 1
      BY <2>1, <2>3
    <2>5. ASSUME NEW i \in Positions(g, "output"), NEW j \in Positions(g, "output"), i < j
          PROVE  g[i].seq < g[j].seq
      <3>1. CASE i \in Positions(p, "output") /\ j \in Positions(p, "output")
        BY <1>3, <1>6, <2>5, <3>1 DEF Ending
      <3>2. CASE i \in Positions(p, "output") /\ j = l
        BY <1>1, <1>2, <1>3, <2>4, <3>2
      <3>3. CASE i = l
        <4>1. j = l \/ (j < l /\ j \in Nat)
          BY <1>2, <1>3
        <4>. QED  BY <1>2, <2>5, <3>3, <4>1 DEF l
      <3>. QED  BY <1>2, <3>1, <3>2, <3>3
    <2>6. \A i \in Positions(g, "replay_gap"), j \in Positions(g, "output") : i < j
      BY <1>2, <1>3, <1>6 DEF Ending
    <2>7. ASSUME ChunksFit, NEW i \in Positions(g, "replay_gap")
          PROVE  g[i].seq <= n + 1 /\ Numbers(g) = (g[i].seq)..(n + 1)
      <3>1. i \in Positions(p, "replay_gap") /\ g[i] = p[i]
        BY <1>2, <1>3
      <3>2. p[i].seq <= n /\ Numbers(p) = (p[i].seq)..n
        BY <1>6, <2>7, <3>1 DEF Ending
      <3>3. p[i].seq \in Nat
        <4>1. p[i] \in Frame
          BY <1>3, <3>1
        <4>. QED  BY <4>1 DEF Frame
      <3> DEFINE k == p[i].seq
      <3> HIDE DEF k
      <3>4. k \in Nat /\ k <= n /\ Numbers(g) = (k..n) \cup {n + 1}
        BY <1>4, <3>2, <3>3 DEF k
      <3>5. k <= n + 1 /\ Numbers(g) = k..(n + 1)
        BY <3>4
      <3>. QED  BY <3>1, <3>5 DEF k
    <2>. QED  BY <2>2, <2>5, <2>6, <2>7 DEF Ending
  <1>7. ASSUME Ending(p, n), Reaches(p, c, n) PROVE Reaches(g, c, n + 1)
    <2>1. c \in 0..(n + 1) \cup {NoCursor}
      BY <1>7 DEF Reaches
    <2>2. ASSUME c # NoCursor, Positions(g, "replay_gap") = {} PROVE Numbers(g) = (c + 1)..(n + 1)
      <3>1. c \in 0..n /\ Numbers(p) = (c + 1)..n
        BY <1>2, <1>7, <2>2 DEF Reaches
      <3>. QED  BY <1>4, <3>1
    <2>. QED  BY <2>1, <2>2 DEF Reaches
  <1>. QED  BY <1>5, <1>6, <1>7 DEF f, g

\* The exit put at the end of frames without one.
LEMMA ExitAdded ==
    ASSUME NEW p \in Seq(Frame), NEW x, Tidy(p, x, FALSE)
    PROVE  LET g == Append(p, Simple("exit")) IN
           /\ Tidy(p, x, TRUE) /\ Tidy(g, x, TRUE) /\ Positions(g, "exit") # {}
           /\ Same(p, g, {"output", "replay_gap"})
  <1> DEFINE f == Simple("exit")
             g == Append(p, f)
             l == Len(p) + 1
  <1>1. f \in Frame /\ f.type = "exit"
    BY DEF Simple, Frame, FrameTypes
  <1> HIDE DEF f
  <1>2. /\ Len(p) \in Nat
        /\ \A i \in 1..Len(p) : g[i] = p[i]
        /\ Positions(g, "output") = Positions(p, "output")
        /\ Positions(g, "replay_gap") = Positions(p, "replay_gap")
        /\ Positions(g, "exit") = Positions(p, "exit") \cup {l}
    BY <1>1, AppendedPositions
  <1>3. \A t : \A i \in Positions(p, t) : i \in 1..Len(p) /\ i < l
    BY <1>2 DEF Positions
  <1> HIDE DEF g, l
  <1>4. Positions(p, "exit") = {} /\ ~x /\ Positions(g, "exit") = {l}
    BY <1>2 DEF Tidy
  <1>5. Tidy(p, x, TRUE) /\ Tidy(g, x, TRUE)
    BY <1>2, <1>3, <1>4 DEF Tidy
  <1>6. Same(p, g, {"output", "replay_gap"})
    BY <1>2, <1>3 DEF Same
  <1>. QED  BY <1>4, <1>5, <1>6 DEF f, g

\* The first frame is written: the client has read it, and what was owed to it still is.
LEMMA HeadWritten ==
    ASSUME NEW p \in Seq(Frame), p # << >>, NEW v \in View, NEW e, Tidy(p, v.exited, e)
    PROVE  LET w == Received(v, Head(p)) IN
           /\ Tidy(Tail(p), w.exited, e)
           /\ \A n \in Nat : Flowing(p, v, n, e) => Flowing(Tail(p), w, n, e)
  <1> DEFINE f == p[1]
             q == Tail(p)
             w == Received(v, f)
  <1>1. /\ q \in Seq(Frame) /\ Head(p) = f /\ f \in Frame
        /\ \A t : 1 \in Positions(p, t) <=> f.type = t
        /\ \A t : Positions(p, t) \subseteq Nat \ {0} /\ Positions(q, t) \subseteq Nat \ {0}
        /\ \A t : \A i \in Nat \ {0} : i \in Positions(q, t) <=> i + 1 \in Positions(p, t)
        /\ \A t : \A i \in Positions(q, t) : q[i] = p[i + 1]
        /\ \A t : \A i \in Positions(p, t) :
                     i = 1 \/ (i - 1 \in Positions(q, t) /\ q[i - 1] = p[i])
    BY TailPositions
  <1>2. /\ w.exited = IF f.type = "exit" THEN TRUE ELSE v.exited
        /\ w.cursor = CASE f.type = "output" -> f.seq
                        [] f.type = "replay_gap" -> NoCursor
                        [] OTHER -> v.cursor
    BY <1>1 DEF Received, View
  <1>f. f \in Frame /\ f.seq \in Nat
    BY <1>1 DEF Frame
  <1> HIDE DEF f, q, w
  <1>3. \A t : \A i \in Positions(q, t) : i \in Nat \ {0} /\ i + 1 \in Positions(p, t) /\ q[i] = p[i + 1]
    BY <1>1
  <1>4. \A t : f.type # t => \A i \in Positions(p, t) : i - 1 \in Positions(q, t) /\ q[i - 1] = p[i]
    BY <1>1
  <1>e. \A t : Positions(p, t) = {} => Positions(q, t) = {}
    BY <1>3
  <1>5. Tidy(q, w.exited, e)
    <2>1. ASSUME NEW i \in Positions(q, "exit"), NEW j \in Positions(q, "exit") PROVE i = j
      <3>1. i + 1 = j + 1 /\ i \in Nat /\ j \in Nat
        BY <1>3 DEF Tidy
      <3>. QED  BY <3>1
    <2>2. ASSUME NEW i \in Positions(q, "output"), NEW j \in Positions(q, "exit") PROVE i < j
      <3>1. i + 1 < j + 1 /\ i \in Nat /\ j \in Nat
        BY <1>3 DEF Tidy
      <3>. QED  BY <3>1
    <2>3. CASE f.type = "exit"
      <3>1. 1 \in Positions(p, "exit")
        BY <1>1, <2>3
      <3>2. ASSUME NEW i \in Positions(q, "exit") PROVE FALSE
        <4>1. i + 1 = 1 /\ i \in Nat \ {0}
          BY <1>3, <3>1 DEF Tidy
        <4>. QED  BY <4>1
      <3>3. ASSUME NEW i \in Positions(q, "output") PROVE FALSE
        <4>1. i + 1 < 1 /\ i \in Nat \ {0}
          BY <1>3, <3>1 DEF Tidy
        <4>. QED  BY <4>1
      <3>4. e
        BY <3>1 DEF Tidy
      <3>. QED  BY <2>1, <2>2, <3>2, <3>3, <3>4 DEF Tidy
    <2>4. CASE f.type # "exit"
      <3>1. w.exited = v.exited
        BY <1>2, <2>4
      <3>. QED  BY <1>e, <2>1, <2>2, <3>1 DEF Tidy
    <2>. QED  BY <2>3, <2>4
  <1>6. ASSUME NEW n \in Nat, Flowing(p, v, n, e) PROVE Flowing(q, w, n, e)
    <2>1. Ending(p, n) /\ Reaches(p, v.cursor, n) /\ (e => v.exited \/ Positions(p, "exit") # {})
      BY <1>6 DEF Flowing
    <2>2. e => w.exited \/ Positions(q, "exit") # {}
      <3>1. CASE f.type = "exit"
        BY <1>2, <3>1
      <3>2. CASE f.type # "exit"
        BY <1>2, <1>4, <2>1, <3>2
      <3>. QED  BY <3>1, <3>2
    <2>3. ASSUME NEW i \in Positions(q, "output"), NEW j \in Positions(q, "output"), i < j
          PROVE  q[i].seq < q[j].seq
      <3>1. i + 1 < j + 1 /\ i + 1 \in Positions(p, "output") /\ j + 1 \in Positions(p, "output")
        BY <1>3, <2>3
      <3>2. p[i + 1].seq < p[j + 1].seq
        BY <2>1, <3>1 DEF Ending
      <3>. QED  BY <1>3, <3>2
    <2>4. ASSUME NEW i \in Positions(q, "replay_gap"), NEW j \in Positions(q, "output") PROVE i < j
      <3>1. i + 1 < j + 1 /\ i \in Nat /\ j \in Nat
        BY <1>3, <2>1 DEF Ending
      <3>. QED  BY <3>1
    <2>5. CASE f.type = "output"
      <3>0. 1 \in Positions(p, "output")
        BY <1>1, <2>5
      <3>1. Positions(q, "replay_gap") = {}
        <4> SUFFICES ASSUME NEW i \in Positions(q, "replay_gap") PROVE FALSE
          OBVIOUS
        <4>1. i + 1 < 1 /\ i \in Nat \ {0}
          BY <1>3, <2>1, <3>0 DEF Ending
        <4>. QED  BY <4>1
      <3>2. \A i \in Positions(q, "output") : q[i].seq \in Numbers(p) /\ f.seq < q[i].seq
        <4> SUFFICES ASSUME NEW i \in Positions(q, "output")
                     PROVE  q[i].seq \in Numbers(p) /\ f.seq < q[i].seq
          OBVIOUS
        <4>1. i + 1 \in Positions(p, "output") /\ q[i] = p[i + 1] /\ 1 < i + 1
          BY <1>3
        <4>2. p[1].seq < p[i + 1].seq
          BY <2>1, <3>0, <4>1, Zenon DEF Ending
        <4>. QED  BY <4>1, <4>2 DEF Numbers, f
      <3>3. f.seq \in Numbers(p)
        BY <3>0 DEF Numbers, f
      <3>4. \A k \in Numbers(p) : k = f.seq \/ k \in Numbers(q)
        <4> SUFFICES ASSUME NEW i \in Positions(p, "output"), i # 1
                     PROVE  p[i].seq \in Numbers(q)
          BY DEF Numbers, f
        <4>1. i - 1 \in Positions(q, "output") /\ q[i - 1] = p[i]
          BY <1>1
        <4>. QED  BY <4>1, Zenon DEF Numbers
      <3>5. PICK m \in 1..(n + 1) : Numbers(p) = m..n
        BY <2>1 DEF Ending
      <3>6. \A k \in Numbers(q) : k \in Numbers(p) /\ f.seq < k
        BY <3>2, Zenon DEF Numbers
      <3>7. f.seq = m
        <4>1. f.seq \in m..n /\ m \in m..n /\ \A k \in m..n : k = f.seq \/ f.seq < k
          BY <3>3, <3>4, <3>5, <3>6
        <4>. QED  BY <4>1
      <3>8. Numbers(q) = (m + 1)..n
        <4>1. \A k : k \in Numbers(q) <=> k \in m..n /\ k # m
          BY <3>4, <3>5, <3>6, <3>7
        <4>2. \A k : k \in (m + 1)..n <=> k \in m..n /\ k # m
          OBVIOUS
        <4>. QED  BY <4>1, <4>2
      <3>9. Ending(q, n)
        <4>1. m + 1 \in 1..(n + 1)
          BY <3>3, <3>5
        <4>. QED  BY <2>3, <2>4, <3>1, <3>8, <4>1 DEF Ending
      <3>10. Reaches(q, w.cursor, n)
        <4>1. w.cursor = m /\ m \in 0..n
          BY <1>2, <2>5, <3>3, <3>5, <3>7
        <4>. QED  BY <3>8, <4>1 DEF Reaches
      <3>. QED  BY <2>2, <3>9, <3>10 DEF Flowing
    <2>6. CASE f.type # "output"
      <3>1. Numbers(q) = Numbers(p)
        <4>1. ASSUME NEW i \in Positions(q, "output") PROVE q[i].seq \in Numbers(p)
          BY <1>3 DEF Numbers
        <4>2. ASSUME NEW i \in Positions(p, "output") PROVE p[i].seq \in Numbers(q)
          <5>1. i - 1 \in Positions(q, "output") /\ q[i - 1] = p[i]
            BY <1>4, <2>6
          <5>. QED  BY <5>1, Zenon DEF Numbers
        <4>. QED  BY <4>1, <4>2 DEF Numbers
      <3>2. ASSUME ChunksFit, NEW i \in Positions(q, "replay_gap")
            PROVE  q[i].seq <= n /\ Numbers(q) = (q[i].seq)..n
        <4>1. i + 1 \in Positions(p, "replay_gap") /\ q[i] = p[i + 1]
          BY <1>3
        <4>. QED  BY <2>1, <3>1, <3>2, <4>1 DEF Ending
      <3>3. Ending(q, n)
        <4>1. \E m \in 1..(n + 1) : Numbers(q) = m..n
          BY <2>1, <3>1 DEF Ending
        <4>. QED  BY <2>3, <2>4, <3>2, <4>1 DEF Ending
      <3>4. Reaches(q, w.cursor, n)
        <4>1. CASE f.type = "replay_gap"
          <5>1. w.cursor = NoCursor
            BY <1>2, <2>6, <4>1
          <5>. QED  BY <5>1 DEF Reaches
        <4>2. CASE f.type # "replay_gap"
          <5>1. w.cursor = v.cursor
            BY <1>2, <2>6, <4>2
          <5>2. Positions(q, "replay_gap") = {} => Positions(p, "replay_gap") = {}
            BY <1>4, <4>2
          <5>. QED  BY <2>1, <3>1, <5>1, <5>2 DEF Reaches
        <4>. QED  BY <4>1, <4>2
      <3>. QED  BY <2>2, <3>3, <3>4 DEF Flowing
    <2>. QED  BY <2>5, <2>6
  <1>. QED  BY <1>1, <1>5, <1>6, Zenon DEF q, w

\* The connection is gone and with it the frames that its writer held.
LEMMA QueueTidy ==
    ASSUME NEW s \in Seq(Frame), NEW q \in Seq(Frame), NEW x, NEW e, Tidy(s \o q, x, e)
    PROVE  Tidy(q, FALSE, e)
  <1> DEFINE p == s \o q
             d == Len(s)
  <1>1. /\ d \in Nat /\ Len(q) \in Nat /\ Len(p) = d + Len(q)
        /\ \A i \in 1..Len(q) : d + i \in 1..(d + Len(q)) /\ p[d + i] = q[i]
    <2>1. d \in Nat /\ Len(q) \in Nat /\ Len(p) = d + Len(q)
      OBVIOUS
    <2>2. ASSUME NEW i \in 1..Len(q) PROVE d + i \in 1..(d + Len(q)) /\ p[d + i] = q[i]
      OBVIOUS
    <2>. QED  BY <2>1, <2>2
  <1> HIDE DEF p, d
  <1>2. \A t : \A i \in Positions(q, t) : i \in Nat /\ d + i \in Positions(p, t)
    BY <1>1 DEF Positions
  <1>3. Tidy(p, x, e)
    BY DEF p
  <1>4. \A i, j \in Positions(q, "exit") : i = j
    <2> SUFFICES ASSUME NEW i \in Positions(q, "exit"), NEW j \in Positions(q, "exit") PROVE i = j
      OBVIOUS
    <2>1. d + i = d + j /\ i \in Nat /\ j \in Nat
      BY <1>2, <1>3 DEF Tidy
    <2>. QED  BY <1>1, <2>1
  <1>5. \A i \in Positions(q, "output"), j \in Positions(q, "exit") : i < j
    <2> SUFFICES ASSUME NEW i \in Positions(q, "output"), NEW j \in Positions(q, "exit") PROVE i < j
      OBVIOUS
    <2>1. d + i < d + j /\ i \in Nat /\ j \in Nat
      BY <1>2, <1>3 DEF Tidy
    <2>. QED  BY <1>1, <2>1
  <1>6. ~e => Positions(q, "exit") = {}
    BY <1>2, <1>3 DEF Tidy
  <1>. QED  BY <1>4, <1>5, <1>6 DEF Tidy
-----------------------------------------------------------------------------
(* What the hub's helpers put into the queues, and that none of them       *)
(* records the exit.                                                       *)

\* From h to g the exit is not recorded, nobody is subscribed, and attachment b is sent
\* nothing but mute frames, if anything.
MutesTo(h, g, b) ==
    /\ g.exit = h.exit /\ g.state = h.state
    /\ b \in g.subscribers => b \in h.subscribers
    /\ b \notin h.subscribers => g.queue[b] = h.queue[b]
    /\ MuteGrowth(h.queue[b], g.queue[b])

LEMMA MuteGrows ==
    ASSUME NEW q \in Seq(Frame), NEW f \in Frame
    PROVE  /\ MuteGrowth(q, q)
           /\ Mute(f) => MuteGrowth(q, Append(q, f))
  <1> DEFINE p == Append(q, f)
  <1>1. /\ Len(q) \in Nat /\ Len(p) = Len(q) + 1 /\ p[Len(q) + 1] = f
        /\ \A i \in 1..Len(q) : p[i] = q[i]
    OBVIOUS
  <1> HIDE DEF p
  <1>2. MuteGrowth(q, q)
    BY <1>1 DEF MuteGrowth, Lengthened
  <1>3. Mute(f) => MuteGrowth(q, p)
    <2>1. \A i \in (Len(q) + 1)..Len(p) : i = Len(q) + 1
      BY <1>1
    <2>. QED  BY <1>1, <2>1 DEF MuteGrowth, Lengthened
  <1>. QED  BY <1>2, <1>3 DEF p

LEMMA MutesTrans ==
    ASSUME NEW h \in HubState, NEW g \in HubState, NEW k \in HubState, NEW b \in Attachments,
           MutesTo(h, g, b), MutesTo(g, k, b)
    PROVE  MutesTo(h, k, b)
  <1> DEFINE q == h.queue[b]
             p == g.queue[b]
             o == k.queue[b]
  <1>1. /\ Len(q) \in Nat /\ Len(p) \in Nat /\ Len(o) \in Nat
        /\ MuteGrowth(q, p) /\ MuteGrowth(p, o)
    BY DEF HubState, MutesTo
  <1> HIDE DEF q, p, o
  <1>2. MuteGrowth(q, o)
    <2>1. /\ Len(q) <= Len(p) /\ \A i \in 1..Len(q) : p[i] = q[i]
          /\ Len(p) <= Len(o) /\ \A i \in 1..Len(p) : o[i] = p[i]
          /\ \A i \in (Len(q) + 1)..Len(p) : Mute(p[i])
          /\ \A i \in (Len(p) + 1)..Len(o) : Mute(o[i])
      BY <1>1 DEF MuteGrowth, Lengthened
    <2>2. \A i \in 1..Len(q) : i \in 1..Len(p)
      BY <1>1, <2>1
    <2>3. \A i \in (Len(q) + 1)..Len(o) :
             \/ i \in (Len(q) + 1)..Len(p) /\ i \in 1..Len(p)
             \/ i \in (Len(p) + 1)..Len(o)
      BY <1>1, <2>1
    <2>4. Lengthened(q, o)
      <3>1. Len(q) <= Len(o)
        BY <1>1, <2>1
      <3>2. \A i \in 1..Len(q) : o[i] = q[i]
        BY <2>1, <2>2, Zenon
      <3>. QED  BY <3>1, <3>2 DEF Lengthened
    <2>5. \A i \in (Len(q) + 1)..Len(o) : Mute(o[i])
      BY <2>1, <2>3, Zenon
    <2>. QED  BY <2>4, <2>5 DEF MuteGrowth
  <1>. QED  BY <1>2 DEF MutesTo, q, p, o

\* A hub whose queues do not change.
LEMMA SameMutes ==
    ASSUME NEW h \in HubState, NEW g, NEW b \in Attachments,
           g.queue = h.queue, g.subscribers \subseteq h.subscribers,
           g.exit = h.exit, g.state = h.state
    PROVE  MutesTo(h, g, b)
  <1>1. h.queue[b] \in Seq(Frame) /\ NoReply \in Frame
    BY SimpleFrame DEF HubState, NoReply, FrameTypes
  <1>2. MuteGrowth(h.queue[b], h.queue[b])
    BY <1>1, MuteGrows
  <1>. QED  BY <1>2 DEF MutesTo

\* sendLocked, of a mute frame.
LEMMA SendMutes ==
    ASSUME NEW h \in HubState, NEW a \in h.subscribers, NEW f \in Frame, Mute(f),
           NEW b \in Attachments
    PROVE  MutesTo(h, sendLocked(h, a, f), b)
  <1> DEFINE g == sendLocked(h, a, f)
             q == [h.queue EXCEPT ![a] = Append(h.queue[a], f)]
             c == IF h.controller.attachment = a THEN NoLease ELSE h.controller
  <1>0. a \in Attachments
    BY DEF HubState
  <1>1. /\ h.queue[b] \in Seq(Frame) /\ h.queue[a] \in Seq(Frame)
        /\ q[a] = Append(h.queue[a], f) /\ (b # a => q[b] = h.queue[b])
    BY <1>0 DEF HubState
  <1>2. MuteGrowth(h.queue[b], h.queue[b]) /\ MuteGrowth(h.queue[a], Append(h.queue[a], f))
    BY <1>1, MuteGrows
  <1>3. CASE Len(h.queue[a]) < SubscriberBuffer
    <2>1. g = [h EXCEPT !.queue = q]
      BY <1>3, Zenon DEF sendLocked
    <2> HIDE DEF g, q
    <2>2. g.queue = q /\ g.subscribers = h.subscribers /\ g.exit = h.exit /\ g.state = h.state
      BY <2>1 DEF HubState
    <2>. QED  BY <1>1, <1>2, <2>2 DEF MutesTo, g
  <1>4. CASE ~(Len(h.queue[a]) < SubscriberBuffer)
    <2>1. g = [h EXCEPT !.subscribers = h.subscribers \ {a},
                        !.closed = h.closed \cup {a},
                        !.controller = c]
      BY <1>4 DEF sendLocked, HubState
    <2> HIDE DEF g, c
    <2>2. /\ g.queue = h.queue /\ g.subscribers \subseteq h.subscribers
          /\ g.exit = h.exit /\ g.state = h.state
      BY <2>1 DEF HubState
    <2>. QED  BY <2>2, SameMutes DEF g
  <1>. QED  BY <1>3, <1>4

\* revokeControllerLocked and expireControllerLocked.
LEMMA RevokeMutes ==
    ASSUME NEW h, HubOK(h), NEW b \in Attachments
    PROVE  /\ MutesTo(h, revokeControllerLocked(h), b)
           /\ MutesTo(h, expireControllerLocked(h), b)
  <1> DEFINE a == h.controller.attachment
             g == revokeControllerLocked(h)
  <1>0. h \in HubState /\ MutesTo(h, h, b)
    BY SameMutes DEF HubOK
  <1> SUFFICES MutesTo(h, revokeControllerLocked(h), b)
    BY <1>0 DEF expireControllerLocked
  <1>1. CASE a = None
    BY <1>0, <1>1 DEF revokeControllerLocked
  <1>2. CASE a # None /\ a \notin h.subscribers
    <2>1. g = [h EXCEPT !.controller = NoLease]
      BY <1>2 DEF revokeControllerLocked
    <2> HIDE DEF g
    <2>2. /\ g.queue = h.queue /\ g.subscribers = h.subscribers
          /\ g.exit = h.exit /\ g.state = h.state
      BY <1>0, <2>1 DEF HubState
    <2>. QED  BY <1>0, <2>2, SameMutes DEF g
  <1>3. CASE a # None /\ a \in h.subscribers
    <2> DEFINE r == [h.role EXCEPT ![a] = "observe"]
               l == [h.leaseID EXCEPT ![a] = 0]
               d == [h EXCEPT !.role = r, !.leaseID = l]
               s == sendLocked(d, a, Simple("controller_revoked"))
    <2>0. a \in Attachments
      BY <1>0, <1>3 DEF HubState
    <2>1. g = [s EXCEPT !.controller = NoLease]
      BY <1>0, <1>3 DEF revokeControllerLocked, Demoted, HubState
    <2>2. r \in [Attachments -> {"control", "observe"}] /\ l \in [Attachments -> Nat]
      BY <1>0, <2>0 DEF HubState
    <2>3. Simple("controller_revoked") \in Frame /\ Mute(Simple("controller_revoked"))
      BY DEF Simple, Frame, FrameTypes, Mute
    <2>4. /\ d \in HubState
          /\ d.queue = h.queue /\ d.subscribers = h.subscribers
          /\ d.exit = h.exit /\ d.state = h.state
      <3> HIDE DEF r, l
      <3>. QED  BY <1>0, <2>2 DEF HubState
    <2> HIDE DEF d
    <2>5. MutesTo(d, s, b)
      BY <1>3, <2>3, <2>4, SendMutes
    <2>6. /\ g.queue = s.queue /\ g.subscribers = s.subscribers
          /\ g.exit = s.exit /\ g.state = s.state
      <3>1. \/ s = [d EXCEPT !.queue = [d.queue EXCEPT ![a] = Append(d.queue[a], Simple("controller_revoked"))]]
            \/ s = [d EXCEPT !.subscribers = d.subscribers \ {a},
                             !.closed = d.closed \cup {a},
                             !.controller = IF d.controller.attachment = a THEN NoLease ELSE d.controller]
        BY <2>4 DEF sendLocked, HubState
      <3> HIDE DEF s, g
      <3>. QED  BY <2>1, <2>4, <3>1 DEF HubState
    <2> HIDE DEF s, g
    <2>. QED  BY <2>4, <2>5, <2>6 DEF MutesTo, g
  <1>. QED  BY <1>1, <1>2, <1>3

\* A grant, a refresh of the lease and an expiry that has come touch no queue.
LEMMA LeaseMutes ==
    ASSUME NEW h \in HubState, NEW a \in Attachments, NEW b \in Attachments
    PROVE  MutesTo(h, grantControllerLocked(h, a), b) /\ MutesTo(h, Touched(h, a), b)
  <1> DEFINE g == grantControllerLocked(h, a)
             l == [h.leaseID EXCEPT ![a] = h.issued + 1]
             r == [h.role EXCEPT ![a] = "control"]
             c == [attachment |-> a, lease |-> h.issued + 1, expired |-> FALSE]
             n == h.issued + 1
             t == [h.controller EXCEPT !.expired = FALSE]
  <1>1. MutesTo(h, g, b)
    <2>1. g = [h EXCEPT !.issued = n, !.role = r, !.leaseID = l, !.controller = c]
      BY DEF grantControllerLocked
    <2> HIDE DEF g, l, r, c, n
    <2>2. /\ g.queue = h.queue /\ g.subscribers = h.subscribers
          /\ g.exit = h.exit /\ g.state = h.state
      BY <2>1 DEF HubState
    <2>. QED  BY <2>2, SameMutes
  <1>2. MutesTo(h, Touched(h, a), b)
    <2> DEFINE k == [h EXCEPT !.controller = t]
    <2>1. Touched(h, a) \in {h, k}
      BY DEF Touched
    <2> HIDE DEF t
    <2>2. k.queue = h.queue /\ k.subscribers = h.subscribers /\ k.exit = h.exit /\ k.state = h.state
      BY DEF HubState
    <2> HIDE DEF k
    <2>3. MutesTo(h, k, b) /\ MutesTo(h, h, b)
      BY <2>2, SameMutes
    <2>. QED  BY <2>1, <2>3
  <1>. QED  BY <1>1, <1>2

\* Without attachments there is nothing to revoke.
LEMMA RevokeExit ==
    ASSUME NEW h, HubOK(h)
    PROVE  /\ revokeControllerLocked(h).exit = h.exit /\ revokeControllerLocked(h).state = h.state
           /\ expireControllerLocked(h).exit = h.exit /\ expireControllerLocked(h).state = h.state
  <1> DEFINE a == h.controller.attachment
             g == revokeControllerLocked(h)
  <1>0. a \in Attachments \cup {None}
    BY DEF HubOK, HubState, Lease
  <1> SUFFICES g.exit = h.exit /\ g.state = h.state
    BY DEF expireControllerLocked
  <1>1. CASE a = None
    BY <1>1 DEF revokeControllerLocked
  <1>2. CASE a \in Attachments
    <2>1. MutesTo(h, g, a)
      BY <1>2, RevokeMutes
    <2> HIDE DEF g, a
    <2>. QED  BY <2>1 DEF MutesTo
  <1>. QED  BY <1>0, <1>1, <1>2

\* broadcastLocked: everybody who stays subscribed gets the frame, nobody else does.
LEMMA BroadcastSends ==
    ASSUME NEW h \in HubState, NEW f \in Frame
    PROVE  LET g == broadcastLocked(h, f) IN
           /\ g.exit = h.exit /\ g.state = h.state
           /\ \A b \in Attachments :
                 IF b \in g.subscribers THEN b \in h.subscribers /\ g.queue[b] = Append(h.queue[b], f)
                                       ELSE g.queue[b] = h.queue[b]
  <1> DEFINE g == broadcastLocked(h, f)
             slow == {a \in h.subscribers : Len(h.queue[a]) >= SubscriberBuffer}
             quick == h.subscribers \ slow
             c == IF h.controller.attachment \in slow THEN NoLease ELSE h.controller
             q == [a \in Attachments |->
                      IF a \in quick THEN Append(h.queue[a], f) ELSE h.queue[a]]
  <1>1. g = [h EXCEPT !.subscribers = quick, !.closed = h.closed \cup slow,
                      !.controller = c, !.queue = q]
    BY DEF broadcastLocked, HubState
  <1>2. /\ quick \subseteq h.subscribers
        /\ \A b \in Attachments : q[b] = IF b \in quick THEN Append(h.queue[b], f) ELSE h.queue[b]
    OBVIOUS
  <1> HIDE DEF g, slow, quick, c, q
  <1>3. g.subscribers = quick /\ g.queue = q /\ g.exit = h.exit /\ g.state = h.state
    BY <1>1 DEF HubState
  <1>. QED  BY <1>2, <1>3 DEF g

\* What the buffer has of the frames after a cursor: those from a number k on, which is the
\* cursor itself unless frames in between have been dropped.
LEMMA Missed ==
    ASSUME TypeOK, ReplayExact, NEW after \in 0..replay.latest
    PROVE  LET k == IF after >= replay.latest - Len(replay.frames) THEN after
                                                             ELSE replay.latest - Len(replay.frames)
               m == afterFrames(replay, after)
           IN  /\ k \in 0..replay.latest
               /\ m \in Seq(Retained) /\ Len(m) = replay.latest - k
               /\ \A i \in 1..(replay.latest - k) : m[i].seq = k + i
  <1> DEFINE s == replay.frames
             n == replay.latest
             kept == Len(s)
             c == IF after >= n - kept THEN after - (n - kept) ELSE 0
             k == IF after >= n - kept THEN after ELSE n - kept
             skipped == {i \in DOMAIN s : s[i].seq <= after}
             m == afterFrames(replay, after)
  <1>1. s \in Seq(Retained) /\ n \in Nat /\ kept \in Nat /\ DOMAIN s = 1..kept
    BY DEF TypeOK
  <1>2. after \in Nat /\ after <= n
    BY <1>1
  <1>3. \A i \in 1..kept : s[i].seq = n - kept + i
    BY DEF ReplayExact
  <1>4. m = SubSeq(s, Cardinality(skipped) + 1, kept)
    BY DEF afterFrames, FramesAfter
  <1> HIDE DEF s, n, kept, m
  <1>5. c \in Nat /\ c <= kept /\ k \in Nat /\ k <= n /\ kept - c = n - k /\ n - kept + c = k
    BY <1>1, <1>2
  <1>6. skipped = 1..c
    <2>1. ASSUME NEW i \in 1..kept PROVE s[i].seq <= after <=> i \in 1..c
      <3>1. s[i].seq = n - kept + i
        BY <1>3
      <3>2. n - kept + i <= after <=> i \in 1..c
        BY <1>1, <1>2
      <3>. QED  BY <3>1, <3>2
    <2>2. \A i \in 1..c : i \in 1..kept
      BY <1>1, <1>5
    <2> HIDE DEF c
    <2>. QED  BY <1>1, <2>1, <2>2
  <1> HIDE DEF skipped
  <1>7. Cardinality(skipped) = c
    <2> HIDE DEF c
    <2>1. 1 \in Int /\ c \in Int
      BY <1>5
    <2>2. Cardinality(1..c) = IF 1 > c THEN 0 ELSE c - 1 + 1
      BY <2>1, FS_Interval
    <2>. QED  BY <1>5, <1>6, <2>2
  <1> HIDE DEF c, k
  <1>8. /\ m \in Seq(Retained) /\ Len(m) = kept - c
        /\ \A i \in 1..(kept - c) : m[i] = s[c + i]
    <2>1. c \in Nat /\ c <= Len(s) /\ m = SubSeq(s, c + 1, Len(s)) /\ Len(s) = kept
      BY <1>4, <1>5, <1>7 DEF kept
    <2>. QED  BY <1>1, <2>1, Dropped
  <1>9. ASSUME NEW i \in 1..(n - k) PROVE m[i].seq = k + i
    <2>1. c + i \in 1..kept /\ i \in Nat /\ i \in 1..(kept - c)
      BY <1>1, <1>5
    <2>2. m[i].seq = n - kept + (c + i)
      BY <1>3, <1>8, <2>1
    <2>. QED  BY <1>1, <1>5, <2>1, <2>2
  <1>10. k \in 0..n /\ Len(m) = n - k
    BY <1>1, <1>5, <1>8
  <1>. QED  BY <1>8, <1>9, <1>10 DEF s, n, kept, k, m

\* Frames that announce a connection, and perhaps that it resumes after frame k.
Announcing(s, k, n) ==
    /\ s \in Seq(Frame)
    /\ \A i \in 1..Len(s) : s[i].type \in {"attached", "replay_gap"}
    /\ ChunksFit => \A i \in Positions(s, "replay_gap") : s[i].seq = k + 1 /\ k + 1 <= n

\* All output from k + 1 to n.
Outputs(s, k, n) == s \in Seq(Frame) /\ Len(s) = n - k /\ \A i \in 1..(n - k) : s[i] = Output(k + i)

LEMMA ReplayedAfter ==
    ASSUME NEW n \in Nat, NEW k \in 0..n, NEW pre, Announcing(pre, k, n), NEW outs, Outputs(outs, k, n)
    PROVE  LET p == pre \o outs IN
           /\ p \in Seq(Frame) /\ Tidy(p, FALSE, FALSE) /\ Ending(p, n)
           /\ Numbers(p) = (k + 1)..n
           /\ Positions(p, "replay_gap") = Positions(pre, "replay_gap")
  <1> DEFINE p == pre \o outs
             d == Len(pre)
             l == n - k
  <1>0. /\ pre \in Seq(Frame) /\ outs \in Seq(Frame) /\ Len(outs) = n - k
        /\ \A i \in 1..Len(pre) : pre[i].type \in {"attached", "replay_gap"}
    BY DEF Announcing, Outputs
  <1>1. /\ p \in Seq(Frame) /\ d \in Nat /\ l \in Nat /\ k \in Nat /\ Len(p) = d + l /\ l = n - k
        /\ \A i \in 1..(d + l) : p[i] = IF i <= d THEN pre[i] ELSE outs[i - d]
    <2>1. d \in Nat /\ l \in Nat /\ k \in Nat /\ l = n - k
      BY <1>0
    <2>2. p \in Seq(Frame) /\ Len(p) = d + Len(outs)
      BY <1>0
    <2>3. \A i \in 1..(d + Len(outs)) : p[i] = IF i <= d THEN pre[i] ELSE outs[i - d]
      BY <1>0
    <2> HIDE DEF p, d, l
    <2>4. Len(outs) = l
      BY <1>0, <2>1
    <2>. QED  BY <2>1, <2>2, <2>3, <2>4
  <1>2. \A i \in 1..l : outs[i] = Output(k + i)
    BY DEF Outputs
  <1> HIDE DEF p, d, l
  <1>3. ASSUME NEW i \in 1..(d + l)
        PROVE  \/ i \in 1..d /\ p[i] = pre[i]
               \/ i - d \in 1..l /\ p[i] = Output(k + (i - d)) /\ i > d
    <2>1. CASE i <= d
      BY <1>1, <2>1
    <2>2. CASE ~(i <= d)
      <3>1. i - d \in 1..l /\ i > d
        BY <1>1, <2>2
      <3>. QED  BY <1>1, <1>2, <2>2, <3>1, Zenon
    <2>. QED  BY <2>1, <2>2
  <1>4. \A i \in 1..d : i \in 1..(d + l) /\ p[i] = pre[i] /\ pre[i].type \in {"attached", "replay_gap"}
    BY <1>0, <1>1 DEF d
  <1>5. ASSUME NEW j \in 1..l PROVE d + j \in 1..(d + l) /\ p[d + j] = Output(k + j)
    <2>1. d + j \in 1..(d + l) /\ ~(d + j <= d) /\ (d + j) - d = j
      BY <1>1
    <2>. QED  BY <1>1, <1>2, <2>1
  <1>6. \A m : Output(m).type = "output" /\ Output(m).seq = m
    BY DEF Output
  <1>7. \A i : i \in Positions(p, "output") <=> i \in 1..(d + l) /\ i > d
    <2>1. \A i : i \in Positions(p, "output") <=> i \in 1..(d + l) /\ p[i].type = "output"
      BY <1>1 DEF Positions
    <2>2. \A i \in 1..d : ~(i > d) /\ p[i].type # "output"
      BY <1>1, <1>4
    <2>. QED  BY <1>3, <1>6, <2>1, <2>2
  <1>8. Positions(p, "replay_gap") = Positions(pre, "replay_gap")
    <2>1. \A i : i \in Positions(p, "replay_gap") <=> i \in 1..(d + l) /\ p[i].type = "replay_gap"
      BY <1>1 DEF Positions
    <2>2. \A i : i \in Positions(pre, "replay_gap") <=> i \in 1..d /\ pre[i].type = "replay_gap"
      BY DEF Positions, d
    <2>3. \A i \in 1..(d + l) : (i \in 1..d /\ p[i] = pre[i]) \/ p[i].type = "output"
      BY <1>3, <1>6, Zenon
    <2>4. \A i \in 1..d : i \in 1..(d + l) /\ p[i] = pre[i]
      BY <1>4, Zenon
    <2>5. "output" # "replay_gap"
      OBVIOUS
    <2>6. ASSUME NEW i \in Positions(p, "replay_gap") PROVE i \in Positions(pre, "replay_gap")
      <3>1. i \in 1..(d + l) /\ p[i].type = "replay_gap"
        BY <2>1
      <3>2. i \in 1..d /\ p[i] = pre[i]
        BY <2>3, <2>5, <3>1, Zenon
      <3>. QED  BY <2>2, <3>1, <3>2
    <2>7. ASSUME NEW i \in Positions(pre, "replay_gap") PROVE i \in Positions(p, "replay_gap")
      BY <2>1, <2>2, <2>4, Zenon
    <2>. QED  BY <2>6, <2>7
  <1>9. Positions(p, "exit") = {}
    <2>1. \A i \in 1..(d + l) : p[i].type \in {"attached", "replay_gap"} \/ p[i].type = "output"
      BY <1>3, <1>4, <1>6, Zenon
    <2>2. \A i : i \in Positions(p, "exit") <=> i \in 1..(d + l) /\ p[i].type = "exit"
      BY <1>1 DEF Positions
    <2>3. \A i : i \notin Positions(p, "exit")
      BY <2>1, <2>2
    <2>. QED  BY <2>3
  <1>10. \A i \in Positions(p, "output") : p[i].seq = k + (i - d) /\ i - d \in 1..l
    <2> SUFFICES ASSUME NEW i \in Positions(p, "output")
                 PROVE  p[i].seq = k + (i - d) /\ i - d \in 1..l
      OBVIOUS
    <2>1. i \in 1..(d + l) /\ i > d
      BY <1>7
    <2>2. ~(i \in 1..d)
      BY <1>1, <2>1
    <2>3. i - d \in 1..l /\ p[i] = Output(k + (i - d))
      BY <1>3, <2>1, <2>2, Zenon
    <2>. QED  BY <1>6, <2>3, Zenon
  <1>11. Numbers(p) = (k + 1)..n
    <2>1. ASSUME NEW i \in Positions(p, "output") PROVE p[i].seq \in (k + 1)..n
      <3>1. p[i].seq = k + (i - d) /\ i - d \in 1..l
        BY <1>10
      <3> DEFINE j == i - d
      <3> HIDE DEF j
      <3>2. j \in 1..l => k + j \in (k + 1)..n
        BY <1>1
      <3>. QED  BY <3>1, <3>2 DEF j
    <2>2. ASSUME NEW m \in (k + 1)..n PROVE m \in Numbers(p)
      <3>1. m - k \in 1..l /\ k + (m - k) = m
        BY <1>1
      <3>2. d + (m - k) \in 1..(d + l) /\ p[d + (m - k)] = Output(m) /\ d + (m - k) > d
        <4>1. d + (m - k) \in 1..(d + l) /\ p[d + (m - k)] = Output(k + (m - k))
          BY <1>5, <3>1
        <4>2. d + (m - k) > d
          BY <1>1, <3>1
        <4>. QED  BY <3>1, <4>1, <4>2
      <3>. QED  BY <1>6, <1>7, <3>2 DEF Numbers
    <2>. QED  BY <2>1, <2>2 DEF Numbers
  <1>12. Tidy(p, FALSE, FALSE)
    BY <1>9 DEF Tidy
  <1>13. Ending(p, n)
    <2>1. ASSUME NEW i \in Positions(p, "output"), NEW j \in Positions(p, "output"), i < j
          PROVE  p[i].seq < p[j].seq
      <3>1. i \in Nat /\ j \in Nat
        BY <1>1, <1>7
      <3>2. p[i].seq = k + (i - d) /\ p[j].seq = k + (j - d)
        BY <1>10
      <3>3. k + (i - d) < k + (j - d)
        BY <1>1, <2>1, <3>1
      <3>. QED  BY <3>2, <3>3
    <2>2. k + 1 \in 1..(n + 1)
      BY <1>1
    <2>3. ASSUME NEW i \in Positions(p, "replay_gap"), NEW j \in Positions(p, "output") PROVE i < j
      <3>1. j \in 1..(d + l) /\ j > d
        BY <1>7
      <3>2. i \in Positions(pre, "replay_gap")
        BY <1>8
      <3>3. i \in 1..d
        BY <3>2 DEF Positions, d
      <3>. QED  BY <1>1, <3>1, <3>3
    <2>4. ASSUME ChunksFit, NEW i \in Positions(p, "replay_gap")
          PROVE  p[i].seq <= n /\ Numbers(p) = (p[i].seq)..n
      <3>1. i \in Positions(pre, "replay_gap") /\ i \in 1..d
        BY <1>8 DEF Positions, d
      <3>2. p[i].seq = k + 1 /\ k + 1 <= n
        BY <1>4, <2>4, <3>1 DEF Announcing
      <3>. QED  BY <1>11, <3>2
    <2>. QED  BY <1>11, <2>1, <2>2, <2>3, <2>4 DEF Ending
  <1>. QED  BY <1>1, <1>8, <1>11, <1>12, <1>13 DEF p

\* What attach prepares is a stream like any other, whatever the cursor it is asked for.
LEMMA InitialStream ==
    ASSUME TypeOK, ReplayExact, NewestKept, NEW h \in HubState, NEW a \in Attachments,
           NEW after \in Nat \cup {NoCursor}, after <= replay.latest
    PROVE  LET p == InitialFrames(h, a, after)
               c == IF after = NoCursor THEN replay.latest ELSE after
           IN  /\ p \in Seq(Frame) /\ Tidy(p, FALSE, h.exit)
               /\ Ending(p, replay.latest) /\ Reaches(p, c, replay.latest)
               /\ h.exit => Positions(p, "exit") # {}
  <1> DEFINE n == replay.latest
             s == replay.frames
             kept == Len(s)
             reach == IF after >= n - kept THEN after ELSE n - kept
             k == IF after = NoCursor THEN n ELSE reach
             missed == IF after = NoCursor THEN << >> ELSE afterFrames(replay, after)
             outs == [i \in DOMAIN missed |-> Output(missed[i].seq)]
             lost == after # NoCursor /\ afterGap(replay, after)
             g == ReplayGap(earliest(replay))
             gap == IF lost THEN <<g>> ELSE << >>
             exit == IF h.exit THEN <<Simple("exit")>> ELSE << >>
             f == Attached(h.leaseID[a])
             pre == <<f>> \o gap
             q == pre \o outs
             c == IF after = NoCursor THEN n ELSE after
  <1>0. n \in Nat /\ s \in Seq(Retained) /\ kept \in Nat /\ (s = << >> <=> kept = 0)
    BY DEF TypeOK
  <1>1. /\ k \in 0..n /\ missed \in Seq(Retained) /\ Len(missed) = n - k
        /\ \A i \in 1..(n - k) : missed[i].seq = k + i
    <2>1. CASE after = NoCursor
      <3>1. k = n /\ missed = << >> /\ n - k = 0
        BY <1>0, <2>1
      <3> HIDE DEF k, missed
      <3>2. << >> \in Seq(Retained) /\ Len(<< >>) = 0 /\ \A i \in 1..0 : FALSE
        OBVIOUS
      <3>. QED  BY <1>0, <3>1, <3>2
    <2>2. CASE after # NoCursor
      <3>1. after \in 0..replay.latest
        BY <1>0, <2>2
      <3>2. /\ reach \in 0..n
            /\ afterFrames(replay, after) \in Seq(Retained) /\ Len(afterFrames(replay, after)) = n - reach
            /\ \A i \in 1..(n - reach) : afterFrames(replay, after)[i].seq = reach + i
        BY <3>1, Missed
      <3>3. k = reach /\ missed = afterFrames(replay, after)
        BY <2>2
      <3> HIDE DEF k, reach, missed
      <3>. QED  BY <3>2, <3>3
    <2>. QED  BY <2>1, <2>2
  <1>2. outs \in Seq(Frame) /\ Len(outs) = n - k /\ \A i \in 1..(n - k) : outs[i] = Output(k + i)
    <2> HIDE DEF missed, k, n
    <2>1. \A i \in 1..Len(missed) : missed[i].seq \in Nat
      <3>1. \A i \in 1..Len(missed) : missed[i] \in Retained
        BY <1>1
      <3>. QED  BY <3>1 DEF Retained
    <2>2. \A m \in Nat : Output(m) \in Frame
      BY DEF Output, Frame, FrameTypes
    <2>3. DOMAIN missed = 1..Len(missed) /\ Len(missed) \in Nat
      BY <1>1
    <2>4. outs = [i \in 1..Len(missed) |-> Output(missed[i].seq)]
      BY <2>3
    <2>5. outs \in Seq(Frame) /\ Len(outs) = Len(missed)
      <3> DEFINE l == Len(missed)
                 F(i) == Output(missed[i].seq)
      <3>1. l \in Nat /\ \A i \in 1..l : F(i) \in Frame
        BY <2>1, <2>2, <2>3
      <3> HIDE DEF l, F
      <3>2. [i \in 1..l |-> F(i)] \in Seq(Frame) /\ Len([i \in 1..l |-> F(i)]) = l
        BY <3>1
      <3>. QED  BY <2>4, <3>2 DEF l, F
    <2>6. \A i \in 1..Len(missed) : outs[i] = Output(missed[i].seq)
      BY <2>4
    <2> HIDE DEF outs
    <2>. QED  BY <1>1, <2>5, <2>6
  <1>3. /\ lost => k # after /\ after # NoCursor
        /\ ~lost /\ after # NoCursor => k = after
        /\ lost /\ ChunksFit => earliest(replay) = k + 1 /\ k + 1 <= n
        /\ earliest(replay) \in Nat
    <2>1. s # << >> => s[1].seq = n - kept + 1 /\ s[1].seq \in Nat /\ kept >= 1
      <3>1. s # << >> => s[1] \in Retained /\ 1 \in 1..kept
        BY <1>0
      <3>2. \A i \in 1..kept : s[i].seq = n - kept + i
        BY DEF ReplayExact
      <3>. QED  BY <1>0, <3>1, <3>2 DEF Retained
    <2>2. lost <=> after # NoCursor /\ IF s = << >> THEN after < n ELSE after + 1 < s[1].seq
      BY DEF afterGap
    <2>3. earliest(replay) = IF s = << >> THEN n ELSE s[1].seq
      BY DEF earliest
    <2>4. ChunksFit /\ n # 0 => s # << >>
      BY DEF NewestKept
    <2>5. after # NoCursor => after \in Nat /\ k = reach
      OBVIOUS
    <2>6. after = NoCursor => ~lost
      OBVIOUS
    <2> HIDE DEF s, n, kept, lost
    <2>7. CASE after = NoCursor
      BY <1>0, <2>1, <2>3, <2>6, <2>7
    <2>8. CASE after # NoCursor /\ s = << >>
      BY <1>0, <2>2, <2>3, <2>4, <2>5, <2>8 DEF n
    <2>9. CASE after # NoCursor /\ s # << >>
      BY <1>0, <2>1, <2>2, <2>3, <2>5, <2>9
    <2>. QED  BY <2>7, <2>8, <2>9
  <1>4. /\ f \in Frame /\ f.type = "attached" /\ g \in Frame /\ g.type = "replay_gap"
        /\ g.seq = earliest(replay)
    BY <1>3 DEF Attached, ReplayGap, Frame, FrameTypes, HubState
  <1> HIDE DEF f, g, k, n, s, kept, reach, lost, outs, missed
  <1>5. /\ pre \in Seq(Frame)
        /\ \A i \in 1..Len(pre) : pre[i].type \in {"attached", "replay_gap"}
        /\ \A i \in Positions(pre, "replay_gap") : pre[i] = g
        /\ Positions(pre, "replay_gap") = {} <=> ~lost
    <2>0. <<f>> \in Seq(Frame) /\ Len(<<f>>) = 1 /\ <<f>>[1] = f
      BY <1>4
    <2>1. CASE lost
      <3>1. gap = <<g>>
        BY <2>1
      <3>2. <<g>> \in Seq(Frame) /\ Len(<<g>>) = 1 /\ <<g>>[1] = g
        BY <1>4
      <3> HIDE DEF gap
      <3>3. Len(pre) = 2 /\ pre[1] = f /\ pre[2] = g /\ pre \in Seq(Frame)
        <4> DEFINE u == <<f>>
        <4>1. u \in Seq(Frame) /\ Len(u) = 1 /\ u[1] = f
          BY <2>0
        <4>2. pre = u \o gap /\ gap \in Seq(Frame) /\ Len(gap) = 1 /\ gap[1] = g
          BY <3>1, <3>2
        <4> HIDE DEF u, pre, gap
        <4>3. /\ pre \in Seq(Frame) /\ Len(pre) = Len(u) + Len(gap)
              /\ \A i \in 1..(Len(u) + Len(gap)) : pre[i] = IF i <= Len(u) THEN u[i] ELSE gap[i - Len(u)]
          <5>1. pre = u \o gap /\ u \in Seq(Frame) /\ gap \in Seq(Frame)
            BY <4>1, <4>2
          <5>2. pre \in Seq(Frame) /\ Len(pre) = Len(u) + Len(gap)
            BY <5>1
          <5>3. \A i \in 1..(Len(u) + Len(gap)) : pre[i] = IF i <= Len(u) THEN u[i] ELSE gap[i - Len(u)]
            BY <5>1
          <5>. QED  BY <5>2, <5>3
        <4>4. /\ 1 \in 1..(Len(u) + Len(gap)) /\ 1 <= Len(u) /\ Len(pre) = 2
              /\ 2 \in 1..(Len(u) + Len(gap)) /\ ~(2 <= Len(u)) /\ 2 - Len(u) = 1
          BY <4>1, <4>2, <4>3
        <4>. QED  BY <4>1, <4>2, <4>3, <4>4
      <3> HIDE DEF pre
      <3>4. \A i \in 1..2 : i = 1 \/ i = 2
        OBVIOUS
      <3>5. \A i : i \in Positions(pre, "replay_gap") <=> i \in 1..2 /\ pre[i].type = "replay_gap"
        BY <3>3 DEF Positions
      <3>6. \A i \in Positions(pre, "replay_gap") : pre[i] = g
        BY <1>4, <3>3, <3>4, <3>5
      <3>7. 2 \in Positions(pre, "replay_gap")
        BY <1>4, <3>3, <3>5
      <3>. QED  BY <1>4, <2>1, <3>3, <3>4, <3>6, <3>7
    <2>2. CASE ~lost
      <3>1. pre = <<f>>
        BY <2>2
      <3>2. Len(<<f>>) = 1 /\ <<f>>[1] = f /\ <<f>> \in Seq(Frame)
        BY <1>4
      <3> HIDE DEF pre
      <3>3. Len(pre) = 1 /\ pre[1] = f /\ pre \in Seq(Frame)
        BY <3>1, <3>2
      <3>4. \A i \in 1..1 : i = 1
        OBVIOUS
      <3>5. Positions(pre, "replay_gap") = {}
        BY <1>4, <3>3, <3>4 DEF Positions
      <3>. QED  BY <1>4, <2>2, <3>3, <3>4, <3>5
    <2>. QED  BY <2>1, <2>2
  <1> HIDE DEF pre
  <1>6. /\ q \in Seq(Frame) /\ Tidy(q, FALSE, FALSE) /\ Ending(q, n) /\ Numbers(q) = (k + 1)..n
        /\ Positions(q, "replay_gap") = Positions(pre, "replay_gap")
    <2>1. ASSUME ChunksFit, NEW i \in Positions(pre, "replay_gap")
          PROVE  pre[i].seq = k + 1 /\ k + 1 <= n
      BY <1>3, <1>4, <1>5, <2>1
    <2>2. Announcing(pre, k, n)
      BY <1>5, <2>1 DEF Announcing
    <2>3. Outputs(outs, k, n)
      BY <1>2 DEF Outputs
    <2>4. n \in Nat /\ k \in 0..n
      BY <1>0, <1>1
    <2>. QED  BY <2>2, <2>3, <2>4, ReplayedAfter, Zenon
  <1> HIDE DEF q
  <1>7. Reaches(q, c, n)
    <2>1. c \in 0..n /\ c # NoCursor
      BY <1>0 DEF NoCursor, n
    <2>2. ASSUME Positions(q, "replay_gap") = {} PROVE Numbers(q) = (c + 1)..n
      <3>1. ~lost
        BY <1>5, <1>6, <2>2
      <3>2. k = c
        BY <1>3, <3>1 DEF k
      <3>. QED  BY <1>6, <3>2
    <2>. QED  BY <2>1, <2>2 DEF Reaches
  <1>8. InitialFrames(h, a, after) = q \o exit
    BY DEF InitialFrames, q, pre, f, gap, g, lost, outs, missed
  <1>9. CASE h.exit
    <2> DEFINE x == Simple("exit")
               p == Append(q, x)
    <2>1. x \in Frame
      BY SimpleFrame DEF FrameTypes
    <2> HIDE DEF x
    <2>2. p = q \o <<x>> /\ p \in Seq(Frame)
      BY <1>6, <2>1
    <2>3. p = InitialFrames(h, a, after)
      BY <1>8, <1>9, <2>2 DEF x
    <2>4. /\ Tidy(p, FALSE, TRUE) /\ Positions(p, "exit") # {}
          /\ Same(q, p, {"output", "replay_gap"})
      BY <1>6, ExitAdded DEF x
    <2> HIDE DEF p
    <2>5. Ending(p, n) /\ Reaches(p, c, n)
      BY <1>6, <1>7, <2>4, SameEnding
    <2>6. Tidy(p, FALSE, h.exit)
      BY <1>9, <2>4 DEF Tidy
    <2>. QED  BY <2>2, <2>3, <2>4, <2>5, <2>6 DEF n
  <1>10. CASE ~h.exit
    <2>1. InitialFrames(h, a, after) = q
      <3>1. q \o << >> = q
        BY <1>6
      <3>. QED  BY <1>8, <1>10, <3>1
    <2>2. Tidy(q, FALSE, h.exit)
      BY <1>6, <1>10 DEF Tidy
    <2>. QED  BY <1>6, <1>7, <1>10, <2>1, <2>2 DEF n
  <1>. QED  BY <1>9, <1>10
-----------------------------------------------------------------------------
(* The steps.                                                              *)

\* The newest frame is retained, and a connection that is down has no writer.
LEMMA NextKept ==
    ASSUME IInv, ReplayExact, NewestKept, DownQuiet, [Next]_vars
    PROVE  NewestKept' /\ DownQuiet'
  <1> USE DEF procVars, handlerVars
  <1>0. TypeOK
    BY DEF IInv
  <1>1. ASSUME UNCHANGED <<replay, handlerVars>> PROVE NewestKept' /\ DownQuiet'
    BY <1>1 DEF NewestKept, DownQuiet
  <1>2. CASE ProcessNext
    <2>1. ASSUME NEW size \in Sizes, publishOutput(size) PROVE NewestKept' /\ DownQuiet'
      <3>1. ChunksFit => replay'.frames # << >>
        BY <2>1, PublishedReplay DEF ChunksFit
      <3>. QED  BY <2>1, <3>1 DEF publishOutput, NewestKept, DownQuiet
    <2>2. ProcessNext => UNCHANGED <<replay, handlerVars>> \/ \E size \in Sizes : publishOutput(size)
      BY Zenon DEF ProcessNext, Start, setProcess, wait, publishExit, terminate, GraceExpires,
         TerminateReturns, LeaseTimeout, ReapLease
    <2>. QED  BY <1>1, <1>2, <2>1, <2>2
  <1>3. ASSUME NEW a \in Attachments, AttachmentNext(a) PROVE NewestKept' /\ DownQuiet'
    \* What a handler leaves alone.
    <2>1. ASSUME UNCHANGED <<initial, conn, view>>, pc[a] # "idle" \/ pc'[a] # "idle",
                 \/ pc' = pc \/ \E x \in {"gone", "reading", "closing", "calling", "reply"} : pc' = [pc EXCEPT ![a] = x]
          PROVE  DownQuiet'
      <3>1. \A b \in Attachments : pc'[b] = "idle" => pc[b] = "idle"
        BY <1>0, <2>1 DEF TypeOK
      <3>. QED  BY <2>1, <3>1 DEF DownQuiet
    <2>2. CASE AttachRejected(a) \/ detach(a) \/ \E r \in {"control", "observe"}, after \in NoCursor..(replay.latest + 1), take \in BOOLEAN : AttachFails(a, r, after, take)
      BY <1>0, <2>1, <2>2 DEF AttachRejected, detach, AttachFails, TypeOK, NewestKept
    <2>3. CASE \/ Malformed(a) \/ Unsupported(a) \/ takeover(a) \/ Pong(a) \/ Ping(a) \/ send(a)
               \/ \E l \in 1..hub.issued : writeInput(a, l)
               \/ \E ok \in BOOLEAN : writeReturns(a, ok)
               \/ \E n \in 0..(replay.latest + 1) : acknowledge(a, n)
      <3>1. /\ UNCHANGED <<replay, initial, conn, view>> /\ pc[a] \in {"reading", "calling", "reply"}
            /\ \/ pc' = pc
               \/ \E x \in {"gone", "reading", "closing", "calling", "reply"} : pc' = [pc EXCEPT ![a] = x]
        BY <2>3 DEF Malformed, Unsupported, takeover, Pong, Ping, send, writeInput, writeReturns,
                    acknowledge, Handles, Answers
      <3>. QED  BY <2>1, <3>1 DEF NewestKept
    <2>4. ASSUME NEW r \in {"control", "observe"}, NEW after \in NoCursor..(replay.latest + 1),
                 NEW take \in BOOLEAN, attach(a, r, after, take)
          PROVE  NewestKept' /\ DownQuiet'
      <3>1. /\ pc' = [pc EXCEPT ![a] = "reading"] /\ conn' = [conn EXCEPT ![a] = "up"]
            /\ \E s : initial' = [initial EXCEPT ![a] = s]
            /\ \E v : view' = [view EXCEPT ![a] = v]
            /\ replay' = replay
        BY <2>4, Zenon DEF attach
      <3>2. /\ pc'[a] = "reading" /\ conn'[a] = "up"
            /\ \A b \in Attachments \ {a} : pc'[b] = pc[b] /\ conn'[b] = conn[b]
                                         /\ initial'[b] = initial[b] /\ view'[b] = view[b]
        BY <1>0, <3>1 DEF TypeOK
      <3>. QED  BY <3>1, <3>2 DEF NewestKept, DownQuiet
    <2>5. CASE Disconnect(a)
      <3>1. /\ pc' = pc /\ conn' = [conn EXCEPT ![a] = "down"]
            /\ initial' = [initial EXCEPT ![a] = << >>] /\ view' = [view EXCEPT ![a] = NoView]
            /\ replay' = replay
        BY <2>5 DEF Disconnect
      <3>2. /\ conn'[a] = "down" /\ initial'[a] = << >> /\ view'[a] = NoView
            /\ \A b \in Attachments \ {a} : conn'[b] = conn[b] /\ initial'[b] = initial[b]
                                         /\ view'[b] = view[b]
        BY <1>0, <3>1 DEF TypeOK
      <3>. QED  BY <3>1, <3>2 DEF NewestKept, DownQuiet
    <2>6. CASE WriteInitial(a) \/ WriteQueued(a)
      <3>1. /\ conn[a] = "up" /\ pc' = pc /\ conn' = conn /\ replay' = replay
            /\ initial' = initial \/ \E s : initial' = [initial EXCEPT ![a] = s]
            /\ \E v : view' = [view EXCEPT ![a] = v]
        BY <2>6, Zenon DEF WriteInitial, WriteQueued
      <3>2. \A b \in Attachments \ {a} : initial'[b] = initial[b] /\ view'[b] = view[b]
        BY <1>0, <3>1 DEF TypeOK
      <3>. QED  BY <3>1, <3>2 DEF NewestKept, DownQuiet
    <2>. QED  BY <1>3, <2>2, <2>3, <2>4, <2>5, <2>6
         DEF AttachmentNext, ConnectionLost, SeesDone, WriteReason
  <1>4. CASE UNCHANGED vars
    BY <1>1, <1>4 DEF vars
  <1>. QED  BY <1>2, <1>3, <1>4 DEF Next

\* What a step has to show for an attachment that it sends nothing of output or exit.
LEMMA MutedStep ==
    ASSUME IInv, NEW b \in Attachments, Fed(b), hub' \in HubState, MutesTo(hub, hub', b),
           initial'[b] = initial[b], view'[b] = view[b], conn'[b] = "up" => conn[b] = "up",
           replay' = replay
    PROVE  Fed(b)'
  <1> DEFINE p == initial[b] \o hub.queue[b]
             g == initial[b] \o hub'.queue[b]
  <1>1. /\ initial[b] \in Seq(Frame) /\ hub.queue[b] \in Seq(Frame) /\ hub'.queue[b] \in Seq(Frame)
        /\ MuteGrowth(hub.queue[b], hub'.queue[b])
    BY DEF IInv, TypeOK, HubState, MutesTo
  <1>2. Pipeline(b) = p /\ Pipeline(b)' = g
    BY DEF Pipeline
  <1>3. Same(p, g, {"output", "replay_gap", "exit"})
    BY <1>1, MuteAdds
  <1> HIDE DEF p, g
  <1>4. /\ Same(p, g, {"output", "replay_gap"}) /\ Positions(g, "exit") = Positions(p, "exit")
        /\ Tidy(p, view[b].exited, hub.exit) => Tidy(g, view[b].exited, hub.exit)
    BY <1>3, SameTidy
  <1>5. hub'.exit = hub.exit
    BY DEF MutesTo
  <1>6. Tidy(g, view[b].exited, hub.exit)
    BY <1>2, <1>4 DEF Fed
  <1>7. ASSUME b \in Served' PROVE Flowing(g, view[b], replay.latest, hub.exit)
    <2>1. b \in Served
      BY <1>7 DEF Served, MutesTo
    <2>2. Flowing(p, view[b], replay.latest, hub.exit)
      BY <1>2, <2>1 DEF Fed
    <2>. QED  BY <1>4, <2>2, SameEnding DEF Flowing
  <1>. QED  BY <1>2, <1>5, <1>6, <1>7 DEF Fed

\* A frame of output is published while the exit is not recorded.
LEMMA OutputStep ==
    ASSUME IInv, ReplayExact, ExitRecorded, \A a \in Attachments : Fed(a),
           NEW size \in Sizes, publishOutput(size), NEW b \in Attachments
    PROVE  Fed(b)'
  <1> DEFINE n == replay.latest
             f == Output(n + 1)
             g == broadcastLocked(hub, f)
             q == hub.queue[b]
             p == initial[b] \o q
             w == initial[b] \o Append(q, f)
  <1>0. /\ hub \in HubState /\ n \in Nat /\ f \in Frame
        /\ initial[b] \in Seq(Frame) /\ q \in Seq(Frame)
    <2>1. hub \in HubState /\ n \in Nat /\ initial[b] \in Seq(Frame)
      BY DEF IInv, HubOK, TypeOK
    <2>2. q \in Seq(Frame)
      BY <2>1 DEF HubState
    <2>3. f \in Frame
      BY <2>1 DEF Output, Frame, FrameTypes
    <2>. QED  BY <2>1, <2>2, <2>3
  <1>1. /\ hub' = g /\ initial' = initial /\ view' = view /\ conn' = conn /\ proc = "running"
        /\ replay'.latest = n + 1
    BY PublishedReplay DEF publishOutput, handlerVars, TerminalOpen
  <1>2. /\ g.exit = hub.exit
        /\ IF b \in g.subscribers THEN b \in hub.subscribers /\ g.queue[b] = Append(q, f)
                                  ELSE g.queue[b] = q
    <2> HIDE DEF f
    <2>. QED  BY <1>0, BroadcastSends
  <1>3. hub.exit = FALSE
    <2>1. hub.exit \in BOOLEAN /\ ~hub.exit
      BY <1>0, <1>1 DEF HubState, ExitRecorded
    <2>. QED  BY <2>1
  <1>4. Tidy(p, view[b].exited, FALSE) /\ (b \in Served => Flowing(p, view[b], n, FALSE))
    <2>1. Fed(b)
      OBVIOUS
    <2>. QED  BY <1>3, <2>1 DEF Fed, Pipeline
  <1>5. w = Append(p, f) /\ p \in Seq(Frame)
    <2> DEFINE i == initial[b]
    <2>1. i \in Seq(Frame) /\ q \in Seq(Frame) /\ f \in Frame
      BY <1>0
    <2>2. p = i \o q /\ w = i \o Append(q, f)
      OBVIOUS
    <2> HIDE DEF f, q, p, w, i
    <2>3. i \o q \in Seq(Frame) /\ i \o Append(q, f) = Append(i \o q, f)
      BY <2>1, PipelineMoves
    <2>. QED  BY <2>2, <2>3, Zenon
  <1>6. /\ Tidy(w, view[b].exited, FALSE)
        /\ Ending(p, n) => Ending(w, n + 1)
        /\ Ending(p, n) /\ Reaches(p, view[b].cursor, n) => Reaches(w, view[b].cursor, n + 1)
    <2> DEFINE v == Append(p, Output(n + 1))
    <2>1. v = w
      BY <1>5
    <2> HIDE DEF p, n, w
    <2>2. /\ Tidy(v, view[b].exited, FALSE)
          /\ Ending(p, n) => Ending(v, n + 1)
          /\ Ending(p, n) /\ Reaches(p, view[b].cursor, n) => Reaches(v, view[b].cursor, n + 1)
      BY <1>0, <1>4, <1>5, OutputAdded
    <2> HIDE DEF v
    <2>. QED  BY <2>1, <2>2
  <1> HIDE DEF f, g, p, w, n
  <1>7. CASE b \in g.subscribers
    <2>1. Pipeline(b)' = w
      BY <1>1, <1>2, <1>7 DEF Pipeline, w
    <2>2. ASSUME b \in Served' PROVE Flowing(w, view[b], n + 1, FALSE)
      <3>1. b \in Served
        BY <1>1, <1>2, <1>7, <2>2 DEF Served
      <3>. QED  BY <1>4, <1>6, <3>1 DEF Flowing
    <2>3. hub'.exit = FALSE
      BY <1>1, <1>2, <1>3
    <2>. QED  BY <1>1, <1>6, <2>1, <2>2, <2>3 DEF Fed
  <1>8. CASE b \notin g.subscribers
    <2>1. Pipeline(b)' = p /\ b \notin Served'
      BY <1>1, <1>2, <1>8 DEF Pipeline, p, Served
    <2>2. hub'.exit = FALSE
      BY <1>1, <1>2, <1>3
    <2>. QED  BY <1>1, <1>4, <2>1, <2>2 DEF Fed
  <1>. QED  BY <1>7, <1>8

\* The exit is published: the lease revoked, which mutes nothing, then the exit told.
LEMMA ExitStep ==
    ASSUME IInv, ExitRecorded, \A a \in Attachments : Fed(a), publishExit
    PROVE  ExitRecorded' /\ \A b \in Attachments : Fed(b)'
  <1> DEFINE f == Simple("exit")
             h == [hub EXCEPT !.state = "exited", !.exit = TRUE]
             r == revokeControllerLocked(h)
             g == broadcastLocked(r, f)
  <1>0. HubOK(hub) /\ hub \in HubState /\ f \in Frame
    BY SimpleFrame DEF IInv, HubOK, FrameTypes
  <1>1. /\ initial' = initial /\ view' = view /\ conn' = conn /\ replay' = replay
        /\ proc = "exited" /\ proc' = "done"
        /\ hub' = IF hub.exit THEN hub ELSE g
    BY DEF publishExit, handlerVars
  <1>2. ~hub.exit /\ hub.exit = FALSE
    BY <1>0, <1>1 DEF HubState, ExitRecorded
  <1>3. /\ h \in HubState /\ h.exit = TRUE /\ h.state = "exited"
        /\ h.queue = hub.queue /\ h.subscribers = hub.subscribers
        /\ h.controller = hub.controller /\ h.issued = hub.issued
        /\ h.role = hub.role /\ h.leaseID = hub.leaseID
    BY <1>0 DEF HubState
  <1>4. hub' = g
    BY <1>1, <1>2
  <1> HIDE DEF h, f
  <1>5. HubOK(h)
    BY <1>0, <1>3 DEF HubOK, QueuesFit, ControllerNewest, Agrees
  <1>6. HubOK(r) /\ r \in HubState /\ r.exit = TRUE /\ r.state = "exited"
    <2>1. HubOK(r) /\ r.exit = h.exit /\ r.state = h.state
      BY <1>5, RevokeOK, RevokeExit
    <2> HIDE DEF r
    <2>. QED  BY <1>3, <2>1 DEF HubOK
  <1>7. \A b \in Attachments : MutesTo(h, r, b)
    BY <1>5, RevokeMutes
  <1> HIDE DEF r
  <1>8. /\ g.exit = TRUE /\ g.state = "exited"
        /\ \A b \in Attachments :
              IF b \in g.subscribers THEN b \in r.subscribers /\ g.queue[b] = Append(r.queue[b], f)
                                    ELSE g.queue[b] = r.queue[b]
    BY <1>0, <1>6, BroadcastSends
  <1> HIDE DEF g
  <1>9. ASSUME NEW b \in Attachments PROVE Fed(b)'
    <2> DEFINE q == r.queue[b]
               p == initial[b] \o hub.queue[b]
               s == initial[b] \o q
               w == initial[b] \o Append(q, f)
    <2>1. /\ initial[b] \in Seq(Frame) /\ hub.queue[b] \in Seq(Frame) /\ q \in Seq(Frame)
      BY <1>0, <1>6 DEF IInv, TypeOK, HubState
    <2>2. Tidy(p, view[b].exited, FALSE) /\ (b \in Served => Flowing(p, view[b], replay.latest, FALSE))
      <3>1. Fed(b)
        OBVIOUS
      <3>. QED  BY <1>2, <3>1 DEF Fed, Pipeline
    <2>3. Same(p, s, {"output", "replay_gap", "exit"})
      <3>1. MuteGrowth(hub.queue[b], q)
        BY <1>3, <1>7 DEF MutesTo
      <3> HIDE DEF q
      <3>. QED  BY <2>1, <3>1, MuteAdds
    <2>4. w = Append(s, f) /\ s \in Seq(Frame)
      <3> DEFINE i == initial[b]
      <3>1. i \in Seq(Frame) /\ q \in Seq(Frame) /\ f \in Frame
        BY <1>0, <2>1
      <3>2. s = i \o q /\ w = i \o Append(q, f)
        OBVIOUS
      <3> HIDE DEF q, s, w, i
      <3>3. i \o q \in Seq(Frame) /\ i \o Append(q, f) = Append(i \o q, f)
        BY <3>1, PipelineMoves
      <3>. QED  BY <3>2, <3>3, Zenon
    <2> HIDE DEF p, s, w
    <2>5. Tidy(s, view[b].exited, FALSE) /\ Same(p, s, {"output", "replay_gap"})
      BY <2>2, <2>3, SameTidy
    <2>6. /\ Tidy(s, view[b].exited, TRUE) /\ Tidy(w, view[b].exited, TRUE)
          /\ Positions(w, "exit") # {} /\ Same(s, w, {"output", "replay_gap"})
      BY <2>4, <2>5, ExitAdded DEF f
    <2>7. CASE b \in g.subscribers
      <3>1. Pipeline(b)' = w
        BY <1>1, <1>4, <1>8, <2>7 DEF Pipeline, w
      <3>2. ASSUME b \in Served' PROVE Flowing(w, view[b], replay.latest, TRUE)
        <4>1. b \in r.subscribers /\ MutesTo(h, r, b) /\ conn[b] = "up"
          BY <1>1, <1>4, <1>7, <1>8, <2>7, <3>2 DEF Served
        <4>2. b \in Served
          BY <1>3, <4>1 DEF MutesTo, Served
        <4>3. Ending(s, replay.latest) /\ Reaches(s, view[b].cursor, replay.latest)
          BY <2>2, <2>5, <4>2, SameEnding DEF Flowing
        <4>4. Ending(w, replay.latest) /\ Reaches(w, view[b].cursor, replay.latest)
          BY <2>6, <4>3, SameEnding
        <4>. QED  BY <2>6, <4>4 DEF Flowing
      <3>3. hub'.exit = TRUE
        BY <1>4, <1>8
      <3>. QED  BY <1>1, <2>6, <3>1, <3>2, <3>3 DEF Fed
    <2>8. CASE b \notin g.subscribers
      <3>1. Pipeline(b)' = s /\ b \notin Served'
        BY <1>1, <1>4, <1>8, <2>8 DEF Pipeline, s, Served
      <3>2. hub'.exit = TRUE
        BY <1>4, <1>8
      <3>. QED  BY <1>1, <2>6, <3>1, <3>2 DEF Fed
    <2>. QED  BY <2>7, <2>8
  <1>10. ExitRecorded'
    BY <1>1, <1>4, <1>8 DEF ExitRecorded
  <1>. QED  BY <1>9, <1>10

\* handleClientFrame, hub.send, the return of a PTY call and a refused attachment: whatever
\* they send is mute.
LEMMA HandlerMutes ==
    ASSUME IInv, Known, NEW a \in Attachments, NEW b \in Attachments,
           \/ AttachRejected(a)
           \/ \E r \in {"control", "observe"}, after \in NoCursor..(replay.latest + 1), take \in BOOLEAN :
                 AttachFails(a, r, after, take)
           \/ Malformed(a) \/ Unsupported(a) \/ takeover(a) \/ Pong(a) \/ Ping(a) \/ send(a)
           \/ \E l \in 1..hub.issued : writeInput(a, l)
           \/ \E ok \in BOOLEAN : writeReturns(a, ok)
           \/ \E n \in 0..(replay.latest + 1) : acknowledge(a, n)
    PROVE  MutesTo(hub, hub', b) /\ UNCHANGED <<replay, proc, initial, conn, view>>
  <1> USE DEF procVars, handlerVars
  <1>0. HubOK(hub) /\ hub \in HubState
    BY DEF IInv, HubOK
  <1>s. MutesTo(hub, hub, b)
    BY <1>0, SameMutes
  <1>t. MutesTo(hub, Touched(hub, a), b)
    BY <1>0, LeaseMutes
  <1>e. MutesTo(hub, expireControllerLocked(hub), b)
    BY <1>0, RevokeMutes
  <1>1. CASE AttachRejected(a) \/ Malformed(a)
    BY <1>s, <1>1 DEF AttachRejected, Malformed
  <1>2. CASE Pong(a) \/ Ping(a)
    BY <1>t, <1>2 DEF Pong, Ping
  <1>3. ASSUME NEW r \in {"control", "observe"}, NEW after \in NoCursor..(replay.latest + 1),
               NEW take \in BOOLEAN, AttachFails(a, r, after, take)
        PROVE  MutesTo(hub, hub', b) /\ UNCHANGED <<replay, proc, initial, conn, view>>
    BY <1>e, <1>3 DEF AttachFails
  <1>4. CASE Unsupported(a)
    <2>1. hub' = [hub EXCEPT !.closed = hub.closed \cup {a}]
          /\ UNCHANGED <<replay, proc, initial, conn, view>>
      BY <1>4 DEF Unsupported
    <2>2. /\ hub'.queue = hub.queue /\ hub'.subscribers \subseteq hub.subscribers
          /\ hub'.exit = hub.exit /\ hub'.state = hub.state
          /\ hub.subscribers \subseteq hub'.subscribers
      BY <1>0, <2>1 DEF HubState
    <2>. QED  BY <1>0, <2>1, <2>2, SameMutes
  <1>5. CASE takeover(a)
    <2> DEFINE h == expireControllerLocked(hub)
               freed == IF h.controller.attachment # a THEN revokeControllerLocked(h) ELSE h
               granted == grantControllerLocked(freed, a)
    <2>1. /\ hub' = granted \/ hub' = hub
          /\ UNCHANGED <<replay, proc, initial, conn, view>>
      BY <1>5 DEF takeover
    <2>2. HubOK(h) /\ h \in HubState
      BY <1>0, ExpireOK DEF HubOK
    <2> HIDE DEF h
    <2>3. HubOK(freed) /\ freed \in HubState /\ MutesTo(h, freed, b)
      <3>1. HubOK(revokeControllerLocked(h)) /\ MutesTo(h, revokeControllerLocked(h), b)
        BY <2>2, RevokeOK, RevokeMutes
      <3>2. MutesTo(h, h, b)
        BY <2>2, SameMutes
      <3> DEFINE k == revokeControllerLocked(h)
      <3>3. freed \in {h, k}
        OBVIOUS
      <3> HIDE DEF freed, k
      <3>. QED  BY <2>2, <3>1, <3>2, <3>3 DEF HubOK, k
    <2> HIDE DEF freed
    <2>4. MutesTo(freed, granted, b)
      BY <2>3, LeaseMutes
    <2>5. MutesTo(hub, freed, b)
      BY <1>0, <1>e, <2>2, <2>3, MutesTrans DEF h
    <2>6. CASE hub' = granted
      <3>1. granted \in HubState
        <4>1. freed.controller.attachment \in {None, a}
          <5>1. CASE h.controller.attachment # a
            BY <2>2, <5>1, RevokeOK DEF freed, NoLease
          <5>2. CASE h.controller.attachment = a
            BY <5>2 DEF freed
          <5>. QED  BY <5>1, <5>2
        <4>. QED  BY <2>3, <4>1, GrantOK DEF HubOK
      <3> HIDE DEF granted
      <3>. QED  BY <1>0, <2>1, <2>3, <2>4, <2>5, <2>6, <3>1, MutesTrans
    <2> HIDE DEF granted
    <2>7. CASE hub' = hub
      BY <1>s, <2>1, <2>7
    <2>. QED  BY <2>1, <2>6, <2>7
  <1>6. CASE send(a)
    <2>1. /\ hub' = IF a \in hub.subscribers THEN sendLocked(hub, a, reply[a]) ELSE hub
          /\ UNCHANGED <<replay, proc, initial, conn, view>>
      BY <1>6 DEF send
    <2>2. reply[a] \in Frame /\ Mute(reply[a])
      BY DEF IInv, TypeOK, Known, AnswersPlain, Mute
    <2>3. CASE a \in hub.subscribers
      BY <1>0, <2>1, <2>2, <2>3, SendMutes
    <2>4. CASE a \notin hub.subscribers
      BY <1>s, <2>1, <2>4
    <2>. QED  BY <2>3, <2>4
  <1>7. ASSUME NEW l \in 1..hub.issued, writeInput(a, l)
        PROVE  MutesTo(hub, hub', b) /\ UNCHANGED <<replay, proc, initial, conn, view>>
    BY <1>e, <1>7 DEF writeInput
  <1>8. ASSUME NEW ok \in BOOLEAN, writeReturns(a, ok)
        PROVE  MutesTo(hub, hub', b) /\ UNCHANGED <<replay, proc, initial, conn, view>>
    BY <1>s, <1>t, <1>8 DEF writeReturns, Refreshed
  <1>9. ASSUME NEW n \in 0..(replay.latest + 1), acknowledge(a, n)
        PROVE  MutesTo(hub, hub', b) /\ UNCHANGED <<replay, proc, initial, conn, view>>
    BY <1>s, <1>t, <1>9 DEF acknowledge
  <1>. QED  BY <1>1, <1>2, <1>3, <1>4, <1>5, <1>6, <1>7, <1>8, <1>9

\* The process, the timers and the reaper.
LEMMA ProcessStreams ==
    ASSUME IInv, IInv', Streaming, ProcessNext
    PROVE  ExitRecorded' /\ \A b \in Attachments : Fed(b)'
  <1> USE DEF procVars, handlerVars
  <1>0. HubOK(hub) /\ hub \in HubState /\ hub' \in HubState
    BY DEF IInv, HubOK
  <1>1. ReplayExact /\ ExitRecorded /\ \A b \in Attachments : Fed(b)
    BY DEF Streaming
  \* A step that sends nothing and records nothing.
  <1>g. ASSUME hub'.exit = hub.exit, \A b \in Attachments : MutesTo(hub, hub', b),
               UNCHANGED <<replay, handlerVars>>
        PROVE  \A b \in Attachments : Fed(b)'
    BY <1>0, <1>1, <1>g, MutedStep
  <1>s. ASSUME hub'.queue = hub.queue, hub'.subscribers = hub.subscribers,
               hub'.exit = hub.exit, UNCHANGED <<replay, handlerVars>>
        PROVE  \A b \in Attachments : Fed(b)'
    <2> SUFFICES ASSUME NEW b \in Attachments PROVE Fed(b)'
      OBVIOUS
    <2>1. Fed(b)
      BY <1>1
    <2>. QED  BY <1>s, <2>1 DEF Fed, Pipeline, Served
  <1>2. CASE Start \/ wait \/ terminate \/ GraceExpires \/ TerminateReturns
    <2>1. /\ UNCHANGED <<hub, replay, handlerVars>>
          /\ proc' = "done" <=> proc = "done"
      BY <1>2 DEF Start, wait, terminate, GraceExpires, TerminateReturns
    <2>2. ExitRecorded'
      BY <1>1, <2>1 DEF ExitRecorded
    <2>. QED  BY <1>s, <2>1, <2>2
  <1>3. CASE setProcess
    <2>1. /\ hub' = [hub EXCEPT !.state = IF hub.state = "starting" THEN "running" ELSE hub.state]
          /\ UNCHANGED <<replay, handlerVars, proc>>
      BY <1>3 DEF setProcess
    <2>2. /\ hub'.queue = hub.queue /\ hub'.subscribers = hub.subscribers
          /\ hub'.exit = hub.exit
          /\ hub'.state = "exited" <=> hub.state = "exited"
      BY <1>0, <2>1 DEF HubState
    <2>3. ExitRecorded'
      BY <1>1, <2>1, <2>2 DEF ExitRecorded
    <2>. QED  BY <1>s, <2>1, <2>2, <2>3
  <1>4. CASE LeaseTimeout
    <2> DEFINE c == [hub.controller EXCEPT !.expired = TRUE]
    <2>1. hub' = [hub EXCEPT !.controller = c] /\ UNCHANGED <<replay, handlerVars, proc>>
      BY <1>4 DEF LeaseTimeout
    <2> HIDE DEF c
    <2>2. /\ hub'.queue = hub.queue /\ hub'.subscribers = hub.subscribers
          /\ hub'.exit = hub.exit /\ hub'.state = hub.state
      BY <1>0, <2>1 DEF HubState
    <2>3. ExitRecorded'
      BY <1>1, <2>1, <2>2 DEF ExitRecorded
    <2>. QED  BY <1>s, <2>1, <2>2, <2>3
  <1>5. CASE ReapLease
    <2>1. hub' = expireControllerLocked(hub) /\ UNCHANGED <<replay, handlerVars, proc>>
      BY <1>5 DEF ReapLease
    <2>2. /\ \A b \in Attachments : MutesTo(hub, hub', b)
          /\ hub'.exit = hub.exit /\ hub'.state = hub.state
      BY <1>0, <2>1, RevokeMutes, RevokeExit
    <2>3. ExitRecorded'
      BY <1>1, <2>1, <2>2 DEF ExitRecorded
    <2>. QED  BY <1>g, <2>1, <2>2, <2>3
  <1>6. CASE publishExit
    BY <1>1, <1>6, ExitStep
  <1>7. ASSUME NEW size \in Sizes, publishOutput(size)
        PROVE  ExitRecorded' /\ \A b \in Attachments : Fed(b)'
    <2>1. Output(replay.latest + 1) \in Frame
      <3>1. replay.latest \in Nat
        BY DEF IInv, TypeOK
      <3>. QED  BY <3>1 DEF Output, Frame, FrameTypes
    <2>2. hub'.exit = hub.exit /\ hub'.state = hub.state /\ proc' = proc
      BY <1>0, <1>7, <2>1, BroadcastSends DEF publishOutput
    <2>3. ExitRecorded'
      BY <1>1, <2>2 DEF ExitRecorded
    <2>. QED  BY <1>1, <1>7, <2>3, OutputStep
  <1>. QED  BY <1>2, <1>3, <1>4, <1>5, <1>6, <1>7 DEF ProcessNext

\* An attachment: the others are sent nothing but a controller_revoked, and its own queue
\* is still empty.
LEMMA AttachMutes ==
    ASSUME IInv, Known, NEW a \in Attachments, NEW r \in {"control", "observe"},
           NEW after \in NoCursor..(replay.latest + 1), NEW take \in BOOLEAN,
           attach(a, r, after, take)
    PROVE  \E granted \in HubState :
              /\ granted.exit = hub.exit /\ hub'.exit = hub.exit /\ hub'.state = hub.state
              /\ hub'.queue[a] = << >>
              /\ \A b \in Attachments \ {a} : MutesTo(hub, hub', b)
              /\ initial' = [initial EXCEPT ![a] = InitialFrames(granted, a, after)]
  <1> DEFINE h == expireControllerLocked(hub)
             freed == IF take THEN revokeControllerLocked(h) ELSE h
             granted == IF r = "control" THEN grantControllerLocked(freed, a) ELSE h
             s == InitialFrames(granted, a, after)
  <1>0. HubOK(hub) /\ hub \in HubState
    BY DEF IInv, HubOK
  <1>1. /\ pc[a] = "idle" /\ ~AttachRefused(h, r, after, take)
        /\ hub' = [granted EXCEPT !.subscribers = granted.subscribers \cup {a}]
        /\ initial' = [initial EXCEPT ![a] = s]
    BY Zenon DEF attach
  <1>2. hub.queue[a] = << >> /\ a \notin hub.subscribers
    BY <1>1 DEF Known, IdleQuiet, IInv, IdleUnknown, Untouched
  <1>3. HubOK(h) /\ h \in HubState /\ \A b \in Attachments : MutesTo(hub, h, b)
    BY <1>0, ExpireOK, RevokeMutes DEF HubOK
  <1> HIDE DEF s, h
  <1>4. /\ HubOK(freed) /\ freed \in HubState /\ \A b \in Attachments : MutesTo(h, freed, b)
        /\ r = "control" => freed.controller.attachment \in {None, a}
    <2> DEFINE k == revokeControllerLocked(h)
    <2>1. /\ HubOK(k) /\ k \in HubState /\ k.controller = NoLease
          /\ \A b \in Attachments : MutesTo(h, k, b)
      BY <1>3, RevokeOK, RevokeMutes DEF HubOK
    <2>2. \A b \in Attachments : MutesTo(h, h, b)
      BY <1>3, SameMutes
    <2>3. freed = IF take THEN k ELSE h
      OBVIOUS
    <2>4. r = "control" => h.controller = NoLease \/ take
      BY <1>1 DEF AttachRefused
    <2>5. NoLease.attachment = None
      BY DEF NoLease
    <2> HIDE DEF k, freed
    <2>6. CASE take
      BY <2>1, <2>3, <2>5, <2>6
    <2>7. CASE ~take
      BY <1>3, <2>2, <2>3, <2>4, <2>5, <2>7
    <2>. QED  BY <2>6, <2>7
  <1> HIDE DEF freed
  <1>5. \A b \in Attachments : MutesTo(hub, freed, b)
    BY <1>0, <1>3, <1>4, MutesTrans
  <1>6. granted \in HubState /\ \A b \in Attachments : MutesTo(hub, granted, b)
    <2>1. CASE r = "control"
      <3> DEFINE k == grantControllerLocked(freed, a)
      <3>1. k \in HubState /\ \A b \in Attachments : MutesTo(freed, k, b)
        BY <1>4, <2>1, GrantOK, LeaseMutes DEF HubOK
      <3>2. granted = k
        BY <2>1
      <3> HIDE DEF k, granted
      <3>3. \A b \in Attachments : MutesTo(hub, k, b)
        BY <1>0, <1>4, <1>5, <3>1, MutesTrans
      <3>. QED  BY <3>1, <3>2, <3>3
    <2>2. CASE r # "control"
      BY <1>3, <2>2
    <2>. QED  BY <2>1, <2>2
  <1> HIDE DEF granted
  <1>7. /\ hub'.queue = granted.queue /\ hub'.exit = granted.exit /\ hub'.state = granted.state
        /\ hub'.subscribers = granted.subscribers \cup {a}
    BY <1>1, <1>6 DEF HubState
  <1>8. MutesTo(hub, granted, a)
    BY <1>6
  <1>9. granted.exit = hub.exit /\ granted.state = hub.state /\ granted.queue[a] = << >>
    BY <1>2, <1>8 DEF MutesTo
  <1>10. \A b \in Attachments \ {a} : MutesTo(hub, hub', b)
    BY <1>6, <1>7 DEF MutesTo
  <1>. QED  BY <1>1, <1>6, <1>7, <1>9, <1>10 DEF s

\* A client that attaches is owed all that follows its cursor.
LEMMA AttachStreams ==
    ASSUME IInv, IInv', Known, Streaming, NEW a \in Attachments, NEW r \in {"control", "observe"},
           NEW after \in NoCursor..(replay.latest + 1), NEW take \in BOOLEAN,
           attach(a, r, after, take)
    PROVE  ExitRecorded' /\ \A b \in Attachments : Fed(b)'
  <1> DEFINE n == replay.latest
             c == IF after = NoCursor THEN n ELSE after
  <1>0. TypeOK /\ n \in Nat /\ hub \in HubState /\ hub' \in HubState
    BY DEF IInv, HubOK, TypeOK
  <1>1. /\ ReplayExact /\ NewestKept /\ ExitRecorded /\ DownQuiet
        /\ \A b \in Attachments : Fed(b)
    BY DEF Streaming
  <1>2. PICK granted \in HubState :
              /\ granted.exit = hub.exit /\ hub'.exit = hub.exit /\ hub'.state = hub.state
              /\ hub'.queue[a] = << >>
              /\ \A b \in Attachments \ {a} : MutesTo(hub, hub', b)
              /\ initial' = [initial EXCEPT ![a] = InitialFrames(granted, a, after)]
    BY AttachMutes
  <1> DEFINE p == InitialFrames(granted, a, after)
  <1>3. /\ pc[a] = "idle" /\ conn' = [conn EXCEPT ![a] = "up"]
        /\ view' = [view EXCEPT ![a] = [view[a] EXCEPT !.cursor = c]]
        /\ replay' = replay /\ proc' = proc
        /\ after # NoCursor => afterValid(replay, after)
    BY Zenon DEF attach, AttachRefused, procVars
  <1>4. after \in Nat \cup {NoCursor} /\ after <= n
    BY <1>0, <1>3 DEF afterValid, NoCursor
  <1>5. /\ p \in Seq(Frame) /\ Tidy(p, FALSE, granted.exit)
        /\ Ending(p, n) /\ Reaches(p, c, n)
        /\ granted.exit => Positions(p, "exit") # {}
    BY <1>0, <1>1, <1>4, InitialStream
  <1> HIDE DEF p, c
  <1>6. /\ initial'[a] = p /\ view'[a].cursor = c /\ view'[a].exited = FALSE
        /\ \A b \in Attachments \ {a} : /\ initial'[b] = initial[b] /\ view'[b] = view[b]
                                        /\ conn'[b] = conn[b]
    <2>1. view[a] = NoView
      BY <1>1, <1>3 DEF DownQuiet
    <2>2. [NoView EXCEPT !.cursor = c].cursor = c /\ [NoView EXCEPT !.cursor = c].exited = FALSE
      BY DEF NoView
    <2>. QED  BY <1>0, <1>2, <1>3, <2>1, <2>2 DEF TypeOK, p
  <1>7. Fed(a)'
    <2>1. p \o << >> = p
      BY <1>5
    <2>2. Pipeline(a)' = p
      BY <1>2, <1>6, <2>1 DEF Pipeline
    <2>. QED  BY <1>2, <1>3, <1>5, <1>6, <2>2 DEF Fed, Flowing
  <1>8. ASSUME NEW b \in Attachments \ {a} PROVE Fed(b)'
    BY <1>0, <1>1, <1>2, <1>3, <1>6, MutedStep
  <1>9. ExitRecorded'
    BY <1>1, <1>2, <1>3 DEF ExitRecorded
  <1>. QED  BY <1>7, <1>8, <1>9

\* A connection that ends, and the handler that leaves.
LEMMA DepartureStreams ==
    ASSUME IInv, IInv', Streaming, NEW a \in Attachments, Disconnect(a) \/ detach(a)
    PROVE  ExitRecorded' /\ \A b \in Attachments : Fed(b)'
  <1>0. TypeOK /\ hub \in HubState /\ hub' \in HubState
    BY DEF IInv, HubOK
  <1>1. ExitRecorded /\ DownQuiet /\ \A b \in Attachments : Fed(b)
    BY DEF Streaming
  <1>2. CASE Disconnect(a)
    <2>1. /\ hub' = hub /\ replay' = replay /\ proc' = proc
          /\ conn' = [conn EXCEPT ![a] = "down"]
          /\ initial' = [initial EXCEPT ![a] = << >>] /\ view' = [view EXCEPT ![a] = NoView]
      BY <1>2 DEF Disconnect, procVars
    <2>2. /\ conn'[a] = "down" /\ initial'[a] = << >> /\ view'[a].exited = FALSE
          /\ \A b \in Attachments \ {a} : /\ initial'[b] = initial[b] /\ view'[b] = view[b]
                                          /\ conn'[b] = conn[b]
      BY <1>0, <2>1 DEF TypeOK, NoView
    <2>3. Fed(a)'
      <3> DEFINE q == hub.queue[a]
                 s == initial[a]
      <3>1. q \in Seq(Frame) /\ s \in Seq(Frame)
        BY <1>0 DEF TypeOK, HubState
      <3>2. Tidy(s \o q, view[a].exited, hub.exit)
        BY <1>1 DEF Fed, Pipeline
      <3>3. Pipeline(a)' = << >> \o q /\ a \notin Served'
        BY <2>1, <2>2 DEF Pipeline, Served
      <3> HIDE DEF q, s
      <3>4. << >> \o q = q
        BY <3>1
      <3>5. Tidy(q, FALSE, hub.exit)
        BY <3>1, <3>2, QueueTidy
      <3>. QED  BY <2>1, <2>2, <3>3, <3>4, <3>5 DEF Fed
    <2>4. ASSUME NEW b \in Attachments \ {a} PROVE Fed(b)'
      <3>1. Fed(b)
        BY <1>1
      <3>. QED  BY <2>1, <2>2, <3>1 DEF Fed, Pipeline, Served
    <2>5. ExitRecorded'
      BY <1>1, <2>1 DEF ExitRecorded
    <2>. QED  BY <2>3, <2>4, <2>5
  <1>3. CASE detach(a)
    <2> DEFINE q == [hub.queue EXCEPT ![a] = << >>]
               l == [hub.leaseID EXCEPT ![a] = 0]
               r == [hub.role EXCEPT ![a] = "observe"]
               f == [hub EXCEPT !.queue = q, !.leaseID = l, !.role = r]
    <2>1. /\ conn[a] = "down" /\ UNCHANGED <<replay, proc, initial, conn, view>>
          /\ hub' = IF a \notin hub.subscribers THEN f
                    ELSE [f EXCEPT !.subscribers = @ \ {a},
                                   !.controller = IF @.attachment = a THEN NoLease ELSE @]
      BY <1>3 DEF detach, Forgotten, procVars
    <2>2. q[a] = << >> /\ \A b \in Attachments \ {a} : q[b] = hub.queue[b]
      BY <1>0 DEF HubState
    <2> HIDE DEF q, l, r
    <2>3. /\ f.queue = q /\ f.subscribers = hub.subscribers /\ f.controller = hub.controller
          /\ f.exit = hub.exit /\ f.state = hub.state
      BY <1>0 DEF HubState
    <2>f. f = [hub EXCEPT !.queue = q, !.leaseID = l, !.role = r]
      OBVIOUS
    <2> HIDE DEF f
    <2>4. /\ hub'.queue = q /\ hub'.exit = hub.exit /\ hub'.state = hub.state
          /\ hub'.subscribers = hub.subscribers \ {a}
      <3>1. CASE a \notin hub.subscribers
        BY <2>1, <2>3, <3>1
      <3>2. CASE a \in hub.subscribers
        <4>1. hub' = [f EXCEPT !.subscribers = @ \ {a},
                               !.controller = IF @.attachment = a THEN NoLease ELSE @]
          BY <2>1, <3>2
        <4>. QED  BY <1>0, <2>3, <2>f, <3>2, <4>1 DEF HubState
      <3>. QED  BY <3>1, <3>2
    <2>5. Fed(a)'
      <3>1. initial[a] = << >> /\ view[a].exited = FALSE
        BY <1>1, <2>1 DEF DownQuiet, NoView
      <3>2. << >> \o << >> = << >>
        OBVIOUS
      <3>3. Pipeline(a)' = << >> /\ a \notin Served'
        BY <2>1, <2>2, <2>4, <3>1, <3>2 DEF Pipeline, Served
      <3>4. \A t : Positions(<< >>, t) = {}
        BY DEF Positions
      <3>5. Tidy(<< >>, FALSE, hub.exit)
        BY <3>4 DEF Tidy
      <3>. QED  BY <2>1, <2>4, <3>1, <3>3, <3>5 DEF Fed
    <2>6. ASSUME NEW b \in Attachments \ {a} PROVE Fed(b)'
      <3>1. Fed(b)
        BY <1>1
      <3>. QED  BY <2>1, <2>2, <2>4, <3>1 DEF Fed, Pipeline, Served
    <2>7. ExitRecorded'
      BY <1>1, <2>1, <2>4 DEF ExitRecorded
    <2>. QED  BY <2>5, <2>6, <2>7
  <1>. QED  BY <1>2, <1>3

\* The writer goroutine: what it writes is read, in the order in which it was queued.
LEMMA WriterStreams ==
    ASSUME IInv, IInv', Streaming, NEW a \in Attachments, WriteInitial(a) \/ WriteQueued(a)
    PROVE  ExitRecorded' /\ \A b \in Attachments : Fed(b)'
  <1> DEFINE s == initial[a]
             q == hub.queue[a]
             p == s \o q
             w == Received(view[a], Head(p))
  <1>0. TypeOK /\ hub \in HubState /\ hub' \in HubState
    BY DEF IInv, HubOK
  <1>1. ExitRecorded /\ \A b \in Attachments : Fed(b)
    BY DEF Streaming
  <1>2. s \in Seq(Frame) /\ q \in Seq(Frame) /\ view[a] \in View /\ replay.latest \in Nat
    BY <1>0 DEF TypeOK, HubState
  <1>3. /\ p \in Seq(Frame) /\ Pipeline(a) = p
        /\ s # << >> => p # << >> /\ Head(p) = Head(s) /\ Tail(p) = Tail(s) \o q
        /\ s = << >> => p = q
    <2>1. NoReply \in Frame
      BY SimpleFrame DEF NoReply, FrameTypes
    <2>2. Pipeline(a) = p
      BY DEF Pipeline
    <2> HIDE DEF s, q
    <2>3. /\ s \o q \in Seq(Frame)
          /\ s # << >> => s \o q # << >> /\ Head(s \o q) = Head(s) /\ Tail(s \o q) = Tail(s) \o q
      BY <1>2, <2>1, PipelineMoves
    <2>4. << >> \o q = q
      BY <1>2
    <2>. QED  BY <2>2, <2>3, <2>4
  <1>4. Tidy(p, view[a].exited, hub.exit) /\ (a \in Served => Flowing(p, view[a], replay.latest, hub.exit))
    BY <1>1, <1>3 DEF Fed
  <1>5. p # << >> => /\ Tidy(Tail(p), w.exited, hub.exit)
                     /\ a \in Served => Flowing(Tail(p), w, replay.latest, hub.exit)
    <2> HIDE DEF p
    <2>. QED  BY <1>2, <1>3, <1>4, HeadWritten
  <1> HIDE DEF s, q, p, w
  <1>6. CASE WriteInitial(a)
    <2>1. /\ s # << >> /\ UNCHANGED <<hub, replay, proc, conn>>
          /\ view' = [view EXCEPT ![a] = Received(view[a], Head(s))]
          /\ initial' = [initial EXCEPT ![a] = Tail(s)]
      BY <1>6 DEF WriteInitial, procVars, s
    <2>2. /\ view'[a] = w /\ initial'[a] = Tail(s)
          /\ \A b \in Attachments \ {a} : view'[b] = view[b] /\ initial'[b] = initial[b]
      BY <1>0, <1>3, <2>1 DEF TypeOK, w
    <2>3. Fed(a)'
      <3>1. Pipeline(a)' = Tail(p) /\ p # << >>
        BY <1>3, <2>1, <2>2 DEF Pipeline, q
      <3>2. a \in Served' => a \in Served
        BY <2>1 DEF Served
      <3>. QED  BY <1>5, <2>1, <2>2, <3>1, <3>2 DEF Fed
    <2>4. ASSUME NEW b \in Attachments \ {a} PROVE Fed(b)'
      <3>1. Fed(b)
        BY <1>1
      <3>. QED  BY <2>1, <2>2, <3>1 DEF Fed, Pipeline, Served
    <2>5. ExitRecorded'
      BY <1>1, <2>1 DEF ExitRecorded
    <2>. QED  BY <2>3, <2>4, <2>5
  <1>7. CASE WriteQueued(a)
    <2> DEFINE k == [hub.queue EXCEPT ![a] = Tail(q)]
    <2>1. /\ s = << >> /\ q # << >> /\ UNCHANGED <<replay, proc, conn, initial>>
          /\ view' = [view EXCEPT ![a] = Received(view[a], Head(q))]
          /\ hub' = [hub EXCEPT !.queue = k]
      BY <1>7 DEF WriteQueued, procVars, s, q
    <2>2. k[a] = Tail(q) /\ \A b \in Attachments \ {a} : k[b] = hub.queue[b]
      BY <1>0 DEF HubState
    <2> HIDE DEF k
    <2>3. /\ hub'.queue = k /\ hub'.subscribers = hub.subscribers
          /\ hub'.exit = hub.exit /\ hub'.state = hub.state
      BY <1>0, <2>1 DEF HubState
    <2>4. view'[a] = w /\ \A b \in Attachments \ {a} : view'[b] = view[b]
      BY <1>0, <1>3, <2>1 DEF TypeOK, w
    <2>5. Fed(a)'
      <3>1. << >> \o Tail(q) = Tail(q)
        <4>1. Tail(q) \in Seq(Frame)
          BY <1>2, <2>1
        <4>. QED  BY <4>1
      <3>2. Pipeline(a)' = Tail(p) /\ p # << >>
        BY <1>3, <2>1, <2>2, <2>3, <3>1 DEF Pipeline, s
      <3>3. a \in Served' => a \in Served
        BY <2>1, <2>3 DEF Served
      <3>. QED  BY <1>5, <2>1, <2>3, <2>4, <3>2, <3>3 DEF Fed
    <2>6. ASSUME NEW b \in Attachments \ {a} PROVE Fed(b)'
      <3>1. Fed(b)
        BY <1>1
      <3>. QED  BY <2>1, <2>2, <2>3, <2>4, <3>1 DEF Fed, Pipeline, Served
    <2>7. ExitRecorded'
      BY <1>1, <2>1, <2>3 DEF ExitRecorded
    <2>. QED  BY <2>5, <2>6, <2>7
  <1>. QED  BY <1>6, <1>7

\* Every step keeps the streams whole.
LEMMA NextStreams == IInv /\ Known /\ Streaming /\ IInv' /\ [Next]_vars => Streaming'
  <1> SUFFICES ASSUME IInv, Known, Streaming, IInv', [Next]_vars PROVE Streaming'
    OBVIOUS
  <1>1. ReplayExact' /\ NewestKept' /\ DownQuiet'
    BY NextReplay, NextKept DEF Streaming
  <1> SUFFICES ExitRecorded' /\ \A b \in Attachments : Fed(b)'
    BY <1>1 DEF Streaming
  <1>2. CASE ProcessNext
    BY <1>2, ProcessStreams
  <1>3. ASSUME NEW a \in Attachments, AttachmentNext(a)
        PROVE  ExitRecorded' /\ \A b \in Attachments : Fed(b)'
    <2>1. ASSUME \A b \in Attachments :
                     MutesTo(hub, hub', b) /\ UNCHANGED <<replay, proc, initial, conn, view>>
          PROVE  ExitRecorded' /\ \A b \in Attachments : Fed(b)'
      <3>1. hub' \in HubState /\ MutesTo(hub, hub', a) /\ UNCHANGED proc
        BY <2>1 DEF IInv, HubOK
      <3>2. ExitRecorded'
        BY <3>1 DEF Streaming, ExitRecorded, MutesTo
      <3>3. \A b \in Attachments : Fed(b)'
        BY <2>1, <3>1, MutedStep DEF Streaming
      <3>. QED  BY <3>2, <3>3
    <2>2. CASE \/ AttachRejected(a)
               \/ \E r \in {"control", "observe"}, after \in NoCursor..(replay.latest + 1), take \in BOOLEAN :
                     AttachFails(a, r, after, take)
               \/ Malformed(a) \/ Unsupported(a) \/ takeover(a) \/ Pong(a) \/ Ping(a) \/ send(a)
               \/ \E l \in 1..hub.issued : writeInput(a, l)
               \/ \E ok \in BOOLEAN : writeReturns(a, ok)
               \/ \E n \in 0..(replay.latest + 1) : acknowledge(a, n)
      BY <2>1, <2>2, HandlerMutes
    <2>3. ASSUME NEW r \in {"control", "observe"}, NEW after \in NoCursor..(replay.latest + 1),
                 NEW take \in BOOLEAN, attach(a, r, after, take)
          PROVE  ExitRecorded' /\ \A b \in Attachments : Fed(b)'
      BY <2>3, AttachStreams
    <2>4. CASE Disconnect(a) \/ detach(a)
      BY <2>4, DepartureStreams
    <2>5. CASE WriteInitial(a) \/ WriteQueued(a)
      BY <2>5, WriterStreams
    <2>. QED  BY <1>3, <2>2, <2>3, <2>4, <2>5, Zenon
         DEF AttachmentNext, ConnectionLost, SeesDone, WriteReason
  <1>4. CASE UNCHANGED vars
    BY <1>4 DEF vars, procVars, handlerVars, Streaming, ExitRecorded, Fed, Pipeline, Served
  <1>. QED  BY <1>2, <1>3, <1>4 DEF Next

\* Nothing has been published and nobody attached.
LEMMA InitStreams == Init => Streaming
  <1> SUFFICES ASSUME Init PROVE Streaming
    OBVIOUS
  <1>1. ReplayExact
    BY InitReplay
  <1>2. /\ hub.exit = FALSE /\ hub.state = "starting" /\ hub.subscribers = {} /\ proc = "unstarted"
        /\ replay.latest = 0
        /\ \A a \in Attachments :
              /\ hub.queue[a] = << >> /\ initial[a] = << >> /\ conn[a] = "down" /\ view[a] = NoView
              /\ pc[a] = "idle"
    BY DEF Init, newReplayBuffer
  <1>3. << >> \o << >> = << >>
    OBVIOUS
  <1>4. \A t : Positions(<< >>, t) = {}
    BY DEF Positions
  <1>5. Tidy(<< >>, FALSE, FALSE)
    BY <1>4 DEF Tidy
  <1>6. \A a \in Attachments : Fed(a)
    <2> SUFFICES ASSUME NEW a \in Attachments PROVE Fed(a)
      OBVIOUS
    <2>1. hub.queue[a] = << >> /\ initial[a] = << >>
      BY <1>2
    <2>2. Pipeline(a) = << >>
      BY <1>3, <2>1 DEF Pipeline
    <2>3. view[a].exited = FALSE
      BY <1>2 DEF NoView
    <2>4. a \notin Served
      BY <1>2 DEF Served
    <2>. QED  BY <1>2, <1>5, <2>2, <2>3, <2>4 DEF Fed
  <1>. QED  BY <1>1, <1>2, <1>6 DEF Streaming, NewestKept, ExitRecorded, DownQuiet

LEMMA StreamInvariance == Spec => []Streaming
  BY Invariance, InitKnown, NextKnown, InitStreams, NextStreams, PTL DEF Spec

\* What is on its way to a subscriber is every frame after the one it has read, in order and
\* without a hole or a duplicate, unless it was told of a gap; then everything the gap left.
THEOREM OutputIsContiguous == Spec => []OutputContiguous
  <1>1. TypeOK /\ HubOK(hub) /\ Streaming => OutputContiguous
    <2> SUFFICES ASSUME TypeOK, HubOK(hub), Streaming, NEW a \in Served
                 PROVE  LET p == Pipeline(a)
                            out == Positions(p, "output")
                            gap == Positions(p, "replay_gap")
                        IN  /\ \A i, j \in out : i < j => p[i].seq < p[j].seq
                            /\ \E n \in 1..(replay.latest + 1) : Numbers(p) = n..replay.latest
                            /\ view[a].cursor # NoCursor /\ gap = {}
                                   => Numbers(p) = (view[a].cursor + 1)..replay.latest
                            /\ (\A n \in Sizes : n <= MaxBytes)
                                   => \A i \in gap : Numbers(p) = p[i].seq..replay.latest
      BY Zenon DEF OutputContiguous
    <2>1. a \in Attachments
      BY DEF Served, HubOK, HubState
    <2>2. Flowing(Pipeline(a), view[a], replay.latest, hub.exit)
      BY <2>1 DEF Streaming, Fed
    <2>. QED  BY <2>2, Zenon DEF Flowing, Ending, Reaches, ChunksFit
  <1>. QED  BY <1>1, Invariance, StreamInvariance, PTL DEF IInv

\* One exit frame is on its way to each subscriber or has been written to it, no output
\* follows it, and the hub's record of the exit and its state agree.
THEOREM ExitIsOnceAndLast == Spec => []ExitOnceAndLast
  <1>1. Streaming => ExitOnceAndLast
    <2> SUFFICES ASSUME Streaming, NEW a \in Attachments
                 PROVE  LET out == Positions(Pipeline(a), "output")
                            exits == Positions(Pipeline(a), "exit")
                        IN  /\ \A i, j \in exits : i = j
                            /\ view[a].exited => exits = {} /\ out = {}
                            /\ \A i \in out, j \in exits : i < j
                            /\ a \in Served /\ hub.exit => view[a].exited \/ exits # {}
      BY Zenon DEF ExitOnceAndLast, Streaming, ExitRecorded
    <2>1. Fed(a)
      BY DEF Streaming
    <2>. QED  BY <2>1 DEF Fed, Tidy, Flowing
  <1>. QED  BY <1>1, StreamInvariance, PTL
=============================================================================
