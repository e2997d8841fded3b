----------------------------- MODULE ObserverProofs ----------------------------
(***************************************************************************)
(* Theorems about ObserverGateway: what a published revision stands for,   *)
(* and that a panel once cleared is not opened by what was still under     *)
(* way.  They hold for any number of sessions, connections, queued         *)
(* publications and failures.                                              *)
(***************************************************************************)
EXTENDS ObserverGateway, SequenceTheorems, FiniteSetTheorems, TLAPS

-----------------------------------------------------------------------------
(* Types. *)

Phases == {"off", "opened", "running", "closing", "draining", "cleared", "failed"}
Extensions ==
  [inst : 0 .. MaxInstances, on : BOOLEAN, link : 0 .. MaxAttempts, registered : BOOLEAN,
   retries : 0 .. MaxReconnects, timer : BOOLEAN, beat : BOOLEAN, activity : {"idle", "busy"},
   attempt : 0 .. MaxAttempts]
Connections ==
  [stage : {"none", "connecting", "open", "closed"}, inst : 0 .. MaxInstances,
   up : Seq(Frames), down : Seq({"registered", "rejected"}), cut : BOOLEAN]
Records ==
  [link : Nat, attempt : Nat, activity : {"idle", "busy"}, available : BOOLEAN, lease : Nat]
Gateways ==
  [phase : Phases, accepted : SUBSET Attempts, registered : SUBSET Attempts,
   records : [Instances -> Records], high : [Instances -> Nat], revision : Nat,
   paused : BOOLEAN, pending : Projections, chain : Seq(Projections), awaits : Nat,
   last : {-1} \cup Nat, opened : BOOLEAN]
Panels == [open : BOOLEAN, shows : Projections]

Types ==
  /\ pi \in Extensions
  /\ links \in [Attempts -> Connections]
  /\ gateway \in Gateways
  /\ panel \in Panels

-----------------------------------------------------------------------------
(* The extension has one connection, or one on its way, or one scheduled. *)

\* A connection of the running session on its way.
Connects(n) == links[n].stage = "connecting" /\ links[n].inst = pi.inst
ExtensionSound ==
  /\ ~pi.on => pi.link = 0 /\ ~pi.timer
  /\ pi.on => pi.inst # 0
  /\ pi.registered => pi.link # 0
  /\ pi.beat => pi.registered
  /\ pi.timer => pi.link = 0 /\ \A n \in Attempts : ~Connects(n)
  /\ pi.on /\ pi.link # 0 => \A n \in Attempts : ~Connects(n)
  /\ pi.on => \A m, n \in Attempts : Connects(m) /\ Connects(n) => m = n
ConnectionsSound ==
  \A n \in Attempts :
    /\ links[n].stage # "none" => n <= pi.attempt /\ links[n].inst \in 1 .. pi.inst
    /\ (links[n].stage = "open") <=> (pi.link = n)
    /\ n \in gateway.accepted => links[n].stage \in {"open", "closed"}

\* Connections are served by a running process only, and the registry has as
\* many records as it may.
RegistrySound ==
  /\ gateway.registered \subseteq gateway.accepted
  /\ gateway.phase \notin {"running", "closing"} => gateway.accepted = {}
  /\ Cardinality(Known(gateway)) <= SessionLimit
  /\ \A k \in Instances : gateway.records[k].attempt <= gateway.high[k]

-----------------------------------------------------------------------------
(* Publications. *)

Live == gateway.phase \in {"opened", "running", "closing"}

\* Projections of one revision show the same agents, and none is newer than r.
Agree(S) == \A a, b \in S : a.revision = b.revision => a.agents = b.agents
UpTo(S, r) == \A a \in S : a.revision <= r

PublicationsSound ==
  /\ Live => gateway.opened /\ Agree(Published) /\ UpTo(Published, gateway.revision)
  /\ gateway.phase = "off" => gateway = NewGateway
  /\ gateway.phase = "cleared" => gateway.chain = <<>> /\ ~panel.open

GatewayInv ==
  Types /\ ExtensionSound /\ ConnectionsSound /\ RegistrySound /\ PublicationsSound

-----------------------------------------------------------------------------
(* The operators of the registry. *)

\* What is known of a process that has everything it may have.
LEMMA GatewayFields ==
  ASSUME NEW g \in Gateways
  PROVE  /\ g.phase \in Phases /\ g.accepted \subseteq Attempts /\ g.registered \subseteq Attempts
         /\ g.records \in [Instances -> Records] /\ g.high \in [Instances -> Nat]
         /\ g.revision \in Nat /\ g.paused \in BOOLEAN /\ g.pending \in Projections
         /\ g.chain \in Seq(Projections) /\ g.awaits \in Nat /\ g.last \in {-1} \cup Nat
         /\ g.opened \in BOOLEAN
         /\ Known(g) \subseteq Instances
BY DEF Gateways, Known

\* What the registry holds can be shown.
LEMMA ProjectionTyped ==
  ASSUME NEW g \in Gateways
  PROVE  Projection(g) \in Projections /\ Projection(g).revision = g.revision
<1> DEFINE shown == [k \in Instances |->
             CASE k \notin Known(g) -> "none"
               [] g.records[k].available -> "available"
               [] OTHER -> "unavailable"]
<1>1. shown \in [Instances -> {"none", "available", "unavailable"}]
  OBVIOUS
<1>2. Projection(g) = [revision |-> g.revision, agents |-> shown] BY DEF Projection
<1> HIDE DEF shown
<1>3. QED BY <1>1, <1>2, GatewayFields DEF Projections

\* It shows who is known and available, and nothing else.
LEMMA ProjectionOf ==
  ASSUME NEW g \in Gateways, NEW h \in Gateways,
         \A k \in Instances : (h.records[k].attempt = 0) <=> (g.records[k].attempt = 0),
         \A k \in Instances : h.records[k].available = g.records[k].available
  PROVE  /\ Known(h) = Known(g) /\ Projection(h).agents = Projection(g).agents
         /\ h.revision = g.revision => Projection(h) = Projection(g)
<1>1. Known(h) = Known(g) BY DEF Known
<1>2. QED BY <1>1 DEF Projection

\* The projections on their way to the panel.
Outstanding(g) ==
  {g.chain[i] : i \in DOMAIN g.chain}
    \cup (IF g.pending = NoProjection THEN {} ELSE {g.pending})
OnPanel == IF gateway.opened /\ panel.open THEN {panel.shows} ELSE {}

LEMMA PublishedIs == Published = Outstanding(gateway) \cup {Projection(gateway)} \cup OnPanel
BY DEF Published, Outstanding, OnPanel

LEMMA NothingProjected == NoProjection \in Projections
BY DEF NoProjection, Projections

\* One more publication waits.
LEMMA ChainGrows ==
  ASSUME NEW q \in Seq(Projections), NEW p \in Projections
  PROVE  /\ Append(q, p) \in Seq(Projections)
         /\ {Append(q, p)[i] : i \in DOMAIN Append(q, p)} = {q[i] : i \in DOMAIN q} \cup {p}
<1>1. /\ Append(q, p) \in Seq(Projections) /\ Len(Append(q, p)) = Len(q) + 1
      /\ \A i \in 1 .. Len(q) : Append(q, p)[i] = q[i]
      /\ Append(q, p)[Len(q) + 1] = p
      /\ Len(q) \in Nat
  BY AppendProperties, LenProperties
<1>2. DOMAIN Append(q, p) = 1 .. Len(q) + 1 /\ DOMAIN q = 1 .. Len(q)
  BY <1>1, LenProperties
<1> DEFINE r == Append(q, p)
<1> HIDE DEF r
<1>3. QED BY <1>1, <1>2 DEF r

\* The first publication leaves the queue.
LEMMA ChainShrinks ==
  ASSUME NEW q \in Seq(Projections), q # <<>>
  PROVE  /\ Tail(q) \in Seq(Projections) /\ Head(q) \in Projections
         /\ Head(q) \in {q[i] : i \in DOMAIN q}
         /\ {Tail(q)[i] : i \in DOMAIN Tail(q)} \subseteq {q[i] : i \in DOMAIN q}
<1>1. /\ Tail(q) \in Seq(Projections) /\ Len(Tail(q)) = Len(q) - 1
      /\ \A i \in 1 .. Len(q) - 1 : Tail(q)[i] = q[i + 1]
      /\ Len(q) \in Nat \ {0} /\ Head(q) = q[1]
  BY HeadTailProperties, LenProperties, EmptySeq
<1>2. DOMAIN Tail(q) = 1 .. Len(q) - 1 /\ DOMAIN q = 1 .. Len(q)
  BY <1>1, LenProperties
<1>3. q[1] \in Projections BY <1>1, <1>2, ElementOfSeq
<1> DEFINE r == Tail(q)
<1> HIDE DEF r
<1>4. QED BY <1>1, <1>2, <1>3 DEF r

\* A publication changes nothing but the queue, or what waits for a resume.
LEMMA PublishTyped ==
  ASSUME NEW g \in Gateways
  PROVE  /\ Publish(g) \in Gateways
         /\ Publish(g).phase = g.phase /\ Publish(g).accepted = g.accepted
         /\ Publish(g).registered = g.registered /\ Publish(g).records = g.records
         /\ Publish(g).high = g.high /\ Publish(g).revision = g.revision
         /\ Publish(g).opened = g.opened /\ Publish(g).last = g.last
         /\ Outstanding(Publish(g)) \subseteq Outstanding(g) \cup {Projection(g)}
         /\ Known(Publish(g)) = Known(g) /\ Projection(Publish(g)) = Projection(g)
<1> DEFINE p == Projection(g)
           more == Append(g.chain, p)
           w == IF g.paused THEN [g EXCEPT !.pending = p] ELSE [g EXCEPT !.chain = more]
<1>1. p \in Projections BY ProjectionTyped
<1>2. Publish(g) = w BY DEF Publish
<1>3. /\ more \in Seq(Projections)
      /\ {more[i] : i \in DOMAIN more} = {g.chain[i] : i \in DOMAIN g.chain} \cup {p}
  BY <1>1, GatewayFields, ChainGrows
<1> HIDE DEF p, more
<1>4. /\ w \in Gateways
      /\ w.phase = g.phase /\ w.accepted = g.accepted
      /\ w.registered = g.registered /\ w.records = g.records
      /\ w.high = g.high /\ w.revision = g.revision
      /\ w.opened = g.opened /\ w.last = g.last
      /\ \/ w.chain = g.chain /\ w.pending = p
         \/ w.chain = more /\ w.pending = g.pending
  BY <1>1, <1>3 DEF Gateways
<1> HIDE DEF w
<1>5. Outstanding(w) \subseteq Outstanding(g) \cup {p}
  BY <1>3, <1>4 DEF Outstanding
<1>6. Known(w) = Known(g) /\ Projection(w) = Projection(g)
  BY <1>4, ProjectionOf
<1>7. QED BY <1>2, <1>4, <1>5, <1>6 DEF p

-----------------------------------------------------------------------------
(* What a step of the process does to what is published. *)

\* Whatever changes in the registry has a revision of its own, and what waits
\* for the panel is what waited before or what the registry shows now.
Advances(g, h) ==
  /\ h \in Gateways /\ h.phase = g.phase /\ h.opened = g.opened /\ h.last = g.last
  /\ Outstanding(h) \subseteq Outstanding(g) \cup {Projection(h)}
  /\ (h.revision = g.revision /\ Projection(h) = Projection(g)) \/ h.revision > g.revision

\* The connections a process serves, and which of them it registered.
Keeps(g, h) ==
  /\ h.accepted = g.accepted /\ h.registered = g.registered /\ h.high = g.high
  /\ Known(h) \subseteq Known(g)
  /\ \A k \in Instances : h.records[k].attempt \in {g.records[k].attempt, 0}

\* The registry changes and the change is published.
LEMMA PublishAdvances ==
  ASSUME NEW g \in Gateways, NEW h \in Gateways,
         h.phase = g.phase, h.opened = g.opened, h.last = g.last,
         h.chain = g.chain, h.pending = g.pending,
         (h.revision = g.revision /\ Projection(h) = Projection(g)) \/ h.revision > g.revision
  PROVE  Advances(g, Publish(h))
<1>1. Outstanding(h) = Outstanding(g) BY DEF Outstanding
<1> DEFINE w == Publish(h)
<1>2. /\ w \in Gateways /\ w.phase = h.phase /\ w.opened = h.opened /\ w.last = h.last
      /\ w.revision = h.revision /\ Projection(w) = Projection(h)
      /\ Outstanding(w) \subseteq Outstanding(h) \cup {Projection(h)}
  BY PublishTyped
<1> HIDE DEF w
<1>3. Advances(g, w) BY <1>1, <1>2 DEF Advances
<1>4. QED BY <1>3 DEF w

\* A registration: a new record, or a newer connection of a known one.
LEMMA RegistersAdvances ==
  ASSUME NEW g \in Gateways, NEW n \in Attempts, NEW k \in Instances, NEW activity \in {"idle", "busy"},
         BoundsAssumption
  PROVE  LET h == Registers(g, n, k, activity) IN
         /\ Advances(g, h)
         /\ h.accepted = g.accepted /\ h.registered = g.registered \cup {n}
         /\ h.high = [g.high EXCEPT ![k] = n]
         /\ \A j \in Instances : h.records[j].attempt = IF j = k THEN n ELSE g.records[j].attempt
         /\ Known(h) \subseteq Known(g) \cup {k}
<1> DEFINE record == [link |-> n, attempt |-> n, activity |-> activity, available |-> TRUE,
                      lease |-> LeaseTicks]
           w == [g EXCEPT !.records[k] = record, !.high[k] = n, !.revision = @ + 1,
                          !.registered = @ \cup {n}]
<1>1. n \in Nat /\ LeaseTicks \in Nat BY BoundsAssumption DEF Attempts
<1>2. record \in Records /\ record.attempt = n BY <1>1 DEF Records
<1> HIDE DEF record
<1>3. /\ w.phase = g.phase /\ w.opened = g.opened /\ w.last = g.last
      /\ w.chain = g.chain /\ w.pending = g.pending /\ w.accepted = g.accepted
      /\ w.paused = g.paused /\ w.awaits = g.awaits
      /\ w.revision = g.revision + 1 /\ w.registered = g.registered \cup {n}
      /\ w.high = [g.high EXCEPT ![k] = n] /\ w.records = [g.records EXCEPT ![k] = record]
  BY DEF Gateways
<1>5. w \in Gateways
  <2> DEFINE a == [g EXCEPT !.records[k] = record]
             b == [a EXCEPT !.high[k] = n]
             c == [b EXCEPT !.revision = @ + 1]
             d == [c EXCEPT !.registered = @ \cup {n}]
  <2>1. a \in Gateways BY <1>2 DEF Gateways
  <2> HIDE DEF a
  <2>2. b \in Gateways
    <3>1. [a.high EXCEPT ![k] = n] \in [Instances -> Nat] BY <1>1, <2>1, GatewayFields
    <3>2. QED BY <2>1, <3>1 DEF Gateways
  <2> HIDE DEF b
  <2>3. c \in Gateways
    <3>1. b.revision + 1 \in Nat BY <2>2, GatewayFields
    <3>2. QED BY <2>2, <3>1 DEF Gateways
  <2> HIDE DEF c
  <2>4. d \in Gateways
    <3>1. c.registered \cup {n} \subseteq Attempts BY <2>3, GatewayFields
    <3>2. QED BY <2>3, <3>1 DEF Gateways
  <2>5. d = w
    BY DEF a, b, c, d, w, Gateways
  <2>6. QED BY <2>4, <2>5
<1> HIDE DEF w
<1>6. Advances(g, Publish(w))
  <2>1. w.revision > g.revision BY <1>3, GatewayFields
  <2>2. QED BY <1>3, <1>5, <2>1, PublishAdvances
<1>7. \A j \in Instances : w.records[j].attempt = IF j = k THEN n ELSE g.records[j].attempt
  BY <1>2, <1>3, GatewayFields
<1>8. Known(w) \subseteq Known(g) \cup {k} BY <1>7 DEF Known
<1>9. Registers(g, n, k, activity) = Publish(w) BY DEF Registers, record, w
<1> DEFINE h == Publish(w)
<1>10. /\ h.accepted = w.accepted /\ h.registered = w.registered /\ h.high = w.high
       /\ h.records = w.records /\ Known(h) = Known(w)
  BY <1>5, PublishTyped
<1>11. Advances(g, h) BY <1>6
<1> HIDE DEF h
<1>12. h = Registers(g, n, k, activity) BY <1>9 DEF h
<1>13. QED BY <1>3, <1>7, <1>8, <1>10, <1>11, <1>12

\* One record changes, and who is known does not.
Changed(g, k, r, v) == [g EXCEPT !.records[k] = r, !.revision = v]
LEMMA RecordAdvances ==
  ASSUME NEW g \in Gateways, NEW k \in Instances, NEW r \in Records, NEW v \in Nat,
         r.attempt = g.records[k].attempt,
         v > g.revision \/ (v = g.revision /\ r.available = g.records[k].available)
  PROVE  Advances(g, Publish(Changed(g, k, r, v))) /\ Keeps(g, Publish(Changed(g, k, r, v)))
<1> DEFINE w == Changed(g, k, r, v)
<1>1. /\ w.phase = g.phase /\ w.opened = g.opened /\ w.last = g.last
      /\ w.chain = g.chain /\ w.pending = g.pending /\ w.accepted = g.accepted
      /\ w.registered = g.registered /\ w.high = g.high
      /\ w.revision = v /\ w.records = [g.records EXCEPT ![k] = r]
      /\ w \in Gateways
  BY DEF Gateways, Changed
<1> HIDE DEF w
<1>2. /\ \A j \in Instances : w.records[j].attempt = g.records[j].attempt
      /\ v = g.revision => \A j \in Instances : w.records[j].available = g.records[j].available
  <2>1. g.revision \in Nat /\ g.records \in [Instances -> Records] BY GatewayFields
  <2>2. QED BY <1>1, <2>1
<1>3. Known(w) = Known(g) BY <1>2 DEF Known
<1>4. v = g.revision => Projection(w) = Projection(g) BY <1>1, <1>2, ProjectionOf
<1>5. Advances(g, Publish(w))
  BY <1>1, <1>4, PublishAdvances
<1>6. Keeps(g, Publish(w)) BY <1>1, <1>2, <1>3, PublishTyped DEF Keeps
<1>7. QED BY <1>5, <1>6 DEF w

\* A heartbeat or an event of the Pi.
LEMMA RefreshedAdvances ==
  ASSUME NEW g \in Gateways, NEW k \in Instances, NEW activity \in {"idle", "busy"},
         NEW changed \in BOOLEAN, BoundsAssumption
  PROVE  Advances(g, Refreshed(g, k, activity, changed)) /\ Keeps(g, Refreshed(g, k, activity, changed))
<1> DEFINE r == [g.records[k] EXCEPT !.activity = activity, !.lease = LeaseTicks]
           v == IF changed THEN g.revision + 1 ELSE g.revision
<1>1. LeaseTicks \in Nat /\ g.records[k] \in Records /\ g.revision \in Nat
  BY GatewayFields, BoundsAssumption
<1>2. r \in Records /\ r.attempt = g.records[k].attempt /\ r.available = g.records[k].available
  BY <1>1 DEF Records
<1>3. v \in Nat /\ (v > g.revision \/ v = g.revision) BY <1>1
<1>4. Refreshed(g, k, activity, changed) = Publish(Changed(g, k, r, v))
  BY DEF Refreshed, Gateways, Changed
<1> HIDE DEF r, v
<1>5. QED BY <1>2, <1>3, <1>4, RecordAdvances

\* A connection that ended; its record stays until its lease does.
LEMMA DisconnectedAdvances ==
  ASSUME NEW g \in Gateways, NEW k \in Instances
  PROVE  Advances(g, Disconnected(g, k)) /\ Keeps(g, Disconnected(g, k))
<1> DEFINE r == [g.records[k] EXCEPT !.link = 0, !.available = FALSE]
           v == g.revision + 1
<1>1. g.records[k] \in Records /\ g.revision \in Nat
  BY GatewayFields
<1>2. r \in Records /\ r.attempt = g.records[k].attempt
  BY <1>1 DEF Records
<1>3. v \in Nat /\ v > g.revision BY <1>1
<1>4. Disconnected(g, k) = Publish(Changed(g, k, r, v))
  BY DEF Disconnected, Gateways, Changed
<1> HIDE DEF r, v
<1>5. QED BY <1>2, <1>3, <1>4, RecordAdvances

\* Records whose lease ran out are dropped, and each has a revision.
LEMMA ExpiredAdvances ==
  ASSUME NEW g \in Gateways, BoundsAssumption
  PROVE  Advances(g, Publish(Expired(g))) /\ Keeps(g, Publish(Expired(g)))
<1> DEFINE records == [k \in Instances |-> IF k \in Lapsed(g) THEN NoRecord ELSE g.records[k]]
           v == g.revision + Cardinality(Lapsed(g))
           a == [g EXCEPT !.records = records]
           w == [a EXCEPT !.revision = v]
<1>1. IsFiniteSet(Lapsed(g)) /\ Cardinality(Lapsed(g)) \in Nat
      /\ (Cardinality(Lapsed(g)) = 0 <=> Lapsed(g) = {})
  <2>1. Lapsed(g) \subseteq 1 .. MaxInstances BY DEF Lapsed, Known, Instances
  <2>2. IsFiniteSet(1 .. MaxInstances) BY BoundsAssumption, FS_Interval
  <2>3. IsFiniteSet(Lapsed(g)) BY <2>1, <2>2, FS_Subset
  <2>4. QED BY <2>3, FS_CardinalityType, FS_EmptySet
<1>2. g.revision \in Nat /\ g.records \in [Instances -> Records] BY GatewayFields
<1>3. NoRecord \in Records /\ NoRecord.attempt = 0 BY DEF NoRecord, Records
<1>4. records \in [Instances -> Records] BY <1>2, <1>3
<1>5. v \in Nat /\ (Lapsed(g) = {} => v = g.revision) /\ (Lapsed(g) # {} => v > g.revision)
  BY <1>1, <1>2
<1>6. Lapsed(g) = {} => records = g.records BY <1>2
<1>7. \A k \in Instances : records[k].attempt \in {g.records[k].attempt, 0} BY <1>3
<1> HIDE DEF records, v
<1>8. Expired(g) = w BY DEF Expired, a, w, records, v, Gateways
<1>9. a \in Gateways BY <1>4 DEF Gateways
<1>10. /\ a.phase = g.phase /\ a.opened = g.opened /\ a.last = g.last
       /\ a.chain = g.chain /\ a.pending = g.pending /\ a.accepted = g.accepted
       /\ a.registered = g.registered /\ a.high = g.high /\ a.records = records
  BY DEF Gateways
<1> HIDE DEF a
<1>11. /\ w \in Gateways
       /\ w.phase = a.phase /\ w.opened = a.opened /\ w.last = a.last
       /\ w.chain = a.chain /\ w.pending = a.pending /\ w.accepted = a.accepted
       /\ w.registered = a.registered /\ w.high = a.high /\ w.records = a.records
       /\ w.revision = v
  BY <1>5, <1>9 DEF Gateways
<1> HIDE DEF w
<1>12. Known(w) \subseteq Known(g)
  BY <1>7, <1>10, <1>11 DEF Known
<1>13. Lapsed(g) = {} => Projection(w) = Projection(g)
  <2>1. ASSUME Lapsed(g) = {} PROVE w.records = g.records /\ w.revision = g.revision
    BY <1>5, <1>6, <1>10, <1>11, <2>1
  <2>2. QED BY <1>11, <2>1, ProjectionOf
<1>14. Advances(g, Publish(w)) BY <1>5, <1>10, <1>11, <1>13, PublishAdvances
<1>15. Keeps(g, Publish(w)) BY <1>7, <1>10, <1>11, <1>12, PublishTyped DEF Keeps
<1>16. QED BY <1>8, <1>14, <1>15

\* A connection is forgotten.
LEMMA ForgottenConnection ==
  ASSUME NEW g \in Gateways, NEW n
  PROVE  LET h == [g EXCEPT !.accepted = @ \ {n}, !.registered = @ \ {n}] IN
         /\ h \in Gateways /\ h.accepted = g.accepted \ {n} /\ h.registered = g.registered \ {n}
         /\ h.phase = g.phase /\ h.opened = g.opened /\ h.last = g.last /\ h.high = g.high
         /\ h.revision = g.revision /\ h.records = g.records
         /\ Outstanding(h) = Outstanding(g) /\ Projection(h) = Projection(g)
         /\ Known(h) = Known(g)
<1> DEFINE a == [g EXCEPT !.accepted = @ \ {n}]
           w == [a EXCEPT !.registered = @ \ {n}]
<1>1. /\ a \in Gateways /\ a.accepted = g.accepted \ {n} /\ a.registered = g.registered
      /\ a.phase = g.phase /\ a.opened = g.opened /\ a.last = g.last /\ a.high = g.high
      /\ a.revision = g.revision /\ a.records = g.records /\ a.chain = g.chain
      /\ a.pending = g.pending
  BY DEF Gateways
<1>2. w = [g EXCEPT !.accepted = @ \ {n}, !.registered = @ \ {n}] BY DEF Gateways
<1> HIDE DEF a
<1>3. /\ w \in Gateways /\ w.accepted = a.accepted /\ w.registered = a.registered \ {n}
      /\ w.phase = a.phase /\ w.opened = a.opened /\ w.last = a.last /\ w.high = a.high
      /\ w.revision = a.revision /\ w.records = a.records /\ w.chain = a.chain
      /\ w.pending = a.pending
  BY <1>1 DEF Gateways
<1> HIDE DEF w
<1>4. Known(w) = Known(g) /\ Projection(w) = Projection(g)
  BY <1>1, <1>3, ProjectionOf
<1>5. Outstanding(w) = Outstanding(g) BY <1>1, <1>3 DEF Outstanding
<1>6. QED BY <1>1, <1>2, <1>3, <1>4, <1>5

\* The controls are taken back: what waited, or what is there, is published.
LEMMA ResumedAdvances ==
  ASSUME NEW g \in Gateways
  PROVE  /\ Advances(g, Resumed(g)) /\ Keeps(g, Resumed(g))
<1> DEFINE latest == IF g.pending = NoProjection THEN Projection(g) ELSE g.pending
           more == Append(g.chain, latest)
           len == Len(g.chain) + 1
           a == [g EXCEPT !.paused = FALSE]
           b == [a EXCEPT !.pending = NoProjection]
           c == [b EXCEPT !.chain = more]
           w == [c EXCEPT !.awaits = len]
<1>1. /\ latest \in Projections /\ g.chain \in Seq(Projections)
      /\ latest \in Outstanding(g) \cup {Projection(g)}
  BY ProjectionTyped, GatewayFields DEF Outstanding
<1> HIDE DEF latest
<1>2. /\ more \in Seq(Projections) /\ len \in Nat
      /\ {more[i] : i \in DOMAIN more} = {g.chain[i] : i \in DOMAIN g.chain} \cup {latest}
  <2>1. len \in Nat BY <1>1, LenProperties
  <2> HIDE DEF len
  <2>2. QED BY <1>1, <2>1, ChainGrows
<1>3. Resumed(g) = w BY DEF Resumed, latest, Gateways
<1> HIDE DEF more, len
<1>4. /\ a \in Gateways /\ a.accepted = g.accepted /\ a.registered = g.registered
      /\ a.phase = g.phase /\ a.opened = g.opened /\ a.last = g.last /\ a.high = g.high
      /\ a.revision = g.revision /\ a.records = g.records
  BY DEF Gateways
<1> HIDE DEF a
<1>5. /\ b \in Gateways /\ b.accepted = g.accepted /\ b.registered = g.registered
      /\ b.phase = g.phase /\ b.opened = g.opened /\ b.last = g.last /\ b.high = g.high
      /\ b.revision = g.revision /\ b.records = g.records /\ b.pending = NoProjection
  BY <1>4, NothingProjected DEF Gateways
<1> HIDE DEF b
<1>6. /\ c \in Gateways /\ c.accepted = g.accepted /\ c.registered = g.registered
      /\ c.phase = g.phase /\ c.opened = g.opened /\ c.last = g.last /\ c.high = g.high
      /\ c.revision = g.revision /\ c.records = g.records /\ c.pending = NoProjection
      /\ c.chain = more
  BY <1>2, <1>5 DEF Gateways
<1> HIDE DEF c
<1>7. /\ w \in Gateways /\ w.accepted = g.accepted /\ w.registered = g.registered
      /\ w.phase = g.phase /\ w.opened = g.opened /\ w.last = g.last /\ w.high = g.high
      /\ w.revision = g.revision /\ w.records = g.records /\ w.pending = NoProjection
      /\ w.chain = more
  BY <1>2, <1>6 DEF Gateways
<1> HIDE DEF w
<1>8. Known(w) = Known(g) /\ Projection(w) = Projection(g)
  BY <1>7, ProjectionOf
<1>9. Outstanding(w) \subseteq Outstanding(g) \cup {Projection(w)}
  <2>1. Outstanding(w) = {g.chain[i] : i \in DOMAIN g.chain} \cup {latest}
    BY <1>2, <1>7 DEF Outstanding
  <2>2. {g.chain[i] : i \in DOMAIN g.chain} \subseteq Outstanding(g) BY DEF Outstanding
  <2>3. QED BY <1>1, <1>8, <2>1, <2>2
<1>10. Advances(g, w) BY <1>7, <1>8, <1>9 DEF Advances
<1>11. Keeps(g, w) BY <1>7, <1>8 DEF Keeps
<1>12. QED BY <1>3, <1>10, <1>11

-----------------------------------------------------------------------------
(* What is published stays sound. *)

LEMMA PublicationsAdvance ==
  ASSUME Types, PublicationsSound, Live,
         gateway' \in Gateways, gateway'.phase \in {"opened", "running", "closing"}, gateway'.opened,
         Outstanding(gateway') \subseteq Published \cup {Projection(gateway')}, OnPanel' \subseteq Published,
         \/ gateway'.revision = gateway.revision /\ Projection(gateway') = Projection(gateway)
         \/ gateway'.revision > gateway.revision
  PROVE  PublicationsSound'
<1> DEFINE now == Projection(gateway')
           r == gateway.revision
           s == gateway'.revision
<1>1. Published' \subseteq Published \cup {now} /\ Projection(gateway) \in Published
  <2>1. Published' = Outstanding(gateway') \cup {now} \cup OnPanel'
    BY DEF Published, Outstanding, OnPanel
  <2>2. QED BY <2>1, PublishedIs
<1>2. /\ now.revision = s /\ r \in Nat /\ s \in Nat /\ gateway \in Gateways
  BY ProjectionTyped, GatewayFields DEF Types
<1>3. \A p \in Published : p.revision \in Int
  <2>1. /\ \A p \in Outstanding(gateway) : p \in Projections
        /\ Projection(gateway) \in Projections
        /\ \A p \in OnPanel : p \in Projections
    <3>1. \A i \in DOMAIN gateway.chain : gateway.chain[i] \in Projections
      BY <1>2, GatewayFields, ElementOfSeq, LenProperties
    <3>2. QED BY <1>2, <3>1, GatewayFields, ProjectionTyped DEF Outstanding, OnPanel, Types, Panels
  <2>2. QED BY <2>1, PublishedIs DEF Projections
<1>4. Agree(Published) /\ UpTo(Published, r) BY DEF PublicationsSound
<1>5. now \in Published \/ s > r BY <1>1
<1>6. s = r \/ s > r OBVIOUS
<1> HIDE DEF now, r, s
<1>7. UpTo(Published', s)
  BY <1>1, <1>2, <1>3, <1>4, <1>6 DEF UpTo
<1>8. Agree(Published')
  BY <1>1, <1>2, <1>3, <1>4, <1>5 DEF Agree, UpTo
<1>9. QED BY <1>7, <1>8 DEF PublicationsSound, Live, s

\* A step of the process that leaves the panel as it is.
LEMMA PublicationsKept ==
  ASSUME Types, PublicationsSound, Live, Advances(gateway, gateway'), UNCHANGED panel
  PROVE  PublicationsSound'
<1>1. /\ gateway'.phase \in {"opened", "running", "closing"} /\ gateway'.opened
      /\ gateway'.opened = gateway.opened /\ gateway' \in Gateways
      /\ Outstanding(gateway') \subseteq Outstanding(gateway) \cup {Projection(gateway')}
  BY DEF Advances, PublicationsSound, Live
<1>2. OnPanel' = OnPanel BY <1>1 DEF OnPanel
<1>3. OnPanel \subseteq Published /\ Outstanding(gateway) \subseteq Published BY PublishedIs
<1>4. QED BY <1>1, <1>2, <1>3, PublicationsAdvance DEF Advances

-----------------------------------------------------------------------------
(* The extension and its connections. *)

Ends == [Attempts -> Connections]

LEMMA NoLinkTyped == NoLink \in Connections /\ NoLink.stage = "none"
<1>1. <<>> \in Seq(Frames) /\ <<>> \in Seq({"registered", "rejected"})
  BY EmptySeq
<1>2. 0 \in 0 .. MaxInstances BY BoundsAssumption
<1>3. QED BY <1>1, <1>2 DEF NoLink, Connections

\* A frame is sent.
LEMMA SentTyped ==
  ASSUME links \in Ends, NEW n \in Attempts, NEW f \in Frames
  PROVE  /\ Sent(n, f) \in Ends
         /\ \A m \in Attempts : Sent(n, f)[m].stage = links[m].stage /\ Sent(n, f)[m].inst = links[m].inst
<1> DEFINE up == Append(links[n].up, f)
           c == [links[n] EXCEPT !.up = up]
<1>1. links[n] \in Connections BY DEF Ends
<1>2. up \in Seq(Frames) BY <1>1, AppendProperties DEF Connections
<1> HIDE DEF up
<1>3. c \in Connections /\ c.stage = links[n].stage /\ c.inst = links[n].inst
  BY <1>1, <1>2 DEF Connections
<1>4. Sent(n, f) \in {links, [links EXCEPT ![n] = c]} BY DEF Sent, up
<1> HIDE DEF c
<1>5. QED BY <1>3, <1>4 DEF Ends

\* One end closes.
LEMMA ClosedTyped ==
  ASSUME NEW l \in Ends, NEW n \in Attempts
  PROVE  /\ Closed(l, n) \in Ends
         /\ \A m \in Attempts : /\ Closed(l, n)[m].inst = l[m].inst
                                /\ Closed(l, n)[m].stage = IF m = n THEN "closed" ELSE l[m].stage
<1> DEFINE b == [l[n] EXCEPT !.stage = "closed"]
           c == [b EXCEPT !.down = <<>>]
<1>1. l[n] \in Connections BY DEF Ends
<1>2. b \in Connections /\ b.inst = l[n].inst /\ b.stage = "closed" BY <1>1 DEF Connections
<1>3. Closed(l, n) = [l EXCEPT ![n] = c] BY DEF Closed, Ends
<1> HIDE DEF b
<1>4. c \in Connections /\ c.inst = l[n].inst /\ c.stage = "closed"
  <2>1. <<>> \in Seq({"registered", "rejected"}) BY EmptySeq
  <2>2. QED BY <1>2, <2>1 DEF Connections
<1> HIDE DEF c
<1>5. QED BY <1>3, <1>4 DEF Ends

\* So does the other.
LEMMA ReleasedTyped ==
  ASSUME NEW l \in Ends, NEW n \in Attempts
  PROVE  /\ Released(l, n) \in Ends
         /\ \A m \in Attempts : m # n => Released(l, n)[m] = l[m]
         /\ \/ Released(l, n)[n] = l[n]
            \/ Released(l, n)[n].stage = "none" /\ n \notin gateway'.accepted
<1>1. Released(l, n) = l \/ (Released(l, n) = [l EXCEPT ![n] = NoLink] /\ n \notin gateway'.accepted)
  BY DEF Released
<1>2. QED BY <1>1, NoLinkTyped DEF Ends

\* The parts of the extension.
LEMMA ExtensionFields ==
  ASSUME NEW p \in Extensions
  PROVE  /\ p.inst \in 0 .. MaxInstances /\ p.on \in BOOLEAN /\ p.link \in 0 .. MaxAttempts
         /\ p.registered \in BOOLEAN /\ p.retries \in 0 .. MaxReconnects /\ p.timer \in BOOLEAN
         /\ p.beat \in BOOLEAN /\ p.activity \in {"idle", "busy"} /\ p.attempt \in 0 .. MaxAttempts
BY DEF Extensions

\* A reconnection is scheduled, or not.
LEMMA ScheduledTyped ==
  ASSUME NEW p \in Extensions
  PROVE  /\ Scheduled(p) \in Extensions
         /\ Scheduled(p).inst = p.inst /\ Scheduled(p).on = p.on /\ Scheduled(p).link = p.link
         /\ Scheduled(p).registered = p.registered /\ Scheduled(p).beat = p.beat
         /\ Scheduled(p).attempt = p.attempt
         /\ Scheduled(p).timer => p.timer \/ (p.on /\ p.link = 0)
<1> DEFINE a == [p EXCEPT !.timer = TRUE]
           b == [a EXCEPT !.retries = @ + 1]
<1>1. /\ a \in Extensions /\ a.inst = p.inst /\ a.on = p.on /\ a.link = p.link
      /\ a.registered = p.registered /\ a.beat = p.beat /\ a.attempt = p.attempt
      /\ a.retries = p.retries
  BY DEF Extensions
<1>2. Scheduled(p) = IF p.on /\ p.link = 0 /\ ~p.timer /\ p.retries < MaxReconnects THEN b ELSE p
  BY DEF Scheduled
<1> HIDE DEF a
<1>3. CASE p.on /\ p.link = 0 /\ ~p.timer /\ p.retries < MaxReconnects
  <2>1. a.retries + 1 \in 0 .. MaxReconnects BY <1>1, <1>3, ExtensionFields, BoundsAssumption
  <2>2. /\ b \in Extensions /\ b.inst = p.inst /\ b.on = p.on /\ b.link = p.link
        /\ b.registered = p.registered /\ b.beat = p.beat /\ b.attempt = p.attempt
    BY <1>1, <2>1 DEF Extensions
  <2>3. QED BY <1>2, <1>3, <2>2
<1>4. CASE ~(p.on /\ p.link = 0 /\ ~p.timer /\ p.retries < MaxReconnects)
  BY <1>2, <1>4
<1>5. QED BY <1>3, <1>4

\* The connection is given up.
LEMMA RetiredTyped ==
  ASSUME NEW p \in Extensions
  PROVE  /\ Retired(p) \in Extensions
         /\ Retired(p).inst = p.inst /\ Retired(p).on = p.on /\ Retired(p).link = 0
         /\ ~Retired(p).registered /\ ~Retired(p).beat /\ Retired(p).timer = p.timer
         /\ Retired(p).attempt = p.attempt
<1>1. 0 \in 0 .. MaxAttempts BY BoundsAssumption
<1>2. QED BY <1>1 DEF Retired, Extensions

-----------------------------------------------------------------------------
(* The steps of the extension. *)

\* The registry and what is published are as they were.
LEMMA ProcessUntouched ==
  ASSUME RegistrySound, PublicationsSound, UNCHANGED <<gateway, panel>>
  PROVE  RegistrySound' /\ PublicationsSound'
BY DEF RegistrySound, PublicationsSound, Live, Published, Known

\* A new connection is on its way.
LEMMA ConnectingSound ==
  ASSUME GatewayInv, NEW p \in Extensions, Connecting(p), UNCHANGED <<gateway, panel>>,
         p.attempt = pi.attempt, p.inst # 0, p.inst >= pi.inst, pi.link = 0,
         p.on, p.link = 0, ~p.timer, ~p.registered, ~p.beat,
         \A n \in Attempts : links[n].stage = "connecting" => links[n].inst # p.inst
  PROVE  GatewayInv'
<1> DEFINE n == pi.attempt + 1
           b == [NoLink EXCEPT !.stage = "connecting"]
           c == [b EXCEPT !.inst = p.inst]
<1>1. /\ links \in Ends /\ pi \in Extensions /\ gateway \in Gateways /\ panel \in Panels
      /\ ExtensionSound /\ ConnectionsSound /\ RegistrySound /\ PublicationsSound
  BY DEF GatewayInv, Types, Ends
<1>2. n \in Attempts /\ n \in Nat /\ pi.attempt \in Nat /\ p.inst \in 1 .. MaxInstances /\ pi.inst \in Nat
  BY <1>1, ExtensionFields, BoundsAssumption DEF Connecting, Attempts
<1>3. c \in Connections /\ c.stage = "connecting" /\ c.inst = p.inst
  <2>1. b \in Connections /\ b.stage = "connecting" BY NoLinkTyped DEF Connections
  <2> HIDE DEF b
  <2>2. QED BY <1>2, <2>1 DEF Connections
<1>4. links' = [links EXCEPT ![n] = c] BY DEF Connecting
<1>5. /\ pi' \in Extensions /\ pi'.attempt = n /\ pi'.inst = p.inst /\ pi'.on /\ pi'.link = 0
      /\ ~pi'.timer /\ ~pi'.registered /\ ~pi'.beat
  <2>1. n \in 0 .. MaxAttempts BY <1>2 DEF Attempts
  <2>2. pi' = [p EXCEPT !.attempt = n] BY DEF Connecting
  <2> HIDE DEF n
  <2>3. QED BY <2>1, <2>2 DEF Extensions
<1> HIDE DEF c, n
<1>6. links' \in Ends /\ \A m \in Attempts : links'[m] = IF m = n THEN c ELSE links[m]
  BY <1>1, <1>2, <1>3, <1>4 DEF Ends
<1>7. Types' BY <1>1, <1>5, <1>6 DEF Types, Ends
<1>8. ConnectionsSound'
  <2> SUFFICES ASSUME NEW m \in Attempts
               PROVE  /\ links'[m].stage # "none" => m <= pi'.attempt /\ links'[m].inst \in 1 .. pi'.inst
                      /\ (links'[m].stage = "open") <=> (pi'.link = m)
                      /\ m \in gateway'.accepted => links'[m].stage \in {"open", "closed"}
    BY DEF ConnectionsSound
  <2>1. CASE m = n
    <3>1. n \notin gateway.accepted BY <1>1, <1>2 DEF ConnectionsSound, n
    <3>2. n <= n /\ p.inst \in 1 .. p.inst /\ n # 0 BY <1>2 DEF Attempts
    <3>3. QED BY <1>3, <1>5, <1>6, <2>1, <3>1, <3>2
  <2>2. CASE m # n
    <3>1. links'[m] = links[m] BY <1>6, <2>2
    <3>2. links[m].stage # "none" => m <= n /\ links[m].inst \in 1 .. p.inst
      BY <1>1, <1>2 DEF ConnectionsSound, n, Attempts
    <3>3. m # 0 BY DEF Attempts
    <3>4. QED BY <1>1, <1>5, <3>1, <3>2, <3>3 DEF ConnectionsSound
  <2>3. QED BY <2>1, <2>2
<1>9. \A m \in Attempts : Connects(m)' => m = n
  <2>1. \A m \in Attempts : m # n /\ links'[m].stage = "connecting" => links'[m].inst # pi'.inst
    BY <1>5, <1>6
  <2>2. QED BY <2>1 DEF Connects
<1>10. ExtensionSound'
  <2>1. pi'.inst # 0 BY <1>2, <1>5
  <2>2. \A l, m \in Attempts : Connects(l)' /\ Connects(m)' => l = m BY <1>9
  <2>3. QED BY <1>5, <2>1, <2>2 DEF ExtensionSound
<1>11. QED BY <1>1, <1>7, <1>8, <1>10, ProcessUntouched DEF GatewayInv

\* A session begins, or its reconnection is due.
LEMMA BeginSound ==
  ASSUME GatewayInv, SessionStart \/ ReconnectTimer PROVE GatewayInv'
<1>1. /\ pi \in Extensions /\ ExtensionSound /\ ConnectionsSound BY DEF GatewayInv, Types
<1>2. CASE SessionStart
  <2> DEFINE p == NewSession(pi)
             a == [pi EXCEPT !.inst = @ + 1]
             b == [a EXCEPT !.on = TRUE]
             c == [b EXCEPT !.retries = 0]
             d == [c EXCEPT !.timer = FALSE]
             e == [d EXCEPT !.activity = "idle"]
  <2>1. pi.inst + 1 \in 1 .. MaxInstances /\ 0 \in 0 .. MaxReconnects /\ ~pi.on /\ pi.inst \in Nat
    BY <1>1, <1>2, ExtensionFields, BoundsAssumption DEF SessionStart
  <2>2. /\ a \in Extensions /\ a.inst = pi.inst + 1 /\ a.link = pi.link /\ a.attempt = pi.attempt
        /\ a.registered = pi.registered /\ a.beat = pi.beat
    BY <1>1, <2>1 DEF Extensions
  <2> HIDE DEF a
  <2>3. /\ b \in Extensions /\ b.inst = a.inst /\ b.link = a.link /\ b.attempt = a.attempt
        /\ b.registered = a.registered /\ b.beat = a.beat /\ b.on
    BY <2>2 DEF Extensions
  <2> HIDE DEF b
  <2>4. /\ c \in Extensions /\ c.inst = b.inst /\ c.link = b.link /\ c.attempt = b.attempt
        /\ c.registered = b.registered /\ c.beat = b.beat /\ c.on = b.on
    BY <2>1, <2>3 DEF Extensions
  <2> HIDE DEF c
  <2>5. /\ d \in Extensions /\ d.inst = c.inst /\ d.link = c.link /\ d.attempt = c.attempt
        /\ d.registered = c.registered /\ d.beat = c.beat /\ d.on = c.on /\ ~d.timer
    BY <2>4 DEF Extensions
  <2> HIDE DEF d
  <2>6. /\ e \in Extensions /\ e.inst = d.inst /\ e.link = d.link /\ e.attempt = d.attempt
        /\ e.registered = d.registered /\ e.beat = d.beat /\ e.on = d.on /\ e.timer = d.timer
    BY <2>5 DEF Extensions
  <2>7. p = e BY DEF NewSession, a, b, c, d
  <2> HIDE DEF p, e
  <2>8. pi.link = 0 /\ ~pi.registered /\ ~pi.beat BY <1>1, <2>1 DEF ExtensionSound
  <2>9. \A n \in Attempts : links[n].stage = "connecting" => links[n].inst # p.inst
    BY <1>1, <2>1, <2>2, <2>3, <2>4, <2>5, <2>6, <2>7 DEF ConnectionsSound
  <2>10. Connecting(p) /\ UNCHANGED <<gateway, panel>> BY <1>2 DEF SessionStart, p
  <2>11. p.inst # 0 /\ p.inst >= pi.inst BY <2>1, <2>2, <2>3, <2>4, <2>5, <2>6, <2>7
  <2>12. QED
    BY <2>2, <2>3, <2>4, <2>5, <2>6, <2>7, <2>8, <2>9, <2>10, <2>11, ConnectingSound
<1>3. CASE ReconnectTimer
  <2> DEFINE p == [pi EXCEPT !.timer = FALSE]
  <2>1. /\ p \in Extensions /\ p.inst = pi.inst /\ p.link = pi.link /\ p.attempt = pi.attempt
        /\ p.registered = pi.registered /\ p.beat = pi.beat /\ p.on = pi.on /\ ~p.timer
    BY <1>1 DEF Extensions
  <2>2. pi.on /\ pi.link = 0 /\ ~pi.registered /\ ~pi.beat /\ pi.inst # 0
    BY <1>1, <1>3 DEF ReconnectTimer, ExtensionSound
  <2>3. \A n \in Attempts : links[n].stage = "connecting" => links[n].inst # pi.inst
    BY <1>1, <1>3 DEF ReconnectTimer, ExtensionSound, Connects
  <2>4. Connecting(p) /\ UNCHANGED <<gateway, panel>> BY <1>3 DEF ReconnectTimer
  <2>5. pi.inst >= pi.inst BY <1>1, ExtensionFields, BoundsAssumption
  <2> HIDE DEF p
  <2>6. QED BY <2>1, <2>2, <2>3, <2>4, <2>5, ConnectingSound
<1>4. QED BY <1>2, <1>3

\* The ends of a connection, and who it belongs to, as a step leaves them.
EndsKept(l) ==
  \A m \in Attempts : l[m].stage = links[m].stage /\ l[m].inst = links[m].inst

\* A step that neither binds nor gives up a connection.
LEMMA EndsUnmoved ==
  ASSUME ExtensionSound, ConnectionsSound, EndsKept(links'),
         pi'.inst = pi.inst, pi'.on = pi.on, pi'.link = pi.link, pi'.timer = pi.timer,
         pi'.attempt = pi.attempt, pi'.registered => pi'.link # 0, pi'.beat => pi'.registered,
         gateway'.accepted \subseteq gateway.accepted
  PROVE  ExtensionSound' /\ ConnectionsSound'
<1>1. \A m \in Attempts : links'[m].stage = links[m].stage /\ links'[m].inst = links[m].inst
  BY DEF EndsKept
<1>2. \A m \in Attempts : Connects(m)' <=> Connects(m) BY <1>1 DEF Connects
<1>3. ExtensionSound'
  <2>1. \A l, m \in Attempts : Connects(l) /\ Connects(m) => (pi.on => l = m) BY DEF ExtensionSound
  <2>2. QED BY <1>2, <2>1 DEF ExtensionSound
<1>4. QED BY <1>1, <1>3 DEF ConnectionsSound

\* A connection to the gateway comes about.
LEMMA ConnectSucceedsSound ==
  ASSUME GatewayInv, NEW n \in Attempts, ConnectSucceeds(n) PROVE GatewayInv'
<1>1. /\ links \in Ends /\ pi \in Extensions /\ gateway \in Gateways /\ panel \in Panels
      /\ ExtensionSound /\ ConnectionsSound /\ RegistrySound /\ PublicationsSound
  BY DEF GatewayInv, Types, Ends
<1>2. links[n].stage = "connecting" /\ gateway.phase = "running" /\ UNCHANGED panel
  BY DEF ConnectSucceeds
<1>3. n # 0 /\ n \in 0 .. MaxAttempts BY BoundsAssumption DEF Attempts
<1>4. CASE pi.on /\ links[n].inst = pi.inst
  <2> DEFINE frame == [type |-> "register", activity |-> pi.activity]
             b == [links[n] EXCEPT !.stage = "open"]
             c == [b EXCEPT !.up = <<frame>>]
             accepted == gateway.accepted \cup {n}
  <2>1. /\ pi' = [pi EXCEPT !.link = n] /\ gateway' = [gateway EXCEPT !.accepted = accepted]
        /\ links' = [links EXCEPT ![n] = c]
    BY <1>1, <1>4 DEF ConnectSucceeds, Ends
  <2>2. c \in Connections /\ c.stage = "open" /\ c.inst = links[n].inst
    <3>1. frame \in Frames BY <1>1, ExtensionFields DEF Frames
    <3> HIDE DEF frame
    <3>2. b \in Connections /\ b.stage = "open" /\ b.inst = links[n].inst
      BY <1>1 DEF Connections, Ends
    <3> HIDE DEF b
    <3>3. <<frame>> \in Seq(Frames) BY <3>1
    <3>4. QED BY <3>2, <3>3 DEF Connections
  <2> HIDE DEF c
  <2>3. links' \in Ends /\ \A m \in Attempts : links'[m] = IF m = n THEN c ELSE links[m]
    BY <1>1, <2>1, <2>2 DEF Ends
  <2>4. /\ pi' \in Extensions /\ pi'.link = n /\ pi'.inst = pi.inst /\ pi'.on = pi.on
        /\ pi'.timer = pi.timer /\ pi'.registered = pi.registered /\ pi'.beat = pi.beat
        /\ pi'.attempt = pi.attempt
    BY <1>1, <1>3, <2>1 DEF Extensions
  <2>5. accepted \subseteq Attempts BY <1>1, GatewayFields
  <2> HIDE DEF accepted
  <2>6. /\ gateway' \in Gateways /\ gateway'.accepted = accepted /\ gateway'.phase = gateway.phase
        /\ gateway'.registered = gateway.registered /\ gateway'.high = gateway.high
        /\ gateway'.records = gateway.records /\ gateway'.revision = gateway.revision
        /\ gateway'.opened = gateway.opened /\ gateway'.last = gateway.last
        /\ gateway'.chain = gateway.chain /\ gateway'.pending = gateway.pending
    BY <1>1, <2>1, <2>5 DEF Gateways
  <2>7. Types' BY <1>1, <1>2, <2>3, <2>4, <2>6 DEF Types, Ends
  <2>8. Connects(n) /\ pi.link = 0 /\ ~pi.timer /\ \A m \in Attempts : Connects(m) => m = n
    BY <1>1, <1>2, <1>4 DEF Connects, ExtensionSound
  <2>9. \A m \in Attempts : ~Connects(m)'
    BY <2>2, <2>3, <2>4, <2>8 DEF Connects
  <2>10. ExtensionSound'
    BY <1>1, <1>3, <1>4, <2>4, <2>8, <2>9 DEF ExtensionSound
  <2>11. ConnectionsSound'
    <3>1. \A m \in Attempts : links[m].stage # "open"
      <4>1. \A m \in Attempts : m # 0 BY DEF Attempts
      <4>2. QED BY <1>1, <2>8, <4>1 DEF ConnectionsSound
    <3>2. links'[n].stage = "open" /\ links'[n].inst = links[n].inst
      BY <2>2, <2>3
    <3>3. \A m \in Attempts : m # n => links'[m] = links[m] BY <2>3
    <3>4. QED BY <1>1, <1>2, <2>4, <2>6, <3>1, <3>2, <3>3 DEF ConnectionsSound, accepted
  <2>12. Known(gateway') = Known(gateway) /\ Projection(gateway') = Projection(gateway)
    BY <1>1, <2>6, ProjectionOf
  <2>13. RegistrySound'
    <3>1. Known(gateway)' = Known(gateway') BY DEF Known
    <3>2. QED BY <1>1, <1>2, <2>6, <2>12, <3>1 DEF RegistrySound, accepted
  <2>14. Advances(gateway, gateway') BY <2>6, <2>12 DEF Advances, Outstanding
  <2>15. PublicationsSound'
    BY <1>1, <1>2, <2>14, PublicationsKept DEF Types, Ends, Live
  <2>16. QED BY <2>7, <2>10, <2>11, <2>13, <2>15 DEF GatewayInv
<1>5. CASE ~(pi.on /\ links[n].inst = pi.inst)
  <2>1. links' = [links EXCEPT ![n] = NoLink] /\ UNCHANGED <<pi, gateway>>
    BY <1>5 DEF ConnectSucceeds
  <2>2. links' \in Ends /\ \A m \in Attempts : links'[m] = IF m = n THEN NoLink ELSE links[m]
    BY <1>1, <2>1, NoLinkTyped DEF Ends
  <2>3. Types' BY <1>1, <1>2, <2>1, <2>2 DEF Types, Ends
  <2>4. \A m \in Attempts : Connects(m)' => Connects(m)
    BY <2>1, <2>2, NoLinkTyped DEF Connects
  <2>5. ExtensionSound'
    <3>1. \A l, m \in Attempts : Connects(l) /\ Connects(m) => (pi.on => l = m)
      BY <1>1 DEF ExtensionSound
    <3>2. QED BY <1>1, <2>1, <2>4, <3>1 DEF ExtensionSound
  <2>6. ConnectionsSound'
    <3>1. n \notin gateway.accepted BY <1>1, <1>2 DEF ConnectionsSound
    <3>2. links[n].stage # "open" BY <1>2
    <3>3. QED BY <1>1, <2>1, <2>2, <3>1, <3>2, NoLinkTyped DEF ConnectionsSound
  <2>7. QED BY <1>1, <1>2, <2>1, <2>3, <2>5, <2>6, ProcessUntouched DEF GatewayInv
<1>6. QED BY <1>4, <1>5

\* It does not.
LEMMA ConnectFailsSound ==
  ASSUME GatewayInv, NEW n \in Attempts, ConnectFails(n) PROVE GatewayInv'
<1>1. /\ links \in Ends /\ pi \in Extensions /\ gateway \in Gateways /\ panel \in Panels
      /\ ExtensionSound /\ ConnectionsSound /\ RegistrySound /\ PublicationsSound
  BY DEF GatewayInv, Types, Ends
<1>2. /\ links[n].stage = "connecting" /\ links' = [links EXCEPT ![n] = NoLink]
      /\ pi' = IF links[n].inst = pi.inst THEN Scheduled(pi) ELSE pi
      /\ UNCHANGED <<gateway, panel>>
  BY DEF ConnectFails
<1>3. links' \in Ends /\ \A m \in Attempts : links'[m] = IF m = n THEN NoLink ELSE links[m]
  BY <1>1, <1>2, NoLinkTyped DEF Ends
<1>4. /\ pi' \in Extensions /\ pi'.inst = pi.inst /\ pi'.on = pi.on /\ pi'.link = pi.link
      /\ pi'.registered = pi.registered /\ pi'.beat = pi.beat /\ pi'.attempt = pi.attempt
      /\ pi'.timer => pi.timer \/ (pi.on /\ pi.link = 0 /\ links[n].inst = pi.inst)
  BY <1>1, <1>2, ScheduledTyped
<1>5. Types' BY <1>1, <1>2, <1>3, <1>4 DEF Types, Ends
<1>6. /\ \A m \in Attempts : Connects(m)' => Connects(m)
      /\ ~Connects(n)'
  BY <1>3, <1>4, NoLinkTyped DEF Connects
<1>7. ExtensionSound'
  <2>1. \A l, m \in Attempts : Connects(l) /\ Connects(m) => (pi.on => l = m)
    BY <1>1 DEF ExtensionSound
  <2>2. pi'.timer => \A m \in Attempts : ~Connects(m)'
    <3>1. CASE pi.timer BY <1>1, <1>6, <3>1 DEF ExtensionSound
    <3>2. CASE pi.on /\ links[n].inst = pi.inst
      <4>1. Connects(n) BY <1>2, <3>2 DEF Connects
      <4>2. QED BY <1>6, <2>1, <3>2, <4>1
    <3>3. QED BY <1>4, <3>1, <3>2
  <2>3. pi'.timer => pi'.on /\ pi'.link = 0
    BY <1>1, <1>4 DEF ExtensionSound
  <2>4. QED BY <1>1, <1>4, <1>6, <2>1, <2>2, <2>3 DEF ExtensionSound
<1>8. ConnectionsSound'
  <2>1. n \notin gateway.accepted BY <1>1, <1>2 DEF ConnectionsSound
  <2>2. QED BY <1>1, <1>2, <1>3, <1>4, <2>1, NoLinkTyped DEF ConnectionsSound
<1>9. QED BY <1>1, <1>2, <1>5, <1>7, <1>8, ProcessUntouched DEF GatewayInv

\* The extension gives its connection up: there is none on its way then.
LEMMA LinkGivenUp ==
  ASSUME GatewayInv, NEW n \in Attempts, pi.link = n, NEW l \in Ends, EndsKept(l),
         links' = Released(Closed(l, n), n), UNCHANGED <<gateway, panel>>,
         pi' \in Extensions, pi'.inst = pi.inst, pi'.attempt = pi.attempt, pi'.link = 0,
         ~pi'.registered, ~pi'.beat, pi'.on => pi.on, pi'.timer => pi'.on
  PROVE  GatewayInv'
<1> DEFINE c == Closed(l, n)
<1>1. /\ links \in Ends /\ pi \in Extensions /\ gateway \in Gateways /\ panel \in Panels
      /\ ExtensionSound /\ ConnectionsSound /\ RegistrySound /\ PublicationsSound
  BY DEF GatewayInv, Types, Ends
<1>2. n # 0 /\ pi.on /\ \A m \in Attempts : ~Connects(m)
  BY <1>1 DEF Attempts, ExtensionSound
<1>3. /\ c \in Ends
      /\ \A m \in Attempts : /\ c[m].inst = links[m].inst
                             /\ c[m].stage = IF m = n THEN "closed" ELSE links[m].stage
  BY ClosedTyped DEF EndsKept
<1>4. links' = Released(c, n) OBVIOUS
<1> HIDE DEF c
<1>5. /\ links' \in Ends
      /\ \A m \in Attempts : m # n => links'[m] = c[m]
      /\ links'[n] = c[n] \/ (links'[n].stage = "none" /\ n \notin gateway'.accepted)
  BY <1>3, <1>4, ReleasedTyped
<1>6. Types' BY <1>1, <1>5 DEF Types, Ends
<1>7. \A m \in Attempts : ~Connects(m)'
  BY <1>2, <1>3, <1>5 DEF Connects
<1>8. ExtensionSound' BY <1>1, <1>2, <1>7 DEF ExtensionSound
<1>9. ConnectionsSound'
  <2>1. links[n].stage = "open" BY <1>1 DEF ConnectionsSound
  <2>2. \A m \in Attempts : m # 0 BY DEF Attempts
  <2>3. QED BY <1>1, <1>3, <1>5, <2>1, <2>2 DEF ConnectionsSound
<1>10. QED BY <1>1, <1>6, <1>8, <1>9, ProcessUntouched DEF GatewayInv

\* The gateway rejects, or the connection ends.
LEMMA FailOpenSound ==
  ASSUME GatewayInv, NEW n \in Attempts, ReceiveRejected(n) \/ ConnectionEnds(n)
  PROVE  GatewayInv'
<1>1. links \in Ends /\ pi \in Extensions /\ ExtensionSound BY DEF GatewayInv, Types, Ends
<1>2. /\ pi.link = n /\ UNCHANGED <<gateway, panel>>
      /\ pi' = Scheduled(Retired(pi)) /\ links' = Released(Closed(links, n), n)
  BY DEF ReceiveRejected, ConnectionEnds, FailOpen
<1> DEFINE r == Retired(pi)
<1>3. /\ r \in Extensions /\ r.inst = pi.inst /\ r.on = pi.on /\ r.link = 0 /\ ~r.registered
      /\ ~r.beat /\ r.timer = pi.timer /\ r.attempt = pi.attempt
  BY <1>1, RetiredTyped
<1> HIDE DEF r
<1>4. pi' = Scheduled(r) BY <1>2 DEF r
<1>5. /\ pi' \in Extensions /\ pi'.inst = r.inst /\ pi'.on = r.on /\ pi'.link = r.link
      /\ pi'.registered = r.registered /\ pi'.beat = r.beat /\ pi'.attempt = r.attempt
      /\ pi'.timer => r.timer \/ (r.on /\ r.link = 0)
  BY <1>3, <1>4, ScheduledTyped
<1>6. pi.timer => pi.on BY <1>1 DEF ExtensionSound
<1>7. EndsKept(links) BY DEF EndsKept
<1>8. QED BY <1>1, <1>2, <1>3, <1>5, <1>6, <1>7, LinkGivenUp

\* The session ends: its connection is closed, with a farewell if it may.
LEMMA SessionShutdownSound == ASSUME GatewayInv, SessionShutdown PROVE GatewayInv'
<1>1. /\ links \in Ends /\ pi \in Extensions /\ gateway \in Gateways /\ panel \in Panels
      /\ ExtensionSound /\ ConnectionsSound /\ RegistrySound /\ PublicationsSound
  BY DEF GatewayInv, Types, Ends
<1> DEFINE r == Retired(pi)
           a == [r EXCEPT !.on = FALSE]
           b == [a EXCEPT !.timer = FALSE]
<1>2. /\ r \in Extensions /\ r.inst = pi.inst /\ r.link = 0 /\ ~r.registered
      /\ ~r.beat /\ r.attempt = pi.attempt
  BY <1>1, RetiredTyped
<1> HIDE DEF r
<1>3. /\ a \in Extensions /\ a.inst = r.inst /\ a.link = r.link /\ ~a.registered
      /\ ~a.beat /\ a.attempt = r.attempt /\ ~a.on
  BY <1>2 DEF Extensions
<1> HIDE DEF a
<1>4. /\ b \in Extensions /\ b.inst = a.inst /\ b.link = a.link /\ ~b.registered
      /\ ~b.beat /\ b.attempt = a.attempt /\ ~b.on /\ ~b.timer
  BY <1>3 DEF Extensions
<1> HIDE DEF b
<1>5. pi' = b /\ pi.on /\ UNCHANGED <<gateway, panel>> BY DEF SessionShutdown, a, b, r
<1>6. CASE pi.link = 0
  <2>1. UNCHANGED links BY <1>6 DEF SessionShutdown
  <2>2. Types' BY <1>1, <1>4, <1>5, <2>1 DEF Types, Ends
  <2>3. EndsKept(links') BY <2>1 DEF EndsKept
  <2>4. ExtensionSound' BY <1>2, <1>3, <1>4, <1>5 DEF ExtensionSound
  <2>5. ConnectionsSound'
    BY <1>1, <1>2, <1>3, <1>4, <1>5, <1>6, <2>1 DEF ConnectionsSound
  <2>6. QED BY <1>1, <1>5, <2>2, <2>4, <2>5, ProcessUntouched DEF GatewayInv
<1>7. CASE pi.link # 0
  <2> DEFINE farewell == [type |-> "close", activity |-> pi.activity]
             said == IF pi.registered THEN Sent(pi.link, farewell) ELSE links
  <2>1. pi.link \in Attempts /\ farewell \in Frames
    BY <1>1, <1>7, ExtensionFields, BoundsAssumption DEF Attempts, Frames
  <2>2. links' = Released(Closed(said, pi.link), pi.link) BY <1>7 DEF SessionShutdown
  <2> HIDE DEF farewell
  <2>3. said \in Ends /\ EndsKept(said) BY <1>1, <2>1, SentTyped DEF EndsKept
  <2> HIDE DEF said
  <2>4. QED BY <1>2, <1>3, <1>4, <1>5, <2>1, <2>2, <2>3, LinkGivenUp
<1>8. QED BY <1>6, <1>7

\* A step that leaves the process alone, and binds or gives up no connection.
LEMMA ExtensionMoves ==
  ASSUME GatewayInv, pi' \in Extensions, links' \in Ends, EndsKept(links'),
         pi'.inst = pi.inst, pi'.on = pi.on, pi'.link = pi.link, pi'.timer = pi.timer,
         pi'.attempt = pi.attempt, pi'.registered => pi'.link # 0, pi'.beat => pi'.registered,
         UNCHANGED <<gateway, panel>>
  PROVE  GatewayInv'
<1>1. Types' BY DEF GatewayInv, Types, Ends
<1>2. ExtensionSound' /\ ConnectionsSound' BY EndsUnmoved DEF GatewayInv
<1>3. QED BY <1>1, <1>2, ProcessUntouched DEF GatewayInv

\* The registration is acknowledged.
LEMMA ReceiveRegisteredSound ==
  ASSUME GatewayInv, NEW n \in Attempts, ReceiveRegistered(n) PROVE GatewayInv'
<1> DEFINE a == [pi EXCEPT !.registered = TRUE]
           b == [a EXCEPT !.retries = 0]
           c == [links[n] EXCEPT !.down = Tail(@)]
<1>1. links \in Ends /\ pi \in Extensions /\ ExtensionSound BY DEF GatewayInv, Types, Ends
<1>2. /\ pi.link = n /\ links[n].down # <<>> /\ links' = [links EXCEPT ![n] = c] /\ pi' = b
      /\ UNCHANGED <<gateway, panel>>
  BY <1>1 DEF ReceiveRegistered, Ends
<1>3. n # 0 /\ 0 \in 0 .. MaxReconnects BY BoundsAssumption DEF Attempts
<1>4. /\ a \in Extensions /\ a.inst = pi.inst /\ a.on = pi.on /\ a.link = pi.link
      /\ a.timer = pi.timer /\ a.attempt = pi.attempt /\ a.registered /\ a.beat = pi.beat
  BY <1>1 DEF Extensions
<1> HIDE DEF a
<1>5. /\ b \in Extensions /\ b.inst = a.inst /\ b.on = a.on /\ b.link = a.link
      /\ b.timer = a.timer /\ b.attempt = a.attempt /\ b.registered /\ b.beat = a.beat
  BY <1>3, <1>4 DEF Extensions
<1> HIDE DEF b
<1>6. c \in Connections /\ c.stage = links[n].stage /\ c.inst = links[n].inst
  <2>1. links[n] \in Connections BY <1>1 DEF Ends
  <2>2. Tail(links[n].down) \in Seq({"registered", "rejected"})
    BY <1>2, <2>1, HeadTailProperties DEF Connections
  <2>3. QED BY <2>1, <2>2 DEF Connections
<1> HIDE DEF c
<1>7. links' \in Ends /\ EndsKept(links') BY <1>1, <1>2, <1>6 DEF Ends, EndsKept
<1>8. QED BY <1>2, <1>3, <1>4, <1>5, <1>7, ExtensionMoves

\* A heartbeat is sent.
LEMMA HeartbeatSound == ASSUME GatewayInv, Heartbeat PROVE GatewayInv'
<1> DEFINE frame == [type |-> "heartbeat", activity |-> pi.activity]
           b == [pi EXCEPT !.beat = FALSE]
<1>1. links \in Ends /\ pi \in Extensions /\ ExtensionSound BY DEF GatewayInv, Types, Ends
<1>2. /\ pi.beat /\ links' = Sent(pi.link, frame) /\ pi' = b /\ UNCHANGED <<gateway, panel>>
  BY DEF Heartbeat
<1>3. pi.link \in Attempts /\ frame \in Frames
  BY <1>1, <1>2, ExtensionFields, BoundsAssumption DEF Attempts, Frames, ExtensionSound
<1> HIDE DEF frame
<1>4. links' \in Ends /\ EndsKept(links') BY <1>1, <1>2, <1>3, SentTyped DEF EndsKept
<1>5. /\ b \in Extensions /\ b.inst = pi.inst /\ b.on = pi.on /\ b.link = pi.link
      /\ b.timer = pi.timer /\ b.attempt = pi.attempt /\ b.registered = pi.registered /\ ~b.beat
  BY <1>1 DEF Extensions
<1> HIDE DEF b
<1>6. pi'.registered => pi'.link # 0 BY <1>1, <1>2, <1>5 DEF ExtensionSound
<1>7. QED BY <1>2, <1>4, <1>5, <1>6, ExtensionMoves

\* The activity of the Pi changes.
LEMMA ActivityChangesSound == ASSUME GatewayInv, ActivityChanges PROVE GatewayInv'
<1> DEFINE activity == IF pi.activity = "idle" THEN "busy" ELSE "idle"
           frame == [type |-> "lifecycle", activity |-> activity]
           b == [pi EXCEPT !.activity = activity]
<1>1. links \in Ends /\ pi \in Extensions /\ ExtensionSound BY DEF GatewayInv, Types, Ends
<1>2. /\ pi' = b /\ UNCHANGED <<gateway, panel>>
      /\ (pi.registered /\ links' = Sent(pi.link, frame)) \/ UNCHANGED links
  BY DEF ActivityChanges
<1>3. activity \in {"idle", "busy"} OBVIOUS
<1> HIDE DEF activity
<1>4. frame \in Frames BY <1>3 DEF Frames
<1> HIDE DEF frame
<1>5. pi.registered => pi.link \in Attempts
  BY <1>1, ExtensionFields, BoundsAssumption DEF Attempts, ExtensionSound
<1>6. links' \in Ends /\ EndsKept(links') BY <1>1, <1>2, <1>4, <1>5, SentTyped DEF EndsKept
<1>7. /\ b \in Extensions /\ b.inst = pi.inst /\ b.on = pi.on /\ b.link = pi.link
      /\ b.timer = pi.timer /\ b.attempt = pi.attempt /\ b.registered = pi.registered
      /\ b.beat = pi.beat
  BY <1>1, <1>3 DEF Extensions
<1> HIDE DEF b
<1>8. (pi'.registered => pi'.link # 0) /\ (pi'.beat => pi'.registered)
  BY <1>1, <1>2, <1>7 DEF ExtensionSound
<1>9. QED BY <1>2, <1>6, <1>7, <1>8, ExtensionMoves

\* A socket breaks.
LEMMA CutLinkSound == ASSUME GatewayInv, NEW n \in Attempts, CutLink(n) PROVE GatewayInv'
<1> DEFINE c == [links[n] EXCEPT !.cut = TRUE]
<1>1. links \in Ends /\ pi \in Extensions /\ ExtensionSound BY DEF GatewayInv, Types, Ends
<1>2. links' = [links EXCEPT ![n] = c] /\ UNCHANGED <<pi, gateway, panel>>
  BY <1>1 DEF CutLink, Ends
<1>3. c \in Connections /\ c.stage = links[n].stage /\ c.inst = links[n].inst
  BY <1>1 DEF Ends, Connections
<1> HIDE DEF c
<1>4. links' \in Ends /\ EndsKept(links') BY <1>1, <1>2, <1>3 DEF Ends, EndsKept
<1>5. (pi.registered => pi.link # 0) /\ (pi.beat => pi.registered) BY <1>1 DEF ExtensionSound
<1>6. QED BY <1>1, <1>2, <1>4, <1>5, ExtensionMoves

-----------------------------------------------------------------------------
(* The steps of the process that serve connections. *)

\* What a step of the running process has to keep.
LEMMA ServedSound ==
  ASSUME GatewayInv, Live, UNCHANGED panel, pi' \in Extensions, links' \in Ends,
         Advances(gateway, gateway'), ExtensionSound', ConnectionsSound',
         gateway'.accepted \subseteq gateway.accepted, gateway'.registered \subseteq gateway'.accepted,
         Cardinality(Known(gateway')) <= SessionLimit,
         \A k \in Instances : gateway'.records[k].attempt <= gateway'.high[k]
  PROVE  GatewayInv'
<1>1. /\ Types /\ RegistrySound /\ PublicationsSound BY DEF GatewayInv
<1>2. gateway' \in Gateways /\ gateway'.phase = gateway.phase BY DEF Advances
<1>3. Types' BY <1>1, <1>2 DEF Types, Ends
<1>4. PublicationsSound' BY <1>1, PublicationsKept
<1>5. RegistrySound'
  <2>1. Known(gateway)' = Known(gateway') BY DEF Known
  <2>2. gateway'.phase \notin {"running", "closing"} => gateway'.accepted = {}
    BY <1>1, <1>2 DEF RegistrySound
  <2>3. QED BY <2>1, <2>2 DEF RegistrySound
<1>6. QED BY <1>3, <1>4, <1>5 DEF GatewayInv

\* The bounds of the registry hold where no record is new.
LEMMA KeepsBounds ==
  ASSUME GatewayInv, gateway' \in Gateways, Keeps(gateway, gateway')
  PROVE  /\ gateway'.accepted = gateway.accepted /\ gateway'.registered \subseteq gateway'.accepted
         /\ Cardinality(Known(gateway')) <= SessionLimit
         /\ \A k \in Instances : gateway'.records[k].attempt <= gateway'.high[k]
<1>1. gateway \in Gateways /\ RegistrySound BY DEF GatewayInv, Types
<1>2. Known(gateway') \subseteq Known(gateway) BY DEF Keeps
<1>3. IsFiniteSet(Known(gateway))
  <2>1. Known(gateway) \subseteq 1 .. MaxInstances BY DEF Known, Instances
  <2>2. IsFiniteSet(1 .. MaxInstances) BY BoundsAssumption, FS_Interval
  <2>3. QED BY <2>1, <2>2, FS_Subset
<1>4. /\ Cardinality(Known(gateway')) <= Cardinality(Known(gateway))
      /\ Cardinality(Known(gateway)) \in Nat /\ Cardinality(Known(gateway')) \in Nat
  BY <1>2, <1>3, FS_Subset, FS_CardinalityType
<1>5. Cardinality(Known(gateway')) <= SessionLimit
  BY <1>1, <1>4, BoundsAssumption DEF RegistrySound
<1>6. \A k \in Instances : gateway'.records[k].attempt <= gateway'.high[k]
  BY <1>1, GatewayFields DEF Keeps, RegistrySound
<1>7. QED BY <1>1, <1>5, <1>6 DEF Keeps, RegistrySound

\* A step of the running process that registers nothing.
LEMMA KeepingSound ==
  ASSUME GatewayInv, Live, UNCHANGED panel, pi' \in Extensions, links' \in Ends, EndsKept(links'),
         pi'.inst = pi.inst, pi'.on = pi.on, pi'.link = pi.link, pi'.timer = pi.timer,
         pi'.attempt = pi.attempt, pi'.registered => pi'.link # 0, pi'.beat => pi'.registered,
         Advances(gateway, gateway'), Keeps(gateway, gateway')
  PROVE  GatewayInv'
<1>1. gateway' \in Gateways BY DEF Advances
<1>2. /\ gateway'.accepted = gateway.accepted /\ gateway'.registered \subseteq gateway'.accepted
      /\ Cardinality(Known(gateway')) <= SessionLimit
      /\ \A k \in Instances : gateway'.records[k].attempt <= gateway'.high[k]
  BY <1>1, KeepsBounds
<1>3. ExtensionSound' /\ ConnectionsSound' BY <1>2, EndsUnmoved DEF GatewayInv
<1>4. QED BY <1>2, <1>3, ServedSound

\* A frame is read, and answered or not.
LEMMA AnsweredTyped ==
  ASSUME links \in Ends, NEW n \in Attempts, links[n].up # <<>>,
         NEW answer \in {"registered", "rejected"}, Answered(n, answer) \/ Consumed(n)
  PROVE  links' \in Ends /\ EndsKept(links')
<1> DEFINE down == IF links[n].stage = "open" THEN Append(links[n].down, answer) ELSE links[n].down
           b == [links[n] EXCEPT !.up = Tail(@)]
           c == [b EXCEPT !.down = down]
<1>1. links[n] \in Connections BY DEF Ends
<1>2. b \in Connections /\ b.stage = links[n].stage /\ b.inst = links[n].inst /\ b.down = links[n].down
  <2>1. Tail(links[n].up) \in Seq(Frames) BY <1>1, HeadTailProperties DEF Connections
  <2>2. QED BY <1>1, <2>1 DEF Connections
<1>3. links' = [links EXCEPT ![n] = c] \/ links' = [links EXCEPT ![n] = b]
  <2>1. CASE Answered(n, answer) BY <2>1 DEF Answered, Ends
  <2>2. CASE Consumed(n) BY <2>2 DEF Consumed, Ends
  <2>3. QED BY <2>1, <2>2
<1>4. down \in Seq({"registered", "rejected"})
  BY <1>1, AppendProperties DEF Connections
<1> HIDE DEF b, down
<1>5. c \in Connections /\ c.stage = links[n].stage /\ c.inst = links[n].inst
  BY <1>2, <1>4 DEF Connections
<1> HIDE DEF c
<1>6. QED BY <1>2, <1>3, <1>5 DEF Ends, EndsKept

\* What is known where a frame is served.
LEMMA ServedFacts ==
  ASSUME GatewayInv, NEW n \in Attempts, NEW type, Served(n, type)
  PROVE  /\ links \in Ends /\ pi \in Extensions /\ gateway \in Gateways /\ Live
         /\ n \in gateway.accepted /\ links[n].up # <<>>
         /\ Head(links[n].up).activity \in {"idle", "busy"}
         /\ links[n].inst \in Instances
         /\ (pi.registered => pi.link # 0) /\ (pi.beat => pi.registered)
         /\ Speaks(n) \subseteq Instances
<1>1. /\ links \in Ends /\ pi \in Extensions /\ gateway \in Gateways
      /\ ExtensionSound /\ ConnectionsSound
  BY DEF GatewayInv, Types, Ends
<1>2. n \in gateway.accepted /\ links[n].up # <<>> /\ gateway.phase = "running" BY DEF Served
<1>3. Head(links[n].up) \in Frames
  <2>1. links[n].up \in Seq(Frames) BY <1>1 DEF Ends, Connections
  <2>2. QED BY <1>2, <2>1, HeadTailProperties
<1>4. links[n].inst \in Instances
  <2>1. links[n].inst \in 1 .. pi.inst BY <1>1, <1>2 DEF ConnectionsSound
  <2>2. QED BY <1>1, <2>1, ExtensionFields, BoundsAssumption DEF Instances
<1>5. Speaks(n) \subseteq Instances BY <1>1 DEF Speaks, HeldBy, Known
<1>6. QED BY <1>1, <1>2, <1>3, <1>4, <1>5 DEF Frames, Live, ExtensionSound

\* A frame is rejected: the registry stays as it is.
LEMMA RejectedSound ==
  ASSUME GatewayInv, NEW n \in Attempts, NEW type, Served(n, type), Answered(n, "rejected"),
         UNCHANGED <<pi, gateway, panel>>
  PROVE  GatewayInv'
<1>1. /\ links \in Ends /\ pi \in Extensions /\ links[n].up # <<>>
      /\ (pi.registered => pi.link # 0) /\ (pi.beat => pi.registered)
  BY ServedFacts
<1>2. links' \in Ends /\ EndsKept(links') BY <1>1, AnsweredTyped
<1>3. QED BY <1>1, <1>2, ExtensionMoves

\* A frame changes the record of its extension.
LEMMA ConsumedSound ==
  ASSUME GatewayInv, NEW n \in Attempts, NEW type, Served(n, type), Consumed(n),
         UNCHANGED <<pi, panel>>, Advances(gateway, gateway'), Keeps(gateway, gateway')
  PROVE  GatewayInv'
<1>1. /\ links \in Ends /\ pi \in Extensions /\ links[n].up # <<>> /\ Live
      /\ (pi.registered => pi.link # 0) /\ (pi.beat => pi.registered)
  BY ServedFacts
<1>2. links' \in Ends /\ EndsKept(links') BY <1>1, AnsweredTyped
<1>3. QED BY <1>1, <1>2, KeepingSound

LEMMA HandleHeartbeatSound ==
  ASSUME GatewayInv, NEW n \in Attempts, HandleHeartbeat(n) PROVE GatewayInv'
<1>1. Served(n, "heartbeat") /\ UNCHANGED <<pi, panel>> BY DEF HandleHeartbeat
<1>2. gateway \in Gateways /\ Speaks(n) \subseteq Instances
      /\ Head(links[n].up).activity \in {"idle", "busy"}
  BY <1>1, ServedFacts
<1>3. CASE Answered(n, "rejected") /\ UNCHANGED gateway
  BY <1>1, <1>3, RejectedSound
<1>4. ASSUME Consumed(n), NEW k \in Speaks(n),
             gateway' = Refreshed(gateway, k, Head(links[n].up).activity,
                          gateway.records[k].activity # Head(links[n].up).activity)
      PROVE  GatewayInv'
  <2>1. Advances(gateway, gateway') /\ Keeps(gateway, gateway')
    BY <1>2, <1>4, RefreshedAdvances, BoundsAssumption
  <2>2. QED BY <1>1, <1>4, <2>1, ConsumedSound
<1>5. QED BY <1>3, <1>4 DEF HandleHeartbeat

LEMMA HandleLifecycleSound ==
  ASSUME GatewayInv, NEW n \in Attempts, HandleLifecycle(n) PROVE GatewayInv'
<1>1. Served(n, "lifecycle") /\ UNCHANGED <<pi, panel>> BY DEF HandleLifecycle
<1>2. gateway \in Gateways /\ Speaks(n) \subseteq Instances
      /\ Head(links[n].up).activity \in {"idle", "busy"}
  BY <1>1, ServedFacts
<1>3. CASE Answered(n, "rejected") /\ UNCHANGED gateway
  BY <1>1, <1>3, RejectedSound
<1>4. ASSUME Consumed(n), NEW k \in Speaks(n),
             gateway' = Refreshed(gateway, k, Head(links[n].up).activity, TRUE)
      PROVE  GatewayInv'
  <2>1. Advances(gateway, gateway') /\ Keeps(gateway, gateway')
    BY <1>2, <1>4, RefreshedAdvances, BoundsAssumption
  <2>2. QED BY <1>1, <1>4, <2>1, ConsumedSound
<1>5. QED BY <1>3, <1>4 DEF HandleLifecycle

LEMMA HandleCloseSound ==
  ASSUME GatewayInv, NEW n \in Attempts, HandleClose(n) PROVE GatewayInv'
<1>1. Served(n, "close") /\ UNCHANGED <<pi, panel>> BY DEF HandleClose
<1>2. gateway \in Gateways /\ Speaks(n) \subseteq Instances
  BY <1>1, ServedFacts
<1>3. CASE Answered(n, "rejected") /\ UNCHANGED gateway
  BY <1>1, <1>3, RejectedSound
<1>4. ASSUME Consumed(n), NEW k \in Speaks(n), gateway' = Disconnected(gateway, k)
      PROVE  GatewayInv'
  <2>1. Advances(gateway, gateway') /\ Keeps(gateway, gateway')
    BY <1>2, <1>4, DisconnectedAdvances
  <2>2. QED BY <1>1, <1>4, <2>1, ConsumedSound
<1>5. QED BY <1>3, <1>4 DEF HandleClose

\* An extension registers: only with a newer attempt, and only into a registry
\* with room for it.
LEMMA HandleRegisterSound ==
  ASSUME GatewayInv, NEW n \in Attempts, HandleRegister(n) PROVE GatewayInv'
<1> DEFINE k == links[n].inst
           activity == Head(links[n].up).activity
<1>1. Served(n, "register") /\ UNCHANGED <<pi, panel>> BY DEF HandleRegister
<1>2. /\ links \in Ends /\ pi \in Extensions /\ gateway \in Gateways /\ Live
      /\ n \in gateway.accepted /\ links[n].up # <<>> /\ k \in Instances
      /\ activity \in {"idle", "busy"}
      /\ (pi.registered => pi.link # 0) /\ (pi.beat => pi.registered)
      /\ RegistrySound
  BY <1>1, ServedFacts DEF GatewayInv
<1>3. CASE Stale(n, k) \/ Full(k)
  <2>1. Answered(n, "rejected") /\ UNCHANGED gateway BY <1>3 DEF HandleRegister
  <2>2. QED BY <1>1, <2>1, RejectedSound
<1>4. CASE ~(Stale(n, k) \/ Full(k))
  <2>1. Answered(n, "registered") /\ gateway' = Registers(gateway, n, k, activity)
    BY <1>4 DEF HandleRegister
  <2>2. links' \in Ends /\ EndsKept(links') BY <1>2, <2>1, AnsweredTyped
  <2> HIDE DEF k, activity
  <2>3. /\ Advances(gateway, gateway')
        /\ gateway'.accepted = gateway.accepted /\ gateway'.registered = gateway.registered \cup {n}
        /\ gateway'.high = [gateway.high EXCEPT ![k] = n]
        /\ \A j \in Instances :
             gateway'.records[j].attempt = IF j = k THEN n ELSE gateway.records[j].attempt
        /\ Known(gateway') \subseteq Known(gateway) \cup {k}
    BY <1>2, <2>1, RegistersAdvances, BoundsAssumption
  <2>4. \A j \in Instances : gateway'.records[j].attempt <= gateway'.high[j]
    BY <1>2, <2>3, GatewayFields DEF RegistrySound, Attempts
  <2>5. Cardinality(Known(gateway')) <= SessionLimit
    <3>1. IsFiniteSet(Known(gateway)) /\ Cardinality(Known(gateway)) \in Nat
      <4>1. Known(gateway) \subseteq 1 .. MaxInstances BY DEF Known, Instances
      <4>2. IsFiniteSet(1 .. MaxInstances) BY BoundsAssumption, FS_Interval
      <4>3. QED BY <4>1, <4>2, FS_Subset, FS_CardinalityType
    <3>2. /\ IsFiniteSet(Known(gateway) \cup {k})
          /\ Cardinality(Known(gateway) \cup {k}) =
               IF k \in Known(gateway) THEN Cardinality(Known(gateway))
               ELSE Cardinality(Known(gateway)) + 1
      BY <3>1, FS_AddElement
    <3>3. Cardinality(Known(gateway) \cup {k}) <= SessionLimit
      BY <1>2, <1>4, <3>1, <3>2, BoundsAssumption DEF Full, RegistrySound
    <3>4. /\ Cardinality(Known(gateway')) <= Cardinality(Known(gateway) \cup {k})
          /\ Cardinality(Known(gateway')) \in Nat
          /\ Cardinality(Known(gateway) \cup {k}) \in Nat
      BY <2>3, <3>2, FS_Subset, FS_CardinalityType
    <3>5. QED BY <3>3, <3>4, BoundsAssumption
  <2>6. ExtensionSound' /\ ConnectionsSound'
    BY <1>1, <1>2, <2>2, <2>3, EndsUnmoved DEF GatewayInv
  <2>7. gateway'.registered \subseteq gateway'.accepted BY <1>2, <2>3 DEF RegistrySound
  <2>8. QED BY <1>1, <1>2, <2>2, <2>3, <2>4, <2>5, <2>6, <2>7, ServedSound
<1>5. QED BY <1>3, <1>4

\* The process sees that a connection ended.
LEMMA TransportClosedSound ==
  ASSUME GatewayInv, NEW n \in Attempts, TransportClosed(n) PROVE GatewayInv'
<1> DEFINE u == Unlinked(n)
           b == [links[n] EXCEPT !.up = <<>>]
           c == [b EXCEPT !.cut = TRUE]
           l == [links EXCEPT ![n].up = <<>>, ![n].cut = TRUE]
           k == CHOOSE j \in HeldBy(gateway, n) : TRUE
<1>1. /\ links \in Ends /\ pi \in Extensions /\ gateway \in Gateways
      /\ ExtensionSound /\ ConnectionsSound /\ RegistrySound
  BY DEF GatewayInv, Types, Ends
<1>2. /\ n \in gateway.accepted /\ UNCHANGED <<pi, panel>> /\ links' = Released(l, n)
      /\ gateway' = IF HeldBy(gateway, n) = {} THEN u ELSE Disconnected(u, k)
  BY DEF TransportClosed
<1>3. Live BY <1>1, <1>2 DEF RegistrySound, Live
<1>4. /\ u \in Gateways /\ u.accepted = gateway.accepted \ {n}
      /\ u.registered = gateway.registered \ {n}
      /\ u.phase = gateway.phase /\ u.opened = gateway.opened /\ u.last = gateway.last
      /\ u.high = gateway.high /\ u.revision = gateway.revision /\ u.records = gateway.records
      /\ Outstanding(u) = Outstanding(gateway) /\ Projection(u) = Projection(gateway)
      /\ Known(u) = Known(gateway)
  BY <1>1, ForgottenConnection DEF Unlinked
<1> HIDE DEF u
<1>5. Advances(gateway, u) /\ Keeps(u, u) BY <1>4 DEF Advances, Keeps
<1>6. HeldBy(gateway, n) # {} => k \in Instances
  BY DEF HeldBy, Known
<1> HIDE DEF k
<1>7. Advances(gateway, gateway') /\ Keeps(u, gateway')
  <2>1. CASE HeldBy(gateway, n) = {} BY <1>2, <1>5, <2>1
  <2>2. CASE HeldBy(gateway, n) # {}
    <3>1. gateway' = Disconnected(u, k) BY <1>2, <2>2
    <3>2. Advances(u, gateway') /\ Keeps(u, gateway')
      BY <1>4, <1>6, <2>2, <3>1, DisconnectedAdvances
    <3>3. QED BY <1>4, <3>2 DEF Advances
  <2>3. QED BY <2>1, <2>2
<1>8. /\ gateway'.accepted = gateway.accepted \ {n}
      /\ gateway'.registered = gateway.registered \ {n} /\ gateway'.high = gateway.high
      /\ Known(gateway') \subseteq Known(gateway)
      /\ \A j \in Instances : gateway'.records[j].attempt \in {gateway.records[j].attempt, 0}
  BY <1>4, <1>7 DEF Keeps
<1>9. b \in Connections /\ b.stage = links[n].stage /\ b.inst = links[n].inst
  <2>1. <<>> \in Seq(Frames) BY EmptySeq
  <2>2. QED BY <1>1, <2>1 DEF Ends, Connections
<1>10. l = [links EXCEPT ![n] = c] BY <1>1 DEF Ends
<1> HIDE DEF b, l
<1>11. c \in Connections /\ c.stage = links[n].stage /\ c.inst = links[n].inst
  BY <1>9 DEF Connections
<1> HIDE DEF c
<1>12. l \in Ends /\ EndsKept(l) BY <1>1, <1>10, <1>11 DEF Ends, EndsKept
<1>13. /\ links' \in Ends
       /\ \A m \in Attempts :
            \/ links'[m].stage = links[m].stage /\ links'[m].inst = links[m].inst
            \/ m = n /\ links[m].stage = "closed" /\ links'[m].stage = "none"
  <2>1. links' = l \/ (l[n].stage = "closed" /\ links' = [l EXCEPT ![n] = NoLink])
    BY <1>2 DEF Released
  <2>2. QED BY <1>12, <2>1, NoLinkTyped DEF Ends, EndsKept
<1>14. \A m \in Attempts : Connects(m)' <=> Connects(m) BY <1>2, <1>13 DEF Connects
<1>15. ExtensionSound'
  <2>1. \A j, m \in Attempts : Connects(j) /\ Connects(m) => (pi.on => j = m)
    BY <1>1 DEF ExtensionSound
  <2>2. QED BY <1>1, <1>2, <1>14, <2>1 DEF ExtensionSound
<1>16. ConnectionsSound' BY <1>1, <1>2, <1>8, <1>13 DEF ConnectionsSound
<1>17. /\ Cardinality(Known(gateway')) <= SessionLimit
       /\ \A j \in Instances : gateway'.records[j].attempt <= gateway'.high[j]
  <2>1. IsFiniteSet(Known(gateway))
    <3>1. Known(gateway) \subseteq 1 .. MaxInstances BY DEF Known, Instances
    <3>2. IsFiniteSet(1 .. MaxInstances) BY BoundsAssumption, FS_Interval
    <3>3. QED BY <3>1, <3>2, FS_Subset
  <2>2. /\ Cardinality(Known(gateway')) <= Cardinality(Known(gateway))
        /\ Cardinality(Known(gateway)) \in Nat /\ Cardinality(Known(gateway')) \in Nat
    BY <1>8, <2>1, FS_Subset, FS_CardinalityType
  <2>3. Cardinality(Known(gateway')) <= SessionLimit
    BY <1>1, <2>2, BoundsAssumption DEF RegistrySound
  <2>4. QED BY <1>1, <1>8, <2>3, GatewayFields DEF RegistrySound
<1>18. gateway'.registered \subseteq gateway'.accepted BY <1>1, <1>8 DEF RegistrySound
<1>19. gateway'.accepted \subseteq gateway.accepted /\ pi' \in Extensions BY <1>1, <1>2, <1>8
<1>20. QED BY <1>2, <1>3, <1>7, <1>13, <1>15, <1>16, <1>17, <1>18, <1>19, ServedSound

-----------------------------------------------------------------------------
(* The other steps of the running process. *)

\* A step of the process that leaves connections as they are.
LEMMA UnlinkedStep ==
  ASSUME GatewayInv, Live, UNCHANGED <<pi, links, panel>>,
         Advances(gateway, gateway'), Keeps(gateway, gateway')
  PROVE  GatewayInv'
<1>1. links \in Ends /\ pi \in Extensions /\ ExtensionSound BY DEF GatewayInv, Types, Ends
<1>2. (pi.registered => pi.link # 0) /\ (pi.beat => pi.registered) BY <1>1 DEF ExtensionSound
<1>3. EndsKept(links') BY DEF EndsKept
<1>4. QED BY <1>1, <1>2, <1>3, KeepingSound

LEMMA SweepSound == ASSUME GatewayInv, Sweep PROVE GatewayInv'
<1>1. gateway \in Gateways BY DEF GatewayInv, Types
<1>2. Live /\ UNCHANGED <<pi, links, panel>> /\ gateway' = Publish(Expired(gateway))
  BY DEF Sweep, Live
<1>3. QED BY <1>1, <1>2, ExpiredAdvances, UnlinkedStep, BoundsAssumption

\* A process that registers nothing and shows what it showed.
LEMMA Idles ==
  ASSUME NEW g \in Gateways, NEW h \in Gateways,
         h.phase = g.phase, h.opened = g.opened, h.last = g.last, h.revision = g.revision,
         h.accepted = g.accepted, h.registered = g.registered, h.high = g.high,
         Outstanding(h) \subseteq Outstanding(g),
         \A k \in Instances : h.records[k].attempt = g.records[k].attempt,
         \A k \in Instances : h.records[k].available = g.records[k].available
  PROVE  Advances(g, h) /\ Keeps(g, h) /\ Projection(h) = Projection(g) /\ Known(h) = Known(g)
<1>1. Known(h) = Known(g) /\ Projection(h) = Projection(g) BY ProjectionOf
<1>2. QED BY <1>1 DEF Advances, Keeps

LEMMA TickSound == ASSUME GatewayInv, Tick PROVE GatewayInv'
<1> DEFINE records == [k \in Instances |-> Aged(gateway.records[k])]
           h == [gateway EXCEPT !.records = records]
           p == [pi EXCEPT !.beat = pi.registered]
<1>1. /\ links \in Ends /\ pi \in Extensions /\ gateway \in Gateways /\ ExtensionSound
  BY DEF GatewayInv, Types, Ends
<1>2. gateway' = h /\ pi' = p /\ Live /\ UNCHANGED <<links, panel>>
  BY <1>1 DEF Tick, Live, Gateways
<1>3. \A r \in Records : Aged(r) \in Records /\ Aged(r).attempt = r.attempt
                         /\ Aged(r).available = r.available
  <2> SUFFICES ASSUME NEW r \in Records
               PROVE  Aged(r) \in Records /\ Aged(r).attempt = r.attempt
                      /\ Aged(r).available = r.available
    OBVIOUS
  <2>1. CASE r.lease = 0 BY <2>1 DEF Aged
  <2>2. CASE r.lease # 0
    <3>1. r.lease - 1 \in Nat BY <2>2 DEF Records
    <3>2. QED BY <2>2, <3>1 DEF Records, Aged
  <2>3. QED BY <2>1, <2>2
<1>4. gateway.records \in [Instances -> Records] BY <1>1, GatewayFields
<1>5. /\ records \in [Instances -> Records]
      /\ \A k \in Instances : records[k].attempt = gateway.records[k].attempt
                              /\ records[k].available = gateway.records[k].available
  BY <1>3, <1>4
<1> HIDE DEF records
<1>6. /\ h \in Gateways /\ h.phase = gateway.phase /\ h.opened = gateway.opened
      /\ h.last = gateway.last /\ h.revision = gateway.revision /\ h.accepted = gateway.accepted
      /\ h.registered = gateway.registered /\ h.high = gateway.high /\ h.chain = gateway.chain
      /\ h.pending = gateway.pending /\ h.records = records
  BY <1>1, <1>5 DEF Gateways
<1> HIDE DEF h
<1>7. Outstanding(h) \subseteq Outstanding(gateway) BY <1>6 DEF Outstanding
<1>8. Advances(gateway, gateway') /\ Keeps(gateway, gateway')
  BY <1>1, <1>2, <1>5, <1>6, <1>7, Idles
<1>9. /\ p \in Extensions /\ p.inst = pi.inst /\ p.on = pi.on /\ p.link = pi.link
      /\ p.timer = pi.timer /\ p.attempt = pi.attempt /\ p.registered = pi.registered
      /\ p.beat = pi.registered
  BY <1>1 DEF Extensions
<1> HIDE DEF p
<1>10. pi'.registered => pi'.link # 0 BY <1>1, <1>2, <1>9 DEF ExtensionSound
<1>11. EndsKept(links') BY <1>2 DEF EndsKept
<1>12. QED BY <1>1, <1>2, <1>8, <1>9, <1>10, <1>11, KeepingSound

\* The next publication is taken from the queue.
LEMMA NextTyped ==
  ASSUME gateway \in Gateways, gateway.chain # <<>>
  PROVE  LET h == NextPublication IN
         /\ h \in Gateways /\ h.phase = gateway.phase /\ h.opened = gateway.opened
         /\ h.last = gateway.last /\ h.revision = gateway.revision
         /\ h.accepted = gateway.accepted /\ h.registered = gateway.registered
         /\ h.high = gateway.high /\ h.records = gateway.records
         /\ Outstanding(h) \subseteq Outstanding(gateway)
         /\ Head(gateway.chain) \in Projections /\ Head(gateway.chain) \in Outstanding(gateway)
<1> DEFINE rest == Tail(gateway.chain)
           left == IF gateway.awaits = 0 THEN 0 ELSE gateway.awaits - 1
           a == [gateway EXCEPT !.chain = rest]
           w == [a EXCEPT !.awaits = left]
<1>1. gateway.chain \in Seq(Projections) /\ gateway.awaits \in Nat BY GatewayFields
<1>2. /\ rest \in Seq(Projections) /\ Head(gateway.chain) \in Projections
      /\ Head(gateway.chain) \in {gateway.chain[i] : i \in DOMAIN gateway.chain}
      /\ {rest[i] : i \in DOMAIN rest} \subseteq {gateway.chain[i] : i \in DOMAIN gateway.chain}
  BY <1>1, ChainShrinks
<1>3. left \in Nat BY <1>1
<1> HIDE DEF rest, left
<1>4. NextPublication = w BY DEF NextPublication, rest, left, Gateways
<1>5. /\ a \in Gateways /\ a.phase = gateway.phase /\ a.opened = gateway.opened
      /\ a.last = gateway.last /\ a.revision = gateway.revision /\ a.accepted = gateway.accepted
      /\ a.registered = gateway.registered /\ a.high = gateway.high
      /\ a.records = gateway.records /\ a.chain = rest /\ a.pending = gateway.pending
  BY <1>2 DEF Gateways
<1> HIDE DEF a
<1>6. /\ w \in Gateways /\ w.phase = a.phase /\ w.opened = a.opened
      /\ w.last = a.last /\ w.revision = a.revision /\ w.accepted = a.accepted
      /\ w.registered = a.registered /\ w.high = a.high
      /\ w.records = a.records /\ w.chain = a.chain /\ w.pending = a.pending
  BY <1>3, <1>5 DEF Gateways
<1> HIDE DEF w
<1>7. /\ Outstanding(w) \subseteq Outstanding(gateway)
      /\ Head(gateway.chain) \in Outstanding(gateway)
  BY <1>2, <1>5, <1>6 DEF Outstanding
<1>8. QED BY <1>2, <1>4, <1>5, <1>6, <1>7

-----------------------------------------------------------------------------
(* Publisher, controls, and the life of the process. *)

\* A step that leaves the connections alone, and the registry but for what the
\* types say.
LEMMA RegistryStays ==
  ASSUME GatewayInv, UNCHANGED <<pi, links>>, gateway' \in Gateways, panel' \in Panels,
         gateway'.accepted = gateway.accepted, gateway'.registered = gateway.registered,
         gateway'.records = gateway.records, gateway'.high = gateway.high,
         gateway'.phase = gateway.phase \/ gateway.accepted = {},
         PublicationsSound'
  PROVE  GatewayInv'
<1>1. /\ Types /\ ExtensionSound /\ ConnectionsSound /\ RegistrySound BY DEF GatewayInv
<1>2. Types' BY <1>1 DEF Types
<1>3. ExtensionSound' /\ ConnectionsSound'
  <2>1. EndsKept(links') BY DEF EndsKept
  <2>2. (pi.registered => pi.link # 0) /\ (pi.beat => pi.registered) BY <1>1 DEF ExtensionSound
  <2>3. QED BY <1>1, <2>1, <2>2, EndsUnmoved
<1>4. RegistrySound'
  <2>1. Known(gateway)' = Known(gateway) BY DEF Known
  <2>2. QED BY <1>1, <2>1 DEF RegistrySound
<1>5. QED BY <1>2, <1>3, <1>4 DEF GatewayInv

\* A projection the panel has already is dropped.
LEMMA PublishStaleSound == ASSUME GatewayInv, PublishStale PROVE GatewayInv'
<1> DEFINE h == NextPublication
<1>1. gateway \in Gateways /\ panel \in Panels /\ PublicationsSound /\ Types BY DEF GatewayInv, Types
<1>2. gateway.chain # <<>> /\ gateway' = h /\ UNCHANGED <<pi, links, panel>> BY DEF PublishStale
<1>3. /\ h \in Gateways /\ h.phase = gateway.phase /\ h.opened = gateway.opened
      /\ h.last = gateway.last /\ h.revision = gateway.revision
      /\ h.accepted = gateway.accepted /\ h.registered = gateway.registered
      /\ h.high = gateway.high /\ h.records = gateway.records
      /\ Outstanding(h) \subseteq Outstanding(gateway)
  BY <1>1, <1>2, NextTyped
<1> HIDE DEF h
<1>4. Advances(gateway, h) BY <1>1, <1>3, Idles
<1>5. PublicationsSound'
  <2>1. CASE Live BY <1>1, <1>2, <1>4, <2>1, PublicationsKept
  <2>2. CASE ~Live
    <3>1. gateway.phase \notin {"off", "cleared"} BY <1>1, <1>2 DEF PublicationsSound, NewGateway
    <3>2. QED BY <1>2, <1>3, <2>2, <3>1 DEF PublicationsSound, Live
  <2>3. QED BY <2>1, <2>2
<1>6. QED BY <1>1, <1>2, <1>3, <1>5, RegistryStays

\* What the panel shows then.
LEMMA ShownTyped ==
  ASSUME NEW p \in Projections
  PROVE  Shown(p) \in Panels /\ Shown(p).shows = p
<1> DEFINE open == panel.open \/ ~gateway.opened
<1>1. open \in BOOLEAN OBVIOUS
<1>2. Shown(p) = [open |-> open, shows |-> p] BY DEF Shown
<1> HIDE DEF open
<1>3. QED BY <1>1, <1>2 DEF Panels

\* A projection is shown, or the shell fails and may have shown it.
LEMMA PublishNextSound == ASSUME GatewayInv, PublishNext PROVE GatewayInv'
<1> DEFINE h == NextPublication
           next == Head(gateway.chain)
           a == [h EXCEPT !.last = next.revision]
           w == [a EXCEPT !.opened = TRUE]
<1>1. gateway \in Gateways /\ panel \in Panels /\ PublicationsSound /\ Types BY DEF GatewayInv, Types
<1>2. /\ gateway.chain # <<>> /\ UNCHANGED <<pi, links>>
      /\ \/ panel' = Shown(next) /\ gateway' = [h EXCEPT !.last = next.revision, !.opened = TRUE]
         \/ panel' \in {panel, Shown(next)} /\ gateway' = h
  BY DEF PublishNext
<1>3. /\ h \in Gateways /\ h.phase = gateway.phase /\ h.opened = gateway.opened
      /\ h.last = gateway.last /\ h.revision = gateway.revision
      /\ h.accepted = gateway.accepted /\ h.registered = gateway.registered
      /\ h.high = gateway.high /\ h.records = gateway.records
      /\ Outstanding(h) \subseteq Outstanding(gateway)
      /\ next \in Projections /\ next \in Outstanding(gateway)
  BY <1>1, <1>2, NextTyped
<1>4. [h EXCEPT !.last = next.revision, !.opened = TRUE] = w BY <1>3 DEF Gateways
<1> HIDE DEF h, next
<1>5. /\ a \in Gateways /\ a.phase = h.phase /\ a.revision = h.revision
      /\ a.accepted = h.accepted /\ a.registered = h.registered
      /\ a.high = h.high /\ a.records = h.records /\ a.chain = h.chain /\ a.pending = h.pending
  <2>1. next.revision \in {-1} \cup Nat BY <1>3 DEF Projections
  <2>2. QED BY <1>3, <2>1 DEF Gateways
<1> HIDE DEF a
<1>6. /\ w \in Gateways /\ w.phase = a.phase /\ w.revision = a.revision
      /\ w.accepted = a.accepted /\ w.registered = a.registered
      /\ w.high = a.high /\ w.records = a.records /\ w.chain = a.chain /\ w.pending = a.pending
      /\ w.opened
  BY <1>5 DEF Gateways
<1> HIDE DEF w
<1>7. /\ gateway' \in Gateways /\ gateway'.phase = gateway.phase
      /\ gateway'.revision = gateway.revision /\ gateway'.accepted = gateway.accepted
      /\ gateway'.registered = gateway.registered /\ gateway'.high = gateway.high
      /\ gateway'.records = gateway.records
      /\ Outstanding(gateway') \subseteq Outstanding(gateway)
      /\ gateway'.opened \/ gateway'.opened = gateway.opened
  <2>1. CASE gateway' = w
    <3>1. Outstanding(w) = Outstanding(h) BY <1>5, <1>6 DEF Outstanding
    <3>2. QED BY <1>3, <1>5, <1>6, <2>1, <3>1
  <2>2. CASE gateway' = h BY <1>3, <2>2
  <2>3. QED BY <1>2, <1>4, <2>1, <2>2
<1>8. /\ panel' \in Panels
      /\ panel' = panel \/ panel'.shows = next
  BY <1>1, <1>2, <1>3, ShownTyped
<1>9. Projection(gateway') = Projection(gateway) BY <1>1, <1>7, ProjectionOf
<1>10. PublicationsSound'
  <2>1. CASE Live
    <3>1. gateway.opened /\ gateway'.opened BY <1>1, <1>7, <2>1 DEF PublicationsSound
    <3>2. OnPanel' \subseteq Published
      <4>1. OnPanel' = IF panel'.open THEN {panel'.shows} ELSE {} BY <3>1 DEF OnPanel
      <4>2. OnPanel = IF panel.open THEN {panel.shows} ELSE {} BY <3>1 DEF OnPanel
      <4>3. QED BY <1>3, <1>8, <4>1, <4>2, PublishedIs
    <3>3. Outstanding(gateway') \subseteq Published \cup {Projection(gateway')}
      BY <1>7, PublishedIs
    <3>4. gateway'.phase \in {"opened", "running", "closing"} BY <1>7, <2>1 DEF Live
    <3>5. QED BY <1>1, <1>7, <1>9, <2>1, <3>1, <3>2, <3>3, <3>4, PublicationsAdvance
  <2>2. CASE ~Live
    <3>1. gateway.phase \notin {"off", "cleared"} BY <1>1, <1>2 DEF PublicationsSound, NewGateway
    <3>2. QED BY <1>7, <2>2, <3>1 DEF PublicationsSound, Live
  <2>3. QED BY <2>1, <2>2
<1>11. QED BY <1>1, <1>2, <1>7, <1>8, <1>10, RegistryStays

\* The controls are paused, or taken back.
LEMMA PauseSound == ASSUME GatewayInv, Pause PROVE GatewayInv'
<1> DEFINE h == [gateway EXCEPT !.paused = TRUE]
<1>1. gateway \in Gateways BY DEF GatewayInv, Types
<1>2. gateway' = h /\ Live /\ UNCHANGED <<pi, links, panel>> BY DEF Pause, Commanded, Live
<1>3. /\ h \in Gateways /\ h.phase = gateway.phase /\ h.opened = gateway.opened
      /\ h.last = gateway.last /\ h.revision = gateway.revision /\ h.accepted = gateway.accepted
      /\ h.registered = gateway.registered /\ h.high = gateway.high /\ h.chain = gateway.chain
      /\ h.pending = gateway.pending /\ h.records = gateway.records
  BY <1>1 DEF Gateways
<1> HIDE DEF h
<1>4. Outstanding(h) \subseteq Outstanding(gateway) BY <1>3 DEF Outstanding
<1>5. Advances(gateway, h) /\ Keeps(gateway, h) BY <1>1, <1>3, <1>4, Idles
<1>6. QED BY <1>2, <1>5, UnlinkedStep

LEMMA ResumeSound == ASSUME GatewayInv, Resume PROVE GatewayInv'
<1>1. gateway \in Gateways BY DEF GatewayInv, Types
<1>2. Live /\ UNCHANGED <<pi, links, panel>> /\ gateway' = Resumed(gateway)
  BY DEF Resume, Commanded, Live
<1>3. QED BY <1>1, <1>2, ResumedAdvances, UnlinkedStep

\* The server destroys its sockets.
LEMMA QuitSound == ASSUME GatewayInv, Quit PROVE GatewayInv'
<1> DEFINE h == [gateway EXCEPT !.phase = "closing"]
           ends == [n \in Attempts |->
             IF n \in gateway.accepted THEN [links[n] EXCEPT !.cut = TRUE] ELSE links[n]]
<1>1. /\ gateway \in Gateways /\ links \in Ends /\ Types /\ ExtensionSound /\ ConnectionsSound
      /\ RegistrySound /\ PublicationsSound
  BY DEF GatewayInv, Types, Ends
<1>2. gateway' = h /\ links' = ends /\ gateway.phase = "running" /\ UNCHANGED <<pi, panel>>
  BY DEF Quit, Commanded
<1>3. ends \in Ends /\ EndsKept(ends)
  <2>1. \A c \in Connections : LET d == [c EXCEPT !.cut = TRUE] IN
          d \in Connections /\ d.stage = c.stage /\ d.inst = c.inst
    BY DEF Connections
  <2>2. QED BY <1>1, <2>1 DEF Ends, EndsKept
<1> HIDE DEF ends
<1>4. /\ h \in Gateways /\ h.phase = "closing" /\ h.opened = gateway.opened
      /\ h.last = gateway.last /\ h.revision = gateway.revision /\ h.accepted = gateway.accepted
      /\ h.registered = gateway.registered /\ h.high = gateway.high /\ h.chain = gateway.chain
      /\ h.pending = gateway.pending /\ h.records = gateway.records
  BY <1>1 DEF Gateways, Phases
<1> HIDE DEF h
<1>5. /\ Outstanding(h) = Outstanding(gateway) /\ Projection(h) = Projection(gateway)
      /\ Known(h) = Known(gateway)
  BY <1>1, <1>4, ProjectionOf DEF Outstanding
<1>6. Types' BY <1>1, <1>2, <1>3, <1>4 DEF Types, Ends
<1>7. ExtensionSound' /\ ConnectionsSound'
  <2>1. (pi.registered => pi.link # 0) /\ (pi.beat => pi.registered) BY <1>1 DEF ExtensionSound
  <2>2. QED BY <1>1, <1>2, <1>3, <1>4, <2>1, EndsUnmoved
<1>8. RegistrySound'
  <2>1. Known(gateway)' = Known(gateway) BY <1>2, <1>5 DEF Known
  <2>2. QED BY <1>1, <1>2, <1>4, <2>1 DEF RegistrySound
<1>9. PublicationsSound'
  <2>1. Live /\ gateway.opened BY <1>1, <1>2 DEF Live, PublicationsSound
  <2>2. OnPanel' = OnPanel BY <1>2, <1>4 DEF OnPanel
  <2>3. OnPanel \subseteq Published /\ Outstanding(gateway') \subseteq Published
    BY <1>2, <1>5, PublishedIs
  <2>4. QED BY <1>1, <1>2, <1>4, <1>5, <2>1, <2>2, <2>3, PublicationsAdvance
<1>10. QED BY <1>6, <1>7, <1>8, <1>9 DEF GatewayInv

\* A process that has just started.
LEMMA NewGatewayTyped ==
  /\ NewGateway \in Gateways /\ NewGateway.phase = "off" /\ NewGateway.accepted = {}
  /\ NewGateway.registered = {} /\ NewGateway.revision = 0 /\ NewGateway.pending = NoProjection
  /\ NewGateway.chain = <<>> /\ NewGateway.records = [k \in Instances |-> NoRecord]
  /\ NewGateway.high = [k \in Instances |-> 0]
<1>1. NoRecord \in Records BY DEF NoRecord, Records
<1>2. <<>> \in Seq(Projections) BY EmptySeq
<1>3. QED BY <1>1, <1>2, NothingProjected DEF NewGateway, Gateways, Phases

\* Without connections, and without records, the registry is sound.
LEMMA NothingRegistered ==
  ASSUME NEW g, g.records = [k \in Instances |-> NoRecord], g.high = [k \in Instances |-> 0]
  PROVE  /\ Known(g) = {} /\ Cardinality(Known(g)) <= SessionLimit
         /\ \A k \in Instances : g.records[k].attempt <= g.high[k]
<1>1. Known(g) = {} BY DEF Known, NoRecord
<1>2. Cardinality({}) = 0 BY FS_EmptySet
<1>3. QED BY <1>1, <1>2, BoundsAssumption DEF NoRecord

\* The process forgets its connections and its registry.
LEMMA GatewayForgets ==
  ASSUME GatewayInv, UNCHANGED pi, links' \in Ends, gateway' \in Gateways, panel' \in Panels,
         \A m \in Attempts :
           \/ links'[m].stage = links[m].stage /\ links'[m].inst = links[m].inst
           \/ links[m].stage = "closed" /\ links'[m].stage = "none",
         gateway'.accepted = {}, gateway'.registered = {},
         gateway'.records = [k \in Instances |-> NoRecord],
         gateway'.high = [k \in Instances |-> 0],
         PublicationsSound'
  PROVE  GatewayInv'
<1>1. /\ Types /\ ExtensionSound /\ ConnectionsSound /\ RegistrySound BY DEF GatewayInv
<1>2. Types' BY <1>1 DEF Types, Ends
<1>3. \A m \in Attempts : Connects(m)' <=> Connects(m) BY DEF Connects
<1>4. ExtensionSound'
  <2>1. \A l, m \in Attempts : Connects(l) /\ Connects(m) => (pi.on => l = m)
    BY <1>1 DEF ExtensionSound
  <2>2. QED BY <1>1, <1>3, <2>1 DEF ExtensionSound
<1>5. ConnectionsSound' BY <1>1 DEF ConnectionsSound
<1>6. RegistrySound'
  <2>1. Known(gateway)' = Known(gateway') BY DEF Known
  <2>2. QED BY <2>1, NothingRegistered DEF RegistrySound
<1>7. QED BY <1>2, <1>4, <1>5, <1>6 DEF GatewayInv

LEMMA GatewayCloseSound == ASSUME GatewayInv, GatewayClose PROVE GatewayInv'
<1> DEFINE a == [NewGateway EXCEPT !.phase = "draining"]
           b == [a EXCEPT !.revision = gateway.revision]
           c == [b EXCEPT !.chain = gateway.chain]
           d == [c EXCEPT !.last = gateway.last]
           e == [d EXCEPT !.opened = gateway.opened]
           ends == [n \in Attempts |-> IF links[n].stage = "closed" THEN NoLink ELSE links[n]]
<1>1. gateway \in Gateways /\ links \in Ends /\ panel \in Panels BY DEF GatewayInv, Types, Ends
<1>2. /\ UNCHANGED <<pi, panel>> /\ links' = ends
      /\ gateway' = e
  BY NewGatewayTyped DEF GatewayClose, Gateways
<1>3. /\ a \in Gateways /\ a.phase = "draining" /\ a.accepted = {} /\ a.registered = {}
      /\ a.records = NewGateway.records /\ a.high = NewGateway.high
  BY NewGatewayTyped DEF Gateways, Phases
<1> HIDE DEF a
<1>4. /\ b \in Gateways /\ b.phase = "draining" /\ b.accepted = {} /\ b.registered = {}
      /\ b.records = NewGateway.records /\ b.high = NewGateway.high
  BY <1>1, <1>3, GatewayFields DEF Gateways
<1> HIDE DEF b
<1>5. /\ c \in Gateways /\ c.phase = "draining" /\ c.accepted = {} /\ c.registered = {}
      /\ c.records = NewGateway.records /\ c.high = NewGateway.high
  BY <1>1, <1>4, GatewayFields DEF Gateways
<1> HIDE DEF c
<1>6. /\ d \in Gateways /\ d.phase = "draining" /\ d.accepted = {} /\ d.registered = {}
      /\ d.records = NewGateway.records /\ d.high = NewGateway.high
  BY <1>1, <1>5, GatewayFields DEF Gateways
<1> HIDE DEF d
<1>7. /\ e \in Gateways /\ e.phase = "draining" /\ e.accepted = {} /\ e.registered = {}
      /\ e.records = NewGateway.records /\ e.high = NewGateway.high
  BY <1>1, <1>6, GatewayFields DEF Gateways
<1> HIDE DEF e
<1>8. /\ ends \in Ends
      /\ \A m \in Attempts :
           \/ ends[m].stage = links[m].stage /\ ends[m].inst = links[m].inst
           \/ links[m].stage = "closed" /\ ends[m].stage = "none"
  BY <1>1, NoLinkTyped DEF Ends
<1> HIDE DEF ends
<1>9. PublicationsSound' BY <1>2, <1>7 DEF PublicationsSound, Live
<1>10. QED BY <1>1, <1>2, <1>7, <1>8, <1>9, NewGatewayTyped, GatewayForgets

\* The panel is cleared, or that fails too.
LEMMA ClearPanelSound == ASSUME GatewayInv, ClearPanel PROVE GatewayInv'
<1>1. gateway \in Gateways /\ links \in Ends /\ panel \in Panels /\ RegistrySound
  BY DEF GatewayInv, Types, Ends
<1>2. /\ UNCHANGED <<pi, links>> /\ gateway.chain = <<>> /\ panel' \in {panel, EmptyPanel}
      /\ \/ panel' = EmptyPanel /\ gateway' = Exited(gateway, "cleared")
         \/ gateway' = Exited(gateway, "failed")
  BY DEF ClearPanel, Drained, Cleared
<1>3. EmptyPanel \in Panels /\ ~EmptyPanel.open BY NothingProjected DEF EmptyPanel, Panels
<1>4. \A phase \in {"cleared", "failed"} :
        LET h == Exited(gateway, phase) IN
        /\ h \in Gateways /\ h.phase = phase /\ h.accepted = {} /\ h.registered = {}
        /\ h.records = NewGateway.records /\ h.high = NewGateway.high /\ h.chain = <<>>
  <2> SUFFICES ASSUME NEW phase \in {"cleared", "failed"}
               PROVE  LET h == Exited(gateway, phase) IN
                      /\ h \in Gateways /\ h.phase = phase /\ h.accepted = {} /\ h.registered = {}
                      /\ h.records = NewGateway.records /\ h.high = NewGateway.high
                      /\ h.chain = <<>>
    OBVIOUS
  <2> DEFINE a == [NewGateway EXCEPT !.phase = phase]
             b == [a EXCEPT !.chain = gateway.chain]
  <2>1. /\ a \in Gateways /\ a.phase = phase /\ a.accepted = {} /\ a.registered = {}
        /\ a.records = NewGateway.records /\ a.high = NewGateway.high
    BY NewGatewayTyped DEF Gateways, Phases
  <2>2. Exited(gateway, phase) = b BY NewGatewayTyped DEF Exited, Gateways
  <2> HIDE DEF a
  <2>3. /\ b \in Gateways /\ b.phase = phase /\ b.accepted = {} /\ b.registered = {}
        /\ b.records = a.records /\ b.high = a.high /\ b.chain = <<>>
    BY <1>1, <1>2, <2>1, GatewayFields DEF Gateways
  <2> HIDE DEF b
  <2>4. QED BY <2>1, <2>2, <2>3
<1>5. /\ gateway' \in Gateways /\ gateway'.phase \in {"cleared", "failed"}
      /\ gateway'.accepted = {} /\ gateway'.registered = {}
      /\ gateway'.records = NewGateway.records /\ gateway'.high = NewGateway.high
      /\ gateway'.chain = <<>> /\ panel' \in Panels
      /\ gateway'.phase = "cleared" => ~panel'.open
  BY <1>1, <1>2, <1>3, <1>4
<1>6. PublicationsSound' BY <1>5 DEF PublicationsSound, Live
<1>7. links' \in Ends BY <1>1, <1>2
<1>8. QED BY <1>2, <1>5, <1>6, <1>7, NewGatewayTyped, GatewayForgets

\* The panel is opened before the process listens.
LEMMA OpenPanelSound == ASSUME GatewayInv, OpenPanel PROVE GatewayInv'
<1> DEFINE r == gateway.revision
           a == [gateway EXCEPT !.phase = "opened"]
           b == [a EXCEPT !.last = r]
           c == [b EXCEPT !.opened = TRUE]
           f == [gateway EXCEPT !.phase = "failed"]
           now == Projection(gateway)
<1>1. /\ gateway \in Gateways /\ panel \in Panels /\ RegistrySound /\ PublicationsSound
  BY DEF GatewayInv, Types
<1>2. /\ UNCHANGED <<pi, links>> /\ gateway.phase = "off" /\ gateway = NewGateway
      /\ gateway.accepted = {}
      /\ \/ panel' = Shown(now) /\ gateway' = c
         \/ panel' \in {panel, Shown(now)} /\ gateway' = f
  BY <1>1 DEF OpenPanel, PublicationsSound, RegistrySound, Gateways
<1>3. now \in Projections /\ now.revision = r /\ r \in Nat
  BY <1>1, ProjectionTyped, GatewayFields
<1>4. Shown(now) \in Panels /\ Shown(now).shows = now BY <1>3, ShownTyped
<1> HIDE DEF r
<1>5. /\ a \in Gateways /\ a.phase = "opened" /\ a.accepted = gateway.accepted
      /\ a.registered = gateway.registered /\ a.records = gateway.records
      /\ a.high = gateway.high /\ a.revision = r /\ a.chain = gateway.chain
      /\ a.pending = gateway.pending
  BY <1>1 DEF Gateways, Phases, r
<1> HIDE DEF a
<1>6. /\ b \in Gateways /\ b.phase = "opened" /\ b.accepted = gateway.accepted
      /\ b.registered = gateway.registered /\ b.records = gateway.records
      /\ b.high = gateway.high /\ b.revision = r /\ b.chain = gateway.chain
      /\ b.pending = gateway.pending
  BY <1>3, <1>5 DEF Gateways
<1> HIDE DEF b
<1>7. /\ c \in Gateways /\ c.phase = "opened" /\ c.accepted = gateway.accepted
      /\ c.registered = gateway.registered /\ c.records = gateway.records
      /\ c.high = gateway.high /\ c.revision = r /\ c.chain = gateway.chain
      /\ c.pending = gateway.pending /\ c.opened
  BY <1>6 DEF Gateways
<1> HIDE DEF c
<1>8. /\ f \in Gateways /\ f.phase = "failed" /\ f.accepted = gateway.accepted
      /\ f.registered = gateway.registered /\ f.records = gateway.records
      /\ f.high = gateway.high
  BY <1>1 DEF Gateways, Phases
<1> HIDE DEF f
<1>9. CASE panel' = Shown(now) /\ gateway' = c
  <2>1. Projection(c) = now BY <1>1, <1>7, ProjectionOf DEF r
  <2>2. Outstanding(c) = {}
    <3>1. c.chain = <<>> /\ c.pending = NoProjection BY <1>2, <1>7, NewGatewayTyped
    <3>2. DOMAIN <<>> = {} OBVIOUS
    <3>3. QED BY <3>1, <3>2 DEF Outstanding
  <2>3. OnPanel' \subseteq {now} BY <1>4, <1>9 DEF OnPanel
  <2>4. Published' = Outstanding(gateway') \cup {Projection(gateway')} \cup OnPanel'
    BY DEF Published, Outstanding, OnPanel
  <2>5. Published' \subseteq {now} BY <1>9, <2>1, <2>2, <2>3, <2>4
  <2>6. r <= r BY <1>3
  <2> HIDE DEF now
  <2>7. Agree(Published') /\ UpTo(Published', r)
    BY <1>3, <2>5, <2>6 DEF Agree, UpTo
  <2>8. PublicationsSound' BY <1>7, <1>9, <2>7 DEF PublicationsSound
  <2>9. QED BY <1>1, <1>2, <1>4, <1>7, <1>9, <2>8, RegistryStays DEF now
<1>10. CASE panel' \in {panel, Shown(now)} /\ gateway' = f
  <2>1. PublicationsSound' BY <1>8, <1>10 DEF PublicationsSound, Live
  <2>2. panel' \in Panels BY <1>1, <1>4, <1>10
  <2>3. QED BY <1>1, <1>2, <1>8, <1>10, <2>1, <2>2, RegistryStays
<1>11. QED BY <1>2, <1>9, <1>10

\* The process listens, or cannot.
LEMMA ListenSound == ASSUME GatewayInv, Listen PROVE GatewayInv'
<1> DEFINE h == [gateway EXCEPT !.phase = "running"]
           f == [gateway EXCEPT !.phase = "draining"]
<1>1. /\ gateway \in Gateways /\ panel \in Panels /\ RegistrySound /\ PublicationsSound /\ Types
  BY DEF GatewayInv, Types
<1>2. /\ UNCHANGED <<pi, links, panel>> /\ gateway.phase = "opened" /\ gateway.accepted = {}
      /\ gateway' \in {h, f}
  BY <1>1 DEF Listen, RegistrySound
<1>3. \A w \in {h, f} :
        /\ w \in Gateways /\ w.phase \in {"running", "draining"} /\ w.accepted = gateway.accepted
        /\ w.registered = gateway.registered /\ w.records = gateway.records
        /\ w.high = gateway.high /\ w.revision = gateway.revision /\ w.chain = gateway.chain
        /\ w.pending = gateway.pending /\ w.opened = gateway.opened
  <2>1. /\ h \in Gateways /\ h.phase \in {"running", "draining"} /\ h.accepted = gateway.accepted
        /\ h.registered = gateway.registered /\ h.records = gateway.records
        /\ h.high = gateway.high /\ h.revision = gateway.revision /\ h.chain = gateway.chain
        /\ h.pending = gateway.pending /\ h.opened = gateway.opened
    BY <1>1 DEF Gateways, Phases
  <2>2. /\ f \in Gateways /\ f.phase \in {"running", "draining"} /\ f.accepted = gateway.accepted
        /\ f.registered = gateway.registered /\ f.records = gateway.records
        /\ f.high = gateway.high /\ f.revision = gateway.revision /\ f.chain = gateway.chain
        /\ f.pending = gateway.pending /\ f.opened = gateway.opened
    BY <1>1 DEF Gateways, Phases
  <2> HIDE DEF h, f
  <2>3. QED BY <2>1, <2>2
<1> HIDE DEF h, f
<1>4. /\ gateway' \in Gateways /\ gateway'.phase \in {"running", "draining"}
      /\ gateway'.accepted = gateway.accepted
      /\ gateway'.registered = gateway.registered /\ gateway'.records = gateway.records
      /\ gateway'.high = gateway.high /\ gateway'.revision = gateway.revision
      /\ gateway'.chain = gateway.chain
      /\ gateway'.pending = gateway.pending /\ gateway'.opened = gateway.opened
  BY <1>2, <1>3
<1>5. PublicationsSound'
  <2>1. CASE gateway'.phase = "running"
    <3>1. Live /\ gateway.opened BY <1>1, <1>2 DEF Live, PublicationsSound
    <3>2. Projection(gateway') = Projection(gateway) BY <1>1, <1>4, ProjectionOf
    <3>3. OnPanel' = OnPanel /\ Outstanding(gateway') = Outstanding(gateway)
      BY <1>2, <1>4 DEF OnPanel, Outstanding
    <3>4. OnPanel' \subseteq Published
          /\ Outstanding(gateway') \subseteq Published \cup {Projection(gateway')}
      BY <3>3, PublishedIs
    <3>5. QED BY <1>1, <1>4, <2>1, <3>1, <3>2, <3>4, PublicationsAdvance
  <2>2. CASE gateway'.phase = "draining" BY <2>2 DEF PublicationsSound, Live
  <2>3. QED BY <1>4, <2>1, <2>2
<1>6. panel' \in Panels BY <1>1, <1>2
<1>7. QED BY <1>2, <1>4, <1>5, <1>6, RegistryStays

\* The gateway is started again.
LEMMA StartAgainSound == ASSUME GatewayInv, StartAgain PROVE GatewayInv'
<1>1. links \in Ends /\ panel \in Panels BY DEF GatewayInv, Types, Ends
<1>2. gateway' = NewGateway /\ UNCHANGED <<pi, links, panel>> BY DEF StartAgain
<1>3. PublicationsSound' BY <1>2, NewGatewayTyped DEF PublicationsSound, Live
<1>4. QED BY <1>1, <1>2, <1>3, NewGatewayTyped, GatewayForgets

\* The shell forgets what it showed.
LEMMA ReloadPluginSound == ASSUME GatewayInv, ReloadPlugin PROVE GatewayInv'
<1>1. gateway \in Gateways /\ PublicationsSound /\ Types BY DEF GatewayInv, Types
<1>2. panel' = EmptyPanel /\ UNCHANGED <<pi, links, gateway>> BY DEF ReloadPlugin
<1>3. EmptyPanel \in Panels /\ ~EmptyPanel.open BY NothingProjected DEF EmptyPanel, Panels
<1>4. PublicationsSound'
  <2>1. CASE Live
    <3>1. OnPanel' = {} BY <1>2, <1>3 DEF OnPanel
    <3>2. Outstanding(gateway') \subseteq Published BY <1>2, PublishedIs
    <3>3. /\ gateway' = gateway /\ gateway.phase \in {"opened", "running", "closing"}
          /\ gateway.opened
      BY <1>1, <1>2, <2>1 DEF Live, PublicationsSound
    <3>4. QED BY <1>1, <2>1, <3>1, <3>2, <3>3, PublicationsAdvance
  <2>2. CASE ~Live BY <1>1, <1>2, <1>3, <2>2 DEF PublicationsSound, Live
  <2>3. QED BY <2>1, <2>2
<1>5. gateway' = gateway /\ panel' \in Panels BY <1>2, <1>3
<1>6. QED BY <1>1, <1>2, <1>4, <1>5, RegistryStays

-----------------------------------------------------------------------------
(* The theorems. *)

LEMMA GatewayStarts == Init => GatewayInv
<1> SUFFICES ASSUME Init PROVE GatewayInv
  OBVIOUS
<1>1. gateway = NewGateway /\ panel = EmptyPanel /\ links = [n \in Attempts |-> NoLink]
      /\ pi = [inst |-> 0, on |-> FALSE, link |-> 0, registered |-> FALSE, retries |-> 0,
               timer |-> FALSE, beat |-> FALSE, activity |-> "idle", attempt |-> 0]
  BY DEF Init
<1>2. pi \in Extensions /\ ~pi.on /\ pi.link = 0 /\ ~pi.timer /\ ~pi.registered /\ ~pi.beat
  <2>1. 0 \in 0 .. MaxInstances /\ 0 \in 0 .. MaxAttempts /\ 0 \in 0 .. MaxReconnects
    BY BoundsAssumption
  <2>2. QED BY <1>1, <2>1 DEF Extensions
<1>3. Types
  <2>1. EmptyPanel \in Panels BY NothingProjected DEF EmptyPanel, Panels
  <2>2. QED BY <1>1, <1>2, <2>1, NoLinkTyped, NewGatewayTyped DEF Types
<1>4. ExtensionSound BY <1>2 DEF ExtensionSound
<1>5. ConnectionsSound
  <2>1. \A n \in Attempts : links[n].stage = "none" /\ n # 0 BY <1>1, NoLinkTyped DEF Attempts
  <2>2. QED BY <1>1, <1>2, <2>1, NewGatewayTyped DEF ConnectionsSound
<1>6. RegistrySound BY <1>1, NewGatewayTyped, NothingRegistered DEF RegistrySound
<1>7. PublicationsSound BY <1>1, NewGatewayTyped DEF PublicationsSound, Live
<1>8. QED BY <1>3, <1>4, <1>5, <1>6, <1>7 DEF GatewayInv

LEMMA GatewayPreserved == GatewayInv /\ [Next]_vars => GatewayInv'
<1> SUFFICES ASSUME GatewayInv, [Next]_vars PROVE GatewayInv'
  OBVIOUS
<1>1. CASE SessionStart \/ ReconnectTimer BY <1>1, BeginSound
<1>2. CASE Heartbeat BY <1>2, HeartbeatSound
<1>3. CASE ActivityChanges BY <1>3, ActivityChangesSound
<1>4. CASE SessionShutdown BY <1>4, SessionShutdownSound
<1>5. ASSUME NEW n \in Attempts,
             \/ ConnectSucceeds(n) \/ ConnectFails(n) \/ ReceiveRegistered(n)
             \/ ReceiveRejected(n) \/ ConnectionEnds(n) \/ CutLink(n)
      PROVE  GatewayInv'
  BY <1>5, ConnectSucceedsSound, ConnectFailsSound, ReceiveRegisteredSound, FailOpenSound,
     CutLinkSound
<1>6. ASSUME NEW n \in Attempts,
             \/ HandleRegister(n) \/ HandleHeartbeat(n) \/ HandleLifecycle(n) \/ HandleClose(n)
             \/ TransportClosed(n)
      PROVE  GatewayInv'
  BY <1>6, HandleRegisterSound, HandleHeartbeatSound, HandleLifecycleSound, HandleCloseSound,
     TransportClosedSound
<1>7. CASE Sweep BY <1>7, SweepSound
<1>8. CASE Tick BY <1>8, TickSound
<1>9. CASE PublishStale \/ PublishNext BY <1>9, PublishStaleSound, PublishNextSound
<1>10. CASE Pause \/ Resume \/ Quit BY <1>10, PauseSound, ResumeSound, QuitSound
<1>11. CASE GatewayClose \/ ClearPanel \/ OpenPanel
  BY <1>11, GatewayCloseSound, ClearPanelSound, OpenPanelSound
<1>12. CASE Listen \/ StartAgain \/ ReloadPlugin
  BY <1>12, ListenSound, StartAgainSound, ReloadPluginSound
<1>13. CASE UNCHANGED vars
  <2>1. UNCHANGED <<pi, links, gateway, panel>> BY <1>13 DEF vars
  <2>2. links \in Ends /\ pi \in Extensions /\ ExtensionSound BY DEF GatewayInv, Types, Ends
  <2>3. (pi.registered => pi.link # 0) /\ (pi.beat => pi.registered) BY <2>2 DEF ExtensionSound
  <2>4. EndsKept(links') BY <2>1 DEF EndsKept
  <2>5. QED BY <2>1, <2>2, <2>3, <2>4, ExtensionMoves
<1>14. QED
  BY <1>1, <1>2, <1>3, <1>4, <1>5, <1>6, <1>7, <1>8, <1>9, <1>10, <1>11, <1>12, <1>13 DEF Next

\* The extension, its connections, the registry and the publisher agree, for
\* any number of sessions, connections, publications and failures.
THEOREM GatewayStaysSound == Spec => []GatewayInv
<1>1. QED BY GatewayStarts, GatewayPreserved, PTL DEF Spec

\* The types of the extension, its connections, the process and the panel: an
\* extension is registered only over the connection it is bound to, only the
\* bound connection is open, and the registry holds no more than
\* OBSERVER_MAX_SESSIONS (AgentRegistry.register).
THEOREM GatewayTypesCorrect == Spec => []TypeOK
<1>1. GatewayInv => TypeOK
  <2> SUFFICES ASSUME GatewayInv PROVE TypeOK
    OBVIOUS
  <2>1. /\ pi \in Extensions /\ links \in Ends /\ gateway \in Gateways /\ panel \in Panels
        /\ ExtensionSound /\ ConnectionsSound /\ RegistrySound
    BY DEF GatewayInv, Types, Ends
  <2>2. \A n \in Attempts :
          /\ links[n].stage \in {"none", "connecting", "open", "closed"}
          /\ links[n].up \in Seq(Frames) /\ links[n].down \in Seq({"registered", "rejected"})
    BY <2>1 DEF Ends, Connections
  <2>3. panel.open \in BOOLEAN /\ panel.shows \in Projections BY <2>1 DEF Panels
  <2>4. pi \in [inst : 0 .. MaxInstances, on : BOOLEAN, link : 0 .. MaxAttempts,
                registered : BOOLEAN, retries : 0 .. MaxReconnects, timer : BOOLEAN,
                beat : BOOLEAN, activity : {"idle", "busy"}, attempt : 0 .. MaxAttempts]
    BY <2>1 DEF Extensions
  <2>5. QED
    BY <2>1, <2>2, <2>3, <2>4, GatewayFields
       DEF TypeOK, ExtensionSound, ConnectionsSound, RegistrySound, Phases
<1>2. QED BY <1>1, GatewayStaysSound, PTL

\* The publisher drops a projection whose revision the panel has
\* (LiveCompanionProjection.publish): two projections of one revision, queued,
\* kept for a resume, shown, or held by the registry now, show the same agents.
THEOREM RevisionsCorrect == Spec => []RevisionIdentifiesProjection
<1>1. GatewayInv => RevisionIdentifiesProjection
  BY DEF GatewayInv, PublicationsSound, Live, Agree, RevisionIdentifiesProjection
<1>2. QED BY <1>1, GatewayStaysSound, PTL

\* A panel the process cleared on its way out (clearObservedAgents) is not
\* opened again by a publication that was still under way.
THEOREM ClearedCorrect == Spec => []ClearedStaysCleared
<1>1. GatewayInv => ClearedStaysCleared
  BY DEF GatewayInv, PublicationsSound, ClearedStaysCleared
<1>2. QED BY <1>1, GatewayStaysSound, PTL
=============================================================================
