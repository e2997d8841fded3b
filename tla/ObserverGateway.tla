-------------------------- MODULE ObserverGateway ---------------------------
(***************************************************************************)
(* The observation-only bridge of prototypes/first-vertical-slice: the Pi  *)
(* extension (observer/extension-adapter.ts, as                            *)
(* manual/live-observer-extension.ts builds it), the Unix socket, the      *)
(* gateway process (manual/live-observer-gateway.ts) with its              *)
(* AgentRegistry (observer/registry.ts) and LiveCompanionProjection, and   *)
(* the panel of unassigned agents (console/plugin/AgentConsole.qml).       *)
(*                                                                         *)
(* One Pi process starts observer sessions one after the other, each with  *)
(* a fresh extension identity; registration attempts number its            *)
(* connections over all of them.  Time passes in ticks of one heartbeat    *)
(* interval.  The source sequence of a frame is not kept: an extension     *)
(* numbers its frames in the order it sends them, so among frames the      *)
(* attempt and the connection let through it always grows.                 *)
(***************************************************************************)
EXTENDS Integers, Sequences, FiniteSets

CONSTANTS
  SessionLimit,   \* OBSERVER_MAX_SESSIONS
  LeaseTicks,     \* OBSERVER_LEASE_DURATION_MS in heartbeat intervals
  MaxReconnects,  \* maxReconnectAttempts of the extension
  MaxInstances,   \* bound: observer sessions of the Pi
  MaxAttempts,    \* bound: registration attempts of the Pi
  PublishQueue,   \* bound: publications waiting for the shell
  Budget          \* bound: how often each thing outside may happen

Kinds == {"cut", "refuse", "stall", "shell", "listen", "reload", "control", "flip", "restart", "all"}
ASSUME BoundsAssumption ==
  /\ {SessionLimit, LeaseTicks, MaxInstances, MaxAttempts, PublishQueue} \subseteq Nat \ {0}
  /\ MaxReconnects \in Nat
  /\ Budget \in [Kinds -> Nat]

VARIABLES
  pi,       \* the observer extension in its Pi process
  links,    \* its connections, by registration attempt
  gateway,  \* the gateway process: registry, publisher and controls
  panel,    \* what the plugin shows of unassigned agents
  budget    \* what is left of Budget

vars == <<pi, links, gateway, panel, budget>>

Instances == 1 .. MaxInstances
Attempts == 1 .. MaxAttempts

Spend(what) ==
  /\ budget[what] > 0 /\ budget["all"] > 0
  /\ budget' = [budget EXCEPT ![what] = @ - 1, !["all"] = @ - 1]

NoLink == [stage |-> "none", inst |-> 0, up |-> <<>>, down |-> <<>>, cut |-> FALSE]
NoRecord == [link |-> 0, attempt |-> 0, activity |-> "idle", available |-> FALSE, lease |-> 0]
NoProjection == [revision |-> -1, agents |-> [k \in Instances |-> "none"]]
EmptyPanel == [open |-> FALSE, shows |-> NoProjection]

NewSession(p) ==
  [p EXCEPT !.inst = @ + 1, !.on = TRUE, !.retries = 0, !.timer = FALSE, !.activity = "idle"]

NewGateway ==
  [phase |-> "off", accepted |-> {}, registered |-> {},
   records |-> [k \in Instances |-> NoRecord], high |-> [k \in Instances |-> 0], revision |-> 0,
   paused |-> FALSE, pending |-> NoProjection, chain |-> <<>>, awaits |-> 0,
   last |-> -1, opened |-> FALSE]

-----------------------------------------------------------------------------
(* The registry. *)

Known(g) == {k \in Instances : g.records[k].attempt # 0}
HeldBy(g, n) == {k \in Known(g) : g.records[k].link = n}

Projection(g) ==
  [revision |-> g.revision,
   agents |-> [k \in Instances |->
     CASE k \notin Known(g) -> "none"
       [] g.records[k].available -> "available"
       [] OTHER -> "unavailable"]]

\* A publication waits behind the earlier ones; while the controls are paused
\* only the latest is kept.
Publish(g) ==
  IF g.paused THEN [g EXCEPT !.pending = Projection(g)]
  ELSE [g EXCEPT !.chain = Append(@, Projection(g))]

Registers(g, n, k, activity) ==
  Publish([g EXCEPT
    !.records[k] = [link |-> n, attempt |-> n, activity |-> activity, available |-> TRUE,
                    lease |-> LeaseTicks],
    !.high[k] = n, !.revision = @ + 1, !.registered = @ \cup {n}])

Refreshed(g, k, activity, changed) ==
  Publish([g EXCEPT
    !.records[k] = [@ EXCEPT !.activity = activity, !.lease = LeaseTicks],
    !.revision = IF changed THEN @ + 1 ELSE @])

Disconnected_SameRevision(g, k) ==
  Publish([g EXCEPT !.records[k] = [@ EXCEPT !.link = 0, !.available = FALSE]])
Disconnected(g, k) ==
  Publish([g EXCEPT
    !.records[k] = [@ EXCEPT !.link = 0, !.available = FALSE], !.revision = @ + 1])

Lapsed(g) == {k \in Known(g) : g.records[k].lease = 0}
\* The record goes, the high-water mark of its extension stays.
Expired(g) ==
  [g EXCEPT !.records = [k \in Instances |-> IF k \in Lapsed(g) THEN NoRecord ELSE @[k]],
            !.revision = @ + Cardinality(Lapsed(g))]

-----------------------------------------------------------------------------
(* The extension. *)

Init ==
  /\ pi = [inst |-> 0, on |-> FALSE, link |-> 0, registered |-> FALSE, retries |-> 0,
           timer |-> FALSE, beat |-> FALSE, activity |-> "idle", attempt |-> 0]
  /\ links = [n \in Attempts |-> NoLink]
  /\ gateway = NewGateway
  /\ panel = EmptyPanel
  /\ budget = Budget

\* scheduleReconnect: one timer, and only so many in a row without a
\* registration.
Scheduled(p) ==
  IF p.on /\ p.link = 0 /\ ~p.timer /\ p.retries < MaxReconnects
  THEN [p EXCEPT !.timer = TRUE, !.retries = @ + 1]
  ELSE p

Retired(p) == [p EXCEPT !.link = 0, !.registered = FALSE, !.beat = FALSE]

\* Neither end uses the socket any more.
Released(l, n) ==
  IF l[n].stage = "closed" /\ n \notin gateway'.accepted THEN [l EXCEPT ![n] = NoLink] ELSE l

Closed(l, n) == [l EXCEPT ![n].stage = "closed", ![n].down = <<>>]

Connecting(p) ==
  /\ p.attempt < MaxAttempts
  /\ pi' = [p EXCEPT !.attempt = @ + 1]
  /\ links' = [links EXCEPT ![p.attempt + 1] = [NoLink EXCEPT !.stage = "connecting", !.inst = p.inst]]

SessionStart ==
  /\ ~pi.on /\ pi.inst < MaxInstances
  /\ Connecting(NewSession(pi))
  /\ UNCHANGED <<gateway, panel, budget>>

ReconnectTimer ==
  /\ pi.timer
  /\ Connecting([pi EXCEPT !.timer = FALSE])
  /\ UNCHANGED <<gateway, panel, budget>>

\* A connection of the running session is bound and registers; one whose
\* session ended meanwhile is closed unused.
ConnectSucceeds(n) ==
  /\ links[n].stage = "connecting" /\ gateway.phase = "running"
  /\ IF pi.on /\ links[n].inst = pi.inst
     THEN /\ pi' = [pi EXCEPT !.link = n]
          /\ links' = [links EXCEPT ![n].stage = "open",
                         ![n].up = <<[type |-> "register", activity |-> pi.activity]>>]
          /\ gateway' = [gateway EXCEPT !.accepted = @ \cup {n}]
     ELSE /\ links' = [links EXCEPT ![n] = NoLink]
          /\ UNCHANGED <<pi, gateway>>
  /\ UNCHANGED <<panel, budget>>

ConnectFails(n) ==
  /\ links[n].stage = "connecting"
  /\ \/ gateway.phase # "running" /\ UNCHANGED budget
     \/ gateway.phase = "running" /\ Spend("refuse")
  /\ links' = [links EXCEPT ![n] = NoLink]
  /\ pi' = IF links[n].inst = pi.inst THEN Scheduled(pi) ELSE pi
  /\ UNCHANGED <<gateway, panel>>

\* failOpen: the connection is given up and another one scheduled.
FailOpen_Silent(n) ==
  /\ pi' = Retired(pi)
  /\ links' = Released(Closed(links, n), n)
FailOpen(n) ==
  /\ pi' = Scheduled(Retired(pi))
  /\ links' = Released(Closed(links, n), n)

ReceiveRegistered(n) ==
  /\ pi.link = n /\ links[n].down # <<>> /\ Head(links[n].down) = "registered"
  /\ pi' = [pi EXCEPT !.registered = TRUE, !.retries = 0]
  /\ links' = [links EXCEPT ![n].down = Tail(@)]
  /\ UNCHANGED <<gateway, panel, budget>>

ReceiveRejected(n) ==
  /\ pi.link = n /\ links[n].down # <<>> /\ Head(links[n].down) = "rejected"
  /\ UNCHANGED <<gateway, panel, budget>>
  /\ FailOpen(n)

\* The socket ended; what the gateway sent before may or may not arrive.
ConnectionEnds(n) ==
  /\ pi.link = n /\ links[n].cut
  /\ UNCHANGED <<gateway, panel, budget>>
  /\ FailOpen(n)

\* What is written to a broken socket is lost.
Sent(n, frame) == IF links[n].cut THEN links ELSE [links EXCEPT ![n].up = Append(@, frame)]

Heartbeat ==
  /\ pi.beat
  /\ links' = Sent(pi.link, [type |-> "heartbeat", activity |-> pi.activity])
  /\ pi' = [pi EXCEPT !.beat = FALSE]
  /\ UNCHANGED <<gateway, panel, budget>>

\* The activity of the Pi changes, with an event of its own or seen only by
\* the next heartbeat.
ActivityChanges ==
  /\ pi.on /\ Spend("flip")
  /\ LET activity == IF pi.activity = "idle" THEN "busy" ELSE "idle"
     IN /\ pi' = [pi EXCEPT !.activity = activity]
        /\ \/ pi.registered /\ links' = Sent(pi.link, [type |-> "lifecycle", activity |-> activity])
           \/ UNCHANGED links
  /\ UNCHANGED <<gateway, panel>>

SessionShutdown ==
  /\ pi.on
  /\ UNCHANGED <<gateway, panel, budget>>
  /\ pi' = [Retired(pi) EXCEPT !.on = FALSE, !.timer = FALSE]
  /\ IF pi.link = 0 THEN UNCHANGED links
     ELSE LET farewell == [type |-> "close", activity |-> pi.activity]
              said == IF pi.registered THEN Sent(pi.link, farewell) ELSE links
          IN links' = Released(Closed(said, pi.link), pi.link)

\* The socket breaks, or the process at its other end destroys it.
CutLink(n) ==
  /\ links[n].stage = "open" /\ ~links[n].cut /\ Spend("cut")
  /\ links' = [links EXCEPT ![n].cut = TRUE]
  /\ UNCHANGED <<pi, gateway, panel>>

-----------------------------------------------------------------------------
(* The gateway: frames, closed connections and expiry. *)

Room == Len(gateway.chain) < PublishQueue
Served(n, type) ==
  /\ gateway.phase = "running" /\ n \in gateway.accepted /\ Room
  /\ links[n].up # <<>> /\ Head(links[n].up).type = type

Answered(n, answer) ==
  links' = [links EXCEPT ![n].up = Tail(@),
              ![n].down = IF links[n].stage = "open" THEN Append(@, answer) ELSE @]
Consumed(n) == links' = [links EXCEPT ![n].up = Tail(@)]

Stale(n, k) == n <= gateway.high[k]
Full_OneMore(k) == k \notin Known(gateway) /\ Cardinality(Known(gateway)) > SessionLimit
Full(k) == k \notin Known(gateway) /\ Cardinality(Known(gateway)) >= SessionLimit

HandleRegister(n) ==
  LET k == links[n].inst IN
  /\ Served(n, "register")
  /\ IF Stale(n, k) \/ Full(k)
     THEN Answered(n, "rejected") /\ UNCHANGED gateway
     ELSE /\ Answered(n, "registered")
          /\ gateway' = Registers(gateway, n, k, Head(links[n].up).activity)
  /\ UNCHANGED <<pi, panel, budget>>

\* Only the current connection of a record may speak for it.
Speaks(n) == IF n \in gateway.registered THEN HeldBy(gateway, n) ELSE {}

HandleHeartbeat(n) ==
  /\ Served(n, "heartbeat")
  /\ \/ /\ Speaks(n) = {} /\ Answered(n, "rejected") /\ UNCHANGED gateway
     \/ /\ Consumed(n)
        /\ \E k \in Speaks(n) :
             LET activity == Head(links[n].up).activity
             IN gateway' = Refreshed(gateway, k, activity, gateway.records[k].activity # activity)
  /\ UNCHANGED <<pi, panel, budget>>

HandleLifecycle(n) ==
  /\ Served(n, "lifecycle")
  /\ \/ /\ Speaks(n) = {} /\ Answered(n, "rejected") /\ UNCHANGED gateway
     \/ /\ Consumed(n)
        /\ \E k \in Speaks(n) : gateway' = Refreshed(gateway, k, Head(links[n].up).activity, TRUE)
  /\ UNCHANGED <<pi, panel, budget>>

HandleClose(n) ==
  /\ Served(n, "close")
  /\ \/ /\ Speaks(n) = {} /\ Answered(n, "rejected") /\ UNCHANGED gateway
     \/ /\ Consumed(n)
        /\ \E k \in Speaks(n) : gateway' = Disconnected(gateway, k)
  /\ UNCHANGED <<pi, panel, budget>>

Unlinked(n) == [gateway EXCEPT !.accepted = @ \ {n}, !.registered = @ \ {n}]

\* The end of a connection; frames that were still unread may be lost.
TransportClosed(n) ==
  /\ n \in gateway.accepted /\ Room
  /\ links[n].stage = "closed" \/ links[n].cut
  /\ gateway' = IF HeldBy(gateway, n) = {} THEN Unlinked(n)
                ELSE Disconnected(Unlinked(n), CHOOSE k \in HeldBy(gateway, n) : TRUE)
  /\ links' = Released([links EXCEPT ![n].up = <<>>, ![n].cut = TRUE], n)
  /\ UNCHANGED <<pi, panel, budget>>

\* A sweep that expires nothing repeats the projection: another chance for one
\* the shell refused.  It is left out while a publication is waiting.
Sweep ==
  /\ gateway.phase = "running" /\ Room
  /\ Lapsed(gateway) # {} \/ gateway.chain = <<>>
  /\ gateway' = Publish(Expired(gateway))
  /\ UNCHANGED <<pi, links, panel, budget>>

\* What is left of a lease.
Aged(record) == IF record.lease = 0 THEN record ELSE [record EXCEPT !.lease = @ - 1]

\* A heartbeat interval passes.  Heartbeats that are due and frames that are
\* sent are dealt with in time, unless a process stalls.
Timely == ~pi.beat /\ \A n \in Attempts : links[n].up = <<>> /\ links[n].down = <<>>
Tick ==
  /\ gateway.phase = "running"
  /\ \/ Timely /\ UNCHANGED budget
     \/ ~Timely /\ Spend("stall")
  /\ pi' = [pi EXCEPT !.beat = pi.registered]
  /\ gateway' = [gateway EXCEPT !.records = [k \in Instances |-> Aged(@[k])]]
  /\ UNCHANGED <<links, panel>>

-----------------------------------------------------------------------------
(* The publisher, the controls and the life of the process. *)

\* openObservedAgents once, applyObservedAgents from then on: only the first
\* opens the panel.
Shown(projection) == [open |-> panel.open \/ ~gateway.opened, shows |-> projection]
Cleared == EmptyPanel

NextPublication ==
  [gateway EXCEPT !.chain = Tail(@), !.awaits = IF @ = 0 THEN 0 ELSE @ - 1]

\* The panel's revision is already this one or a later one.
PublishStale ==
  /\ gateway.chain # <<>> /\ Head(gateway.chain).revision <= gateway.last
  /\ gateway' = NextPublication
  /\ UNCHANGED <<pi, links, panel, budget>>

PublishNext_AdvancesFirst ==
  /\ gateway.chain # <<>> /\ Head(gateway.chain).revision > gateway.last
  /\ gateway' = [NextPublication EXCEPT !.last = Head(gateway.chain).revision, !.opened = TRUE]
  /\ \/ panel' = Shown(Head(gateway.chain)) /\ UNCHANGED budget
     \/ Spend("shell") /\ panel' \in {panel, Shown(Head(gateway.chain))}
  /\ UNCHANGED <<pi, links>>
PublishNext ==
  /\ gateway.chain # <<>> /\ Head(gateway.chain).revision > gateway.last
  /\ \/ /\ panel' = Shown(Head(gateway.chain)) /\ UNCHANGED budget
        /\ gateway' = [NextPublication EXCEPT !.last = Head(gateway.chain).revision, !.opened = TRUE]
     \/ /\ Spend("shell") /\ panel' \in {panel, Shown(Head(gateway.chain))}
        /\ gateway' = NextPublication
  /\ UNCHANGED <<pi, links>>

Commanded == gateway.phase = "running" /\ gateway.awaits = 0
Pause ==
  /\ Commanded /\ ~gateway.paused /\ Spend("control")
  /\ gateway' = [gateway EXCEPT !.paused = TRUE]
  /\ UNCHANGED <<pi, links, panel>>

Resumed(g) ==
  LET latest == IF g.pending = NoProjection THEN Projection(g) ELSE g.pending
  IN [g EXCEPT !.paused = FALSE, !.pending = NoProjection, !.chain = Append(@, latest),
               !.awaits = Len(g.chain) + 1]

\* (Without a pause it only repeats the projection, as a sweep does.)
Resume ==
  /\ Commanded /\ Room /\ gateway.paused
  /\ gateway' = Resumed(gateway)
  /\ UNCHANGED <<pi, links, panel, budget>>

\* quit: the server destroys its sockets and stops listening.
Quit ==
  /\ Commanded
  /\ gateway' = [gateway EXCEPT !.phase = "closing"]
  /\ links' = [n \in Attempts |->
       IF n \in gateway.accepted THEN [links[n] EXCEPT !.cut = TRUE] ELSE links[n]]
  /\ UNCHANGED <<pi, panel, budget>>

\* The gateway forgets its connections and its registry.
GatewayClose ==
  /\ gateway.phase = "closing"
  /\ gateway' = [NewGateway EXCEPT !.phase = "draining", !.revision = gateway.revision,
                   !.chain = gateway.chain, !.last = gateway.last, !.opened = gateway.opened]
  /\ links' = [n \in Attempts |-> IF links[n].stage = "closed" THEN NoLink ELSE links[n]]
  /\ UNCHANGED <<pi, panel, budget>>

\* When the publications are through, the panel is cleared at best effort.
Drained_NotAwaited == TRUE
Drained == gateway.chain = <<>>
\* The process ends; publications it did not wait for would still run first.
Exited(g, phase) == [NewGateway EXCEPT !.phase = phase, !.chain = g.chain]
ClearPanel ==
  /\ gateway.phase = "draining" /\ Drained
  /\ \/ panel' = Cleared /\ gateway' = Exited(gateway, "cleared") /\ UNCHANGED budget
     \/ panel' \in {panel, Cleared} /\ gateway' = Exited(gateway, "failed") /\ Spend("shell")
  /\ UNCHANGED <<pi, links>>

\* The process verifies the plugin and opens the panel before it listens.
OpenPanel ==
  /\ gateway.phase = "off"
  /\ \/ /\ panel' = Shown(Projection(gateway)) /\ UNCHANGED budget
        /\ gateway' = [gateway EXCEPT !.phase = "opened", !.last = gateway.revision, !.opened = TRUE]
     \/ /\ Spend("shell") /\ panel' \in {panel, Shown(Projection(gateway))}
        /\ gateway' = [gateway EXCEPT !.phase = "failed"]
  /\ UNCHANGED <<pi, links>>

Listen ==
  /\ gateway.phase = "opened"
  /\ \/ gateway' = [gateway EXCEPT !.phase = "running"] /\ UNCHANGED budget
     \/ gateway' = [gateway EXCEPT !.phase = "draining"] /\ Spend("listen")
  /\ UNCHANGED <<pi, links, panel>>

StartAgain ==
  /\ gateway.phase \in {"cleared", "failed"} /\ Spend("restart")
  /\ gateway' = NewGateway
  /\ UNCHANGED <<pi, links, panel>>

\* The shell loads the plugin anew.
ReloadPlugin ==
  /\ panel # EmptyPanel /\ Spend("reload")
  /\ panel' = EmptyPanel
  /\ UNCHANGED <<pi, links, gateway>>

Next ==
  \/ SessionStart \/ ReconnectTimer \/ Heartbeat \/ ActivityChanges \/ SessionShutdown
  \/ \E n \in Attempts :
       \/ ConnectSucceeds(n) \/ ConnectFails(n) \/ ReceiveRegistered(n) \/ ReceiveRejected(n)
       \/ ConnectionEnds(n) \/ CutLink(n) \/ HandleRegister(n) \/ HandleHeartbeat(n)
       \/ HandleLifecycle(n) \/ HandleClose(n) \/ TransportClosed(n)
  \/ Sweep \/ Tick \/ PublishStale \/ PublishNext \/ Pause \/ Resume \/ Quit \/ GatewayClose
  \/ ClearPanel \/ OpenPanel \/ Listen \/ StartAgain \/ ReloadPlugin

Spec == Init /\ [][Next]_vars

(* Timers fire, sockets and callbacks make progress, the clock advances and *)
(* the shell answers; nobody has to command, restart, break or reload.      *)
Settling(n) ==
  \/ ConnectSucceeds(n) \/ ConnectFails(n) \/ ReceiveRegistered(n) \/ ReceiveRejected(n)
  \/ ConnectionEnds(n)
Serving(n) ==
  HandleRegister(n) \/ HandleHeartbeat(n) \/ HandleLifecycle(n) \/ HandleClose(n) \/ TransportClosed(n)
Publishing == PublishStale \/ PublishNext
Fairness ==
  /\ WF_vars(ReconnectTimer) /\ WF_vars(Heartbeat) /\ WF_vars(Sweep) /\ WF_vars(Tick)
  /\ WF_vars(Publishing)
  /\ \A n \in Attempts : WF_vars(Settling(n)) /\ WF_vars(Serving(n))
FairSpec == Spec /\ Fairness

-----------------------------------------------------------------------------
(* Properties. *)

Projections ==
  [revision : {-1} \cup Nat, agents : [Instances -> {"none", "available", "unavailable"}]]
Frames == [type : {"register", "heartbeat", "lifecycle", "close"}, activity : {"idle", "busy"}]

\* The types of the extension, its connections, the process and the panel; an
\* extension is registered only over the connection it is bound to, and every
\* connection it has used is numbered.
TypeOK ==
  /\ pi \in [inst : 0 .. MaxInstances, on : BOOLEAN, link : 0 .. MaxAttempts, registered : BOOLEAN,
             retries : 0 .. MaxReconnects, timer : BOOLEAN, beat : BOOLEAN, activity : {"idle", "busy"},
             attempt : 0 .. MaxAttempts]
  /\ pi.registered => pi.link # 0
  /\ pi.beat => pi.registered
  /\ \A n \in Attempts :
       /\ links[n].stage \in {"none", "connecting", "open", "closed"}
       /\ links[n].up \in Seq(Frames) /\ links[n].down \in Seq({"registered", "rejected"})
       /\ links[n].stage # "none" => n <= pi.attempt
       /\ links[n].stage = "open" => pi.link = n
  /\ gateway.phase \in {"off", "opened", "running", "closing", "draining", "cleared", "failed"}
  /\ gateway.registered \subseteq gateway.accepted /\ gateway.accepted \subseteq Attempts
  /\ Cardinality(Known(gateway)) <= SessionLimit
  /\ \A k \in Instances : gateway.records[k].attempt <= gateway.high[k]
  /\ gateway.revision \in Nat /\ gateway.last \in {-1} \cup Nat
  /\ gateway.chain \in Seq(Projections) /\ gateway.pending \in Projections
  /\ panel.open \in BOOLEAN /\ panel.shows \in Projections

Published ==
  {gateway.chain[i] : i \in DOMAIN gateway.chain} \cup {Projection(gateway)}
    \cup (IF gateway.pending = NoProjection THEN {} ELSE {gateway.pending})
    \cup (IF gateway.opened /\ panel.open THEN {panel.shows} ELSE {})

\* The publisher drops a projection whose revision the panel has: two
\* projections of one revision must therefore show the same agents, the one
\* on the panel and the one the registry has now included.
RevisionIdentifiesProjection ==
  gateway.phase \in {"opened", "running", "closing"} =>
    \A a, b \in Published : a.revision = b.revision => a.agents = b.agents

\* When the process ended and cleared the panel, no publication that was still
\* under way opens it again.
ClearedStaysCleared == gateway.phase = "cleared" => ~panel.open

\* While the gateway runs and its controls are not paused, the panel gets to
\* show what the registry holds, whatever calls of the shell failed; a plugin
\* that was reloaded is the exception: it stays closed.
PanelConverges ==
  []<>(\/ gateway.phase # "running"
       \/ gateway.paused
       \/ gateway.opened /\ ~panel.open
       \/ panel = [open |-> TRUE, shows |-> Projection(gateway)])

GivenUp == pi.link = 0 /\ (pi.retries = MaxReconnects \/ pi.attempt = MaxAttempts)

\* While the gateway runs, the registry gets to hold the running session of
\* the Pi on its present connection and nothing else: lost connections are
\* replaced, a stalled Pi registers again, and what is gone expires, unless
\* the extension used up its reconnects.
RegistryConverges ==
  []<>(\/ gateway.phase # "running"
       \/ pi.on /\ GivenUp
       \/ /\ Known(gateway) = IF pi.on THEN {pi.inst} ELSE {}
          /\ pi.on => pi.registered /\ HeldBy(gateway, pi.link) = {pi.inst})
=============================================================================
