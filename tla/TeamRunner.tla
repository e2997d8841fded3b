----------------------------- MODULE TeamRunner -----------------------------
(***************************************************************************)
(* The first vertical slice of the Team Runner: domain.ts, store.ts,       *)
(* runner.ts, visible-bridge.ts, thin-client.ts, presentation.ts and       *)
(* transport.ts under prototypes/first-vertical-slice/src, and the visible *)
(* host of manual/live-bridge-core.ts.                                     *)
(*                                                                         *)
(* One runner process serves one bridge per Role and a set of projection   *)
(* clients over Unix sockets.  Every socket callback of the runner is      *)
(* synchronous, so a handler (its transaction and every frame it sends) is *)
(* one action.  A connection that one end has closed stays visible to the  *)
(* other end until that end handles its own close event, and the frames    *)
(* written before the close may still be read there.                       *)
(***************************************************************************)
EXTENDS Naturals, Sequences, FiniteSets, SequencesExt

CONSTANTS
  Roles,        \* the Roles with a visible host
  Builder,      \* the Role that owns the one assignment
  Clients,      \* thin projection clients
  Null,         \* "no cursor": a client that asks for a fresh baseline
  MaxEvents,    \* bound: length of the durable event log
  MaxInputs,    \* bound: bridge events one host submits
  MaxSessions   \* bound: projection sessions the runner has at a time

ASSUME RolesAssumption == Builder \in Roles /\ Null \notin Nat
ASSUME BoundsAssumption == MaxEvents \in Nat \ {0} /\ MaxInputs \in Nat /\ MaxSessions \in Nat

VARIABLES
  binding,      \* durable: the role_bindings row of each Role
  assignment,   \* durable: the one assignments row
  events,       \* durable: the events table; the Goal's cursor is its length
  up,           \* the runner process runs
  session,      \* runner: the bridge connection that owns each Role
  inbox,        \* frames of that connection the runner has not handled
  projections,  \* runner: the projection sessions in registration order
  host,         \* the connection as each visible host sees it
  newbox,       \* frames a host wrote behind a hello not yet handled
  toHost,       \* frames on the way to each host
  memory,       \* what each visible host remembers across connections
  client,       \* the connection as each projection client sees it
  toClient,     \* frames on the way to each client
  savedCursor,  \* the cursor each client would resume from
  eventLog      \* the events each client has seen

durable == <<binding, assignment, events>>
runner == <<up, session, inbox, projections>>
hosts == <<host, newbox, toHost, memory>>
clients == <<client, toClient, savedCursor, eventLog>>
vars == <<durable, runner, hosts, clients>>

PresentationStates == {"managed", "waiting", "manual_takeover"}
AssignmentStates == {"pending", "active", "needs_reconciliation"}

-----------------------------------------------------------------------------
(* Derivations shared by the handlers. *)

\* The assignment state a Role sees: only the Builder has an assignment.
AssignmentStateOf(r, state) == IF r = Builder THEN state ELSE "none"

DerivePresentationState_Mutant(control, agent, work) ==
  IF control = "manual_takeover" THEN "manual_takeover" ELSE agent

\* Manual control wins; then only a working agent with an active assignment
\* is shown as managed.
DerivePresentationState(control, agent, work) ==
  IF control = "manual_takeover" THEN "manual_takeover"
  ELSE IF agent = "working" /\ work = "active" THEN "managed"
  ELSE "waiting"

\* The Goal's cursor: insertEventTx writes the row and the cursor together.
EventCursor == Len(events)

Event(type, role, source) == [type |-> type, role |-> role, source |-> source]

\* The binding after the acceptance of the assignment, and after a takeover.
AcceptedBinding_StaleLabel(b) == [b EXCEPT !.agent = "working"]
AcceptedBinding_BackToManaged(b) ==
  [b EXCEPT !.agent = "working", !.control = "managed",
            !.label = DerivePresentationState("managed", "working", "active")]
AcceptedBinding(b) ==
  [b EXCEPT !.agent = "working",
            !.label = DerivePresentationState(b.control, "working", "active")]

TakenOverBinding(b, id, work) ==
  [b EXCEPT !.control = "manual_takeover", !.lastSource = id,
            !.label = DerivePresentationState("manual_takeover", b.agent, work)]

\* A source event is new when its identity is unknown and its sequence is above
\* the newest one the binding recorded.
FreshSource(r, id) ==
  /\ ~ \E i \in DOMAIN events : events[i].role = r /\ events[i].source = id
  /\ id > binding[r].lastSource

LabelFrame(l) == [kind |-> "label", label |-> l]
AssignmentFrame == [kind |-> "assignment", label |-> "none"]
EventFrame(n) == [kind |-> "event", from |-> n - 1, to |-> n]
PageFrame(m, n) == [kind |-> "page", from |-> m, to |-> n]
SnapshotFrame(n) == [kind |-> "snapshot", from |-> n, to |-> n]

\* The replay pages from a cursor to the captured one: at most two events each,
\* and one empty page when there is nothing to replay.
Pages(from, to) ==
  IF from = to THEN <<PageFrame(from, to)>>
  ELSE [i \in 1 .. (to - from + 1) \div 2 |->
          PageFrame(from + 2 * (i - 1),
                    IF from + 2 * i > to THEN to ELSE from + 2 * i)]

-----------------------------------------------------------------------------
(* Committed events and the frames they cause. *)

\* The projections are visited in registration order, and a send to a socket
\* that is already destroyed throws out of the loop: the ones before it have
\* the events, the ones after it do not.
Streamed == {i \in DOMAIN projections : \A j \in 1 .. i : projections[j].socket # "destroyed"}
StreamThrows == \E i \in DOMAIN projections : projections[i].socket = "destroyed"

PushEventsToProjections(new) ==
  LET n == Len(events)
      frames == [k \in 1 .. Len(new) |-> EventFrame(n + k)]
  IN /\ events' = events \o new
     /\ projections' = [i \in DOMAIN projections |->
          IF i \in Streamed THEN [projections[i] EXCEPT !.sent = n + Len(new)]
          ELSE projections[i]]
     /\ toClient' = [c \in Clients |->
          IF \E i \in Streamed : projections[i].client = c /\ projections[i].socket = "open"
          THEN toClient[c] \o frames ELSE toClient[c]]

\* Room for k more events, the bound on the log.
Room(k) == EventCursor + k <= MaxEvents

\* The channel of Role r closes and its session is removed; the host learns of
\* it later.  The first k frames behind the current one arrived in the same
\* data chunk: the loop of the channel still hands them to the runner.
CloseBridge(r, k) ==
  /\ session' = [session EXCEPT ![r] = IF k = 0 THEN "none" ELSE "refused"]
  /\ inbox' = [inbox EXCEPT ![r] = SubSeq(@, 2, k + 1)]
  /\ host' = [host EXCEPT ![r] = IF session[r] = "live" THEN "closing" ELSE @]

\* The end of a bridge handler that committed: the frames for the host went out
\* before the stream, and an exception of the stream fails the bridge's channel.
FinishBridgeFrame(r, frames) ==
  /\ toHost' = [toHost EXCEPT ![r] = IF session[r] = "live" THEN @ \o frames ELSE @]
  /\ IF StreamThrows THEN CloseBridge(r, 0)
     ELSE /\ inbox' = [inbox EXCEPT ![r] = Tail(@)]
          /\ session' = [session EXCEPT ![r] =
               IF @ = "refused" /\ Len(inbox[r]) = 1 THEN "none" ELSE @]
          /\ UNCHANGED host

\* A callback runs to its end: while a chunk of Role q is being handled the
\* runner does nothing else.
RunnerIdle == up /\ \A q \in Roles : session[q] # "refused"
RunnerServes(r, kind) ==
  /\ up /\ session[r] # "none" /\ inbox[r] # <<>> /\ Head(inbox[r]).kind = kind
  /\ \A q \in Roles \ {r} : session[q] # "refused"

-----------------------------------------------------------------------------
(* The store and the domain at bootstrap. *)

\* One transaction writes the Goal, its bindings, the assignment and the event.
Bootstrapped ==
  /\ binding = [r \in Roles |->
       [control |-> "managed", agent |-> "waiting", lastSource |-> 0, label |-> "waiting"]]
  /\ assignment = [state |-> "pending", acknowledged |-> "none"]
  /\ events = <<Event("goal_bootstrapped", Null, 0)>>

Init ==
  /\ Bootstrapped
  /\ up = TRUE
  /\ session = [r \in Roles |-> "none"]
  /\ inbox = [r \in Roles |-> <<>>]
  /\ projections = <<>>
  /\ host = [r \in Roles |-> "off"]
  /\ newbox = [r \in Roles |-> <<>>]
  /\ toHost = [r \in Roles |-> <<>>]
  /\ memory = [r \in Roles |->
       [accepted |-> FALSE, queued |-> FALSE, turns |-> 0, source |-> 0, shown |-> "none"]]
  /\ client = [c \in Clients |-> "off"]
  /\ toClient = [c \in Clients |-> <<>>]
  /\ savedCursor = [c \in Clients |-> Null]
  /\ eventLog = [c \in Clients |-> <<>>]

-----------------------------------------------------------------------------
(* The visible hosts. *)

BridgeConnect(r) ==
  /\ host[r] = "off" /\ up
  /\ host' = [host EXCEPT ![r] = "hello"]
  /\ UNCHANGED <<durable, runner, newbox, toHost, memory, clients>>

\* A frame of a host goes to the connection it has; one written to a connection
\* the runner has closed is lost.
HostSend(r, kind, id) ==
  /\ inbox' = [inbox EXCEPT ![r] =
       IF host[r] = "on" THEN Append(@, [kind |-> kind, id |-> id]) ELSE @]
  /\ newbox' = [newbox EXCEPT ![r] =
       IF host[r] = "hello" THEN Append(@, [kind |-> kind, id |-> id]) ELSE @]

\* A human submits input to the visible Pi; with no connection the source
\* sequence advances all the same and nothing is sent.
SubmitInteractiveInput(r) ==
  /\ memory[r].source < MaxInputs
  /\ memory' = [memory EXCEPT ![r].source = @ + 1]
  /\ HostSend(r, "input", memory[r].source + 1)
  /\ UNCHANGED <<durable, up, session, projections, host, toHost, clients>>

\* An unseen assignment runs one visible turn, at once (the fake host) or when
\* the human starts the queued one (the live host); a replayed one runs none.
Accept_Mutant(r) ==
  memory' = [memory EXCEPT ![r].queued = FALSE, ![r].turns = @ + 1]
Accept(r) ==
  memory' = [memory EXCEPT ![r].accepted = TRUE, ![r].queued = FALSE, ![r].turns = @ + 1]

HandleAssignment(r) ==
  \/ /\ memory[r].accepted
     /\ HostSend(r, "duplicate", 0)
     /\ UNCHANGED memory
  \/ /\ ~memory[r].accepted
     /\ HostSend(r, "accepted", 0)
     /\ Accept(r)
  \/ /\ ~memory[r].accepted
     /\ memory' = [memory EXCEPT ![r].queued = TRUE]
     /\ UNCHANGED <<inbox, newbox>>

HostReceive(r) ==
  /\ host[r] \in {"on", "closing"} /\ toHost[r] # <<>>
  /\ toHost' = [toHost EXCEPT ![r] = Tail(@)]
  /\ \/ /\ Head(toHost[r]).kind = "label"
        /\ memory' = [memory EXCEPT ![r].shown = Head(toHost[r]).label]
        /\ UNCHANGED <<inbox, newbox>>
     \/ /\ Head(toHost[r]).kind = "assignment"
        /\ HandleAssignment(r)
  /\ UNCHANGED <<durable, up, session, projections, host, clients>>

StartQueuedAssignment(r) ==
  /\ host[r] \in {"on", "closing"}
  /\ memory[r].queued /\ ~memory[r].accepted
  /\ HostSend(r, "accepted", 0)
  /\ Accept(r)
  /\ UNCHANGED <<durable, up, session, projections, host, toHost, clients>>

\* The host drops its connection, or handles the close of the runner; what it
\* wrote before may still be read by the runner.
BridgeDisconnect(r) ==
  /\ host[r] # "off"
  /\ session' = [session EXCEPT ![r] = IF host[r] = "on" THEN "dead" ELSE @]
  /\ host' = [host EXCEPT ![r] = "off"]
  /\ toHost' = [toHost EXCEPT ![r] = <<>>]
  /\ newbox' = [newbox EXCEPT ![r] = <<>>]
  /\ UNCHANGED <<durable, up, inbox, projections, memory, clients>>

-----------------------------------------------------------------------------
(* Runner handlers for bridges. *)

\* Only one connection may own a Role at a time, and an old connection counts
\* until its close event was handled.
RefuseBusyRole(r) ==
  /\ RunnerIdle /\ host[r] = "hello" /\ session[r] # "none"
  /\ host' = [host EXCEPT ![r] = "closing"]
  /\ newbox' = [newbox EXCEPT ![r] = <<>>]
  /\ UNCHANGED <<durable, runner, toHost, memory, clients>>

\* The assignment is replayed only under managed control while it is pending
\* or active.
ReplayAssignment(r) ==
  /\ r = Builder /\ binding[r].control = "managed"
  /\ assignment.state \in {"pending", "active"}

HandshakeFrames(r) ==
  <<LabelFrame(binding[r].label)>> \o
  (IF ReplayAssignment(r) THEN <<AssignmentFrame>> ELSE <<>>)

HandleBridgeHello(r) ==
  /\ RunnerIdle /\ host[r] = "hello" /\ session[r] = "none"
  /\ Room(1)
  /\ PushEventsToProjections(<<Event("bridge_connected", r, 0)>>)
  /\ toHost' = [toHost EXCEPT ![r] = HandshakeFrames(r)]
  /\ newbox' = [newbox EXCEPT ![r] = <<>>]
  /\ host' = [host EXCEPT ![r] = IF StreamThrows THEN "closing" ELSE "on"]
  /\ session' = [session EXCEPT ![r] = IF StreamThrows THEN "none" ELSE "live"]
  /\ inbox' = [inbox EXCEPT ![r] = IF StreamThrows THEN <<>> ELSE newbox[r]]
  /\ UNCHANGED <<binding, assignment, up, memory, client, savedCursor, eventLog>>

\* pending -> active, the agent's state and the labels, in one transaction.
AcceptAssignment(r) ==
  /\ RunnerServes(r, "accepted")
  /\ r = Builder /\ assignment.state = "pending"
  /\ Room(1)
  /\ assignment' = [state |-> "active", acknowledged |-> "accepted"]
  /\ binding' = [binding EXCEPT ![r] = AcceptedBinding(@)]
  /\ PushEventsToProjections(<<Event("assignment_accepted", r, 0)>>)
  /\ FinishBridgeFrame(r, <<LabelFrame(binding'[r].label)>>)
  /\ UNCHANGED <<up, newbox, memory, client, savedCursor, eventLog>>

\* A duplicate keeps the assignment and records one acknowledgement event.
RecordDuplicateAck(r) ==
  /\ RunnerServes(r, "duplicate")
  /\ r = Builder /\ assignment.state = "active"
  /\ Room(1)
  /\ assignment' = [assignment EXCEPT !.acknowledged = "duplicate"]
  /\ PushEventsToProjections(<<Event("assignment_duplicate_acknowledged", r, 0)>>)
  /\ FinishBridgeFrame(r, <<>>)
  /\ UNCHANGED <<binding, up, newbox, memory, client, savedCursor, eventLog>>

\* An acknowledgement in a state that does not admit it is a protocol error that
\* closes the connection; reporting a second one on the closed channel throws.
RefuseAcknowledgement(r) ==
  /\ \/ RunnerServes(r, "accepted") /\ assignment.state # "pending"
     \/ RunnerServes(r, "duplicate") /\ assignment.state # "active"
  /\ \E k \in 0 .. Len(inbox[r]) - 1 :
       /\ session[r] = "refused" => k = 0
       /\ CloseBridge(r, k)
  /\ UNCHANGED <<durable, up, projections, newbox, toHost, memory, clients>>

\* Manual takeover: two events, the Role's control mode and labels, and an
\* active assignment becomes needs_reconciliation, in one transaction.  A
\* duplicate or stale source event changes nothing.
TakeOver(r, id) ==
  /\ Room(2)
  /\ assignment' = [assignment EXCEPT !.state =
       IF r = Builder /\ @ = "active" THEN "needs_reconciliation" ELSE @]
  /\ binding' = [binding EXCEPT
       ![r] = TakenOverBinding(@, id, AssignmentStateOf(r, assignment'.state))]
  /\ PushEventsToProjections(<<Event("human_input_submitted", r, id),
                               Event("manual_takeover", r, 0)>>)
  /\ FinishBridgeFrame(r, <<LabelFrame(binding'[r].label)>>)

IgnoreSourceEvent(r) ==
  /\ inbox' = [inbox EXCEPT ![r] = Tail(@)]
  /\ session' = [session EXCEPT ![r] =
       IF @ = "refused" /\ Len(inbox[r]) = 1 THEN "none" ELSE @]
  /\ UNCHANGED <<durable, projections, host, toHost, toClient>>

ApplyInteractiveInput(r) ==
  /\ RunnerServes(r, "input")
  /\ LET id == Head(inbox[r]).id
     IN IF FreshSource(r, id) THEN TakeOver(r, id) ELSE IgnoreSourceEvent(r)
  /\ UNCHANGED <<up, newbox, memory, client, savedCursor, eventLog>>

\* The runner handles the close event of a connection its host has dropped.
HandleBridgeClose(r) ==
  /\ RunnerIdle /\ session[r] = "dead"
  /\ CloseBridge(r, 0)
  /\ UNCHANGED <<durable, up, projections, newbox, toHost, memory, clients>>

-----------------------------------------------------------------------------
(* The projection clients. *)

ClientConnect(c) ==
  /\ client[c] = "off" /\ up
  /\ client' = [client EXCEPT ![c] = "hello"]
  /\ UNCHANGED <<durable, runner, hosts, toClient, savedCursor, eventLog>>

\* One serialized step: capture the cursor, register, page up to the captured
\* cursor, snapshot.
HandleProjectionHello(c) ==
  /\ RunnerIdle /\ client[c] = "hello" /\ Len(projections) < MaxSessions
  /\ client' = [client EXCEPT ![c] = "on"]
  /\ projections' = Append(projections,
       [client |-> c, socket |-> "open", sent |-> EventCursor])
  /\ toClient' = [toClient EXCEPT ![c] =
       (IF savedCursor[c] = Null THEN <<>> ELSE Pages(savedCursor[c], EventCursor))
       \o <<SnapshotFrame(EventCursor)>>]
  /\ UNCHANGED <<durable, up, session, inbox, hosts, savedCursor, eventLog>>

AppendEvent_Mutant(view, n) ==
  IF view.ok /\ view.saved # Null /\ n > view.saved /\ n \notin ToSet(view.log)
  THEN [view EXCEPT !.saved = n, !.log = Append(@, n)]
  ELSE [view EXCEPT !.ok = FALSE]
\* appendEvent: the event must follow the cursor and be new to the log.
AppendEvent(view, n) ==
  IF view.ok /\ view.saved # Null /\ n = view.saved + 1 /\ n \notin ToSet(view.log)
  THEN [view EXCEPT !.saved = n, !.log = Append(@, n)]
  ELSE [view EXCEPT !.ok = FALSE]

AppendPage(view, from, to) ==
  IF view.saved # from THEN [view EXCEPT !.ok = FALSE]
  ELSE FoldLeft(AppendEvent, view, [k \in 1 .. to - from |-> from + k])

StoreSnapshot(view, cursor) ==
  IF view.saved \notin {Null, cursor} THEN [view EXCEPT !.ok = FALSE]
  ELSE [view EXCEPT !.saved = cursor, !.snapshot = cursor]

\* handleFrame of the client, on its cursor, log and last snapshot; the first
\* exception ends the chunk.
HandleClientFrame(view, frame) ==
  IF ~view.ok THEN view
  ELSE CASE frame.kind = "event" -> AppendEvent(view, frame.to)
         [] frame.kind = "page" -> AppendPage(view, frame.from, frame.to)
         [] frame.kind = "snapshot" -> StoreSnapshot(view, frame.to)

\* The runner's end of a socket the client has closed.
ClientGone(c) ==
  projections' = [i \in DOMAIN projections |->
    IF projections[i].client = c /\ projections[i].socket = "open"
    THEN [projections[i] EXCEPT !.socket = "gone"] ELSE projections[i]]

\* The frames of one data chunk are handled in one synchronous loop.  The
\* continuation of connect(), which stores the snapshot's cursor again, runs
\* only after that loop.
ClientReceive(c, k) ==
  LET view == FoldLeft(HandleClientFrame,
                [saved |-> savedCursor[c], log |-> eventLog[c], ok |-> TRUE,
                 snapshot |-> Null],
                SubSeq(toClient[c], 1, k))
  IN /\ client[c] \in {"on", "closing"}
     /\ eventLog' = [eventLog EXCEPT ![c] = view.log]
     /\ savedCursor' = [savedCursor EXCEPT ![c] =
          IF view.snapshot # Null THEN view.snapshot ELSE view.saved]
     /\ IF view.ok
        THEN /\ toClient' = [toClient EXCEPT ![c] = SubSeq(@, k + 1, Len(@))]
             /\ UNCHANGED <<client, projections>>
        ELSE /\ toClient' = [toClient EXCEPT ![c] = <<>>]
             /\ client' = [client EXCEPT ![c] = "off"]
             /\ ClientGone(c)
     /\ UNCHANGED <<durable, up, session, inbox, hosts>>

ClientDisconnect(c) ==
  /\ client[c] # "off"
  /\ client' = [client EXCEPT ![c] = "off"]
  /\ toClient' = [toClient EXCEPT ![c] = <<>>]
  /\ ClientGone(c)
  /\ UNCHANGED <<durable, up, session, inbox, hosts, savedCursor, eventLog>>

\* The runner's socket is destroyed first, its close event comes in a later
\* phase of the event loop; data callbacks may run in between.
DestroyProjection(i) ==
  /\ RunnerIdle /\ projections[i].socket = "gone"
  /\ projections' = [projections EXCEPT ![i].socket = "destroyed"]
  /\ UNCHANGED <<durable, up, session, inbox, hosts, clients>>

HandleProjectionClose(i) ==
  /\ RunnerIdle /\ projections[i].socket = "destroyed"
  /\ projections' = RemoveAt(projections, i)
  /\ UNCHANGED <<durable, up, session, inbox, hosts, clients>>

-----------------------------------------------------------------------------
(* The runner process stops (or dies) and is recreated over the same database. *)

\* What the other end of a connection sees when the runner goes away.
AfterStop(connection) ==
  CASE connection = "on" -> "closing"
    [] connection = "hello" -> "off"
    [] OTHER -> connection

StopRunner ==
  /\ RunnerIdle
  /\ Room(1)      \* the bound leaves room for the restart
  /\ up' = FALSE
  /\ session' = [r \in Roles |-> "none"]
  /\ inbox' = [r \in Roles |-> <<>>]
  /\ newbox' = [r \in Roles |-> <<>>]
  /\ projections' = <<>>
  /\ host' = [r \in Roles |-> AfterStop(host[r])]
  /\ client' = [c \in Clients |-> AfterStop(client[c])]
  /\ UNCHANGED <<durable, toHost, memory, toClient, savedCursor, eventLog>>

StartRunner ==
  /\ ~up
  /\ up' = TRUE
  /\ events' = Append(events, Event("runner_restarted", Null, 0))
  /\ UNCHANGED <<binding, assignment, session, inbox, projections, hosts, clients>>

-----------------------------------------------------------------------------
HostStep(r) ==
  \/ BridgeConnect(r) \/ SubmitInteractiveInput(r) \/ HostReceive(r)
  \/ StartQueuedAssignment(r) \/ BridgeDisconnect(r)

RunnerStep(r) ==
  \/ RefuseBusyRole(r) \/ HandleBridgeHello(r) \/ AcceptAssignment(r)
  \/ RecordDuplicateAck(r) \/ RefuseAcknowledgement(r)
  \/ ApplyInteractiveInput(r) \/ HandleBridgeClose(r)

ClientStep(c) ==
  \/ ClientConnect(c) \/ HandleProjectionHello(c) \/ ClientDisconnect(c)
  \/ \E k \in 1 .. Len(toClient[c]) : ClientReceive(c, k)

Next ==
  \/ \E r \in Roles : HostStep(r) \/ RunnerStep(r)
  \/ \E c \in Clients : ClientStep(c)
  \/ \E i \in DOMAIN projections : DestroyProjection(i) \/ HandleProjectionClose(i)
  \/ StopRunner \/ StartRunner

Spec == Init /\ [][Next]_vars

-----------------------------------------------------------------------------
(* Types. *)

Bindings == [control : {"managed", "manual_takeover"}, agent : {"waiting", "working"},
             lastSource : Nat, label : PresentationStates]
BridgeFrames == [kind : {"input", "accepted", "duplicate"}, id : Nat]
HostFrames == [kind : {"label", "assignment"}, label : PresentationStates \cup {"none"}]
AssignmentRows == [state : AssignmentStates, acknowledged : {"none", "accepted", "duplicate"}]
Memories == [accepted : BOOLEAN, queued : BOOLEAN, turns : Nat, source : Nat,
             shown : PresentationStates \cup {"none"}]
Connections == {"off", "hello", "on", "closing"}
EventTypes == {"goal_bootstrapped", "runner_restarted", "bridge_connected",
               "assignment_accepted", "assignment_duplicate_acknowledged",
               "human_input_submitted", "manual_takeover"}
EventRecords == [type : EventTypes, role : Roles \cup {Null}, source : Nat]

\* The state the runner keeps in its database.
DurableTypeOK ==
  /\ binding \in [Roles -> Bindings]
  /\ assignment \in AssignmentRows
  /\ events \in Seq(EventRecords)

\* The bridge sessions and what the visible hosts hold.
BridgeTypeOK ==
  /\ up \in BOOLEAN
  /\ session \in [Roles -> {"none", "live", "dead", "refused"}]
  /\ inbox \in [Roles -> Seq(BridgeFrames)]
  /\ host \in [Roles -> Connections]
  /\ newbox \in [Roles -> Seq(BridgeFrames)]
  /\ toHost \in [Roles -> Seq(HostFrames)]
  /\ memory \in [Roles -> Memories]

\* Every variable has its type: the rows of the database, the two ends of every
\* connection, the frames between them and the clients' logs.
TypeOK ==
  /\ DurableTypeOK
  /\ BridgeTypeOK
  /\ projections \in Seq([client : Clients, socket : {"open", "gone", "destroyed"}, sent : Nat])
  /\ client \in [Clients -> Connections]
  /\ savedCursor \in [Clients -> Nat \cup {Null}]
  /\ eventLog \in [Clients -> Seq(Nat)]

-----------------------------------------------------------------------------
(* Safety. *)

\* The labels stored with a binding are always the ones its control mode, agent
\* state and assignment state derive, whichever handler wrote which of the
\* three last (presentationLabels is called by three writers).
LabelsAgree ==
  \A r \in Roles :
    binding[r].label = DerivePresentationState(binding[r].control, binding[r].agent,
                         AssignmentStateOf(r, assignment.state))

\* An assignment the runner records as accepted ran exactly one visible turn in
\* the Builder's host, and no replay, reconnect or runner restart makes any
\* host run a second one.
AcceptedWorkRan ==
  /\ assignment.state # "pending" => memory[Builder].turns = 1
  /\ \A r \in Roles : memory[r].turns <= (IF r = Builder THEN 1 ELSE 0)

\* A step that takes one Role over, or changes its binding in any way, leaves
\* every other Role's binding alone; no step gives control back, and none moves
\* the assignment backwards or out of needs_reconciliation.
OrderOf(state) ==
  CASE state = "pending" -> 0 [] state = "active" -> 1 [] state = "needs_reconciliation" -> 2
TakeoverIsolated ==
  [][/\ \A r, q \in Roles : binding'[r] # binding[r] /\ binding'[q] # binding[q] => r = q
     /\ \A r \in Roles : binding[r].control = "manual_takeover" => binding'[r].control = "manual_takeover"
     /\ OrderOf(assignment.state) <= OrderOf(assignment'.state)]_vars

\* What a projection client has seen is one gapless run of the durable events,
\* without a duplicate, however its reconnects, the replay pages and the live
\* stream interleave.
ClientLogContiguous ==
  \A c \in Clients :
    /\ \A i \in 1 .. Len(eventLog[c]) - 1 : eventLog[c][i + 1] = eventLog[c][i] + 1
    /\ \A i \in DOMAIN eventLog[c] : eventLog[c][i] \in DOMAIN events

=============================================================================
