---------------------------- MODULE RemoteRunner ----------------------------
(***************************************************************************)
(* One Role of the remote execution node: the durable runner               *)
(* (spikes/remote-execution-node/lib/runner-core.mjs, runner.mjs), the     *)
(* bridge extension inside the visible Pi (bridge-extension.js,            *)
(* bridge-state.mjs, bridge-client.mjs), the Unix socket between them and  *)
(* the control client that issues assignments (control-client.mjs).        *)
(*                                                                         *)
(* The runner works through one operation queue.  An operation changes the *)
(* state in memory, waits for the replacement of the state file and only   *)
(* then answers: `pending` is the operation whose replacement is under     *)
(* way.  Roles share the queue and the event log and nothing else, so one  *)
(* Role is modelled; the event log is left out, and so are the bridge's    *)
(* events that change nothing but the sequence (telemetry, session_started,*)
(* bridge_connected, bridge_disconnected).                                 *)
(***************************************************************************)
EXTENDS Integers, Sequences, FiniteSets, SequencesExt

CONSTANTS
    Assignments,        \* assignment ids the control client may use
    Earlier,            \* one more id: an assignment that may have settled before
    NoAssignment,       \* a model value: null
    MaxPending,         \* the bridge client's maxPending
    MaxInputs,          \* bound on submitted human inputs
    MaxPiStarts,        \* bound on visible Pi processes, one after the other
    MaxFaults           \* bound on faults of all kinds together

ASSUME BoundsAssumption ==
    /\ {NoAssignment, Earlier} \cap Assignments = {} /\ NoAssignment # Earlier
    /\ MaxPending \in Nat \ {0} /\ MaxPiStarts \in Nat \ {0}
    /\ {MaxInputs, MaxFaults} \subseteq Nat

VARIABLES
    memory,     \* RunnerCore.state of this Role
    file,       \* what the state file holds
    pending,    \* the operation that waits for its replacement
    running,    \* is the runner process up
    socket,     \* the bridge's socket, both directions
    closing,    \* has the runner yet to handle the close of a registered connection
    bridge,     \* the bridge extension's state and its client's
    turn,       \* what the visible Pi is doing, and for which assignment
    control,    \* ReconnectingControlClient and its transport
    submitted,  \* history: how often each assignment was handed to Pi
    faults      \* how many inputs and faults there were; history: if a replacement
                \* failed, if a bridge was rejected for its own previous connection

vars == <<memory, file, pending, running, socket, closing, bridge, turn, control, submitted, faults>>
runnerVars == <<memory, file, pending, running, closing>>
piVars == <<turn, submitted>>

RunnerActive == {"pending", "accepted", "working"}
BridgeActive == {"accepted", "working"}

-----------------------------------------------------------------------------
(* Values, as the validators of the state file and of the protocol accept  *)
(* them.                                                                   *)

NoTurn == [phase |-> "idle", id |-> NoAssignment]
None == [id |-> NoAssignment, state |-> "none"]
Ids == Assignments \cup {Earlier}
AssignmentStates == {"pending", "accepted", "working", "settled", "needs_reconciliation"}
AckStatuses == {"accepted", "busy", "duplicate", "invalid"}
Modes == {"managed", "manual_takeover"}
Sessions == 1 .. MaxPiStarts
AssignmentSummary == [id : Ids, state : AssignmentStates] \cup {None}

ValidAssignment(a) ==
    a \in [id : Ids, state : AssignmentStates, ack : AckStatuses \cup {"none"}]
ValidRunnerState(m) ==
    /\ m.connected \in BOOLEAN /\ m.session \in 0 .. MaxPiStarts /\ m.mode \in Modes
    /\ \A i \in DOMAIN m.assignments : ValidAssignment(m.assignments[i])
    /\ \A i, j \in DOMAIN m.assignments : i # j => m.assignments[i].id # m.assignments[j].id

Hellos == [kind : {"hello"}, session : Sessions]
Acks == [kind : {"assignment_ack"}, id : Ids, status : AckStatuses]
EventTypes == {"manual_takeover", "agent_started", "agent_settled", "assignment_needs_reconciliation"}
Events == [kind : {"event"}, type : EventTypes, id : Ids \cup {NoAssignment}, covered : BOOLEAN]
StateSnapshots == [kind : {"state_snapshot"}, mode : Modes, assignment : AssignmentSummary]
BridgeFrames == Hellos \cup Acks \cup Events \cup StateSnapshots

HelloAcks == [kind : {"hello_ack"}]
RunnerSnapshots == [kind : {"runner_snapshot"}, assignment : AssignmentSummary, mode : Modes]
AssignmentFrames == [kind : {"assignment"}, id : Ids]
RunnerFrames == HelloAcks \cup RunnerSnapshots \cup AssignmentFrames

-----------------------------------------------------------------------------
(* Runner memory.  Assignments of the Role in the order they were issued.  *)

InitialMemory ==
    [connected |-> FALSE, session |-> 0,
     mode |-> "managed", assignments |-> <<>>]

Latest(m) == IF m.assignments = <<>> THEN None ELSE Last(m.assignments)
Known(m, id) == \E i \in DOMAIN m.assignments : m.assignments[i].id = id
SetState(m, id, state) ==
    [m EXCEPT !.assignments = [i \in DOMAIN @ |-> IF @[i].id = id THEN [@[i] EXCEPT !.state = state] ELSE @[i]]]
SetAck(m, id, status) ==
    [m EXCEPT !.assignments = [i \in DOMAIN @ |-> IF @[i].id = id THEN [@[i] EXCEPT !.ack = status] ELSE @[i]]]
SetLatest(m, state) == IF m.assignments = <<>> THEN m ELSE SetState(m, Latest(m).id, state)
Reconcile(m) == IF Latest(m).state \in RunnerActive THEN SetLatest(m, "needs_reconciliation") ELSE m
TakenOver(m) == [Reconcile(m) EXCEPT !.mode = "manual_takeover"]

Summary(m) == [id |-> Latest(m).id, state |-> Latest(m).state]
Idle == [kind |-> "idle"]
NoSocket == [up |-> FALSE, registered |-> FALSE, toRunner |-> <<>>, toBridge |-> <<>>]

-----------------------------------------------------------------------------
(* The bridge extension.                                                   *)

NewBridge(n) ==
    [session |-> n, client |-> "disconnected", connected |-> FALSE,
     mode |-> "managed", assignment |-> None, seen |-> {}, queue |-> <<>>]

\* ReconnectingBridgeClient.send: queued while there is room; once the runner has
\* acknowledged the hello the queue is flushed at every send.
Flushable(b) == b.client = "acknowledged"
Send_Unbounded(b, frame) == [b EXCEPT !.queue = Append(@, frame)]
Send(b, frame) ==
    IF Flushable(b) \/ Len(b.queue) < MaxPending THEN [b EXCEPT !.queue = Append(@, frame)] ELSE b

\* emit: an event about an assignment.  Sequence numbers only tell if the hello of
\* the connection already covers the event.
Emit(b, type, id) == Send(b, [kind |-> "event", type |-> type, id |-> id, covered |-> FALSE])
EmitOwn(b, type) == Emit(b, type, b.assignment.id)

SendSnapshot(b) ==
    Send(b, [kind |-> "state_snapshot", mode |-> b.mode, assignment |-> b.assignment])

\* What the client may write, and the socket after it.
Flushed(b) == IF Flushable(b) THEN [b EXCEPT !.queue = <<>>] ELSE b
SocketAfter(b) == IF Flushable(b) THEN [socket EXCEPT !.toRunner = @ \o b.queue] ELSE socket
Publish(b) == bridge' = Flushed(b) /\ socket' = SocketAfter(b)

BridgeReconcile(b) ==
    IF b.assignment.state \in BridgeActive THEN [b EXCEPT !.assignment.state = "needs_reconciliation"] ELSE b
BridgeTakenOver(b) == [BridgeReconcile(b) EXCEPT !.mode = "manual_takeover"]

-----------------------------------------------------------------------------
(* A fresh node, or one whose first assignment settled in an earlier       *)
(* connection.                                                             *)

SettledMemory == [InitialMemory EXCEPT !.session = 1,
                    !.assignments = <<[id |-> Earlier, state |-> "settled", ack |-> "accepted"]>>]
SettledBridge == [NewBridge(1) EXCEPT !.seen = {Earlier},
                    !.assignment = [id |-> Earlier, state |-> "settled"]]

Init ==
    /\ \/ memory = InitialMemory /\ bridge = NewBridge(1)
       \/ memory = SettledMemory /\ bridge = SettledBridge
    /\ file = memory
    /\ pending = Idle
    /\ running = TRUE
    /\ socket = NoSocket
    /\ closing = FALSE
    /\ turn = NoTurn
    /\ control = [link |-> "up", lingering |-> FALSE, queued |-> <<>>, sent |-> <<>>]
    /\ submitted = [id \in Ids |-> IF Known(memory, id) THEN 1 ELSE 0]
    /\ faults = [inputs |-> 0, count |-> 0, replaceFailed |-> FALSE, overlapped |-> FALSE]

Fault == faults.count < MaxFaults /\ faults' = [faults EXCEPT !.count = @ + 1]
Free == running /\ pending = Idle

-----------------------------------------------------------------------------
(* Sockets.  A broken socket loses everything in flight.  The bridge may   *)
(* be back before the runner has handled the close, or while an operation  *)
(* of the old connection is still under way.                               *)

\* The client's fail(): it goes down and its timer will connect again.
BridgeDown(b) ==
    [b EXCEPT !.client = IF @ = "rejected" THEN @ ELSE "disconnected", !.connected = FALSE]

\* The socket ends, at either side; a registered connection has to be closed.
Hangup ==
    /\ socket' = NoSocket
    /\ bridge' = BridgeDown(bridge)
    /\ closing' = (closing \/ socket.registered)

\* The operation under way goes on without the connection it came over.
Orphaned ==
    CASE pending.kind = "accept" -> [kind |-> "late_accept"]
      [] pending.kind = "frame" -> [kind |-> "record"]
      [] OTHER -> pending

\* The hello tells the last sequence, that of the queued events included.
Covered(queue) == [i \in DOMAIN queue |-> [queue[i] EXCEPT !.covered = TRUE]]

Connect ==
    /\ running /\ ~socket.up /\ bridge.client = "disconnected"
    /\ bridge' = [bridge EXCEPT !.client = "connecting", !.queue = Covered(@)]
    /\ socket' = [NoSocket EXCEPT !.up = TRUE,
                    !.toRunner = <<[kind |-> "hello", session |-> bridge.session]>>]
    /\ UNCHANGED <<runnerVars, piVars, control, faults>>

BreakSocket ==
    /\ socket.up /\ Fault
    /\ Hangup
    /\ pending' = Orphaned
    /\ UNCHANGED <<memory, file, running, control, piVars>>

-----------------------------------------------------------------------------
(* Runner operations: each takes a frame or a call, changes memory and     *)
(* waits in `pending` for its replacement.                                 *)

Begin(m, op) == memory' = m /\ pending' = op /\ UNCHANGED <<file, running>>
NextFrame(kind) == Free /\ socket.up /\ socket.toRunner # <<>> /\ Head(socket.toRunner).kind = kind
Consume == [socket EXCEPT !.toRunner = Tail(@)]
\* A handler that throws destroys the socket.
ProtocolFailure == Hangup /\ UNCHANGED <<memory, file, pending, running, control, piVars, faults>>

SameIdentity(m, hello) == m.session \in {0, hello.session}
Registered(m, hello) == [m EXCEPT !.connected = TRUE, !.session = hello.session]

\* acceptBridge: the snapshot and the assignment are made before the replacement.
AcceptBridge ==
    /\ NextFrame("hello") /\ ~memory.connected
    /\ LET hello == Head(socket.toRunner)
           m == Registered(memory, hello)
           snapshot == <<[kind |-> "runner_snapshot", assignment |-> Summary(m), mode |-> m.mode]>>
           resend == IF Latest(m).state \in RunnerActive
                     THEN <<[kind |-> "assignment", id |-> Latest(m).id]>> ELSE <<>>
       IN /\ SameIdentity(memory, hello)
          /\ Begin(m, [kind |-> "accept", frames |-> <<[kind |-> "hello_ack"]>> \o snapshot \o resend])
    /\ socket' = Consume
    /\ UNCHANGED <<closing, bridge, control, piVars, faults>>

\* Another connection owns the Role, be it the bridge's own previous one whose
\* close is still to be handled: the client gives up for good.
RejectBridge ==
    /\ NextFrame("hello") /\ memory.connected
    /\ socket' = NoSocket
    /\ bridge' = [bridge EXCEPT !.client = "rejected"]
    /\ faults' = [faults EXCEPT !.overlapped = @ \/ closing]
    /\ UNCHANGED <<runnerVars, control, piVars>>

\* The identity of another Pi process.
RefuseBridge ==
    /\ NextFrame("hello") /\ ~memory.connected /\ ~SameIdentity(memory, Head(socket.toRunner))
    /\ ProtocolFailure

AckRecorded(m, frame) ==
    CASE frame.status = "accepted" /\ \E i \in DOMAIN m.assignments :
              m.assignments[i].id = frame.id /\ m.assignments[i].state = "pending"
           -> SetState(m, frame.id, "accepted")
      [] OTHER -> m

HandleAssignmentAck ==
    /\ NextFrame("assignment_ack")
    /\ LET frame == Head(socket.toRunner)
       IN /\ Known(memory, frame.id)
          /\ Begin(SetAck(AckRecorded(memory, frame), frame.id, frame.status), [kind |-> "frame"])
    /\ socket' = Consume
    /\ UNCHANGED <<closing, bridge, control, piVars, faults>>

\* #applyBridgeEventState
Applied(m, type) ==
    CASE type = "manual_takeover" -> TakenOver(m)
      [] type = "agent_started" ->
            IF Latest(m).state \in {"pending", "accepted"} THEN SetLatest(m, "working") ELSE m
      [] type = "agent_settled" ->
            SetLatest(m, IF m.mode = "manual_takeover" THEN "needs_reconciliation" ELSE "settled")
      [] type = "assignment_needs_reconciliation" -> SetLatest(m, "needs_reconciliation")
      [] OTHER -> m

ForOtherAssignment(m, id) == id # NoAssignment /\ id # Latest(m).id

\* The hello already reported this sequence: the frame is dropped.
HandleCoveredEvent ==
    /\ NextFrame("event")
    /\ LET event == Head(socket.toRunner)
       IN ~ForOtherAssignment(memory, event.id) /\ event.covered
    /\ socket' = Consume
    /\ UNCHANGED <<runnerVars, bridge, control, piVars, faults>>

HandleEvent ==
    /\ NextFrame("event")
    /\ LET event == Head(socket.toRunner)
       IN /\ ~ForOtherAssignment(memory, event.id) /\ ~event.covered
          /\ Begin(Applied(memory, event.type), [kind |-> "frame"])
    /\ socket' = Consume
    /\ UNCHANGED <<closing, bridge, control, piVars, faults>>

SnapshotRecorded_IgnoresMode(m, frame) ==
    IF frame.assignment.state = "needs_reconciliation" THEN SetLatest(m, "needs_reconciliation") ELSE m
SnapshotRecorded(m, frame) ==
    LET taken == IF frame.mode = "manual_takeover" THEN TakenOver(m) ELSE m
    IN IF frame.assignment.state = "needs_reconciliation" THEN SetLatest(taken, "needs_reconciliation") ELSE taken

HandleSnapshot ==
    /\ NextFrame("state_snapshot")
    /\ LET frame == Head(socket.toRunner)
       IN /\ ~ForOtherAssignment(memory, frame.assignment.id)
          /\ Begin(SnapshotRecorded(memory, frame), [kind |-> "frame"])
    /\ socket' = Consume
    /\ UNCHANGED <<closing, bridge, control, piVars, faults>>

\* A frame about another assignment than the Role's latest.
RefuseFrame ==
    /\ \/ NextFrame("event") /\ ForOtherAssignment(memory, Head(socket.toRunner).id)
       \/ NextFrame("state_snapshot") /\ ForOtherAssignment(memory, Head(socket.toRunner).assignment.id)
    /\ ProtocolFailure

\* The close handler's disconnect.
Disconnect ==
    /\ Free /\ closing
    /\ Begin([memory EXCEPT !.connected = FALSE], [kind |-> "disconnect"])
    /\ closing' = FALSE
    /\ UNCHANGED <<socket, bridge, control, piVars, faults>>

-----------------------------------------------------------------------------
(* The control client and issueAssignment.                                 *)

\* request("assign") without a transport waits in the client's queue.
QueueAssign(id) ==
    /\ control.link = "down" /\ control.queued = <<>>
    /\ control' = [control EXCEPT !.queued = <<id>>]
    /\ UNCHANGED <<runnerVars, socket, bridge, piVars, faults>>

\* control_ack: what was queued is sent.
ConnectControl ==
    /\ running /\ control.link = "down" /\ ~control.lingering
    /\ control' = [control EXCEPT !.link = "up", !.sent = control.queued, !.queued = <<>>]
    /\ UNCHANGED <<runnerVars, socket, bridge, piVars, faults>>

\* acceptControl still knows the old connection: the client closes for good.
RejectControl ==
    /\ running /\ control.link = "down" /\ control.lingering
    /\ control' = [control EXCEPT !.link = "closed", !.queued = <<>>]
    /\ UNCHANGED <<runnerVars, socket, bridge, piVars, faults>>

\* Sent requests are rejected; queued ones wait.
ControlDown(c) == [c EXCEPT !.link = "down", !.sent = <<>>]

\* The runner may notice the end of the transport later than the client.
BreakControl ==
    /\ control.link = "up" /\ Fault
    /\ \E lingers \in BOOLEAN : control' = [ControlDown(control) EXCEPT !.lingering = lingers]
    /\ UNCHANGED <<runnerVars, socket, bridge, piVars>>

DisconnectControl ==
    /\ running /\ control.lingering
    /\ control' = [control EXCEPT !.lingering = FALSE]
    /\ UNCHANGED <<runnerVars, socket, bridge, piVars, faults>>

NextSent == control.link = "up" /\ control.sent # <<>>
Served == [control EXCEPT !.sent = Tail(@)]

\* A request sent with the transport up is answered at once or lost with it.
Requested(id) ==
    \/ control.link = "up" /\ control.sent = <<>> /\ control' = control
    \/ NextSent /\ id = Head(control.sent) /\ control' = Served

Issuable(m, id) == ~Known(m, id) /\ Latest(m).state \notin RunnerActive /\ m.mode = "managed"

\* issueAssignment: the intent is persisted before it is sent.
IssueAssignment(id) ==
    /\ Free /\ Requested(id) /\ Issuable(memory, id)
    /\ Begin([memory EXCEPT !.assignments = Append(@, [id |-> id, state |-> "pending", ack |-> "none"])],
             [kind |-> "issue", id |-> id, linked |-> memory.connected])
    /\ UNCHANGED <<closing, socket, bridge, piVars, faults>>

\* Duplicate, busy or under takeover: answered without a change.
RefuseAssignment ==
    /\ Free /\ NextSent /\ ~Issuable(memory, Head(control.sent))
    /\ control' = Served
    /\ UNCHANGED <<runnerVars, socket, bridge, piVars, faults>>

-----------------------------------------------------------------------------
(* The replacement of the state file, and what each operation does then.   *)

Deliver(frames) == [socket EXCEPT !.toBridge = @ \o frames]

FinishAccept ==
    /\ pending.kind = "accept"
    /\ pending' = Idle
    /\ socket' = [Deliver(pending.frames) EXCEPT !.registered = TRUE]
    /\ UNCHANGED <<memory, closing>>

\* The socket was destroyed during the handshake: the connection is closed next.
FinishLateAccept ==
    /\ pending.kind = "late_accept"
    /\ pending' = Idle
    /\ closing' = TRUE
    /\ UNCHANGED <<memory, socket>>

\* Without the registered socket the send fails and the outcome is recorded once more.
FinishIssue ==
    /\ pending.kind = "issue"
    /\ IF ~pending.linked THEN pending' = Idle /\ UNCHANGED <<memory, socket>>
       ELSE IF socket.registered
       THEN pending' = Idle /\ socket' = Deliver(<<[kind |-> "assignment", id |-> pending.id]>>) /\ UNCHANGED memory
       ELSE /\ memory' = SetState(memory, pending.id, "needs_reconciliation")
            /\ pending' = [kind |-> "record"]
            /\ UNCHANGED socket
    /\ UNCHANGED closing

FinishOther ==
    /\ pending.kind \in {"frame", "record", "disconnect"}
    /\ pending' = Idle
    /\ UNCHANGED <<memory, socket, closing>>

\* The file after a successful replacement.
Replaced_SendsFirst == IF pending.kind = "issue" THEN file ELSE memory
Replaced == memory

Replace ==
    /\ running /\ pending # Idle /\ ValidRunnerState(memory)
    /\ file' = Replaced
    /\ FinishAccept \/ FinishLateAccept \/ FinishIssue \/ FinishOther
    /\ UNCHANGED <<running, bridge, control, piVars, faults>>

\* The runner process ends: memory and every transport are lost.
RunnerGone ==
    /\ running' = FALSE /\ pending' = Idle /\ closing' = FALSE
    /\ socket' = NoSocket
    /\ bridge' = IF socket.up THEN BridgeDown(bridge) ELSE bridge
    /\ control' = [(IF control.link = "up" THEN ControlDown(control) ELSE control) EXCEPT !.lingering = FALSE]

\* The replacement fails: memory stays ahead of the file.  A frame's handler
\* fails its socket; in the close handler nobody catches it and Node exits.
FailReplace ==
    /\ running /\ pending # Idle /\ faults.count < MaxFaults
    /\ faults' = [faults EXCEPT !.count = @ + 1, !.replaceFailed = TRUE]
    /\ CASE pending.kind = "disconnect" -> RunnerGone
         [] pending.kind \in {"issue", "late_accept", "record"} ->
               pending' = Idle /\ UNCHANGED <<running, closing, socket, bridge, control>>
         [] pending.kind \in {"accept", "frame"} ->
               pending' = Idle /\ Hangup /\ UNCHANGED <<running, control>>
    /\ UNCHANGED <<memory, file, piVars>>

CrashRunner ==
    /\ running /\ Fault
    /\ RunnerGone
    /\ UNCHANGED <<memory, file, piVars>>

\* Connections of the earlier process are stale.
Restored_KeepsConnection == file
Restored == [file EXCEPT !.connected = FALSE]

\* Somebody removed the stale socket and started the runner: initialize().
StartRunner ==
    /\ ~running
    /\ running' = TRUE
    /\ memory' = Restored
    /\ file' = memory'
    /\ UNCHANGED <<pending, closing, socket, bridge, control, piVars, faults>>

-----------------------------------------------------------------------------
(* The bridge's handlers.                                                  *)

NextMessage(kind) == socket.up /\ socket.toBridge # <<>> /\ Head(socket.toBridge).kind = kind
Received(b) ==
    /\ bridge' = Flushed(b)
    /\ socket' = [SocketAfter(b) EXCEPT !.toBridge = Tail(@)]
    /\ UNCHANGED <<runnerVars, control>>

\* The first sends precede the flush: a full queue drops them.
Acknowledged(b) ==
    LET up == [b EXCEPT !.client = "acknowledged", !.connected = TRUE] IN
    IF Len(b.queue) >= MaxPending THEN up ELSE SendSnapshot(up)

ReceiveHelloAck ==
    /\ NextMessage("hello_ack")
    /\ Received(Acknowledged(bridge))
    /\ UNCHANGED <<piVars, faults>>

SameAssignment(b, snapshot) == b.assignment.id \in {NoAssignment, snapshot.assignment.id}

\* applyRunnerSnapshot: the assignment it names counts as seen.
Adopted(b, snapshot) ==
    LET taken == IF snapshot.mode = "manual_takeover" /\ b.mode = "managed" THEN BridgeTakenOver(b) ELSE b IN
    IF snapshot.assignment = None THEN taken
    ELSE [taken EXCEPT !.assignment = snapshot.assignment, !.seen = @ \cup {snapshot.assignment.id}]

ReceiveRunnerSnapshot ==
    /\ NextMessage("runner_snapshot")
    /\ LET snapshot == Head(socket.toBridge) IN
       Received(IF SameAssignment(bridge, snapshot)
                THEN SendSnapshot(Adopted(bridge, snapshot))
                ELSE EmitOwn(bridge, "assignment_needs_reconciliation"))
    /\ UNCHANGED <<piVars, faults>>

\* evaluateAssignment
AssignmentStatus_NoMemory(b, id) ==
    IF turn # NoTurn \/ b.assignment.state \in BridgeActive THEN "busy" ELSE "accepted"
AssignmentStatus(b, id) ==
    CASE id \in b.seen -> "duplicate"
      [] id \notin b.seen /\ (turn # NoTurn \/ b.assignment.state \in BridgeActive) -> "busy"
      [] OTHER -> "accepted"
Answer(b, id) == Send(b, [kind |-> "assignment_ack", id |-> id, status |-> AssignmentStatus(b, id)])
AcceptedWork(b, id) == [b EXCEPT !.assignment = [id |-> id, state |-> "accepted"], !.seen = @ \cup {id}]

RefuseWork ==
    /\ NextMessage("assignment")
    /\ LET id == Head(socket.toBridge).id IN
       AssignmentStatus(bridge, id) # "accepted" /\ Received(Answer(bridge, id))
    /\ UNCHANGED <<piVars, faults>>

\* sendUserMessage may throw after the acknowledgement was sent.
AcceptWork ==
    /\ NextMessage("assignment")
    /\ LET id == Head(socket.toBridge).id
           ack == Send(AcceptedWork(bridge, id), [kind |-> "assignment_ack", id |-> id, status |-> "accepted"])
           begun == Emit(ack, "agent_started", id) IN
       /\ AssignmentStatus(bridge, id) = "accepted"
       /\ \/ /\ Received(begun)
             /\ turn' = [phase |-> "starting", id |-> id] /\ submitted' = [submitted EXCEPT ![id] = @ + 1]
             /\ UNCHANGED faults
          \/ /\ Fault
             /\ Received(Emit(begun, "assignment_needs_reconciliation", id))
             /\ UNCHANGED piVars

-----------------------------------------------------------------------------
(* The visible Pi.                                                         *)

\* An interactive input takes the Role over, once, and starts a turn.
SubmitInput ==
    /\ faults.inputs < MaxInputs /\ faults' = [faults EXCEPT !.inputs = @ + 1]
    /\ Publish(IF bridge.mode = "managed" THEN EmitOwn(BridgeTakenOver(bridge), "manual_takeover") ELSE bridge)
    /\ turn' = IF turn = NoTurn THEN [turn EXCEPT !.phase = "starting"] ELSE turn
    /\ UNCHANGED <<runnerVars, control, submitted>>

AgentStart ==
    /\ turn.phase = "starting" /\ turn' = [turn EXCEPT !.phase = "working"]
    /\ Publish(EmitOwn(IF bridge.assignment.state = "accepted" THEN [bridge EXCEPT !.assignment.state = "working"] ELSE bridge,
                       "agent_started"))
    /\ UNCHANGED <<runnerVars, control, submitted, faults>>

\* markAssignmentSettled, then the settled event of the assignment and of the agent.
SettledState(b) == IF b.mode = "manual_takeover" THEN "needs_reconciliation" ELSE "settled"
Settled(b) ==
    IF b.assignment.state \in BridgeActive
    THEN EmitOwn([b EXCEPT !.assignment.state = SettledState(b)],
                 IF b.mode = "manual_takeover" THEN "assignment_needs_reconciliation" ELSE "agent_settled")
    ELSE b

AgentSettled ==
    /\ turn.phase = "working" /\ turn' = NoTurn
    /\ Publish(EmitOwn(Settled(bridge), "agent_settled"))
    /\ UNCHANGED <<runnerVars, control, submitted, faults>>

\* The visible Pi ends and another one starts in the Shell, with a new session.
RestartPi ==
    /\ bridge.session < MaxPiStarts
    /\ bridge' = NewBridge(bridge.session + 1)
    /\ socket' = NoSocket
    /\ closing' = (closing \/ socket.registered)
    /\ pending' = Orphaned
    /\ turn' = NoTurn
    /\ UNCHANGED <<memory, file, running, control, submitted, faults>>

-----------------------------------------------------------------------------
RunnerStep ==
    \/ AcceptBridge \/ RejectBridge \/ RefuseBridge
    \/ HandleAssignmentAck \/ HandleCoveredEvent \/ HandleEvent \/ HandleSnapshot \/ RefuseFrame
    \/ Disconnect \/ Replace
    \/ RefuseAssignment \/ \E id \in Assignments : IssueAssignment(id)
BridgeStep ==
    \/ Connect \/ ReceiveHelloAck \/ ReceiveRunnerSnapshot \/ RefuseWork \/ AcceptWork
    \/ AgentStart \/ AgentSettled
ControlStep == ConnectControl \/ RejectControl \/ DisconnectControl \/ \E id \in Assignments : QueueAssign(id)
FaultStep == BreakSocket \/ BreakControl \/ FailReplace \/ CrashRunner \/ RestartPi

Next == RunnerStep \/ BridgeStep \/ ControlStep \/ StartRunner \/ SubmitInput \/ FaultStep

Frames ==
    \/ AcceptBridge \/ RejectBridge \/ RefuseBridge
    \/ HandleAssignmentAck \/ HandleCoveredEvent \/ HandleEvent \/ HandleSnapshot \/ RefuseFrame

(* The event loops of the runner and of the bridge handle what arrives, a  *)
(* write of the state file ends, the bridge's timer connects again, and    *)
(* somebody starts a runner that ended.                                    *)
Fairness ==
    /\ WF_vars(Frames) /\ WF_vars(Disconnect) /\ WF_vars(Replace)
    /\ WF_vars(Connect) /\ WF_vars(ReceiveHelloAck \/ ReceiveRunnerSnapshot \/ RefuseWork \/ AcceptWork)
    /\ WF_vars(StartRunner)

Spec == Init /\ [][Next]_vars /\ Fairness

-----------------------------------------------------------------------------
(* Properties.                                                             *)

\* The records of runner, bridge, client and sockets keep their types.
TypeOK ==
    /\ ValidRunnerState(memory) /\ ValidRunnerState(file)
    /\ ToSet(socket.toRunner) \subseteq BridgeFrames /\ ToSet(bridge.queue) \subseteq BridgeFrames
    /\ ToSet(socket.toBridge) \subseteq RunnerFrames
    /\ bridge.assignment \in AssignmentSummary /\ bridge.mode \in Modes /\ bridge.seen \subseteq Ids
    /\ Len(bridge.queue) <= MaxPending
    /\ turn.phase \in {"idle", "starting", "working"} /\ control.link \in {"up", "down", "closed"}
    /\ pending # Idle => running
    /\ socket.registered => socket.up

\* An assignment is handed to Pi at most once, whatever is sent again after a
\* lost connection, a runner restart or a Pi restart.
SubmittedOnce == \A id \in DOMAIN submitted : submitted[id] <= 1

\* What the bridge has seen of an assignment survives a crash of the runner:
\* the intent was in the file before it was sent.
DeliveredIsDurable == \A id \in bridge.seen : Known(file, id)

\* Nothing is in flight between a bridge and the runner that serves it.
Quiet ==
    /\ running /\ pending = Idle /\ socket.registered
    /\ socket.toRunner = <<>> /\ socket.toBridge = <<>>

\* A takeover reaches the runner, also one made while the socket was down or
\* while the client's queue was full, whose events the runner drops.
TakeoverCarried == Quiet /\ bridge.mode = "manual_takeover" => memory.mode = "manual_takeover"

\* The Role was given another assignment than the one its bridge remembers: each
\* takes the other's frames for a mismatch, and the runner ends every connection.
Mismatched == bridge.assignment.id \notin {NoAssignment, Latest(memory).id}

Excused ==
    faults.replaceFailed \/ faults.overlapped \/ bridge.session > 1 \/ Mismatched

\* A bridge whose Pi lives is served again for good after the last break and
\* crash, unless a replacement of the state file failed, the runner met its
\* hello before it had closed the bridge's own previous connection, or the Role
\* got another assignment behind its back (lib/runner-core.mjs:146, acceptBridge).
ServedAgain == <>[]((socket.registered /\ bridge.connected) \/ Excused)
=============================================================================
