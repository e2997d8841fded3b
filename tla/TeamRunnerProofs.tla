--------------------------- MODULE TeamRunnerProofs ---------------------------
(* Theorems about TeamRunner, for every set of Roles and clients and every    *)
(* value of the bounds.                                                       *)
EXTENDS TeamRunner, SequenceTheorems, WellFoundedInduction, TLAPS

-----------------------------------------------------------------------------
(* Types of the database and of the bridges. *)

BridgesTypeOK == DurableTypeOK /\ BridgeTypeOK

\* The frames behind the head of a box, up to the k-th, are frames of the box.
LEMMA Behind ==
  ASSUME NEW S, NEW s \in Seq(S), NEW k \in 0 .. Len(s) - 1
  PROVE  /\ SubSeq(s, 2, k + 1) \in Seq(S)
         /\ \A i \in DOMAIN SubSeq(s, 2, k + 1) :
              i + 1 \in DOMAIN s /\ SubSeq(s, 2, k + 1)[i] = s[i + 1]
<1>1. \A i \in 2 .. k + 1 : s[i] \in S
  BY ElementOfSeq
<1>2. /\ SubSeq(s, 2, k + 1) \in Seq(S)
      /\ Len(SubSeq(s, 2, k + 1)) = IF 2 <= k + 1 THEN (k + 1) - 2 + 1 ELSE 0
      /\ \A i \in 1 .. (k + 1) - 2 + 1 : SubSeq(s, 2, k + 1)[i] = s[2 + i - 1]
  BY <1>1, SubSeqProperties
<1>3. Len(SubSeq(s, 2, k + 1)) = k
  BY <1>2
<1>4. DOMAIN SubSeq(s, 2, k + 1) = 1 .. k /\ DOMAIN s = 1 .. Len(s)
  BY <1>2, <1>3, LenProperties
<1> QED  BY <1>2, <1>4

\* What closing a bridge does to its session, its box and its host.
LEMMA CloseBridgeType ==
  ASSUME BridgeTypeOK, NEW r \in Roles, NEW k \in Nat, k = 0 \/ k <= Len(inbox[r]) - 1,
         CloseBridge(r, k)
  PROVE  /\ session' \in [Roles -> {"none", "live", "dead", "refused"}]
         /\ inbox' \in [Roles -> Seq(BridgeFrames)]
         /\ host' \in [Roles -> Connections]
<1>1. SubSeq(inbox[r], 2, k + 1) \in Seq(BridgeFrames)
  <2>1. inbox[r] \in Seq(BridgeFrames)  BY DEF BridgeTypeOK
  <2>2. CASE k <= Len(inbox[r]) - 1  BY <2>1, <2>2, Behind
  <2>3. CASE k = 0
    <3>1. SubSeq(inbox[r], 2, 1) = << >>  BY SubSeqEmpty
    <3> QED  BY <2>3, <3>1
  <2> QED  BY <2>2, <2>3
<1>2. inbox' \in [Roles -> Seq(BridgeFrames)]
  BY <1>1 DEF CloseBridge, BridgeTypeOK
<1> QED  BY <1>2 DEF CloseBridge, BridgeTypeOK, Connections

\* The stream appends its events to the log.
LEMMA PushType ==
  ASSUME DurableTypeOK, NEW new \in Seq(EventRecords), PushEventsToProjections(new)
  PROVE  events' \in Seq(EventRecords)
BY ConcatProperties DEF DurableTypeOK, PushEventsToProjections

\* The end of a committing handler keeps the types of the bridge it serves.
LEMMA FinishType ==
  ASSUME BridgeTypeOK, NEW r \in Roles, inbox[r] # << >>, NEW frames \in Seq(HostFrames),
         FinishBridgeFrame(r, frames)
  PROVE  /\ session' \in [Roles -> {"none", "live", "dead", "refused"}]
         /\ inbox' \in [Roles -> Seq(BridgeFrames)]
         /\ host' \in [Roles -> Connections]
         /\ toHost' \in [Roles -> Seq(HostFrames)]
<1>1. toHost' \in [Roles -> Seq(HostFrames)]
  <2>1. toHost[r] \o frames \in Seq(HostFrames)
    BY ConcatProperties DEF BridgeTypeOK
  <2> QED  BY <2>1 DEF FinishBridgeFrame, BridgeTypeOK
<1>2. CASE StreamThrows
  BY <1>1, <1>2, CloseBridgeType DEF FinishBridgeFrame
<1>3. CASE ~StreamThrows
  <2>1. Tail(inbox[r]) \in Seq(BridgeFrames)
    BY HeadTailProperties DEF BridgeTypeOK
  <2> QED  BY <1>1, <1>3, <2>1 DEF FinishBridgeFrame, BridgeTypeOK
<1> QED  BY <1>2, <1>3

\* A frame a host sends is a bridge frame, wherever it waits.
LEMMA HostSendType ==
  ASSUME BridgeTypeOK, NEW r \in Roles, NEW kind \in {"input", "accepted", "duplicate"},
         NEW id \in Nat, HostSend(r, kind, id)
  PROVE  inbox' \in [Roles -> Seq(BridgeFrames)] /\ newbox' \in [Roles -> Seq(BridgeFrames)]
<1> DEFINE frame == [kind |-> kind, id |-> id]
<1>1. frame \in BridgeFrames  BY DEF BridgeFrames
<1>2. /\ Append(inbox[r], frame) \in Seq(BridgeFrames)
      /\ Append(newbox[r], frame) \in Seq(BridgeFrames)
  BY <1>1, AppendProperties DEF BridgeTypeOK
<1> QED  BY <1>2 DEF HostSend, BridgeTypeOK

\* The accepted and the taken-over row are rows.
LEMMA BindingRows ==
  ASSUME NEW b \in Bindings, NEW id \in Nat, NEW work
  PROVE  AcceptedBinding(b) \in Bindings /\ TakenOverBinding(b, id, work) \in Bindings
BY DEF Bindings, AcceptedBinding, TakenOverBinding, DerivePresentationState, PresentationStates

\* A host's memory stays a memory under each change a host makes.
LEMMA MemoryRecords ==
  ASSUME NEW m \in Memories, NEW l \in PresentationStates \cup {"none"}
  PROVE  /\ m.source + 1 \in Nat
         /\ [m EXCEPT !.source = m.source + 1] \in Memories
         /\ [m EXCEPT !.shown = l] \in Memories
         /\ [m EXCEPT !.queued = TRUE] \in Memories
         /\ [m EXCEPT !.accepted = TRUE, !.queued = FALSE, !.turns = m.turns + 1] \in Memories
<1>1. m.source \in Nat /\ m.turns \in Nat /\ m.shown \in PresentationStates \cup {"none"}
  BY DEF Memories
<1>2. m.source + 1 \in Nat /\ m.turns + 1 \in Nat
  BY <1>1
<1>3. [m EXCEPT !.source = m.source + 1] \in Memories  BY <1>2 DEF Memories
<1>4. [m EXCEPT !.shown = l] \in Memories  BY DEF Memories
<1>5. [m EXCEPT !.queued = TRUE] \in Memories  BY DEF Memories
<1>6. [m EXCEPT !.accepted = TRUE, !.queued = FALSE, !.turns = m.turns + 1] \in Memories
  BY <1>2 DEF Memories
<1> QED  BY <1>2, <1>3, <1>4, <1>5, <1>6

\* The rows and the frames of each handler have their types.
LEMMA HostStepType ==
  ASSUME BridgesTypeOK, NEW r \in Roles, HostStep(r)
  PROVE  BridgesTypeOK'
<1> USE DEF BridgesTypeOK
<1>0. memory[r] \in Memories  BY DEF BridgeTypeOK
<1>1. UNCHANGED <<durable, up>> => DurableTypeOK' /\ up' \in BOOLEAN
  BY DEF durable, DurableTypeOK, BridgeTypeOK
<1>2. CASE BridgeConnect(r)
  BY <1>1, <1>2 DEF BridgeConnect, BridgeTypeOK, Connections, runner
<1>3. CASE SubmitInteractiveInput(r)
  <2>1. memory' \in [Roles -> Memories] /\ memory[r].source + 1 \in Nat
    <3>1. memory[r].source + 1 \in Nat /\ [memory[r] EXCEPT !.source = memory[r].source + 1] \in Memories
      BY <1>0, MemoryRecords
    <3>2. memory' = [memory EXCEPT ![r] = [memory[r] EXCEPT !.source = memory[r].source + 1]]
      BY <1>3 DEF SubmitInteractiveInput
    <3> QED  BY <3>1, <3>2 DEF BridgeTypeOK
  <2>2. inbox' \in [Roles -> Seq(BridgeFrames)] /\ newbox' \in [Roles -> Seq(BridgeFrames)]
    BY <1>3, <2>1, HostSendType DEF SubmitInteractiveInput
  <2> QED  BY <1>1, <1>3, <2>1, <2>2 DEF SubmitInteractiveInput, BridgeTypeOK
<1>4. Accept(r) => memory' \in [Roles -> Memories]
  <2> DEFINE m == [memory[r] EXCEPT !.accepted = TRUE, !.queued = FALSE,
                                    !.turns = memory[r].turns + 1]
  <2>1. m \in Memories  BY <1>0, MemoryRecords
  <2>2. Accept(r) => memory' = [memory EXCEPT ![r] = m]
    BY DEF Accept, BridgeTypeOK
  <2> QED  BY <2>1, <2>2 DEF BridgeTypeOK
<1>5. CASE HostReceive(r)
  <2>1. toHost' \in [Roles -> Seq(HostFrames)] /\ Head(toHost[r]) \in HostFrames
    BY <1>5, HeadTailProperties DEF HostReceive, BridgeTypeOK
  <2>2. /\ memory' \in [Roles -> Memories]
        /\ inbox' \in [Roles -> Seq(BridgeFrames)]
        /\ newbox' \in [Roles -> Seq(BridgeFrames)]
    <3>1. CASE Head(toHost[r]).kind = "label" /\ memory' = [memory EXCEPT ![r].shown = Head(toHost[r]).label]
                 /\ UNCHANGED <<inbox, newbox>>
      <4>1. Head(toHost[r]).label \in PresentationStates \cup {"none"}
        BY <2>1 DEF HostFrames
      <4>2. [memory[r] EXCEPT !.shown = Head(toHost[r]).label] \in Memories
        BY <1>0, <4>1, MemoryRecords
      <4>3. memory' = [memory EXCEPT ![r] = [memory[r] EXCEPT !.shown = Head(toHost[r]).label]]
        BY <3>1
      <4> QED  BY <3>1, <4>2, <4>3 DEF BridgeTypeOK
    <3>2. CASE HandleAssignment(r)
      <4>1. CASE HostSend(r, "duplicate", 0) /\ UNCHANGED memory
        BY <4>1, HostSendType DEF BridgeTypeOK
      <4>2. CASE HostSend(r, "accepted", 0) /\ Accept(r)
        BY <1>4, <4>2, HostSendType DEF BridgeTypeOK
      <4>3. CASE memory' = [memory EXCEPT ![r].queued = TRUE] /\ UNCHANGED <<inbox, newbox>>
        BY <4>3 DEF BridgeTypeOK, Memories
      <4> QED  BY <3>2, <4>1, <4>2, <4>3 DEF HandleAssignment
    <3> QED  BY <1>5, <3>1, <3>2 DEF HostReceive
  <2> QED  BY <1>1, <1>5, <2>1, <2>2 DEF HostReceive, BridgeTypeOK
<1>6. CASE StartQueuedAssignment(r)
  <2>1. inbox' \in [Roles -> Seq(BridgeFrames)] /\ newbox' \in [Roles -> Seq(BridgeFrames)]
    BY <1>6, HostSendType DEF StartQueuedAssignment
  <2> QED  BY <1>1, <1>4, <1>6, <2>1 DEF StartQueuedAssignment, BridgeTypeOK
<1>7. CASE BridgeDisconnect(r)
  <2>1. << >> \in Seq(HostFrames) /\ << >> \in Seq(BridgeFrames)
    BY EmptySeq
  <2> QED  BY <1>1, <1>7, <2>1 DEF BridgeDisconnect, BridgeTypeOK, Connections
<1> QED  BY <1>2, <1>3, <1>5, <1>6, <1>7 DEF HostStep

\* Every frame the runner handles leaves the rows, boxes and hosts typed.
LEMMA RunnerStepType ==
  ASSUME BridgesTypeOK, NEW r \in Roles, RunnerStep(r)
  PROVE  BridgesTypeOK'
<1> USE DEF BridgesTypeOK
<1>1. << >> \in Seq(BridgeFrames) /\ << >> \in Seq(HostFrames)
  BY EmptySeq
<1>2. binding[r] \in Bindings /\ binding[r].label \in PresentationStates
  BY DEF DurableTypeOK, Bindings
<1>3. \A t \in EventTypes, n \in Nat : <<Event(t, r, n)>> \in Seq(EventRecords)
  <2> TAKE t \in EventTypes, n \in Nat
  <2>1. Event(t, r, n) \in EventRecords  BY DEF Event, EventRecords
  <2> QED  BY <2>1
<1>4. \A l \in PresentationStates : <<LabelFrame(l)>> \in Seq(HostFrames)
  <2> TAKE l \in PresentationStates
  <2>1. LabelFrame(l) \in HostFrames  BY DEF LabelFrame, HostFrames
  <2> QED  BY <2>1
<1>5. CASE RefuseBusyRole(r)
  BY <1>1, <1>5 DEF RefuseBusyRole, DurableTypeOK, BridgeTypeOK, Connections, durable, runner
<1>6. CASE HandleBridgeHello(r)
  <2>1. events' \in Seq(EventRecords)
    BY <1>3, <1>6, PushType DEF HandleBridgeHello, EventTypes
  <2>2. HandshakeFrames(r) \in Seq(HostFrames)
    <3>1. <<AssignmentFrame>> \in Seq(HostFrames)
      BY DEF AssignmentFrame, HostFrames
    <3> QED  BY <1>1, <1>2, <1>4, <3>1, ConcatProperties DEF HandshakeFrames
  <2> QED  BY <1>1, <1>6, <2>1, <2>2 DEF HandleBridgeHello, DurableTypeOK, BridgeTypeOK, Connections
<1>7. RunnerServes(r, "accepted") \/ RunnerServes(r, "duplicate") \/ RunnerServes(r, "input")
        => /\ inbox[r] # << >>
           /\ Head(inbox[r]).id \in Nat
           /\ Len(inbox[r]) \in Nat
  <2>1. inbox[r] \in Seq(BridgeFrames)  BY DEF BridgeTypeOK
  <2>2. Len(inbox[r]) \in Nat  BY <2>1, LenProperties
  <2>3. inbox[r] # << >> => Head(inbox[r]) \in BridgeFrames  BY <2>1, HeadTailProperties
  <2>4. inbox[r] # << >> => Head(inbox[r]).id \in Nat  BY <2>3 DEF BridgeFrames
  <2> QED  BY <2>2, <2>4 DEF RunnerServes
<1>8. CASE AcceptAssignment(r)
  <2>1. AcceptedBinding(binding[r]) \in Bindings
    BY <1>2, BindingRows
  <2>2. binding' \in [Roles -> Bindings] /\ binding'[r].label \in PresentationStates
    BY <1>8, <2>1 DEF AcceptAssignment, DurableTypeOK, Bindings
  <2>3. events' \in Seq(EventRecords)
    BY <1>3, <1>8, PushType DEF AcceptAssignment, EventTypes
  <2>4. /\ session' \in [Roles -> {"none", "live", "dead", "refused"}]
        /\ inbox' \in [Roles -> Seq(BridgeFrames)]
        /\ host' \in [Roles -> Connections]
        /\ toHost' \in [Roles -> Seq(HostFrames)]
    BY <1>4, <1>7, <1>8, <2>2, FinishType DEF AcceptAssignment
  <2> QED  BY <1>8, <2>2, <2>3, <2>4 DEF AcceptAssignment, DurableTypeOK, AssignmentRows, BridgeTypeOK, AssignmentStates
<1>9. CASE RecordDuplicateAck(r)
  <2>1. events' \in Seq(EventRecords)
    BY <1>3, <1>9, PushType DEF RecordDuplicateAck, EventTypes
  <2>2. /\ session' \in [Roles -> {"none", "live", "dead", "refused"}]
        /\ inbox' \in [Roles -> Seq(BridgeFrames)]
        /\ host' \in [Roles -> Connections]
        /\ toHost' \in [Roles -> Seq(HostFrames)]
    BY <1>1, <1>7, <1>9, FinishType DEF RecordDuplicateAck
  <2> QED  BY <1>9, <2>1, <2>2 DEF RecordDuplicateAck, DurableTypeOK, AssignmentRows, BridgeTypeOK
<1>10. CASE RefuseAcknowledgement(r)
  <2>1. PICK k \in 0 .. Len(inbox[r]) - 1 : CloseBridge(r, k)
    BY <1>10 DEF RefuseAcknowledgement
  <2>2. /\ session' \in [Roles -> {"none", "live", "dead", "refused"}]
        /\ inbox' \in [Roles -> Seq(BridgeFrames)]
        /\ host' \in [Roles -> Connections]
    <3>1. k \in Nat /\ k <= Len(inbox[r]) - 1
      BY <1>7, <1>10 DEF RefuseAcknowledgement
    <3> QED  BY <2>1, <3>1, CloseBridgeType
  <2> QED  BY <1>10, <2>2 DEF RefuseAcknowledgement, durable, DurableTypeOK, BridgeTypeOK
<1>11. CASE ApplyInteractiveInput(r)
  <2> DEFINE id == Head(inbox[r]).id
  <2>1. CASE TakeOver(r, id)
    <3>1. id \in Nat  BY <1>7, <1>11 DEF ApplyInteractiveInput
    <3>2. \A w : TakenOverBinding(binding[r], id, w) \in Bindings
      BY <1>2, <3>1, BindingRows
    <3>3. binding' \in [Roles -> Bindings] /\ binding'[r].label \in PresentationStates
      BY <2>1, <3>2 DEF TakeOver, DurableTypeOK, Bindings
    <3>4. events' \in Seq(EventRecords)
      <4>1. <<Event("human_input_submitted", r, id), Event("manual_takeover", r, 0)>> \in Seq(EventRecords)
        BY <3>1 DEF Event, EventRecords, EventTypes
      <4> QED  BY <2>1, <4>1, PushType DEF TakeOver
    <3>5. /\ session' \in [Roles -> {"none", "live", "dead", "refused"}]
          /\ inbox' \in [Roles -> Seq(BridgeFrames)]
          /\ host' \in [Roles -> Connections]
          /\ toHost' \in [Roles -> Seq(HostFrames)]
      BY <1>4, <1>7, <1>11, <2>1, <3>3, FinishType DEF ApplyInteractiveInput, TakeOver
    <3>6. assignment' \in [state : AssignmentStates, acknowledged : {"none", "accepted", "duplicate"}]
      BY <2>1 DEF TakeOver, DurableTypeOK, AssignmentRows, AssignmentStates
    <3> QED  BY <1>11, <3>3, <3>4, <3>5, <3>6 DEF ApplyInteractiveInput, DurableTypeOK, AssignmentRows, BridgeTypeOK
  <2>2. CASE IgnoreSourceEvent(r)
    <3>1. Tail(inbox[r]) \in Seq(BridgeFrames)
      BY <1>7, <1>11, HeadTailProperties DEF ApplyInteractiveInput, BridgeTypeOK
    <3> QED  BY <1>11, <2>2, <3>1 DEF ApplyInteractiveInput, IgnoreSourceEvent, durable, DurableTypeOK, BridgeTypeOK
  <2> QED  BY <1>11, <2>1, <2>2 DEF ApplyInteractiveInput
<1>12. CASE HandleBridgeClose(r)
  BY <1>12, CloseBridgeType DEF HandleBridgeClose, durable, DurableTypeOK, BridgeTypeOK
<1> QED  BY <1>5, <1>6, <1>8, <1>9, <1>10, <1>11, <1>12 DEF RunnerStep

\* The steps of clients and the runner's own life leave the bridges typed.
LEMMA OtherStepType ==
  ASSUME BridgesTypeOK,
         \/ \E c \in Clients : ClientStep(c)
         \/ \E i \in DOMAIN projections : DestroyProjection(i) \/ HandleProjectionClose(i)
         \/ StopRunner \/ StartRunner
  PROVE  BridgesTypeOK'
<1> USE DEF BridgesTypeOK
<1>1. UNCHANGED <<durable, up, session, inbox, hosts>> => BridgesTypeOK'
  BY DEF durable, hosts, DurableTypeOK, BridgeTypeOK
<1>2. CASE \E c \in Clients : ClientStep(c)
  BY <1>1, <1>2 DEF ClientStep, ClientConnect, HandleProjectionHello, ClientDisconnect, ClientReceive, runner
<1>3. CASE \E i \in DOMAIN projections : DestroyProjection(i) \/ HandleProjectionClose(i)
  BY <1>1, <1>3 DEF DestroyProjection, HandleProjectionClose
<1>4. CASE StopRunner
  <2>1. << >> \in Seq(BridgeFrames)  BY EmptySeq
  <2>2. \A x \in Connections : AfterStop(x) \in Connections
    BY DEF AfterStop, Connections
  <2>3. host' \in [Roles -> Connections]
    BY <1>4, <2>2 DEF StopRunner, BridgeTypeOK
  <2> QED  BY <1>4, <2>1, <2>3 DEF StopRunner, durable, DurableTypeOK, BridgeTypeOK
<1>5. CASE StartRunner
  <2>1. Event("runner_restarted", Null, 0) \in EventRecords
    BY DEF Event, EventRecords, EventTypes
  <2>2. events' \in Seq(EventRecords)
    BY <1>5, <2>1, AppendProperties DEF StartRunner, DurableTypeOK
  <2> QED  BY <1>5, <2>2 DEF StartRunner, hosts, DurableTypeOK, BridgeTypeOK
<1> QED  BY <1>2, <1>3, <1>4, <1>5

\* The database and the bridges keep their types (TypeOK but for the clients),
\* whatever the Roles, the clients and the bounds.
THEOREM TypesCorrect == Spec => []BridgesTypeOK
<1>1. Init => BridgesTypeOK
  <2> SUFFICES ASSUME Init PROVE BridgesTypeOK
    OBVIOUS
  <2>1. << >> \in Seq(BridgeFrames) /\ << >> \in Seq(HostFrames)
    BY EmptySeq
  <2>2. Event("goal_bootstrapped", Null, 0) \in EventRecords
    BY DEF Event, EventRecords, EventTypes
  <2>3. DurableTypeOK
    BY <2>2 DEF Init, Bootstrapped, DurableTypeOK, Bindings, PresentationStates, AssignmentRows, AssignmentStates
  <2>4. BridgeTypeOK
    BY <2>1 DEF Init, Bootstrapped, BridgeTypeOK, Connections, Memories
  <2> QED  BY <2>3, <2>4 DEF BridgesTypeOK
<1>2. BridgesTypeOK /\ [Next]_vars => BridgesTypeOK'
  <2> SUFFICES ASSUME BridgesTypeOK, [Next]_vars PROVE BridgesTypeOK'
    OBVIOUS
  <2>1. CASE UNCHANGED vars
    BY <2>1 DEF vars, durable, runner, hosts, BridgesTypeOK, DurableTypeOK, BridgeTypeOK
  <2> QED  BY <2>1, HostStepType, RunnerStepType, OtherStepType DEF Next
<1> QED  BY <1>1, <1>2, PTL DEF Spec

-----------------------------------------------------------------------------
(* Labels and takeover: what a step may do to the rows. *)

RowsKept == binding' = binding /\ assignment'.state = assignment.state
RowsAccepted ==
  /\ assignment.state = "pending" /\ assignment'.state = "active"
  /\ binding' = [binding EXCEPT ![Builder] = AcceptedBinding(binding[Builder])]
RowsTakenOver(r, id) ==
  /\ assignment'.state = IF r = Builder /\ assignment.state = "active"
                         THEN "needs_reconciliation" ELSE assignment.state
  /\ binding' = [binding EXCEPT
       ![r] = TakenOverBinding(binding[r], id, AssignmentStateOf(r, assignment'.state))]

\* A step keeps the control mode, agent and assignment columns, accepts the
\* pending assignment, or takes one Role over.
LEMMA RowSteps ==
  ASSUME BridgesTypeOK, [Next]_vars
  PROVE  RowsKept \/ RowsAccepted \/ \E r \in Roles, id \in Nat : RowsTakenOver(r, id)
<1>1. UNCHANGED durable => RowsKept
  BY DEF durable, RowsKept
<1>2. CASE UNCHANGED vars
  BY <1>1, <1>2 DEF vars
<1>3. CASE \E r \in Roles : HostStep(r)
  BY <1>1, <1>3 DEF HostStep, BridgeConnect, SubmitInteractiveInput, HostReceive,
     StartQueuedAssignment, BridgeDisconnect
<1>4. ASSUME NEW r \in Roles, RunnerStep(r)
      PROVE  RowsKept \/ RowsAccepted \/ \E id \in Nat : RowsTakenOver(r, id)
  <2>1. CASE RefuseBusyRole(r) \/ RefuseAcknowledgement(r) \/ HandleBridgeClose(r)
    BY <1>1, <2>1 DEF RefuseBusyRole, RefuseAcknowledgement, HandleBridgeClose
  <2>2. CASE HandleBridgeHello(r)
    BY <2>2 DEF HandleBridgeHello, RowsKept
  <2>3. CASE AcceptAssignment(r)
    BY <2>3 DEF AcceptAssignment, RowsAccepted
  <2>4. CASE RecordDuplicateAck(r)
    BY <2>4 DEF RecordDuplicateAck, RowsKept, BridgesTypeOK, DurableTypeOK
  <2>5. CASE ApplyInteractiveInput(r)
    <3> DEFINE id == Head(inbox[r]).id
    <3>1. CASE IgnoreSourceEvent(r)
      BY <1>1, <3>1 DEF IgnoreSourceEvent
    <3>2. CASE TakeOver(r, id)
      <4>1. inbox[r] \in Seq(BridgeFrames) /\ inbox[r] # << >>
        BY <2>5 DEF ApplyInteractiveInput, RunnerServes, BridgesTypeOK, BridgeTypeOK
      <4>2. Head(inbox[r]) \in BridgeFrames
        BY <4>1, HeadTailProperties
      <4>3. id \in Nat
        BY <4>2 DEF BridgeFrames
      <4>4. RowsTakenOver(r, id)
        BY <3>2 DEF TakeOver, RowsTakenOver, BridgesTypeOK, DurableTypeOK
      <4> QED  BY <4>3, <4>4
    <3> QED  BY <2>5, <3>1, <3>2 DEF ApplyInteractiveInput
  <2> QED  BY <1>4, <2>1, <2>2, <2>3, <2>4, <2>5 DEF RunnerStep
<1>5. CASE \E c \in Clients : ClientStep(c)
  BY <1>1, <1>5 DEF ClientStep, ClientConnect, HandleProjectionHello, ClientDisconnect, ClientReceive
<1>6. CASE \E i \in DOMAIN projections : DestroyProjection(i) \/ HandleProjectionClose(i)
  BY <1>1, <1>6 DEF DestroyProjection, HandleProjectionClose
<1>7. CASE StopRunner \/ StartRunner
  BY <1>1, <1>7 DEF StopRunner, StartRunner, RowsKept
<1> QED  BY <1>2, <1>3, <1>4, <1>5, <1>6, <1>7 DEF Next

\* The stored labels always agree with the columns they are derived from
\* (presentationLabels, called by bootstrap, acceptance and takeover).
THEOREM LabelsCorrect == Spec => []LabelsAgree
<1>1. Init => LabelsAgree
  BY DEF Init, Bootstrapped, LabelsAgree, DerivePresentationState, AssignmentStateOf
<1>2. ASSUME BridgesTypeOK, LabelsAgree, [Next]_vars PROVE LabelsAgree'
  <2> SUFFICES ASSUME NEW q \in Roles
               PROVE  binding'[q].label = DerivePresentationState(binding'[q].control,
                        binding'[q].agent, AssignmentStateOf(q, assignment'.state))
    BY DEF LabelsAgree
  <2>1. binding[q] \in Bindings /\ binding[q].label = DerivePresentationState(
          binding[q].control, binding[q].agent, AssignmentStateOf(q, assignment.state))
    BY <1>2 DEF LabelsAgree, BridgesTypeOK, DurableTypeOK
  <2>2. CASE RowsKept
    BY <2>1, <2>2 DEF RowsKept
  <2>3. CASE RowsAccepted
    <3>1. CASE q = Builder
      <4>1. binding'[q] = AcceptedBinding(binding[q])
        BY <1>2, <2>3, <3>1 DEF RowsAccepted, BridgesTypeOK, DurableTypeOK
      <4>2. /\ binding'[q].control = binding[q].control
            /\ binding'[q].agent = "working"
            /\ binding'[q].label = DerivePresentationState(binding[q].control, "working", "active")
        BY <2>1, <4>1 DEF AcceptedBinding, Bindings
      <4>3. AssignmentStateOf(q, assignment'.state) = "active"
        BY <2>3, <3>1 DEF RowsAccepted, AssignmentStateOf
      <4> QED  BY <4>2, <4>3
    <3>2. CASE q # Builder
      BY <1>2, <2>1, <2>3, <3>2
         DEF RowsAccepted, AssignmentStateOf, BridgesTypeOK, DurableTypeOK
    <3> QED  BY <3>1, <3>2
  <2>4. ASSUME NEW r \in Roles, NEW id \in Nat, RowsTakenOver(r, id)
        PROVE  binding'[q].label = DerivePresentationState(binding'[q].control,
                 binding'[q].agent, AssignmentStateOf(q, assignment'.state))
    <3>1. CASE q = r
      <4>1. binding'[q] = TakenOverBinding(binding[q], id, AssignmentStateOf(q, assignment'.state))
        BY <1>2, <2>4, <3>1 DEF RowsTakenOver, BridgesTypeOK, DurableTypeOK
      <4> QED  BY <2>1, <4>1 DEF TakenOverBinding, DerivePresentationState, Bindings
    <3>2. CASE q # r
      BY <1>2, <2>1, <2>4, <3>2
         DEF RowsTakenOver, AssignmentStateOf, BridgesTypeOK, DurableTypeOK
    <3> QED  BY <3>1, <3>2
  <2> QED  BY <1>2, RowSteps, <2>2, <2>3, <2>4
<1> QED  BY <1>1, <1>2, TypesCorrect, PTL DEF Spec

\* A takeover touches only its own Role's row, control is never given back, and
\* the assignment never moves backwards (applyInteractiveInput).
THEOREM TakeoverCorrect == Spec => TakeoverIsolated
<1>1. ASSUME BridgesTypeOK, [Next]_vars
      PROVE  [/\ \A r, q \in Roles : binding'[r] # binding[r] /\ binding'[q] # binding[q] => r = q
              /\ \A r \in Roles : binding[r].control = "manual_takeover"
                                 => binding'[r].control = "manual_takeover"
              /\ OrderOf(assignment.state) <= OrderOf(assignment'.state)]_vars
  <2>1. assignment.state \in AssignmentStates /\ binding \in [Roles -> Bindings]
    BY <1>1 DEF BridgesTypeOK, DurableTypeOK, AssignmentRows
  <2>2. CASE RowsKept
    BY <2>1, <2>2 DEF RowsKept, OrderOf, AssignmentStates
  <2>3. CASE RowsAccepted
    <3>1. \A q \in Roles : q # Builder => binding'[q] = binding[q]
      BY <2>1, <2>3 DEF RowsAccepted
    <3>2. binding'[Builder].control = binding[Builder].control
      BY <2>1, <2>3, RolesAssumption DEF RowsAccepted, AcceptedBinding, Bindings
    <3>3. OrderOf(assignment.state) <= OrderOf(assignment'.state)
      BY <2>3 DEF RowsAccepted, OrderOf
    <3> QED  BY <3>1, <3>2, <3>3
  <2>4. ASSUME NEW r \in Roles, NEW id \in Nat, RowsTakenOver(r, id)
        PROVE  /\ \A p, q \in Roles : binding'[p] # binding[p] /\ binding'[q] # binding[q] => p = q
               /\ \A q \in Roles : binding[q].control = "manual_takeover"
                                 => binding'[q].control = "manual_takeover"
               /\ OrderOf(assignment.state) <= OrderOf(assignment'.state)
    <3>1. \A q \in Roles : q # r => binding'[q] = binding[q]
      BY <2>1, <2>4 DEF RowsTakenOver
    <3>2. binding'[r].control = "manual_takeover"
      BY <2>1, <2>4 DEF RowsTakenOver, TakenOverBinding, Bindings
    <3>3. OrderOf(assignment.state) <= OrderOf(assignment'.state)
      BY <2>1, <2>4 DEF RowsTakenOver, OrderOf, AssignmentStates
    <3> QED  BY <3>1, <3>2, <3>3
  <2> QED  BY <1>1, RowSteps, <2>2, <2>3, <2>4
<1> QED  BY <1>1, TypesCorrect, PTL DEF Spec, TakeoverIsolated

-----------------------------------------------------------------------------
(* Accepted work: the runner's record against the host's memory. *)

Boxed(r) == ToSet(inbox[r]) \cup ToSet(newbox[r])

\* An acknowledgement on its way was sent by a host that ran the turn; only the
\* Builder's host is ever sent the assignment.
WorkInv ==
  /\ assignment.state # "pending" => memory[Builder].accepted
  /\ \A r \in Roles :
       /\ memory[r].turns = (IF memory[r].accepted THEN 1 ELSE 0)
       /\ memory[r].accepted \/ memory[r].queued => r = Builder
       /\ \A f \in Boxed(r) : f.kind \in {"accepted", "duplicate"} => memory[r].accepted
       /\ \A f \in ToSet(toHost[r]) : f.kind = "assignment" => r = Builder

\* The members of a sequence after the operations the handlers apply to it.
LEMMA Members ==
  ASSUME NEW S, NEW s \in Seq(S), NEW t \in Seq(S), NEW e \in S
  PROVE  /\ ToSet(Append(s, e)) = ToSet(s) \cup {e}
         /\ ToSet(s \o t) = ToSet(s) \cup ToSet(t)
         /\ s # << >> => ToSet(Tail(s)) \subseteq ToSet(s) /\ Head(s) \in ToSet(s)
         /\ \A k \in 0 .. Len(s) - 1 : ToSet(SubSeq(s, 2, k + 1)) \subseteq ToSet(s)
<1>1. ToSet(Append(s, e)) = ToSet(s) \cup {e}
  BY AppendProperties DEF ToSet
<1>2. ToSet(s \o t) = ToSet(s) \cup ToSet(t)
  <2>1. /\ s \o t \in Seq(S) /\ Len(s \o t) = Len(s) + Len(t)
        /\ \A i \in 1 .. Len(s) + Len(t) :
             (s \o t)[i] = IF i <= Len(s) THEN s[i] ELSE t[i - Len(s)]
    BY ConcatProperties
  <2>2. /\ Len(s) \in Nat /\ Len(t) \in Nat /\ DOMAIN s = 1 .. Len(s) /\ DOMAIN t = 1 .. Len(t)
        /\ DOMAIN (s \o t) = 1 .. Len(s) + Len(t)
    BY <2>1, LenProperties
  <2>3. ASSUME NEW x \in ToSet(s) \cup ToSet(t) PROVE x \in ToSet(s \o t)
    <3>1. CASE x \in ToSet(s)
      <4>1. PICK i \in DOMAIN s : x = s[i]  BY <3>1 DEF ToSet
      <4>2. i \in DOMAIN (s \o t) /\ (s \o t)[i] = x  BY <2>1, <2>2, <4>1
      <4> QED  BY <4>2 DEF ToSet
    <3>2. CASE x \in ToSet(t)
      <4>1. PICK i \in DOMAIN t : x = t[i]  BY <3>2 DEF ToSet
      <4>2. Len(s) + i \in DOMAIN (s \o t) /\ (s \o t)[Len(s) + i] = x  BY <2>1, <2>2, <4>1
      <4> QED  BY <4>2 DEF ToSet
    <3> QED  BY <3>1, <3>2
  <2>4. ASSUME NEW x \in ToSet(s \o t) PROVE x \in ToSet(s) \cup ToSet(t)
    <3>1. PICK i \in DOMAIN (s \o t) : x = (s \o t)[i]  BY DEF ToSet
    <3>2. CASE i <= Len(s)
      <4>1. i \in DOMAIN s /\ x = s[i]  BY <2>1, <2>2, <3>1, <3>2
      <4> QED  BY <4>1 DEF ToSet
    <3>3. CASE ~(i <= Len(s))
      <4>1. i - Len(s) \in DOMAIN t /\ x = t[i - Len(s)]  BY <2>1, <2>2, <3>1, <3>3
      <4> QED  BY <4>1 DEF ToSet
    <3> QED  BY <3>2, <3>3
  <2> QED  BY <2>3, <2>4
<1>3. s # << >> => ToSet(Tail(s)) \subseteq ToSet(s) /\ Head(s) \in ToSet(s)
  BY HeadTailProperties DEF ToSet
<1>4. \A k \in 0 .. Len(s) - 1 : ToSet(SubSeq(s, 2, k + 1)) \subseteq ToSet(s)
  BY Behind DEF ToSet
<1> QED  BY <1>1, <1>2, <1>3, <1>4

\* A frame a host sends is the only new one in any box.
LEMMA HostSendMembers ==
  ASSUME BridgeTypeOK, NEW r \in Roles, NEW kind \in {"input", "accepted", "duplicate"},
         NEW id \in Nat, HostSend(r, kind, id)
  PROVE  \A q \in Roles : \A f \in Boxed(q)' :
           f \in Boxed(q) \/ (q = r /\ f = [kind |-> kind, id |-> id])
<1> DEFINE frame == [kind |-> kind, id |-> id]
<1>1. frame \in BridgeFrames  BY DEF BridgeFrames
<1>2. /\ ToSet(Append(inbox[r], frame)) = ToSet(inbox[r]) \cup {frame}
      /\ ToSet(Append(newbox[r], frame)) = ToSet(newbox[r]) \cup {frame}
  <2>1. inbox[r] \in Seq(BridgeFrames) /\ newbox[r] \in Seq(BridgeFrames)
    BY DEF BridgeTypeOK
  <2> QED  BY <1>1, <2>1, Members
<1>3. \A q \in Roles : inbox'[q] = (IF q = r /\ host[r] = "on" THEN Append(inbox[q], frame) ELSE inbox[q])
  BY DEF HostSend, BridgeTypeOK
<1>4. \A q \in Roles : newbox'[q] = (IF q = r /\ host[r] = "hello" THEN Append(newbox[q], frame) ELSE newbox[q])
  BY DEF HostSend, BridgeTypeOK
<1> QED  BY <1>2, <1>3, <1>4 DEF Boxed

\* No handler of the runner puts a frame into a box; to a host it sends labels,
\* and the assignment to the Builder's alone.
LEMMA CloseMembers ==
  ASSUME BridgeTypeOK, NEW r \in Roles, NEW k \in Nat, k = 0 \/ k <= Len(inbox[r]) - 1,
         CloseBridge(r, k)
  PROVE  \A q \in Roles : ToSet(inbox'[q]) \subseteq ToSet(inbox[q])
<1>1. inbox[r] \in Seq(BridgeFrames) /\ Len(inbox[r]) \in Nat
  BY LenProperties DEF BridgeTypeOK
<1>2. ToSet(SubSeq(inbox[r], 2, k + 1)) \subseteq ToSet(inbox[r])
  <2>1. CASE k <= Len(inbox[r]) - 1
    <3>1. k \in 0 .. Len(inbox[r]) - 1  BY <1>1, <2>1
    <3> QED  BY <1>1, <3>1, Members, <1>1
  <2>2. CASE k = 0
    <3>1. SubSeq(inbox[r], 2, 1) = << >>  BY SubSeqEmpty
    <3> QED  BY <2>2, <3>1 DEF ToSet
  <2> QED  BY <2>1, <2>2
<1> QED  BY <1>2 DEF CloseBridge, BridgeTypeOK

\* A committing handler only takes frames out of the boxes, and sends its host no
\* frame but those given.
LEMMA FinishMembers ==
  ASSUME BridgeTypeOK, NEW r \in Roles, inbox[r] # << >>, NEW frames \in Seq(HostFrames),
         FinishBridgeFrame(r, frames)
  PROVE  /\ \A q \in Roles : ToSet(inbox'[q]) \subseteq ToSet(inbox[q])
         /\ \A q \in Roles : ToSet(toHost'[q]) \subseteq ToSet(toHost[q]) \cup ToSet(frames)
<1>1. \A q \in Roles : ToSet(inbox'[q]) \subseteq ToSet(inbox[q])
  <2>1. CASE StreamThrows
    BY <2>1, CloseMembers DEF FinishBridgeFrame
  <2>2. CASE ~StreamThrows
    <3>1. inbox[r] \in Seq(BridgeFrames)  BY DEF BridgeTypeOK
    <3>2. ToSet(Tail(inbox[r])) \subseteq ToSet(inbox[r])
      BY <3>1, HeadTailProperties DEF ToSet
    <3> QED  BY <2>2, <3>2 DEF FinishBridgeFrame, BridgeTypeOK
  <2> QED  BY <2>1, <2>2
<1>2. ToSet(toHost[r] \o frames) \subseteq ToSet(toHost[r]) \cup ToSet(frames)
  <2>1. toHost[r] \in Seq(HostFrames)  BY DEF BridgeTypeOK
  <2>2. LabelFrame("waiting") \in HostFrames
    BY DEF LabelFrame, HostFrames, PresentationStates
  <2> QED  BY <2>1, <2>2, Members
<1>3. \A q \in Roles : ToSet(toHost'[q]) \subseteq ToSet(toHost[q]) \cup ToSet(frames)
  BY <1>2 DEF FinishBridgeFrame, BridgeTypeOK
<1> QED  BY <1>1, <1>3

\* No frame the runner handles changes a host or fills a box, and it sends a host
\* other than the Builder's nothing but labels.
LEMMA RunnerStepMembers ==
  ASSUME BridgesTypeOK, NEW r \in Roles, RunnerStep(r), NEW q \in Roles
  PROVE  /\ UNCHANGED memory
         /\ Boxed(q)' \subseteq Boxed(q)
         /\ \A f \in ToSet(toHost'[q]) :
              f \in ToSet(toHost[q]) \/ f.kind = "label" \/ q = Builder
<1> USE DEF BridgesTypeOK
<1>1. ToSet(<< >>) = {}
  BY DEF ToSet
<1>2. << >> \in Seq(HostFrames) /\ binding'[r] \in Bindings
  BY RunnerStepType, EmptySeq DEF DurableTypeOK
<1>3. \A l \in PresentationStates :
        <<LabelFrame(l)>> \in Seq(HostFrames) /\ \A f \in ToSet(<<LabelFrame(l)>>) : f.kind = "label"
  <2> TAKE l \in PresentationStates
  <2>1. LabelFrame(l) \in HostFrames  BY DEF LabelFrame, HostFrames
  <2>2. <<LabelFrame(l)>> \in Seq(HostFrames)  BY <2>1
  <2>3. \A f \in ToSet(<<LabelFrame(l)>>) : f = LabelFrame(l)
    BY <2>1 DEF ToSet
  <2> QED  BY <2>2, <2>3 DEF LabelFrame
<1>4. CASE RefuseBusyRole(r)
  BY <1>1, <1>4 DEF RefuseBusyRole, BridgeTypeOK, Boxed, runner
<1>5. CASE HandleBridgeHello(r)
  <2>1. Boxed(q)' \subseteq Boxed(q)
    BY <1>1, <1>5 DEF HandleBridgeHello, BridgeTypeOK, Boxed
  <2>2. \A f \in ToSet(HandshakeFrames(r)) : f.kind = "label" \/ r = Builder
    <3>1. CASE r # Builder
      <4>1. binding[r].label \in PresentationStates  BY DEF DurableTypeOK, Bindings
      <4>2. HandshakeFrames(r) = <<LabelFrame(binding[r].label)>> \o << >>
        BY <3>1 DEF HandshakeFrames, ReplayAssignment
      <4>3. HandshakeFrames(r) = <<LabelFrame(binding[r].label)>>
        BY <1>3, <4>1, <4>2, ConcatEmptySeq
      <4> QED  BY <1>3, <4>1, <4>3
    <3> QED  BY <3>1
  <2>3. toHost' = [toHost EXCEPT ![r] = HandshakeFrames(r)]
    BY <1>5 DEF HandleBridgeHello
  <2>4. \A f \in ToSet(toHost'[q]) : f \in ToSet(toHost[q]) \/ f.kind = "label" \/ q = Builder
    BY <2>2, <2>3 DEF BridgeTypeOK
  <2> QED  BY <1>5, <2>1, <2>4 DEF HandleBridgeHello
<1>6. \A kind : RunnerServes(r, kind) => inbox[r] # << >>
  BY DEF RunnerServes
<1>7. CASE AcceptAssignment(r)
  <2>1. binding'[r].label \in PresentationStates  BY <1>2 DEF Bindings
  <2>2. FinishBridgeFrame(r, <<LabelFrame(binding'[r].label)>>) /\ UNCHANGED <<newbox, memory>>
    BY <1>7 DEF AcceptAssignment
  <2> QED  BY <1>3, <1>6, <1>7, <2>1, <2>2, FinishMembers DEF AcceptAssignment, Boxed
<1>8. CASE RecordDuplicateAck(r)
  <2>1. FinishBridgeFrame(r, << >>) /\ UNCHANGED <<newbox, memory>>
    BY <1>8 DEF RecordDuplicateAck
  <2> QED  BY <1>1, <1>2, <1>6, <1>8, <2>1, FinishMembers DEF RecordDuplicateAck, Boxed
<1>9. CASE RefuseAcknowledgement(r)
  <2>1. inbox[r] # << >> /\ Len(inbox[r]) \in Nat
    BY <1>6, <1>9, LenProperties DEF RefuseAcknowledgement, BridgeTypeOK
  <2>2. PICK k \in 0 .. Len(inbox[r]) - 1 : CloseBridge(r, k)
    BY <1>9 DEF RefuseAcknowledgement
  <2>3. k \in Nat /\ k <= Len(inbox[r]) - 1
    BY <2>1, <2>2
  <2>4. ToSet(inbox'[q]) \subseteq ToSet(inbox[q])
    BY <2>2, <2>3, CloseMembers
  <2> QED  BY <1>9, <2>4 DEF RefuseAcknowledgement, Boxed
<1>10. CASE ApplyInteractiveInput(r)
  <2> DEFINE id == Head(inbox[r]).id
  <2>1. inbox[r] # << >> /\ UNCHANGED <<newbox, memory>>
    BY <1>10 DEF ApplyInteractiveInput, RunnerServes
  <2>2. CASE TakeOver(r, id)
    <3>1. binding'[r].label \in PresentationStates  BY <1>2 DEF Bindings
    <3>2. FinishBridgeFrame(r, <<LabelFrame(binding'[r].label)>>)
      BY <2>2 DEF TakeOver
    <3> QED  BY <1>3, <2>1, <3>1, <3>2, FinishMembers DEF Boxed
  <2>3. CASE IgnoreSourceEvent(r)
    <3>1. inbox[r] \in Seq(BridgeFrames)  BY DEF BridgeTypeOK
    <3>2. ToSet(Tail(inbox[r])) \subseteq ToSet(inbox[r])
      BY <2>1, <3>1, HeadTailProperties DEF ToSet
    <3> QED  BY <2>1, <2>3, <3>2 DEF IgnoreSourceEvent, BridgeTypeOK, Boxed
  <2> QED  BY <1>10, <2>2, <2>3 DEF ApplyInteractiveInput
<1>11. CASE HandleBridgeClose(r)
  BY <1>11, CloseMembers DEF HandleBridgeClose, Boxed
<1> QED  BY <1>4, <1>5, <1>7, <1>8, <1>9, <1>10, <1>11 DEF RunnerStep

\* A host runs the turn once, and acknowledges only what it ran.
LEMMA HostStepWork ==
  ASSUME BridgesTypeOK, WorkInv, NEW r \in Roles, HostStep(r)
  PROVE  WorkInv'
<1> USE DEF BridgesTypeOK
<1>0. UNCHANGED assignment
  BY DEF HostStep, BridgeConnect, SubmitInteractiveInput, HostReceive, StartQueuedAssignment,
     BridgeDisconnect, durable
<1>1. \A q \in Roles : memory[q] \in Memories
  BY DEF BridgeTypeOK
<1>2. CASE BridgeConnect(r)
  BY <1>2 DEF BridgeConnect, WorkInv, Boxed, durable, runner
<1>3. CASE SubmitInteractiveInput(r)
  <2>1. \A q \in Roles : memory'[q].accepted = memory[q].accepted
          /\ memory'[q].turns = memory[q].turns /\ memory'[q].queued = memory[q].queued
    BY <1>1, <1>3 DEF SubmitInteractiveInput, BridgeTypeOK, Memories
  <2>2. memory[r].source + 1 \in Nat  BY <1>1, MemoryRecords
  <2>3. \A q \in Roles : \A f \in Boxed(q)' : f \in Boxed(q) \/ f.kind = "input"
    BY <1>3, <2>2, HostSendMembers DEF SubmitInteractiveInput
  <2>4. UNCHANGED toHost  BY <1>3 DEF SubmitInteractiveInput
  <2> QED  BY <1>0, <2>1, <2>3, <2>4, RolesAssumption DEF WorkInv
<1>4. ASSUME Accept(r), HostSend(r, "accepted", 0), ~memory[r].accepted, r = Builder,
             \A q \in Roles : ToSet(toHost'[q]) \subseteq ToSet(toHost[q])
      PROVE  WorkInv'
  <2>1. /\ memory'[r].accepted /\ memory'[r].turns = memory[r].turns + 1
        /\ \A q \in Roles : q # r => memory'[q] = memory[q]
    BY <1>1, <1>4 DEF Accept, BridgeTypeOK, Memories
  <2>2. \A q \in Roles : \A f \in Boxed(q)' : f \in Boxed(q) \/ q = r
    BY <1>4, HostSendMembers
  <2>3. memory'[r].turns = 1
    BY <1>4, <2>1 DEF WorkInv
  <2> QED  BY <1>0, <1>4, <2>1, <2>2, <2>3, RolesAssumption DEF WorkInv
<1>5. CASE HostReceive(r)
  <2>0. toHost[r] \in Seq(HostFrames) /\ toHost[r] # << >>
    BY <1>5 DEF HostReceive, BridgeTypeOK
  <2>1. Head(toHost[r]) \in ToSet(toHost[r]) /\ ToSet(Tail(toHost[r])) \subseteq ToSet(toHost[r])
    BY <2>0, HeadTailProperties DEF ToSet
  <2>2. \A q \in Roles : ToSet(toHost'[q]) \subseteq ToSet(toHost[q])
    BY <1>5, <2>1 DEF HostReceive, BridgeTypeOK
  <2>3. CASE Head(toHost[r]).kind = "label" /\ memory' = [memory EXCEPT ![r].shown = Head(toHost[r]).label]
               /\ UNCHANGED <<inbox, newbox>>
    <3>1. \A q \in Roles : memory'[q].accepted = memory[q].accepted
            /\ memory'[q].turns = memory[q].turns /\ memory'[q].queued = memory[q].queued
      BY <1>1, <2>3 DEF BridgeTypeOK, Memories
    <3> QED  BY <1>0, <2>2, <2>3, <3>1, RolesAssumption DEF WorkInv, Boxed
  <2>4. CASE Head(toHost[r]).kind = "assignment" /\ HandleAssignment(r)
    <3>1. r = Builder  BY <2>1, <2>4 DEF WorkInv
    <3>2. CASE memory[r].accepted /\ HostSend(r, "duplicate", 0) /\ UNCHANGED memory
      <4>1. \A q \in Roles : \A f \in Boxed(q)' : f \in Boxed(q) \/ q = r
        BY <3>2, HostSendMembers
      <4> QED  BY <1>0, <2>2, <3>2, <4>1 DEF WorkInv
    <3>3. CASE ~memory[r].accepted /\ HostSend(r, "accepted", 0) /\ Accept(r)
      BY <1>4, <2>2, <3>1, <3>3
    <3>4. CASE ~memory[r].accepted /\ memory' = [memory EXCEPT ![r].queued = TRUE]
               /\ UNCHANGED <<inbox, newbox>>
      <4>1. \A q \in Roles : memory'[q].accepted = memory[q].accepted
              /\ memory'[q].turns = memory[q].turns /\ (memory'[q].queued => memory[q].queued \/ q = r)
        BY <1>1, <3>4 DEF BridgeTypeOK, Memories
      <4> QED  BY <1>0, <2>2, <3>1, <3>4, <4>1, RolesAssumption DEF WorkInv, Boxed
    <3> QED  BY <2>4, <3>2, <3>3, <3>4 DEF HandleAssignment
  <2> QED  BY <1>5, <2>3, <2>4 DEF HostReceive
<1>6. CASE StartQueuedAssignment(r)
  <2>1. r = Builder  BY <1>6 DEF StartQueuedAssignment, WorkInv
  <2> QED  BY <1>4, <1>6, <2>1 DEF StartQueuedAssignment
<1>7. CASE BridgeDisconnect(r)
  <2>1. ToSet(<< >>) = {}  BY DEF ToSet
  <2>2. \A q \in Roles : Boxed(q)' \subseteq Boxed(q) /\ ToSet(toHost'[q]) \subseteq ToSet(toHost[q])
    BY <1>7, <2>1 DEF BridgeDisconnect, BridgeTypeOK, Boxed
  <2>3. UNCHANGED memory  BY <1>7 DEF BridgeDisconnect
  <2> QED  BY <1>0, <2>2, <2>3 DEF WorkInv
<1> QED  BY <1>2, <1>3, <1>5, <1>6, <1>7 DEF HostStep

\* An assignment recorded as accepted ran exactly one turn in the Builder's
\* host, and no other host ran any (the surviving-bridge memory of
\* visible-bridge.ts and live-bridge-core.ts).
THEOREM WorkCorrect == Spec => []AcceptedWorkRan
<1>1. Init => WorkInv
  BY DEF Init, Bootstrapped, WorkInv, Boxed, ToSet
<1>2. ASSUME BridgesTypeOK, WorkInv, [Next]_vars PROVE WorkInv'
  <2>1. CASE UNCHANGED vars
    BY <1>2, <2>1 DEF vars, durable, runner, hosts, WorkInv, Boxed
  <2>2. CASE \E r \in Roles : HostStep(r)
    BY <1>2, <2>2, HostStepWork
  <2>3. ASSUME NEW r \in Roles, RunnerStep(r) PROVE WorkInv'
    <3>1. /\ UNCHANGED memory
          /\ \A q \in Roles : Boxed(q)' \subseteq Boxed(q)
          /\ \A q \in Roles : \A f \in ToSet(toHost'[q]) :
               f \in ToSet(toHost[q]) \/ f.kind = "label" \/ q = Builder
      BY <1>2, <2>3, RunnerStepMembers
    <3>2. assignment'.state # "pending" => memory[Builder].accepted
      <4>1. CASE AcceptAssignment(r)
        <5>1. inbox[r] \in Seq(BridgeFrames) /\ inbox[r] # << >> /\ r = Builder
              /\ Head(inbox[r]).kind = "accepted"
          BY <1>2, <4>1 DEF AcceptAssignment, RunnerServes, BridgesTypeOK, BridgeTypeOK
        <5>2. Head(inbox[r]) \in Boxed(r)
          BY <5>1, HeadTailProperties DEF Boxed, ToSet
        <5> QED  BY <1>2, <5>1, <5>2 DEF WorkInv
      <4>2. CASE ~AcceptAssignment(r)
        <5>1. assignment.state = "pending" => assignment'.state = "pending"
          BY <1>2, <2>3, <4>2 DEF RunnerStep, RefuseBusyRole, HandleBridgeHello, RecordDuplicateAck,
             RefuseAcknowledgement, ApplyInteractiveInput, TakeOver, IgnoreSourceEvent,
             HandleBridgeClose, durable, BridgesTypeOK, DurableTypeOK, AssignmentRows
        <5> QED  BY <1>2, <5>1 DEF WorkInv
      <4> QED  BY <4>1, <4>2
    <3> QED  BY <1>2, <3>1, <3>2 DEF WorkInv
  <2>4. ASSUME UNCHANGED <<assignment, inbox, newbox, toHost, memory>> PROVE WorkInv'
    BY <1>2, <2>4 DEF WorkInv, Boxed
  <2>5. CASE \E c \in Clients : ClientStep(c)
    BY <2>4, <2>5 DEF ClientStep, ClientConnect, HandleProjectionHello, ClientDisconnect,
       ClientReceive, durable, runner, hosts
  <2>6. CASE \E i \in DOMAIN projections : DestroyProjection(i) \/ HandleProjectionClose(i)
    BY <2>4, <2>6 DEF DestroyProjection, HandleProjectionClose, durable, hosts
  <2>7. CASE StopRunner
    <3>1. ToSet(<< >>) = {}  BY DEF ToSet
    <3>2. \A q \in Roles : Boxed(q)' = {}
      BY <2>7, <3>1 DEF StopRunner, Boxed
    <3>3. UNCHANGED <<assignment, toHost, memory>>
      BY <2>7 DEF StopRunner, durable
    <3> QED  BY <1>2, <3>2, <3>3 DEF WorkInv
  <2>8. CASE StartRunner
    BY <2>4, <2>8 DEF StartRunner, hosts
  <2> QED  BY <1>2, <2>1, <2>2, <2>3, <2>5, <2>6, <2>7, <2>8 DEF Next
<1>3. WorkInv => AcceptedWorkRan
  BY RolesAssumption DEF WorkInv, AcceptedWorkRan
<1> QED  BY <1>1, <1>2, <1>3, TypesCorrect, PTL DEF Spec

-----------------------------------------------------------------------------
(* Folds.  The library's induction takes an operator no prover instantiates,  *)
(* so what a fold keeps is proved from the least index at which it is lost.   *)

\* A set of numbers that is not empty has a least one.
LEMMA Least ==
  ASSUME NEW S \in SUBSET Nat, S # {}
  PROVE  \E x \in S : \A y \in S : x <= y
<1>1. \E x \in S : \A y \in S : ~ (<<y, x>> \in OpToRel(<,Nat))
  BY WFMin, NatLessThanWellFounded, Zenon
<1>2. \E x \in S : \A y \in S : ~ (y < x)
  BY <1>1 DEF OpToRel
<1> QED  BY <1>2

\* A chain of values that starts in a set and does not leave it at any link.
LEMMA ChainIn ==
  ASSUME NEW V, NEW n \in Nat, NEW c, c[0] \in V,
         \A m \in 1 .. n : c[m - 1] \in V => c[m] \in V
  PROVE  \A m \in 0 .. n : c[m] \in V
<1> DEFINE lost == {m \in 0 .. n : c[m] \notin V}
<1>1. CASE lost = {}  BY <1>1
<1>2. ASSUME lost # {} PROVE FALSE
  <2>1. lost \in SUBSET Nat  OBVIOUS
  <2>2. PICK m \in lost : \A y \in lost : m <= y
    BY <1>2, <2>1, Least
  <2>3. m \in 0 .. n /\ c[m] \notin V /\ m # 0  BY <2>2
  <2>4. m \in 1 .. n /\ m - 1 \in 0 .. n  BY <2>3
  <2>5. m - 1 \notin lost  BY <2>2, <2>4
  <2> QED  BY <2>3, <2>4, <2>5
<1> QED  BY <1>1, <1>2

\* The largest element of a set of numbers up to n.
LEMMA Largest ==
  ASSUME NEW n \in Nat, NEW s \in SUBSET (1 .. n), s # {}
  PROVE  Max(s) \in s /\ \A y \in s : Max(s) >= y
<1> DEFINE above == {k \in Nat : \A y \in s : k >= y}
<1>1. n \in above  OBVIOUS
<1>5. above \in SUBSET Nat /\ above # {}  BY <1>1
<1>2. PICK k \in above : \A y \in above : k <= y
  <2> HIDE DEF above
  <2> QED  BY <1>5, Least
<1>3. k \in s
  <2>1. SUFFICES ASSUME k \notin s PROVE FALSE
    OBVIOUS
  <2>2. \A y \in s : k > y /\ y >= 1  BY <1>2, <2>1
  <2>3. k - 1 \in Nat
    <3>1. PICK y \in s : TRUE  OBVIOUS
    <3>2. k > y /\ y >= 1 /\ k \in Nat /\ y \in Nat  BY <1>2, <2>2, <3>1
    <3> QED  BY <3>2
  <2>4. k \in Nat /\ \A y \in s : y \in Nat  BY <1>2
  <2>5. k - 1 \in above  BY <2>2, <2>3, <2>4
  <2> QED  BY <1>2, <2>4, <2>5
<1>4. \E x \in s : \A y \in s : x >= y  BY <1>2, <1>3
<1> QED  BY <1>4 DEF Max

LEMMA LastOf ==
  ASSUME NEW n \in Nat, NEW m \in 1 .. n
  PROVE  /\ Max(1 .. m) = m
         /\ (1 .. m) \ {Max(1 .. m)} = 1 .. m - 1
<1>1. (1 .. m) \in SUBSET (1 .. n) /\ (1 .. m) # {}  OBVIOUS
<1>2. Max(1 .. m) \in 1 .. m /\ \A y \in 1 .. m : Max(1 .. m) >= y
  BY <1>1, Largest
<1>3. Max(1 .. m) = m  BY <1>2
<1> QED  BY <1>3

\* Sets of indices without one index.
LEMMA Without ==
  ASSUME NEW m \in Nat, NEW s \in SUBSET (1 .. m), NEW x
  PROVE  /\ s \ {x} \in SUBSET (1 .. m)
         /\ s \ {m} \in SUBSET (1 .. m - 1)
         /\ m \notin s => s \in SUBSET (1 .. m - 1)
<1>1. \A y \in s : y \in 1 .. m  OBVIOUS
<1>2. \A y \in s : y # m => y \in 1 .. m - 1  BY <1>1
<1> QED  BY <1>1, <1>2

\* g folds step over every set of indices of seq, from the least index up.
Folding(g, V, step, base, seq, n) ==
  /\ g \in [SUBSET (1 .. n) -> V]
  /\ \A s \in SUBSET (1 .. n) :
       g[s] = IF s = {} THEN base ELSE step[<<g[s \ {Max(s)}], seq[Max(s)]>>]

\* There is such a function.
LEMMA FoldExists ==
  ASSUME NEW V, NEW T, NEW step \in [V \X T -> V], NEW base \in V, NEW n \in Nat,
         NEW seq \in [1 .. n -> T]
  PROVE  \E g : Folding(g, V, step, base, seq, n)
<1> DEFINE Folds(f, k) ==
             \A x \in SUBSET (1 .. k) :
               f[x] = IF x = {} THEN base ELSE step[<<f[x \ {Max(x)}], seq[Max(x)]>>]
           Has(k) == \E f \in [SUBSET (1 .. k) -> V] : Folds(f, k)
           without == {k \in 0 .. n : ~Has(k)}
<1>1. SUFFICES ASSUME without # {} PROVE FALSE
  <2>1. n \in 0 .. n  OBVIOUS
  <2>2. Has(n)
    <3> HIDE DEF Has
    <3> QED  BY <1>1, <2>1
  <2> QED  BY <2>2 DEF Folding
<1>2. PICK m \in without : \A y \in without : m <= y
  <2>1. without \in SUBSET Nat  OBVIOUS
  <2> HIDE DEF without
  <2> QED  BY <1>1, <2>1, Least
<1>0. m \in 0 .. n /\ ~Has(m)
  <2> HIDE DEF Has
  <2> QED  BY <1>2
<1>3. CASE m = 0
  <2> DEFINE g == [s \in SUBSET (1 .. 0) |-> base]
  <2>1. \A s \in SUBSET (1 .. 0) : s = {}
    <3>1. 1 .. 0 = {}  OBVIOUS
    <3> QED  BY <3>1
  <2>2. g \in [SUBSET (1 .. 0) -> V]  OBVIOUS
  <2>3. Folds(g, 0)  BY <2>1
  <2> HIDE DEF g
  <2> QED  BY <1>0, <1>3, <2>2, <2>3
<1>4. CASE m # 0
  <2>1. m \in 1 .. n /\ m - 1 \in 0 .. n /\ Has(m - 1)
    <3> HIDE DEF Has
    <3>1. m \in 1 .. n /\ m - 1 \in 0 .. n  BY <1>0, <1>4
    <3>2. m - 1 \notin without
      <4>1. ~ (m <= m - 1)  BY <3>1
      <4> QED  BY <1>2, <4>1
    <3> QED  BY <3>1, <3>2
  <2>2. PICK g \in [SUBSET (1 .. m - 1) -> V] : Folds(g, m - 1)
    BY <2>1
  <2> DEFINE h == [s \in SUBSET (1 .. m) |->
                     IF m \in s THEN step[<<g[s \ {m}], seq[m]>>] ELSE g[s]]
  <2>3. ASSUME NEW s \in SUBSET (1 .. m), m \notin s PROVE s \in SUBSET (1 .. m - 1)
    BY <2>1, <2>3
  <2>4. ASSUME NEW s \in SUBSET (1 .. m), m \in s
        PROVE  /\ s \ {m} \in SUBSET (1 .. m - 1) /\ s \ {m} \in SUBSET (1 .. m)
               /\ h[s \ {m}] = g[s \ {m}] /\ Max(s) = m
    <3>1. s \ {m} \in SUBSET (1 .. m) /\ s \ {m} \in SUBSET (1 .. m - 1)
      BY <2>1, Without
    <3>2. m \notin s \ {m}
      <4> HIDE DEF h, Folds, without
      <4> QED  OBVIOUS
    <3>5. h[s \ {m}] = g[s \ {m}]  BY <3>1, <3>2
    <3>3. m \in Nat /\ s # {}  BY <2>1, <2>4
    <3>4. Max(s) \in s /\ \A y \in s : Max(s) >= y
      <4> HIDE DEF h, Folds, without
      <4> QED  BY <3>3, Largest, Zenon
    <3>6. Max(s) = m
      <4>1. Max(s) \in 1 .. m /\ Max(s) >= m  BY <2>4, <3>4
      <4> QED  BY <2>1, <4>1
    <3> QED  BY <3>1, <3>5, <3>6
  <2>5. seq[m] \in T  BY <2>1
  <2>6. h \in [SUBSET (1 .. m) -> V]
    <3>1. ASSUME NEW s \in SUBSET (1 .. m), m \in s PROVE step[<<g[s \ {m}], seq[m]>>] \in V
      <4>1. g[s \ {m}] \in V  BY <2>2, <2>4, <3>1
      <4> QED  BY <2>5, <4>1
    <3>2. ASSUME NEW s \in SUBSET (1 .. m), m \notin s PROVE g[s] \in V
      BY <2>2, <2>3, <3>2
    <3> QED  BY <3>1, <3>2
  <2>7. ASSUME NEW s \in SUBSET (1 .. m)
        PROVE  h[s] = IF s = {} THEN base ELSE step[<<h[s \ {Max(s)}], seq[Max(s)]>>]
    <3>1. CASE m \in s
      <4>1. h[s] = step[<<g[s \ {m}], seq[m]>>]  BY <3>1
      <4>2. s # {} /\ Max(s) = m /\ h[s \ {m}] = g[s \ {m}]  BY <2>4, <3>1
      <4> HIDE DEF h
      <4> QED  BY <4>1, <4>2
    <3>2. CASE m \notin s
      <4>1. s \in SUBSET (1 .. m - 1)  BY <2>3, <3>2
      <4>2. h[s] = g[s]  BY <3>2
      <4>3. g[s] = IF s = {} THEN base ELSE step[<<g[s \ {Max(s)}], seq[Max(s)]>>]
        BY <2>2, <4>1
      <4>4. m \in Nat  BY <2>1
      <4>5. s \ {Max(s)} \in SUBSET (1 .. m)  BY <2>1, Without
      <4>7. m \notin s \ {Max(s)}  BY <3>2
      <4>6. h[s \ {Max(s)}] = g[s \ {Max(s)}]  BY <4>5, <4>7
      <4> HIDE DEF h
      <4> QED  BY <4>2, <4>3, <4>6
    <3> QED  BY <3>1, <3>2
  <2> HIDE DEF h
  <2>8. Folds(h, m)  BY <2>7
  <2> QED  BY <1>0, <2>6, <2>8
<1> QED  BY <1>3, <1>4
\* What appendEvent keeps of a view, a page of events keeps (AppendPage's fold).
LEMMA AppendAll ==
  ASSUME NEW V, NEW T, NEW base \in V, NEW seq \in Seq(T),
         \A v \in V, x \in T : AppendEvent(v, x) \in V
  PROVE  FoldLeft(AppendEvent, base, seq) \in V
<1> DEFINE n == Len(seq)
           Fold(f) == [s \in SUBSET DOMAIN seq |->
                         IF s = {} THEN base ELSE AppendEvent(f[s \ {Max(s)}], seq[Max(s)])]
           step == [p \in V \X T |-> AppendEvent(p[1], p[2])]
           c == CHOOSE f : f = Fold(f)
<1>1. FoldLeft(AppendEvent, base, seq) = c[DOMAIN seq]
  BY DEF FoldLeft, MapThenFoldSet
<1>2. n \in Nat /\ DOMAIN seq = 1 .. n /\ seq \in [1 .. n -> T]
  BY LenProperties
<1> HIDE DEF n
<1>3. \E f : f = Fold(f)
  <2>1. step \in [V \X T -> V]  OBVIOUS
  <2>2. \A v \in V, x \in T : step[<<v, x>>] = AppendEvent(v, x)  OBVIOUS
  <2> HIDE DEF step
  <2>3. PICK g : Folding(g, V, step, base, seq, n)
    BY <1>2, <2>1, FoldExists
  <2>4. ASSUME NEW s \in SUBSET (1 .. n), s # {}
        PROVE  g[s] = AppendEvent(g[s \ {Max(s)}], seq[Max(s)])
    <3>1. Max(s) \in s  BY <1>2, <2>4, Largest
    <3>2. seq[Max(s)] \in T  BY <1>2, <3>1
    <3>3. s \ {Max(s)} \in SUBSET (1 .. n)  BY <1>2, Without
    <3>4. g[s \ {Max(s)}] \in V  BY <2>3, <3>3 DEF Folding
    <3> QED  BY <2>2, <2>3, <2>4, <3>2, <3>4 DEF Folding
  <2>5. g = Fold(g)  BY <1>2, <2>3, <2>4 DEF Folding
  <2> QED  BY <2>5
<1>4. c = Fold(c)  BY <1>3
<1> HIDE DEF c
<1>5. c[{}] = base  BY <1>4
<1>6. ASSUME NEW m \in 1 .. n, c[1 .. m - 1] \in V PROVE c[1 .. m] \in V
  <2>1. 1 .. m \in SUBSET DOMAIN seq /\ 1 .. m # {}
    <3>1. \A y \in 1 .. m : y \in 1 .. n  BY <1>2
    <3>2. 1 \in 1 .. m  BY <1>2
    <3> QED  BY <1>2, <3>1, <3>2
  <2>2. c[1 .. m] = AppendEvent(c[1 .. m - 1], seq[m])
    <3>1. c[1 .. m] = AppendEvent(c[(1 .. m) \ {Max(1 .. m)}], seq[Max(1 .. m)])
      BY <1>4, <2>1
    <3> QED  BY <1>2, <3>1, LastOf
  <2> QED  BY <1>2, <1>6, <2>2
<1>7. c[1 .. n] \in V
  <2> DEFINE chain == [m \in 0 .. n |-> c[1 .. m]]
  <2>1. chain[0] \in V
    <3>1. 1 .. 0 = {}  OBVIOUS
    <3> QED  BY <1>2, <1>5, <3>1
  <2>2. \A m \in 1 .. n : chain[m - 1] \in V => chain[m] \in V  BY <1>2, <1>6
  <2>3. chain[n] = c[1 .. n]  BY <1>2
  <2> HIDE DEF chain
  <2>4. \A m \in 0 .. n : chain[m] \in V  BY <1>2, <2>1, <2>2, ChainIn
  <2> QED  BY <1>2, <2>3, <2>4
<1> QED  BY <1>1, <1>2, <1>7
\* What handleFrame keeps of a view, a data chunk keeps (ClientReceive's fold).
LEMMA HandleAll ==
  ASSUME NEW V, NEW T, NEW base \in V, NEW seq \in Seq(T),
         \A v \in V, x \in T : HandleClientFrame(v, x) \in V
  PROVE  FoldLeft(HandleClientFrame, base, seq) \in V
<1> DEFINE n == Len(seq)
           Fold(f) == [s \in SUBSET DOMAIN seq |->
                         IF s = {} THEN base ELSE HandleClientFrame(f[s \ {Max(s)}], seq[Max(s)])]
           step == [p \in V \X T |-> HandleClientFrame(p[1], p[2])]
           c == CHOOSE f : f = Fold(f)
<1>1. FoldLeft(HandleClientFrame, base, seq) = c[DOMAIN seq]
  BY DEF FoldLeft, MapThenFoldSet
<1>2. n \in Nat /\ DOMAIN seq = 1 .. n /\ seq \in [1 .. n -> T]
  BY LenProperties
<1> HIDE DEF n
<1>3. \E f : f = Fold(f)
  <2>1. step \in [V \X T -> V]  OBVIOUS
  <2>2. \A v \in V, x \in T : step[<<v, x>>] = HandleClientFrame(v, x)  OBVIOUS
  <2> HIDE DEF step
  <2>3. PICK g : Folding(g, V, step, base, seq, n)
    BY <1>2, <2>1, FoldExists
  <2>4. ASSUME NEW s \in SUBSET (1 .. n), s # {}
        PROVE  g[s] = HandleClientFrame(g[s \ {Max(s)}], seq[Max(s)])
    <3>1. Max(s) \in s  BY <1>2, <2>4, Largest
    <3>2. seq[Max(s)] \in T  BY <1>2, <3>1
    <3>3. s \ {Max(s)} \in SUBSET (1 .. n)  BY <1>2, Without
    <3>4. g[s \ {Max(s)}] \in V  BY <2>3, <3>3 DEF Folding
    <3> QED  BY <2>2, <2>3, <2>4, <3>2, <3>4 DEF Folding
  <2>5. g = Fold(g)  BY <1>2, <2>3, <2>4 DEF Folding
  <2> QED  BY <2>5
<1>4. c = Fold(c)  BY <1>3
<1> HIDE DEF c
<1>5. c[{}] = base  BY <1>4
<1>6. ASSUME NEW m \in 1 .. n, c[1 .. m - 1] \in V PROVE c[1 .. m] \in V
  <2>1. 1 .. m \in SUBSET DOMAIN seq /\ 1 .. m # {}
    <3>1. \A y \in 1 .. m : y \in 1 .. n  BY <1>2
    <3>2. 1 \in 1 .. m  BY <1>2
    <3> QED  BY <1>2, <3>1, <3>2
  <2>2. c[1 .. m] = HandleClientFrame(c[1 .. m - 1], seq[m])
    <3>1. c[1 .. m] = HandleClientFrame(c[(1 .. m) \ {Max(1 .. m)}], seq[Max(1 .. m)])
      BY <1>4, <2>1
    <3> QED  BY <1>2, <3>1, LastOf
  <2> QED  BY <1>2, <1>6, <2>2
<1>7. c[1 .. n] \in V
  <2> DEFINE chain == [m \in 0 .. n |-> c[1 .. m]]
  <2>1. chain[0] \in V
    <3>1. 1 .. 0 = {}  OBVIOUS
    <3> QED  BY <1>2, <1>5, <3>1
  <2>2. \A m \in 1 .. n : chain[m - 1] \in V => chain[m] \in V  BY <1>2, <1>6
  <2>3. chain[n] = c[1 .. n]  BY <1>2
  <2> HIDE DEF chain
  <2>4. \A m \in 0 .. n : chain[m] \in V  BY <1>2, <2>1, <2>2, ChainIn
  <2> QED  BY <1>2, <2>3, <2>4
<1> QED  BY <1>1, <1>2, <1>7
-----------------------------------------------------------------------------
(* The client's view. *)

Within(cursor, log) ==
  log # << >> => log[1] - 1 <= cursor /\ cursor <= log[Len(log)]
\* The log is gapless and the cursor points into it or just before it: connect()
\* stores the cursor of its snapshot after events that came behind it.
LogSound(cursor, log) ==
  /\ \A i \in DOMAIN log : log[i] = log[1] + (i - 1)
  /\ cursor = Null => log = << >>
  /\ cursor # Null => Within(cursor, log)

\* The views whose cursors and events lie in the first e committed events.
Views(e) ==
  {v \in [saved : (0 .. e) \cup {Null}, log : Seq(1 .. e), ok : BOOLEAN,
          snapshot : (0 .. e) \cup {Null}] :
     /\ LogSound(v.saved, v.log)
     /\ v.snapshot # Null =>
          /\ v.saved # Null /\ Within(v.snapshot, v.log)
          /\ v.log = << >> => v.saved = v.snapshot}
\* The frames that tell of the first e committed events.
ClientFrames(e) ==
  [kind : {"event"}, from : Nat, to : 0 .. e]
    \cup {f \in [kind : {"page"}, from : Nat, to : 0 .. e] : f.from <= f.to}
    \cup [kind : {"snapshot"}, from : Nat, to : 0 .. e]

\* A refused event or frame ends the chunk and changes nothing else.
LEMMA RefusedView ==
  ASSUME NEW e \in Nat, NEW v \in Views(e)
  PROVE  [v EXCEPT !.ok = FALSE] \in Views(e)
BY DEF Views

\* One event keeps the view: it is refused, or is the next of the log.
LEMMA AppendEventKeeps ==
  ASSUME NEW e \in Nat, NEW v \in Views(e), NEW n \in 0 .. e
  PROVE  AppendEvent(v, n) \in Views(e)
<1> DEFINE log == v.log
           w == [v EXCEPT !.saved = n, !.log = Append(log, n)]
<1>1. CASE ~(v.ok /\ v.saved # Null /\ n = v.saved + 1 /\ n \notin ToSet(v.log))
  BY <1>1, RefusedView DEF AppendEvent
<1>2. CASE v.ok /\ v.saved # Null /\ n = v.saved + 1 /\ n \notin ToSet(v.log)
  <2>1. /\ v.saved \in 0 .. e /\ n \in 1 .. e
        /\ log \in Seq(1 .. e) /\ Within(v.saved, log)
        /\ \A i \in DOMAIN log : log[i] = log[1] + (i - 1)
        /\ v.snapshot \in (0 .. e) \cup {Null}
        /\ v.snapshot # Null => Within(v.snapshot, log) /\ (log = << >> => v.saved = v.snapshot)
    BY <1>2 DEF Views, LogSound
  <2>2. /\ Len(log) \in Nat /\ DOMAIN log = 1 .. Len(log)
        /\ \A i \in DOMAIN log : log[i] \in 1 .. e
        /\ log # << >> => 1 \in DOMAIN log /\ Len(log) \in DOMAIN log
    <3>1. Len(log) \in Nat /\ DOMAIN log = 1 .. Len(log)  BY <2>1, LenProperties
    <3>2. log # << >> => Len(log) > 0  BY <2>1, <3>1, EmptySeq
    <3> QED  BY <2>1, <3>1, <3>2, ElementOfSeq
  <2>3. /\ Append(log, n) \in Seq(1 .. e) /\ Len(Append(log, n)) = Len(log) + 1
        /\ \A i \in 1 .. Len(log) : Append(log, n)[i] = log[i]
        /\ Append(log, n)[Len(log) + 1] = n
    BY <2>1, AppendProperties
  <2>4. v.ok \in BOOLEAN  BY DEF Views
  <2>5. /\ w.saved = n /\ w.log = Append(log, n) /\ w.snapshot = v.snapshot
        /\ w \in [saved : (0 .. e) \cup {Null}, log : Seq(1 .. e), ok : BOOLEAN,
                  snapshot : (0 .. e) \cup {Null}]
    BY <2>1, <2>3, <2>4 DEF Views
  <2> HIDE DEF w
  <2>6. log # << >> => v.saved = log[Len(log)]
    <3>1. SUFFICES ASSUME log # << >>, v.saved # log[Len(log)] PROVE FALSE
      OBVIOUS
    <3> DEFINE first == log[1]
               last == log[Len(log)]
               saved == v.saved
               i == n - first + 1
    <3>2. first \in 1 .. e /\ last \in 1 .. e /\ last = first + (Len(log) - 1)
      BY <2>1, <2>2, <3>1
    <3>3. /\ saved \in 0 .. e /\ n = saved + 1 /\ saved # last
          /\ first - 1 <= saved /\ saved <= last
      BY <1>2, <2>1, <3>1 DEF Within
    <3>4. i \in DOMAIN log
      <4> HIDE DEF first, last, saved
      <4>1. i \in 1 .. Len(log)  BY <2>2, <3>2, <3>3
      <4> QED  BY <2>2, <4>1
    <3>5. log[i] = first + (i - 1)  BY <2>1, <3>4
    <3>6. log[i] = n
      <4> HIDE DEF first, last, saved
      <4>1. first + (i - 1) = n  BY <3>2, <3>3
      <4> HIDE DEF i
      <4> QED  BY <3>5, <4>1
    <3>7. n \in ToSet(log)  BY <3>4, <3>6 DEF ToSet
    <3> QED  BY <1>2, <3>7
  <2>7. \A i \in DOMAIN w.log : w.log[i] = w.log[1] + (i - 1)
    <3>1. DOMAIN w.log = 1 .. Len(log) + 1  BY <2>3, <2>5, LenProperties
    <3>2. ASSUME NEW i \in 1 .. Len(log) + 1 PROVE w.log[i] = w.log[1] + (i - 1)
      <4>1. CASE log = << >>
        <5>1. Len(log) = 0  BY <4>1
        <5> QED  BY <2>1, <2>3, <2>5, <3>2, <5>1
      <4>2. CASE log # << >>
        <5>1. w.log[1] = log[1] /\ log[1] \in 1 .. e /\ log[Len(log)] = log[1] + (Len(log) - 1)
          BY <2>1, <2>2, <2>3, <2>5, <4>2
        <5>2. CASE i = Len(log) + 1
          <6>1. w.log[i] = n  BY <2>3, <2>5, <5>2
          <6>2. n = log[Len(log)] + 1  BY <1>2, <2>6, <4>2
          <6>3. n = log[1] + Len(log)  BY <2>2, <5>1, <6>2
          <6> QED  BY <5>1, <5>2, <6>1, <6>3, <2>2
        <5>3. CASE i # Len(log) + 1
          <6>1. i \in DOMAIN log  BY <2>2, <3>2, <5>3
          <6> QED  BY <2>1, <2>2, <2>3, <2>5, <5>1, <6>1
        <5> QED  BY <5>2, <5>3
      <4> QED  BY <4>1, <4>2
    <3> QED  BY <3>1, <3>2
  <2>8. w.log # << >> /\ w.log[Len(w.log)] = n
    <3>1. w.log \in Seq(1 .. e) /\ Len(w.log) = Len(log) + 1 /\ Len(log) + 1 # 0
      BY <2>2, <2>3, <2>5
    <3>2. w.log # << >>  BY <3>1
    <3> QED  BY <2>3, <2>5, <3>1, <3>2
  <2>9. w.log[1] \in 1 .. n /\ (log # << >> => w.log[1] = log[1])
    <3>1. CASE log = << >>
      <4>1. Len(log) = 0  BY <3>1
      <4> QED  BY <2>1, <2>3, <2>5, <3>1, <4>1
    <3>2. CASE log # << >>
      <4>1. w.log[1] = log[1] /\ log[1] \in 1 .. e  BY <2>2, <2>3, <2>5, <3>2
      <4>2. log[1] - 1 <= v.saved /\ n = v.saved + 1 /\ v.saved \in 0 .. e
        BY <1>2, <2>1, <3>2 DEF Within
      <4> QED  BY <4>1, <4>2
    <3> QED  BY <3>1, <3>2
  <2>10. LogSound(w.saved, w.log)
    <3>1. Within(w.saved, w.log)
      <4>1. w.log[1] - 1 <= n /\ n <= w.log[Len(w.log)]  BY <2>1, <2>8, <2>9
      <4>2. w.saved = n  BY <2>5
      <4> QED  BY <4>1, <4>2 DEF Within
    <3>2. w.saved # Null  BY <2>1, <2>5, RolesAssumption
    <3> QED  BY <2>7, <3>1, <3>2 DEF LogSound
  <2>11. w.snapshot # Null =>
           /\ w.saved # Null /\ Within(w.snapshot, w.log)
           /\ w.log = << >> => w.saved = w.snapshot
    <3>1. SUFFICES ASSUME v.snapshot # Null PROVE Within(v.snapshot, w.log) /\ w.saved # Null
      BY <2>5, <2>8
    <3>2. v.snapshot \in 0 .. e  BY <2>1, <3>1
    <3>3. CASE log = << >>
      <4>1. v.snapshot = n - 1  BY <1>2, <2>1, <3>1, <3>3
      <4>2. w.log[1] = n
        <5>1. Len(log) = 0  BY <3>3
        <5> QED  BY <2>3, <2>5, <5>1
      <4> QED  BY <2>1, <2>5, <2>8, <4>1, <4>2, RolesAssumption DEF Within
    <3>4. CASE log # << >>
      <4>1. log[1] - 1 <= v.snapshot /\ v.snapshot <= log[Len(log)]
        BY <2>1, <3>1, <3>4 DEF Within
      <4>2. v.snapshot <= n
        <5>1. log[Len(log)] = v.saved /\ n = v.saved + 1 /\ v.saved \in 0 .. e
          BY <1>2, <2>1, <2>6, <3>4
        <5> QED  BY <3>2, <4>1, <5>1
      <4>3. w.log[1] - 1 <= v.snapshot /\ v.snapshot <= w.log[Len(w.log)]
        <5>1. w.log[1] = log[1] /\ w.log[Len(w.log)] = n  BY <2>8, <2>9, <3>4
        <5> QED  BY <4>1, <4>2, <5>1
      <4>4. w.saved # Null  BY <2>1, <2>5, RolesAssumption
      <4> QED  BY <4>3, <4>4 DEF Within
    <3> QED  BY <3>3, <3>4
  <2>12. w \in Views(e)  BY <2>5, <2>10, <2>11 DEF Views
  <2>13. AppendEvent(v, n) = w  BY <1>2 DEF AppendEvent, w
  <2> QED  BY <2>12, <2>13
<1> QED  BY <1>1, <1>2

\* Every frame keeps the view.
LEMMA FrameKeeps ==
  ASSUME NEW e \in Nat, NEW v \in Views(e), NEW f \in ClientFrames(e)
  PROVE  HandleClientFrame(v, f) \in Views(e)
<1>1. CASE ~v.ok  BY <1>1 DEF HandleClientFrame
<1>2. CASE v.ok /\ f.kind = "event"
  <2>1. HandleClientFrame(v, f) = AppendEvent(v, f.to)  BY <1>2 DEF HandleClientFrame
  <2>2. f.to \in 0 .. e  BY DEF ClientFrames
  <2> QED  BY <2>1, <2>2, AppendEventKeeps
<1>3. CASE v.ok /\ f.kind = "page"
  <2>1. HandleClientFrame(v, f) = AppendPage(v, f.from, f.to)  BY <1>3 DEF HandleClientFrame
  <2>2. f.from \in Nat /\ f.to \in 0 .. e /\ f.from <= f.to  BY <1>3 DEF ClientFrames
  <2> DEFINE page == [k \in 1 .. f.to - f.from |-> f.from + k]
  <2>3. page \in Seq(0 .. e)
    <3>1. f.to - f.from \in Nat /\ \A k \in 1 .. f.to - f.from : f.from + k \in 0 .. e
      BY <2>2
    <3>2. page \in [1 .. f.to - f.from -> 0 .. e]  BY <3>1
    <3> QED  BY <3>1, <3>2, SeqDef
  <2> HIDE DEF page
  <2>4. \A u \in Views(e), n \in 0 .. e : AppendEvent(u, n) \in Views(e)
    BY AppendEventKeeps
  <2>5. FoldLeft(AppendEvent, v, page) \in Views(e)
    BY <2>3, <2>4, AppendAll
  <2> QED  BY <2>1, <2>5, RefusedView DEF AppendPage, page
<1>4. CASE v.ok /\ f.kind = "snapshot"
  <2>1. HandleClientFrame(v, f) = StoreSnapshot(v, f.to)  BY <1>4 DEF HandleClientFrame
  <2>2. f.to \in 0 .. e /\ f.to # Null  BY RolesAssumption DEF ClientFrames
  <2>3. CASE v.saved \notin {Null, f.to}
    BY <2>1, <2>3, RefusedView DEF StoreSnapshot
  <2>4. CASE v.saved \in {Null, f.to}
    <3> DEFINE w == [v EXCEPT !.saved = f.to, !.snapshot = f.to]
    <3>1. /\ w.saved = f.to /\ w.snapshot = f.to /\ w.log = v.log
          /\ w \in [saved : (0 .. e) \cup {Null}, log : Seq(1 .. e), ok : BOOLEAN,
                    snapshot : (0 .. e) \cup {Null}]
      BY <2>2 DEF Views
    <3> HIDE DEF w
    <3>2. Within(f.to, v.log) /\ \A i \in DOMAIN v.log : v.log[i] = v.log[1] + (i - 1)
      BY <2>2, <2>4 DEF Views, LogSound, Within
    <3>3. w \in Views(e)  BY <2>2, <3>1, <3>2 DEF Views, LogSound
    <3>4. HandleClientFrame(v, f) = w  BY <2>1, <2>4 DEF StoreSnapshot, w
    <3> QED  BY <3>3, <3>4
  <2> QED  BY <2>3, <2>4
<1>5. f.kind \in {"event", "page", "snapshot"}  BY DEF ClientFrames
<1> QED  BY <1>1, <1>2, <1>3, <1>4, <1>5
-----------------------------------------------------------------------------
(* The clients' invariant. *)

ProjectionRecords == [client : Clients, socket : {"open", "gone", "destroyed"}, sent : Nat]

\* What a client has, and what is on the way to it, tells of committed events.
ClientsSound ==
  /\ projections \in Seq(ProjectionRecords)
  /\ client \in [Clients -> Connections]
  /\ toClient \in [Clients -> Seq(ClientFrames(Len(events)))]
  /\ savedCursor \in [Clients -> (0 .. Len(events)) \cup {Null}]
  /\ eventLog \in [Clients -> Seq(1 .. Len(events))]
  /\ \A c \in Clients : LogSound(savedCursor[c], eventLog[c])

\* More committed events: everything sound stays sound.
LEMMA MoreEvents ==
  ASSUME NEW d \in Nat, NEW e \in Nat, d <= e
  PROVE  /\ ClientFrames(d) \subseteq ClientFrames(e)
         /\ Seq(ClientFrames(d)) \subseteq Seq(ClientFrames(e))
         /\ Seq(1 .. d) \subseteq Seq(1 .. e)
         /\ 0 .. d \subseteq 0 .. e
<1>1. 0 .. d \subseteq 0 .. e /\ 1 .. d \subseteq 1 .. e  OBVIOUS
<1>2. ClientFrames(d) \subseteq ClientFrames(e)  BY <1>1 DEF ClientFrames
<1> QED  BY <1>1, <1>2, SeqMonotonic

\* The stream sends the open projections the events it appends to the log.
LEMMA PushClients ==
  ASSUME DurableTypeOK, ClientsSound, NEW new \in Seq(EventRecords),
         PushEventsToProjections(new), UNCHANGED <<client, savedCursor, eventLog>>
  PROVE  ClientsSound'
<1> DEFINE n == Len(events)
           frames == [k \in 1 .. Len(new) |-> EventFrame(n + k)]
<1>1. /\ n \in Nat /\ Len(new) \in Nat
      /\ Len(events') = n + Len(new)
  BY LenProperties, ConcatProperties DEF DurableTypeOK, PushEventsToProjections
<1>2. frames \in Seq(ClientFrames(n + Len(new)))
  <2>1. ASSUME NEW k \in 1 .. Len(new) PROVE EventFrame(n + k) \in ClientFrames(n + Len(new))
    <3>1. (n + k) - 1 \in Nat /\ n + k \in 0 .. n + Len(new)  BY <1>1
    <3> QED  BY <3>1 DEF EventFrame, ClientFrames
  <2>2. frames \in [1 .. Len(new) -> ClientFrames(n + Len(new))]  BY <2>1
  <2> HIDE DEF frames
  <2> QED  BY <1>1, <2>2, SeqDef
<1>3. /\ Seq(ClientFrames(n)) \subseteq Seq(ClientFrames(Len(events')))
      /\ Seq(1 .. n) \subseteq Seq(1 .. Len(events')) /\ 0 .. n \subseteq 0 .. Len(events')
  <2>1. n <= Len(events') /\ Len(events') \in Nat  BY <1>1
  <2> QED  BY <1>1, <2>1, MoreEvents
<1>4. toClient' \in [Clients -> Seq(ClientFrames(Len(events')))]
  <2>1. ASSUME NEW c \in Clients
        PROVE  /\ toClient[c] \in Seq(ClientFrames(Len(events')))
               /\ toClient[c] \o frames \in Seq(ClientFrames(Len(events')))
    <3>1. toClient[c] \in Seq(ClientFrames(Len(events')))  BY <1>3 DEF ClientsSound
    <3> HIDE DEF frames
    <3> QED  BY <1>1, <1>2, <3>1, ConcatProperties
  <2>2. toClient' = [c \in Clients |->
          IF \E i \in Streamed : projections[i].client = c /\ projections[i].socket = "open"
          THEN toClient[c] \o frames ELSE toClient[c]]
    BY DEF PushEventsToProjections
  <2> HIDE DEF frames
  <2> QED  BY <2>1, <2>2
<1>5. projections' \in Seq(ProjectionRecords)
  <2>1. Len(projections) \in Nat /\ DOMAIN projections = 1 .. Len(projections)
    BY LenProperties DEF ClientsSound
  <2>2. ASSUME NEW i \in DOMAIN projections
        PROVE  /\ projections[i] \in ProjectionRecords
               /\ [projections[i] EXCEPT !.sent = n + Len(new)] \in ProjectionRecords
    <3>1. projections[i] \in ProjectionRecords  BY <2>1, ElementOfSeq DEF ClientsSound
    <3> QED  BY <1>1, <3>1 DEF ProjectionRecords
  <2>3. projections' \in [1 .. Len(projections) -> ProjectionRecords]
    BY <2>1, <2>2 DEF PushEventsToProjections
  <2> QED  BY <2>1, <2>3, SeqDef
<1>6. /\ savedCursor' \in [Clients -> (0 .. Len(events')) \cup {Null}]
      /\ eventLog' \in [Clients -> Seq(1 .. Len(events'))]
  BY <1>3 DEF ClientsSound
<1> QED  BY <1>4, <1>5, <1>6 DEF ClientsSound

\* The runner's end of a closed socket keeps its type.
LEMMA GoneType ==
  ASSUME projections \in Seq(ProjectionRecords), NEW c, ClientGone(c)
  PROVE  projections' \in Seq(ProjectionRecords)
<1>1. Len(projections) \in Nat /\ DOMAIN projections = 1 .. Len(projections)
  BY LenProperties
<1>2. ASSUME NEW i \in DOMAIN projections
      PROVE  /\ projections[i] \in ProjectionRecords
             /\ [projections[i] EXCEPT !.socket = "gone"] \in ProjectionRecords
  <2>1. projections[i] \in ProjectionRecords  BY <1>1, ElementOfSeq
  <2> QED  BY <2>1 DEF ProjectionRecords
<1>3. projections' \in [1 .. Len(projections) -> ProjectionRecords]
  BY <1>1, <1>2 DEF ClientGone
<1> QED  BY <1>1, <1>3, SeqDef

\* The replay tells of committed events only.
LEMMA PagesType ==
  ASSUME NEW e \in Nat, NEW from \in 0 .. e
  PROVE  Pages(from, e) \in Seq(ClientFrames(e))
<1>1. CASE from = e
  <2>1. PageFrame(from, e) \in ClientFrames(e)  BY <1>1 DEF PageFrame, ClientFrames
  <2> QED  BY <1>1, <2>1 DEF Pages
<1>2. CASE from # e
  <2> DEFINE n == (e - from + 1) \div 2
             upper(i) == IF from + 2 * i > e THEN e ELSE from + 2 * i
  <2>1. n \in Nat /\ 2 * n <= e - from + 1
    <3>1. e - from + 1 \in Nat  OBVIOUS
    <3> QED  BY <3>1
  <2>2. ASSUME NEW i \in 1 .. n
        PROVE  PageFrame(from + 2 * (i - 1), upper(i)) \in ClientFrames(e)
    <3>1. 2 * i <= e - from + 1  BY <2>1
    <3>2. /\ from + 2 * (i - 1) \in Nat /\ upper(i) \in 0 .. e
          /\ from + 2 * (i - 1) <= upper(i)
      BY <3>1
    <3> HIDE DEF upper
    <3> QED  BY <3>2 DEF PageFrame, ClientFrames
  <2>3. Pages(from, e) = [i \in 1 .. n |-> PageFrame(from + 2 * (i - 1), upper(i))]
    BY <1>2 DEF Pages
  <2> HIDE DEF n, upper
  <2>4. Pages(from, e) \in [1 .. n -> ClientFrames(e)]  BY <2>2, <2>3
  <2> QED  BY <2>1, <2>4, SeqDef
<1> QED  BY <1>1, <1>2

\* A chunk of frames leaves the client with a sound log.
LEMMA ReceiveClients ==
  ASSUME DurableTypeOK, ClientsSound, NEW c \in Clients, NEW k \in 1 .. Len(toClient[c]),
         ClientReceive(c, k)
  PROVE  ClientsSound'
<1> DEFINE e == Len(events)
           base == [saved |-> savedCursor[c], log |-> eventLog[c], ok |-> TRUE, snapshot |-> Null]
           view == FoldLeft(HandleClientFrame, base, SubSeq(toClient[c], 1, k))
           cursor == IF view.snapshot # Null THEN view.snapshot ELSE view.saved
<1>1. e \in Nat  BY LenProperties DEF DurableTypeOK
<1>2. toClient[c] \in Seq(ClientFrames(e)) /\ Len(toClient[c]) \in Nat
  BY LenProperties DEF ClientsSound
<1>3. \A i \in 1 .. Len(toClient[c]) : toClient[c][i] \in ClientFrames(e)
  BY <1>2, ElementOfSeq
<1>4. SubSeq(toClient[c], 1, k) \in Seq(ClientFrames(e))
  BY <1>2, <1>3, SubSeqProperties
<1>5. SubSeq(toClient[c], k + 1, Len(toClient[c])) \in Seq(ClientFrames(e))
  BY <1>2, <1>3, SubSeqProperties
<1>6. base \in Views(e)  BY DEF Views, ClientsSound
<1>7. view \in Views(e)
  <2>1. \A v \in Views(e), f \in ClientFrames(e) : HandleClientFrame(v, f) \in Views(e)
    BY <1>1, FrameKeeps
  <2> HIDE DEF base
  <2> QED  BY <1>4, <1>6, <2>1, HandleAll
<1>8. /\ eventLog' = [eventLog EXCEPT ![c] = view.log]
      /\ savedCursor' = [savedCursor EXCEPT ![c] = cursor]
      /\ \/ /\ toClient' = [toClient EXCEPT ![c] = SubSeq(@, k + 1, Len(@))]
            /\ UNCHANGED <<client, projections>>
         \/ /\ toClient' = [toClient EXCEPT ![c] = << >>]
            /\ client' = [client EXCEPT ![c] = "off"]
            /\ ClientGone(c)
      /\ UNCHANGED events
  BY DEF ClientReceive, durable
<1> HIDE DEF view
<1>9. /\ view.log \in Seq(1 .. e) /\ cursor \in (0 .. e) \cup {Null}
      /\ LogSound(cursor, view.log)
  <2>1. CASE view.snapshot = Null  BY <1>7, <2>1 DEF Views
  <2>2. CASE view.snapshot # Null  BY <1>7, <2>2 DEF Views, LogSound
  <2> QED  BY <2>1, <2>2
<1> HIDE DEF cursor
<1>10. toClient' \in [Clients -> Seq(ClientFrames(e))]
  BY <1>5, <1>8, EmptySeq DEF ClientsSound
<1>11. projections' \in Seq(ProjectionRecords) /\ client' \in [Clients -> Connections]
  BY <1>8, GoneType DEF ClientsSound, Connections
<1>12. savedCursor' \in [Clients -> (0 .. e) \cup {Null}] /\ eventLog' \in [Clients -> Seq(1 .. e)]
  BY <1>8, <1>9 DEF ClientsSound
<1>13. \A d \in Clients : LogSound(savedCursor'[d], eventLog'[d])
  BY <1>8, <1>9 DEF ClientsSound
<1> QED  BY <1>8, <1>10, <1>11, <1>12, <1>13 DEF ClientsSound
\* No step of the bridges disturbs the clients.
LEMMA BridgeStepClients ==
  ASSUME BridgesTypeOK, ClientsSound, NEW r \in Roles, HostStep(r) \/ RunnerStep(r)
  PROVE  ClientsSound'
<1>1. CASE UNCHANGED <<events, projections, toClient, client, savedCursor, eventLog>>
  BY <1>1 DEF ClientsSound
<1>2. ASSUME NEW new \in Seq(EventRecords), PushEventsToProjections(new),
             UNCHANGED <<client, savedCursor, eventLog>>
      PROVE  ClientsSound'
  BY <1>2, PushClients DEF BridgesTypeOK
<1>3. \A t \in EventTypes, n \in Nat : Event(t, r, n) \in EventRecords
  BY DEF Event, EventRecords
<1>4. \A t \in EventTypes : <<Event(t, r, 0)>> \in Seq(EventRecords)
  BY <1>3
<1>5. CASE HostStep(r)
  BY <1>1, <1>5 DEF HostStep, BridgeConnect, SubmitInteractiveInput, HostReceive,
     StartQueuedAssignment, BridgeDisconnect, durable, runner, clients
<1>6. CASE RefuseBusyRole(r) \/ RefuseAcknowledgement(r) \/ HandleBridgeClose(r)
  BY <1>1, <1>6 DEF RefuseBusyRole, RefuseAcknowledgement, HandleBridgeClose, durable, runner, clients
<1>7. CASE HandleBridgeHello(r)
  BY <1>2, <1>4, <1>7 DEF HandleBridgeHello, EventTypes
<1>8. CASE AcceptAssignment(r)
  BY <1>2, <1>4, <1>8 DEF AcceptAssignment, EventTypes
<1>9. CASE RecordDuplicateAck(r)
  BY <1>2, <1>4, <1>9 DEF RecordDuplicateAck, EventTypes
<1>10. CASE ApplyInteractiveInput(r)
  <2> DEFINE id == Head(inbox[r]).id
  <2>1. UNCHANGED <<client, savedCursor, eventLog>>  BY <1>10 DEF ApplyInteractiveInput
  <2>2. CASE IgnoreSourceEvent(r)
    BY <1>1, <2>1, <2>2 DEF IgnoreSourceEvent, durable
  <2>3. CASE TakeOver(r, id)
    <3>1. id \in Nat
      <4>1. inbox[r] \in Seq(BridgeFrames) /\ inbox[r] # << >>
        BY <1>10 DEF ApplyInteractiveInput, RunnerServes, BridgesTypeOK, BridgeTypeOK
      <4>2. Head(inbox[r]) \in BridgeFrames  BY <4>1, HeadTailProperties
      <4> QED  BY <4>2 DEF BridgeFrames
    <3> HIDE DEF id
    <3>2. /\ Event("human_input_submitted", r, id) \in EventRecords
          /\ Event("manual_takeover", r, 0) \in EventRecords
      BY <1>3, <3>1 DEF EventTypes
    <3>3. <<Event("human_input_submitted", r, id), Event("manual_takeover", r, 0)>> \in Seq(EventRecords)
      BY <3>2
    <3> QED  BY <1>2, <2>1, <2>3, <3>3 DEF TakeOver
  <2> QED  BY <1>10, <2>2, <2>3 DEF ApplyInteractiveInput
<1> QED  BY <1>5, <1>6, <1>7, <1>8, <1>9, <1>10 DEF RunnerStep

\* The steps of a client keep what it has sound.
LEMMA ClientStepClients ==
  ASSUME BridgesTypeOK, ClientsSound, NEW c \in Clients, ClientStep(c)
  PROVE  ClientsSound'
<1> DEFINE e == Len(events)
<1>1. e \in Nat  BY LenProperties DEF BridgesTypeOK, DurableTypeOK
<1>2. CASE ClientConnect(c)
  BY <1>2 DEF ClientConnect, ClientsSound, Connections, durable, runner
<1>3. CASE ClientDisconnect(c)
  <2>1. projections' \in Seq(ProjectionRecords)  BY <1>3, GoneType DEF ClientDisconnect, ClientsSound
  <2>2. toClient' \in [Clients -> Seq(ClientFrames(e))]
    BY <1>3, EmptySeq DEF ClientDisconnect, ClientsSound
  <2> QED  BY <1>3, <2>1, <2>2 DEF ClientDisconnect, ClientsSound, Connections, durable
<1>4. CASE \E k \in 1 .. Len(toClient[c]) : ClientReceive(c, k)
  BY <1>4, ReceiveClients DEF BridgesTypeOK
<1>5. CASE HandleProjectionHello(c)
  <2> DEFINE new == [client |-> c, socket |-> "open", sent |-> EventCursor]
             replay == IF savedCursor[c] = Null THEN << >> ELSE Pages(savedCursor[c], e)
  <2>1. new \in ProjectionRecords  BY <1>1 DEF ProjectionRecords, EventCursor
  <2>2. projections' \in Seq(ProjectionRecords)
    <3> HIDE DEF new
    <3>1. projections' = Append(projections, new)  BY <1>5 DEF HandleProjectionHello, new
    <3> QED  BY <2>1, <3>1, AppendProperties DEF ClientsSound
  <2>3. replay \in Seq(ClientFrames(e))
    <3>1. CASE savedCursor[c] = Null  BY <3>1, EmptySeq
    <3>2. CASE savedCursor[c] # Null
      <4>1. savedCursor[c] \in 0 .. e  BY <3>2 DEF ClientsSound
      <4> QED  BY <1>1, <3>2, <4>1, PagesType
    <3> QED  BY <3>1, <3>2
  <2>4. <<SnapshotFrame(e)>> \in Seq(ClientFrames(e))
    <3>1. SnapshotFrame(e) \in ClientFrames(e)  BY <1>1 DEF SnapshotFrame, ClientFrames
    <3> QED  BY <3>1
  <2>5. replay \o <<SnapshotFrame(e)>> \in Seq(ClientFrames(e))
    <3> HIDE DEF replay
    <3> QED  BY <2>3, <2>4, ConcatProperties
  <2>6. toClient' = [toClient EXCEPT ![c] = replay \o <<SnapshotFrame(e)>>]
    BY <1>5 DEF HandleProjectionHello, EventCursor
  <2> HIDE DEF replay
  <2>7. toClient' \in [Clients -> Seq(ClientFrames(e))]
    BY <2>5, <2>6 DEF ClientsSound
  <2> QED  BY <1>5, <2>2, <2>7 DEF HandleProjectionHello, ClientsSound, Connections, durable
<1> QED  BY <1>2, <1>3, <1>4, <1>5 DEF ClientStep

\* Nor do the runner's own steps.
LEMMA RunnerLifeClients ==
  ASSUME BridgesTypeOK, ClientsSound,
         \/ \E i \in DOMAIN projections : DestroyProjection(i) \/ HandleProjectionClose(i)
         \/ StopRunner \/ StartRunner
  PROVE  ClientsSound'
<1>1. Len(projections) \in Nat /\ DOMAIN projections = 1 .. Len(projections)
  BY LenProperties DEF ClientsSound
<1>2. ASSUME NEW i \in DOMAIN projections, DestroyProjection(i) PROVE ClientsSound'
  <2>1. projections[i] \in ProjectionRecords  BY <1>1, ElementOfSeq DEF ClientsSound
  <2>2. [projections[i] EXCEPT !.socket = "destroyed"] \in ProjectionRecords
    BY <2>1 DEF ProjectionRecords
  <2>3. projections' = [projections EXCEPT ![i] = [projections[i] EXCEPT !.socket = "destroyed"]]
    BY <1>2 DEF DestroyProjection
  <2>4. projections' \in Seq(ProjectionRecords)
    BY <1>1, <2>2, <2>3, ExceptSeq DEF ClientsSound
  <2> QED  BY <1>2, <2>4 DEF DestroyProjection, ClientsSound, durable, clients
<1>3. ASSUME NEW i \in DOMAIN projections, HandleProjectionClose(i) PROVE ClientsSound'
  <2>1. i \in Nat /\ i >= 1 /\ i <= Len(projections)  BY <1>1
  <2>2. \A j \in 1 .. Len(projections) : projections[j] \in ProjectionRecords
    BY <1>1, ElementOfSeq DEF ClientsSound
  <2>3. SubSeq(projections, 1, i - 1) \in Seq(ProjectionRecords)
    <3>1. \A j \in 1 .. i - 1 : projections[j] \in ProjectionRecords  BY <1>1, <2>1, <2>2
    <3> QED  BY <2>1, <3>1, SubSeqProperties DEF ClientsSound
  <2>4. SubSeq(projections, i + 1, Len(projections)) \in Seq(ProjectionRecords)
    <3>1. \A j \in i + 1 .. Len(projections) : projections[j] \in ProjectionRecords
      BY <1>1, <2>1, <2>2
    <3> QED  BY <1>1, <2>1, <3>1, SubSeqProperties DEF ClientsSound
  <2>5. projections' \in Seq(ProjectionRecords)
    BY <1>3, <2>3, <2>4, ConcatProperties DEF HandleProjectionClose, RemoveAt
  <2> QED  BY <1>3, <2>5 DEF HandleProjectionClose, ClientsSound, durable, clients
<1>4. CASE StopRunner
  <2>1. << >> \in Seq(ProjectionRecords)  BY EmptySeq
  <2>2. \A x \in Connections : AfterStop(x) \in Connections  BY DEF AfterStop, Connections
  <2>3. client' \in [Clients -> Connections]  BY <1>4, <2>2 DEF StopRunner, ClientsSound
  <2> QED  BY <1>4, <2>1, <2>3 DEF StopRunner, ClientsSound, durable
<1>5. CASE StartRunner
  <2>1. Event("runner_restarted", Null, 0) \in EventRecords
    BY DEF Event, EventRecords, EventTypes
  <2>2. Len(events') = Len(events) + 1 /\ Len(events) \in Nat
    BY <1>5, <2>1, AppendProperties, LenProperties DEF StartRunner, BridgesTypeOK, DurableTypeOK
  <2>3. /\ Seq(ClientFrames(Len(events))) \subseteq Seq(ClientFrames(Len(events')))
        /\ Seq(1 .. Len(events)) \subseteq Seq(1 .. Len(events'))
        /\ 0 .. Len(events) \subseteq 0 .. Len(events')
    BY <2>2, MoreEvents
  <2>4. UNCHANGED <<projections, client, toClient, savedCursor, eventLog>>
    BY <1>5 DEF StartRunner, clients
  <2>5. toClient' \in [Clients -> Seq(ClientFrames(Len(events')))]
    BY <2>3, <2>4 DEF ClientsSound
  <2>6. savedCursor' \in [Clients -> (0 .. Len(events')) \cup {Null}]
    BY <2>3, <2>4 DEF ClientsSound
  <2>7. eventLog' \in [Clients -> Seq(1 .. Len(events'))]
    BY <2>3, <2>4 DEF ClientsSound
  <2> QED  BY <2>4, <2>5, <2>6, <2>7 DEF ClientsSound
<1> QED  BY <1>2, <1>3, <1>4, <1>5

LEMMA ClientsSoundAlways == Spec => []ClientsSound
<1>1. Init => ClientsSound
  <2> SUFFICES ASSUME Init PROVE ClientsSound
    OBVIOUS
  <2>1. /\ << >> \in Seq(ProjectionRecords) /\ << >> \in Seq(ClientFrames(Len(events)))
        /\ << >> \in Seq(1 .. Len(events)) /\ DOMAIN << >> = {}
    BY EmptySeq
  <2> QED  BY <2>1 DEF Init, ClientsSound, Connections, LogSound
<1>2. BridgesTypeOK /\ ClientsSound /\ [Next]_vars => ClientsSound'
  <2> SUFFICES ASSUME BridgesTypeOK, ClientsSound, [Next]_vars PROVE ClientsSound'
    OBVIOUS
  <2>1. CASE UNCHANGED vars
    BY <2>1 DEF vars, durable, runner, clients, ClientsSound
  <2> QED  BY <2>1, BridgeStepClients, ClientStepClients, RunnerLifeClients DEF Next
<1> QED  BY <1>1, <1>2, TypesCorrect, PTL DEF Spec

\* Every variable keeps its type, the clients' cursors and logs included.
THEOREM TeamTypesCorrect == Spec => []TypeOK
<1>1. BridgesTypeOK /\ ClientsSound => TypeOK
  <2> SUFFICES ASSUME BridgesTypeOK, ClientsSound PROVE TypeOK
    OBVIOUS
  <2>1. Len(events) \in Nat  BY LenProperties DEF BridgesTypeOK, DurableTypeOK
  <2>2. 0 .. Len(events) \subseteq Nat /\ 1 .. Len(events) \subseteq Nat  BY <2>1
  <2>3. Seq(1 .. Len(events)) \subseteq Seq(Nat)  BY <2>2, SeqMonotonic
  <2>4. savedCursor \in [Clients -> Nat \cup {Null}]  BY <2>2 DEF ClientsSound
  <2>5. eventLog \in [Clients -> Seq(Nat)]  BY <2>3 DEF ClientsSound
  <2> QED  BY <2>4, <2>5 DEF BridgesTypeOK, ClientsSound, TypeOK, ProjectionRecords
<1> QED  BY <1>1, TypesCorrect, ClientsSoundAlways, PTL

\* What a projection client has seen is one gapless run of the committed events,
\* however its reconnects, replay pages, snapshots and live events interleave and
\* wherever a data chunk ends (thin-client.ts: appendEvent, handleFrame, connect).
THEOREM ClientLogCorrect == Spec => []ClientLogContiguous
<1>1. BridgesTypeOK /\ ClientsSound => ClientLogContiguous
  <2> SUFFICES ASSUME BridgesTypeOK, ClientsSound, NEW c \in Clients
               PROVE  /\ \A i \in 1 .. Len(eventLog[c]) - 1 : eventLog[c][i + 1] = eventLog[c][i] + 1
                      /\ \A i \in DOMAIN eventLog[c] : eventLog[c][i] \in DOMAIN events
    BY DEF ClientLogContiguous
  <2> DEFINE log == eventLog[c]
  <2>1. log \in Seq(1 .. Len(events)) /\ \A i \in DOMAIN log : log[i] = log[1] + (i - 1)
    BY DEF ClientsSound, LogSound
  <2>2. DOMAIN log = 1 .. Len(log) /\ Len(log) \in Nat  BY <2>1, LenProperties
  <2>3. \A i \in DOMAIN log : log[i] \in 1 .. Len(events)  BY <2>1, <2>2, ElementOfSeq
  <2>4. DOMAIN events = 1 .. Len(events) /\ Len(events) \in Nat
    BY LenProperties DEF BridgesTypeOK, DurableTypeOK
  <2>5. ASSUME NEW i \in 1 .. Len(log) - 1 PROVE log[i + 1] = log[i] + 1
    <3>1. i \in DOMAIN log /\ i + 1 \in DOMAIN log /\ 1 \in DOMAIN log  BY <2>2
    <3>2. log[1] \in 1 .. Len(events)  BY <2>3, <3>1
    <3>3. log[i] = log[1] + (i - 1) /\ log[i + 1] = log[1] + ((i + 1) - 1)  BY <2>1, <3>1
    <3> QED  BY <2>4, <3>2, <3>3
  <2> QED  BY <2>3, <2>4, <2>5
<1> QED  BY <1>1, TypesCorrect, ClientsSoundAlways, PTL

=============================================================================
