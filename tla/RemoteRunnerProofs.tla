-------------------------- MODULE RemoteRunnerProofs --------------------------
(***************************************************************************)
(* Theorems about RemoteRunner, for all assignments and bounds: what is    *)
(* handed to Pi is durable and handed over once, and a takeover reaches    *)
(* the runner that serves the bridge.                                      *)
(***************************************************************************)
EXTENDS RemoteRunner, SequenceTheorems, TLAPS

-----------------------------------------------------------------------------
(* Types. *)

Entries == [id : Ids, state : AssignmentStates, ack : AckStatuses \cup {"none"}]
Memories ==
  [connected : BOOLEAN, session : 0 .. MaxPiStarts, mode : Modes, assignments : Seq(Entries)]
Bridges ==
  [session : Sessions, client : {"disconnected", "connecting", "acknowledged", "rejected"},
   connected : BOOLEAN, mode : Modes, assignment : AssignmentSummary, seen : SUBSET Ids,
   queue : Seq(BridgeFrames)]
Sockets ==
  [up : BOOLEAN, registered : BOOLEAN, toRunner : Seq(BridgeFrames), toBridge : Seq(RunnerFrames)]
Operations ==
  {Idle} \cup [kind : {"accept"}, frames : Seq(RunnerFrames)]
  \cup [kind : {"issue"}, id : Ids, linked : BOOLEAN] \cup [kind : {"frame", "disconnect", "late_accept", "record"}]
Controls ==
  [link : {"up", "down", "closed"}, lingering : BOOLEAN, queued : Seq(Assignments),
   sent : Seq(Assignments)]
Turns == [phase : {"idle", "starting", "working"}, id : Ids \cup {NoAssignment}]

RunnerTypes ==
  /\ memory \in Memories /\ file \in Memories /\ pending \in Operations
  /\ running \in BOOLEAN /\ closing \in BOOLEAN
WireTypes == socket \in Sockets /\ bridge \in Bridges
PiTypes == turn \in Turns /\ submitted \in [Ids -> Nat]
Types == RunnerTypes /\ WireTypes /\ PiTypes /\ control \in Controls

-----------------------------------------------------------------------------
(* Sequences as sets of frames. *)

\* What is in a queue after a send, after a flush and after a receipt.
LEMMA QueueSent ==
  ASSUME NEW S, NEW s \in Seq(S), NEW e \in S
  PROVE  ToSet(Append(s, e)) = ToSet(s) \cup {e}
  BY AppendProperties DEF ToSet

\* A flush puts the queue behind what is on its way.
LEMMA QueueFlushed ==
  ASSUME NEW S, NEW s \in Seq(S), NEW t \in Seq(S)
  PROVE  ToSet(s \o t) = ToSet(s) \cup ToSet(t)
<1>1. PICK u : u = s \o t OBVIOUS
<1>2. DOMAIN u = 1 .. Len(s) + Len(t) /\ DOMAIN s = 1 .. Len(s) /\ DOMAIN t = 1 .. Len(t)
      /\ Len(s) \in Nat /\ Len(t) \in Nat
  BY <1>1, ConcatProperties
<1>3. \A i \in DOMAIN s : i \in DOMAIN u /\ u[i] = s[i] BY <1>1, <1>2, ConcatProperties
<1>4. \A i \in DOMAIN t : Len(s) + i \in DOMAIN u /\ u[Len(s) + i] = t[i]
  BY <1>1, <1>2, ConcatProperties
<1>5. \A i \in DOMAIN u :
        (i \in DOMAIN s /\ u[i] = s[i]) \/ (i - Len(s) \in DOMAIN t /\ u[i] = t[i - Len(s)])
  BY <1>1, <1>2, ConcatProperties
<1>6. \A x \in ToSet(u) : x \in ToSet(s) \/ x \in ToSet(t) BY <1>5, Zenon DEF ToSet
<1>7. \A x \in ToSet(s) : x \in ToSet(u) BY <1>3, Zenon DEF ToSet
<1>8. \A x \in ToSet(t) : x \in ToSet(u) BY <1>4, Zenon DEF ToSet
<1>9. QED BY <1>1, <1>6, <1>7, <1>8

\* A receipt takes the head.
LEMMA QueueRead ==
  ASSUME NEW S, NEW s \in Seq(S), s # <<>>
  PROVE  Tail(s) \in Seq(S) /\ Head(s) \in S /\ ToSet(s) = {Head(s)} \cup ToSet(Tail(s))
<1>1. Len(s) \in Nat /\ Len(s) > 0 /\ DOMAIN s = 1 .. Len(s) OBVIOUS
<1>2. Tail(s) \in Seq(S) /\ Len(Tail(s)) = Len(s) - 1 /\ Head(s) = s[1]
  BY HeadTailProperties
<1>3. \A i \in 1 .. Len(s) - 1 : Tail(s)[i] = s[i + 1] BY HeadTailProperties
<1>4. DOMAIN Tail(s) = 1 .. Len(s) - 1 BY <1>1, <1>2
<1>5. 1 \in DOMAIN s /\ Head(s) \in S BY <1>1, <1>2
<1>6. \A i \in DOMAIN s : i = 1 \/ i - 1 \in DOMAIN Tail(s) BY <1>1, <1>4
<1>7. \A i \in DOMAIN s : i = 1 \/ Tail(s)[i - 1] = s[i] BY <1>1, <1>3
<1>8. \A i \in DOMAIN Tail(s) : i + 1 \in DOMAIN s /\ Tail(s)[i] = s[i + 1] BY <1>1, <1>3, <1>4
<1>9. \A x \in ToSet(s) : x = Head(s) \/ x \in ToSet(Tail(s))
  BY <1>2, <1>6, <1>7, Zenon DEF ToSet
<1>10. \A x \in ToSet(Tail(s)) : x \in ToSet(s) BY <1>8, Zenon DEF ToSet
<1>11. Head(s) \in ToSet(s) BY <1>2, <1>5, Zenon DEF ToSet
<1>12. QED BY <1>2, <1>5, <1>9, <1>10, <1>11

\* What is in a queue has the type of its frames.
LEMMA QueueMembers == ASSUME NEW S, NEW s \in Seq(S) PROVE ToSet(s) \subseteq S
  BY DEF ToSet

-----------------------------------------------------------------------------
(* The runner's memory. *)

\* The handler of a frame changes states, acknowledgements and the mode of the
\* Role: no assignment comes, goes or moves, and a takeover stays.
Touched(m, n) ==
  /\ n \in Memories
  /\ DOMAIN n.assignments = DOMAIN m.assignments
  /\ \A i \in DOMAIN m.assignments : n.assignments[i].id = m.assignments[i].id
  /\ n.session = m.session /\ n.connected = m.connected
  /\ m.mode = "manual_takeover" => n.mode = "manual_takeover"

Distinct(m) == \A i, j \in DOMAIN m.assignments : i # j => m.assignments[i].id # m.assignments[j].id

\* Handlers compose, and each of their parts touches the memory and no more.
LEMMA TouchedTwice ==
  ASSUME NEW m \in Memories, NEW n, NEW o, Touched(m, n), Touched(n, o) PROVE Touched(m, o)
  BY DEF Touched

\* A handler that changes nothing is one, too.
LEMMA Untouched == ASSUME NEW m \in Memories PROVE Touched(m, m)
  BY DEF Touched

\* The state of one assignment.
LEMMA SetStateTouches ==
  ASSUME NEW m \in Memories, NEW id, NEW state \in AssignmentStates
  PROVE  Touched(m, SetState(m, id, state)) /\ SetState(m, id, state).mode = m.mode
<1>1. PICK a : a = [i \in DOMAIN m.assignments |->
        IF m.assignments[i].id = id THEN [m.assignments[i] EXCEPT !.state = state] ELSE m.assignments[i]]
  OBVIOUS
<1>2. m.assignments \in Seq(Entries) BY DEF Memories
<1>3. \A i \in DOMAIN m.assignments : m.assignments[i] \in Entries BY <1>2
<1>4. \A e \in Entries : [e EXCEPT !.state = state] \in Entries /\ [e EXCEPT !.state = state].id = e.id
  BY DEF Entries
<1>5. DOMAIN a = DOMAIN m.assignments /\ \A i \in DOMAIN a :
        a[i] \in Entries /\ a[i].id = m.assignments[i].id
  BY <1>1, <1>3, <1>4
<1>6. a \in Seq(Entries)
  <2>1. PICK n \in Nat : n = Len(m.assignments) BY <1>2
  <2>2. DOMAIN a = 1 .. n BY <1>2, <1>5, <2>1
  <2>3. a \in [1 .. n -> Entries] BY <1>1, <1>5, <2>2
  <2>4. QED BY <2>3, SeqDef
<1>7. SetState(m, id, state) = [m EXCEPT !.assignments = a] BY <1>1 DEF SetState
<1>8. QED BY <1>5, <1>6, <1>7 DEF Touched, Memories

\* The acknowledgement of one assignment.
LEMMA SetAckTouches ==
  ASSUME NEW m \in Memories, NEW id, NEW status \in AckStatuses
  PROVE  Touched(m, SetAck(m, id, status)) /\ SetAck(m, id, status).mode = m.mode
<1>1. PICK a : a = [i \in DOMAIN m.assignments |->
        IF m.assignments[i].id = id THEN [m.assignments[i] EXCEPT !.ack = status] ELSE m.assignments[i]]
  OBVIOUS
<1>2. m.assignments \in Seq(Entries) BY DEF Memories
<1>3. \A i \in DOMAIN m.assignments : m.assignments[i] \in Entries BY <1>2
<1>4. \A e \in Entries : [e EXCEPT !.ack = status] \in Entries /\ [e EXCEPT !.ack = status].id = e.id
  BY DEF Entries
<1>5. DOMAIN a = DOMAIN m.assignments /\ \A i \in DOMAIN a :
        a[i] \in Entries /\ a[i].id = m.assignments[i].id
  BY <1>1, <1>3, <1>4
<1>6. a \in Seq(Entries)
  <2>1. PICK n \in Nat : n = Len(m.assignments) BY <1>2
  <2>2. DOMAIN a = 1 .. n BY <1>2, <1>5, <2>1
  <2>3. a \in [1 .. n -> Entries] BY <1>1, <1>5, <2>2
  <2>4. QED BY <2>3, SeqDef
<1>7. SetAck(m, id, status) = [m EXCEPT !.assignments = a] BY <1>1 DEF SetAck
<1>8. QED BY <1>5, <1>6, <1>7 DEF Touched, Memories

\* The state of the latest assignment.
LEMMA SetLatestTouches ==
  ASSUME NEW m \in Memories, NEW state \in AssignmentStates
  PROVE  Touched(m, SetLatest(m, state)) /\ SetLatest(m, state).mode = m.mode
  BY SetStateTouches, Untouched DEF SetLatest

\* The takeover.
LEMMA TakenOverTouches ==
  ASSUME NEW m \in Memories
  PROVE  Touched(m, TakenOver(m)) /\ TakenOver(m).mode = "manual_takeover"
<1>1. PICK n : n = Reconcile(m) OBVIOUS
<1>2. Touched(m, n)
  BY <1>1, SetLatestTouches, Untouched DEF Reconcile, AssignmentStates
<1>3. TakenOver(m) = [n EXCEPT !.mode = "manual_takeover"] BY <1>1 DEF TakenOver
<1>4. QED BY <1>2, <1>3 DEF Touched, Memories, Modes

\* An event of the bridge.
LEMMA AppliedTouches ==
  ASSUME NEW m \in Memories, NEW type
  PROVE  Touched(m, Applied(m, type)) /\ (type = "manual_takeover" => Applied(m, type).mode = type)
<1>1. "working" \in AssignmentStates /\ "settled" \in AssignmentStates
      /\ "needs_reconciliation" \in AssignmentStates
  BY DEF AssignmentStates
<1>2. CASE type = "manual_takeover" BY <1>2, TakenOverTouches DEF Applied
<1>3. CASE type # "manual_takeover"
  BY <1>1, <1>3, SetLatestTouches, Untouched DEF Applied
<1>4. QED BY <1>2, <1>3

\* The bridge's snapshot.
LEMMA SnapshotTouches ==
  ASSUME NEW m \in Memories, NEW frame
  PROVE  Touched(m, SnapshotRecorded(m, frame))
         /\ (frame.mode = "manual_takeover" => SnapshotRecorded(m, frame).mode = "manual_takeover")
<1>1. PICK n : n = IF frame.mode = "manual_takeover" THEN TakenOver(m) ELSE m OBVIOUS
<1>2. Touched(m, n) /\ n \in Memories /\ (frame.mode = "manual_takeover" => n.mode = "manual_takeover")
  BY <1>1, TakenOverTouches, Untouched DEF Touched
<1>3. Touched(n, SetLatest(n, "needs_reconciliation"))
      /\ SetLatest(n, "needs_reconciliation").mode = n.mode
  BY <1>2, SetLatestTouches DEF AssignmentStates
<1>4. SnapshotRecorded(m, frame) = IF frame.assignment.state = "needs_reconciliation"
                                   THEN SetLatest(n, "needs_reconciliation") ELSE n
  BY <1>1 DEF SnapshotRecorded
<1>5. QED BY <1>2, <1>3, <1>4, TouchedTwice

\* An acknowledgement of the bridge.
LEMMA AckTouches ==
  ASSUME NEW m \in Memories, NEW frame \in Acks
  PROVE  Touched(m, SetAck(AckRecorded(m, frame), frame.id, frame.status))
<1>1. PICK n : n = AckRecorded(m, frame) OBVIOUS
<1>2. Touched(m, n) BY <1>1, SetStateTouches, Untouched DEF AckRecorded, AssignmentStates
<1>3. n \in Memories /\ frame.status \in AckStatuses BY <1>2 DEF Touched, Acks
<1>4. Touched(n, SetAck(n, frame.id, frame.status)) BY <1>3, SetAckTouches
<1>5. QED BY <1>1, <1>2, <1>4, TouchedTwice

\* What touching the memory leaves: which assignments it knows, which is the latest.
LEMMA TouchedKnows ==
  ASSUME NEW m \in Memories, NEW n, Touched(m, n)
  PROVE  /\ \A id : Known(n, id) <=> Known(m, id)
         /\ Distinct(m) => Distinct(n)
         /\ Latest(n).id = Latest(m).id
<1>1. \A id : Known(n, id) <=> Known(m, id) BY DEF Touched, Known
<1>2. Distinct(m) => Distinct(n) BY DEF Touched, Distinct
<1>3. PICK a, b : a = m.assignments /\ b = n.assignments OBVIOUS
<1>4. a \in Seq(Entries) /\ b \in Seq(Entries) /\ DOMAIN b = DOMAIN a
      /\ \A i \in DOMAIN a : b[i].id = a[i].id
  BY <1>3 DEF Touched, Memories
<1>5. Len(a) = Len(b) BY <1>4
<1>6. ASSUME a = <<>> PROVE Latest(n).id = Latest(m).id
  <2>1. b = <<>> BY <1>4, <1>5, <1>6
  <2>2. n.assignments = <<>> /\ m.assignments = <<>> BY <1>3, <1>6, <2>1
  <2>3. Latest(n) = None /\ Latest(m) = None BY <2>2, Zenon DEF Latest
  <2>4. QED BY <2>3
<1>7. ASSUME a # <<>> PROVE Latest(n).id = Latest(m).id
  <2>1. b # <<>> /\ Len(a) \in DOMAIN a BY <1>4, <1>5, <1>7
  <2>2. Latest(n) = b[Len(b)] /\ Latest(m) = a[Len(a)] BY <1>3, <1>7, <2>1, Zenon DEF Latest, Last
  <2>3. QED BY <1>4, <1>5, <2>1, <2>2
<1>8. QED BY <1>1, <1>2, <1>6, <1>7

\* The latest assignment is a known one, or there is none.
LEMMA LatestKnown ==
  ASSUME NEW m \in Memories
  PROVE  /\ Summary(m) \in AssignmentSummary
         /\ Latest(m).id = NoAssignment \/ Known(m, Latest(m).id)
         /\ \A id : Known(m, id) => id \in Ids
<1>1. NoAssignment \notin Ids BY BoundsAssumption DEF Ids
<1>2. PICK a : a = m.assignments OBVIOUS
<1>3. a \in Seq(Entries) BY <1>2 DEF Memories
<1>4. \A i \in DOMAIN a : a[i] \in Entries BY <1>3
<1>5. \A id : Known(m, id) => id \in Ids BY <1>2, <1>4 DEF Known, Entries
<1>6. CASE a = <<>>
  <2>1. Latest(m) = None BY <1>2, <1>6 DEF Latest
  <2>2. Summary(m) = None BY <2>1 DEF Summary, None
  <2>3. QED BY <1>5, <2>1, <2>2 DEF AssignmentSummary, None
<1>7. CASE a # <<>>
  <2>1. Len(a) \in DOMAIN a BY <1>3, <1>7
  <2>2. Latest(m) = a[Len(a)] BY <1>2, <1>7 DEF Latest, Last
  <2>3. Latest(m) \in Entries BY <1>4, <2>1, <2>2
  <2>4. Summary(m) \in [id : Ids, state : AssignmentStates] BY <2>3 DEF Summary, Entries
  <2>5. QED BY <1>2, <1>5, <2>1, <2>2, <2>4 DEF AssignmentSummary, Known
<1>8. QED BY <1>6, <1>7

\* A new intent: it is the latest, and what was known stays known.
Intended(m, id) ==
  [m EXCEPT !.assignments = Append(@, [id |-> id, state |-> "pending", ack |-> "none"])]
\* Intended keeps the types and the identities apart.
LEMMA Intending ==
  ASSUME NEW m \in Memories, NEW id \in Ids, Distinct(m), ~Known(m, id)
  PROVE  /\ Intended(m, id) \in Memories /\ Distinct(Intended(m, id))
         /\ \A i : Known(Intended(m, id), i) <=> Known(m, i) \/ i = id
         /\ Latest(Intended(m, id)).id = id
         /\ Intended(m, id).session = m.session /\ Intended(m, id).connected = m.connected
         /\ Intended(m, id).mode = m.mode
<1>1. PICK e : e = [id |-> id, state |-> "pending", ack |-> "none"] OBVIOUS
<1>2. e \in Entries /\ e.id = id BY <1>1 DEF Entries, AssignmentStates
<1>3. PICK a : a = m.assignments OBVIOUS
<1>4. a \in Seq(Entries) /\ \A i \in DOMAIN a : a[i].id # id BY <1>3 DEF Memories, Known
<1>5. PICK b : b = Append(a, e) OBVIOUS
<1>6. /\ b \in Seq(Entries) /\ Len(b) = Len(a) + 1 /\ b[Len(a) + 1] = e
      /\ \A i \in DOMAIN a : b[i] = a[i]
      /\ DOMAIN a = 1 .. Len(a) /\ DOMAIN b = 1 .. Len(a) + 1 /\ Len(a) \in Nat
  BY <1>2, <1>4, <1>5, AppendProperties
<1>7. PICK n : n = Intended(m, id) OBVIOUS
<1>8. n = [m EXCEPT !.assignments = b] BY <1>1, <1>3, <1>5, <1>7 DEF Intended
<1>9. n \in Memories /\ n.assignments = b /\ n.session = m.session /\ n.connected = m.connected
      /\ n.mode = m.mode
  BY <1>6, <1>8 DEF Memories
<1>10. Distinct(n)
  <2>1. \A i, j \in DOMAIN a : i # j => a[i].id # a[j].id BY <1>3 DEF Distinct
  <2>2. \A i \in DOMAIN b : i \in DOMAIN a \/ i = Len(a) + 1 BY <1>6
  <2>3. QED BY <1>2, <1>4, <1>6, <1>9, <2>1, <2>2 DEF Distinct
<1>11. \A i : Known(n, i) <=> Known(m, i) \/ i = id
  <2>1. \A i \in DOMAIN b : i \in DOMAIN a \/ i = Len(a) + 1 BY <1>6
  <2>2. Len(a) + 1 \in DOMAIN b /\ \A i \in DOMAIN a : i \in DOMAIN b BY <1>6
  <2>3. QED BY <1>2, <1>3, <1>6, <1>9, <2>1, <2>2 DEF Known
<1>12. Latest(n).id = id
  <2>1. b # <<>> BY <1>6
  <2>2. QED BY <1>2, <1>6, <1>9, <2>1 DEF Latest, Last
<1>13. QED BY <1>7, <1>9, <1>10, <1>11, <1>12
-----------------------------------------------------------------------------
(* The bridge and its socket. *)

\* A send queues one frame at most; the rest of the bridge stays.
SameBridge(b, c) ==
  /\ c \in Bridges
  /\ c.session = b.session /\ c.client = b.client /\ c.mode = b.mode
  /\ c.assignment = b.assignment /\ c.seen = b.seen
Queues(b, c) ==
  /\ ToSet(b.queue) \subseteq ToSet(c.queue)
  /\ \A f \in ToSet(c.queue) : f \in ToSet(b.queue) \/ f.kind # "hello"
  /\ Flushable(b) \/ Len(b.queue) > MaxPending \/ Len(c.queue) <= MaxPending

\* The send of one frame, queued while there is room.
LEMMA Sending ==
  ASSUME NEW b \in Bridges, NEW f \in BridgeFrames, f.kind # "hello"
  PROVE  /\ SameBridge(b, Send(b, f)) /\ Queues(b, Send(b, f))
         /\ Flushable(b) => f \in ToSet(Send(b, f).queue)
<1>1. PICK q : q = Append(b.queue, f) OBVIOUS
<1>2. b.queue \in Seq(BridgeFrames) BY DEF Bridges
<1>3. q \in Seq(BridgeFrames) /\ Len(q) = Len(b.queue) + 1 BY <1>1, <1>2, AppendProperties
<1>4. ToSet(q) = ToSet(b.queue) \cup {f} BY <1>1, <1>2, QueueSent
<1>5. Len(b.queue) \in Nat /\ MaxPending \in Nat BY <1>2, BoundsAssumption
<1>6. CASE Flushable(b) \/ Len(b.queue) < MaxPending
  <2>1. Send(b, f) = [b EXCEPT !.queue = q] BY <1>1, <1>6 DEF Send
  <2>2. Send(b, f).queue = q /\ SameBridge(b, Send(b, f)) BY <1>3, <2>1 DEF SameBridge, Bridges
  <2>3. QED BY <1>3, <1>4, <1>5, <1>6, <2>2 DEF Queues
<1>7. CASE ~(Flushable(b) \/ Len(b.queue) < MaxPending)
  <2>1. Send(b, f) = b BY <1>7 DEF Send
  <2>2. QED BY <1>5, <1>7, <2>1 DEF SameBridge, Queues
<1>8. QED BY <1>6, <1>7

\* The frames that the bridge sends.
LEMMA BridgeSends ==
  /\ \A type \in EventTypes, id \in Ids \cup {NoAssignment}, covered \in BOOLEAN :
       LET f == [kind |-> "event", type |-> type, id |-> id, covered |-> covered] IN
       f \in BridgeFrames /\ f.kind # "hello"
  /\ \A mode \in Modes, a \in AssignmentSummary :
       LET f == [kind |-> "state_snapshot", mode |-> mode, assignment |-> a] IN
       f \in BridgeFrames /\ f.kind # "hello"
  /\ \A id \in Ids, status \in AckStatuses :
       LET f == [kind |-> "assignment_ack", id |-> id, status |-> status] IN
       f \in BridgeFrames /\ f.kind # "hello"
  /\ \A a \in AssignmentSummary : a.id \in Ids \cup {NoAssignment}
  BY DEF BridgeFrames, Hellos, Acks, Events, StateSnapshots, AssignmentSummary, None

\* The kind tells what a frame to the runner carries.
LEMMA BridgeFrameKinds ==
  ASSUME NEW f \in BridgeFrames
  PROVE  /\ f.kind = "hello" => f \in Hellos
         /\ f.kind = "assignment_ack" => f \in Acks
         /\ f.kind = "event" => f \in Events
         /\ f.kind = "state_snapshot" => f \in StateSnapshots
  BY DEF BridgeFrames, Hellos, Acks, Events, StateSnapshots

\* The same of a frame to the bridge.
LEMMA RunnerFrameKinds ==
  ASSUME NEW f \in RunnerFrames
  PROVE  /\ f.kind = "hello_ack" => f \in HelloAcks
         /\ f.kind = "runner_snapshot" => f \in RunnerSnapshots
         /\ f.kind = "assignment" => f \in AssignmentFrames
         /\ f.kind \in {"hello_ack", "runner_snapshot", "assignment"}
  BY DEF RunnerFrames, HelloAcks, RunnerSnapshots, AssignmentFrames

\* Two sends in a row.
LEMMA QueuesTwice ==
  ASSUME NEW b, NEW c, NEW d, SameBridge(b, c), Queues(b, c), SameBridge(c, d), Queues(c, d)
  PROVE  SameBridge(b, d) /\ Queues(b, d)
<1>1. SameBridge(b, d) BY DEF SameBridge
<1>2. Flushable(b) <=> Flushable(c) BY DEF SameBridge, Flushable
<1>3. ToSet(b.queue) \subseteq ToSet(d.queue)
      /\ \A f \in ToSet(d.queue) : f \in ToSet(b.queue) \/ f.kind # "hello"
  BY DEF Queues
<1>4. CASE Flushable(b) \/ Len(b.queue) > MaxPending BY <1>1, <1>3, <1>4 DEF Queues
<1>5. CASE ~(Flushable(b) \/ Len(b.queue) > MaxPending)
  <2>1. Len(c.queue) <= MaxPending BY <1>5 DEF Queues
  <2>2. c.queue \in Seq(BridgeFrames) BY DEF SameBridge, Bridges
  <2>3. ~(Len(c.queue) > MaxPending) BY <2>1, <2>2, BoundsAssumption
  <2>4. Len(d.queue) <= MaxPending BY <1>2, <1>5, <2>3 DEF Queues
  <2>5. QED BY <1>1, <1>3, <2>4 DEF Queues
<1>6. QED BY <1>4, <1>5

\* No send at all.
LEMMA QueuesNothing == ASSUME NEW b \in Bridges PROVE SameBridge(b, b) /\ Queues(b, b)
<1>1. b.queue \in Seq(BridgeFrames) BY DEF Bridges
<1>2. Len(b.queue) \in Nat /\ MaxPending \in Nat BY <1>1, BoundsAssumption
<1>3. QED BY <1>2 DEF SameBridge, Queues

\* An event about an assignment.
LEMMA Emitting ==
  ASSUME NEW b \in Bridges, NEW type \in EventTypes, NEW id \in Ids \cup {NoAssignment}
  PROVE  LET f == [kind |-> "event", type |-> type, id |-> id, covered |-> FALSE] IN
         /\ SameBridge(b, Emit(b, type, id)) /\ Queues(b, Emit(b, type, id))
         /\ Flushable(b) => f \in ToSet(Emit(b, type, id).queue)
<1>1. PICK f : f = [kind |-> "event", type |-> type, id |-> id, covered |-> FALSE] OBVIOUS
<1>2. f \in BridgeFrames /\ f.kind # "hello" BY <1>1, BridgeSends
<1>3. Emit(b, type, id) = Send(b, f) BY <1>1 DEF Emit
<1>4. QED BY <1>1, <1>2, <1>3, Sending

\* An event about the bridge's own assignment.
LEMMA EmittingOwn ==
  ASSUME NEW b \in Bridges, NEW type \in EventTypes
  PROVE  LET f == [kind |-> "event", type |-> type, id |-> b.assignment.id, covered |-> FALSE] IN
         /\ SameBridge(b, EmitOwn(b, type)) /\ Queues(b, EmitOwn(b, type))
         /\ Flushable(b) => f \in ToSet(EmitOwn(b, type).queue)
<1>1. b.assignment.id \in Ids \cup {NoAssignment} BY BridgeSends DEF Bridges
<1>2. QED BY <1>1, Emitting DEF EmitOwn

\* The bridge's snapshot of itself.
LEMMA SendingSnapshot ==
  ASSUME NEW b \in Bridges
  PROVE  LET f == [kind |-> "state_snapshot", mode |-> b.mode, assignment |-> b.assignment] IN
         /\ SameBridge(b, SendSnapshot(b)) /\ Queues(b, SendSnapshot(b))
         /\ Flushable(b) => f \in ToSet(SendSnapshot(b).queue)
<1>1. PICK f : f = [kind |-> "state_snapshot", mode |-> b.mode, assignment |-> b.assignment] OBVIOUS
<1>2. b.mode \in Modes /\ b.assignment \in AssignmentSummary BY DEF Bridges
<1>3. f \in BridgeFrames /\ f.kind # "hello" BY <1>1, <1>2, BridgeSends
<1>4. SendSnapshot(b) = Send(b, f) BY <1>1 DEF SendSnapshot
<1>5. QED BY <1>1, <1>3, <1>4, Sending

\* A handler of the bridge leaves the socket open, reads at most the first frame,
\* adds to what is on its way to the runner and never a hello.
Writes(frames) ==
  /\ bridge' \in Bridges /\ bridge'.session = bridge.session
  /\ socket' \in Sockets /\ socket'.up = socket.up /\ socket'.registered = socket.registered
  /\ socket'.toBridge = frames
  /\ ToSet(socket.toRunner) \subseteq ToSet(socket'.toRunner)
  /\ \A f \in ToSet(bridge'.queue) : f \in ToSet(bridge.queue) \/ f.kind # "hello"
  /\ \A f \in ToSet(socket'.toRunner) :
       f \in ToSet(bridge.queue) \cup ToSet(socket.toRunner) \/ f.kind # "hello"
  /\ Len(bridge'.queue) <= MaxPending

\* What a send and the flush behind it write.
LEMMA Writing ==
  ASSUME WireTypes, Len(bridge.queue) <= MaxPending,
         NEW b \in Bridges, b.queue = bridge.queue, b.session = bridge.session,
         NEW c, SameBridge(b, c), Queues(b, c),
         NEW frames \in Seq(RunnerFrames),
         bridge' = Flushed(c), socket' = [SocketAfter(c) EXCEPT !.toBridge = frames]
  PROVE  /\ Writes(frames) /\ SameBridge(b, bridge')
         /\ Flushable(c) => ToSet(c.queue) \subseteq ToSet(socket'.toRunner)
<1>1. c \in Bridges /\ c.queue \in Seq(BridgeFrames) BY DEF SameBridge, Bridges
<1>2. socket.toRunner \in Seq(BridgeFrames) BY DEF WireTypes, Sockets
<1>3. PICK new : new = socket.toRunner \o c.queue OBVIOUS
<1>4. new \in Seq(BridgeFrames) /\ ToSet(new) = ToSet(socket.toRunner) \cup ToSet(c.queue)
  <2>1. new \in Seq(BridgeFrames) BY <1>1, <1>2, <1>3
  <2>2. PICK s \in Seq(BridgeFrames), t \in Seq(BridgeFrames) : s = socket.toRunner /\ t = c.queue
    BY <1>1, <1>2
  <2>3. ToSet(s \o t) = ToSet(s) \cup ToSet(t) BY QueueFlushed
  <2>4. QED BY <1>3, <2>1, <2>2, <2>3
<1>5. b.queue \in Seq(BridgeFrames) BY DEF Bridges
<1>6. \A f \in ToSet(c.queue) : f \in ToSet(bridge.queue) \/ f.kind # "hello" BY DEF Queues
<1>7. CASE Flushable(c)
  <2>1. bridge' = [c EXCEPT !.queue = <<>>] BY <1>7 DEF Flushed
  <2>2. SocketAfter(c) = [socket EXCEPT !.toRunner = new] BY <1>3, <1>7 DEF SocketAfter
  <2>3. socket' = [[socket EXCEPT !.toRunner = new] EXCEPT !.toBridge = frames] BY <2>2
  <2>4. socket' \in Sockets /\ socket'.up = socket.up /\ socket'.registered = socket.registered
        /\ socket'.toBridge = frames /\ socket'.toRunner = new
    BY <1>4, <2>3 DEF WireTypes, Sockets
  <2>5. bridge'.queue = <<>> /\ SameBridge(c, bridge')
    <3>1. <<>> \in Seq(BridgeFrames) OBVIOUS
    <3>2. bridge'.queue = <<>> /\ bridge' \in Bridges BY <1>1, <2>1, <3>1 DEF Bridges
    <3>3. QED BY <1>1, <2>1, <3>2 DEF SameBridge, Bridges
  <2>6. ToSet(bridge'.queue) = {} /\ Len(bridge'.queue) <= MaxPending
    BY <2>5, BoundsAssumption DEF ToSet
  <2>7. SameBridge(b, bridge') BY <2>5 DEF SameBridge
  <2>8. bridge' \in Bridges /\ bridge'.session = bridge.session BY <2>7 DEF SameBridge
  <2>9. QED BY <1>4, <1>6, <2>4, <2>6, <2>7, <2>8 DEF Writes
<1>8. CASE ~Flushable(c)
  <2>1. bridge' = c BY <1>8 DEF Flushed
  <2>2. socket' = [socket EXCEPT !.toBridge = frames] BY <1>8 DEF SocketAfter
  <2>3. socket' \in Sockets /\ socket'.up = socket.up /\ socket'.registered = socket.registered
        /\ socket'.toBridge = frames /\ socket'.toRunner = socket.toRunner
    BY <2>2 DEF WireTypes, Sockets
  <2>4. ~Flushable(b) BY <1>8 DEF SameBridge, Flushable
  <2>5. Len(b.queue) \in Nat /\ MaxPending \in Nat BY <1>5, BoundsAssumption
  <2>6. Len(c.queue) <= MaxPending BY <2>4, <2>5 DEF Queues
  <2>7. bridge' \in Bridges /\ bridge'.session = bridge.session /\ SameBridge(b, bridge')
    BY <2>1 DEF SameBridge
  <2>8. QED BY <1>6, <1>8, <2>1, <2>3, <2>6, <2>7 DEF Writes
<1>9. QED BY <1>7, <1>8

\* The bridge reads a frame.
LEMMA ReceivedWrites ==
  ASSUME WireTypes, Len(bridge.queue) <= MaxPending, socket.toBridge # <<>>,
         NEW b \in Bridges, b.queue = bridge.queue, b.session = bridge.session,
         NEW c, SameBridge(b, c), Queues(b, c), Received(c)
  PROVE  /\ Writes(Tail(socket.toBridge)) /\ SameBridge(b, bridge')
         /\ Flushable(c) => ToSet(c.queue) \subseteq ToSet(socket'.toRunner)
<1>1. socket.toBridge \in Seq(RunnerFrames) BY DEF WireTypes, Sockets
<1>2. Tail(socket.toBridge) \in Seq(RunnerFrames) BY <1>1, HeadTailProperties
<1>3. SocketAfter(c).toBridge = socket.toBridge BY DEF SocketAfter, WireTypes, Sockets
<1>4. socket' = [SocketAfter(c) EXCEPT !.toBridge = Tail(socket.toBridge)] BY <1>3 DEF Received
<1>5. bridge' = Flushed(c) BY DEF Received
<1>6. QED BY <1>2, <1>4, <1>5, Writing

\* An event of Pi is published.
LEMMA PublishWrites ==
  ASSUME WireTypes, Len(bridge.queue) <= MaxPending,
         NEW b \in Bridges, b.queue = bridge.queue, b.session = bridge.session,
         NEW c, SameBridge(b, c), Queues(b, c), Publish(c)
  PROVE  /\ Writes(socket.toBridge) /\ SameBridge(b, bridge')
         /\ Flushable(c) => ToSet(c.queue) \subseteq ToSet(socket'.toRunner)
<1>1. socket.toBridge \in Seq(RunnerFrames) BY DEF WireTypes, Sockets
<1>2. socket \in Sockets BY DEF WireTypes
<1>3. \A q : [socket EXCEPT !.toRunner = q]
             = [[socket EXCEPT !.toRunner = q] EXCEPT !.toBridge = socket.toBridge]
  BY <1>2 DEF Sockets
<1>4. socket = [socket EXCEPT !.toBridge = socket.toBridge] BY <1>2 DEF Sockets
<1>5. SocketAfter(c) = [SocketAfter(c) EXCEPT !.toBridge = socket.toBridge]
  BY <1>3, <1>4, Zenon DEF SocketAfter
<1>6. socket' = [SocketAfter(c) EXCEPT !.toBridge = socket.toBridge] BY <1>5 DEF Publish
<1>7. bridge' = Flushed(c) BY DEF Publish
<1>8. QED BY <1>1, <1>6, <1>7, Writing

-----------------------------------------------------------------------------
(* The handlers of the bridge. *)

\* What every handler of the bridge finds.
BridgeReady == WireTypes /\ PiTypes /\ Len(bridge.queue) <= MaxPending

\* Work that is interrupted keeps its identity.
LEMMA BridgeInterrupted ==
  ASSUME NEW b \in Bridges
  PROVE  LET c == BridgeTakenOver(b) IN
         /\ c \in Bridges /\ c.mode = "manual_takeover" /\ c.assignment.id = b.assignment.id
         /\ c.session = b.session /\ c.client = b.client /\ c.seen = b.seen /\ c.queue = b.queue
<1>1. PICK a : a = [b.assignment EXCEPT !.state = "needs_reconciliation"] OBVIOUS
<1>2. PICK n : n = BridgeReconcile(b) OBVIOUS
<1>3. n \in Bridges /\ n.assignment.id = b.assignment.id
      /\ n.session = b.session /\ n.client = b.client /\ n.seen = b.seen /\ n.queue = b.queue
  <2>1. CASE b.assignment.state \in BridgeActive
    <3>1. b.assignment \in [id : Ids, state : AssignmentStates]
      BY <2>1 DEF Bridges, AssignmentSummary, None, BridgeActive
    <3>2. a \in AssignmentSummary /\ a.id = b.assignment.id
      BY <1>1, <3>1 DEF AssignmentSummary, AssignmentStates
    <3>3. n = [b EXCEPT !.assignment = a] BY <1>1, <1>2, <2>1 DEF BridgeReconcile, Bridges
    <3>4. QED BY <3>2, <3>3 DEF Bridges
  <2>2. CASE b.assignment.state \notin BridgeActive
    BY <1>2, <2>2 DEF BridgeReconcile
  <2>3. QED BY <2>1, <2>2
<1>4. BridgeTakenOver(b) = [n EXCEPT !.mode = "manual_takeover"] BY <1>2 DEF BridgeTakenOver
<1>5. QED BY <1>3, <1>4 DEF Bridges, Modes

\* The hello is answered.
LEMMA HelloAckWrites ==
  ASSUME BridgeReady, ReceiveHelloAck
  PROVE  /\ Writes(Tail(socket.toBridge)) /\ Head(socket.toBridge).kind = "hello_ack"
         /\ bridge'.client = "acknowledged" /\ bridge'.mode = bridge.mode
         /\ bridge'.assignment = bridge.assignment /\ bridge'.seen = bridge.seen
<1>1. socket.toBridge # <<>> /\ Head(socket.toBridge).kind = "hello_ack"
  BY DEF ReceiveHelloAck, NextMessage
<1>2. bridge \in Bridges BY DEF BridgeReady, WireTypes
<1>3. PICK b : b = [bridge EXCEPT !.client = "acknowledged", !.connected = TRUE] OBVIOUS
<1>4. b \in Bridges /\ b.queue = bridge.queue /\ b.session = bridge.session
      /\ b.client = "acknowledged" /\ b.mode = bridge.mode
      /\ b.assignment = bridge.assignment /\ b.seen = bridge.seen
  BY <1>2, <1>3 DEF Bridges
<1>5. PICK c : c = Acknowledged(bridge) OBVIOUS
<1>6. c = IF Len(bridge.queue) >= MaxPending THEN b ELSE SendSnapshot(b)
  BY <1>3, <1>5 DEF Acknowledged
<1>7. SameBridge(b, c) /\ Queues(b, c) BY <1>4, <1>6, SendingSnapshot, QueuesNothing
<1>8. Received(c) BY <1>5 DEF ReceiveHelloAck
<1>9. Writes(Tail(socket.toBridge)) /\ SameBridge(b, bridge')
  BY <1>1, <1>4, <1>7, <1>8, ReceivedWrites DEF BridgeReady
<1>10. QED BY <1>1, <1>4, <1>9 DEF SameBridge

\* What the runner's snapshot makes of the bridge.
LEMMA Adopting ==
  ASSUME NEW b \in Bridges, NEW f \in RunnerSnapshots
  PROVE  LET c == Adopted(b, f) IN
         /\ c \in Bridges /\ c.session = b.session /\ c.client = b.client /\ c.queue = b.queue
         /\ b.mode = "manual_takeover" => c.mode = b.mode
         /\ IF f.assignment.id = NoAssignment THEN c.seen = b.seen /\ c.assignment.id = b.assignment.id
            ELSE c.seen = b.seen \cup {f.assignment.id} /\ c.assignment = f.assignment
         /\ f.assignment.id \in Ids \cup {NoAssignment}
<1>1. PICK n : n = IF f.mode = "manual_takeover" /\ b.mode = "managed" THEN BridgeTakenOver(b) ELSE b
  OBVIOUS
<1>2. /\ n \in Bridges /\ n.session = b.session /\ n.client = b.client /\ n.queue = b.queue
      /\ n.seen = b.seen /\ n.assignment.id = b.assignment.id
      /\ b.mode = "manual_takeover" => n.mode = b.mode
  BY <1>1, BridgeInterrupted
<1>3. f.assignment \in AssignmentSummary BY DEF RunnerSnapshots
<1>4. NoAssignment \notin Ids BY BoundsAssumption DEF Ids
<1>5. f.assignment = None <=> f.assignment.id = NoAssignment
  BY <1>3, <1>4 DEF AssignmentSummary, None
<1>6. CASE f.assignment = None
  <2>1. Adopted(b, f) = n BY <1>1, <1>6 DEF Adopted
  <2>2. QED BY <1>2, <1>5, <1>6, <2>1
<1>7. CASE f.assignment # None
  <2>1. f.assignment.id \in Ids BY <1>3, <1>7 DEF AssignmentSummary
  <2>2. PICK c : c = Adopted(b, f) OBVIOUS
  <2>3. c = [n EXCEPT !.assignment = f.assignment, !.seen = n.seen \cup {f.assignment.id}]
    BY <1>1, <1>7, <2>2 DEF Adopted
  <2>4. c \in Bridges /\ c.session = n.session /\ c.client = n.client /\ c.queue = n.queue
        /\ c.mode = n.mode /\ c.seen = n.seen \cup {f.assignment.id} /\ c.assignment = f.assignment
    BY <1>2, <1>3, <2>1, <2>3 DEF Bridges
  <2>5. QED BY <1>2, <1>5, <1>7, <2>1, <2>2, <2>4
<1>8. QED BY <1>6, <1>7

\* The snapshot is taken and answered with the bridge's own, or contradicted.
LEMMA SnapshotWrites ==
  ASSUME BridgeReady, ReceiveRunnerSnapshot
  PROVE  LET f == Head(socket.toBridge)
             agreed == bridge.assignment.id \in {NoAssignment, f.assignment.id} IN
         /\ Writes(Tail(socket.toBridge)) /\ f \in RunnerSnapshots /\ f.kind = "runner_snapshot"
         /\ bridge'.client = bridge.client
         /\ bridge.mode = "manual_takeover" => bridge'.mode = bridge.mode
         /\ \/ bridge'.seen = bridge.seen /\ bridge'.assignment.id = bridge.assignment.id
            \/ /\ f.assignment.id # NoAssignment
               /\ bridge'.seen = bridge.seen \cup {f.assignment.id}
               /\ bridge'.assignment.id = f.assignment.id
         /\ bridge.client = "acknowledged" =>
              \E g \in ToSet(socket'.toRunner) :
                IF agreed THEN g.kind = "state_snapshot" /\ g.mode = bridge'.mode
                ELSE g.kind = "event" /\ g.id = bridge.assignment.id
<1>1. PICK f : f = Head(socket.toBridge) OBVIOUS
<1>2. socket.toBridge # <<>> /\ f.kind = "runner_snapshot"
  BY <1>1 DEF ReceiveRunnerSnapshot, NextMessage
<1>3. f \in RunnerSnapshots
  BY <1>1, <1>2, QueueRead, RunnerFrameKinds DEF BridgeReady, WireTypes, Sockets
<1>4. bridge \in Bridges BY DEF BridgeReady, WireTypes
<1>5. CASE bridge.assignment.id \in {NoAssignment, f.assignment.id}
  <2>1. PICK b : b = Adopted(bridge, f) OBVIOUS
  <2>2. /\ b \in Bridges /\ b.queue = bridge.queue /\ b.session = bridge.session
        /\ b.client = bridge.client
        /\ bridge.mode = "manual_takeover" => b.mode = bridge.mode
        /\ IF f.assignment.id = NoAssignment
           THEN b.seen = bridge.seen /\ b.assignment.id = bridge.assignment.id
           ELSE b.seen = bridge.seen \cup {f.assignment.id} /\ b.assignment = f.assignment
    BY <1>3, <1>4, <2>1, Adopting
  <2>3. PICK c : c = SendSnapshot(b) OBVIOUS
  <2>4. PICK g : g = [kind |-> "state_snapshot", mode |-> b.mode, assignment |-> b.assignment] OBVIOUS
  <2>5. SameBridge(b, c) /\ Queues(b, c) /\ (Flushable(b) => g \in ToSet(c.queue))
    BY <2>2, <2>3, <2>4, SendingSnapshot
  <2>6. Received(c)
    BY <1>1, <1>5, <2>1, <2>3 DEF ReceiveRunnerSnapshot, SameAssignment
  <2>7. /\ Writes(Tail(socket.toBridge)) /\ SameBridge(b, bridge')
        /\ Flushable(c) => ToSet(c.queue) \subseteq ToSet(socket'.toRunner)
    BY <1>2, <2>2, <2>5, <2>6, ReceivedWrites DEF BridgeReady
  <2>8. Flushable(b) <=> Flushable(c) BY <2>5 DEF SameBridge, Flushable
  <2>9. bridge.client = "acknowledged" => g \in ToSet(socket'.toRunner)
    BY <2>2, <2>5, <2>7, <2>8 DEF Flushable
  <2>10. g.kind = "state_snapshot" /\ g.mode = bridge'.mode BY <2>4, <2>7 DEF SameBridge
  <2>11. /\ bridge'.client = bridge.client
         /\ bridge.mode = "manual_takeover" => bridge'.mode = bridge.mode
         /\ \/ bridge'.seen = bridge.seen /\ bridge'.assignment.id = bridge.assignment.id
            \/ /\ f.assignment.id # NoAssignment
               /\ bridge'.seen = bridge.seen \cup {f.assignment.id}
               /\ bridge'.assignment.id = f.assignment.id
    BY <2>2, <2>7 DEF SameBridge
  <2>12. QED BY <1>1, <1>2, <1>3, <1>5, <2>7, <2>9, <2>10, <2>11
<1>6. CASE bridge.assignment.id \notin {NoAssignment, f.assignment.id}
  <2>1. PICK c : c = EmitOwn(bridge, "assignment_needs_reconciliation") OBVIOUS
  <2>2. PICK g : g = [kind |-> "event", type |-> "assignment_needs_reconciliation",
                      id |-> bridge.assignment.id, covered |-> FALSE] OBVIOUS
  <2>3. "assignment_needs_reconciliation" \in EventTypes BY DEF EventTypes
  <2>4. SameBridge(bridge, c) /\ Queues(bridge, c) /\ (Flushable(bridge) => g \in ToSet(c.queue))
    BY <1>4, <2>1, <2>2, <2>3, EmittingOwn
  <2>5. Received(c)
    BY <1>1, <1>6, <2>1 DEF ReceiveRunnerSnapshot, SameAssignment
  <2>6. /\ Writes(Tail(socket.toBridge)) /\ SameBridge(bridge, bridge')
        /\ Flushable(c) => ToSet(c.queue) \subseteq ToSet(socket'.toRunner)
    BY <1>2, <1>4, <2>4, <2>5, ReceivedWrites DEF BridgeReady
  <2>7. Flushable(bridge) <=> Flushable(c) BY <2>4 DEF SameBridge, Flushable
  <2>8. bridge.client = "acknowledged" => g \in ToSet(socket'.toRunner)
    BY <2>4, <2>6, <2>7 DEF Flushable
  <2>9. g.kind = "event" /\ g.id = bridge.assignment.id BY <2>2
  <2>10. QED BY <1>1, <1>2, <1>3, <1>6, <2>6, <2>8, <2>9 DEF SameBridge
<1>7. QED BY <1>5, <1>6

\* An assignment is answered; one that was not seen may be handed to Pi.
LEMMA AssignmentWrites ==
  ASSUME BridgeReady, RefuseWork \/ AcceptWork
  PROVE  LET id == Head(socket.toBridge).id IN
         /\ Writes(Tail(socket.toBridge)) /\ Head(socket.toBridge).kind = "assignment" /\ id \in Ids
         /\ bridge'.client = bridge.client /\ bridge'.mode = bridge.mode
         /\ \/ bridge'.seen = bridge.seen /\ bridge'.assignment.id = bridge.assignment.id
            \/ bridge'.seen = bridge.seen \cup {id} /\ bridge'.assignment.id = id
         /\ turn' \in Turns
         /\ \/ submitted' = submitted
            \/ /\ id \notin bridge.seen /\ id \in bridge'.seen
               /\ submitted' = [submitted EXCEPT ![id] = @ + 1]
<1>1. PICK f, id : f = Head(socket.toBridge) /\ id = f.id OBVIOUS
<1>2. socket.toBridge # <<>> /\ f.kind = "assignment"
  BY <1>1 DEF RefuseWork, AcceptWork, NextMessage
<1>3. f \in AssignmentFrames
  BY <1>1, <1>2, QueueRead, RunnerFrameKinds DEF BridgeReady, WireTypes, Sockets
<1>4. id \in Ids BY <1>1, <1>3 DEF AssignmentFrames
<1>5. bridge \in Bridges /\ turn \in Turns BY DEF BridgeReady, WireTypes, PiTypes
<1>6. CASE RefuseWork
  <2>1. AssignmentStatus(bridge, id) \in AckStatuses BY DEF AssignmentStatus, AckStatuses
  <2>2. PICK g : g = [kind |-> "assignment_ack", id |-> id, status |-> AssignmentStatus(bridge, id)]
    OBVIOUS
  <2>3. g \in BridgeFrames /\ g.kind # "hello" BY <1>4, <2>1, <2>2, BridgeSends
  <2>4. PICK c : c = Answer(bridge, id) OBVIOUS
  <2>5. SameBridge(bridge, c) /\ Queues(bridge, c)
    BY <1>5, <2>2, <2>3, <2>4, Sending DEF Answer
  <2>6. Received(c) /\ UNCHANGED piVars BY <1>1, <1>6, <2>4 DEF RefuseWork
  <2>7. Writes(Tail(socket.toBridge)) /\ SameBridge(bridge, bridge')
    BY <1>2, <1>5, <2>5, <2>6, ReceivedWrites DEF BridgeReady
  <2>8. QED BY <1>1, <1>2, <1>4, <1>5, <2>6, <2>7 DEF SameBridge, piVars
<1>7. CASE AcceptWork
  <2>1. id \notin bridge.seen BY <1>1, <1>7 DEF AcceptWork, AssignmentStatus
  <2>2. PICK a : a = [id |-> id, state |-> "accepted"] OBVIOUS
  <2>3. a \in AssignmentSummary /\ a.id = id
    BY <1>4, <2>2 DEF AssignmentSummary, AssignmentStates
  <2>4. PICK b : b = AcceptedWork(bridge, id) OBVIOUS
  <2>5. b = [bridge EXCEPT !.assignment = a, !.seen = bridge.seen \cup {id}]
    BY <2>2, <2>4 DEF AcceptedWork
  <2>6. /\ b \in Bridges /\ b.queue = bridge.queue /\ b.session = bridge.session
        /\ b.client = bridge.client /\ b.mode = bridge.mode
        /\ b.seen = bridge.seen \cup {id} /\ b.assignment = a
    BY <1>4, <1>5, <2>3, <2>5 DEF Bridges
  <2>7. PICK g : g = [kind |-> "assignment_ack", id |-> id, status |-> "accepted"] OBVIOUS
  <2>8. g \in BridgeFrames /\ g.kind # "hello" BY <1>4, <2>7, BridgeSends DEF AckStatuses
  <2>9. PICK ack : ack = Send(b, g) OBVIOUS
  <2>10. SameBridge(b, ack) /\ Queues(b, ack) /\ ack \in Bridges
    BY <2>6, <2>8, <2>9, Sending DEF SameBridge
  <2>11. PICK begun : begun = Emit(ack, "agent_started", id) OBVIOUS
  <2>12. "agent_started" \in EventTypes /\ "assignment_needs_reconciliation" \in EventTypes
    BY DEF EventTypes
  <2>13. SameBridge(ack, begun) /\ Queues(ack, begun)
    BY <1>4, <2>10, <2>11, <2>12, Emitting
  <2>14. SameBridge(b, begun) /\ Queues(b, begun) BY <2>10, <2>13, QueuesTwice
  <2>15. PICK thrown : thrown = Emit(begun, "assignment_needs_reconciliation", id) OBVIOUS
  <2>16. begun \in Bridges BY <2>13 DEF SameBridge
  <2>17. SameBridge(begun, thrown) /\ Queues(begun, thrown)
    BY <1>4, <2>12, <2>15, <2>16, Emitting
  <2>18. SameBridge(b, thrown) /\ Queues(b, thrown) BY <2>14, <2>17, QueuesTwice
  <2>19. \/ /\ Received(begun) /\ turn' = [phase |-> "starting", id |-> id]
            /\ submitted' = [submitted EXCEPT ![id] = @ + 1]
         \/ Received(thrown) /\ UNCHANGED piVars
    BY <1>1, <1>7, <2>4, <2>7, <2>9, <2>11, <2>15 DEF AcceptWork
  <2>20. Writes(Tail(socket.toBridge)) /\ SameBridge(b, bridge')
    <3>1. CASE Received(begun)
      BY <1>2, <2>6, <2>14, <3>1, ReceivedWrites DEF BridgeReady
    <3>2. CASE Received(thrown)
      BY <1>2, <2>6, <2>18, <3>2, ReceivedWrites DEF BridgeReady
    <3>3. QED BY <2>19, <3>1, <3>2
  <2>21. bridge'.seen = bridge.seen \cup {id} /\ bridge'.assignment.id = id
         /\ bridge'.client = bridge.client /\ bridge'.mode = bridge.mode
    BY <2>3, <2>6, <2>20 DEF SameBridge
  <2>22. turn' \in Turns
    BY <1>4, <1>5, <2>19 DEF Turns, piVars
  <2>23. submitted' = submitted \/ submitted' = [submitted EXCEPT ![id] = @ + 1]
    BY <2>19 DEF piVars
  <2>24. QED BY <1>1, <1>2, <1>4, <2>1, <2>20, <2>21, <2>22, <2>23
<1>8. QED BY <1>6, <1>7

\* What Pi tells the bridge: an input takes the Role over and says so.
LEMMA PiWrites ==
  ASSUME BridgeReady, SubmitInput \/ AgentStart \/ AgentSettled
  PROVE  /\ Writes(socket.toBridge)
         /\ bridge'.client = bridge.client /\ bridge'.seen = bridge.seen
         /\ bridge'.assignment.id = bridge.assignment.id
         /\ bridge'.mode = bridge.mode
            \/ (bridge.client = "acknowledged" => \E g \in ToSet(socket'.toRunner) :
                  g.kind = "event" /\ g.type = "manual_takeover" /\ ~g.covered)
         /\ bridge.mode = "manual_takeover" => bridge'.mode = bridge.mode
         /\ turn' \in Turns
<1>1. bridge \in Bridges /\ turn \in Turns BY DEF BridgeReady, WireTypes, PiTypes
<1>2. {"manual_takeover", "agent_started", "agent_settled", "assignment_needs_reconciliation"}
      \subseteq EventTypes
  BY DEF EventTypes
<1>3. CASE SubmitInput
  <2>1. turn' \in Turns BY <1>1, <1>3 DEF SubmitInput, Turns
  <2>2. CASE bridge.mode = "managed"
    <3>1. PICK b : b = BridgeTakenOver(bridge) OBVIOUS
    <3>2. /\ b \in Bridges /\ b.assignment.id = bridge.assignment.id
          /\ b.session = bridge.session /\ b.client = bridge.client
          /\ b.seen = bridge.seen /\ b.queue = bridge.queue
      BY <1>1, <3>1, BridgeInterrupted
    <3>3. PICK c : c = EmitOwn(b, "manual_takeover") OBVIOUS
    <3>4. PICK g : g = [kind |-> "event", type |-> "manual_takeover", id |-> b.assignment.id,
                        covered |-> FALSE]
      OBVIOUS
    <3>5. SameBridge(b, c) /\ Queues(b, c) /\ (Flushable(b) => g \in ToSet(c.queue))
      BY <1>2, <3>2, <3>3, <3>4, EmittingOwn
    <3>6. Publish(c) BY <1>3, <2>2, <3>1, <3>3 DEF SubmitInput
    <3>7. /\ Writes(socket.toBridge) /\ SameBridge(b, bridge')
          /\ Flushable(c) => ToSet(c.queue) \subseteq ToSet(socket'.toRunner)
      BY <3>2, <3>5, <3>6, PublishWrites DEF BridgeReady
    <3>8. bridge.client = "acknowledged" => g \in ToSet(socket'.toRunner)
      BY <3>2, <3>5, <3>7 DEF Flushable, SameBridge
    <3>9. g.kind = "event" /\ g.type = "manual_takeover" /\ ~g.covered BY <3>4
    <3>10. bridge'.client = bridge.client /\ bridge'.seen = bridge.seen
           /\ bridge'.assignment.id = bridge.assignment.id
      BY <3>2, <3>7 DEF SameBridge
    <3>11. QED BY <2>1, <2>2, <3>7, <3>8, <3>9, <3>10
  <2>3. CASE bridge.mode # "managed"
    <3>1. Publish(bridge) BY <1>3, <2>3 DEF SubmitInput
    <3>2. Writes(socket.toBridge) /\ SameBridge(bridge, bridge')
      BY <1>1, <3>1, QueuesNothing, PublishWrites DEF BridgeReady
    <3>3. QED BY <2>1, <3>2 DEF SameBridge
  <2>4. QED BY <2>2, <2>3
<1>4. CASE AgentStart \/ AgentSettled
  <2>1. turn' \in Turns
    BY <1>1, <1>4 DEF AgentStart, AgentSettled, Turns, NoTurn
  <2>2. \E b, c :
          /\ b \in Bridges /\ b.queue = bridge.queue /\ b.session = bridge.session /\ b.client = bridge.client
          /\ b.mode = bridge.mode /\ b.seen = bridge.seen /\ b.assignment.id = bridge.assignment.id
          /\ SameBridge(b, c) /\ Queues(b, c) /\ Publish(c)
    <3>1. ASSUME NEW state \in AssignmentStates, bridge.assignment.state \in BridgeActive
          PROVE  LET b == [bridge EXCEPT !.assignment.state = state] IN
                 /\ b \in Bridges
                 /\ b.queue = bridge.queue /\ b.session = bridge.session /\ b.client = bridge.client
                 /\ b.mode = bridge.mode /\ b.seen = bridge.seen
                 /\ b.assignment.id = bridge.assignment.id
      <4>1. bridge.assignment \in [id : Ids, state : AssignmentStates]
        BY <1>1, <3>1 DEF Bridges, AssignmentSummary, None, BridgeActive
      <4>2. PICK a : a = [bridge.assignment EXCEPT !.state = state] OBVIOUS
      <4>3. a \in AssignmentSummary /\ a.id = bridge.assignment.id
        BY <3>1, <4>1, <4>2 DEF AssignmentSummary
      <4>4. [bridge EXCEPT !.assignment.state = state] = [bridge EXCEPT !.assignment = a]
        BY <1>1, <4>2 DEF Bridges
      <4>5. QED BY <1>1, <4>3, <4>4 DEF Bridges
    <3>2. CASE AgentStart
      <4>1. PICK b : b = IF bridge.assignment.state = "accepted"
                         THEN [bridge EXCEPT !.assignment.state = "working"] ELSE bridge
        OBVIOUS
      <4>2. /\ b \in Bridges
            /\ b.queue = bridge.queue /\ b.session = bridge.session /\ b.client = bridge.client
            /\ b.mode = bridge.mode /\ b.seen = bridge.seen /\ b.assignment.id = bridge.assignment.id
        <5>1. CASE bridge.assignment.state = "accepted"
          <6>1. "working" \in AssignmentStates /\ bridge.assignment.state \in BridgeActive
            BY <5>1 DEF AssignmentStates, BridgeActive
          <6>2. QED BY <3>1, <4>1, <5>1, <6>1
        <5>2. CASE bridge.assignment.state # "accepted" BY <1>1, <4>1, <5>2
        <5>3. QED BY <5>1, <5>2
      <4>3. SameBridge(b, EmitOwn(b, "agent_started")) /\ Queues(b, EmitOwn(b, "agent_started"))
        BY <1>2, <4>2, EmittingOwn
      <4>4. Publish(EmitOwn(b, "agent_started")) BY <3>2, <4>1 DEF AgentStart
      <4>5. QED BY <4>2, <4>3, <4>4
    <3>3. CASE AgentSettled
      <4>1. CASE bridge.assignment.state \in BridgeActive
        <5>1. PICK state : state = SettledState(bridge) OBVIOUS
        <5>2. state \in AssignmentStates BY <5>1 DEF SettledState, AssignmentStates
        <5>3. PICK b : b = [bridge EXCEPT !.assignment.state = state] OBVIOUS
        <5>4. /\ b \in Bridges
              /\ b.queue = bridge.queue /\ b.session = bridge.session /\ b.client = bridge.client
              /\ b.mode = bridge.mode /\ b.seen = bridge.seen
              /\ b.assignment.id = bridge.assignment.id
          BY <3>1, <4>1, <5>2, <5>3
        <5>5. PICK type : type = IF bridge.mode = "manual_takeover"
                                 THEN "assignment_needs_reconciliation" ELSE "agent_settled"
          OBVIOUS
        <5>6. type \in EventTypes BY <1>2, <5>5
        <5>7. PICK c : c = EmitOwn(b, type) OBVIOUS
        <5>8. c = Settled(bridge) BY <4>1, <5>1, <5>3, <5>5, <5>7 DEF Settled
        <5>9. SameBridge(b, c) /\ Queues(b, c) /\ c \in Bridges
          BY <5>4, <5>6, <5>7, EmittingOwn DEF SameBridge
        <5>10. SameBridge(c, EmitOwn(c, "agent_settled")) /\ Queues(c, EmitOwn(c, "agent_settled"))
          BY <1>2, <5>9, EmittingOwn
        <5>11. SameBridge(b, EmitOwn(c, "agent_settled")) /\ Queues(b, EmitOwn(c, "agent_settled"))
          BY <5>9, <5>10, QueuesTwice
        <5>12. Publish(EmitOwn(c, "agent_settled")) BY <3>3, <5>8 DEF AgentSettled
        <5>13. QED BY <5>4, <5>11, <5>12
      <4>2. CASE bridge.assignment.state \notin BridgeActive
        <5>1. Publish(EmitOwn(bridge, "agent_settled")) BY <3>3, <4>2 DEF AgentSettled, Settled
        <5>2. QED BY <1>1, <1>2, <5>1, EmittingOwn
      <4>3. QED BY <4>1, <4>2
    <3>4. QED BY <1>4, <3>2, <3>3
  <2>3. PICK b, c :
          /\ b \in Bridges /\ b.queue = bridge.queue /\ b.session = bridge.session /\ b.client = bridge.client
          /\ b.mode = bridge.mode /\ b.seen = bridge.seen /\ b.assignment.id = bridge.assignment.id
          /\ SameBridge(b, c) /\ Queues(b, c) /\ Publish(c)
    BY <2>2
  <2>4. Writes(socket.toBridge) /\ SameBridge(b, bridge')
    BY <2>3, PublishWrites DEF BridgeReady
  <2>5. QED BY <2>1, <2>3, <2>4 DEF SameBridge
<1>5. QED BY <1>3, <1>4

-----------------------------------------------------------------------------
(* The inductive invariant. *)

\* No identity is used twice, a replacement is under way only while the runner is
\* up, and the bridge's queue keeps to its bound.
Bounded ==
  /\ Distinct(memory) /\ Distinct(file)
  /\ pending # Idle => running
  /\ Len(bridge.queue) <= MaxPending

\* The assignment that a frame to the bridge names.
NameOf(f) ==
  IF f.kind = "assignment" THEN f.id
  ELSE IF f.kind = "runner_snapshot" THEN f.assignment.id ELSE NoAssignment
\* The file is never ahead of memory, and covers all that a bridge was told.
Names(f, m) == NameOf(f) = NoAssignment \/ Known(m, NameOf(f))
Durable ==
  /\ \A id \in Ids : Known(file, id) => Known(memory, id)
  /\ \A id \in bridge.seen : Known(file, id)
  /\ bridge.assignment.id \in bridge.seen \cup {NoAssignment}
  /\ \A f \in ToSet(socket.toBridge) : Names(f, file)
  /\ pending.kind = "accept" => \A f \in ToSet(pending.frames) : Names(f, memory)
  /\ pending.kind = "issue" => Known(memory, pending.id)

\* The session of memory and of the file is the first that was accepted: a served
\* bridge is of that session, and what is on its way was sent on its socket.
SessionBound ==
  /\ file.session \in {0, memory.session}
  /\ socket.registered =>
       /\ socket.up /\ memory.connected
       /\ memory.session = bridge.session /\ file.session = bridge.session
  /\ socket.up => running
  /\ closing => running /\ memory.connected /\ ~socket.registered
  /\ ~socket.registered => socket.toBridge = <<>>
  /\ pending.kind = "accept" =>
       /\ memory.connected /\ socket.up /\ ~socket.registered /\ ~closing
       /\ memory.session = bridge.session
  /\ pending.kind = "late_accept" => memory.connected /\ ~socket.registered
  /\ \A f \in ToSet(socket.toRunner) : f.kind = "hello" => f.session = bridge.session
  /\ \A f \in ToSet(bridge.queue) : f.kind # "hello"

\* Pi was given an assignment by the session that the file names, once.
Once ==
  \A id \in Ids :
    /\ submitted[id] <= 1
    /\ submitted[id] # 0 =>
         /\ file.session # 0 /\ file.session <= bridge.session
         /\ file.session = bridge.session => id \in bridge.seen

\* The runner greets with the acknowledgement of the hello and its snapshot; only
\* assignments follow.
Greeting(frames) ==
  \A i, j \in DOMAIN frames : i < j =>
    /\ frames[j].kind # "hello_ack"
    /\ frames[i].kind = "hello_ack" \/ frames[j].kind = "assignment"
Welcome(frames) ==
  /\ Len(frames) >= 2
  /\ frames[1].kind = "hello_ack" /\ frames[2].kind = "runner_snapshot"
\* The assignment of the bridge is the one a snapshot names, or not the latest.
Agrees(f) ==
  \/ bridge.assignment.id \in {NoAssignment, f.assignment.id}
  \/ bridge.assignment.id # Latest(memory).id
Greeted ==
  /\ Greeting(socket.toBridge)
  /\ pending.kind = "accept" =>
       /\ Greeting(pending.frames) /\ Welcome(pending.frames)
       /\ \A f \in ToSet(pending.frames) : f.kind = "runner_snapshot" => f.assignment = Summary(memory)
  /\ bridge.client = "acknowledged" => socket.registered
  /\ socket.registered => bridge.client = "acknowledged" \/ Welcome(socket.toBridge)
  /\ \A f \in ToSet(socket.toBridge) : f.kind = "runner_snapshot" => Agrees(f)

\* A takeover that the runner has yet to learn of is on its way: the bridge has
\* still to answer the snapshot, or its answer or event is ahead, or a frame that
\* makes the runner end the connection.
Carries(f, m) ==
  \/ f.kind = "event" /\ f.type = "manual_takeover" /\ ~f.covered
  \/ f.kind = "state_snapshot" /\ f.mode = "manual_takeover"
  \/ f.kind = "event" /\ Known(m, f.id) /\ f.id # Latest(m).id
Carried ==
  socket.registered /\ bridge.mode = "manual_takeover" /\ memory.mode # "manual_takeover" =>
    \/ \E f \in ToSet(socket.toBridge) : f.kind = "runner_snapshot"
    \/ \E f \in ToSet(socket.toRunner) : Carries(f, memory)

RunnerInv == Types /\ Bounded /\ Durable /\ SessionBound /\ Once /\ Greeted /\ Carried

-----------------------------------------------------------------------------
(* What the steps of the runner and of the sockets do. *)

\* The socket is gone, and with it what was in flight.
Cuts ==
  /\ socket' = NoSocket
  /\ bridge' \in Bridges /\ bridge'.client # "acknowledged"
  /\ bridge'.session = bridge.session /\ bridge'.mode = bridge.mode
  /\ bridge'.assignment = bridge.assignment /\ bridge'.seen = bridge.seen
  /\ bridge'.queue = bridge.queue
  /\ pending' \in {Idle, Orphaned} /\ running' \in BOOLEAN /\ closing' \in BOOLEAN
  /\ pending' # Idle => running'
  /\ closing' => running' /\ (closing \/ socket.registered)
  /\ control' \in Controls
  /\ UNCHANGED <<memory, file, turn, submitted>>
\* Only the control client, or an operation whose replacement failed, moves.
Aside ==
  /\ pending' \in {pending, Idle} /\ control' \in Controls
  /\ UNCHANGED <<memory, file, running, closing, socket, bridge, turn, submitted>>
\* A frame is read and recorded in memory.
Handles ==
  /\ running /\ socket.up /\ socket.toRunner # <<>> /\ socket' = Consume
  /\ Touched(memory, memory')
  /\ pending = Idle /\ pending' \in {Idle, [kind |-> "frame"]}
  /\ LET f == Head(socket.toRunner) IN Carries(f, memory) => memory'.mode = "manual_takeover"
  /\ UNCHANGED <<file, running, closing, bridge, control, turn, submitted>>
\* A replacement ends without a send, or the send fails.
Settles ==
  /\ running /\ file' = memory /\ Touched(memory, memory')
  /\ pending' \in {Idle, [kind |-> "record"]}
  /\ closing' \in BOOLEAN /\ (closing' => closing \/ pending.kind = "late_accept")
  /\ UNCHANGED <<running, socket, bridge, control, turn, submitted>>
\* A replacement ends, and the frames that waited for it are sent.
Sends(frames, registered) ==
  /\ running /\ file' = memory /\ pending' = Idle
  /\ socket' = [Deliver(frames) EXCEPT !.registered = registered]
  /\ UNCHANGED <<memory, running, closing, bridge, control, turn, submitted>>
Greets == pending.kind = "accept" /\ Sends(pending.frames, TRUE)
Dispatches ==
  /\ pending.kind = "issue" /\ socket.registered
  /\ Sends(<<[kind |-> "assignment", id |-> pending.id]>>, TRUE)

\* A socket that is gone, and a fresh one.
LEMMA SocketGone ==
  /\ NoSocket \in Sockets /\ ~NoSocket.up /\ ~NoSocket.registered
  /\ NoSocket.toRunner = <<>> /\ NoSocket.toBridge = <<>>
  /\ ToSet(<<>>) = {}
<1>1. <<>> \in Seq(BridgeFrames) /\ <<>> \in Seq(RunnerFrames) OBVIOUS
<1>2. NoSocket \in Sockets BY <1>1 DEF NoSocket, Sockets
<1>3. DOMAIN <<>> = {} OBVIOUS
<1>4. ToSet(<<>>) = {} BY <1>3 DEF ToSet
<1>5. QED BY <1>2, <1>4 DEF NoSocket

\* The client that loses its connection.
LEMMA GoingDown ==
  ASSUME NEW b \in Bridges
  PROVE  LET c == BridgeDown(b) IN
         /\ c \in Bridges /\ c.client # "acknowledged"
         /\ c.session = b.session /\ c.mode = b.mode /\ c.assignment = b.assignment
         /\ c.seen = b.seen /\ c.queue = b.queue
  BY DEF BridgeDown, Bridges

\* What an operation becomes that loses its connection.
LEMMA Orphans ==
  ASSUME pending \in Operations
  PROVE  /\ Orphaned \in Operations /\ Orphaned.kind # "accept"
         /\ Orphaned # Idle => pending # Idle
         /\ pending = Idle => Orphaned = Idle
         /\ Orphaned.kind = "issue" => Orphaned = pending
         /\ Orphaned.kind = "late_accept" => pending.kind \in {"accept", "late_accept"}
<1>1. pending.kind \in {"idle", "accept", "issue", "frame", "disconnect", "late_accept", "record"}
  BY DEF Operations, Idle
<1>2. /\ [kind |-> "late_accept"] \in Operations /\ [kind |-> "record"] \in Operations
      /\ Idle.kind = "idle"
  BY DEF Operations, Idle
<1>3. CASE pending.kind = "accept" BY <1>2, <1>3 DEF Orphaned
<1>4. CASE pending.kind = "frame" BY <1>2, <1>4 DEF Orphaned
<1>5. CASE pending.kind \notin {"accept", "frame"} BY <1>5 DEF Orphaned
<1>6. QED BY <1>3, <1>4, <1>5

\* An operation that lost its connection waits neither to greet nor to send for it.
LEMMA CutOperation ==
  ASSUME pending \in Operations, pending' \in {Idle, Orphaned}
  PROVE  /\ pending'.kind # "accept"
         /\ pending'.kind = "issue" => pending' = pending
         /\ pending'.kind = "late_accept" => pending.kind \in {"accept", "late_accept"}
<1>1. Idle.kind = "idle" BY DEF Idle
<1>2. QED BY <1>1, Orphans

\* The socket ends at either side.
LEMMA HangupCuts ==
  ASSUME Types, Bounded, SessionBound, Hangup,
         pending' \in {Idle, Orphaned}, UNCHANGED <<memory, file, running, control, turn, submitted>>
  PROVE  Cuts
<1>1. bridge \in Bridges BY DEF Types, WireTypes
<1>2. bridge' = BridgeDown(bridge) /\ socket' = NoSocket BY DEF Hangup
<1>3. closing' \in BOOLEAN BY DEF Hangup, Types, RunnerTypes, WireTypes, Sockets
<1>4. pending' # Idle => running' BY Orphans DEF Bounded, Types, RunnerTypes
<1>5. running' \in BOOLEAN /\ control' \in Controls BY DEF Types, RunnerTypes
<1>6. closing' => running' /\ (closing \/ socket.registered) BY DEF Hangup, SessionBound
<1>7. QED BY <1>1, <1>2, <1>3, <1>4, <1>5, <1>6, GoingDown DEF Cuts

\* The runner process ends.
LEMMA RunnerGoneCuts ==
  ASSUME Types, Greeted, SessionBound, RunnerGone, UNCHANGED <<memory, file, turn, submitted>>
  PROVE  Cuts
<1>1. bridge \in Bridges BY DEF Types, WireTypes
<1>2. bridge' = IF socket.up THEN BridgeDown(bridge) ELSE bridge BY DEF RunnerGone
<1>3. ~socket.up => bridge.client # "acknowledged" BY DEF Greeted, SessionBound
<1>4. control' \in Controls
  <2>1. control \in Controls BY DEF Types
  <2>2. <<>> \in Seq(Assignments) OBVIOUS
  <2>3. PICK c : c = IF control.link = "up" THEN ControlDown(control) ELSE control OBVIOUS
  <2>4. c \in Controls BY <2>1, <2>2, <2>3 DEF ControlDown, Controls
  <2>5. control' = [c EXCEPT !.lingering = FALSE] BY <2>3 DEF RunnerGone
  <2>6. QED BY <2>4, <2>5 DEF Controls
<1>5. socket' = NoSocket /\ pending' = Idle /\ running' = FALSE /\ closing' = FALSE BY DEF RunnerGone
<1>6. QED BY <1>1, <1>2, <1>3, <1>4, <1>5, GoingDown DEF Cuts

\* Frames that the runner cannot place, and a second hello, end the connection.
LEMMA RefusalsCut ==
  ASSUME Types, Bounded, SessionBound, RejectBridge \/ RefuseBridge \/ RefuseFrame \/ BreakSocket
  PROVE  Cuts
<1>1. CASE RejectBridge
  <2>1. bridge \in Bridges /\ bridge' = [bridge EXCEPT !.client = "rejected"]
    BY <1>1 DEF RejectBridge, Types, WireTypes
  <2>2. bridge' \in Bridges /\ bridge'.client = "rejected"
        /\ bridge'.session = bridge.session /\ bridge'.mode = bridge.mode
        /\ bridge'.assignment = bridge.assignment /\ bridge'.seen = bridge.seen
        /\ bridge'.queue = bridge.queue
    BY <2>1 DEF Bridges
  <2>3. /\ socket' = NoSocket /\ pending = Idle /\ running
        /\ UNCHANGED <<memory, file, pending, running, closing, control, turn, submitted>>
    BY <1>1 DEF RejectBridge, NextFrame, Free, runnerVars, piVars
  <2>4. QED BY <2>2, <2>3 DEF Cuts, Types, RunnerTypes
<1>2. CASE RefuseBridge \/ RefuseFrame
  BY <1>2, HangupCuts DEF RefuseBridge, RefuseFrame, ProtocolFailure, NextFrame, Free, piVars
<1>3. CASE BreakSocket
  BY <1>3, HangupCuts DEF BreakSocket, piVars
<1>4. QED BY <1>1, <1>2, <1>3

\* A replacement that fails, and a crash.
LEMMA FailuresCut ==
  ASSUME Types, Bounded, Greeted, SessionBound, FailReplace \/ CrashRunner
  PROVE  Cuts \/ Aside
<1>1. CASE CrashRunner BY <1>1, RunnerGoneCuts DEF CrashRunner, piVars
<1>2. CASE FailReplace
  <2>1. UNCHANGED <<memory, file, turn, submitted>> /\ pending # Idle
    BY <1>2 DEF FailReplace, piVars
  <2>2. pending.kind \in {"accept", "issue", "frame", "disconnect", "late_accept", "record"}
    BY <2>1 DEF Types, RunnerTypes, Operations
  <2>3. CASE pending.kind = "disconnect"
    <3>1. RunnerGone BY <1>2, <2>3 DEF FailReplace
    <3>2. QED BY <2>1, <3>1, RunnerGoneCuts
  <2>4. CASE pending.kind \in {"issue", "late_accept", "record"}
    <3>1. pending' = Idle /\ UNCHANGED <<running, closing, socket, bridge, control>>
      BY <1>2, <2>4 DEF FailReplace
    <3>2. QED BY <2>1, <3>1 DEF Aside, Types
  <2>5. CASE pending.kind \in {"accept", "frame"}
    <3>1. pending' = Idle /\ UNCHANGED <<running, control>> /\ Hangup
      BY <1>2, <2>5 DEF FailReplace
    <3>2. QED BY <2>1, <3>1, HangupCuts
  <2>6. QED BY <2>2, <2>3, <2>4, <2>5
<1>3. QED BY <1>1, <1>2

\* The control client alone.
LEMMA ControlAside ==
  ASSUME Types, RefuseAssignment \/ ControlStep \/ BreakControl
  PROVE  Aside
<1>1. control \in Controls BY DEF Types
<1>2. UNCHANGED <<memory, file, pending, running, closing, socket, bridge, turn, submitted>>
  BY DEF RefuseAssignment, ControlStep, BreakControl, ConnectControl, RejectControl, DisconnectControl,
         QueueAssign, runnerVars, piVars
<1>3. /\ <<>> \in Seq(Assignments)
      /\ \A id \in Assignments : <<id>> \in Seq(Assignments)
      /\ control.sent # <<>> => Tail(control.sent) \in Seq(Assignments)
  <2>1. control.sent \in Seq(Assignments) BY <1>1 DEF Controls
  <2>2. QED BY <2>1
<1>4. control' \in Controls
  <2>1. CASE RefuseAssignment
    BY <1>1, <1>3, <2>1 DEF RefuseAssignment, NextSent, Served, Controls
  <2>2. CASE ConnectControl BY <1>1, <1>3, <2>2 DEF ConnectControl, Controls
  <2>3. CASE RejectControl BY <1>1, <1>3, <2>3 DEF RejectControl, Controls
  <2>4. CASE DisconnectControl BY <1>1, <2>4 DEF DisconnectControl, Controls
  <2>5. CASE \E id \in Assignments : QueueAssign(id)
    BY <1>1, <1>3, <2>5 DEF QueueAssign, Controls
  <2>6. CASE BreakControl
    BY <1>1, <1>3, <2>6 DEF BreakControl, ControlDown, Controls
  <2>7. QED BY <2>1, <2>2, <2>3, <2>4, <2>5, <2>6 DEF ControlStep
<1>5. QED BY <1>2, <1>4 DEF Aside

\* The frames that the runner takes.
LEMMA RunnerHandles ==
  ASSUME Types, HandleAssignmentAck \/ HandleCoveredEvent \/ HandleEvent \/ HandleSnapshot
  PROVE  Handles
<1>1. PICK f : f = Head(socket.toRunner) OBVIOUS
<1>2. memory \in Memories /\ socket.toRunner \in Seq(BridgeFrames)
  BY DEF Types, RunnerTypes, WireTypes, Sockets
<1>3. ~Known(memory, NoAssignment)
  BY <1>2, LatestKnown, BoundsAssumption DEF Ids
<1>4. /\ running /\ pending = Idle /\ socket.up /\ socket.toRunner # <<>>
      /\ f.kind \in {"assignment_ack", "event", "state_snapshot"} /\ socket' = Consume
      /\ UNCHANGED <<file, running, closing, bridge, control, turn, submitted>>
  BY <1>1 DEF HandleAssignmentAck, HandleCoveredEvent, HandleEvent, HandleSnapshot, NextFrame, Free,
              Begin, runnerVars, piVars
<1>5. f \in BridgeFrames BY <1>1, <1>2, <1>4, QueueRead
<1>6. Touched(memory, memory') /\ pending' \in {Idle, [kind |-> "frame"]}
      /\ (Carries(f, memory) => memory'.mode = "manual_takeover")
  <2>1. CASE HandleAssignmentAck
    <3>1. f.kind = "assignment_ack"
          /\ memory' = SetAck(AckRecorded(memory, f), f.id, f.status) /\ pending' = [kind |-> "frame"]
      BY <1>1, <2>1 DEF HandleAssignmentAck, NextFrame, Begin
    <3>2. Touched(memory, memory') BY <1>2, <1>5, <3>1, BridgeFrameKinds, AckTouches
    <3>3. QED BY <3>1, <3>2 DEF Carries
  <2>2. CASE HandleCoveredEvent
    <3>1. f.kind = "event" /\ ~ForOtherAssignment(memory, f.id) /\ f.covered
          /\ memory' = memory /\ pending' = pending
      BY <1>1, <2>2 DEF HandleCoveredEvent, NextFrame, runnerVars
    <3>2. QED BY <1>2, <1>3, <1>4, <3>1, Untouched DEF Carries, ForOtherAssignment
  <2>3. CASE HandleEvent
    <3>1. f.kind = "event" /\ ~ForOtherAssignment(memory, f.id)
          /\ memory' = Applied(memory, f.type) /\ pending' = [kind |-> "frame"]
      BY <1>1, <2>3 DEF HandleEvent, NextFrame, Begin
    <3>2. QED BY <1>2, <1>3, <3>1, AppliedTouches DEF Carries, ForOtherAssignment
  <2>4. CASE HandleSnapshot
    <3>1. f.kind = "state_snapshot"
          /\ memory' = SnapshotRecorded(memory, f) /\ pending' = [kind |-> "frame"]
      BY <1>1, <2>4 DEF HandleSnapshot, NextFrame, Begin
    <3>2. QED BY <1>2, <3>1, SnapshotTouches DEF Carries
  <2>5. QED BY <2>1, <2>2, <2>3, <2>4
<1>7. QED BY <1>1, <1>4, <1>6 DEF Handles

\* The replacement of the state file.
LEMMA ReplaceEnds ==
  ASSUME Types, SessionBound, Replace
  PROVE  Settles \/ Greets \/ Dispatches
<1>1. /\ running /\ file' = memory
      /\ FinishAccept \/ FinishLateAccept \/ FinishIssue \/ FinishOther
      /\ UNCHANGED <<running, bridge, control, turn, submitted>>
  BY DEF Replace, Replaced, piVars
<1>2. memory \in Memories /\ closing \in BOOLEAN BY DEF Types, RunnerTypes
<1>3. CASE FinishAccept
  BY <1>1, <1>3 DEF FinishAccept, Greets, Sends
<1>4. CASE FinishIssue
  <2>1. pending.kind = "issue" /\ closing' = closing BY <1>4 DEF FinishIssue
  <2>2. CASE ~pending.linked
    <3>1. pending' = Idle /\ UNCHANGED <<memory, socket>> BY <1>4, <2>2 DEF FinishIssue
    <3>2. QED BY <1>1, <1>2, <2>1, <3>1, Untouched DEF Settles
  <2>3. CASE pending.linked /\ socket.registered
    <3>1. PICK frames : frames = <<[kind |-> "assignment", id |-> pending.id]>> OBVIOUS
    <3>2. pending' = Idle /\ memory' = memory /\ socket' = Deliver(frames)
      BY <1>4, <2>3, <3>1 DEF FinishIssue
    <3>3. PICK q : q = socket.toBridge \o frames OBVIOUS
    <3>4. Deliver(frames) = [socket EXCEPT !.toBridge = q] BY <3>3 DEF Deliver
    <3>5. socket \in Sockets BY DEF Types, WireTypes
    <3>6. [socket EXCEPT !.toBridge = q] = [[socket EXCEPT !.toBridge = q] EXCEPT !.registered = TRUE]
      BY <2>3, <3>5 DEF Sockets
    <3>7. socket' = [Deliver(frames) EXCEPT !.registered = TRUE] BY <3>2, <3>4, <3>6
    <3>8. QED BY <1>1, <2>1, <2>3, <3>1, <3>2, <3>7 DEF Dispatches, Sends
  <2>4. CASE pending.linked /\ ~socket.registered
    <3>1. memory' = SetState(memory, pending.id, "needs_reconciliation")
          /\ pending' = [kind |-> "record"] /\ socket' = socket
      BY <1>4, <2>4 DEF FinishIssue
    <3>2. Touched(memory, memory') BY <1>2, <3>1, SetStateTouches DEF AssignmentStates
    <3>3. QED BY <1>1, <1>2, <2>1, <3>1, <3>2 DEF Settles
  <2>5. QED BY <2>2, <2>3, <2>4
<1>5. CASE FinishOther
  <2>1. pending' = Idle /\ UNCHANGED <<memory, socket, closing>> BY <1>5 DEF FinishOther
  <2>2. QED BY <1>1, <1>2, <2>1, Untouched DEF Settles
<1>6. CASE FinishLateAccept
  <2>1. pending.kind = "late_accept" /\ pending' = Idle /\ closing' = TRUE /\ UNCHANGED <<memory, socket>>
    BY <1>6 DEF FinishLateAccept
  <2>2. QED BY <1>1, <1>2, <2>1, Untouched DEF Settles
<1>7. QED BY <1>1, <1>3, <1>4, <1>5, <1>6

\* Every step is one of these.
Speaks == ReceiveHelloAck \/ ReceiveRunnerSnapshot \/ RefuseWork \/ AcceptWork
Acts == SubmitInput \/ AgentStart \/ AgentSettled
\* The classes above cover the next-state relation.
LEMMA StepKinds ==
  ASSUME Types, Bounded, Greeted, SessionBound, [Next]_vars
  PROVE  \/ Cuts \/ Aside \/ Handles \/ Settles \/ Greets \/ Dispatches
         \/ Connect \/ AcceptBridge \/ Disconnect \/ StartRunner \/ RestartPi \/ Speaks \/ Acts
         \/ \E id \in Assignments : IssueAssignment(id)
<1>1. CASE RunnerStep
  BY <1>1, RefusalsCut, RunnerHandles, ReplaceEnds, ControlAside DEF RunnerStep
<1>2. CASE BridgeStep BY <1>2 DEF BridgeStep, Speaks, Acts
<1>3. CASE ControlStep BY <1>3, ControlAside
<1>4. CASE FaultStep BY <1>4, RefusalsCut, ControlAside, FailuresCut DEF FaultStep
<1>5. CASE UNCHANGED vars BY <1>5 DEF vars, Aside, Types
<1>6. QED BY <1>1, <1>2, <1>3, <1>4, <1>5 DEF Next, Acts

\* An accepted hello: memory names its session, and the greeting waits for the
\* replacement.
Accepts ==
  /\ running /\ pending = Idle /\ socket.up /\ socket.toRunner # <<>> /\ socket' = Consume
  /\ ~memory.connected /\ memory.session \in {0, bridge.session}
  /\ memory' \in Memories /\ memory'.connected /\ memory'.session = bridge.session
  /\ memory'.mode = memory.mode /\ memory'.assignments = memory.assignments
  /\ pending'.kind = "accept" /\ pending'.frames \in Seq(RunnerFrames) /\ pending' \in Operations
  /\ Greeting(pending'.frames) /\ Welcome(pending'.frames)
  /\ \A f \in ToSet(pending'.frames) :
       /\ f.kind = "runner_snapshot" => f.assignment = Summary(memory)
       /\ NameOf(f) \in {NoAssignment, Latest(memory).id}
  /\ UNCHANGED <<file, running, closing, bridge, control, turn, submitted>>

\* acceptBridge makes the greeting that Accepts describes.
LEMMA Accepting ==
  ASSUME Types, SessionBound, AcceptBridge PROVE Accepts
<1>1. PICK hello : hello = Head(socket.toRunner) OBVIOUS
<1>2. PICK m : m = Registered(memory, hello) OBVIOUS
<1>3. /\ running /\ pending = Idle /\ socket.up /\ socket.toRunner # <<>> /\ socket' = Consume
      /\ hello.kind = "hello" /\ ~memory.connected
      /\ UNCHANGED <<file, running, closing, bridge, control, turn, submitted>>
  BY <1>1 DEF AcceptBridge, NextFrame, Free, Begin, piVars
<1>4. PICK h : h = [kind |-> "hello_ack"] OBVIOUS
<1>5. PICK s : s = [kind |-> "runner_snapshot", assignment |-> Summary(m), mode |-> m.mode] OBVIOUS
<1>6. PICK a : a = [kind |-> "assignment", id |-> Latest(m).id] OBVIOUS
<1>7. PICK resend : resend = IF Latest(m).state \in RunnerActive THEN <<a>> ELSE <<>> OBVIOUS
<1>8. PICK frames : frames = <<h>> \o <<s>> \o resend OBVIOUS
<1>9. /\ memory.session \in {0, hello.session} /\ memory' = m
      /\ pending' = [kind |-> "accept", frames |-> frames]
  BY <1>1, <1>2, <1>4, <1>5, <1>6, <1>7, <1>8 DEF AcceptBridge, SameIdentity, Begin
<1>10. memory \in Memories /\ bridge \in Bridges /\ socket.toRunner \in Seq(BridgeFrames)
  BY DEF Types, RunnerTypes, WireTypes, Sockets
<1>11. hello \in Hellos /\ hello \in ToSet(socket.toRunner)
  BY <1>1, <1>3, <1>10, QueueRead, BridgeFrameKinds
<1>12. hello.session = bridge.session /\ hello.session \in Sessions
  BY <1>3, <1>11 DEF SessionBound, Hellos
<1>13. /\ m \in Memories /\ m.connected /\ m.session = bridge.session
       /\ m.mode = memory.mode /\ m.assignments = memory.assignments
  <2>1. m = [memory EXCEPT !.connected = TRUE, !.session = hello.session] BY <1>2 DEF Registered
  <2>2. hello.session \in 0 .. MaxPiStarts BY <1>12 DEF Sessions
  <2>3. QED BY <1>10, <1>12, <2>1, <2>2 DEF Memories
<1>14. Latest(m) = Latest(memory) /\ Summary(m) = Summary(memory) BY <1>13 DEF Latest, Summary
<1>15. h \in RunnerFrames /\ h.kind = "hello_ack" BY <1>4 DEF RunnerFrames, HelloAcks
<1>16. s \in RunnerFrames /\ s.kind = "runner_snapshot" /\ s.assignment = Summary(m)
  <2>1. Summary(m) \in AssignmentSummary /\ m.mode \in Modes BY <1>13, LatestKnown DEF Memories
  <2>2. QED BY <1>5, <2>1 DEF RunnerFrames, RunnerSnapshots
<1>17. Latest(m).state \in RunnerActive => a \in RunnerFrames
  <2>1. ASSUME Latest(m).state \in RunnerActive PROVE Latest(m).id \in Ids
    <3>1. Summary(m) \in AssignmentSummary /\ Summary(m).state \in RunnerActive
      BY <1>13, <2>1, LatestKnown DEF Summary
    <3>2. Summary(m).id \in Ids BY <3>1 DEF AssignmentSummary, None, RunnerActive
    <3>3. QED BY <3>2 DEF Summary
  <2>2. QED BY <1>6, <2>1 DEF RunnerFrames, AssignmentFrames
<1>18. a.kind = "assignment" /\ a.id = Latest(m).id BY <1>6
<1>19. NameOf(h) = NoAssignment /\ NameOf(s) = Latest(m).id /\ NameOf(a) = Latest(m).id
  BY <1>15, <1>16, <1>18 DEF NameOf, Summary
<1>20. /\ frames \in Seq(RunnerFrames) /\ Greeting(frames) /\ Welcome(frames)
       /\ \A f \in ToSet(frames) : f = h \/ f = s \/ f = a
  <2>1. PICK x, y, u : x = <<h>> /\ y = <<s>> /\ u = x \o y OBVIOUS
  <2>2. x \in Seq(RunnerFrames) /\ y \in Seq(RunnerFrames) /\ resend \in Seq(RunnerFrames)
    <3>1. <<h>> \in Seq(RunnerFrames) /\ <<s>> \in Seq(RunnerFrames) BY <1>15, <1>16
    <3>2. a \in RunnerFrames => <<a>> \in Seq(RunnerFrames) OBVIOUS
    <3>3. <<>> \in Seq(RunnerFrames) OBVIOUS
    <3>4. QED BY <1>7, <1>17, <2>1, <3>1, <3>2, <3>3
  <2>3. Len(x) = 1 /\ x[1] = h /\ Len(y) = 1 /\ y[1] = s BY <2>1
  <2>4. u \in Seq(RunnerFrames) /\ Len(u) = 2 /\ u[1] = h /\ u[2] = s
    BY <2>1, <2>2, <2>3, ConcatProperties
  <2>5. frames = u \o resend BY <1>8, <2>1
  <2>6. (resend = <<>> /\ Len(resend) = 0) \/ (resend = <<a>> /\ Len(resend) = 1 /\ resend[1] = a)
    BY <1>7
  <2>7. /\ frames \in Seq(RunnerFrames) /\ Len(frames) \in {2, 3} /\ frames[1] = h /\ frames[2] = s
        /\ Len(frames) = 3 => frames[3] = a
    <3>1. u \in Seq(RunnerFrames) BY <2>4
    <3>2. /\ frames \in Seq(RunnerFrames) /\ Len(frames) = Len(u) + Len(resend)
          /\ \A i \in 1 .. Len(u) : frames[i] = u[i]
          /\ \A i \in 1 .. Len(resend) : frames[Len(u) + i] = resend[i]
      BY <2>2, <2>5, <3>1, ConcatProperties
    <3>3. frames[1] = u[1] /\ frames[2] = u[2] BY <2>4, <3>2
    <3>4. Len(resend) = 1 => frames[3] = resend[1] BY <2>4, <3>2
    <3>5. QED BY <2>4, <2>6, <3>2, <3>3, <3>4
  <2>8. DOMAIN frames \in {{1, 2}, {1, 2, 3}} /\ (3 \in DOMAIN frames => frames[3] = a)
    BY <2>7
  <2>9. Greeting(frames) BY <1>15, <1>16, <1>18, <2>7, <2>8 DEF Greeting
  <2>10. Welcome(frames) BY <1>15, <1>16, <2>7 DEF Welcome
  <2>11. \A f \in ToSet(frames) : f = h \/ f = s \/ f = a BY <2>7, <2>8 DEF ToSet
  <2>12. QED BY <2>7, <2>9, <2>10, <2>11
<1>21. PICK p : p = [kind |-> "accept", frames |-> frames] OBVIOUS
<1>22. p.kind = "accept" /\ p.frames = frames /\ p \in Operations BY <1>20, <1>21 DEF Operations
<1>23. pending'.kind = "accept" /\ pending'.frames = frames /\ pending' \in Operations
  BY <1>9, <1>21, <1>22
<1>24. \A f \in ToSet(frames) :
         /\ f.kind = "runner_snapshot" => f.assignment = Summary(memory)
         /\ NameOf(f) \in {NoAssignment, Latest(memory).id}
  BY <1>14, <1>15, <1>16, <1>18, <1>19, <1>20
<1>25. Greeting(pending'.frames) /\ Welcome(pending'.frames) /\ pending'.frames \in Seq(RunnerFrames)
  BY <1>20, <1>23
<1>26. QED BY <1>3, <1>9, <1>12, <1>13, <1>23, <1>24, <1>25 DEF Accepts

\* A new assignment waits for the replacement of the file that knows it.
Issues(id) ==
  /\ running /\ pending = Idle /\ id \in Ids /\ ~Known(memory, id)
  /\ memory' = Intended(memory, id)
  /\ pending' \in Operations /\ pending'.kind = "issue" /\ pending'.id = id
  /\ control' \in Controls
  /\ UNCHANGED <<file, running, closing, socket, bridge, turn, submitted>>

\* issueAssignment makes the intent that Issues describes.
LEMMA Issuing ==
  ASSUME Types, NEW id \in Assignments, IssueAssignment(id) PROVE Issues(id)
<1>1. PICK p : p = [kind |-> "issue", id |-> id, linked |-> memory.connected] OBVIOUS
<1>2. id \in Ids /\ memory.connected \in BOOLEAN BY DEF Ids, Types, RunnerTypes, Memories
<1>3. p \in Operations /\ p.kind = "issue" /\ p.id = id BY <1>1, <1>2 DEF Operations
<1>4. control' \in Controls
  <2>1. control \in Controls BY DEF Types
  <2>2. control.sent # <<>> => Tail(control.sent) \in Seq(Assignments) BY <2>1 DEF Controls
  <2>3. control' = control \/ (control.sent # <<>> /\ control' = [control EXCEPT !.sent = Tail(control.sent)])
    BY DEF IssueAssignment, Requested, NextSent, Served
  <2>4. QED BY <2>1, <2>2, <2>3 DEF Controls
<1>5. running /\ pending = Idle /\ ~Known(memory, id) /\ memory' = Intended(memory, id) /\ pending' = p
  BY <1>1 DEF IssueAssignment, Free, Issuable, Begin, Intended
<1>6. UNCHANGED <<file, running, closing, socket, bridge, turn, submitted>>
  BY DEF IssueAssignment, Begin, piVars
<1>7. QED BY <1>2, <1>3, <1>4, <1>5, <1>6 DEF Issues

\* The runner reads a frame.
LEMMA Consuming ==
  ASSUME socket \in Sockets, socket.toRunner # <<>>, socket' = Consume
  PROVE  /\ socket' \in Sockets /\ socket'.up = socket.up /\ socket'.registered = socket.registered
         /\ socket'.toBridge = socket.toBridge
         /\ ToSet(socket.toRunner) = {Head(socket.toRunner)} \cup ToSet(socket'.toRunner)
         /\ Head(socket.toRunner) \in BridgeFrames
<1>1. PICK q : q = Tail(socket.toRunner) OBVIOUS
<1>2. socket.toRunner \in Seq(BridgeFrames) BY DEF Sockets
<1>3. /\ q \in Seq(BridgeFrames) /\ Head(socket.toRunner) \in BridgeFrames
      /\ ToSet(socket.toRunner) = {Head(socket.toRunner)} \cup ToSet(q)
  BY <1>1, <1>2, QueueRead
<1>4. socket' = [socket EXCEPT !.toRunner = q] BY <1>1 DEF Consume
<1>5. QED BY <1>3, <1>4 DEF Sockets

\* The runner writes frames.
LEMMA Delivering ==
  ASSUME socket \in Sockets, NEW frames \in Seq(RunnerFrames), Sends(frames, TRUE)
  PROVE  /\ socket' \in Sockets /\ socket'.up = socket.up /\ socket'.registered
         /\ socket'.toRunner = socket.toRunner
         /\ socket'.toBridge = socket.toBridge \o frames
         /\ ToSet(socket'.toBridge) = ToSet(socket.toBridge) \cup ToSet(frames)
<1>1. PICK q : q = socket.toBridge \o frames OBVIOUS
<1>2. socket.toBridge \in Seq(RunnerFrames) BY DEF Sockets
<1>3. q \in Seq(RunnerFrames) BY <1>1, <1>2
<1>4. ToSet(q) = ToSet(socket.toBridge) \cup ToSet(frames) BY <1>1, <1>2, QueueFlushed
<1>5. socket' = [[socket EXCEPT !.toBridge = q] EXCEPT !.registered = TRUE]
  BY <1>1 DEF Sends, Deliver
<1>6. socket' \in Sockets /\ socket'.up = socket.up /\ socket'.registered
      /\ socket'.toRunner = socket.toRunner /\ socket'.toBridge = q
  BY <1>3, <1>5 DEF Sockets
<1>7. QED BY <1>1, <1>4, <1>6

\* What the runner sends at the end of a replacement.
LEMMA SendsFrames ==
  ASSUME pending \in Operations, Greets \/ Dispatches
  PROVE  \E frames \in Seq(RunnerFrames) :
           /\ Sends(frames, TRUE)
           /\ IF pending.kind = "accept" THEN frames = pending.frames
              ELSE /\ pending.kind = "issue" /\ socket.registered
                   /\ \E f : f.kind = "assignment" /\ f.id = pending.id /\ frames = <<f>>
<1>1. CASE Greets
  <2>1. pending.frames \in Seq(RunnerFrames) BY <1>1 DEF Greets, Operations, Idle
  <2>2. QED BY <1>1, <2>1 DEF Greets
<1>2. CASE Dispatches
  <2>1. pending.id \in Ids BY <1>2 DEF Dispatches, Operations, Idle
  <2>2. PICK f : f = [kind |-> "assignment", id |-> pending.id] OBVIOUS
  <2>3. f \in RunnerFrames /\ f.kind = "assignment" /\ f.id = pending.id
    BY <2>1, <2>2 DEF RunnerFrames, AssignmentFrames
  <2>4. PICK frames : frames = <<f>> OBVIOUS
  <2>5. frames \in Seq(RunnerFrames) BY <2>3, <2>4
  <2>6. Sends(frames, TRUE) BY <1>2, <2>2, <2>4 DEF Dispatches
  <2>7. QED BY <1>2, <2>3, <2>4, <2>5, <2>6 DEF Dispatches
<1>3. QED BY <1>1, <1>2

\* What the hello covers keeps its kind.
LEMMA CoveredFrame ==
  ASSUME NEW f \in BridgeFrames
  PROVE  [f EXCEPT !.covered = TRUE] \in BridgeFrames /\ [f EXCEPT !.covered = TRUE].kind = f.kind
<1>1. PICK g : g = [f EXCEPT !.covered = TRUE] OBVIOUS
<1>2. CASE f \in Hellos BY <1>1, <1>2 DEF Hellos, BridgeFrames
<1>3. CASE f \in Acks BY <1>1, <1>3 DEF Acks, BridgeFrames
<1>4. CASE f \in Events BY <1>1, <1>4 DEF Events, BridgeFrames
<1>5. CASE f \in StateSnapshots BY <1>1, <1>5 DEF StateSnapshots, BridgeFrames
<1>6. QED BY <1>2, <1>3, <1>4, <1>5 DEF BridgeFrames

\* A connection starts with the hello, which covers the queue.
LEMMA Connecting ==
  ASSUME WireTypes, Connect
  PROVE  /\ bridge' \in Bridges /\ bridge'.client = "connecting"
         /\ bridge'.session = bridge.session /\ bridge'.mode = bridge.mode
         /\ bridge'.assignment = bridge.assignment /\ bridge'.seen = bridge.seen
         /\ Len(bridge'.queue) = Len(bridge.queue)
         /\ \A f \in ToSet(bridge'.queue) : \E g \in ToSet(bridge.queue) : f.kind = g.kind
         /\ socket' \in Sockets /\ socket'.up /\ ~socket'.registered /\ socket'.toBridge = <<>>
         /\ ToSet(socket'.toRunner) = {[kind |-> "hello", session |-> bridge.session]}
<1>1. bridge \in Bridges /\ bridge.queue \in Seq(BridgeFrames) /\ bridge.session \in Sessions
  BY DEF WireTypes, Bridges
<1>2. PICK old : old = bridge.queue OBVIOUS
<1>3. PICK q : q = Covered(old) OBVIOUS
<1>4. old \in Seq(BridgeFrames) BY <1>1, <1>2
<1>5. DOMAIN q = DOMAIN old /\ \A i \in DOMAIN old : q[i] = [old[i] EXCEPT !.covered = TRUE]
  BY <1>3 DEF Covered
<1>6. \A i \in DOMAIN old : old[i] \in BridgeFrames BY <1>4
<1>7. \A i \in DOMAIN old : q[i] \in BridgeFrames /\ q[i].kind = old[i].kind
  BY <1>5, <1>6, CoveredFrame
<1>8. PICK n \in Nat : n = Len(old) BY <1>4
<1>9. DOMAIN old = 1 .. n BY <1>4, <1>8
<1>10. q \in Seq(BridgeFrames) /\ Len(q) = Len(old)
  <2>1. q \in [1 .. n -> BridgeFrames]
    <3>1. q = [i \in DOMAIN old |-> [old[i] EXCEPT !.covered = TRUE]] BY <1>3 DEF Covered
    <3>2. QED BY <1>5, <1>7, <1>9, <3>1
  <2>2. q \in Seq(BridgeFrames) BY <2>1, SeqDef
  <2>3. Len(q) = n BY <1>5, <1>9, <2>2
  <2>4. QED BY <1>8, <2>2, <2>3
<1>11. \A f \in ToSet(q) : \E g \in ToSet(old) : f.kind = g.kind
  <2>1. ASSUME NEW f \in ToSet(q) PROVE \E g \in ToSet(old) : f.kind = g.kind
    <3>1. PICK i \in DOMAIN old : f = q[i] BY <1>5 DEF ToSet
    <3>2. old[i] \in ToSet(old) BY DEF ToSet
    <3>3. QED BY <1>7, <3>1, <3>2
  <2>2. QED BY <2>1
<1>12. bridge' = [bridge EXCEPT !.client = "connecting", !.queue = q] BY <1>2, <1>3 DEF Connect
<1>13. /\ bridge' \in Bridges /\ bridge'.client = "connecting" /\ bridge'.queue = q
       /\ bridge'.session = bridge.session /\ bridge'.mode = bridge.mode
       /\ bridge'.assignment = bridge.assignment /\ bridge'.seen = bridge.seen
  BY <1>1, <1>10, <1>12 DEF Bridges
<1>14. PICK h : h = [kind |-> "hello", session |-> bridge.session] OBVIOUS
<1>15. h \in BridgeFrames BY <1>1, <1>14 DEF BridgeFrames, Hellos
<1>16. PICK s : s = <<h>> OBVIOUS
<1>17. s \in Seq(BridgeFrames) /\ ToSet(s) = {h}
  <2>1. s \in Seq(BridgeFrames) BY <1>15, <1>16
  <2>2. DOMAIN s = {1} /\ s[1] = h BY <1>16
  <2>3. QED BY <2>1, <2>2 DEF ToSet
<1>18. socket' = [NoSocket EXCEPT !.up = TRUE, !.toRunner = s] BY <1>14, <1>16 DEF Connect
<1>19. /\ socket' \in Sockets /\ socket'.up /\ ~socket'.registered /\ socket'.toBridge = <<>>
       /\ socket'.toRunner = s
  BY <1>17, <1>18, SocketGone DEF Sockets
<1>20. QED BY <1>2, <1>10, <1>11, <1>13, <1>14, <1>17, <1>19

\* A new Pi.
LEMMA Restarting ==
  ASSUME WireTypes, RestartPi
  PROVE  /\ bridge' \in Bridges /\ bridge'.session = bridge.session + 1
         /\ bridge'.client = "disconnected" /\ bridge'.mode = "managed"
         /\ bridge'.assignment.id = NoAssignment /\ bridge'.seen = {} /\ bridge'.queue = <<>>
         /\ socket' = NoSocket
<1>1. bridge.session \in Sessions /\ bridge.session < MaxPiStarts BY DEF WireTypes, Bridges, RestartPi
<1>2. bridge.session + 1 \in Sessions BY <1>1, BoundsAssumption DEF Sessions
<1>3. None \in AssignmentSummary /\ None.id = NoAssignment BY DEF AssignmentSummary, None
<1>4. <<>> \in Seq(BridgeFrames) OBVIOUS
<1>5. bridge' = NewBridge(bridge.session + 1) BY DEF RestartPi
<1>6. QED BY <1>2, <1>3, <1>4, <1>5 DEF RestartPi, NewBridge, Bridges, Modes

-----------------------------------------------------------------------------
(* The invariant is kept. *)

\* Handlers of the bridge leave the runner alone.
LEMMA BridgeAlone ==
  ASSUME Speaks \/ Acts PROVE UNCHANGED <<memory, file, pending, running, closing, control>>
  BY DEF Speaks, Acts, ReceiveHelloAck, ReceiveRunnerSnapshot, RefuseWork, AcceptWork, SubmitInput,
         AgentStart, AgentSettled, Received, runnerVars

\* The start and the end of a connection in memory.
LEMMA ConnectionRecorded ==
  ASSUME Types, Disconnect \/ StartRunner
  PROVE  /\ memory' \in Memories /\ file' \in Memories
         /\ ~memory'.connected
         /\ LET m == IF running THEN memory ELSE file IN
            memory'.session = m.session /\ memory'.mode = m.mode /\ memory'.assignments = m.assignments
         /\ file' = IF running THEN file ELSE memory'
         /\ pending' = (IF running THEN [kind |-> "disconnect"] ELSE pending) /\ pending' \in Operations
         /\ running' = TRUE /\ closing' = (IF running THEN FALSE ELSE closing)
         /\ UNCHANGED <<socket, bridge, control, turn, submitted>>
<1>1. memory \in Memories /\ file \in Memories /\ pending \in Operations
  BY DEF Types, RunnerTypes
<1>2. CASE Disconnect
  <2>1. running /\ memory' = [memory EXCEPT !.connected = FALSE] /\ pending' = [kind |-> "disconnect"]
        /\ closing' = FALSE /\ UNCHANGED <<file, running, socket, bridge, control, turn, submitted>>
    BY <1>2 DEF Disconnect, Free, Begin, piVars
  <2>2. PICK m : m = [memory EXCEPT !.connected = FALSE] OBVIOUS
  <2>3. m \in Memories /\ ~m.connected /\ m.session = memory.session /\ m.mode = memory.mode
        /\ m.assignments = memory.assignments
    BY <1>1, <2>2 DEF Memories
  <2>4. [kind |-> "disconnect"] \in Operations BY DEF Operations
  <2>5. QED BY <1>1, <2>1, <2>2, <2>3, <2>4
<1>3. CASE StartRunner
  <2>1. ~running /\ memory' = [file EXCEPT !.connected = FALSE] /\ file' = memory' /\ running' = TRUE
        /\ UNCHANGED <<pending, closing, socket, bridge, control, turn, submitted>>
    BY <1>3 DEF StartRunner, Restored, piVars
  <2>2. PICK m : m = [file EXCEPT !.connected = FALSE] OBVIOUS
  <2>3. m \in Memories /\ ~m.connected /\ m.session = file.session /\ m.mode = file.mode
        /\ m.assignments = file.assignments
    BY <1>1, <2>2 DEF Memories
  <2>4. QED BY <1>1, <2>1, <2>2, <2>3
<1>4. QED BY <1>2, <1>3

\* Types, distinct identities and the bound of the queue.
LEMMA TypesKept ==
  ASSUME RunnerInv, [Next]_vars PROVE Types' /\ Bounded'
<1>1. Types /\ Bounded /\ Greeted /\ SessionBound BY DEF RunnerInv
<1>2. /\ memory \in Memories /\ file \in Memories /\ pending \in Operations
      /\ running \in BOOLEAN /\ closing \in BOOLEAN /\ socket \in Sockets /\ bridge \in Bridges
      /\ turn \in Turns /\ submitted \in [Ids -> Nat] /\ control \in Controls
  BY <1>1 DEF Types, RunnerTypes, WireTypes, PiTypes
<1>3. /\ Distinct(memory) /\ Distinct(file) /\ (pending # Idle => running)
      /\ Len(bridge.queue) <= MaxPending
  BY <1>1 DEF Bounded
<1>4. Idle \in Operations /\ [kind |-> "frame"] \in Operations /\ [kind |-> "record"] \in Operations
      /\ Orphaned \in Operations /\ (Orphaned # Idle => pending # Idle)
  BY <1>2, Orphans DEF Operations
<1> DEFINE Goal ==
      /\ memory' \in Memories /\ file' \in Memories /\ pending' \in Operations
      /\ running' \in BOOLEAN /\ closing' \in BOOLEAN /\ socket' \in Sockets /\ bridge' \in Bridges
      /\ turn' \in Turns /\ submitted' \in [Ids -> Nat] /\ control' \in Controls
      /\ Distinct(memory') /\ Distinct(file') /\ (pending' # Idle => running')
      /\ Len(bridge'.queue) <= MaxPending
<1>5. SUFFICES Goal
  BY DEF Goal, Types, RunnerTypes, WireTypes, PiTypes, Bounded, Distinct
<1>6. CASE Cuts BY <1>2, <1>3, <1>4, <1>6, SocketGone DEF Cuts
<1>7. CASE Aside BY <1>2, <1>3, <1>4, <1>7 DEF Aside
<1>8. CASE Handles
  <2>1. socket' \in Sockets BY <1>2, <1>8, Consuming DEF Handles
  <2>2. memory' \in Memories /\ Distinct(memory')
    BY <1>2, <1>3, <1>8, TouchedKnows DEF Handles, Touched
  <2>3. QED BY <1>2, <1>3, <1>4, <1>8, <2>1, <2>2 DEF Handles
<1>9. CASE Settles
  <2>1. memory' \in Memories /\ Distinct(memory')
    BY <1>2, <1>3, <1>9, TouchedKnows DEF Settles, Touched
  <2>2. QED BY <1>2, <1>3, <1>4, <1>9, <2>1 DEF Settles
<1>10. CASE Greets \/ Dispatches
  <2>1. PICK frames : frames \in Seq(RunnerFrames) /\ Sends(frames, TRUE)
    BY <1>2, <1>10, SendsFrames
  <2>2. socket' \in Sockets BY <1>2, <2>1, Delivering
  <2>3. QED BY <1>2, <1>3, <1>4, <2>1, <2>2 DEF Sends
<1>11. CASE Connect
  <2>1. bridge' \in Bridges /\ socket' \in Sockets /\ Len(bridge'.queue) = Len(bridge.queue)
    BY <1>1, <1>11, Connecting DEF Types
  <2>2. UNCHANGED <<memory, file, pending, running, closing, turn, submitted, control>>
    BY <1>11 DEF Connect, runnerVars, piVars
  <2>3. QED BY <1>2, <1>3, <2>1, <2>2
<1>12. CASE AcceptBridge
  <2>1. Accepts BY <1>1, <1>12, Accepting
  <2>2. socket' \in Sockets BY <1>2, <2>1, Consuming DEF Accepts
  <2>3. Distinct(memory') BY <1>3, <2>1 DEF Accepts, Distinct
  <2>4. QED BY <1>2, <1>3, <2>1, <2>2, <2>3 DEF Accepts
<1>13. CASE Disconnect \/ StartRunner
  <2>1. /\ memory' \in Memories /\ file' \in Memories
        /\ memory'.assignments \in {memory.assignments, file.assignments}
        /\ file' = IF running THEN file ELSE memory'
        /\ pending' \in Operations /\ running' = TRUE /\ closing' \in {FALSE, closing}
        /\ UNCHANGED <<socket, bridge, control, turn, submitted>>
    BY <1>1, <1>13, ConnectionRecorded
  <2>2. Distinct(memory') /\ Distinct(file') BY <1>3, <2>1 DEF Distinct
  <2>3. QED BY <1>2, <1>3, <2>1, <2>2
<1>14. CASE RestartPi
  <2>1. bridge' \in Bridges /\ bridge'.queue = <<>> /\ socket' \in Sockets
    BY <1>1, <1>14, Restarting, SocketGone DEF Types
  <2>2. closing' \in BOOLEAN BY <1>2, <1>14 DEF RestartPi, Sockets
  <2>3. turn' \in Turns BY <1>14 DEF RestartPi, NoTurn, Turns
  <2>4. pending' = Orphaned /\ UNCHANGED <<memory, file, running, control, submitted>>
    BY <1>14 DEF RestartPi
  <2>5. Len(bridge'.queue) <= MaxPending BY <2>1, BoundsAssumption
  <2>6. QED BY <1>2, <1>3, <1>4, <2>1, <2>2, <2>3, <2>4, <2>5
<1>15. CASE Speaks \/ Acts
  <2>1. BridgeReady BY <1>1, <1>3 DEF BridgeReady, Types
  <2>2. UNCHANGED <<memory, file, pending, running, closing, control>> BY <1>15, BridgeAlone
  <2>3. \E frames : Writes(frames)
    BY <1>15, <2>1, HelloAckWrites, SnapshotWrites, AssignmentWrites, PiWrites DEF Speaks, Acts
  <2>4. bridge' \in Bridges /\ socket' \in Sockets /\ Len(bridge'.queue) <= MaxPending
    BY <2>3 DEF Writes
  <2>5. turn' \in Turns /\ submitted' \in [Ids -> Nat]
    <3>1. CASE ReceiveHelloAck \/ ReceiveRunnerSnapshot
      BY <1>2, <3>1 DEF ReceiveHelloAck, ReceiveRunnerSnapshot, piVars
    <3>2. CASE RefuseWork \/ AcceptWork
      <4>1. turn' \in Turns /\ \/ submitted' = submitted
                               \/ \E id : id \in Ids /\ submitted' = [submitted EXCEPT ![id] = @ + 1]
        BY <2>1, <3>2, AssignmentWrites
      <4>2. QED BY <1>2, <4>1
    <3>3. CASE Acts
      BY <1>2, <2>1, <3>3, PiWrites DEF Acts, SubmitInput, AgentStart, AgentSettled
    <3>4. QED BY <1>15, <3>1, <3>2, <3>3 DEF Speaks
  <2>6. QED BY <1>2, <1>3, <2>2, <2>4, <2>5
<1>16. CASE \E id \in Assignments : IssueAssignment(id)
  <2>1. PICK id : Issues(id) BY <1>1, <1>16, Issuing
  <2>2. memory' \in Memories /\ Distinct(memory')
    BY <1>2, <1>3, <2>1, Intending DEF Issues
  <2>3. QED BY <1>2, <1>3, <2>1, <2>2 DEF Issues
<1> HIDE DEF Goal
<1>17. QED
  BY <1>1, <1>6, <1>7, <1>8, <1>9, <1>10, <1>11, <1>12, <1>13, <1>14, <1>15, <1>16, StepKinds

\* What an operation that is not a connection's or an assignment's leaves to do.
LEMMA OperationKinds ==
  /\ Idle.kind = "idle" /\ [kind |-> "frame"].kind = "frame" /\ [kind |-> "disconnect"].kind = "disconnect"
  /\ [kind |-> "record"].kind = "record" /\ Idle # [kind |-> "record"]
  /\ Idle # [kind |-> "frame"]
  /\ \A p : p.kind \in {"accept", "issue", "late_accept"} => p # Idle
  BY DEF Idle

\* What the bridge was told is in the file.
LEMMA DurableKept ==
  ASSUME RunnerInv, [Next]_vars PROVE Durable'
<1>1. /\ Types /\ Bounded /\ Greeted /\ SessionBound /\ Durable
      /\ memory \in Memories /\ file \in Memories /\ socket \in Sockets /\ bridge \in Bridges
      /\ pending \in Operations
  BY DEF RunnerInv, Types, RunnerTypes, WireTypes
<1>2. /\ \A id : Known(file, id) => Known(memory, id)
      /\ \A id \in bridge.seen : Known(file, id)
      /\ bridge.assignment.id \in bridge.seen \cup {NoAssignment}
      /\ \A f \in ToSet(socket.toBridge) : Names(f, file)
      /\ pending.kind = "accept" => \A f \in ToSet(pending.frames) : Names(f, memory)
      /\ pending.kind = "issue" => Known(memory, pending.id)
  BY <1>1, LatestKnown DEF Durable
<1> DEFINE Goal ==
      /\ \A id : Known(file', id) => Known(memory', id)
      /\ \A id \in bridge'.seen : Known(file', id)
      /\ bridge'.assignment.id \in bridge'.seen \cup {NoAssignment}
      /\ \A f \in ToSet(socket'.toBridge) : Names(f, file')
      /\ pending'.kind = "accept" => \A f \in ToSet(pending'.frames) : Names(f, memory')
      /\ pending'.kind = "issue" => Known(memory', pending'.id)
<1>3. SUFFICES Goal
  BY DEF Goal, Durable, Known, Names, NameOf, ToSet
<1>4. CASE Cuts BY <1>1, <1>2, <1>4, SocketGone, CutOperation DEF Cuts
<1>5. CASE Aside BY <1>2, <1>5, OperationKinds DEF Aside
<1>6. CASE Handles
  <2>1. socket'.toBridge = socket.toBridge BY <1>1, <1>6, Consuming DEF Handles
  <2>2. \A id : Known(memory', id) <=> Known(memory, id) BY <1>1, <1>6, TouchedKnows DEF Handles
  <2>3. QED BY <1>2, <1>6, <2>1, <2>2, OperationKinds DEF Handles
<1>7. CASE Settles
  <2>1. \A id : Known(memory', id) <=> Known(memory, id) BY <1>1, <1>7, TouchedKnows DEF Settles
  <2>2. file' = memory /\ UNCHANGED <<socket, bridge>> /\ pending'.kind \in {"idle", "record"}
    BY <1>7, OperationKinds DEF Settles
  <2>3. \A f : Names(f, file) => Names(f, memory) BY <1>2 DEF Names
  <2>4. QED BY <1>2, <2>1, <2>2, <2>3
<1>8. CASE Greets
  <2>1. pending.frames \in Seq(RunnerFrames) BY <1>1, <1>8 DEF Greets, Operations, Idle
  <2>2. ToSet(socket'.toBridge) = ToSet(socket.toBridge) \cup ToSet(pending.frames)
    BY <1>1, <1>8, <2>1, Delivering DEF Greets
  <2>3. file' = memory /\ memory' = memory /\ bridge' = bridge /\ pending'.kind = "idle"
        /\ pending.kind = "accept"
    BY <1>8, OperationKinds DEF Greets, Sends
  <2>4. \A f : Names(f, file) => Names(f, memory) BY <1>2 DEF Names
  <2>5. QED BY <1>2, <2>2, <2>3, <2>4
<1>9. CASE Dispatches
  <2>1. PICK f : f = [kind |-> "assignment", id |-> pending.id] OBVIOUS
  <2>2. pending.id \in Ids BY <1>1, <1>9 DEF Dispatches, Operations, Idle
  <2>3. f \in RunnerFrames BY <2>1, <2>2 DEF RunnerFrames, AssignmentFrames
  <2>4. PICK frames : frames = <<f>> OBVIOUS
  <2>5. frames \in Seq(RunnerFrames) /\ ToSet(frames) = {f} BY <2>3, <2>4 DEF ToSet
  <2>6. Sends(frames, TRUE) /\ pending.kind = "issue" BY <1>9, <2>1, <2>4 DEF Dispatches
  <2>7. ToSet(socket'.toBridge) = ToSet(socket.toBridge) \cup {f}
    BY <1>1, <2>5, <2>6, Delivering
  <2>8. file' = memory /\ memory' = memory /\ bridge' = bridge /\ pending'.kind = "idle"
    BY <2>6, OperationKinds DEF Sends
  <2>9. \A g : Names(g, file) => Names(g, memory) BY <1>2 DEF Names
  <2>10. Names(f, memory) BY <1>2, <2>1, <2>6 DEF Names, NameOf
  <2>11. QED BY <1>2, <2>7, <2>8, <2>9, <2>10
<1>10. CASE Connect
  <2>1. bridge'.seen = bridge.seen /\ bridge'.assignment = bridge.assignment
        /\ socket'.toBridge = <<>>
    BY <1>1, <1>10, Connecting DEF Types
  <2>2. UNCHANGED <<memory, file, pending>> BY <1>10 DEF Connect, runnerVars
  <2>3. QED BY <1>2, <2>1, <2>2, SocketGone
<1>11. CASE AcceptBridge
  <2>1. Accepts BY <1>1, <1>11, Accepting
  <2>2. socket'.toBridge = socket.toBridge BY <1>1, <2>1, Consuming DEF Accepts
  <2>3. memory'.assignments = memory.assignments /\ file' = file /\ bridge' = bridge
        /\ pending'.kind = "accept"
    BY <2>1 DEF Accepts
  <2>4. \A id : Known(memory', id) <=> Known(memory, id) BY <2>3 DEF Known
  <2>5. \A f \in ToSet(pending'.frames) : Names(f, memory)
    BY <1>1, <2>1, LatestKnown DEF Accepts, Names
  <2>6. \A f : Names(f, memory) => Names(f, memory') BY <2>4 DEF Names
  <2>7. QED BY <1>2, <2>2, <2>3, <2>4, <2>5, <2>6
<1>12. CASE Disconnect \/ StartRunner
  <2>1. /\ memory'.assignments = IF running THEN memory.assignments ELSE file.assignments
        /\ file' = IF running THEN file ELSE memory'
        /\ pending' = (IF running THEN [kind |-> "disconnect"] ELSE pending)
        /\ UNCHANGED <<socket, bridge>>
    BY <1>1, <1>12, ConnectionRecorded
  <2>2. pending'.kind \in {"idle", "disconnect"}
    BY <1>1, <2>1, OperationKinds DEF Bounded
  <2>3. \A id : Known(memory', id) <=> IF running THEN Known(memory, id) ELSE Known(file, id)
    BY <2>1 DEF Known
  <2>4. \A id : Known(file', id) <=> Known(file, id) BY <2>1, <2>3
  <2>5. \A f : Names(f, file) => Names(f, file') BY <2>4 DEF Names
  <2>6. QED BY <1>2, <2>1, <2>2, <2>3, <2>4, <2>5
<1>13. CASE RestartPi
  <2>1. bridge'.seen = {} /\ bridge'.assignment.id = NoAssignment /\ socket'.toBridge = <<>>
    BY <1>1, <1>13, Restarting, SocketGone DEF Types
  <2>2. UNCHANGED <<memory, file>> /\ pending' = Orphaned BY <1>13 DEF RestartPi
  <2>3. QED BY <1>1, <1>2, <2>1, <2>2, SocketGone, CutOperation
<1>14. CASE Speaks \/ Acts
  <2>1. BridgeReady BY <1>1 DEF BridgeReady, Types, Bounded
  <2>2. UNCHANGED <<memory, file, pending>> BY <1>14, BridgeAlone
  <2>3. CASE Speaks
    <3>1. Writes(Tail(socket.toBridge)) /\ socket.toBridge # <<>>
      BY <2>1, <2>3, HelloAckWrites, SnapshotWrites, AssignmentWrites
      DEF Speaks, ReceiveHelloAck, ReceiveRunnerSnapshot, RefuseWork, AcceptWork, NextMessage
    <3>2. ToSet(socket.toBridge) = {Head(socket.toBridge)} \cup ToSet(socket'.toBridge)
      BY <1>1, <3>1, QueueRead DEF Writes, Sockets
    <3>3. Names(Head(socket.toBridge), file) BY <1>2, <3>2
    <3>4. PICK named : named = NameOf(Head(socket.toBridge)) OBVIOUS
    <3>5. \/ bridge'.seen = bridge.seen /\ bridge'.assignment.id = bridge.assignment.id
          \/ named # NoAssignment /\ bridge'.seen = bridge.seen \cup {named}
             /\ bridge'.assignment.id = named
      <4>1. NoAssignment \notin Ids BY BoundsAssumption DEF Ids
      <4>2. CASE ReceiveHelloAck BY <2>1, <4>2, HelloAckWrites
      <4>3. CASE ReceiveRunnerSnapshot BY <2>1, <3>4, <4>3, SnapshotWrites DEF NameOf
      <4>4. CASE RefuseWork \/ AcceptWork BY <2>1, <3>4, <4>1, <4>4, AssignmentWrites DEF NameOf
      <4>5. QED BY <2>3, <4>2, <4>3, <4>4 DEF Speaks
    <3>6. named = NoAssignment \/ Known(file, named) BY <3>3, <3>4 DEF Names
    <3>7. QED BY <1>2, <2>2, <3>2, <3>5, <3>6
  <2>4. CASE Acts
    <3>1. Writes(socket.toBridge) /\ bridge'.seen = bridge.seen
          /\ bridge'.assignment.id = bridge.assignment.id
      BY <2>1, <2>4, PiWrites DEF Acts
    <3>2. QED BY <1>2, <2>2, <3>1 DEF Writes
  <2>5. QED BY <1>14, <2>3, <2>4
<1>15. CASE \E id \in Assignments : IssueAssignment(id)
  <2>1. PICK id : Issues(id) BY <1>1, <1>15, Issuing
  <2>2. \A i : Known(memory', i) <=> Known(memory, i) \/ i = id
    BY <1>1, <2>1, Intending DEF Issues, Bounded
  <2>3. QED BY <1>2, <2>1, <2>2 DEF Issues
<1> HIDE DEF Goal
<1>16. QED
  BY <1>1, <1>4, <1>5, <1>6, <1>7, <1>8, <1>9, <1>10, <1>11, <1>12, <1>13, <1>14, <1>15, StepKinds

\* What the conjuncts of SessionBound say of the next state.
LEMMA SessionBoundKept ==
  ASSUME RunnerInv, [Next]_vars PROVE SessionBound'
<1>1. /\ Types /\ Bounded /\ Greeted /\ SessionBound
      /\ memory \in Memories /\ file \in Memories /\ socket \in Sockets /\ bridge \in Bridges
      /\ pending \in Operations
  BY DEF RunnerInv, Types, RunnerTypes, WireTypes
<1>2. /\ file.session \in {0, memory.session}
      /\ socket.registered =>
           /\ socket.up /\ memory.connected
           /\ memory.session = bridge.session /\ file.session = bridge.session
      /\ socket.up => running
      /\ closing => running /\ memory.connected /\ ~socket.registered
      /\ ~socket.registered => socket.toBridge = <<>>
      /\ pending.kind = "accept" =>
           /\ memory.connected /\ socket.up /\ ~socket.registered /\ ~closing
           /\ memory.session = bridge.session
      /\ pending.kind = "late_accept" => memory.connected /\ ~socket.registered
      /\ \A f \in ToSet(socket.toRunner) : f.kind = "hello" => f.session = bridge.session
      /\ \A f \in ToSet(bridge.queue) : f.kind # "hello"
  BY <1>1 DEF SessionBound
<1> DEFINE Goal ==
      /\ file'.session \in {0, memory'.session}
      /\ socket'.registered =>
           /\ socket'.up /\ memory'.connected
           /\ memory'.session = bridge'.session /\ file'.session = bridge'.session
      /\ socket'.up => running'
      /\ closing' => running' /\ memory'.connected /\ ~socket'.registered
      /\ ~socket'.registered => socket'.toBridge = <<>>
      /\ pending'.kind = "accept" =>
           /\ memory'.connected /\ socket'.up /\ ~socket'.registered /\ ~closing'
           /\ memory'.session = bridge'.session
      /\ pending'.kind = "late_accept" => memory'.connected /\ ~socket'.registered
      /\ \A f \in ToSet(socket'.toRunner) : f.kind = "hello" => f.session = bridge'.session
      /\ \A f \in ToSet(bridge'.queue) : f.kind # "hello"
<1>3. SUFFICES Goal
  BY DEF Goal, SessionBound, ToSet
<1>4. CASE Cuts
  <2>1. /\ ~socket'.up /\ ~socket'.registered /\ ToSet(socket'.toRunner) = {}
        /\ socket'.toBridge = <<>>
    BY <1>4, SocketGone DEF Cuts
  <2>2. pending'.kind # "accept" /\ (pending'.kind = "late_accept" => memory.connected)
    BY <1>1, <1>2, <1>4, CutOperation DEF Cuts
  <2>3. /\ UNCHANGED <<memory, file>> /\ bridge'.queue = bridge.queue
        /\ (closing' => running' /\ (closing \/ socket.registered))
    BY <1>4 DEF Cuts
  <2>4. QED BY <1>2, <2>1, <2>2, <2>3
<1>5. CASE Aside BY <1>2, <1>5, OperationKinds DEF Aside
<1>6. CASE Handles
  <2>1. /\ socket'.up = socket.up /\ socket'.registered = socket.registered
        /\ socket'.toBridge = socket.toBridge
        /\ ToSet(socket'.toRunner) \subseteq ToSet(socket.toRunner)
    BY <1>1, <1>6, Consuming DEF Handles
  <2>2. memory'.session = memory.session /\ memory'.connected = memory.connected
    BY <1>6 DEF Handles, Touched
  <2>3. QED BY <1>2, <1>6, <2>1, <2>2, OperationKinds DEF Handles
<1>7. CASE Settles
  <2>1. memory'.session = memory.session /\ memory'.connected = memory.connected
    BY <1>7 DEF Settles, Touched
  <2>2. file' = memory /\ UNCHANGED <<running, socket, bridge>> /\ pending'.kind # "accept"
        /\ (closing' => closing \/ pending.kind = "late_accept")
        /\ pending'.kind # "late_accept" /\ running
    BY <1>7, OperationKinds DEF Settles
  <2>3. QED BY <1>2, <2>1, <2>2
<1>8. CASE Greets \/ Dispatches
  <2>1. PICK frames : frames \in Seq(RunnerFrames) /\ Sends(frames, TRUE)
    BY <1>1, <1>8, SendsFrames
  <2>2. /\ socket'.up = socket.up /\ socket'.registered /\ socket'.toRunner = socket.toRunner
    BY <1>1, <2>1, Delivering
  <2>3. /\ socket.up /\ memory.connected /\ memory.session = bridge.session
    BY <1>2, <1>8 DEF Greets, Dispatches
  <2>4. /\ file' = memory /\ UNCHANGED <<memory, running, closing, bridge>>
        /\ pending'.kind \notin {"accept", "late_accept"}
    BY <2>1, OperationKinds DEF Sends
  <2>5. ~closing BY <1>2, <1>8 DEF Greets, Dispatches
  <2>6. QED BY <1>2, <2>2, <2>3, <2>4, <2>5
<1>9. CASE Connect
  <2>1. /\ bridge'.session = bridge.session /\ socket'.up /\ ~socket'.registered
        /\ socket'.toBridge = <<>>
        /\ ToSet(socket'.toRunner) = {[kind |-> "hello", session |-> bridge.session]}
        /\ \A f \in ToSet(bridge'.queue) : \E g \in ToSet(bridge.queue) : f.kind = g.kind
    BY <1>1, <1>9, Connecting DEF Types
  <2>2. UNCHANGED <<memory, file, pending, running, closing>> /\ running /\ ~socket.up
    BY <1>9 DEF Connect, runnerVars
  <2>3. \A f \in ToSet(socket'.toRunner) : f.session = bridge.session BY <2>1
  <2>4. QED BY <1>2, <2>1, <2>2, <2>3
<1>10. CASE AcceptBridge
  <2>1. Accepts BY <1>1, <1>10, Accepting
  <2>2. /\ socket'.up = socket.up /\ socket'.registered = socket.registered
        /\ socket'.toBridge = socket.toBridge
        /\ ToSet(socket'.toRunner) \subseteq ToSet(socket.toRunner)
    BY <1>1, <2>1, Consuming DEF Accepts
  <2>3. bridge.session # 0 BY <1>1 DEF Bridges, Sessions
  <2>4. /\ ~memory.connected /\ memory.session \in {0, bridge.session}
        /\ memory'.connected /\ memory'.session = bridge.session
        /\ UNCHANGED <<file, running, closing, bridge>>
        /\ socket.up /\ pending'.kind = "accept"
    BY <2>1 DEF Accepts
  <2>5. QED BY <1>2, <2>2, <2>3, <2>4
<1>11. CASE Disconnect \/ StartRunner
  <2>1. /\ ~memory'.connected
        /\ memory'.session = IF running THEN memory.session ELSE file.session
        /\ file' = IF running THEN file ELSE memory'
        /\ pending' = (IF running THEN [kind |-> "disconnect"] ELSE pending)
        /\ running' = TRUE /\ closing' = (IF running THEN FALSE ELSE closing)
        /\ UNCHANGED <<socket, bridge>>
    BY <1>1, <1>11, ConnectionRecorded
  <2>2. pending'.kind \notin {"accept", "late_accept"}
    BY <1>1, <2>1, OperationKinds DEF Bounded
  <2>3. ~socket.registered /\ ~closing'
    BY <1>2, <1>11, <2>1 DEF Disconnect, StartRunner
  <2>4. QED BY <1>2, <2>1, <2>2, <2>3
<1>12. CASE RestartPi
  <2>1. bridge'.queue = <<>> /\ socket' = NoSocket
    BY <1>1, <1>12, Restarting DEF Types
  <2>2. /\ UNCHANGED <<memory, file, running>> /\ pending' = Orphaned
        /\ closing' = (closing \/ socket.registered)
    BY <1>12 DEF RestartPi
  <2>3. pending'.kind # "accept" /\ (pending'.kind = "late_accept" => memory.connected)
    BY <1>1, <1>2, <2>2, CutOperation
  <2>4. QED BY <1>2, <2>1, <2>2, <2>3, SocketGone
<1>13. CASE Speaks \/ Acts
  <2>1. BridgeReady BY <1>1 DEF BridgeReady, Types, Bounded
  <2>2. UNCHANGED <<memory, file, pending, running, closing>> BY <1>13, BridgeAlone
  <2>3. PICK frames : Writes(frames) /\ (~socket.registered => frames = <<>>)
    <3>1. CASE Speaks
      <4>1. socket.toBridge # <<>>
        BY <3>1 DEF Speaks, ReceiveHelloAck, ReceiveRunnerSnapshot, RefuseWork, AcceptWork, NextMessage
      <4>2. socket.registered BY <1>2, <4>1
      <4>3. Writes(Tail(socket.toBridge))
        BY <2>1, <3>1, HelloAckWrites, SnapshotWrites, AssignmentWrites DEF Speaks
      <4>4. QED BY <4>2, <4>3
    <3>2. CASE Acts BY <1>2, <2>1, <3>2, PiWrites DEF Acts
    <3>3. QED BY <1>13, <3>1, <3>2
  <2>4. QED BY <1>2, <2>2, <2>3 DEF Writes
<1>14. CASE \E id \in Assignments : IssueAssignment(id)
  <2>1. PICK id : Issues(id) BY <1>1, <1>14, Issuing
  <2>2. memory'.session = memory.session /\ memory'.connected = memory.connected
    BY <1>1, <2>1, Intending DEF Issues, Bounded
  <2>3. QED BY <1>2, <2>1, <2>2 DEF Issues
<1> HIDE DEF Goal
<1>15. QED
  BY <1>1, <1>4, <1>5, <1>6, <1>7, <1>8, <1>9, <1>10, <1>11, <1>12, <1>13, <1>14, StepKinds

\* Pi is handed an assignment once: a bridge that was served knows what it has seen,
\* and a later Pi has a session that the file does not name.
LEMMA OnceKept ==
  ASSUME RunnerInv, [Next]_vars PROVE Once'
<1>1. /\ Types /\ Bounded /\ Greeted /\ SessionBound
      /\ memory \in Memories /\ file \in Memories /\ socket \in Sockets /\ bridge \in Bridges
      /\ pending \in Operations /\ submitted \in [Ids -> Nat]
  BY DEF RunnerInv, Types, RunnerTypes, WireTypes, PiTypes
<1>2. \A id \in Ids :
        /\ submitted[id] <= 1
        /\ submitted[id] # 0 =>
             /\ file.session # 0 /\ file.session <= bridge.session
             /\ file.session = bridge.session => id \in bridge.seen
  BY DEF RunnerInv, Once
<1>3. bridge.session \in Nat /\ bridge.session # 0 /\ file.session \in Nat /\ memory.session \in Nat
  BY <1>1, BoundsAssumption DEF Bridges, Sessions, Memories
<1> DEFINE Goal ==
      \A id \in Ids :
        /\ submitted'[id] <= 1
        /\ submitted'[id] # 0 =>
             /\ file'.session # 0 /\ file'.session <= bridge'.session
             /\ file'.session = bridge'.session => id \in bridge'.seen
<1>4. SUFFICES Goal BY DEF Goal, Once
<1>5. ASSUME submitted' = submitted, file'.session = file.session, bridge'.session = bridge.session,
             bridge.seen \subseteq bridge'.seen
      PROVE  Goal
  BY <1>2, <1>5
<1>6. CASE Cuts BY <1>5, <1>6 DEF Cuts
<1>7. CASE Aside BY <1>5, <1>7 DEF Aside
<1>8. CASE Handles BY <1>5, <1>8 DEF Handles
<1>9. CASE Settles \/ Greets \/ Dispatches
  <2>1. file' = memory /\ UNCHANGED <<bridge, submitted>>
    BY <1>9 DEF Settles, Greets, Dispatches, Sends
  <2>2. file.session \in {0, memory.session} BY <1>1 DEF SessionBound
  <2>3. QED BY <1>2, <2>1, <2>2
<1>10. CASE Connect
  <2>1. bridge'.session = bridge.session /\ bridge'.seen = bridge.seen
    BY <1>1, <1>10, Connecting DEF Types
  <2>2. UNCHANGED <<file, submitted>> BY <1>10 DEF Connect, runnerVars, piVars
  <2>3. QED BY <1>5, <2>1, <2>2
<1>11. CASE AcceptBridge
  BY <1>1, <1>5, <1>11, Accepting DEF Accepts
<1>12. CASE Disconnect \/ StartRunner
  <2>1. /\ memory'.session = IF running THEN memory.session ELSE file.session
        /\ file' = IF running THEN file ELSE memory'
        /\ UNCHANGED <<bridge, submitted>>
    BY <1>1, <1>12, ConnectionRecorded
  <2>2. file'.session = file.session BY <2>1
  <2>3. QED BY <1>5, <2>1, <2>2
<1>13. CASE RestartPi
  <2>1. bridge'.session = bridge.session + 1 BY <1>1, <1>13, Restarting DEF Types
  <2>2. UNCHANGED <<file, submitted>> BY <1>13 DEF RestartPi
  <2>3. QED BY <1>2, <1>3, <2>1, <2>2
<1>14. CASE Speaks \/ Acts
  <2>1. BridgeReady BY <1>1 DEF BridgeReady, Types, Bounded
  <2>2. file' = file BY <1>14, BridgeAlone
  <2>3. CASE ReceiveHelloAck \/ ReceiveRunnerSnapshot
    <3>1. submitted' = submitted BY <2>3 DEF ReceiveHelloAck, ReceiveRunnerSnapshot, piVars
    <3>2. bridge'.session = bridge.session /\ bridge.seen \subseteq bridge'.seen
      BY <2>1, <2>3, HelloAckWrites, SnapshotWrites DEF Writes
    <3>3. QED BY <1>5, <2>2, <3>1, <3>2
  <2>4. CASE RefuseWork \/ AcceptWork
    <3>1. socket.toBridge # <<>> BY <2>4 DEF RefuseWork, AcceptWork, NextMessage
    <3>2. file.session = bridge.session BY <1>1, <3>1 DEF SessionBound
    <3>3. PICK id \in Ids :
            /\ bridge'.session = bridge.session /\ bridge.seen \subseteq bridge'.seen
            /\ \/ submitted' = submitted
               \/ /\ id \notin bridge.seen /\ id \in bridge'.seen
                  /\ submitted' = [submitted EXCEPT ![id] = @ + 1]
      BY <2>1, <2>4, AssignmentWrites DEF Writes
    <3>4. CASE submitted' = submitted BY <1>5, <2>2, <3>3, <3>4
    <3>5. CASE submitted' # submitted
      <4>1. submitted[id] = 0 BY <1>1, <1>2, <3>2, <3>3, <3>5
      <4>2. submitted'[id] = 1 /\ \A i \in Ids : i # id => submitted'[i] = submitted[i]
        BY <1>1, <3>3, <3>5, <4>1
      <4>3. QED BY <1>2, <1>3, <2>2, <3>2, <3>3, <3>5, <4>2
    <3>6. QED BY <3>4, <3>5
  <2>5. CASE Acts
    <3>1. bridge'.session = bridge.session /\ bridge'.seen = bridge.seen
      BY <2>1, <2>5, PiWrites DEF Acts, Writes
    <3>2. submitted' = submitted BY <2>5 DEF Acts, SubmitInput, AgentStart, AgentSettled
    <3>3. QED BY <1>5, <2>2, <3>1, <3>2
  <2>6. QED BY <1>14, <2>3, <2>4, <2>5 DEF Speaks
<1>15. CASE \E id \in Assignments : IssueAssignment(id)
  BY <1>1, <1>5, <1>15, Issuing DEF Issues
<1> HIDE DEF Goal
<1>16. QED
  BY <1>1, <1>6, <1>7, <1>8, <1>9, <1>10, <1>11, <1>12, <1>13, <1>14, <1>15, StepKinds

\* The greeting while it is read, and with an assignment behind it.
LEMMA GreetingRead ==
  ASSUME NEW frames \in Seq(RunnerFrames), frames # <<>>, Greeting(frames)
  PROVE  /\ Greeting(Tail(frames))
         /\ Head(frames).kind # "hello_ack" => \A f \in ToSet(Tail(frames)) : f.kind = "assignment"
<1>1. PICK r : r = Tail(frames) OBVIOUS
<1>2. Len(frames) \in Nat /\ DOMAIN frames = 1 .. Len(frames) /\ Len(frames) > 0 /\ Head(frames) = frames[1]
  OBVIOUS
<1>3. r \in Seq(RunnerFrames) /\ Len(r) = Len(frames) - 1
      /\ \A i \in 1 .. Len(frames) - 1 : r[i] = frames[i + 1]
  BY <1>1, HeadTailProperties
<1>4. \A i \in DOMAIN r : i \in Nat /\ i > 0 /\ i + 1 \in DOMAIN frames /\ r[i] = frames[i + 1]
  BY <1>2, <1>3
<1>5. \A i, j \in DOMAIN frames : i < j =>
        frames[j].kind # "hello_ack" /\ (frames[i].kind = "hello_ack" \/ frames[j].kind = "assignment")
  BY DEF Greeting
<1>6. Greeting(r)
  <2>1. ASSUME NEW i \in DOMAIN r, NEW j \in DOMAIN r, i < j
        PROVE  r[j].kind # "hello_ack" /\ (r[i].kind = "hello_ack" \/ r[j].kind = "assignment")
    <3>1. i + 1 \in DOMAIN frames /\ j + 1 \in DOMAIN frames /\ i + 1 < j + 1
          /\ r[i] = frames[i + 1] /\ r[j] = frames[j + 1]
      BY <1>4, <2>1
    <3>2. QED BY <1>5, <3>1
  <2>2. QED BY <2>1 DEF Greeting
<1>7. ASSUME Head(frames).kind # "hello_ack", NEW f \in ToSet(r) PROVE f.kind = "assignment"
  <2>1. PICK j \in DOMAIN r : f = r[j] BY DEF ToSet
  <2>2. 1 \in DOMAIN frames /\ j + 1 \in DOMAIN frames /\ 1 < j + 1 /\ f = frames[j + 1]
    BY <1>2, <1>4, <2>1
  <2>3. frames[1].kind = "hello_ack" \/ frames[j + 1].kind = "assignment" BY <1>5, <2>2
  <2>4. QED BY <1>2, <1>7, <2>2, <2>3
<1>8. QED BY <1>1, <1>6, <1>7

\* Behind a greeting an assignment may follow.
LEMMA GreetingFollowed ==
  ASSUME NEW frames \in Seq(RunnerFrames), Greeting(frames),
         NEW f \in RunnerFrames, f.kind = "assignment"
  PROVE  /\ Greeting(frames \o <<f>>)
         /\ Welcome(frames) => Welcome(frames \o <<f>>)
<1>1. PICK last : last = <<f>> OBVIOUS
<1>2. last \in Seq(RunnerFrames) BY <1>1
<1>3. PICK s : s = frames \o last OBVIOUS
<1>4. /\ s \in Seq(RunnerFrames) /\ Len(s) = Len(frames) + Len(last)
      /\ \A i \in 1 .. Len(frames) : s[i] = frames[i]
      /\ \A i \in 1 .. Len(last) : s[Len(frames) + i] = last[i]
  BY <1>2, <1>3, ConcatProperties
<1>5. Len(frames) \in Nat /\ DOMAIN frames = 1 .. Len(frames) OBVIOUS
<1>6. Len(s) = Len(frames) + 1 /\ s[Len(frames) + 1] = f
  <2>1. Len(last) = 1 /\ last[1] = f BY <1>1
  <2>2. QED BY <1>4, <2>1
<1>7. \A i \in DOMAIN s : i \in Nat /\ (i \in DOMAIN frames \/ i = Len(frames) + 1)
  BY <1>4, <1>5, <1>6
<1>8. \A i \in DOMAIN frames : s[i] = frames[i] /\ i <= Len(frames) BY <1>4, <1>5
<1>9. Greeting(s)
  <2>1. ASSUME NEW i \in DOMAIN s, NEW j \in DOMAIN s, i < j
        PROVE  s[j].kind # "hello_ack" /\ (s[i].kind = "hello_ack" \/ s[j].kind = "assignment")
    <3>1. CASE j = Len(frames) + 1 BY <1>6, <3>1
    <3>2. CASE j \in DOMAIN frames
      <4>1. i \in DOMAIN frames BY <1>5, <1>7, <1>8, <2>1, <3>2
      <4>2. QED BY <1>8, <2>1, <3>2, <4>1 DEF Greeting
    <3>3. QED BY <1>7, <3>1, <3>2
  <2>2. QED BY <2>1 DEF Greeting
<1>10. ASSUME Welcome(frames) PROVE Welcome(s)
  <2>1. Len(frames) >= 2 BY <1>10 DEF Welcome
  <2>2. 1 \in DOMAIN frames /\ 2 \in DOMAIN frames BY <1>5, <2>1
  <2>3. QED BY <1>5, <1>6, <1>8, <1>10, <2>1, <2>2 DEF Welcome
<1>11. QED BY <1>1, <1>3, <1>9, <1>10

\* A bridge that serves was greeted, and a snapshot finds it with the latest
\* assignment, with none, or with one that the runner no longer works on.
LEMMA GreetedKept ==
  ASSUME RunnerInv, [Next]_vars PROVE Greeted'
<1>1. /\ Types /\ Bounded /\ Greeted /\ SessionBound /\ Durable
      /\ memory \in Memories /\ file \in Memories /\ socket \in Sockets /\ bridge \in Bridges
      /\ pending \in Operations /\ socket.toBridge \in Seq(RunnerFrames)
  BY DEF RunnerInv, Types, RunnerTypes, WireTypes, Sockets
<1>2. /\ Greeting(socket.toBridge)
      /\ pending.kind = "accept" =>
           /\ Greeting(pending.frames) /\ Welcome(pending.frames)
           /\ \A f \in ToSet(pending.frames) : f.kind = "runner_snapshot" => f.assignment = Summary(memory)
      /\ bridge.client = "acknowledged" => socket.registered
      /\ socket.registered => bridge.client = "acknowledged" \/ Welcome(socket.toBridge)
      /\ \A f \in ToSet(socket.toBridge) : f.kind = "runner_snapshot" =>
           \/ bridge.assignment.id \in {NoAssignment, f.assignment.id}
           \/ bridge.assignment.id # Latest(memory).id
  BY <1>1 DEF Greeted, Agrees
<1>3. ~socket.registered => socket.toBridge = <<>> BY <1>1 DEF SessionBound
<1>4. Greeting(<<>>) /\ Greeting(NoSocket.toBridge) /\ ToSet(NoSocket.toBridge) = {}
  <2>1. DOMAIN <<>> = {} OBVIOUS
  <2>2. Greeting(<<>>) BY <2>1 DEF Greeting
  <2>3. QED BY <2>2, SocketGone
<1> DEFINE Goal ==
      /\ Greeting(socket'.toBridge)
      /\ pending'.kind = "accept" =>
           /\ Greeting(pending'.frames) /\ Welcome(pending'.frames)
           /\ \A f \in ToSet(pending'.frames) : f.kind = "runner_snapshot" => f.assignment = Summary(memory')
      /\ bridge'.client = "acknowledged" => socket'.registered
      /\ socket'.registered => bridge'.client = "acknowledged" \/ Welcome(socket'.toBridge)
      /\ \A f \in ToSet(socket'.toBridge) : f.kind = "runner_snapshot" =>
           \/ bridge'.assignment.id \in {NoAssignment, f.assignment.id}
           \/ bridge'.assignment.id # Latest(memory').id
<1>5. SUFFICES Goal
  BY DEF Goal, Greeted, Greeting, Welcome, Agrees, ToSet, Summary, Latest, Last
<1>6. CASE Cuts BY <1>1, <1>2, <1>4, <1>6, SocketGone, CutOperation DEF Cuts
<1>7. CASE Aside BY <1>2, <1>7, OperationKinds DEF Aside
<1>8. CASE Handles
  <2>1. socket'.toBridge = socket.toBridge /\ socket'.registered = socket.registered
    BY <1>1, <1>8, Consuming DEF Handles
  <2>2. Latest(memory').id = Latest(memory).id BY <1>1, <1>8, TouchedKnows DEF Handles
  <2>3. pending'.kind # "accept" /\ bridge' = bridge BY <1>8, OperationKinds DEF Handles
  <2>4. QED BY <1>2, <2>1, <2>2, <2>3
<1>9. CASE Settles
  <2>1. Latest(memory').id = Latest(memory).id BY <1>1, <1>9, TouchedKnows DEF Settles
  <2>2. pending'.kind # "accept" /\ UNCHANGED <<bridge, socket>> BY <1>9, OperationKinds DEF Settles
  <2>3. QED BY <1>2, <2>1, <2>2
<1>10. CASE Greets \/ Dispatches
  <2>1. PICK frames \in Seq(RunnerFrames) :
          /\ Sends(frames, TRUE)
          /\ IF pending.kind = "accept" THEN frames = pending.frames
             ELSE /\ pending.kind = "issue" /\ socket.registered
                  /\ \E f : f.kind = "assignment" /\ f.id = pending.id /\ frames = <<f>>
    BY <1>1, <1>10, SendsFrames
  <2>2. /\ socket'.registered /\ socket'.toBridge = socket.toBridge \o frames
        /\ ToSet(socket'.toBridge) = ToSet(socket.toBridge) \cup ToSet(frames)
    BY <1>1, <2>1, Delivering
  <2>3. UNCHANGED <<memory, bridge>> /\ pending'.kind # "accept" BY <2>1, OperationKinds DEF Sends
  <2>4. CASE pending.kind = "accept"
    <3>1. socket.toBridge = <<>> /\ frames = pending.frames BY <1>1, <2>1, <2>4 DEF SessionBound
    <3>2. socket'.toBridge = frames BY <2>1, <2>2, <3>1, EmptySeq
    <3>3. \A f \in ToSet(frames) : f.kind = "runner_snapshot" => f.assignment.id = Latest(memory).id
      BY <1>2, <2>4, <3>1 DEF Summary
    <3>4. QED BY <1>2, <2>2, <2>3, <2>4, <3>1, <3>2, <3>3
  <2>5. CASE pending.kind # "accept"
    <3>1. PICK f : f.kind = "assignment" /\ frames = <<f>> BY <2>1, <2>5
    <3>2. f \in RunnerFrames /\ ToSet(frames) = {f} /\ socket.registered
      <4>1. frames[1] = f /\ Len(frames) = 1 BY <3>1
      <4>2. DOMAIN frames = {1} /\ frames[1] \in RunnerFrames BY <4>1
      <4>3. QED BY <2>1, <2>5, <4>1, <4>2 DEF ToSet
    <3>3. /\ Greeting(socket'.toBridge)
          /\ Welcome(socket.toBridge) => Welcome(socket'.toBridge)
      BY <1>1, <1>2, <2>2, <3>1, <3>2, GreetingFollowed
    <3>4. QED BY <1>2, <2>2, <2>3, <3>1, <3>2, <3>3
  <2>6. QED BY <2>4, <2>5
<1>11. CASE Connect
  <2>1. bridge'.client = "connecting" /\ ~socket'.registered /\ socket'.toBridge = <<>>
    BY <1>1, <1>11, Connecting DEF Types
  <2>2. UNCHANGED <<memory, pending>> BY <1>11 DEF Connect, runnerVars
  <2>3. QED BY <1>2, <1>4, <2>1, <2>2, SocketGone
<1>12. CASE AcceptBridge
  <2>1. Accepts BY <1>1, <1>12, Accepting
  <2>2. socket'.toBridge = socket.toBridge /\ socket'.registered = socket.registered
    BY <1>1, <2>1, Consuming DEF Accepts
  <2>3. memory'.assignments = memory.assignments /\ bridge' = bridge BY <2>1 DEF Accepts
  <2>4. Latest(memory') = Latest(memory) /\ Summary(memory') = Summary(memory)
    BY <2>3 DEF Latest, Summary
  <2>5. /\ Greeting(pending'.frames) /\ Welcome(pending'.frames)
        /\ \A f \in ToSet(pending'.frames) : f.kind = "runner_snapshot" => f.assignment = Summary(memory)
    BY <2>1 DEF Accepts
  <2>6. QED BY <1>2, <2>2, <2>3, <2>4, <2>5
<1>13. CASE Disconnect \/ StartRunner
  <2>1. /\ pending' = (IF running THEN [kind |-> "disconnect"] ELSE pending)
        /\ UNCHANGED <<socket, bridge>>
    BY <1>1, <1>13, ConnectionRecorded
  <2>2. pending'.kind # "accept" BY <1>1, <2>1, OperationKinds DEF Bounded
  <2>3. ~socket.registered BY <1>1, <1>13 DEF Disconnect, StartRunner, SessionBound
  <2>4. QED BY <1>2, <1>3, <2>1, <2>2, <2>3, SocketGone
<1>14. CASE RestartPi
  <2>1. bridge'.client = "disconnected" /\ socket' = NoSocket BY <1>1, <1>14, Restarting DEF Types
  <2>2. memory' = memory /\ pending'.kind # "accept" BY <1>1, <1>14, CutOperation DEF RestartPi
  <2>3. QED BY <1>2, <1>4, <2>1, <2>2, SocketGone
<1>15. CASE Speaks \/ Acts
  <2>1. BridgeReady BY <1>1 DEF BridgeReady, Types, Bounded
  <2>2. UNCHANGED <<memory, pending>> BY <1>15, BridgeAlone
  <2>3. CASE Speaks
    <3>1. Writes(Tail(socket.toBridge)) /\ socket.toBridge # <<>>
      BY <2>1, <2>3, HelloAckWrites, SnapshotWrites, AssignmentWrites
      DEF Speaks, ReceiveHelloAck, ReceiveRunnerSnapshot, RefuseWork, AcceptWork, NextMessage
    <3>2. socket.registered /\ socket'.registered /\ socket'.toBridge = Tail(socket.toBridge)
      BY <1>3, <3>1 DEF Writes
    <3>3. /\ Greeting(socket'.toBridge)
          /\ Head(socket.toBridge).kind # "hello_ack" =>
               \A f \in ToSet(socket'.toBridge) : f.kind = "assignment"
      BY <1>1, <1>2, <3>1, <3>2, GreetingRead
    <3>4. ToSet(socket'.toBridge) \subseteq ToSet(socket.toBridge)
      BY <1>1, <3>1, <3>2, QueueRead
    <3>5. CASE ReceiveHelloAck
      <4>1. bridge'.client = "acknowledged" /\ bridge'.assignment = bridge.assignment
        BY <2>1, <3>5, HelloAckWrites
      <4>2. QED BY <1>2, <2>2, <3>2, <3>3, <3>4, <4>1
    <3>6. CASE ReceiveRunnerSnapshot \/ RefuseWork \/ AcceptWork
      <4>1. Head(socket.toBridge).kind \in {"runner_snapshot", "assignment"}
            /\ bridge'.client = bridge.client
        BY <2>1, <3>6, SnapshotWrites, AssignmentWrites
      <4>2. Head(socket.toBridge) = socket.toBridge[1] OBVIOUS
      <4>3. ~Welcome(socket.toBridge) BY <4>1, <4>2 DEF Welcome
      <4>4. QED BY <1>2, <2>2, <3>2, <3>3, <4>1, <4>3
    <3>7. QED BY <2>3, <3>5, <3>6 DEF Speaks
  <2>4. CASE Acts
    <3>1. Writes(socket.toBridge) /\ bridge'.client = bridge.client
          /\ bridge'.assignment.id = bridge.assignment.id
      BY <2>1, <2>4, PiWrites DEF Acts
    <3>2. QED BY <1>2, <2>2, <3>1 DEF Writes
  <2>5. QED BY <1>15, <2>3, <2>4
<1>16. CASE \E id \in Assignments : IssueAssignment(id)
  <2>1. PICK id : Issues(id) BY <1>1, <1>16, Issuing
  <2>2. Latest(memory').id = id BY <1>1, <2>1, Intending DEF Issues, Bounded
  <2>3. bridge.assignment.id = NoAssignment \/ Known(memory, bridge.assignment.id)
    BY <1>1, LatestKnown DEF Durable
  <2>4. ~Known(memory, id) /\ pending'.kind = "issue" /\ UNCHANGED <<socket, bridge>>
    BY <2>1 DEF Issues
  <2>5. QED BY <1>2, <2>2, <2>3, <2>4
<1> HIDE DEF Goal
<1>17. QED
  BY <1>1, <1>6, <1>7, <1>8, <1>9, <1>10, <1>11, <1>12, <1>13, <1>14, <1>15, <1>16, StepKinds

\* A welcome still holds the snapshot.
LEMMA WelcomeHasSnapshot ==
  ASSUME NEW frames \in Seq(RunnerFrames), Welcome(frames)
  PROVE  \E f \in ToSet(frames) : f.kind = "runner_snapshot"
<1>1. 2 \in DOMAIN frames /\ frames[2].kind = "runner_snapshot" BY DEF Welcome
<1>2. QED BY <1>1 DEF ToSet

\* A takeover stays on its way until the runner learns of it.
LEMMA CarriedKept ==
  ASSUME RunnerInv, [Next]_vars PROVE Carried'
<1>1. /\ Types /\ Bounded /\ Greeted /\ SessionBound /\ Durable
      /\ memory \in Memories /\ file \in Memories /\ socket \in Sockets /\ bridge \in Bridges
      /\ pending \in Operations /\ socket.toBridge \in Seq(RunnerFrames)
  BY DEF RunnerInv, Types, RunnerTypes, WireTypes, Sockets
<1>2. socket.registered /\ bridge.mode = "manual_takeover" /\ memory.mode # "manual_takeover" =>
        \/ \E f \in ToSet(socket.toBridge) : f.kind = "runner_snapshot"
        \/ \E f \in ToSet(socket.toRunner) : Carries(f, memory)
  BY DEF RunnerInv, Carried
<1>3. /\ bridge.client = "acknowledged" => socket.registered
      /\ socket.registered => bridge.client = "acknowledged" \/ Welcome(socket.toBridge)
      /\ \A f \in ToSet(socket.toBridge) : f.kind = "runner_snapshot" => Agrees(f)
  BY <1>1 DEF Greeted
<1>4. ~socket.registered => socket.toBridge = <<>> BY <1>1 DEF SessionBound
<1> DEFINE Goal ==
      socket'.registered /\ bridge'.mode = "manual_takeover" /\ memory'.mode # "manual_takeover" =>
        \/ \E f \in ToSet(socket'.toBridge) : f.kind = "runner_snapshot"
        \/ \E f \in ToSet(socket'.toRunner) : Carries(f, memory')
<1>5. SUFFICES Goal
  BY DEF Goal, Carried, Carries, ToSet, Known, Latest, Last
<1>6. CASE Cuts BY <1>6, SocketGone DEF Cuts
<1>7. CASE Aside BY <1>2, <1>7 DEF Aside
<1>8. CASE Handles
  <2>1. PICK head : head = Head(socket.toRunner) OBVIOUS
  <2>2. /\ socket'.toBridge = socket.toBridge /\ socket'.registered = socket.registered
        /\ ToSet(socket.toRunner) = {head} \cup ToSet(socket'.toRunner)
    BY <1>1, <1>8, <2>1, Consuming DEF Handles
  <2>3. /\ \A id : Known(memory', id) <=> Known(memory, id)
        /\ Latest(memory').id = Latest(memory).id
    BY <1>1, <1>8, TouchedKnows DEF Handles
  <2>4. \A f : Carries(f, memory) => Carries(f, memory') BY <2>3 DEF Carries
  <2>5. /\ bridge' = bridge /\ (Carries(head, memory) => memory'.mode = "manual_takeover")
        /\ memory.mode = "manual_takeover" => memory'.mode = "manual_takeover"
    BY <1>8, <2>1 DEF Handles, Touched
  <2>6. QED BY <1>2, <2>2, <2>4, <2>5
<1>9. CASE Settles
  <2>1. /\ \A id : Known(memory', id) <=> Known(memory, id)
        /\ Latest(memory').id = Latest(memory).id
    BY <1>1, <1>9, TouchedKnows DEF Settles
  <2>2. \A f : Carries(f, memory) => Carries(f, memory') BY <2>1 DEF Carries
  <2>3. /\ UNCHANGED <<bridge, socket>>
        /\ memory.mode = "manual_takeover" => memory'.mode = "manual_takeover"
    BY <1>9 DEF Settles, Touched
  <2>4. QED BY <1>2, <2>2, <2>3
<1>10. CASE Greets \/ Dispatches
  <2>1. PICK frames \in Seq(RunnerFrames) :
          /\ Sends(frames, TRUE)
          /\ IF pending.kind = "accept" THEN frames = pending.frames
             ELSE /\ pending.kind = "issue" /\ socket.registered
                  /\ \E f : f.kind = "assignment" /\ f.id = pending.id /\ frames = <<f>>
    BY <1>1, <1>10, SendsFrames
  <2>2. /\ socket'.registered /\ socket'.toRunner = socket.toRunner
        /\ ToSet(socket'.toBridge) = ToSet(socket.toBridge) \cup ToSet(frames)
    BY <1>1, <2>1, Delivering
  <2>3. UNCHANGED <<memory, bridge>> BY <2>1 DEF Sends
  <2>4. CASE pending.kind = "accept"
    <3>1. Welcome(frames) BY <1>1, <2>1, <2>4 DEF Greeted
    <3>2. \E f \in ToSet(frames) : f.kind = "runner_snapshot" BY <2>1, <3>1, WelcomeHasSnapshot
    <3>3. QED BY <2>2, <3>2
  <2>5. CASE pending.kind # "accept" BY <1>2, <2>1, <2>2, <2>3, <2>5
  <2>6. QED BY <2>4, <2>5
<1>11. CASE Connect BY <1>1, <1>11, Connecting DEF Types
<1>12. CASE AcceptBridge
  <2>1. Accepts BY <1>1, <1>12, Accepting
  <2>2. socket'.registered = socket.registered BY <1>1, <2>1, Consuming DEF Accepts
  <2>3. ~socket.registered BY <1>1, <2>1 DEF Accepts, SessionBound
  <2>4. QED BY <2>2, <2>3
<1>13. CASE Disconnect \/ StartRunner
  <2>1. socket' = socket BY <1>1, <1>13, ConnectionRecorded
  <2>2. ~socket.registered BY <1>1, <1>13 DEF Disconnect, StartRunner, SessionBound
  <2>3. QED BY <2>1, <2>2
<1>14. CASE RestartPi BY <1>1, <1>14, Restarting, SocketGone DEF Types
<1>15. CASE Speaks \/ Acts
  <2>1. BridgeReady BY <1>1 DEF BridgeReady, Types, Bounded
  <2>2. memory' = memory BY <1>15, BridgeAlone
  <2>3. CASE Speaks
    <3>1. PICK head : head = Head(socket.toBridge) OBVIOUS
    <3>2. Writes(Tail(socket.toBridge)) /\ socket.toBridge # <<>>
      BY <2>1, <2>3, HelloAckWrites, SnapshotWrites, AssignmentWrites
      DEF Speaks, ReceiveHelloAck, ReceiveRunnerSnapshot, RefuseWork, AcceptWork, NextMessage
    <3>3. socket.registered /\ ToSet(socket.toRunner) \subseteq ToSet(socket'.toRunner)
      BY <1>4, <3>2 DEF Writes
    <3>4. ToSet(socket.toBridge) = {head} \cup ToSet(socket'.toBridge) /\ head = socket.toBridge[1]
      BY <1>1, <3>1, <3>2, QueueRead DEF Writes
    <3>5. CASE ReceiveHelloAck \/ RefuseWork \/ AcceptWork
      <4>1. head.kind # "runner_snapshot" /\ bridge'.mode = bridge.mode
        BY <2>1, <3>1, <3>5, HelloAckWrites, AssignmentWrites
      <4>2. QED BY <1>2, <2>2, <3>3, <3>4, <4>1
    <3>6. CASE ReceiveRunnerSnapshot
      <4>1. head.kind = "runner_snapshot" BY <2>1, <3>1, <3>6, SnapshotWrites
      <4>2. bridge.client = "acknowledged" BY <1>3, <3>3, <3>4, <4>1 DEF Welcome
      <4>3. PICK g \in ToSet(socket'.toRunner) :
              IF bridge.assignment.id \in {NoAssignment, head.assignment.id}
              THEN g.kind = "state_snapshot" /\ g.mode = bridge'.mode
              ELSE g.kind = "event" /\ g.id = bridge.assignment.id
        BY <2>1, <3>1, <3>6, <4>2, SnapshotWrites
      <4>4. CASE bridge.assignment.id \in {NoAssignment, head.assignment.id}
        BY <4>3, <4>4 DEF Carries
      <4>5. CASE bridge.assignment.id \notin {NoAssignment, head.assignment.id}
        <5>1. bridge.assignment.id # Latest(memory).id BY <1>3, <3>4, <4>1, <4>5 DEF Agrees
        <5>2. Known(memory, bridge.assignment.id) BY <1>1, <4>5, LatestKnown DEF Durable
        <5>3. Carries(g, memory) BY <4>3, <4>5, <5>1, <5>2 DEF Carries
        <5>4. QED BY <2>2, <5>3
      <4>6. QED BY <4>4, <4>5
    <3>7. QED BY <2>3, <3>5, <3>6 DEF Speaks
  <2>4. CASE Acts
    <3>1. /\ Writes(socket.toBridge)
          /\ \/ bridge'.mode = bridge.mode
             \/ bridge.client = "acknowledged" => \E g \in ToSet(socket'.toRunner) :
                  g.kind = "event" /\ g.type = "manual_takeover" /\ ~g.covered
      BY <2>1, <2>4, PiWrites DEF Acts
    <3>2. /\ socket'.toBridge = socket.toBridge /\ socket'.registered = socket.registered
          /\ ToSet(socket.toRunner) \subseteq ToSet(socket'.toRunner)
      BY <3>1 DEF Writes
    <3>3. CASE bridge'.mode = bridge.mode BY <1>2, <2>2, <3>2, <3>3
    <3>4. CASE bridge.client = "acknowledged" /\ bridge'.mode # bridge.mode
      BY <3>1, <3>4 DEF Carries
    <3>5. CASE bridge.client # "acknowledged"
      <4>1. socket.registered => \E f \in ToSet(socket.toBridge) : f.kind = "runner_snapshot"
        BY <1>1, <1>3, <3>5, WelcomeHasSnapshot
      <4>2. QED BY <3>2, <4>1
    <3>6. QED BY <3>3, <3>4, <3>5
  <2>5. QED BY <1>15, <2>3, <2>4
<1>16. CASE \E id \in Assignments : IssueAssignment(id)
  <2>1. PICK id : Issues(id) BY <1>1, <1>16, Issuing
  <2>2. /\ Latest(memory').id = id /\ memory'.mode = memory.mode
        /\ \A i : Known(memory', i) <=> Known(memory, i) \/ i = id
    BY <1>1, <2>1, Intending DEF Issues, Bounded
  <2>3. ~Known(memory, id) /\ UNCHANGED <<socket, bridge>> BY <2>1 DEF Issues
  <2>4. \A f : Carries(f, memory) => Carries(f, memory') BY <2>2, <2>3 DEF Carries
  <2>5. QED BY <1>2, <2>2, <2>3, <2>4
<1> HIDE DEF Goal
<1>17. QED
  BY <1>1, <1>6, <1>7, <1>8, <1>9, <1>10, <1>11, <1>12, <1>13, <1>14, <1>15, <1>16, StepKinds

-----------------------------------------------------------------------------
(* The initial state: a fresh node, or one whose first assignment settled. *)

\* Both initial states satisfy the invariant.
LEMMA RunnerInitial == Init => RunnerInv
<1> SUFFICES ASSUME Init PROVE RunnerInv
  OBVIOUS
<1>1. /\ Earlier \in Ids /\ NoAssignment # Earlier /\ 1 \in Sessions /\ MaxPiStarts \in Nat
      /\ MaxPending \in Nat /\ 1 \in 0 .. MaxPiStarts
  BY BoundsAssumption DEF Ids, Sessions
<1>2. PICK none : none = <<>> /\ none \in Seq(Entries) /\ DOMAIN none = {}
  <2>1. <<>> \in Seq(Entries) /\ DOMAIN <<>> = {} OBVIOUS
  <2>2. QED BY <2>1
<1>3. PICK e : e = [id |-> Earlier, state |-> "settled", ack |-> "accepted"] OBVIOUS
<1>4. e \in Entries /\ e.id = Earlier BY <1>1, <1>3 DEF Entries, AssignmentStates, AckStatuses
<1>5. PICK one : one = <<e>> OBVIOUS
<1>6. one \in Seq(Entries) /\ DOMAIN one = {1} /\ one[1] = e BY <1>4, <1>5
<1>7. /\ memory \in Memories /\ bridge \in Bridges /\ Distinct(memory)
      /\ bridge.session = 1 /\ bridge.client = "disconnected" /\ bridge.mode = "managed"
      /\ bridge.queue = <<>> /\ memory.session \in {0, 1}
      /\ \/ memory.assignments = none /\ bridge.seen = {} /\ bridge.assignment.id = NoAssignment
         \/ /\ memory.assignments = one /\ bridge.seen = {Earlier} /\ bridge.assignment.id = Earlier
            /\ memory.session = 1
  <2>1. None \in AssignmentSummary /\ None.id = NoAssignment BY DEF None, AssignmentSummary
  <2>2. <<>> \in Seq(BridgeFrames) OBVIOUS
  <2>3. InitialMemory \in Memories /\ InitialMemory.assignments = none /\ InitialMemory.session = 0
    BY <1>1, <1>2 DEF InitialMemory, Memories, Modes
  <2>4. NewBridge(1) \in Bridges
    BY <1>1, <2>1, <2>2 DEF NewBridge, Bridges, Modes
  <2>5. CASE memory = InitialMemory /\ bridge = NewBridge(1)
    BY <1>2, <2>1, <2>3, <2>4, <2>5 DEF NewBridge, Distinct
  <2>6. CASE memory = SettledMemory /\ bridge = SettledBridge
    <3>1. memory = [InitialMemory EXCEPT !.session = 1, !.assignments = one]
      BY <1>3, <1>5, <2>6 DEF SettledMemory
    <3>2. memory \in Memories /\ memory.assignments = one /\ memory.session = 1
      BY <1>1, <1>6, <2>3, <3>1 DEF Memories
    <3>3. PICK a : a = [id |-> Earlier, state |-> "settled"] OBVIOUS
    <3>4. a \in AssignmentSummary /\ a.id = Earlier
      BY <1>1, <3>3 DEF AssignmentSummary, AssignmentStates
    <3>5. PICK b : b = NewBridge(1) OBVIOUS
    <3>6. bridge = [b EXCEPT !.seen = {Earlier}, !.assignment = a]
      BY <2>6, <3>3, <3>5 DEF SettledBridge
    <3>7. b \in Bridges /\ b.session = 1 /\ b.client = "disconnected" /\ b.mode = "managed"
          /\ b.queue = <<>>
      BY <2>4, <3>5 DEF NewBridge
    <3>8. bridge \in Bridges /\ bridge.seen = {Earlier} /\ bridge.assignment = a
          /\ bridge.session = 1 /\ bridge.client = "disconnected" /\ bridge.mode = "managed"
          /\ bridge.queue = <<>>
      BY <1>1, <3>4, <3>6, <3>7 DEF Bridges
    <3>9. Distinct(memory) BY <1>6, <3>2 DEF Distinct
    <3>10. QED BY <3>2, <3>4, <3>8, <3>9
  <2>7. QED BY <2>5, <2>6 DEF Init
<1>8. \A id : Known(memory, id) <=> id \in bridge.seen
  BY <1>2, <1>4, <1>6, <1>7 DEF Known
<1>9. /\ file = memory /\ pending = Idle /\ running = TRUE /\ socket = NoSocket /\ closing = FALSE
      /\ turn = NoTurn
      /\ control = [link |-> "up", lingering |-> FALSE, queued |-> <<>>, sent |-> <<>>]
      /\ submitted = [id \in Ids |-> IF Known(memory, id) THEN 1 ELSE 0]
  BY DEF Init
<1>10. Types
  <2>1. control \in Controls
    <3>1. <<>> \in Seq(Assignments) OBVIOUS
    <3>2. QED BY <1>9, <3>1 DEF Controls
  <2>2. turn \in Turns BY <1>9 DEF NoTurn, Turns
  <2>3. submitted \in [Ids -> Nat] BY <1>9
  <2>4. pending \in Operations BY <1>9 DEF Operations
  <2>5. QED BY <1>7, <1>9, <2>1, <2>2, <2>3, <2>4, SocketGone
        DEF Types, RunnerTypes, WireTypes, PiTypes
<1>11. Bounded BY <1>1, <1>7, <1>9 DEF Bounded
<1>12. ToSet(bridge.queue) = {} /\ pending.kind = "idle"
  BY <1>7, <1>9, SocketGone, OperationKinds
<1>13. Durable BY <1>7, <1>8, <1>9, <1>12, SocketGone DEF Durable
<1>14. SessionBound BY <1>9, <1>12, SocketGone DEF SessionBound
<1>15. Once
  <2>1. \A id \in Ids : submitted[id] = IF id \in bridge.seen THEN 1 ELSE 0 BY <1>8, <1>9
  <2>2. \A id \in bridge.seen : memory.session = 1 BY <1>7
  <2>3. QED BY <1>7, <1>9, <2>1, <2>2 DEF Once
<1>16. Greeted
  <2>1. Greeting(socket.toBridge)
    <3>1. DOMAIN <<>> = {} OBVIOUS
    <3>2. QED BY <1>9, <3>1, SocketGone DEF Greeting
  <2>2. QED BY <1>7, <1>9, <1>12, <2>1, SocketGone DEF Greeted
<1>17. Carried BY <1>9, SocketGone DEF Carried
<1>18. QED BY <1>10, <1>11, <1>13, <1>14, <1>15, <1>16, <1>17 DEF RunnerInv

-----------------------------------------------------------------------------
(* The theorems. *)

\* The inductive invariant holds in every reachable state of a Role, for any ids,
\* any capacity of the client's queue and any number of faults.
THEOREM RunnerStaysSound == Spec => []RunnerInv
<1>1. Init => RunnerInv BY RunnerInitial
<1>2. RunnerInv /\ [Next]_vars => RunnerInv'
  <2> SUFFICES ASSUME RunnerInv, [Next]_vars PROVE RunnerInv'
    OBVIOUS
  <2>1. Types' /\ Bounded' BY TypesKept
  <2>2. Durable' BY DurableKept
  <2>3. SessionBound' BY SessionBoundKept
  <2>4. Once' BY OnceKept
  <2>5. Greeted' BY GreetedKept
  <2>6. Carried' BY CarriedKept
  <2>7. QED BY <2>1, <2>2, <2>3, <2>4, <2>5, <2>6 DEF RunnerInv
<1>3. QED BY <1>1, <1>2, PTL DEF Spec

\* The state file is never written with an identity used twice or a record that the
\* validators of runner-core.mjs refuse, the bridge client's queue keeps to its
\* capacity, and no replacement outlives the runner.
THEOREM RunnerTypesCorrect == Spec => []TypeOK
<1>1. RunnerInv => TypeOK
  <2> SUFFICES ASSUME RunnerInv PROVE TypeOK
    OBVIOUS
  <2>1. /\ memory \in Memories /\ file \in Memories /\ socket \in Sockets /\ bridge \in Bridges
        /\ turn \in Turns /\ control \in Controls
    BY DEF RunnerInv, Types, RunnerTypes, WireTypes, PiTypes
  <2>2. ASSUME NEW m \in Memories, Distinct(m) PROVE ValidRunnerState(m)
    <3>1. m.assignments \in Seq(Entries) BY DEF Memories
    <3>2. \A i \in DOMAIN m.assignments : m.assignments[i] \in Entries BY <3>1
    <3>3. QED BY <2>2, <3>2 DEF ValidRunnerState, ValidAssignment, Memories, Entries, Distinct
  <2>3. ValidRunnerState(memory) /\ ValidRunnerState(file)
    BY <2>1, <2>2 DEF RunnerInv, Bounded
  <2>4. /\ socket.toRunner \in Seq(BridgeFrames) /\ bridge.queue \in Seq(BridgeFrames)
        /\ socket.toBridge \in Seq(RunnerFrames)
    BY <2>1 DEF Sockets, Bridges
  <2>5. /\ ToSet(socket.toRunner) \subseteq BridgeFrames /\ ToSet(bridge.queue) \subseteq BridgeFrames
        /\ ToSet(socket.toBridge) \subseteq RunnerFrames
    BY <2>4, QueueMembers
  <2>6. /\ bridge.assignment \in AssignmentSummary /\ bridge.mode \in Modes /\ bridge.seen \subseteq Ids
        /\ turn.phase \in {"idle", "starting", "working"} /\ control.link \in {"up", "down", "closed"}
    BY <2>1 DEF Bridges, Turns, Controls
  <2>7. QED BY <2>3, <2>5, <2>6 DEF TypeOK, RunnerInv, Bounded, SessionBound
<1>2. QED BY <1>1, RunnerStaysSound, PTL

\* What a bridge has seen of an assignment is in the state file, so that a crash of
\* the runner, a failed replacement or a lost connection cannot make it unknown.
THEOREM DurableCorrect == Spec => []DeliveredIsDurable
<1>1. RunnerInv => DeliveredIsDurable BY DEF RunnerInv, Durable, DeliveredIsDurable
<1>2. QED BY <1>1, RunnerStaysSound, PTL

\* An assignment is handed to Pi once: whatever is sent again after a lost
\* connection, a restart of the runner or of Pi meets a bridge that has seen it.
THEOREM SubmissionCorrect == Spec => []SubmittedOnce
<1>1. RunnerInv => SubmittedOnce
  <2> SUFFICES ASSUME RunnerInv PROVE SubmittedOnce
    OBVIOUS
  <2>1. DOMAIN submitted = Ids BY DEF RunnerInv, Types, PiTypes
  <2>2. QED BY <2>1 DEF RunnerInv, Once, SubmittedOnce
<1>2. QED BY <1>1, RunnerStaysSound, PTL

\* A takeover that was made while the socket was down or the client's queue was full
\* reaches the runner all the same: when nothing is in flight it has recorded it.
THEOREM RemoteTakeoverCorrect == Spec => []TakeoverCarried
<1>1. RunnerInv => TakeoverCarried
  <2>1. ToSet(<<>>) = {} BY SocketGone
  <2>2. QED BY <2>1 DEF RunnerInv, Carried, TakeoverCarried, Quiet
<1>2. QED BY <1>1, RunnerStaysSound, PTL
=============================================================================
