------------------------------ MODULE AdapterProofs ------------------------------
(* Theorems about BoomuxAdapter, for every set of roles and every bound.      *)
EXTENDS BoomuxAdapter, SequenceTheorems, TLAPS

-----------------------------------------------------------------------------
(* The call that is running. *)

CallOK ==
  /\ call \in [op : {"none", "create", "present", "close", "cleanup"},
               step : Steps \cup {"none"}, role : Roles \cup {NoRole}, polls : Nat]
  /\ call.op \in {"create", "present", "close"} => call.role \in Roles
  /\ call.step \in {"make", "made", "prepare", "create", "confirm", "inspect"} => call.op = "create"
  /\ call.step \in {"open", "poll"} => call.op = "present"
  /\ call.step \in {"close", "absent"} => call.role \in Roles

\* Going on within a call, from a step to one that belongs to the same call.
LEMMA GotoOK ==
  ASSUME CallOK, NEW step \in Steps, Goto(step),
         step \in {"make", "made", "prepare", "create", "confirm", "inspect"} => call.op = "create",
         step \in {"open", "poll"} => call.op = "present",
         step \in {"close", "absent"} => call.role \in Roles
  PROVE  CallOK'
BY DEF CallOK, Goto

\* Every step keeps the place in a call that belongs to its operation.
LEMMA CallStep ==
  ASSUME CallOK, [Next]_vars
  PROVE  CallOK'
<1>1. CASE UNCHANGED call  BY <1>1 DEF CallOK
<1>2. CASE Done  BY <1>2 DEF CallOK, Done, NoCall, Steps
<1>3. ASSUME NEW op \in {"create", "present", "close", "cleanup"}, NEW r \in Roles \cup {NoRole},
             op # "cleanup" => r \in Roles, Start(op, r)
      PROVE  CallOK'
  BY <1>3 DEF CallOK, Start, NoCall, Steps
<1>4. CASE StartCreate \/ MakeWorkspace \/ RecordWorkspace \/ PrepareSession \/ CreateShell
           \/ ConfirmPlacement \/ ConfirmShell
  <2>1. CASE call.op = "create" /\ (Done \/ \E step \in {"make", "made", "prepare", "create",
                                       "confirm", "inspect", "unknown"} : Goto(step))
    BY <1>2, <2>1, GotoOK DEF Steps
  <2> QED
    BY <1>4, <2>1
    DEF StartCreate, MakeWorkspace, RecordWorkspace, PrepareSession, CreateShell, ConfirmPlacement,
        ConfirmShell, Weak, CallOK, At
<1>5. CASE StartPresent \/ OpenShell
  <2>1. CASE call.op = "present" /\ (Done \/ \E step \in {"open", "poll", "unknown"} : Goto(step))
    BY <1>2, <2>1, GotoOK DEF Steps
  <2> QED  BY <1>5, <2>1 DEF StartPresent, OpenShell, Weak, CallOK, At
<1>6. CASE PollShell
  <2>1. CASE call' = [call EXCEPT !.polls = @ + 1]  BY <2>1 DEF CallOK
  <2>2. CASE Done \/ Goto("unknown")  BY <1>2, <2>2, GotoOK DEF Steps
  <2> QED  BY <1>6, <2>1, <2>2 DEF PollShell
<1>7. CASE StartClose \/ CloseShell \/ RecordClosed
  <2>1. CASE call.role \in Roles
             /\ (Done \/ \E step \in {"close", "absent", "sessions", "unknown"} : Goto(step))
    BY <1>2, <2>1, GotoOK DEF Steps
  <2> QED  BY <1>7, <2>1 DEF StartClose, CloseShell, RecordClosed, Weak, CallOK, At
<1>8. CASE NextSession
  <2>1. CASE Goto("owned")  BY <2>1, GotoOK DEF Steps
  <2>2. ASSUME NEW r \in Recorded, call' = [call EXCEPT !.step = "close", !.role = r]
        PROVE  CallOK'
    <3>1. r \in Roles /\ "close" \in Steps  BY DEF Recorded, Steps
    <3> QED  BY <2>2, <3>1 DEF CallOK
  <2> QED  BY <1>8, <2>1, <2>2 DEF NextSession
<1>9. CASE StartCleanup \/ CheckOwned \/ CloseWorkspace \/ RecordCleanup
  <2>1. CASE Done \/ \E step \in {"sessions", "end", "gone", "unknown"} : Goto(step)
    BY <1>2, <2>1, GotoOK DEF Steps
  <2> QED  BY <1>9, <2>1 DEF StartCleanup, CheckOwned, CloseWorkspace, RecordCleanup, Weak
<1>10. CASE MarkUnknown \/ Crash \/ ReadFails \/ Initialize
  <2>1. CASE Done \/ Goto("unknown")  BY <1>2, <2>1, GotoOK DEF Steps
  <2> QED  BY <1>1, <1>10, <2>1 DEF MarkUnknown, Crash, ReadFails, Initialize
<1>11. CASE \/ \E r \in Roles : Inspect(r) \/ ProbeExits(r)
            \/ Subscribe \/ Somebody \/ \E c \in Commands : Land(c)
            \/ UNCHANGED vars
  BY <1>1, <1>11 DEF Inspect, ProbeExits, Subscribe, Somebody, Land, vars
<1> QED  BY <1>3, <1>4, <1>5, <1>6, <1>7, <1>8, <1>9, <1>10, <1>11 DEF Next

-----------------------------------------------------------------------------
(* The receipt. *)

\* The fields of the receipt and of its sessions.
Fields == {"phase", "run", "closed"}
ReceiptShape ==
  /\ DOMAIN receipt = {"file", "workspace", "placement", "unknown", "cleaned", "sessions"}
  /\ DOMAIN receipt.sessions = Roles
  /\ \A r \in Roles : DOMAIN receipt.sessions[r] = Fields

\* One session of the receipt changes and nothing else that is asked for.
Changed(r, session) ==
  /\ ReceiptShape'
  /\ receipt'.file = receipt.file /\ receipt'.workspace = receipt.workspace
  /\ \A p \in Roles \ {r} : receipt'.sessions[p] = receipt.sessions[p]
  /\ receipt'.sessions[r] = session
SameSessions ==
  /\ ReceiptShape'
  /\ receipt'.file = receipt.file
  /\ receipt'.sessions = receipt.sessions

\* A field of one session is written.
LEMMA FieldWritten ==
  ASSUME ReceiptShape, NEW r \in Roles, NEW field \in Fields, NEW value,
         receipt' = [receipt EXCEPT !.sessions =
                       [@ EXCEPT ![r] = [receipt.sessions[r] EXCEPT ![field] = value]]]
  PROVE  Changed(r, [receipt.sessions[r] EXCEPT ![field] = value])
<1> DEFINE session == [receipt.sessions[r] EXCEPT ![field] = value]
<1>1. DOMAIN session = Fields  BY DEF ReceiptShape
<1> HIDE DEF session
<1>2. DOMAIN receipt' = DOMAIN receipt  OBVIOUS
<1>3. receipt'.sessions = [receipt.sessions EXCEPT ![r] = session]
  BY DEF ReceiptShape, session
<1>4. receipt'.file = receipt.file /\ receipt'.workspace = receipt.workspace
  BY DEF ReceiptShape
<1>5. DOMAIN receipt'.sessions = Roles  BY <1>3 DEF ReceiptShape
<1>6. \A p \in Roles : receipt'.sessions[p] = IF p = r THEN session ELSE receipt.sessions[p]
  BY <1>3 DEF ReceiptShape
<1>7. Changed(r, session)
  BY <1>1, <1>2, <1>4, <1>5, <1>6 DEF ReceiptShape, Changed
<1> QED  BY <1>7 DEF session

\* What a written field leaves of a session.
LEMMA FieldValues ==
  ASSUME ReceiptShape, NEW r \in Roles, NEW field \in Fields, NEW value
  PROVE  \A f \in Fields : [receipt.sessions[r] EXCEPT ![field] = value][f] =
           IF f = field THEN value ELSE receipt.sessions[r][f]
BY DEF ReceiptShape

\* What the actions do to the phases, the Runs and the Workspace of the receipt.
LEMMA PreparedChanges ==
  ASSUME ReceiptShape, NEW r \in Roles, receipt' = Prepared(r)
  PROVE  /\ Changed(r, [receipt.sessions[r] EXCEPT !.phase = "prepared"])
         /\ Session(r)'.phase = "prepared" /\ Session(r)'.run = Session(r).run
<1>1. receipt' = [receipt EXCEPT !.sessions =
                    [@ EXCEPT ![r] = [receipt.sessions[r] EXCEPT !.phase = "prepared"]]]
  BY DEF Prepared
<1>2. Changed(r, [receipt.sessions[r] EXCEPT !.phase = "prepared"])
  BY <1>1, FieldWritten DEF Fields
<1> QED  BY <1>2, FieldValues DEF Changed, Session, Fields

\* What observing a Run writes.
LEMMA ObservedChanges ==
  ASSUME ReceiptShape, NEW r \in Roles, NEW run, run # 0, receipt' = Observed(r, run)
  PROVE  /\ Changed(r, [receipt.sessions[r] EXCEPT !.run = run])
         /\ Session(r)'.run = run /\ Session(r)'.phase = Session(r).phase
<1>1. receipt' = [receipt EXCEPT !.sessions =
                    [@ EXCEPT ![r] = [receipt.sessions[r] EXCEPT !.run = run]]]
  BY DEF Observed
<1>2. Changed(r, [receipt.sessions[r] EXCEPT !.run = run])
  BY <1>1, FieldWritten DEF Fields
<1> QED  BY <1>2, FieldValues DEF Changed, Session, Fields

\* What closing a session writes.
LEMMA ClosedChanges ==
  ASSUME ReceiptShape, NEW r \in Roles,
         receipt' = [receipt EXCEPT !.sessions[r].closed = TRUE]
  PROVE  /\ Changed(r, [receipt.sessions[r] EXCEPT !.closed = TRUE])
         /\ Session(r)'.run = Session(r).run /\ Session(r)'.phase = Session(r).phase
<1>1. receipt' = [receipt EXCEPT !.sessions =
                    [@ EXCEPT ![r] = [receipt.sessions[r] EXCEPT !.closed = TRUE]]]
  OBVIOUS
<1>2. Changed(r, [receipt.sessions[r] EXCEPT !.closed = TRUE])
  BY <1>1, FieldWritten DEF Fields
<1> QED  BY <1>2, FieldValues DEF Changed, Session, Fields

\* What confirming a Shell writes: its session and the placement.
LEMMA ConfirmedChanges ==
  ASSUME ReceiptShape, NEW r \in Roles,
         receipt' = [receipt EXCEPT !.placement = TRUE, !.sessions[r].phase = "confirmed"]
  PROVE  /\ Changed(r, [receipt.sessions[r] EXCEPT !.phase = "confirmed"])
         /\ Session(r)'.run = Session(r).run /\ Session(r)'.phase = "confirmed"
<1> DEFINE session == [receipt.sessions[r] EXCEPT !.phase = "confirmed"]
<1>1. DOMAIN session = Fields  BY DEF ReceiptShape
<1>2. receipt' = [[receipt EXCEPT !.placement = TRUE] EXCEPT
                    !.sessions = [receipt.sessions EXCEPT ![r] = session]]
  BY DEF ReceiptShape
<1> HIDE DEF session
<1>3. /\ DOMAIN receipt' = DOMAIN receipt
      /\ receipt'.sessions = [receipt.sessions EXCEPT ![r] = session]
      /\ receipt'.file = receipt.file /\ receipt'.workspace = receipt.workspace
  BY <1>2 DEF ReceiptShape
<1>4. DOMAIN receipt'.sessions = Roles  BY <1>3 DEF ReceiptShape
<1>5. \A p \in Roles : receipt'.sessions[p] = IF p = r THEN session ELSE receipt.sessions[p]
  BY <1>3 DEF ReceiptShape
<1>6. Changed(r, session)
  BY <1>1, <1>3, <1>4, <1>5 DEF ReceiptShape, Changed
<1>7. Changed(r, [receipt.sessions[r] EXCEPT !.phase = "confirmed"])
  BY <1>6 DEF session
<1> QED  BY <1>7, FieldValues DEF Changed, Session, Fields

\* Marks and the Workspace are fields beside the sessions.
LEMMA FlagChanges ==
  ASSUME ReceiptShape, NEW field \in {"file", "workspace", "unknown", "cleaned"}, NEW value,
         receipt' = [receipt EXCEPT ![field] = value]
  PROVE  /\ ReceiptShape' /\ receipt'.sessions = receipt.sessions
         /\ field # "file" => receipt'.file = receipt.file
BY DEF ReceiptShape

SamePhases == \A r \in Roles : Session(r)'.phase = Session(r).phase
SameRuns == \A r \in Roles : Session(r)'.run = Session(r).run

\* A Run is observed: it is the one recorded, or the first one.
LEMMA ObservedStep ==
  ASSUME ReceiptShape, NEW r \in Roles, NEW run, Observes(r, run), receipt' = Observed(r, run)
  PROVE  /\ ReceiptShape' /\ receipt'.file = receipt.file /\ SamePhases
         /\ \A p \in Roles : Session(p).run # 0 => Session(p)'.run = Session(p).run
         /\ run # 0 => Session(r)'.run = run
<1>1. CASE run = 0
  <2>1. receipt' = receipt  BY <1>1 DEF Observed
  <2> QED  BY <1>1, <2>1 DEF ReceiptShape, SamePhases, Session
<1>2. CASE run # 0
  <2>1. /\ Changed(r, [receipt.sessions[r] EXCEPT !.run = run])
        /\ Session(r)'.run = run /\ Session(r)'.phase = Session(r).phase
    BY <1>2, ObservedChanges
  <2> QED  BY <1>2, <2>1 DEF Changed, SamePhases, Session, Observes
<1> QED  BY <1>1, <1>2

\* A page of events records first Runs only.
LEMMA SubscribeStep ==
  ASSUME ReceiptShape, Subscribe
  PROVE  /\ ReceiptShape' /\ receipt'.file = receipt.file /\ SamePhases
         /\ \A p \in Roles : Session(p).run # 0 => Session(p)'.run = Session(p).run
         /\ receipt.file # "ready" => SameRuns /\ receipt'.workspace = receipt.workspace
<1>1. PICK wanted \in SUBSET {r \in Roles : Confirmed(r)}, i, j \in 1 .. Len(boomux.events) :
        receipt' = [receipt EXCEPT !.sessions = [r \in Roles |->
          IF r \in wanted
          THEN [receipt.sessions[r] EXCEPT !.run = RunInPage(SubSeq(boomux.events, i, j), r)]
          ELSE receipt.sessions[r]]]
  BY DEF Subscribe
<1> DEFINE read(r) == RunInPage(SubSeq(boomux.events, i, j), r)
<1>2. \A r \in Roles : Session(r).run # 0 => read(r) = Session(r).run
  BY DEF RunInPage
<1>3. \A r \in Roles : receipt'.sessions[r] =
        IF r \in wanted THEN [receipt.sessions[r] EXCEPT !.run = read(r)] ELSE receipt.sessions[r]
  BY <1>1 DEF ReceiptShape
<1>4. /\ DOMAIN receipt' = DOMAIN receipt /\ DOMAIN receipt'.sessions = Roles
      /\ receipt'.file = receipt.file /\ receipt'.workspace = receipt.workspace
  BY <1>1 DEF ReceiptShape
<1> HIDE DEF read
<1>5. \A r \in Roles : /\ DOMAIN receipt'.sessions[r] = Fields
                       /\ receipt'.sessions[r].phase = receipt.sessions[r].phase
                       /\ receipt'.sessions[r].run =
                            IF r \in wanted THEN read(r) ELSE receipt.sessions[r].run
  <2> SUFFICES ASSUME NEW r \in Roles
               PROVE  /\ DOMAIN receipt'.sessions[r] = Fields
                      /\ receipt'.sessions[r].phase = receipt.sessions[r].phase
                      /\ receipt'.sessions[r].run =
                           IF r \in wanted THEN read(r) ELSE receipt.sessions[r].run
    OBVIOUS
  <2>1. CASE r \notin wanted  BY <1>3, <2>1 DEF ReceiptShape
  <2>2. CASE r \in wanted
    <3>1. receipt'.sessions[r] = [receipt.sessions[r] EXCEPT !["run"] = read(r)]
      BY <1>3, <2>2
    <3>2. DOMAIN receipt'.sessions[r] = Fields  BY <3>1 DEF ReceiptShape
    <3> QED  BY <2>2, <3>1, <3>2, FieldValues DEF Fields
  <2> QED  BY <2>1, <2>2
<1>6. receipt.file # "ready" => wanted = {}  BY DEF Confirmed
<1> QED  BY <1>2, <1>4, <1>5, <1>6 DEF ReceiptShape, SamePhases, SameRuns, Session

\* The actions that write the receipt, and what each leaves of the sessions.
LEMMA SessionsStep ==
  ASSUME ReceiptShape, CallOK, [Next]_vars
  PROVE  /\ ReceiptShape'
         /\ receipt'.file = receipt.file \/ (Initialize /\ receipt.file = "none")
         /\ \/ SamePhases /\ SameRuns
            \/ /\ Initialize /\ receipt.file = "none"
               /\ \A r \in Roles : Session(r)'.phase = "none" /\ Session(r)'.run = 0
            \/ /\ PrepareSession /\ SameRuns
               /\ \A r \in Roles :
                    Session(r)'.phase = IF r = call.role THEN "prepared" ELSE Session(r).phase
            \/ /\ ConfirmShell /\ Done /\ SameRuns
               /\ \A r \in Roles :
                    Session(r)'.phase = IF r = call.role THEN "confirmed" ELSE Session(r).phase
            \/ /\ (\E r \in Roles : Inspect(r)) \/ StartPresent \/ PollShell \/ Subscribe
               /\ SamePhases
               /\ \A r \in Roles : Session(r).run # 0 => Session(r)'.run = Session(r).run
               /\ receipt.file # "ready" => SameRuns \/ PollShell
<1>1. CASE UNCHANGED receipt
  BY <1>1 DEF ReceiptShape, SamePhases, SameRuns, Session
<1>2. CASE Initialize
  <2>1. CASE receipt' = NewReceipt
    BY <1>2, <2>1 DEF Initialize, NewReceipt, NoSession, ReceiptShape, Fields, Session
  <2>2. CASE receipt' = [receipt EXCEPT !.file = "torn"]
    <3>1. ReceiptShape' /\ receipt'.sessions = receipt.sessions  BY <2>2, FlagChanges
    <3> QED  BY <1>2, <3>1 DEF Initialize, SamePhases, SameRuns, Session
  <2> QED  BY <1>2, <2>1, <2>2 DEF Initialize
<1>3. CASE MarkUnknown \/ RecordWorkspace \/ RecordCleanup
  <2>1. ASSUME NEW field \in {"workspace", "unknown", "cleaned"}, NEW value,
               receipt' = [receipt EXCEPT ![field] = value]
        PROVE  ReceiptShape' /\ receipt'.file = receipt.file /\ SamePhases /\ SameRuns
    <3>1. ReceiptShape' /\ receipt'.sessions = receipt.sessions /\ receipt'.file = receipt.file
      BY <2>1, FlagChanges
    <3> QED  BY <3>1 DEF SamePhases, SameRuns, Session
  <2> QED  BY <1>1, <1>3, <2>1 DEF MarkUnknown, RecordWorkspace, RecordCleanup
<1>4. CASE PrepareSession
  <2>1. call.role \in Roles  BY <1>4 DEF PrepareSession, At, CallOK
  <2>2. receipt' = Prepared(call.role)  BY <1>4 DEF PrepareSession
  <2>3. ASSUME NEW r \in Roles, r = call.role
        PROVE  /\ Changed(r, [receipt.sessions[r] EXCEPT !.phase = "prepared"])
               /\ Session(r)'.phase = "prepared" /\ Session(r)'.run = Session(r).run
    BY <2>2, <2>3, PreparedChanges
  <2> QED  BY <1>4, <2>1, <2>3 DEF Changed, SameRuns, Session
<1>5. CASE ConfirmShell
  <2>1. CASE UNCHANGED receipt  BY <1>1, <2>1
  <2>2. CASE receipt' = [receipt EXCEPT !.placement = TRUE, !.sessions[call.role].phase = "confirmed"]
             /\ Done
    <3>1. call.role \in Roles  BY <1>5 DEF ConfirmShell, At, CallOK
    <3>2. ASSUME NEW r \in Roles, r = call.role
          PROVE  /\ Changed(r, [receipt.sessions[r] EXCEPT !.phase = "confirmed"])
                 /\ Session(r)'.phase = "confirmed" /\ Session(r)'.run = Session(r).run
      BY <2>2, <3>2, ConfirmedChanges
    <3> QED  BY <1>5, <2>2, <3>1, <3>2 DEF Changed, SameRuns, Session
  <2> QED  BY <1>5, <2>1, <2>2 DEF ConfirmShell
<1>6. CASE RecordClosed
  <2>1. CASE UNCHANGED receipt  BY <1>1, <2>1
  <2>2. CASE receipt' = [receipt EXCEPT !.sessions[call.role].closed = TRUE]
    <3>1. call.role \in Roles  BY <1>6 DEF RecordClosed, At, CallOK
    <3>2. ASSUME NEW r \in Roles, r = call.role
          PROVE  /\ Changed(r, [receipt.sessions[r] EXCEPT !.closed = TRUE])
                 /\ Session(r)'.phase = Session(r).phase /\ Session(r)'.run = Session(r).run
      BY <2>2, <3>2, ClosedChanges
    <3> QED  BY <3>1, <3>2 DEF Changed, SamePhases, SameRuns, Session
  <2> QED  BY <1>6, <2>1, <2>2 DEF RecordClosed
<1>7. ASSUME NEW r \in Roles, Inspect(r) \/ ((StartPresent \/ PollShell) /\ r = call.role)
      PROVE  \/ UNCHANGED receipt
             \/ /\ ReceiptShape' /\ receipt'.file = receipt.file /\ SamePhases
                /\ \A p \in Roles : Session(p).run # 0 => Session(p)'.run = Session(p).run
                /\ receipt.file # "ready" => PollShell
  <2>1. CASE Observes(r, boomux.shells[r].run) /\ receipt' = Observed(r, boomux.shells[r].run)
             /\ (receipt.file # "ready" => PollShell)
    BY <2>1, ObservedStep
  <2> QED  BY <1>7, <2>1 DEF Inspect, StartPresent, PollShell, Confirmed
<1>8. CASE StartPresent \/ PollShell
  <2>1. call.role \in Roles  BY <1>8 DEF StartPresent, PollShell, At, CallOK
  <2> QED  BY <1>1, <1>7, <1>8, <2>1
<1>9. CASE \E r \in Roles : Inspect(r)  BY <1>1, <1>7, <1>9
<1>10. CASE Subscribe  BY <1>10, SubscribeStep
<1>11. CASE UNCHANGED vars  BY <1>1, <1>11 DEF vars
<1> QED
  BY <1>1, <1>2, <1>3, <1>4, <1>5, <1>6, <1>8, <1>9, <1>10, <1>11
  DEF Next, Start, ProbeExits, StartCreate, MakeWorkspace, CreateShell, ConfirmPlacement, OpenShell,
      StartClose, CloseShell, StartCleanup, NextSession, CheckOwned, CloseWorkspace, ReadFails, Crash,
      Somebody, Land, Weak

\* No call gets beyond its first step while the receipt is not there.
NothingBefore ==
  receipt.file \in {"none", "torn"} =>
    /\ call.step \in {"none", "start"} /\ receipt.workspace = 0
    /\ \A r \in Roles : Session(r).phase = "none" /\ Session(r).run = 0

\* A receipt that is missing or torn stays without a session and without a Workspace.
LEMMA NothingBeforeStep ==
  ASSUME ReceiptShape, CallOK, NothingBefore, [Next]_vars
  PROVE  NothingBefore'
<1> SUFFICES ASSUME receipt'.file \in {"none", "torn"}
             PROVE  /\ call'.step \in {"none", "start"} /\ receipt'.workspace = 0
                    /\ \A r \in Roles : Session(r)'.phase = "none" /\ Session(r)'.run = 0
  BY DEF NothingBefore
<1>1. receipt.file \in {"none", "torn"}
  <2>1. receipt'.file = receipt.file \/ receipt.file = "none"  BY SessionsStep
  <2> QED  BY <2>1
<1>2. /\ call.step \in {"none", "start"} /\ receipt.workspace = 0
      /\ \A r \in Roles : Session(r).phase = "none" /\ Session(r).run = 0
  BY <1>1 DEF NothingBefore
<1>3. CASE UNCHANGED receipt /\ (UNCHANGED call \/ Done \/ call'.step = "start")
  BY <1>2, <1>3 DEF Session, Done, NoCall
<1>4. CASE Subscribe
  <2>1. SamePhases /\ SameRuns /\ receipt'.workspace = receipt.workspace
    BY <1>1, <1>4, SubscribeStep
  <2> QED  BY <1>2, <1>4, <2>1 DEF SamePhases, SameRuns, Subscribe
<1>5. CASE Initialize
  <2>1. receipt' = [receipt EXCEPT !.file = "torn"] /\ Done
    BY <1>5 DEF Initialize, NewReceipt
  <2>2. receipt'.sessions = receipt.sessions /\ receipt'.workspace = receipt.workspace
    BY <2>1 DEF ReceiptShape
  <2> QED  BY <1>2, <2>1, <2>2 DEF Session, Done, NoCall
<1>6. ~\E r \in Roles : Inspect(r)  BY <1>1 DEF Inspect, Confirmed
<1>7. CASE StartPresent \/ StartClose \/ StartCreate \/ StartCleanup
  <2>1. CASE StartPresent  BY <1>1, <1>3, <2>1 DEF StartPresent, Confirmed
  <2>2. CASE StartClose  BY <1>1, <1>3, <2>2 DEF StartClose, Confirmed
  <2>3. CASE StartCreate
    <3>1. receipt.file = "torn"  BY <1>1, <2>3 DEF StartCreate, ReceiptShape
    <3> QED  BY <1>3, <2>3, <3>1 DEF StartCreate
  <2>4. CASE StartCleanup  BY <1>2, <1>3, <2>4 DEF StartCleanup
  <2> QED  BY <1>7, <2>1, <2>2, <2>3, <2>4
<1>8. ASSUME NEW op, NEW r, Start(op, r) PROVE UNCHANGED receipt /\ call'.step = "start"
  BY <1>8 DEF Start, NoCall
<1>9. CASE \/ \E r \in Roles : ProbeExits(r)
           \/ Somebody \/ ReadFails \/ Crash \/ \E c \in Commands : Land(c)
           \/ UNCHANGED vars
  BY <1>2, <1>3, <1>9 DEF ProbeExits, Somebody, ReadFails, Crash, Land, vars
<1>10. /\ ~MakeWorkspace /\ ~RecordWorkspace /\ ~PrepareSession /\ ~CreateShell
       /\ ~ConfirmPlacement /\ ~ConfirmShell /\ ~OpenShell /\ ~PollShell
  BY <1>2
  DEF At, MakeWorkspace, RecordWorkspace, PrepareSession, CreateShell, ConfirmPlacement, ConfirmShell,
      OpenShell, PollShell
<1>11. /\ ~CloseShell /\ ~RecordClosed /\ ~NextSession /\ ~CheckOwned
       /\ ~CloseWorkspace /\ ~RecordCleanup /\ ~MarkUnknown
  BY <1>2
  DEF At, CloseShell, RecordClosed, NextSession, CheckOwned, CloseWorkspace, RecordCleanup, MarkUnknown
<1> QED
  BY <1>3, <1>4, <1>5, <1>6, <1>7, <1>8, <1>9, <1>10, <1>11 DEF Next

\* The receipt, the call and their beginning.
CallsSound == ReceiptShape /\ CallOK /\ NothingBefore

\* The shape of the receipt and the place in the call hold throughout.
LEMMA CallsSoundAlways == Spec => []CallsSound
<1>1. Init => CallsSound
  BY DEF Init, CallsSound, ReceiptShape, CallOK, NothingBefore, NewReceipt, NoSession, NoCall, Session,
         Fields
<1>2. CallsSound /\ [Next]_vars => CallsSound'
  BY SessionsStep, CallStep, NothingBeforeStep DEF CallsSound
<1> QED  BY <1>1, <1>2, PTL DEF Spec

-----------------------------------------------------------------------------
(* One create command for each session. *)

\* The phase of a session says whether its command may have been executed.
CreatedSound ==
  /\ created \in [Roles -> {0, 1}]
  /\ \A r \in Roles : Session(r).phase = "none" => created[r] = 0
  /\ call.step = "create" => Session(call.role).phase = "prepared" /\ created[call.role] = 0
  /\ call.step \in {"make", "made", "prepare"} => Session(call.role).phase = "none"

\* Every step keeps the phases ahead of the create commands.
LEMMA CreatedStep ==
  ASSUME CallsSound, CreatedSound, [Next]_vars
  PROVE  CreatedSound'
<1>0. SamePhases \/ Initialize \/ PrepareSession \/ ConfirmShell
  BY SessionsStep DEF CallsSound
<1>1. CASE SamePhases /\ UNCHANGED created
           /\ (UNCHANGED call \/ call'.step \notin {"create", "make", "made", "prepare"})
  <2>1. /\ created' \in [Roles -> {0, 1}]
        /\ \A r \in Roles : Session(r)'.phase = "none" => created'[r] = 0
    BY <1>1 DEF CreatedSound, SamePhases
  <2>2. CASE call'.step \notin {"create", "make", "made", "prepare"}
    BY <2>1, <2>2 DEF CreatedSound
  <2>3. CASE UNCHANGED call /\ call.step \in {"create", "make", "made", "prepare"}
    <3>1. call.role \in Roles  BY <2>3 DEF CallsSound, CallOK
    <3>2. call'.role = call.role /\ call'.step = call.step  BY <2>3
    <3>3. receipt'.sessions[call.role].phase = receipt.sessions[call.role].phase
      BY <1>1, <3>1 DEF SamePhases, Session
    <3> QED  BY <1>1, <2>1, <3>2, <3>3 DEF CreatedSound, Session
  <2> QED  BY <1>1, <2>2, <2>3
<1>2. ASSUME UNCHANGED receipt PROVE SamePhases
  BY <1>2 DEF SamePhases, Session
<1>3. CASE StartCreate
  <2>1. call.role \in Roles /\ UNCHANGED <<receipt, created>>
    BY <1>3 DEF StartCreate, CallsSound, CallOK, world, history
  <2>2. CASE Done  BY <1>1, <2>1, <2>2 DEF Done, NoCall, SamePhases, Session
  <2>3. CASE Session(call.role).phase = "none" /\ (Goto("prepare") \/ Goto("make"))
    <3>1. call'.role = call.role /\ call'.step # "create"
      BY <2>3 DEF Goto, CallsSound, CallOK
    <3> QED  BY <2>1, <2>3, <3>1 DEF CreatedSound, Session
  <2> QED  BY <1>3, <2>2, <2>3 DEF StartCreate
<1>4. CASE MakeWorkspace \/ RecordWorkspace
  <2>1. Session(call.role).phase = "none"
    BY <1>4 DEF MakeWorkspace, RecordWorkspace, At, CreatedSound
  <2>2. call.role \in Roles
    BY <1>4 DEF MakeWorkspace, RecordWorkspace, At, CallsSound, CallOK
  <2>3. SamePhases
    <3>1. ReceiptShape  BY DEF CallsSound
    <3>2. UNCHANGED receipt \/ receipt' = [receipt EXCEPT !["workspace"] = boomux.workspace]
      BY <1>4 DEF MakeWorkspace, RecordWorkspace, Weak
    <3>3. receipt'.sessions = receipt.sessions
      BY <3>1, <3>2, FlagChanges
    <3> QED  BY <3>3 DEF SamePhases, Session
  <2>4. UNCHANGED created
    BY <1>4 DEF MakeWorkspace, RecordWorkspace, Weak, Executes, WorkspaceCreate, Command, world, history
  <2>5. Goto("made") \/ Goto("prepare") \/ Goto("unknown")
    BY <1>4 DEF MakeWorkspace, RecordWorkspace, Weak
  <2>6. call'.role = call.role /\ call'.step # "create"
    BY <2>5 DEF Goto, CallsSound, CallOK
  <2>7. receipt'.sessions[call.role].phase = "none"
    BY <2>1, <2>2, <2>3 DEF SamePhases, Session
  <2>8. \A r \in Roles : Session(r)'.phase = "none" => created'[r] = 0
    BY <2>3, <2>4 DEF CreatedSound, SamePhases
  <2>9. created' \in [Roles -> {0, 1}]  BY <2>4 DEF CreatedSound
  <2> QED  BY <2>6, <2>7, <2>8, <2>9 DEF CreatedSound, Session
<1>5. CASE PrepareSession
  <2>1. call.role \in Roles /\ Session(call.role).phase = "none"
    BY <1>5 DEF PrepareSession, At, CallsSound, CallOK, CreatedSound
  <2>2. \A r \in Roles :
          Session(r)'.phase = IF r = call.role THEN "prepared" ELSE Session(r).phase
    <3>1. receipt' = Prepared(call.role) /\ ReceiptShape
      BY <1>5 DEF PrepareSession, CallsSound
    <3>2. ASSUME NEW r \in Roles, r = call.role
          PROVE  /\ Changed(r, [receipt.sessions[r] EXCEPT !.phase = "prepared"])
                 /\ Session(r)'.phase = "prepared"
      BY <3>1, <3>2, PreparedChanges
    <3> QED  BY <2>1, <3>2 DEF Changed, Session
  <2>3. call'.role = call.role /\ call'.step = "create" /\ UNCHANGED created
    BY <1>5 DEF PrepareSession, Goto, CallsSound, CallOK, world, history
  <2> QED  BY <2>1, <2>2, <2>3 DEF CreatedSound, Session
<1>6. ASSUME At("create"), Executes(Command("shell create", call.role)), UNCHANGED receipt,
             call'.step \notin {"create", "make", "made", "prepare"}
      PROVE  CreatedSound'
  <2>1. call.role \in Roles /\ Session(call.role).phase = "prepared" /\ created[call.role] = 0
    BY <1>6 DEF At, CallsSound, CallOK, CreatedSound
  <2>2. created' = [created EXCEPT ![call.role] = @ + 1]
    BY <1>6 DEF Executes, Command
  <2>3. created' = [created EXCEPT ![call.role] = 1]
    BY <2>1, <2>2
  <2> QED  BY <1>6, <2>1, <2>3 DEF CreatedSound, Session
<1>7. CASE CreateShell
  <2>1. Executes(Command("shell create", call.role)) /\ UNCHANGED receipt
    BY <1>7 DEF CreateShell, Weak
  <2>2. Goto("confirm") \/ Goto("unknown")  BY <1>7 DEF CreateShell, Weak
  <2>3. call'.step \in {"confirm", "unknown"}  BY <2>2 DEF Goto, CallsSound, CallOK
  <2> QED  BY <1>6, <1>7, <2>1, <2>3 DEF CreateShell
<1>8. CASE Crash
  <2>1. call'.step = "none" /\ UNCHANGED receipt  BY <1>8 DEF Crash, Done, NoCall
  <2>2. CASE UNCHANGED created  BY <1>1, <1>2, <2>1, <2>2
  <2>3. ASSUME NEW c \in Executing, Executes(c) PROVE CreatedSound'
    <3>1. CASE At("create")
      <4>1. c = Command("shell create", call.role)  BY <2>3, <3>1 DEF Executing, At
      <4> QED  BY <1>6, <2>1, <2>3, <3>1, <4>1
    <3>2. CASE ~At("create")
      <4>1. c \in {WorkspaceCreate, Command("open", call.role), Command("shell close", call.role),
                   WorkspaceClose}
        BY <2>3, <3>2 DEF Executing
      <4>2. ASSUME NEW kind \in {"workspace create", "open", "shell close", "workspace close"}, NEW r,
                   Executes(Command(kind, r))
            PROVE  UNCHANGED created
        BY <4>2 DEF Executes, Command
      <4>3. UNCHANGED created  BY <2>3, <4>1, <4>2 DEF WorkspaceCreate, WorkspaceClose
      <4> QED  BY <2>2, <4>3
    <3> QED  BY <3>1, <3>2
  <2> QED  BY <1>8, <2>2, <2>3 DEF Crash, history
<1>9. CASE ConfirmShell
  <2>1. UNCHANGED created /\ (Done \/ Goto("unknown"))  BY <1>9 DEF ConfirmShell, world, history
  <2>2. call'.step \in {"none", "unknown"}
    BY <2>1 DEF Done, NoCall, Goto, CallsSound, CallOK
  <2>3. CASE UNCHANGED receipt  BY <1>1, <1>2, <2>1, <2>2, <2>3
  <2>4. CASE receipt' = [receipt EXCEPT !.placement = TRUE, !.sessions[call.role].phase = "confirmed"]
    <3>1. call.role \in Roles /\ ReceiptShape  BY <1>9 DEF ConfirmShell, At, CallsSound, CallOK
    <3>2. ASSUME NEW r \in Roles, r = call.role
          PROVE  /\ Changed(r, [receipt.sessions[r] EXCEPT !.phase = "confirmed"])
                 /\ Session(r)'.phase = "confirmed"
      BY <2>4, <3>1, <3>2, ConfirmedChanges
    <3>3. \A r \in Roles : Session(r)'.phase = "none" => Session(r).phase = "none"
      BY <3>1, <3>2 DEF Changed, Session
    <3> QED  BY <2>1, <2>2, <3>3 DEF CreatedSound
  <2> QED  BY <1>9, <2>3, <2>4 DEF ConfirmShell
<1>10. CASE Initialize
  <2>1. receipt.file = "none" /\ call.step = "start" /\ UNCHANGED created
    BY <1>10 DEF Initialize, At, world, history
  <2>2. \A r \in Roles : created[r] = 0
    BY <2>1 DEF CallsSound, NothingBefore, CreatedSound
  <2>3. call'.step \in {"none", "start"}
    BY <1>10, <2>1 DEF Initialize, Done, NoCall
  <2> QED  BY <2>1, <2>2, <2>3 DEF CreatedSound
<1>11. CASE (\E r \in Roles : Inspect(r)) \/ Subscribe
  <2>1. SamePhases
    BY <1>0, <1>11 DEF Inspect, Subscribe, NoCall, At, Initialize, PrepareSession, ConfirmShell
  <2> QED  BY <1>1, <1>11, <2>1 DEF Inspect, Subscribe, world, history
<1>12. CASE StartPresent \/ PollShell
  <2>1. call.role \in Roles /\ UNCHANGED created
    BY <1>12 DEF StartPresent, PollShell, At, CallsSound, CallOK, world, history
  <2>2. SamePhases
    BY <1>0, <1>12 DEF StartPresent, PollShell, At, Initialize, PrepareSession, ConfirmShell
  <2>3. call'.step \notin {"create", "make", "made", "prepare"}
    BY <1>12 DEF StartPresent, PollShell, At, Done, NoCall, Goto, CallsSound, CallOK
  <2> QED  BY <1>1, <2>1, <2>2, <2>3
<1>13. CASE RecordClosed
  <2>1. call.role \in Roles /\ UNCHANGED created /\ ReceiptShape
    BY <1>13 DEF RecordClosed, At, CallsSound, CallOK, world, history
  <2>2. SamePhases
    BY <1>0, <1>13 DEF RecordClosed, At, Initialize, PrepareSession, ConfirmShell
  <2>3. call'.step \notin {"create", "make", "made", "prepare"}
    BY <1>13 DEF RecordClosed, At, Done, NoCall, Goto, CallsSound, CallOK
  <2> QED  BY <1>1, <2>1, <2>2, <2>3
<1>14. CASE MarkUnknown \/ RecordCleanup
  <2>1. SamePhases
    BY <1>0, <1>14 DEF MarkUnknown, RecordCleanup, At, Initialize, PrepareSession, ConfirmShell
  <2>2. call'.step \notin {"create", "make", "made", "prepare"} /\ UNCHANGED created
    BY <1>14 DEF MarkUnknown, RecordCleanup, Done, NoCall, Goto, CallsSound, CallOK, world, history
  <2> QED  BY <1>1, <2>1, <2>2
<1>15. CASE OpenShell \/ CloseShell \/ CloseWorkspace
  <2>1. UNCHANGED <<receipt, created>>
    BY <1>15 DEF OpenShell, CloseShell, CloseWorkspace, Weak, Executes, Command, WorkspaceClose
  <2>2. call'.step \in {"poll", "absent", "gone", "unknown"}
    BY <1>15 DEF OpenShell, CloseShell, CloseWorkspace, Weak, Goto, CallsSound, CallOK
  <2> QED  BY <1>1, <1>2, <2>1, <2>2
<1>16. CASE ReadFails \/ ConfirmPlacement \/ StartClose \/ StartCleanup \/ NextSession \/ CheckOwned
            \/ \E op \in {"create", "present", "close", "cleanup"}, r \in Roles \cup {NoRole} : Start(op, r)
  <2>1. UNCHANGED <<receipt, created>>
    BY <1>16
    DEF ReadFails, ConfirmPlacement, StartClose, StartCleanup, NextSession, CheckOwned, Start, world, history
  <2>2. call'.step \notin {"create", "make", "made", "prepare"}
    <3>1. CASE ReadFails \/ ConfirmPlacement \/ StartClose \/ StartCleanup \/ CheckOwned
      <4>1. \/ Done \/ Goto("unknown") \/ Goto("inspect") \/ Goto("close") \/ Goto("sessions")
            \/ Goto("end")
        BY <3>1 DEF ReadFails, ConfirmPlacement, StartClose, StartCleanup, CheckOwned
      <4> QED  BY <4>1 DEF Done, NoCall, Goto, CallsSound, CallOK
    <3>2. CASE NextSession
      <4>1. CASE Goto("owned")  BY <4>1 DEF Goto, CallsSound, CallOK
      <4>2. ASSUME NEW r, call' = [call EXCEPT !.step = "close", !.role = r]
            PROVE  call'.step = "close"
        BY <4>2 DEF CallsSound, CallOK
      <4> QED  BY <3>2, <4>1, <4>2 DEF NextSession
    <3>3. ASSUME NEW op, NEW r, Start(op, r) PROVE call'.step = "start"
      BY <3>3 DEF Start, NoCall
    <3> QED  BY <1>16, <3>1, <3>2, <3>3
  <2> QED  BY <1>1, <1>2, <2>1, <2>2
<1>17. CASE \/ \E r \in Roles : ProbeExits(r)
            \/ Somebody \/ \E c \in Commands : Land(c)
            \/ UNCHANGED vars
  BY <1>1, <1>2, <1>17 DEF ProbeExits, Somebody, Land, history, vars
<1> QED
  BY <1>3, <1>4, <1>5, <1>7, <1>8, <1>9, <1>10, <1>11, <1>12, <1>13, <1>14, <1>15, <1>16, <1>17
  DEF Next

\* A Shell is never created twice, whatever fails or crashes and however often
\* create is called again
\* (spikes/boomux-runtime-adapter/lib/adapter.mjs, the prepared session).
THEOREM CreateCorrect == Spec => []CreatedOnce
<1>1. Init => CreatedSound
  BY DEF Init, CreatedSound, NewReceipt, NoSession, NoCall, Session
<1>2. CallsSound /\ CreatedSound /\ [Next]_vars => CreatedSound'
  BY CreatedStep
<1>3. CreatedSound => CreatedOnce  BY DEF CreatedSound, CreatedOnce
<1> QED  BY <1>1, <1>2, <1>3, CallsSoundAlways, PTL DEF Spec

-----------------------------------------------------------------------------
(* A Run that was shown stays the session's Run. *)

\* A running Shell has a Run.
BoomuxOK(b) ==
  /\ DOMAIN b = DOMAIN NewBoomux
  /\ b.runs \in Nat
  /\ b.shells \in [Roles -> [status : {"absent", "pending", "running", "exited"}, run : Nat]]
  /\ \A r \in Roles : b.shells[r].status = "running" => b.shells[r].run # 0

\* One Shell changes.
LEMMA ShellChanged ==
  ASSUME BoomuxOK(boomux), NEW r \in Roles, NEW b,
         NEW shell \in [status : {"absent", "pending", "running", "exited"}, run : Nat],
         shell.status = "running" => shell.run # 0,
         DOMAIN b = DOMAIN boomux, b.runs \in Nat, b.shells = [boomux.shells EXCEPT ![r] = shell]
  PROVE  BoomuxOK(b)
BY DEF BoomuxOK

\* What the user makes of a Shell.
LEMMA UserOK ==
  ASSUME BoomuxOK(boomux), NEW r \in Roles
  PROVE  BoomuxOK(Opened(boomux, r)) /\ BoomuxOK(Closed(boomux, r))
<1>1. boomux.runs \in Nat /\ {"shells", "runs", "events"} \subseteq DOMAIN boomux
  BY DEF BoomuxOK, NewBoomux
<1>2. BoomuxOK(Closed(boomux, r))
  <2>1. /\ DOMAIN Closed(boomux, r) = DOMAIN boomux /\ Closed(boomux, r).runs = boomux.runs
        /\ Closed(boomux, r).shells = [boomux.shells EXCEPT ![r] = NoShell]
    BY <1>1 DEF Closed
  <2>2. NoShell \in [status : {"absent", "pending", "running", "exited"}, run : Nat]
        /\ NoShell.status # "running"
    BY DEF NoShell
  <2> QED  BY <1>1, <2>1, <2>2, ShellChanged
<1>3. BoomuxOK(Opened(boomux, r))
  <2>1. CASE boomux.shells[r].status = "running"  BY <2>1 DEF Opened
  <2>2. CASE boomux.shells[r].status # "running"
    <3> DEFINE shell == [status |-> "running", run |-> boomux.runs + 1]
    <3>1. /\ DOMAIN Opened(boomux, r) = DOMAIN boomux
          /\ Opened(boomux, r).runs = boomux.runs + 1
          /\ Opened(boomux, r).shells = [boomux.shells EXCEPT ![r] = shell]
      BY <1>1, <2>2 DEF Opened
    <3>2. /\ shell \in [status : {"absent", "pending", "running", "exited"}, run : Nat]
          /\ shell.run # 0 /\ boomux.runs + 1 \in Nat
      BY <1>1
    <3> HIDE DEF shell
    <3> QED  BY <3>1, <3>2, ShellChanged
  <2> QED  BY <2>1, <2>2
<1> QED  BY <1>2, <1>3

\* What the daemon makes of a command.
LEMMA EffectOK ==
  ASSUME BoomuxOK(boomux), NEW c \in Commands
  PROVE  BoomuxOK(Effect(c))
<1>1. /\ boomux.runs \in Nat /\ DOMAIN boomux = DOMAIN NewBoomux
      /\ {"shells", "runs", "events", "workspace", "made"} \subseteq DOMAIN boomux
  BY DEF BoomuxOK, NewBoomux
<1>2. CASE c[1] = "workspace create"
  <2>1. /\ DOMAIN Effect(c) = DOMAIN boomux /\ Effect(c).runs = boomux.runs
        /\ Effect(c).shells = boomux.shells
    BY <1>1, <1>2 DEF Effect
  <2> QED  BY <1>1, <2>1 DEF BoomuxOK
<1>3. CASE c[1] \in {"shell create", "open", "shell close"}
  <2>1. c[2] \in Roles
    <3>1. CASE c \in {"shell create", "open", "shell close"} \X Roles  BY <3>1
    <3>2. CASE c = WorkspaceCreate \/ c = WorkspaceClose
      <4>1. WorkspaceCreate[1] = "workspace create" /\ WorkspaceClose[1] = "workspace close"
        BY DEF WorkspaceCreate, WorkspaceClose, Command
      <4> QED  BY <1>3, <3>2, <4>1
    <3> QED  BY <3>1, <3>2 DEF Commands
  <2>2. CASE c[1] = "shell create"
    <3> DEFINE shell == [NoShell EXCEPT !.status = "pending"]
    <3>1. /\ DOMAIN Effect(c) = DOMAIN boomux /\ Effect(c).runs = boomux.runs
          /\ Effect(c).shells = [boomux.shells EXCEPT ![c[2]] = shell]
      BY <1>1, <2>2 DEF Effect
    <3>2. /\ shell \in [status : {"absent", "pending", "running", "exited"}, run : Nat]
          /\ shell.status # "running"
      BY DEF NoShell
    <3> HIDE DEF shell
    <3> QED  BY <1>1, <2>1, <3>1, <3>2, ShellChanged
  <2>3. CASE c[1] = "open"  BY <2>1, <2>3, UserOK DEF Effect
  <2>4. CASE c[1] = "shell close"  BY <2>1, <2>4, UserOK DEF Effect
  <2> QED  BY <1>3, <2>2, <2>3, <2>4
<1>4. CASE c[1] \notin {"workspace create", "shell create", "open", "shell close"}
  <2>1. /\ DOMAIN Effect(c) = DOMAIN NewBoomux /\ Effect(c).runs = boomux.runs
        /\ Effect(c).shells = [r \in Roles |-> NoShell]
    BY <1>4 DEF Effect, NewBoomux
  <2> QED  BY <1>1, <2>1 DEF BoomuxOK, NoShell
<1> QED  BY <1>2, <1>3, <1>4

\* Every step leaves Boomux with a Run for every running Shell.
LEMMA BoomuxStep ==
  ASSUME CallsSound, BoomuxOK(boomux), [Next]_vars
  PROVE  BoomuxOK(boomux')
<1>1. CASE UNCHANGED boomux  BY <1>1
<1>2. ASSUME NEW c \in Commands, boomux' = Effect(c) PROVE BoomuxOK(boomux')
  BY <1>2, EffectOK
<1>3. CASE MakeWorkspace \/ CreateShell \/ OpenShell \/ CloseShell \/ CloseWorkspace
  <2>1. PICK c \in Commands : boomux' = boomux \/ boomux' = Effect(c)
    BY <1>3
    DEF MakeWorkspace, CreateShell, OpenShell, CloseShell, CloseWorkspace, Weak, Commands,
        WorkspaceCreate, WorkspaceClose, Command, At, CallsSound, CallOK
  <2> QED  BY <1>2, <2>1
<1>4. ASSUME NEW c \in Commands, Land(c) PROVE BoomuxOK(boomux')
  BY <1>1, <1>2, <1>4 DEF Land
<1>5. ASSUME NEW r \in Roles, ProbeExits(r) PROVE BoomuxOK(boomux')
  <2> DEFINE shell == [boomux.shells[r] EXCEPT !.status = "exited"]
  <2>1. /\ DOMAIN boomux' = DOMAIN boomux /\ boomux'.runs = boomux.runs
        /\ boomux'.shells = [boomux.shells EXCEPT ![r] = shell]
    BY <1>5 DEF ProbeExits, BoomuxOK, NewBoomux
  <2>2. /\ shell \in [status : {"absent", "pending", "running", "exited"}, run : Nat]
        /\ shell.status = "exited" /\ boomux.runs \in Nat
    BY DEF BoomuxOK
  <2> HIDE DEF shell
  <2> QED  BY <2>1, <2>2, ShellChanged
<1>6. CASE Somebody
  <2>1. ASSUME NEW r \in Roles, boomux' = Opened(boomux, r) \/ boomux' = Closed(boomux, r)
        PROVE  BoomuxOK(boomux')
    BY <2>1, UserOK
  <2>2. CASE boomux' = [boomux EXCEPT !.foreign = TRUE]  BY <2>2 DEF BoomuxOK, NewBoomux
  <2> QED  BY <1>6, <2>1, <2>2 DEF Somebody
<1>7. CASE Initialize \/ StartCreate \/ RecordWorkspace \/ PrepareSession \/ ConfirmPlacement
           \/ ConfirmShell \/ StartPresent \/ PollShell \/ Subscribe
  BY <1>1, <1>7
  DEF Initialize, StartCreate, RecordWorkspace, PrepareSession, ConfirmPlacement, ConfirmShell,
      StartPresent, PollShell, Subscribe, world, history
<1>8. CASE StartClose \/ RecordClosed \/ StartCleanup \/ NextSession \/ CheckOwned \/ RecordCleanup
           \/ MarkUnknown \/ ReadFails \/ Crash
  BY <1>1, <1>8
  DEF StartClose, RecordClosed, StartCleanup, NextSession, CheckOwned, RecordCleanup, MarkUnknown,
      ReadFails, Crash, world, history
<1>9. CASE \/ \E op \in {"create", "present", "close", "cleanup"}, r \in Roles \cup {NoRole} : Start(op, r)
           \/ \E r \in Roles : Inspect(r)
           \/ UNCHANGED vars
  BY <1>1, <1>9 DEF Start, Inspect, world, history, vars
<1> QED
  BY <1>3, <1>4, <1>5, <1>6, <1>7, <1>8, <1>9 DEF Next

\* What was shown of a session is its recorded Run.
ShownSound ==
  /\ DOMAIN shown = Roles
  /\ \A r \in Roles : \A run \in shown[r] : run # 0 /\ run = Session(r).run

\* A recorded Run is never replaced, and only the recorded one is shown.
LEMMA ShownStep ==
  ASSUME CallsSound, BoomuxOK(boomux), ShownSound, [Next]_vars
  PROVE  ShownSound'
<1>1. \A r \in Roles : Session(r).run # 0 => Session(r)'.run = Session(r).run
  <2>1. CASE \A r \in Roles : Session(r).run = 0  BY <2>1
  <2>2. receipt.file = "none" => \A r \in Roles : Session(r).run = 0
    BY DEF CallsSound, NothingBefore
  <2> QED  BY <2>1, <2>2, SessionsStep DEF CallsSound, SameRuns
<1>2. CASE UNCHANGED shown  BY <1>1, <1>2 DEF ShownSound
<1>3. CASE PollShell /\ ~UNCHANGED shown
  <2>1. call.role \in Roles  BY <1>3 DEF PollShell, At, CallsSound, CallOK
  <2>2. ASSUME NEW r \in Roles, r = call.role
        PROVE  /\ shown' = [shown EXCEPT ![r] = @ \cup {boomux.shells[r].run}]
               /\ boomux.shells[r].run # 0 /\ Session(r)'.run = boomux.shells[r].run
    <3>1. /\ Observes(r, boomux.shells[r].run) /\ receipt' = Observed(r, boomux.shells[r].run)
          /\ boomux.shells[r].status = "running"
          /\ shown' = [shown EXCEPT ![r] = @ \cup {boomux.shells[r].run}]
      BY <1>3, <2>2 DEF PollShell
    <3>2. boomux.shells[r].run # 0  BY <3>1 DEF BoomuxOK
    <3> QED  BY <3>1, <3>2, ObservedStep DEF CallsSound
  <2> QED  BY <1>1, <2>1, <2>2 DEF ShownSound
<1> QED
  BY <1>2, <1>3
  DEF Next, Initialize, Start, Inspect, ProbeExits, StartCreate, MakeWorkspace, RecordWorkspace,
      PrepareSession, CreateShell, ConfirmPlacement, ConfirmShell, StartPresent, OpenShell, Subscribe,
      StartClose, CloseShell, RecordClosed, StartCleanup, NextSession, CheckOwned, CloseWorkspace,
      RecordCleanup, MarkUnknown, ReadFails, Crash, Somebody, Land, Weak, vars

\* A replacement Run is never shown as the session's
\* (spikes/boomux-runtime-adapter/lib/adapter.mjs, recordObservedRun).
THEOREM RunCorrect == Spec => []RunNeverSubstituted
<1>1. Init => BoomuxOK(boomux) /\ ShownSound
  BY DEF Init, BoomuxOK, NewBoomux, NoShell, ShownSound
<1>2. CallsSound /\ (BoomuxOK(boomux) /\ ShownSound) /\ [Next]_vars => (BoomuxOK(boomux) /\ ShownSound)'
  BY BoomuxStep, ShownStep
<1>3. ShownSound => RunNeverSubstituted  BY DEF ShownSound, RunNeverSubstituted
<1> QED  BY <1>1, <1>2, <1>3, CallsSoundAlways, PTL DEF Spec

-----------------------------------------------------------------------------
(* No Shell is left to the close of its Workspace. *)

Creation(r) == Command("shell create", r)

\* The kind of a command, and the role that it is about.
LEMMA CommandParts ==
  ASSUME NEW c \in Commands
  PROVE  /\ c[1] \in {"workspace create", "workspace close", "shell create", "open", "shell close"}
         /\ c[1] \in {"shell create", "open", "shell close"} => c[2] \in Roles
         /\ \A r \in Roles : c = Creation(r) <=> c[1] = "shell create" /\ c[2] = r
         /\ c = WorkspaceClose <=> c[1] = "workspace close"
<1>1. CASE c = WorkspaceCreate \/ c = WorkspaceClose
  <2>1. WorkspaceCreate[1] = "workspace create" /\ WorkspaceClose[1] = "workspace close"
    BY DEF WorkspaceCreate, WorkspaceClose, Command
  <2>2. \A r \in Roles : Creation(r)[1] = "shell create"  BY DEF Creation, Command
  <2> QED  BY <1>1, <2>1, <2>2
<1>2. ASSUME NEW kind \in {"shell create", "open", "shell close"}, NEW p \in Roles, c = <<kind, p>>
      PROVE  /\ c[1] \in {"shell create", "open", "shell close"} /\ c[2] \in Roles
             /\ \A r \in Roles : c = Creation(r) <=> c[1] = "shell create" /\ c[2] = r
             /\ c # WorkspaceClose
  BY <1>2 DEF WorkspaceClose, Command, Creation
<1>3. \/ c = WorkspaceCreate \/ c = WorkspaceClose
      \/ c \in {"shell create", "open", "shell close"} \X Roles
  BY DEF Commands
<1>4. CASE c \in {"shell create", "open", "shell close"} \X Roles
  <2> DEFINE kinds == {"shell create", "open", "shell close"}
  <2> HIDE DEF kinds
  <2>1. c \in kinds \X Roles  BY <1>4 DEF kinds
  <2>2. c[1] \in kinds /\ c[2] \in Roles  BY <2>1
  <2>3. c = <<c[1], c[2]>>  BY <2>1
  <2>4. /\ c[1] \in {"shell create", "open", "shell close"} /\ c[2] \in Roles
        /\ c = <<c[1], c[2]>>
    BY <2>2, <2>3 DEF kinds
  <2>5. /\ c[1] \in {"shell create", "open", "shell close"} /\ c[2] \in Roles
        /\ \A r \in Roles : c = Creation(r) <=> c[1] = "shell create" /\ c[2] = r
        /\ c # WorkspaceClose
    BY <1>2, <2>4
  <2> QED  BY <2>5
<1> QED  BY <1>1, <1>3, <1>4

\* The command of a step.
LEMMA ExecutingKinds ==
  ASSUME NEW c \in Executing
  PROVE  \/ At("make") /\ c = WorkspaceCreate
         \/ At("create") /\ c = Creation(call.role)
         \/ At("open") /\ c = Command("open", call.role)
         \/ At("close") /\ c = Command("shell close", call.role)
         \/ At("end") /\ c = WorkspaceClose
<1>1. CASE call.step = "make"  BY <1>1 DEF Executing, At
<1>2. CASE call.step = "create"  BY <1>2 DEF Executing, At, Creation
<1>3. CASE call.step = "open"  BY <1>3 DEF Executing, At
<1>4. CASE call.step = "close"  BY <1>4 DEF Executing, At
<1>5. CASE call.step = "end"  BY <1>5 DEF Executing, At
<1>6. CASE call.step \notin {"make", "create", "open", "close", "end"}
  BY <1>6 DEF Executing, At
<1> QED  BY <1>1, <1>2, <1>3, <1>4, <1>5, <1>6

\* Only the command that creates a Shell makes one appear.
LEMMA EffectExisting ==
  ASSUME BoomuxOK(boomux), NEW c \in Commands, Accepts(c), boomux' = Effect(c)
  PROVE  \A r \in Roles : r \in Existing' => r \in Existing \/ c = Creation(r)
<1> SUFFICES ASSUME NEW r \in Roles, r \in Existing', r \notin Existing PROVE c = Creation(r)
  OBVIOUS
<1>1. /\ boomux.shells \in [Roles -> [status : {"absent", "pending", "running", "exited"}, run : Nat]]
      /\ "shells" \in DOMAIN boomux /\ boomux.shells[r].status = "absent"
  BY DEF BoomuxOK, NewBoomux, Existing
<1>2. Effect(c).shells[r].status # "absent"  BY DEF Existing
<1>3. CASE c[1] = "workspace create"  BY <1>1, <1>2, <1>3 DEF Effect
<1>4. CASE c[1] = "workspace close"  BY <1>2, <1>4 DEF Effect, NewBoomux, NoShell
<1>5. CASE c[1] = "shell close"  BY <1>1, <1>2, <1>5, CommandParts DEF Effect, Closed, NoShell
<1>6. CASE c[1] = "open"
  <2>1. c[2] \in Roles /\ c[2] \in Existing  BY <1>6, CommandParts DEF Accepts
  <2>2. c[2] # r /\ Effect(c) = Opened(boomux, c[2])  BY <1>6, <2>1 DEF Effect
  <2>3. Opened(boomux, c[2]).shells[r] = boomux.shells[r]  BY <1>1, <2>1, <2>2 DEF Opened
  <2> QED  BY <1>1, <1>2, <2>2, <2>3
<1>7. CASE c[1] = "shell create"
  <2>1. c[2] \in Roles  BY <1>7, CommandParts
  <2>2. CASE c[2] # r  BY <1>1, <1>2, <1>7, <2>1, <2>2 DEF Effect
  <2> QED  BY <1>7, <2>2, CommandParts
<1> QED  BY <1>3, <1>4, <1>5, <1>6, <1>7, CommandParts

\* What the user does makes no Shell of the adapter appear.
LEMMA SomebodyExisting ==
  ASSUME BoomuxOK(boomux), Somebody
  PROVE  \A r \in Roles : r \in Existing' => r \in Existing
<1> SUFFICES ASSUME NEW r \in Roles, r \in Existing' PROVE r \in Existing
  OBVIOUS
<1>1. /\ boomux.shells \in [Roles -> [status : {"absent", "pending", "running", "exited"}, run : Nat]]
      /\ "shells" \in DOMAIN boomux
  BY DEF BoomuxOK, NewBoomux
<1>2. ASSUME NEW p \in Roles, Accepts(Command("open", p)), boomux' = Opened(boomux, p)
      PROVE  r \in Existing
  <2>1. p \in Existing  BY <1>2 DEF Accepts, Command
  <2>2. CASE p # r
    <3>1. Opened(boomux, p).shells[r] = boomux.shells[r]  BY <1>1, <2>2 DEF Opened
    <3> QED  BY <1>2, <3>1 DEF Existing
  <2> QED  BY <2>1, <2>2
<1>3. ASSUME NEW p \in Roles, boomux' = Closed(boomux, p) PROVE r \in Existing
  BY <1>1, <1>3 DEF Closed, NoShell, Existing
<1>4. CASE boomux' = [boomux EXCEPT !.foreign = TRUE]  BY <1>1, <1>4 DEF Existing
<1> QED  BY <1>2, <1>3, <1>4 DEF Somebody

\* What a step does to the Shells that exist, to their creations and to the record
\* of the Workspace's close.
Appears(r) == r \in Existing' => r \in Existing
Created(r) == At("create") /\ r = call.role /\ created'[r] # 0
WorldKept ==
  /\ \A r \in Roles :
       /\ created'[r] = created[r] \/ Created(r)
       /\ \/ Appears(r)
          \/ Creation(r) \in late /\ Creation(r) \notin late'
          \/ Created(r) /\ late' = late
       /\ \/ Creation(r) \in late' => Creation(r) \in late
          \/ Created(r) /\ (Appears(r))
  /\ \/ ended' = ended
     \/ At("end") /\ ended' = {r \in Roles : created[r] # 0}

\* A step that runs no command and lets none take effect.
LEMMA WorldUntouched ==
  ASSUME UNCHANGED <<late, created, ended>>, \A r \in Roles : Appears(r) PROVE WorldKept
BY DEF WorldKept

\* A command is executed, and takes effect now, later or not at all.
LEMMA CommandKept ==
  ASSUME CallsSound, CreatedSound, NEW c \in Executing, c \in Commands, Executes(c),
         late' \in {late, late \cup {c}}, late' = late \/ boomux' = boomux,
         \A r \in Roles : r \in Existing' => r \in Existing \/ c = Creation(r)
  PROVE  WorldKept
<1>1. \A r \in Roles : c = Creation(r) => At("create") /\ r = call.role
  <2> SUFFICES ASSUME NEW r \in Roles, c = Creation(r) PROVE At("create") /\ r = call.role
    OBVIOUS
  <2>1. c[1] = "shell create" /\ c[2] = r  BY CommandParts
  <2> QED
    BY <2>1, ExecutingKinds DEF WorkspaceCreate, WorkspaceClose, Creation, Command
<1>2. c = WorkspaceClose => At("end")
  <2> SUFFICES ASSUME c = WorkspaceClose PROVE At("end")
    OBVIOUS
  <2>1. /\ WorkspaceClose # WorkspaceCreate
        /\ \A kind \in {"open", "shell create", "shell close"} : \A r : WorkspaceClose # Command(kind, r)
    BY DEF WorkspaceClose, WorkspaceCreate, Command
  <2> QED  BY <2>1, ExecutingKinds DEF Creation
<1>3. \A r \in Roles : created'[r] = IF c = Creation(r) THEN created[r] + 1 ELSE created[r]
  BY CommandParts DEF Executes, CreatedSound
<1>4. \A r \in Roles : c = Creation(r) => Created(r)
  BY <1>1, <1>3 DEF Created, CreatedSound
<1>5. boomux' = boomux => \A r \in Roles : Appears(r)  BY DEF Appears, Existing
<1>6. ended' = ended \/ (At("end") /\ ended' = {r \in Roles : created[r] # 0})
  BY <1>2 DEF Executes
<1> QED  BY <1>3, <1>4, <1>5, <1>6 DEF WorldKept, Appears

\* A weak command of the call.
LEMMA WeakKept ==
  ASSUME CallsSound, CreatedSound, BoomuxOK(boomux), NEW c \in Executing, c \in Commands,
         NEW next, NEW failed, Weak(c, next, failed)
  PROVE  WorldKept
<1>1. /\ Executes(c) /\ late' \in {late, late \cup {c}} /\ (late' = late \/ boomux' = boomux)
      /\ boomux' = boomux \/ (Accepts(c) /\ boomux' = Effect(c))
  BY DEF Weak
<1>2. \A r \in Roles : r \in Existing' => r \in Existing \/ c = Creation(r)
  BY <1>1, EffectExisting DEF Existing
<1> QED  BY <1>1, <1>2, CommandKept

\* Every step keeps to that.
LEMMA WorldStep ==
  ASSUME CallsSound, CreatedSound, BoomuxOK(boomux), [Next]_vars
  PROVE  WorldKept
<1>1. CASE UNCHANGED <<boomux, late, created, ended>>
  BY <1>1, WorldUntouched DEF Appears, Existing
<1>2. ASSUME NEW c \in Executing PROVE c \in Commands
  <2>1. call.step \in {"create", "open", "close"} => call.role \in Roles
    BY DEF CallsSound, CallOK
  <2>2. \A kind \in {"shell create", "open", "shell close"}, p \in Roles :
          Command(kind, p) \in Commands
    BY DEF Commands, Command
  <2>3. WorkspaceCreate \in Commands /\ WorkspaceClose \in Commands  BY DEF Commands
  <2> QED  BY <1>2, <2>1, <2>2, <2>3, ExecutingKinds DEF Creation, At
<1>3. CASE MakeWorkspace \/ CreateShell \/ OpenShell \/ CloseShell \/ CloseWorkspace
  <2>1. CASE MakeWorkspace
    BY <1>2, <2>1, WeakKept DEF MakeWorkspace, Executing, At
  <2>2. CASE CreateShell
    <3>1. Command("shell create", call.role) \in Executing  BY <2>2 DEF CreateShell, Executing, At
    <3> QED  BY <1>2, <2>2, <3>1, WeakKept DEF CreateShell
  <2>3. CASE OpenShell
    <3>1. Command("open", call.role) \in Executing  BY <2>3 DEF OpenShell, Executing, At
    <3> QED  BY <1>2, <2>3, <3>1, WeakKept DEF OpenShell
  <2>4. CASE CloseShell
    <3>1. Command("shell close", call.role) \in Executing  BY <2>4 DEF CloseShell, Executing, At
    <3> QED  BY <1>2, <2>4, <3>1, WeakKept DEF CloseShell
  <2>5. CASE CloseWorkspace
    <3>1. WorkspaceClose \in Executing  BY <2>5 DEF CloseWorkspace, Executing, At
    <3> QED  BY <1>2, <2>5, <3>1, WeakKept DEF CloseWorkspace
  <2> QED  BY <1>3, <2>1, <2>2, <2>3, <2>4, <2>5
<1>4. CASE Crash
  <2>1. CASE UNCHANGED <<late, history>>  BY <1>1, <1>4, <2>1 DEF Crash, history
  <2>2. ASSUME NEW c \in Executing, late' = late \cup {c}, Executes(c) PROVE WorldKept
    <3>1. boomux' = boomux  BY <1>4 DEF Crash
    <3>2. \A r \in Roles : r \in Existing' => r \in Existing  BY <3>1 DEF Existing
    <3> QED  BY <1>2, <2>2, <3>1, <3>2, CommandKept
  <2> QED  BY <1>4, <2>1, <2>2 DEF Crash
<1>5. ASSUME NEW c \in Commands, Land(c) PROVE WorldKept
  <2>1. c \in late /\ late' = late \ {c} /\ UNCHANGED <<created, ended>>
        /\ boomux' = IF Accepts(c) THEN Effect(c) ELSE boomux
    BY <1>5 DEF Land, history
  <2>2. \A r \in Roles : r \in Existing' => r \in Existing \/ c = Creation(r)
    BY <2>1, EffectExisting DEF Existing
  <2> QED  BY <2>1, <2>2 DEF WorldKept, Appears
<1>6. ASSUME NEW r \in Roles, ProbeExits(r) PROVE WorldKept
  <2>1. boomux.shells[r].status = "running"
        /\ boomux'.shells = [boomux.shells EXCEPT ![r] = [boomux.shells[r] EXCEPT !.status = "exited"]]
    BY <1>6 DEF ProbeExits, BoomuxOK, NewBoomux
  <2>2. \A p \in Roles : p \in Existing' => p \in Existing
    BY <2>1 DEF Existing, BoomuxOK
  <2> QED  BY <1>6, <2>2, WorldUntouched DEF ProbeExits, history, Appears
<1>7. CASE Somebody
  BY <1>7, SomebodyExisting, WorldUntouched DEF Somebody, history, Appears
<1>8. CASE Initialize \/ StartCreate \/ RecordWorkspace \/ PrepareSession \/ ConfirmPlacement
           \/ ConfirmShell \/ StartPresent \/ PollShell \/ Subscribe
  BY <1>1, <1>8
  DEF Initialize, StartCreate, RecordWorkspace, PrepareSession, ConfirmPlacement, ConfirmShell,
      StartPresent, PollShell, Subscribe, world, history
<1>9. CASE StartClose \/ RecordClosed \/ StartCleanup \/ NextSession \/ CheckOwned \/ RecordCleanup
           \/ MarkUnknown \/ ReadFails
  BY <1>1, <1>9
  DEF StartClose, RecordClosed, StartCleanup, NextSession, CheckOwned, RecordCleanup, MarkUnknown,
      ReadFails, world, history
<1>10. CASE \/ \E op \in {"create", "present", "close", "cleanup"}, r \in Roles \cup {NoRole} : Start(op, r)
            \/ \E r \in Roles : Inspect(r)
            \/ UNCHANGED vars
  BY <1>1, <1>10 DEF Start, Inspect, world, history, vars
<1> QED
  BY <1>3, <1>4, <1>5, <1>6, <1>7, <1>8, <1>9, <1>10 DEF Next

\* How a call gets to the steps of closing: the receipt is as it was, and the step
\* before decided.
Entering(step) == call'.step = step /\ call.step # step
LEMMA PlaceStep ==
  ASSUME CallsSound, [Next]_vars
  PROVE  /\ call'.step \in {"close", "absent", "owned", "end"} => UNCHANGED receipt
         /\ Entering("close") => Session(call'.role).phase = "confirmed"
         /\ Entering("absent") => At("close")
         /\ call'.step \in {"close", "absent"} /\ call.step \in {"close", "absent"} => call'.role = call.role
         /\ Entering("owned") => Recorded = {}
         /\ Entering("end") => At("owned") /\ OwnedPlacement /\ UNCHANGED <<boomux, late>>
<1> DEFINE Closing == {"close", "absent", "owned", "end"}
           Goal == /\ call'.step \in Closing => UNCHANGED receipt
                   /\ Entering("close") => Session(call'.role).phase = "confirmed"
                   /\ Entering("absent") => At("close")
                   /\ call'.step \in {"close", "absent"} /\ call.step \in {"close", "absent"} =>
                        call'.role = call.role
                   /\ Entering("owned") => Recorded = {}
                   /\ Entering("end") => At("owned") /\ OwnedPlacement /\ UNCHANGED <<boomux, late>>
<1> SUFFICES Goal  OBVIOUS
<1>1. CASE UNCHANGED call /\ (UNCHANGED receipt \/ call.step \notin Closing)
  BY <1>1 DEF Entering
<1>2. CASE call'.step \notin Closing  BY <1>2 DEF Entering
<1>3. CASE Done  BY <1>2, <1>3 DEF Done, NoCall
<1>4. ASSUME NEW step, step \notin Closing, Goto(step) PROVE Goal
  BY <1>2, <1>4 DEF Goto, CallsSound, CallOK
<1>5. CASE StartCreate \/ MakeWorkspace \/ RecordWorkspace \/ PrepareSession \/ CreateShell
           \/ ConfirmPlacement \/ ConfirmShell \/ StartPresent \/ OpenShell
  <2>1. \/ Done \/ Goto("prepare") \/ Goto("make") \/ Goto("made") \/ Goto("create") \/ Goto("confirm")
        \/ Goto("inspect") \/ Goto("unknown") \/ Goto("open") \/ Goto("poll")
    BY <1>5
    DEF StartCreate, MakeWorkspace, RecordWorkspace, PrepareSession, CreateShell, ConfirmPlacement,
        ConfirmShell, StartPresent, OpenShell, Weak
  <2> QED  BY <1>3, <1>4, <2>1
<1>6. CASE RecordClosed \/ StartCleanup \/ CloseWorkspace \/ RecordCleanup
  <2>1. Done \/ Goto("sessions") \/ Goto("gone") \/ Goto("unknown")
    BY <1>6 DEF RecordClosed, StartCleanup, CloseWorkspace, RecordCleanup, Weak
  <2> QED  BY <1>3, <1>4, <2>1
<1>7. CASE StartClose
  <2>1. CASE Goto("close") /\ Confirmed(call.role) /\ UNCHANGED receipt /\ call.step = "start"
    BY <2>1 DEF Goto, Confirmed, Session, Entering, CallsSound, CallOK
  <2> QED  BY <1>3, <1>7, <2>1 DEF StartClose, At
<1>8. CASE CloseShell
  <2>1. CASE Goto("absent") /\ UNCHANGED receipt /\ call.step = "close"
    BY <2>1 DEF Goto, Entering, At, CallsSound, CallOK
  <2> QED  BY <1>4, <1>8, <2>1 DEF CloseShell, Weak, At
<1>9. CASE NextSession
  <2>1. CASE Goto("owned") /\ Recorded = {} /\ UNCHANGED receipt
    BY <2>1 DEF Goto, Entering, CallsSound, CallOK
  <2>2. ASSUME NEW r \in Recorded, call' = [call EXCEPT !.step = "close", !.role = r],
               UNCHANGED receipt, call.step = "sessions"
        PROVE  Goal
    BY <2>2 DEF Recorded, Entering, Session, CallsSound, CallOK
  <2> QED  BY <1>9, <2>1, <2>2 DEF NextSession, At
<1>10. CASE CheckOwned
  <2>1. CASE Goto("end") /\ OwnedPlacement /\ UNCHANGED <<receipt, boomux, late>> /\ call.step = "owned"
    BY <2>1 DEF Goto, Entering, At, CallsSound, CallOK
  <2> QED  BY <1>3, <1>10, <2>1 DEF CheckOwned, At, world
<1>11. CASE PollShell
  <2>1. CASE call' = [call EXCEPT !.polls = @ + 1] /\ call.step = "poll"
    BY <1>2, <2>1 DEF CallsSound, CallOK
  <2> QED  BY <1>3, <1>4, <1>11, <2>1 DEF PollShell, At
<1>12. ASSUME NEW op, NEW r, Start(op, r) PROVE Goal
  BY <1>2, <1>12 DEF Start, NoCall
<1>13. CASE Initialize \/ MarkUnknown \/ ReadFails \/ Crash
  <2>1. Done \/ Goto("unknown") \/ (UNCHANGED call /\ call.step = "start")
    BY <1>13 DEF Initialize, MarkUnknown, ReadFails, Crash, At
  <2> QED  BY <1>1, <1>3, <1>4, <2>1
<1>14. CASE (\E r \in Roles : Inspect(r)) \/ Subscribe
  <2>1. UNCHANGED call /\ call.step = "none"  BY <1>14 DEF Inspect, Subscribe, NoCall
  <2> QED  BY <1>1, <2>1
<1>15. CASE (\E r \in Roles : ProbeExits(r)) \/ Somebody \/ (\E c \in Commands : Land(c)) \/ UNCHANGED vars
  BY <1>1, <1>15 DEF ProbeExits, Somebody, Land, vars
<1> HIDE DEF Goal
<1> HIDE DEF Closing
<1>16. (\E op \in {"create", "present", "close", "cleanup"}, r \in Roles \cup {NoRole} : Start(op, r)) => Goal
  BY <1>12
<1>17. \/ StartCreate \/ MakeWorkspace \/ RecordWorkspace \/ PrepareSession \/ CreateShell
       \/ ConfirmPlacement \/ ConfirmShell \/ StartPresent \/ OpenShell
       \/ RecordClosed \/ StartCleanup \/ CloseWorkspace \/ RecordCleanup
       \/ StartClose \/ CloseShell \/ NextSession \/ CheckOwned \/ PollShell
       \/ \E op \in {"create", "present", "close", "cleanup"}, r \in Roles \cup {NoRole} : Start(op, r)
       \/ Initialize \/ MarkUnknown \/ ReadFails \/ Crash
       \/ (\E r \in Roles : Inspect(r)) \/ Subscribe
       \/ (\E r \in Roles : ProbeExits(r)) \/ Somebody \/ (\E c \in Commands : Land(c)) \/ UNCHANGED vars
  BY DEF Next
<1> QED
  BY <1>5, <1>6, <1>7, <1>8, <1>9, <1>10, <1>11, <1>13, <1>14, <1>15, <1>16, <1>17

\* A session is recorded as closed once its Shell was seen to be gone.
LEMMA ClosedStep ==
  ASSUME CallsSound, [Next]_vars
  PROVE  \A r \in Roles : Session(r)'.closed =>
           Session(r).closed \/ (At("absent") /\ r = call.role /\ r \notin Existing /\ UNCHANGED boomux)
<1> SUFFICES ASSUME NEW r \in Roles, Session(r)'.closed, ~Session(r).closed
             PROVE  At("absent") /\ r = call.role /\ r \notin Existing /\ UNCHANGED boomux
  OBVIOUS
<1>1. ReceiptShape /\ CallOK  BY DEF CallsSound
<1>2. ~UNCHANGED receipt /\ receipt'.sessions # receipt.sessions  BY DEF Session
<1>3. \A p \in Roles, field \in Fields \ {"closed"} : \A value :
        ~Changed(p, [receipt.sessions[p] EXCEPT ![field] = value])
  <2> SUFFICES ASSUME NEW p \in Roles, NEW field \in Fields, field # "closed", NEW value,
                      Changed(p, [receipt.sessions[p] EXCEPT ![field] = value])
               PROVE  FALSE
    OBVIOUS
  <2>1. CASE p # r  BY <2>1 DEF Changed, Session
  <2>2. CASE p = r
    <3>1. [receipt.sessions[p] EXCEPT ![field] = value].closed = receipt.sessions[p].closed
      BY <1>1 DEF ReceiptShape, Fields
    <3> QED  BY <2>2, <3>1 DEF Changed, Session
  <2> QED  BY <2>1, <2>2
<1>4. ~Initialize
  <2>1. receipt' = NewReceipt => FALSE  BY DEF NewReceipt, NoSession, Session
  <2>2. receipt' = [receipt EXCEPT !.file = "torn"] => receipt'.sessions = receipt.sessions
    BY <1>1, FlagChanges
  <2> QED  BY <1>2, <2>1, <2>2 DEF Initialize
<1>5. ~MarkUnknown /\ ~RecordWorkspace /\ ~RecordCleanup
  <2>1. ASSUME NEW field \in {"workspace", "unknown", "cleaned"}, NEW value,
               receipt' = [receipt EXCEPT ![field] = value]
        PROVE  FALSE
    BY <1>1, <1>2, <2>1, FlagChanges
  <2> QED  BY <1>2, <2>1 DEF MarkUnknown, RecordWorkspace, RecordCleanup
<1>6. ~PrepareSession
  <2>1. ASSUME PrepareSession PROVE FALSE
    <3>1. call.role \in Roles /\ receipt' = Prepared(call.role)
      BY <1>1, <2>1 DEF PrepareSession, At, CallOK
    <3>2. PICK p \in Roles : p = call.role  BY <3>1
    <3>3. Changed(p, [receipt.sessions[p] EXCEPT !["phase"] = "prepared"])
      BY <1>1, <3>1, <3>2, PreparedChanges
    <3> QED  BY <1>3, <3>3 DEF Fields
  <2> QED  BY <2>1
<1>7. ~ConfirmShell
  <2>1. ASSUME ConfirmShell PROVE FALSE
    <3>1. call.role \in Roles BY <1>1, <2>1 DEF ConfirmShell, At, CallOK
    <3>2. PICK p \in Roles : p = call.role  BY <3>1
    <3>3. receipt' = [receipt EXCEPT !.placement = TRUE, !.sessions[p].phase = "confirmed"]
      BY <1>2, <2>1, <3>2 DEF ConfirmShell
    <3>4. Changed(p, [receipt.sessions[p] EXCEPT !["phase"] = "confirmed"])
      BY <1>1, <3>3, ConfirmedChanges
    <3> QED  BY <1>3, <3>4 DEF Fields
  <2> QED  BY <2>1
<1>8. ASSUME NEW p \in Roles, NEW run, receipt' = Observed(p, run) PROVE FALSE
  <2>1. run # 0  BY <1>2, <1>8 DEF Observed
  <2>2. Changed(p, [receipt.sessions[p] EXCEPT !["run"] = run])
    BY <1>1, <1>8, <2>1, ObservedChanges
  <2> QED  BY <1>3, <2>2 DEF Fields
<1>9. ~(\E p \in Roles : Inspect(p)) /\ ~StartPresent /\ ~PollShell
  <2>1. ~\E p \in Roles : Inspect(p)  BY <1>8 DEF Inspect
  <2>2. StartPresent \/ PollShell => call.role \in Roles  BY <1>1 DEF StartPresent, PollShell, At, CallOK
  <2>3. PollShell => \E run : receipt' = Observed(call.role, run)  BY <1>2 DEF PollShell
  <2>4. StartPresent => \E run : receipt' = Observed(call.role, run)  BY <1>2 DEF StartPresent
  <2> QED  BY <1>8, <2>1, <2>2, <2>3, <2>4
<1>10. ~Subscribe
  <2>1. ASSUME Subscribe PROVE FALSE
    <3>1. PICK wanted \in SUBSET {p \in Roles : Confirmed(p)}, i, j \in 1 .. Len(boomux.events) :
            receipt' = [receipt EXCEPT !.sessions = [p \in Roles |->
              IF p \in wanted
              THEN [receipt.sessions[p] EXCEPT !.run = RunInPage(SubSeq(boomux.events, i, j), p)]
              ELSE receipt.sessions[p]]]
      BY <2>1 DEF Subscribe
    <3> DEFINE read(p) == RunInPage(SubSeq(boomux.events, i, j), p)
    <3>2. receipt'.sessions[r] =
            IF r \in wanted THEN [receipt.sessions[r] EXCEPT !.run = read(r)] ELSE receipt.sessions[r]
      BY <1>1, <3>1 DEF ReceiptShape
    <3> HIDE DEF read
    <3>3. receipt'.sessions[r].closed = receipt.sessions[r].closed
      BY <1>1, <3>2 DEF ReceiptShape, Fields
    <3> QED  BY <3>3 DEF Session
  <2> QED  BY <2>1
<1>11. CASE RecordClosed
  <2>1. call.role \in Roles /\ call.role \notin Existing /\ UNCHANGED boomux /\ At("absent")
    BY <1>1, <1>2, <1>11 DEF RecordClosed, At, CallOK, world
  <2>2. PICK p \in Roles : p = call.role  BY <2>1
  <2>3. receipt' = [receipt EXCEPT !.sessions[p].closed = TRUE]
    BY <1>2, <1>11, <2>2 DEF RecordClosed
  <2>4. Changed(p, [receipt.sessions[p] EXCEPT !.closed = TRUE])
    BY <1>1, <2>3, ClosedChanges
  <2>5. p = r  BY <2>4 DEF Changed, Session
  <2> QED  BY <2>1, <2>2, <2>5
<1> QED
  BY <1>2, <1>4, <1>5, <1>6, <1>7, <1>9, <1>10, <1>11
  DEF Next, Start, ProbeExits, StartCreate, MakeWorkspace, CreateShell, ConfirmPlacement, OpenShell,
      StartClose, CloseShell, StartCleanup, NextSession, CheckOwned, CloseWorkspace, ReadFails, Crash,
      Somebody, Land, Weak, vars

\* The phase of a session only advances, and is confirmed for a Shell that is there.
LEMMA PhaseStep ==
  ASSUME CallsSound, CreatedSound, [Next]_vars
  PROVE  \A r \in Roles :
           /\ Session(r).phase = "confirmed" => Session(r)'.phase = "confirmed"
           /\ Session(r).phase = "prepared" =>
                \/ Session(r)'.phase = "prepared"
                \/ r \in Existing /\ UNCHANGED <<boomux, late>>
<1> SUFFICES ASSUME NEW r \in Roles
             PROVE  /\ Session(r).phase = "confirmed" => Session(r)'.phase = "confirmed"
                    /\ Session(r).phase = "prepared" =>
                         \/ Session(r)'.phase = "prepared"
                         \/ r \in Existing /\ UNCHANGED <<boomux, late>>
  OBVIOUS
<1>1. CASE SamePhases  BY <1>1 DEF SamePhases
<1>2. CASE Initialize /\ receipt.file = "none"
  BY <1>2 DEF CallsSound, NothingBefore
<1>3. CASE PrepareSession
  <2>1. Session(call.role).phase = "none"  BY <1>3 DEF PrepareSession, At, CreatedSound
  <2>2. SamePhases \/ Session(r)'.phase = IF r = call.role THEN "prepared" ELSE Session(r).phase
    BY <1>3, SessionsStep DEF CallsSound, PrepareSession, Initialize, ConfirmShell, At
  <2> QED  BY <1>1, <2>1, <2>2
<1>4. CASE ConfirmShell
  <2>1. SamePhases \/ Session(r)'.phase = IF r = call.role THEN "confirmed" ELSE Session(r).phase
    BY <1>4, SessionsStep DEF CallsSound, PrepareSession, Initialize, ConfirmShell, At
  <2>2. CASE r # call.role  BY <1>1, <2>1, <2>2
  <2>3. CASE UNCHANGED receipt  BY <2>3 DEF Session
  <2>4. CASE boomux.shells[call.role].status = "pending" /\ r = call.role
    BY <1>1, <1>4, <2>1, <2>4 DEF ConfirmShell, Existing, world
  <2> QED  BY <1>4, <2>2, <2>3, <2>4 DEF ConfirmShell
<1> QED  BY <1>1, <1>2, <1>3, <1>4, SessionsStep DEF CallsSound

\* A creation that is still to take effect belongs to a prepared session, a closed
\* session has no Shell, and the close of the Workspace comes when no Shell is left.
GoneSound ==
  /\ \A r \in Roles :
       /\ created[r] = 0 => r \notin Existing /\ Creation(r) \notin late
       /\ Creation(r) \in late => Session(r).phase = "prepared" /\ r \notin Existing
       /\ Session(r).closed => Session(r).phase = "confirmed" /\ r \notin Existing
  /\ call.step \in {"close", "absent"} => Session(call.role).phase = "confirmed"
  /\ call.step = "owned" => Recorded = {}
  /\ call.step = "end" => \A r \in Roles : r \notin Existing /\ Creation(r) \notin late
  /\ ended \subseteq Roles
  /\ \A r \in ended : created[r] # 0 /\ r \notin Existing /\ Creation(r) \notin late

\* Every step keeps that.
LEMMA GoneStep ==
  ASSUME CallsSound, CreatedSound, BoomuxOK(boomux), GoneSound, [Next]_vars
  PROVE  GoneSound'
<1>0. /\ WorldKept /\ created \in [Roles -> {0, 1}]
      /\ At("create") => Session(call.role).phase = "prepared" /\ created[call.role] = 0
  BY WorldStep DEF CreatedSound, At
<1>1. \A r \in Roles : created[r] # 0 => created'[r] # 0
  BY <1>0 DEF WorldKept, Created
<1>2. ASSUME NEW r \in Roles
      PROVE  created'[r] = 0 => r \notin Existing' /\ Creation(r) \notin late'
  BY <1>0, <1>1 DEF WorldKept, Created, Appears, GoneSound
<1>3. ASSUME NEW r \in Roles, Creation(r) \in late'
      PROVE  Session(r)'.phase = "prepared" /\ r \notin Existing'
  <2>1. CASE Creation(r) \in late
    <3>1. Session(r).phase = "prepared" /\ r \notin Existing  BY <2>1 DEF GoneSound
    <3>2. created[r] # 0  BY <2>1 DEF GoneSound
    <3>3. ~(At("create") /\ r = call.role)  BY <1>0, <3>2
    <3>4. r \notin Existing'  BY <1>0, <1>3, <3>1, <3>3 DEF WorldKept, Created, Appears
    <3> QED  BY <3>1, <3>4, PhaseStep
  <2>2. CASE Creation(r) \notin late
    <3>1. Created(r) /\ Appears(r)  BY <1>0, <1>3, <2>2 DEF WorldKept
    <3>2. Session(r).phase = "prepared" /\ created[r] = 0  BY <1>0, <3>1 DEF Created
    <3>3. r \notin Existing  BY <3>2 DEF GoneSound
    <3> QED  BY <3>1, <3>2, <3>3, PhaseStep DEF Appears
  <2> QED  BY <2>1, <2>2
<1>4. ASSUME NEW r \in Roles, Session(r).phase = "confirmed"
      PROVE  Session(r)'.phase = "confirmed" /\ (r \in Existing' => r \in Existing)
  <2>1. Creation(r) \notin late  BY <1>4 DEF GoneSound
  <2>2. ~(At("create") /\ r = call.role)  BY <1>0, <1>4
  <2> QED  BY <1>0, <1>4, <2>1, <2>2, PhaseStep DEF WorldKept, Created, Appears
<1>5. ASSUME NEW r \in Roles, Session(r)'.closed
      PROVE  Session(r)'.phase = "confirmed" /\ r \notin Existing'
  <2>1. CASE Session(r).closed  BY <1>4, <2>1 DEF GoneSound
  <2>2. CASE At("absent") /\ r = call.role /\ r \notin Existing /\ UNCHANGED boomux
    <3>1. Session(r).phase = "confirmed"  BY <2>2 DEF GoneSound, At
    <3> QED  BY <1>4, <2>2, <3>1
  <2> QED  BY <1>5, <2>1, <2>2, ClosedStep
<1>6. call'.step \in {"close", "absent"} => Session(call.role)'.phase = "confirmed"
  <2> SUFFICES ASSUME call'.step \in {"close", "absent"} PROVE Session(call.role)'.phase = "confirmed"
    OBVIOUS
  <2>1. UNCHANGED receipt  BY PlaceStep
  <2>2. CASE call.step \in {"close", "absent"}
    <3>1. call'.role = call.role  BY <2>2, PlaceStep
    <3> QED  BY <2>1, <2>2, <3>1 DEF GoneSound, Session
  <2>3. CASE call.step \notin {"close", "absent"}
    <3>1. Session(call'.role).phase = "confirmed"
      BY <2>3, PlaceStep DEF Entering, At
    <3> QED  BY <2>1, <3>1 DEF Session
  <2> QED  BY <2>2, <2>3
<1>7. call'.step = "owned" => Recorded' = {}
  <2> SUFFICES ASSUME call'.step = "owned" PROVE Recorded' = {}
    OBVIOUS
  <2>1. UNCHANGED receipt /\ Recorded = {}  BY PlaceStep DEF Entering, GoneSound
  <2> QED  BY <2>1 DEF Recorded, Session
<1>8. ASSUME call'.step = "end", NEW r \in Roles
      PROVE  r \notin Existing' /\ Creation(r) \notin late'
  <2>1. CASE call.step = "end"
    <3>1. r \notin Existing /\ Creation(r) \notin late /\ ~At("create")
      BY <2>1 DEF GoneSound, At
    <3> QED  BY <1>0, <3>1 DEF WorldKept, Created, Appears
  <2>2. CASE call.step # "end"
    <3>1. At("owned") /\ OwnedPlacement /\ UNCHANGED <<boomux, late>>
      BY <1>8, <2>2, PlaceStep DEF Entering
    <3>2. Existing = {} /\ Session(r).phase # "prepared"
      BY <3>1 DEF OwnedPlacement, GoneSound, At
    <3> QED  BY <3>1, <3>2 DEF GoneSound, Existing
  <2> QED  BY <2>1, <2>2
<1>9. ended' \subseteq Roles
  BY <1>0 DEF WorldKept, GoneSound
<1>10. ASSUME NEW r \in ended'
       PROVE  created'[r] # 0 /\ r \notin Existing' /\ Creation(r) \notin late'
  <2>1. r \in Roles /\ created[r] # 0 /\ r \notin Existing /\ Creation(r) \notin late
    BY <1>0, <1>10 DEF WorldKept, GoneSound, At
  <2>2. ~(At("create") /\ r = call.role)  BY <1>0, <2>1
  <2> QED  BY <1>0, <1>1, <2>1, <2>2 DEF WorldKept, Created, Appears
<1> QED  BY <1>2, <1>3, <1>5, <1>6, <1>7, <1>8, <1>9, <1>10 DEF GoneSound

\* Nothing that the adapter created is left to the close of the Workspace
\* (spikes/boomux-runtime-adapter/lib/adapter.mjs, cleanup).
THEOREM CleanupCorrect == Spec => []GoneBeforeItsWorkspace
<1>1. Init => BoomuxOK(boomux) /\ CreatedSound /\ GoneSound
  BY DEF Init, BoomuxOK, NewBoomux, NoShell, CreatedSound, GoneSound, Existing, NewReceipt, NoSession,
         NoCall, Session
<1>2. CallsSound /\ (BoomuxOK(boomux) /\ CreatedSound /\ GoneSound) /\ [Next]_vars
        => (BoomuxOK(boomux) /\ CreatedSound /\ GoneSound)'
  BY BoomuxStep, CreatedStep, GoneStep
<1>3. GoneSound => GoneBeforeItsWorkspace
  BY DEF GoneSound, GoneBeforeItsWorkspace, Creation
<1> QED  BY <1>1, <1>2, <1>3, CallsSoundAlways, PTL DEF Spec

=============================================================================
