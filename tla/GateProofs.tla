------------------------------- MODULE GateProofs -------------------------------
(* Theorems about RemoteGate, for every set of roles and every bound.         *)
EXTENDS RemoteGate, SequenceTheorems, FiniteSetTheorems, TLAPS

-----------------------------------------------------------------------------
(* The receipt. *)

ReceiptFields ==
  {"file", "preflight", "remotePreflight", "blocked", "state", "intent", "mapped", "runner", "runs"}
Shaped(r) == DOMAIN r = ReceiptFields /\ DOMAIN r.state = Operations

\* An operation whose command nobody may have executed yet.
Early(r, op) == r.state[op] \in {"none", "intended"}

\* A write that takes no operation back to before its attempt.
Advances(r) ==
  /\ Shaped(r) /\ r.file = receipt.file
  /\ \A op \in Operations : Early(r, op) => Early(receipt, op)

\* Fields beside the states and the file.
LEMMA FieldAdvances ==
  ASSUME NEW r, Advances(r), NEW field \in ReceiptFields \ {"file", "state"}, NEW value
  PROVE  Advances([r EXCEPT ![field] = value])
<1> DEFINE w == [r EXCEPT ![field] = value]
<1>1. DOMAIN w = DOMAIN r /\ w.file = r.file /\ w.state = r.state
  BY DEF Advances, Shaped, ReceiptFields
<1> HIDE DEF w
<1>2. Advances(w)  BY <1>1 DEF Advances, Shaped, Early
<1> QED  BY <1>2 DEF w

\* One operation is attempted, ambiguous or confirmed.
LEMMA StateAdvances ==
  ASSUME Shaped(receipt), NEW op \in Operations, NEW value \in {"attempted", "ambiguous", "confirmed"}
  PROVE  /\ Advances([receipt EXCEPT !.state[op] = value])
         /\ ~Early([receipt EXCEPT !.state[op] = value], op)
<1> DEFINE w == [receipt EXCEPT !.state[op] = value]
<1>1. /\ DOMAIN w = DOMAIN receipt /\ w.file = receipt.file
      /\ w.state = [receipt.state EXCEPT ![op] = value]
  BY DEF Shaped, ReceiptFields
<1> HIDE DEF w
<1>2. DOMAIN w.state = Operations
      /\ \A o \in Operations : w.state[o] = IF o = op THEN value ELSE receipt.state[o]
  BY <1>1 DEF Shaped
<1>3. Advances(w) /\ ~Early(w, op)  BY <1>1, <1>2 DEF Advances, Shaped, Early
<1> QED  BY <1>3 DEF w

\* A confirmation that clears the block of its own operation.
LEMMA ConfirmedAdvances ==
  ASSUME Shaped(receipt), NEW op \in Operations
  PROVE  Advances(Confirmed(op))
<1> DEFINE w == [receipt EXCEPT !.state[op] = "confirmed"]
<1>1. Advances(w)  BY StateAdvances
<1>2. Confirmed(op) = w \/ Confirmed(op) = [w EXCEPT !.blocked = NoOperation]
  BY DEF Confirmed, Unblocked
<1> HIDE DEF w
<1>3. "blocked" \in ReceiptFields \ {"file", "state"}  BY DEF ReceiptFields
<1>4. Advances([w EXCEPT !["blocked"] = NoOperation])  BY <1>1, <1>3, FieldAdvances
<1> QED  BY <1>1, <1>2, <1>4

\* A plan intends operations that may still be intended.
LEMMA PlannedAdvances ==
  ASSUME Shaped(receipt), NEW ops, NEW path,
         \A op \in ops : Replayable(op, path)
  PROVE  Advances(Planned(ops, path))
<1>1. /\ DOMAIN Planned(ops, path) = DOMAIN receipt /\ Planned(ops, path).file = receipt.file
      /\ Planned(ops, path).state =
           [op \in Operations |-> IF op \in ops THEN "intended" ELSE receipt.state[op]]
  BY DEF Shaped, ReceiptFields, Planned
<1>2. \A op \in ops : Early(receipt, op)  BY DEF Replayable, Early
<1> QED  BY <1>1, <1>2 DEF Advances, Shaped, Early

\* What the plans name.
LEMMA OperationNames ==
  /\ WorkspaceCreate \in Operations /\ RunnerStart \in Operations /\ UnitStop \in Operations
  /\ FilesRemove \in Operations /\ WorkspaceClose \in Operations
  /\ \A r \in Roles : <<"shell-create", r>> \in Operations /\ <<"present", r>> \in Operations
                      /\ <<"represent", r>> \in Operations
                      /\ <<"cleanup-shell-close", r>> \in Operations
BY DEF Operations, CleanupOperations, ForRole

-----------------------------------------------------------------------------
(* Attempts and executions. *)

\* A command is executed at most once: by then its attempt is recorded, and an
\* attempt is made only of an operation nobody attempted before.
Sound ==
  /\ Shaped(receipt) /\ DOMAIN desk = {"plan", "attempting"}
  /\ executed \in [Operations -> {0, 1}]
  /\ \A op \in Operations : Early(receipt, op) => executed[op] = 0 /\ desk.attempting # op
  /\ \A op \in Operations : desk.attempting = op => executed[op] = 0
  /\ receipt.file = "none" => \A op \in Operations : Early(receipt, op)

\* Nothing but a record of the receipt, which takes no operation back.
LEMMA AdvancingStep ==
  ASSUME Sound, Advances(receipt'), UNCHANGED executed, desk'.attempting = desk.attempting,
         DOMAIN desk' = DOMAIN desk, receipt.file # "none"
  PROVE  Sound'
BY DEF Sound, Advances

\* Each plan.
LEMMA PlanOK ==
  ASSUME Sound, NEW order, NEW path, Plan(order, path)
  PROVE  Sound'
<1>1. receipt' = Planned(ToSet(order), path) /\ Advances(Planned(ToSet(order), path))
  BY PlannedAdvances DEF Plan, Update, Sound
<1> QED  BY <1>1, AdvancingStep DEF Plan, Update, Authorized, Loaded, worldVars, Sound

\* All of them.
LEMMA PlanStepOK ==
  ASSUME Sound, PlanStep
  PROVE  Sound'
<1>1. CASE PlanWorkspaceCreate \/ PlanPresentAll \/ PlanRepresentAll
  BY <1>1, PlanOK DEF PlanWorkspaceCreate, PlanPresentAll, PlanRepresentAll
<1>2. ASSUME NEW socket \in Paths, PlanShellCreates(socket) \/ PlanRunnerStart(socket)
      PROVE  Sound'
  BY <1>2, PlanOK DEF PlanShellCreates, PlanRunnerStart
<1>3. CASE PlanCleanup
  <2>1. ASSUME NEW k \in 1 .. Len(CleanupOrder) - 1,
               \A i \in 1 .. k : Replayable(CleanupOrder[i], NoPath),
               receipt' = Planned({CleanupOrder[i] : i \in 1 .. k}, NoPath),
               UNCHANGED <<worldVars, desk>>
        PROVE  Sound'
    <3>1. Advances(receipt')  BY <2>1, PlannedAdvances DEF Sound
    <3> QED  BY <1>3, <2>1, <3>1, AdvancingStep DEF PlanCleanup, Authorized, Loaded, worldVars
  <2> QED  BY <1>3, <2>1, PlanOK DEF PlanCleanup
<1> QED  BY <1>1, <1>2, <1>3 DEF PlanStep

\* A confirmation, with a field of the readback.
LEMMA ConfirmOK ==
  ASSUME Sound, NEW op, NEW r, Confirm(op, r), Advances(r)
  PROVE  Sound'
BY AdvancingStep DEF Confirm, Update, Loaded, worldVars

\* Each record of the receipt.
LEMMA RecordStepOK ==
  ASSUME Sound, RecordStep
  PROVE  Sound'
<1> USE DEF Sound
<1>1. Advances(receipt)  BY DEF Advances
<1>2. \A op \in Operations : Advances(Confirmed(op))  BY ConfirmedAdvances
<1>3. CASE ReceiptInit
  <2>1. CASE receipt' = NewReceipt /\ receipt.file = "none"
    BY <1>3, <2>1 DEF ReceiptInit, NewReceipt, Shaped, ReceiptFields, Early, worldVars
  <2>2. CASE receipt' = [receipt EXCEPT !.file = "torn"]
    BY <1>3, <2>2 DEF ReceiptInit, Shaped, ReceiptFields, Early, worldVars
  <2> QED  BY <1>3, <2>1, <2>2 DEF ReceiptInit
<1>4. ASSUME NEW field \in ReceiptFields \ {"file", "state"}, Update([receipt EXCEPT ![field] = TRUE]),
             UNCHANGED desk
      PROVE  Sound'
  <2>1. Advances(receipt')  BY <1>1, <1>4, FieldAdvances DEF Update
  <2> QED  BY <1>4, <2>1, AdvancingStep DEF Update, Loaded, worldVars
<1>5. CASE PreflightBind \/ RecordRemotePreflight \/ RecordWorkspaceReadback
  <2>1. {"preflight", "remotePreflight", "mapped"} \subseteq ReceiptFields \ {"file", "state"}
    BY DEF ReceiptFields
  <2>2. \E field \in {"preflight", "remotePreflight", "mapped"} :
          Update([receipt EXCEPT ![field] = TRUE]) /\ UNCHANGED desk
    BY <1>5 DEF PreflightBind, RecordRemotePreflight, RecordWorkspaceReadback
  <2> QED  BY <1>4, <2>1, <2>2
<1>6. ASSUME NEW op \in Operations, MarkAttempted(op) PROVE Sound'
  <2>1. /\ receipt' = [receipt EXCEPT !.state[op] = "attempted"] /\ Early(receipt, op)
        /\ desk' = [desk EXCEPT !.attempting = op] /\ UNCHANGED executed /\ receipt.file = "ready"
    BY <1>6 DEF MarkAttempted, Update, Attempted, Early, worldVars, Loaded
  <2>2. Advances(receipt') /\ ~Early(receipt', op)  BY <2>1, StateAdvances
  <2> QED  BY <2>1, <2>2 DEF Advances
<1>7. ASSUME NEW op \in Operations, MarkAmbiguous(op) PROVE Sound'
  <2> DEFINE w == [receipt EXCEPT !.state[op] = "ambiguous"]
  <2>1. receipt' = [w EXCEPT !.blocked = op]
    BY <1>7 DEF MarkAmbiguous, Update
  <2>2. Advances(w)  BY StateAdvances
  <2> HIDE DEF w
  <2>3. "blocked" \in ReceiptFields \ {"file", "state"}  BY DEF ReceiptFields
  <2>4. Advances([w EXCEPT !["blocked"] = op])  BY <2>2, <2>3, FieldAdvances
  <2>5. Advances(receipt')  BY <2>1, <2>4
  <2> QED  BY <1>7, <2>5, AdvancingStep DEF MarkAmbiguous, Update, Loaded, worldVars
<1>8. CASE RecordWorkspaceCreation \/ ConfirmCleanupUnitStop \/ ConfirmCleanupFilesRemoved
           \/ ConfirmCleanupWorkspaceClose
  BY <1>2, <1>8, ConfirmOK, OperationNames
  DEF RecordWorkspaceCreation, ConfirmCleanupUnitStop, ConfirmCleanupFilesRemoved,
      ConfirmCleanupWorkspaceClose
<1>9. ASSUME NEW r \in Roles, \/ \E socket \in Paths : RecordShellCreation(r, socket)
                              \/ RecordRepresentRunReadback(r) \/ ConfirmCleanupShellClose(r)
      PROVE  Sound'
  BY <1>2, <1>9, ConfirmOK, OperationNames
  DEF RecordShellCreation, RecordRepresentRunReadback, ConfirmCleanupShellClose
<1>10. ASSUME NEW socket \in Paths, RecordRunnerReadback(socket) PROVE Sound'
  <2>1. Advances(Confirmed(RunnerStart)) /\ "runner" \in ReceiptFields \ {"file", "state"}
    BY <1>2, OperationNames DEF ReceiptFields
  <2>2. Advances([Confirmed(RunnerStart) EXCEPT !["runner"] = TRUE])  BY <2>1, FieldAdvances
  <2> QED  BY <1>10, <2>2, ConfirmOK DEF RecordRunnerReadback
<1>11. ASSUME NEW r \in Roles, RecordShellRunReadback(r) PROVE Sound'
  <2> DEFINE next == IF receipt.state[<<"present", r>>] = "confirmed" THEN receipt
                     ELSE Confirmed(<<"present", r>>)
  <2>1. Advances(next) /\ "runs" \in ReceiptFields \ {"file", "state"}
    BY <1>1, <1>2, OperationNames DEF ReceiptFields
  <2>2. /\ receipt' = [next EXCEPT !["runs"] = [next.runs EXCEPT ![r] = world.shells[r].run]]
        /\ Loaded /\ UNCHANGED <<worldVars, desk>>
    BY <1>11 DEF RecordShellRunReadback, Update
  <2> HIDE DEF next
  <2>3. Advances(receipt')  BY <2>1, <2>2, FieldAdvances
  <2> QED  BY <2>2, <2>3, AdvancingStep DEF Loaded, worldVars
<1> QED
  BY <1>3, <1>5, <1>6, <1>7, <1>8, <1>9, <1>10, <1>11 DEF RecordStep

\* Each execution, and what happens to the world besides.
LEMMA WorldStepOK ==
  ASSUME Sound, WorldStep
  PROVE  Sound'
<1>1. ASSUME NEW op \in Operations, Execute(op) PROVE Sound'
  <2>1. /\ desk.attempting = op /\ desk' = [desk EXCEPT !.attempting = NoOperation]
        /\ executed' = [executed EXCEPT ![op] = @ + 1] /\ UNCHANGED receipt
    BY <1>1 DEF Execute
  <2>2. executed[op] = 0 /\ ~Early(receipt, op)  BY <2>1 DEF Sound
  <2>3. /\ executed' \in [Operations -> {0, 1}]
        /\ \A o \in Operations \ {op} : executed'[o] = executed[o]
    BY <2>1, <2>2 DEF Sound
  <2>4. desk'.attempting \notin Operations /\ DOMAIN desk' = {"plan", "attempting"}
    BY <2>1, OperationAssumption DEF Sound
  <2> QED  BY <2>1, <2>2, <2>3, <2>4 DEF Sound, Shaped, Early
<1>2. CASE CrashOperator
  <2>1. desk'.attempting \notin Operations /\ DOMAIN desk' = {"plan", "attempting"}
    BY <1>2, OperationAssumption DEF Sound, CrashOperator
  <2> QED  BY <1>2, <2>1 DEF Sound, CrashOperator, worldVars, Shaped, Early
<1>3. CASE \/ \E op \in Operations : Land(op)
           \/ SomebodyAdds \/ \E r \in Roles : PiExits(r) \/ SomebodyOpens(r)
  <2>1. UNCHANGED <<receipt, desk, executed>>
    BY <1>3 DEF Land, SomebodyAdds, PiExits, SomebodyOpens
  <2> QED  BY <2>1 DEF Sound, Shaped, Early
<1> QED  BY <1>1, <1>2, <1>3 DEF WorldStep

\* No command of the procedure is executed twice, whatever is planned again after
\* a crash, a lost or a late command
\* (spikes/remote-execution-node/lib/manual-gate.mjs, the attempted mark).
THEOREM ExecutionCorrect == Spec => []ExecutedOnce
<1>1. Init => Sound
  BY OperationAssumption DEF Init, Sound, NewReceipt, Shaped, ReceiptFields, Early
<1>2. Sound /\ [Next]_vars => Sound'
  <2>1. ASSUME Sound, UNCHANGED vars PROVE Sound'
    BY <2>1 DEF vars, Sound, Shaped, Early
  <2> QED  BY <2>1, PlanStepOK, RecordStepOK, WorldStepOK DEF Next
<1>3. Sound => ExecutedOnce  BY DEF Sound, ExecutedOnce
<1> QED  BY <1>1, <1>2, <1>3, PTL DEF Spec

-----------------------------------------------------------------------------
(* The records. *)

Worlds ==
  [workspace : {"absent", "open", "closed"},
   shells : [Roles -> [status : {"absent", "pending", "running", "exited", "closed"},
                       run : 0 .. MaxRuns, socket : Paths \cup {NoPath}]],
   foreign : BOOLEAN, unit : {"absent", "active", "inactive"},
   files : Paths \cup {NoPath}, runs : 0 .. MaxRuns]
Receipts ==
  [file : {"none", "torn", "ready"}, preflight : BOOLEAN, remotePreflight : BOOLEAN,
   blocked : Operations \cup {NoOperation}, state : [Operations -> OperationStates],
   intent : [Operations -> Paths \cup {NoPath}], mapped : BOOLEAN, runner : BOOLEAN,
   runs : [Roles -> 0 .. MaxRuns]]
Desks == [plan : Seq(Operations), attempting : Operations \cup {NoOperation}]
Types ==
  /\ receipt \in Receipts /\ world \in Worlds /\ desk \in Desks
  /\ late \subseteq Operations
  /\ receipt.file = "none" => ~receipt.runner /\ receipt.runs = [r \in Roles |-> 0]

\* A Run is of one Shell, the one in whose place the receipt has it.
RunsSound ==
  /\ \A r \in Roles : receipt.runs[r] <= world.runs /\ world.shells[r].run <= world.runs
  /\ \A x, y \in Roles : x # y =>
       /\ world.shells[x].run # 0 => world.shells[x].run # world.shells[y].run
       /\ receipt.runs[x] # 0 => receipt.runs[x] \notin {receipt.runs[y], world.shells[y].run}

\* What a cleanup operation is for has been reached.
Finished(op) ==
  /\ op = UnitStop => world.unit = "inactive"
  /\ op = FilesRemove => world.files = NoPath
  /\ op = WorkspaceClose => world.workspace = "closed"
  /\ \A r \in Roles : op = <<"cleanup-shell-close", r>> => world.shells[r].status = "closed"

\* Cleanup is planned of what was there, so that no creation is still to come, and
\* what was cleaned up stays so.
CleanupSound ==
  /\ receipt.runner => world.unit # "absent"
  /\ world.workspace # "absent" => executed[WorkspaceCreate] = 1 /\ WorkspaceCreate \notin late
  /\ \A op \in late : executed[op] = 1
  /\ \A op \in CleanupOperations :
       /\ receipt.state[op] # "none" => receipt.runner /\ world.workspace # "absent"
       /\ Done(op) => Finished(op)

Recorded(r) ==
  /\ r \in Receipts
  /\ r.remotePreflight => r.preflight
  /\ r.blocked # NoOperation => r.state[r.blocked] = "ambiguous"

GateInv == Sound /\ Types /\ Recorded(receipt) /\ RunsSound /\ CleanupSound

-----------------------------------------------------------------------------
(* What the records of the procedure do to the receipt. *)

\* A write of the receipt that the world bears out.
Records(r) ==
  /\ Recorded(r)
  /\ receipt.runner => r.runner
  /\ r.runner => world.unit # "absent"
  /\ r.file = "none" => ~r.runner /\ r.runs = [x \in Roles |-> 0]
  /\ \A op \in CleanupOperations :
       /\ r.state[op] # "none" =>
            \/ receipt.state[op] # "none"
            \/ r.runner /\ world.workspace # "absent"
       /\ r.state[op] = "confirmed" => Done(op) \/ Finished(op)
  /\ \A x \in Roles : r.runs[x] \in {receipt.runs[x], world.shells[x].run}

\* Such a write keeps the invariant.
LEMMA RecordsKept ==
  ASSUME GateInv, Sound', Records(receipt'), UNCHANGED <<world, late, executed>>, desk' \in Desks
  PROVE  GateInv'
<1>1. Types'  BY DEF GateInv, Types, Records, Recorded
<1>2. RunsSound'
  <2>1. \A r \in Roles : receipt'.runs[r] \in {receipt.runs[r], world.shells[r].run}  BY DEF Records
  <2> QED  BY <2>1 DEF GateInv, RunsSound
<1>3. CleanupSound'
  BY DEF GateInv, CleanupSound, Records, Finished, Done
<1>4. Recorded(receipt')  BY DEF Records
<1> QED  BY <1>1, <1>2, <1>3, <1>4 DEF GateInv, Recorded

\* The receipt of a plan is in the shapes it is read with.
LEMMA PlannedRecords ==
  ASSUME GateInv, Authorized, NEW ops, NEW path \in Paths \cup {NoPath},
         \A op \in ops : Replayable(op, path),
         (ops \cap CleanupOperations # {}) => (receipt.runner /\ world.workspace # "absent")
  PROVE  Records(Planned(ops, path))
<1> DEFINE w == Planned(ops, path)
<1>1. /\ w.state = [op \in Operations |-> IF op \in ops THEN "intended" ELSE receipt.state[op]]
      /\ w.runner = receipt.runner /\ w.runs = receipt.runs /\ w.blocked = receipt.blocked
      /\ w.preflight = receipt.preflight /\ w.remotePreflight = receipt.remotePreflight
      /\ w.file = receipt.file
  BY DEF Planned, GateInv, Types, Receipts
<1>2. w \in Receipts  BY DEF Planned, GateInv, Types, Receipts, OperationStates
<1> HIDE DEF w
<1>3. Recorded(w)  BY <1>1, <1>2 DEF Recorded, GateInv, Authorized
<1>4. CleanupOperations \subseteq Operations  BY DEF Operations
<1>5. Records(w)  BY <1>1, <1>3, <1>4 DEF Records, GateInv, Types, CleanupSound, Done
<1> QED  BY <1>5 DEF w

\* A confirmation.
LEMMA ConfirmedFields ==
  ASSUME receipt \in Receipts, NEW op \in Operations
  PROVE  LET w == Confirmed(op) IN
         /\ w \in Receipts
         /\ w.state = [receipt.state EXCEPT ![op] = "confirmed"]
         /\ w.blocked = IF receipt.blocked = op THEN NoOperation ELSE receipt.blocked
         /\ w.runner = receipt.runner /\ w.runs = receipt.runs /\ w.file = receipt.file
         /\ w.preflight = receipt.preflight /\ w.remotePreflight = receipt.remotePreflight
<1> DEFINE u == [receipt EXCEPT !.state[op] = "confirmed"]
<1>1. /\ u \in Receipts /\ u.state = [receipt.state EXCEPT ![op] = "confirmed"]
      /\ u.blocked = receipt.blocked
      /\ u.runner = receipt.runner /\ u.runs = receipt.runs /\ u.file = receipt.file
      /\ u.preflight = receipt.preflight /\ u.remotePreflight = receipt.remotePreflight
  BY DEF Receipts, OperationStates
<1>2. Confirmed(op) = IF u.blocked = op THEN [u EXCEPT !.blocked = NoOperation] ELSE u
  BY DEF Confirmed, Unblocked
<1> HIDE DEF u
<1>3. CASE u.blocked = op  BY <1>1, <1>2, <1>3 DEF Receipts
<1>4. CASE u.blocked # op  BY <1>1, <1>2, <1>4
<1> QED  BY <1>3, <1>4

\* It is borne out if the operation is finished.
LEMMA ConfirmedRecords ==
  ASSUME GateInv, NEW op \in Operations, RequireAttempted(op),
         op \in CleanupOperations => Finished(op)
  PROVE  Records(Confirmed(op))
<1> DEFINE w == Confirmed(op)
<1>1. /\ w \in Receipts
      /\ w.state = [receipt.state EXCEPT ![op] = "confirmed"]
      /\ w.blocked = IF receipt.blocked = op THEN NoOperation ELSE receipt.blocked
      /\ w.runner = receipt.runner /\ w.runs = receipt.runs /\ w.file = receipt.file
      /\ w.preflight = receipt.preflight /\ w.remotePreflight = receipt.remotePreflight
  BY ConfirmedFields DEF GateInv, Types
<1> HIDE DEF w
<1>2. DOMAIN receipt.state = Operations /\ CleanupOperations \subseteq Operations
  BY DEF GateInv, Types, Receipts, Operations
<1>3. \A o \in Operations : w.state[o] = IF o = op THEN "confirmed" ELSE receipt.state[o]
  BY <1>1, <1>2
<1>4. receipt.blocked \in Operations \cup {NoOperation}  BY DEF GateInv, Types, Receipts
<1>5. Recorded(w)  BY <1>1, <1>3, <1>4 DEF Recorded, GateInv
<1>6. Records(w)
  BY <1>1, <1>2, <1>3, <1>5 DEF Records, RequireAttempted, GateInv, Types, CleanupSound, Done
<1> QED  BY <1>6 DEF w

\* The operations of the procedure have different names.
LEMMA NamesDiffer ==
  /\ WorkspaceCreate \notin CleanupOperations /\ RunnerStart \notin CleanupOperations
  /\ \A r \in Roles : /\ <<"shell-create", r>> \notin CleanupOperations
                      /\ <<"present", r>> \notin CleanupOperations
                      /\ <<"represent", r>> \notin CleanupOperations
                      /\ <<"cleanup-shell-close", r>> \notin {UnitStop, FilesRemove, WorkspaceClose}
  /\ UnitStop # FilesRemove /\ UnitStop # WorkspaceClose /\ FilesRemove # WorkspaceClose
BY DEF CleanupOperations, ForRole, WorkspaceCreate, RunnerStart, UnitStop, FilesRemove, WorkspaceClose

-----------------------------------------------------------------------------
(* Each record keeps it. *)

\* A plan that goes through the roles names exactly the operations of its kind.
LEMMA InOrderNames ==
  ASSUME NEW kind, ForRole(kind) \subseteq Operations
  PROVE  InOrder(kind) \in Seq(Operations) /\ ToSet(InOrder(kind)) \subseteq ForRole(kind)
<1> DEFINE S == ForRole(kind)
           f == [r \in Roles |-> <<kind, r>>]
<1>1. IsFiniteSet(S)
  <2>1. f \in Surjection(Roles, S)  BY DEF Surjection, ForRole
  <2> QED  BY <2>1, FS_Surjection, GateAssumption
<1>2. Cardinality(S) \in Nat /\ \E g \in [1 .. Cardinality(S) -> S] : IsInjective(g)
  <2>1. Cardinality(S) \in Nat /\ Bijection(1 .. Cardinality(S), S) # {}
    BY <1>1, FS_CardinalityType DEF ExistsBijection
  <2> QED  BY <2>1 DEF Bijection, Injection
<1>3. InOrder(kind) \in [1 .. Cardinality(S) -> S]
  BY <1>2 DEF InOrder, SetToSeq
<1> HIDE DEF S
<1>4. InOrder(kind) \in Seq(S)  BY <1>2, <1>3, SeqDef
<1> QED  BY <1>3, <1>4 DEF ToSet, S

\* So does the plan of the cleanup.
LEMMA CleanupNames ==
  CleanupOrder \in Seq(Operations)
<1>1. ForRole("cleanup-shell-close") \subseteq Operations  BY DEF Operations, CleanupOperations
<1>2. InOrder("cleanup-shell-close") \in Seq(Operations)  BY <1>1, InOrderNames
<1>3. <<UnitStop, FilesRemove>> \in Seq(Operations) /\ <<WorkspaceClose>> \in Seq(Operations)
  BY OperationNames
<1> QED  BY <1>2, <1>3 DEF CleanupOrder

\* Each plan.
LEMMA PlanKeeps ==
  ASSUME GateInv, NEW order \in Seq(Operations), NEW path \in Paths \cup {NoPath}, Plan(order, path),
         ToSet(order) \cap CleanupOperations # {} => receipt.runner /\ world.workspace # "absent"
  PROVE  GateInv'
<1>1. Records(Planned(ToSet(order), path))  BY PlannedRecords DEF Plan
<1>2. desk' \in Desks  BY DEF Plan, Desks, GateInv, Types
<1>3. Sound'  BY PlanOK DEF GateInv
<1> QED  BY <1>1, <1>2, <1>3, RecordsKept DEF Plan, Update, worldVars

\* All the plans.
LEMMA PlanStepKeeps ==
  ASSUME GateInv, PlanStep
  PROVE  GateInv'
<1>1. ASSUME NEW kind \in {"shell-create", "present", "represent"}, NEW path \in Paths \cup {NoPath},
             Plan(InOrder(kind), path)
      PROVE  GateInv'
  <2>1. ForRole(kind) \subseteq Operations /\ ForRole(kind) \cap CleanupOperations = {}
    BY OperationNames, NamesDiffer DEF ForRole
  <2> QED  BY <1>1, <2>1, InOrderNames, PlanKeeps
<1>2. ASSUME NEW op \in {WorkspaceCreate, RunnerStart}, NEW path \in Paths \cup {NoPath},
             Plan(<<op>>, path)
      PROVE  GateInv'
  <2>1. <<op>> \in Seq(Operations)  BY OperationNames
  <2>2. ToSet(<<op>>) \cap CleanupOperations = {}  BY NamesDiffer DEF ToSet
  <2> QED  BY <1>2, <2>1, <2>2, PlanKeeps
<1>3. CASE PlanCleanup
  <2>1. receipt.runner /\ world.workspace # "absent" /\ Authorized
    BY <1>3 DEF PlanCleanup, ExactlyOwned
  <2>2. ASSUME NEW k \in 1 .. Len(CleanupOrder) - 1,
               \A i \in 1 .. k : Replayable(CleanupOrder[i], NoPath),
               receipt' = Planned({CleanupOrder[i] : i \in 1 .. k}, NoPath),
               UNCHANGED <<worldVars, desk>>
        PROVE  GateInv'
    <3>1. Records(receipt')  BY <2>1, <2>2, PlannedRecords
    <3>2. Sound'  BY <1>3, PlanStepOK DEF GateInv, PlanStep
    <3> QED  BY <2>2, <3>1, <3>2, RecordsKept DEF worldVars, GateInv, Types
  <2> QED  BY <1>3, <2>1, <2>2, CleanupNames, PlanKeeps DEF PlanCleanup
<1> QED
  BY <1>1, <1>2, <1>3
  DEF PlanStep, PlanWorkspaceCreate, PlanPresentAll, PlanRepresentAll, PlanShellCreates, PlanRunnerStart

\* A confirmation.
LEMMA ConfirmKeeps ==
  ASSUME GateInv, Sound', NEW op \in Operations, Confirm(op, Confirmed(op)),
         op \in CleanupOperations => Finished(op)
  PROVE  GateInv'
<1>1. Records(receipt')  BY ConfirmedRecords DEF Confirm, Update
<1> QED  BY <1>1, RecordsKept DEF Confirm, Update, worldVars, GateInv, Types

\* Each record of an outcome.
LEMMA RecordStepKeeps ==
  ASSUME GateInv, RecordStep
  PROVE  GateInv'
<1>1. Sound'  BY RecordStepOK DEF GateInv
<1>2. Records(receipt) /\ receipt \in Receipts /\ desk \in Desks /\ late \subseteq Operations
  BY DEF Records, GateInv, Types, CleanupSound, Done
<1>3. ASSUME Records(receipt'), UNCHANGED <<world, late, executed, desk>> PROVE GateInv'
  BY <1>1, <1>2, <1>3, RecordsKept
<1>4. CASE ReceiptInit
  <2>1. CASE receipt' = NewReceipt /\ receipt.file = "none"
    <3>1. NewReceipt \in Receipts
      BY GateAssumption DEF NewReceipt, Receipts, OperationStates
    <3>2. CleanupOperations \subseteq Operations /\ receipt.runner = FALSE
      BY <2>1 DEF Operations, GateInv, Types, Receipts
    <3>4. receipt.runs = [r \in Roles |-> 0]  BY <2>1 DEF GateInv, Types
    <3>5. Records(NewReceipt)
      BY <3>1, <3>2, <3>4 DEF Records, Recorded, NewReceipt
    <3> QED  BY <1>3, <1>4, <2>1, <3>5 DEF ReceiptInit, worldVars
  <2>2. CASE receipt' = [receipt EXCEPT !.file = "torn"]
    <3>1. Records(receipt')  BY <1>2, <2>2 DEF Records, Recorded, Receipts
    <3> QED  BY <1>3, <1>4, <2>2, <3>1 DEF ReceiptInit, worldVars
  <2> QED  BY <1>4, <2>1, <2>2 DEF ReceiptInit
<1>5. CASE PreflightBind \/ RecordRemotePreflight \/ RecordWorkspaceReadback
  <2>1. \/ receipt' = [receipt EXCEPT !.preflight = TRUE]
        \/ receipt' = [receipt EXCEPT !.remotePreflight = TRUE] /\ receipt.preflight
        \/ receipt' = [receipt EXCEPT !.mapped = TRUE]
    BY <1>5 DEF PreflightBind, RecordRemotePreflight, RecordWorkspaceReadback, Update
  <2>2. Records(receipt')  BY <1>2, <2>1 DEF Records, Recorded, Receipts
  <2> QED
    BY <1>3, <1>5, <2>2 DEF PreflightBind, RecordRemotePreflight, RecordWorkspaceReadback, Update, worldVars
<1>6. ASSUME NEW op \in Operations, MarkAttempted(op) PROVE GateInv'
  <2>1. /\ receipt' = [receipt EXCEPT !.state[op] = "attempted"] /\ receipt.blocked = NoOperation
        /\ receipt.state[op] = "intended" /\ UNCHANGED <<world, late, executed>>
        /\ desk' = [desk EXCEPT !.attempting = op]
    BY <1>6 DEF MarkAttempted, Update, Attempted, worldVars
  <2>2. Records(receipt')  BY <1>2, <2>1 DEF Records, Recorded, Receipts, OperationStates
  <2>3. desk' \in Desks  BY <1>2, <2>1 DEF Desks
  <2> QED  BY <1>1, <2>1, <2>2, <2>3, RecordsKept
<1>7. ASSUME NEW op \in Operations, MarkAmbiguous(op) PROVE GateInv'
  <2>1. /\ receipt' = [receipt EXCEPT !.state[op] = "ambiguous", !.blocked = op]
        /\ receipt.state[op] # "none" /\ UNCHANGED <<world, late, executed, desk>>
    BY <1>7 DEF MarkAmbiguous, Update, worldVars
  <2> DEFINE w == [receipt EXCEPT !.state[op] = "ambiguous"]
  <2>2. Records([w EXCEPT !.blocked = op])
    <3>1. /\ w \in Receipts /\ w.state = [receipt.state EXCEPT ![op] = "ambiguous"]
          /\ w.runner = receipt.runner /\ w.runs = receipt.runs /\ w.file = receipt.file
          /\ w.preflight = receipt.preflight /\ w.remotePreflight = receipt.remotePreflight
      BY <1>2 DEF Receipts, OperationStates
    <3> HIDE DEF w
    <3>2. \A o \in Operations : w.state[o] = IF o = op THEN "ambiguous" ELSE receipt.state[o]
      BY <1>2, <3>1 DEF Receipts
    <3>3. CleanupOperations \subseteq Operations  BY DEF Operations
    <3> QED  BY <1>2, <2>1, <3>1, <3>2, <3>3 DEF Records, Recorded, Receipts
  <2>3. receipt' = [w EXCEPT !.blocked = op]  BY <2>1
  <2> QED  BY <1>3, <2>1, <2>2, <2>3
<1>8. CASE RecordWorkspaceCreation \/ ConfirmCleanupUnitStop \/ ConfirmCleanupFilesRemoved
           \/ ConfirmCleanupWorkspaceClose
  <2>1. Finished(UnitStop) \/ world.unit # "inactive"  BY NamesDiffer DEF Finished
  <2>2. Finished(FilesRemove) \/ world.files # NoPath  BY NamesDiffer DEF Finished
  <2>3. Finished(WorkspaceClose) \/ world.workspace # "closed"  BY NamesDiffer DEF Finished
  <2> QED
    BY <1>1, <1>8, <2>1, <2>2, <2>3, NamesDiffer, OperationNames, ConfirmKeeps
    DEF RecordWorkspaceCreation, ConfirmCleanupUnitStop, ConfirmCleanupFilesRemoved,
        ConfirmCleanupWorkspaceClose, UnitStopped
<1>9. ASSUME NEW r \in Roles, \/ \E socket \in Paths : RecordShellCreation(r, socket)
                              \/ RecordRepresentRunReadback(r) \/ ConfirmCleanupShellClose(r)
      PROVE  GateInv'
  <2>1. Finished(<<"cleanup-shell-close", r>>) \/ world.shells[r].status # "closed"
    BY NamesDiffer DEF Finished
  <2> QED
    BY <1>1, <1>9, <2>1, NamesDiffer, OperationNames, ConfirmKeeps
    DEF RecordShellCreation, RecordRepresentRunReadback, ConfirmCleanupShellClose
<1>10. ASSUME NEW socket \in Paths, RecordRunnerReadback(socket) PROVE GateInv'
  <2> DEFINE w == Confirmed(RunnerStart)
  <2>1. Records(w)
    BY <1>10, ConfirmedRecords, OperationNames, NamesDiffer DEF RecordRunnerReadback, Confirm
  <2>2. receipt' = [w EXCEPT !.runner = TRUE] /\ world.unit = "active" /\ receipt.file = "ready"
        /\ UNCHANGED <<world, late, executed, desk>>
    BY <1>10 DEF RecordRunnerReadback, Confirm, Update, Loaded, worldVars
  <2>3. w.file = "ready"  BY <1>2, <2>2, ConfirmedFields, OperationNames
  <2> HIDE DEF w
  <2>4. Records([w EXCEPT !.runner = TRUE])
    BY <2>1, <2>2, <2>3 DEF Records, Recorded, Receipts
  <2> QED  BY <1>3, <2>2, <2>4
<1>11. ASSUME NEW r \in Roles, RecordShellRunReadback(r) PROVE GateInv'
  <2> DEFINE w == IF receipt.state[<<"present", r>>] = "confirmed" THEN receipt
                  ELSE Confirmed(<<"present", r>>)
  <2>1. Records(w) /\ w.runs = receipt.runs /\ w.file = "ready"
    BY <1>2, <1>11, ConfirmedRecords, ConfirmedFields, OperationNames, NamesDiffer
    DEF RecordShellRunReadback, Update, Loaded
  <2>2. receipt' = [w EXCEPT !.runs[r] = world.shells[r].run]
        /\ UNCHANGED <<world, late, executed, desk>>
    BY <1>11 DEF RecordShellRunReadback, Update, worldVars
  <2>3. world.shells[r].run \in 0 .. MaxRuns  BY DEF GateInv, Types, Worlds
  <2> HIDE DEF w
  <2>4. Records([w EXCEPT !.runs[r] = world.shells[r].run])
    BY <2>1, <2>3 DEF Records, Recorded, Receipts
  <2> QED  BY <1>3, <2>2, <2>4
<1> QED
  BY <1>4, <1>5, <1>6, <1>7, <1>8, <1>9, <1>10, <1>11 DEF RecordStep

-----------------------------------------------------------------------------
(* The world. *)

\* A change of the world that undoes nothing that was started or cleaned up, and
\* gives out a new Run at most once.
Moves(w) ==
  /\ w \in Worlds /\ world.runs <= w.runs
  /\ world.unit # "absent" => w.unit # "absent"
  /\ world.unit = "inactive" => w.unit = "inactive"
  /\ world.unit # "absent" /\ world.files = NoPath => w.files = NoPath
  /\ world.workspace # "absent" => w.workspace # "absent"
  /\ world.workspace = "closed" => w.workspace = "closed"
  /\ \A r \in Roles :
       /\ world.shells[r].status = "closed" => w.shells[r].status = "closed"
       /\ w.shells[r].run # world.shells[r].run =>
            /\ w.shells[r].run = world.runs + 1 /\ w.runs = world.runs + 1
            /\ \A x \in Roles \ {r} : w.shells[x].run = world.shells[x].run

\* Such a change keeps the invariant.
LEMMA MovesKept ==
  ASSUME GateInv, Sound', Moves(world'), UNCHANGED receipt, desk' \in Desks,
         late' \subseteq Operations, \A op \in late' : executed'[op] = 1,
         world'.workspace # "absent" =>
           executed'[WorkspaceCreate] = 1 /\ WorkspaceCreate \notin late'
  PROVE  GateInv'
<1>1. Types' /\ Recorded(receipt')  BY DEF GateInv, Types, Moves
<1>2. RunsSound'
  <2>1. \A r \in Roles : /\ world.shells[r].run \in Nat /\ world'.shells[r].run \in Nat
                         /\ receipt.runs[r] \in Nat
        /\ world.runs \in Nat /\ world'.runs \in Nat
    BY <1>1, GateAssumption DEF GateInv, Types, Worlds, Receipts
  <2>2. ASSUME NEW r \in Roles
        PROVE  receipt'.runs[r] <= world'.runs /\ world'.shells[r].run <= world'.runs
    BY <2>1, <2>2 DEF GateInv, RunsSound, Moves
  <2>3. ASSUME NEW x \in Roles, NEW y \in Roles, x # y
        PROVE  /\ world'.shells[x].run # 0 => world'.shells[x].run # world'.shells[y].run
               /\ receipt'.runs[x] # 0 => receipt'.runs[x] \notin {receipt'.runs[y], world'.shells[y].run}
    BY <2>1, <2>3 DEF GateInv, RunsSound, Moves
  <2> QED  BY <2>2, <2>3 DEF RunsSound
<1>3. CleanupSound'
  <2>1. \A op : Finished(op) /\ receipt.runner => Finished(op)'
    BY DEF GateInv, CleanupSound, Finished, Moves
  <2>2. \A op \in CleanupOperations : Done(op) => receipt.runner
    BY DEF GateInv, CleanupSound, Done
  <2> QED  BY <2>1, <2>2 DEF GateInv, CleanupSound, Moves, Done
<1> QED  BY <1>1, <1>2, <1>3 DEF GateInv, Recorded

\* One Shell changes.
LEMMA ShellMoves ==
  ASSUME world \in Worlds, NEW r \in Roles, NEW shell \in [status : {"absent", "pending", "running", "exited", "closed"},
                       run : 0 .. MaxRuns, socket : Paths \cup {NoPath}],
         world.shells[r].status = "closed" => shell.status = "closed",
         shell.run = world.shells[r].run
  PROVE  Moves([world EXCEPT !.shells[r] = shell])
<1> DEFINE w == [world EXCEPT !.shells[r] = shell]
<1>1. /\ w \in Worlds /\ w.shells = [world.shells EXCEPT ![r] = shell]
      /\ w.runs = world.runs /\ w.unit = world.unit /\ w.files = world.files
      /\ w.workspace = world.workspace
  BY DEF Worlds
<1>2. world.runs \in Nat /\ DOMAIN world.shells = Roles  BY GateAssumption DEF Worlds
<1> HIDE DEF w
<1>3. Moves(w)  BY <1>1, <1>2 DEF Moves
<1> QED  BY <1>3 DEF w

\* Opening a Shell gives it the next Run.
LEMMA OpenedMoves ==
  ASSUME world \in Worlds, NEW r \in Roles, world.runs < MaxRuns
  PROVE  Moves(Opened(world, r)) /\ Opened(world, r).workspace = world.workspace
<1>0. world.runs \in Nat /\ MaxRuns \in Nat /\ DOMAIN world.shells = Roles
  BY GateAssumption DEF Worlds
<1>1. CASE world.shells[r].status \in {"pending", "exited"}
  <2> DEFINE shell == [world.shells[r] EXCEPT !.status = "running", !.run = world.runs + 1]
             w == [world EXCEPT !.runs = @ + 1, !.shells[r] = shell]
  <2>1. Opened(world, r) = w
    BY <1>1 DEF Opened, Worlds
  <2>2. world.runs + 1 \in 0 .. MaxRuns  BY <1>0
  <2>3. /\ shell.run = world.runs + 1
        /\ shell \in [status : {"absent", "pending", "running", "exited", "closed"},
                      run : 0 .. MaxRuns, socket : Paths \cup {NoPath}]
    BY <2>2 DEF Worlds
  <2> HIDE DEF shell
  <2>4. /\ w \in Worlds /\ w.shells = [world.shells EXCEPT ![r] = shell]
        /\ w.runs = world.runs + 1 /\ w.unit = world.unit /\ w.files = world.files
        /\ w.workspace = world.workspace
    BY <2>2, <2>3 DEF Worlds
  <2> HIDE DEF w
  <2>5. Moves(w)  BY <1>0, <1>1, <2>3, <2>4 DEF Moves
  <2> QED  BY <2>1, <2>4, <2>5
<1>2. CASE world.shells[r].status \notin {"pending", "exited"}
  BY <1>0, <1>2 DEF Opened, Moves
<1> QED  BY <1>1, <1>2

\* The kind of an operation tells which arm of Effect it takes.
LEMMA KindOf ==
  /\ WorkspaceCreate[1] = "workspace-create" /\ RunnerStart[1] = "runner-start"
  /\ UnitStop[1] = "cleanup-unit-stop" /\ FilesRemove[1] = "cleanup-remove-files"
  /\ WorkspaceClose[1] = "cleanup-workspace-close"
  /\ \A kind, r : <<kind, r>>[1] = kind /\ <<kind, r>>[2] = r
BY DEF WorkspaceCreate, RunnerStart, UnitStop, FilesRemove, WorkspaceClose

\* The effect of a command that was executed and takes effect just now.
LEMMA EffectMoves ==
  ASSUME GateInv, NEW op \in Operations, Bounded(op),
         op = WorkspaceCreate => world.workspace = "absent",
         receipt.state[op] # "none"
  PROVE  /\ Moves(Effect(world, op))
         /\ op # WorkspaceCreate /\ world.workspace = "absent" =>
              Effect(world, op).workspace = "absent"
<1>0. /\ world \in Worlds /\ receipt \in Receipts /\ DOMAIN world.shells = Roles
      /\ receipt.intent[op] \in Paths \cup {NoPath} /\ world.runs \in Nat
  BY GateAssumption DEF GateInv, Types, Worlds, Receipts
<1>1. CASE op = WorkspaceCreate
  <2>1. Effect(world, op) = [world EXCEPT !.workspace = "open"]
    BY <1>1, KindOf DEF Effect
  <2> QED  BY <1>0, <1>1, <2>1 DEF Moves, Worlds
<1>2. ASSUME NEW r \in Roles, op = <<"shell-create", r>>
      PROVE  /\ Moves(Effect(world, op))
             /\ Effect(world, op).workspace = world.workspace
  <2>1. Effect(world, op) = ShellCreated(world, r, receipt.intent[op])
    BY <1>2, KindOf DEF Effect
  <2>2. CASE world.workspace = "open" /\ world.shells[r] = NoShell
    <3> DEFINE shell == [status |-> "pending", run |-> 0, socket |-> receipt.intent[op]]
    <3>1. ShellCreated(world, r, receipt.intent[op]) = [world EXCEPT !.shells[r] = shell]
      BY <2>2 DEF ShellCreated
    <3>2. shell \in [status : {"absent", "pending", "running", "exited", "closed"},
                     run : 0 .. MaxRuns, socket : Paths \cup {NoPath}]
      BY <1>0, GateAssumption
    <3>3. Moves([world EXCEPT !.shells[r] = shell])
      BY <1>0, <2>2, <3>2, ShellMoves DEF NoShell
    <3> QED  BY <1>0, <2>1, <3>1, <3>3 DEF Worlds
  <2>3. CASE ~(world.workspace = "open" /\ world.shells[r] = NoShell)
    BY <1>0, <2>1, <2>3 DEF ShellCreated, Moves
  <2> QED  BY <2>2, <2>3
<1>3. CASE op = RunnerStart
  <2>1. Effect(world, op) = Started(world, receipt.intent[op])
    BY <1>3, KindOf DEF Effect
  <2>2. CASE world.unit = "absent"
    <3> DEFINE w == [world EXCEPT !.unit = "active", !.files = receipt.intent[op]]
    <3>1. w \in Worlds  BY <1>0 DEF Worlds
    <3>2. /\ w.shells = world.shells /\ w.runs = world.runs /\ w.workspace = world.workspace
          /\ w.unit = "active"
      BY <1>0 DEF Worlds
    <3>3. Effect(world, op) = w  BY <2>1, <2>2 DEF Started
    <3> HIDE DEF w
    <3> QED  BY <1>0, <2>2, <3>1, <3>2, <3>3 DEF Moves
  <2>3. CASE world.unit # "absent"
    BY <1>0, <2>1, <2>3 DEF Started, Moves
  <2> QED  BY <2>2, <2>3
<1>4. ASSUME NEW r \in Roles, op \in {<<"present", r>>, <<"represent", r>>}
      PROVE  /\ Moves(Effect(world, op))
             /\ Effect(world, op).workspace = world.workspace
  <2>1. Effect(world, op) = Opened(world, r) /\ Opens(op)
    BY <1>4, KindOf DEF Effect, Opens
  <2> QED  BY <1>0, <2>1, OpenedMoves DEF Bounded
<1>5. CASE op \in {UnitStop, FilesRemove, WorkspaceClose}
  <2>1. world.unit # "absent" /\ world.workspace # "absent"
    BY <1>5 DEF GateInv, CleanupSound, CleanupOperations
  <2>2. CASE op = UnitStop
    <3>1. Effect(world, op) = [world EXCEPT !.unit = "inactive"]
      BY <2>2, KindOf DEF Effect
    <3> QED  BY <1>0, <2>1, <3>1 DEF Moves, Worlds
  <2>3. CASE op = FilesRemove
    <3>1. Effect(world, op) = [world EXCEPT !.files = NoPath]
      BY <2>3, KindOf DEF Effect
    <3> QED  BY <1>0, <2>1, <3>1 DEF Moves, Worlds
  <2>4. CASE op = WorkspaceClose
    <3>1. Effect(world, op) =
            [world EXCEPT !.workspace = "closed", !.shells = [r \in Roles |-> Closed(@[r])]]
      BY <2>4, KindOf DEF Effect
    <3>2. \A r \in Roles : /\ Closed(world.shells[r]) \in
                                [status : {"absent", "pending", "running", "exited", "closed"},
                                 run : 0 .. MaxRuns, socket : Paths \cup {NoPath}]
                           /\ Closed(world.shells[r]).run = world.shells[r].run
                           /\ world.shells[r].status = "closed" => Closed(world.shells[r]).status = "closed"
      BY <1>0 DEF Closed, Worlds
    <3> DEFINE w == [world EXCEPT !.workspace = "closed",
                                  !.shells = [r \in Roles |-> Closed(world.shells[r])]]
    <3>3. Effect(world, op) = w  BY <3>1
    <3>4. /\ w.shells = [r \in Roles |-> Closed(world.shells[r])] /\ w.workspace = "closed"
          /\ w.runs = world.runs /\ w.unit = world.unit /\ w.files = world.files /\ w \in Worlds
      BY <1>0, <3>2 DEF Worlds
    <3> HIDE DEF w
    <3>5. Moves(w)  BY <1>0, <3>2, <3>4 DEF Moves
    <3> QED  BY <2>1, <3>3, <3>5
  <2> QED  BY <1>5, <2>2, <2>3, <2>4
<1>6. ASSUME NEW r \in Roles, op = <<"cleanup-shell-close", r>>
      PROVE  /\ Moves(Effect(world, op))
             /\ Effect(world, op).workspace = world.workspace
  <2>1. Effect(world, op) = [world EXCEPT !.shells[r] = Closed(@)]
    BY <1>6, KindOf DEF Effect
  <2>2. /\ Closed(world.shells[r]) \in
             [status : {"absent", "pending", "running", "exited", "closed"},
              run : 0 .. MaxRuns, socket : Paths \cup {NoPath}]
        /\ Closed(world.shells[r]).run = world.shells[r].run
        /\ world.shells[r].status = "closed" => Closed(world.shells[r]).status = "closed"
    BY <1>0 DEF Closed, Worlds
  <2>3. Moves([world EXCEPT !.shells[r] = Closed(world.shells[r])])
    BY <1>0, <2>2, ShellMoves
  <2> QED  BY <1>0, <2>1, <2>3 DEF Worlds
<1> QED
  BY <1>1, <1>2, <1>3, <1>4, <1>5, <1>6 DEF Operations, CleanupOperations, ForRole

\* Each execution, each late command and what else happens to the world.
LEMMA WorldStepKeeps ==
  ASSUME GateInv, WorldStep
  PROVE  GateInv'
<1>1. Sound'  BY WorldStepOK DEF GateInv
<1>2. /\ world \in Worlds /\ desk \in Desks /\ late \subseteq Operations
      /\ DOMAIN executed = Operations /\ DOMAIN world.shells = Roles
      /\ \A op \in late : executed[op] = 1
  BY DEF GateInv, Types, Sound, Worlds, CleanupSound
<1>3. \A op \in Operations : executed[op] # 0 => receipt.state[op] # "none"
  BY DEF GateInv, Sound, Early
<1>4. [desk EXCEPT !.attempting = NoOperation] \in Desks  BY <1>2 DEF Desks
<1>5. ASSUME world'.workspace = world.workspace, Moves(world'), UNCHANGED <<receipt, late, executed>>,
             desk' \in Desks
      PROVE  GateInv'
  BY <1>1, <1>2, <1>5, MovesKept DEF GateInv, CleanupSound
<1>6. Moves(world)
  <2>1. world.runs \in Nat  BY <1>2, GateAssumption DEF Worlds
  <2> QED  BY <1>2, <2>1 DEF Moves
<1>7. ASSUME NEW op \in Operations, Execute(op) PROVE GateInv'
  <2>1. /\ Bounded(op) /\ UNCHANGED receipt /\ desk' \in Desks
        /\ executed' = [executed EXCEPT ![op] = @ + 1]
    BY <1>4, <1>7 DEF Execute
  <2>2. executed[op] = 0 /\ ~Early(receipt, op)
    BY <1>7 DEF Execute, GateInv, Sound
  <2>3. executed'[op] = 1 /\ \A o \in Operations \ {op} : executed'[o] = executed[o]
    BY <1>2, <2>1, <2>2
  <2>4. op \notin late  BY <1>2, <2>2
  <2>5. op = WorkspaceCreate => world.workspace = "absent"
    BY <2>2 DEF GateInv, CleanupSound
  <2>6. \A o \in late \cup {op} : executed'[o] = 1  BY <1>2, <2>3
  <2>7. CASE world' = Effect(world, op) /\ UNCHANGED late
    <3>1. /\ Moves(world')
          /\ op # WorkspaceCreate /\ world.workspace = "absent" => world'.workspace = "absent"
      BY <2>1, <2>2, <2>5, <2>7, EffectMoves DEF Early
    <3>2. world'.workspace # "absent" =>
            executed'[WorkspaceCreate] = 1 /\ WorkspaceCreate \notin late'
      BY <2>3, <2>4, <2>7, <3>1, OperationNames DEF GateInv, CleanupSound
    <3> QED  BY <1>1, <1>2, <2>1, <2>6, <2>7, <3>1, <3>2, MovesKept
  <2>8. CASE UNCHANGED world /\ late' \in {late, late \cup {op}}
    <3>1. world'.workspace # "absent" =>
            executed'[WorkspaceCreate] = 1 /\ WorkspaceCreate \notin late'
      BY <2>3, <2>5, <2>8, OperationNames DEF GateInv, CleanupSound
    <3> QED  BY <1>1, <1>2, <1>6, <2>1, <2>6, <2>8, <3>1, MovesKept
  <2> QED  BY <1>7, <2>7, <2>8 DEF Execute
<1>8. ASSUME NEW op \in Operations, Land(op) PROVE GateInv'
  <2>1. /\ op \in late /\ Bounded(op) /\ late' = late \ {op} /\ world' = Effect(world, op)
        /\ UNCHANGED <<receipt, desk, executed>>
    BY <1>8 DEF Land
  <2>2. receipt.state[op] # "none"  BY <1>2, <1>3, <2>1
  <2>3. op = WorkspaceCreate => world.workspace = "absent"  BY <2>1 DEF GateInv, CleanupSound
  <2>4. /\ Moves(world')
        /\ op # WorkspaceCreate /\ world.workspace = "absent" => world'.workspace = "absent"
    BY <2>1, <2>2, <2>3, EffectMoves
  <2>5. world'.workspace # "absent" =>
          executed'[WorkspaceCreate] = 1 /\ WorkspaceCreate \notin late'
    BY <1>2, <2>1, <2>4 DEF GateInv, CleanupSound
  <2> QED  BY <1>1, <1>2, <2>1, <2>4, <2>5, MovesKept
<1>9. CASE CrashOperator
  BY <1>4, <1>5, <1>6, <1>9 DEF CrashOperator, worldVars
<1>10. CASE SomebodyAdds
  <2> DEFINE w == [world EXCEPT !.foreign = TRUE]
  <2>1. /\ w \in Worlds /\ w.shells = world.shells /\ w.runs = world.runs
        /\ w.workspace = world.workspace /\ w.unit = world.unit /\ w.files = world.files
    BY <1>2 DEF Worlds
  <2>2. world' = w  BY <1>10 DEF SomebodyAdds
  <2> HIDE DEF w
  <2>3. Moves(world') /\ world'.workspace = world.workspace
    BY <1>6, <2>1, <2>2 DEF Moves
  <2> QED  BY <1>2, <1>5, <1>10, <2>3 DEF SomebodyAdds
<1>11. ASSUME NEW r \in Roles, PiExits(r) PROVE GateInv'
  <2> DEFINE shell == [world.shells[r] EXCEPT !.status = "exited"]
  <2>1. world' = [world EXCEPT !.shells[r] = shell] /\ world.shells[r].status = "running"
    BY <1>2, <1>11 DEF PiExits, Worlds
  <2>2. shell \in [status : {"absent", "pending", "running", "exited", "closed"},
                   run : 0 .. MaxRuns, socket : Paths \cup {NoPath}]
        /\ shell.run = world.shells[r].run
    BY <1>2 DEF Worlds
  <2> HIDE DEF shell
  <2>3. Moves(world') /\ world'.workspace = world.workspace
    BY <1>2, <2>1, <2>2, ShellMoves DEF Worlds
  <2> QED  BY <1>2, <1>5, <1>11, <2>3 DEF PiExits
<1>12. ASSUME NEW r \in Roles, SomebodyOpens(r) PROVE GateInv'
  BY <1>2, <1>5, <1>12, OpenedMoves DEF SomebodyOpens
<1> QED
  BY <1>7, <1>8, <1>9, <1>10, <1>11, <1>12 DEF WorldStep

\* The receipt and the world fit one another in every state.
THEOREM GateStaysSound == Spec => []GateInv
<1>1. Init => GateInv
  <2> SUFFICES ASSUME Init PROVE GateInv  OBVIOUS
  <2>1. Sound
    BY OperationAssumption DEF Init, Sound, NewReceipt, Shaped, ReceiptFields, Early
  <2>2. receipt \in Receipts
    <3>1. NewReceipt \in Receipts  BY GateAssumption DEF NewReceipt, Receipts, OperationStates
    <3> QED  BY <3>1 DEF Init, Receipts
  <2>3. world \in Worlds  BY GateAssumption DEF Init, NewWorld, NoShell, Worlds
  <2>4. desk \in Desks  BY DEF Init, Desks
  <2>5. Types /\ Recorded(receipt)
    BY <2>2, <2>3, <2>4 DEF Types, Recorded, Init, NewReceipt
  <2>6. RunsSound  BY DEF Init, RunsSound, NewReceipt, NewWorld, NoShell
  <2>7. CleanupOperations \subseteq Operations  BY DEF Operations
  <2>8. CleanupSound
    BY <2>7 DEF Init, CleanupSound, NewReceipt, NewWorld, Done
  <2> QED  BY <2>1, <2>5, <2>6, <2>8 DEF GateInv
<1>2. GateInv /\ [Next]_vars => GateInv'
  <2>1. ASSUME GateInv, UNCHANGED vars PROVE GateInv'
    <3>1. Sound'  BY <2>1 DEF vars, GateInv, Sound, Shaped, Early
    <3>2. Types' /\ Recorded(receipt') /\ RunsSound'
      BY <2>1 DEF vars, GateInv, Types, Recorded, RunsSound
    <3>3. CleanupSound'  BY <2>1 DEF vars, GateInv, CleanupSound, Finished, Done
    <3> QED  BY <3>1, <3>2, <3>3 DEF GateInv, Recorded
  <2> QED  BY <2>1, PlanStepKeeps, RecordStepKeeps, WorldStepKeeps DEF Next
<1> QED  BY <1>1, <1>2, PTL DEF Spec

\* The receipt stays valid, records each Run for one role, and its block names an
\* operation that is ambiguous
\* (spikes/remote-execution-node/lib/receipt.mjs, validation of the document).
THEOREM GateTypesCorrect == Spec => []TypeOK
<1>1. GateInv => TypeOK
  <2> SUFFICES ASSUME GateInv PROVE TypeOK  OBVIOUS
  <2>1. ValidReceipt(receipt)
    BY DEF GateInv, Types, Receipts, Recorded, RunsSound, ValidReceipt
  <2>2. ToSet(desk.plan) \subseteq Operations
    BY DEF GateInv, Types, Desks, ToSet
  <2>3. executed \in [Operations -> Nat]  BY DEF GateInv, Sound
  <2> QED  BY <2>1, <2>2, <2>3 DEF TypeOK, GateInv, Types, Worlds, Desks, Recorded
<1> QED  BY <1>1, GateStaysSound, PTL

\* Once every cleanup operation is confirmed, the Workspace, the unit, its files and
\* the Shells are gone, and no late command brings one of them back
\* (spikes/remote-execution-node/manual.mjs, the cleanup confirmations).
THEOREM CleanupCorrect == Spec => []CleanupComplete
<1>1. GateInv => CleanupComplete
  BY DEF GateInv, CleanupSound, Finished, CleanupComplete, Cleaned, CleanupOperations, ForRole
<1> QED  BY <1>1, GateStaysSound, PTL
=============================================================================
