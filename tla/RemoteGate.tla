------------------------------ MODULE RemoteGate ------------------------------
(***************************************************************************)
(* The manual gate of the remote execution node                            *)
(* (spikes/remote-execution-node/manual.mjs, lib/manual-gate.mjs,          *)
(* lib/receipt.mjs, lib/runtime.mjs): an operator creates a Workspace with *)
(* one Shell per role, starts the runner, presents the Shells twice and    *)
(* cleans up, each command under a durable receipt.                        *)
(*                                                                         *)
(* Every call of manual.mjs is one action: it loads the receipt, checks    *)
(* it, replaces the file by a rename and prints.  The operator executes    *)
(* printed commands; a command may take effect at once, later or never.    *)
(* Readback evidence is taken from the world when it is recorded.          *)
(***************************************************************************)
EXTENDS Integers, Sequences, FiniteSets, SequencesExt

CONSTANTS
    Roles,          \* coordinator, builder and reviewer
    Paths,          \* socket paths an invocation may name
    NoPath,         \* a model value: no path yet
    NoOperation,    \* a model value: null
    MaxRuns,        \* bound on Shell Runs
    MaxFaults,      \* bound on crashes, lost commands and foreign changes together
    Careless        \* may mark-ambiguous name an operation that was only intended

ASSUME GateAssumption ==
    /\ IsFiniteSet(Roles) /\ Roles # {} /\ NoPath \notin Paths
    /\ MaxRuns \in Nat /\ MaxFaults \in Nat /\ Careless \in BOOLEAN

VARIABLES
    receipt,    \* the receipt file
    world,      \* Boomux, the user units and the runner's files
    late,       \* commands whose effect is still to come
    desk,       \* what the operator has printed and is about to execute
    executed,   \* history: how often each command was executed
    faults      \* how many faults there were

vars == <<receipt, world, late, desk, executed, faults>>

-----------------------------------------------------------------------------
(* Receipt operations, one per mutating command.                           *)

ForRole(kind) == {<<kind, r>> : r \in Roles}
WorkspaceCreate == <<"workspace-create">>
RunnerStart == <<"runner-start">>
UnitStop == <<"cleanup-unit-stop">>
FilesRemove == <<"cleanup-remove-files">>
WorkspaceClose == <<"cleanup-workspace-close">>
CleanupOperations == {UnitStop, FilesRemove, WorkspaceClose} \cup ForRole("cleanup-shell-close")
Operations ==
    {WorkspaceCreate, RunnerStart} \cup ForRole("shell-create") \cup ForRole("present")
        \cup ForRole("represent") \cup CleanupOperations

ASSUME OperationAssumption == NoOperation \notin Operations

InOrder(kind) == SetToSeq(ForRole(kind))
CleanupOrder == <<UnitStop, FilesRemove>> \o InOrder("cleanup-shell-close") \o <<WorkspaceClose>>

OperationStates == {"none", "intended", "attempted", "confirmed", "ambiguous"}

NewReceipt ==
    [file |-> "ready", preflight |-> FALSE, remotePreflight |-> FALSE, blocked |-> NoOperation,
     state |-> [op \in Operations |-> "none"], intent |-> [op \in Operations |-> NoPath],
     mapped |-> FALSE, runner |-> FALSE, runs |-> [r \in Roles |-> 0]]

ValidReceipt(r) ==
    /\ r.file \in {"none", "torn", "ready"}
    /\ r.remotePreflight => r.preflight
    /\ r.blocked \in Operations \cup {NoOperation}
    /\ r.state \in [Operations -> OperationStates]
    /\ r.intent \in [Operations -> Paths \cup {NoPath}]
    /\ r.mapped \in BOOLEAN /\ r.runner \in BOOLEAN
    /\ r.runs \in [Roles -> 0 .. MaxRuns]
    /\ \A x, y \in Roles : x # y /\ r.runs[x] # 0 => r.runs[x] # r.runs[y]

\* A Shell has a Run from its first open on; cwd and argv are its socket path.
NoShell == [status |-> "absent", run |-> 0, socket |-> NoPath]
NewWorld ==
    [workspace |-> "absent", shells |-> [r \in Roles |-> NoShell], foreign |-> FALSE,
     unit |-> "absent", files |-> NoPath, runs |-> 0]

Init ==
    /\ receipt = [NewReceipt EXCEPT !.file = "none"]
    /\ world = NewWorld
    /\ late = {}
    /\ desk = [plan |-> <<>>, attempting |-> NoOperation]
    /\ executed = [op \in Operations |-> 0]
    /\ faults = 0

Fault == faults < MaxFaults /\ faults' = faults + 1
worldVars == <<world, late, executed>>

-----------------------------------------------------------------------------
(* The receipt file.  A replacement is a rename; only the first write can  *)
(* be torn, and a torn receipt refuses everything.                         *)

Loaded == receipt.file = "ready"
Update(r) == Loaded /\ receipt' = r /\ UNCHANGED <<worldVars, faults>>

ReceiptInit ==
    /\ receipt.file = "none"
    /\ \/ receipt' = NewReceipt /\ UNCHANGED faults
       \/ receipt' = [receipt EXCEPT !.file = "torn"] /\ Fault
    /\ UNCHANGED <<worldVars, desk>>

PreflightBind ==
    /\ ~receipt.preflight
    /\ Update([receipt EXCEPT !.preflight = TRUE])
    /\ UNCHANGED desk

RecordRemotePreflight ==
    /\ receipt.preflight /\ ~receipt.remotePreflight
    /\ Update([receipt EXCEPT !.remotePreflight = TRUE])
    /\ UNCHANGED desk

\* appendIntent: a new intent, or the replay of the same one.
Replayable_Attempted(op, path) ==
    receipt.state[op] = "none" \/ (receipt.state[op] \in {"intended", "attempted"} /\ receipt.intent[op] = path)
Replayable(op, path) ==
    receipt.state[op] = "none" \/ (receipt.state[op] = "intended" /\ receipt.intent[op] = path)

Authorized == Loaded /\ receipt.blocked = NoOperation /\ receipt.remotePreflight
Planned(ops, path) ==
    [receipt EXCEPT !.state = [op \in Operations |-> IF op \in ops THEN "intended" ELSE @[op]],
                    !.intent = [op \in Operations |-> IF op \in ops THEN path ELSE @[op]]]

\* The intents are durable before the commands are printed.
Plan(order, path) ==
    /\ Authorized
    /\ \A op \in ToSet(order) : Replayable(op, path)
    /\ Update(Planned(ToSet(order), path))
    /\ desk' = [desk EXCEPT !.plan = order]

-----------------------------------------------------------------------------
(* The plans.                                                              *)

PlanWorkspaceCreate == Plan(<<WorkspaceCreate>>, NoPath)

PlanShellCreates(socket) ==
    /\ receipt.state[WorkspaceCreate] = "confirmed" /\ ~receipt.mapped
    /\ Plan(InOrder("shell-create"), socket)

PlanRunnerStart(socket) == receipt.mapped /\ Plan(<<RunnerStart>>, socket)

PlanPresentAll == receipt.mapped /\ receipt.runner /\ Plan(InOrder("present"), NoPath)

RunsRecorded(r) == \A role \in Roles : r.runs[role] # 0
PlanRepresentAll ==
    /\ receipt.mapped /\ receipt.runner /\ RunsRecorded(receipt)
    /\ Plan(InOrder("represent"), NoPath)

\* exactCleanupPlan: the Workspace, its placement and exactly the recorded Shells.
ExactlyOwned ==
    /\ world.workspace = "open" /\ ~world.foreign
    /\ \A r \in Roles :
          /\ world.shells[r].status \in {"pending", "running", "exited"}
          /\ receipt.runs[r] # 0 => world.shells[r].run = receipt.runs[r]

\* Each intent is an update of its own: a crash leaves the first few of them.
PlanCleanup ==
    /\ Authorized /\ receipt.mapped /\ receipt.runner /\ ExactlyOwned
    /\ \/ Plan(CleanupOrder, NoPath)
       \/ \E k \in 1 .. Len(CleanupOrder) - 1 :
             /\ \A i \in 1 .. k : Replayable(CleanupOrder[i], NoPath)
             /\ receipt' = Planned({CleanupOrder[i] : i \in 1 .. k}, NoPath)
             /\ Fault
             /\ UNCHANGED <<worldVars, desk>>

-----------------------------------------------------------------------------
(* Outcomes.                                                               *)

Attempted(op) == [receipt EXCEPT !.state[op] = "attempted"]
OthersProven(op) == \A other \in Operations \ {op} : receipt.state[other] # "attempted"

\* The next command of the printed plan, once those before it are proven.
NextPrinted(op) ==
    \E i \in DOMAIN desk.plan :
        desk.plan[i] = op /\ \A j \in 1 .. i - 1 : receipt.state[desk.plan[j]] = "confirmed"

MarkAttempted(op) ==
    /\ NextPrinted(op)
    /\ receipt.blocked = NoOperation /\ OthersProven(op)
    /\ receipt.state[op] = "intended"
    /\ Update(Attempted(op))
    /\ desk' = [desk EXCEPT !.attempting = op]

MarkAmbiguous(op) ==
    /\ receipt.state[op] = "attempted" \/ (Careless /\ receipt.state[op] = "intended")
    /\ desk.attempting = NoOperation
    /\ Update([receipt EXCEPT !.state[op] = "ambiguous", !.blocked = op])
    /\ UNCHANGED desk

RequireAttempted(op) == receipt.state[op] \in {"attempted", "ambiguous"} /\ desk.attempting = NoOperation
Unblocked_Keeps(r, op) == r
Unblocked(r, op) == IF r.blocked = op THEN [r EXCEPT !.blocked = NoOperation] ELSE r
Confirmed(op) == Unblocked([receipt EXCEPT !.state[op] = "confirmed"], op)
Confirm(op, r) == RequireAttempted(op) /\ Update(r) /\ UNCHANGED desk

\* resolveWorkspaceCreation: one new Workspace of the receipt's name, and empty.
RecordWorkspaceCreation ==
    /\ receipt.blocked = NoOperation
    /\ world.workspace = "open" /\ \A r \in Roles : world.shells[r] = NoShell
    /\ Confirm(WorkspaceCreate, Confirmed(WorkspaceCreate))

\* resolveShellCreation: the intended Shell, pending, and no unrecorded one.
KnownShells == {r \in Roles : receipt.state[<<"shell-create", r>>] = "confirmed"}
RecordShellCreation(r, socket) ==
    /\ receipt.blocked = NoOperation
    /\ world.shells[r].status = "pending" /\ world.shells[r].socket = socket
    /\ ~world.foreign /\ \A other \in Roles \ {r} : world.shells[other] = NoShell \/ other \in KnownShells
    /\ Confirm(<<"shell-create", r>>, Confirmed(<<"shell-create", r>>))

ShellsConfirmed_One == \E r \in Roles : r \in KnownShells
ShellsConfirmed == \A r \in Roles : r \in KnownShells
RecordWorkspaceReadback ==
    /\ receipt.blocked = NoOperation /\ ~receipt.mapped
    /\ receipt.state[WorkspaceCreate] = "confirmed" /\ ShellsConfirmed
    /\ world.workspace = "open"
    /\ Update([receipt EXCEPT !.mapped = TRUE])
    /\ UNCHANGED desk

\* The unit is active and both paths the invocation names are there.
RecordRunnerReadback(socket) ==
    /\ world.unit = "active" /\ world.files = socket
    /\ ~receipt.runner
    /\ Confirm(RunnerStart, [Confirmed(RunnerStart) EXCEPT !.runner = TRUE])

\* A Run is recorded once; reading it back again must find the same.
RecordShellRunReadback(r) ==
    LET op == <<"present", r>>
        shell == world.shells[r]
        next == IF receipt.state[op] = "confirmed" THEN receipt ELSE Confirmed(op)
    IN /\ receipt.blocked = NoOperation /\ receipt.mapped
       /\ receipt.state[op] = "confirmed" \/ RequireAttempted(op)
       /\ shell.status = "running" /\ receipt.runs[r] \in {0, shell.run}
       /\ Update([next EXCEPT !.runs[r] = shell.run])
       /\ UNCHANGED desk

RecordRepresentRunReadback(r) ==
    /\ world.shells[r].status = "running" /\ world.shells[r].run = receipt.runs[r]
    /\ Confirm(<<"represent", r>>, Confirmed(<<"represent", r>>))

UnitStopped_Unproven == world.unit # "absent"
UnitStopped == world.unit = "inactive"
ConfirmCleanupUnitStop == UnitStopped /\ Confirm(UnitStop, Confirmed(UnitStop))

ConfirmCleanupFilesRemoved == world.files = NoPath /\ Confirm(FilesRemove, Confirmed(FilesRemove))

ConfirmCleanupShellClose(r) ==
    /\ receipt.mapped /\ world.shells[r].status = "closed"
    /\ Confirm(<<"cleanup-shell-close", r>>, Confirmed(<<"cleanup-shell-close", r>>))

ConfirmCleanupWorkspaceClose ==
    /\ receipt.mapped /\ world.workspace = "closed"
    /\ Confirm(WorkspaceClose, Confirmed(WorkspaceClose))

-----------------------------------------------------------------------------
(* Boomux and systemd: what a command does when it takes effect.           *)

Opened(w, r) ==
    IF w.shells[r].status \in {"pending", "exited"}
    THEN [w EXCEPT !.runs = @ + 1, !.shells[r].status = "running", !.shells[r].run = w.runs + 1]
    ELSE w
ShellCreated(w, r, socket) ==
    IF w.workspace = "open" /\ w.shells[r] = NoShell
    THEN [w EXCEPT !.shells[r] = [status |-> "pending", run |-> 0, socket |-> socket]] ELSE w
Started(w, socket) == IF w.unit = "absent" THEN [w EXCEPT !.unit = "active", !.files = socket] ELSE w
Closed(shell) == IF shell = NoShell THEN shell ELSE [shell EXCEPT !.status = "closed"]

Effect(w, op) ==
    CASE op = WorkspaceCreate -> [w EXCEPT !.workspace = "open"]
      [] op[1] = "shell-create" -> ShellCreated(w, op[2], receipt.intent[op])
      [] op = RunnerStart -> Started(w, receipt.intent[op])
      [] op[1] \in {"present", "represent"} -> Opened(w, op[2])
      [] op = UnitStop -> [w EXCEPT !.unit = "inactive"]
      [] op = FilesRemove -> [w EXCEPT !.files = NoPath]
      [] op[1] = "cleanup-shell-close" -> [w EXCEPT !.shells[op[2]] = Closed(@)]
      [] op = WorkspaceClose ->
            [w EXCEPT !.workspace = "closed", !.shells = [r \in Roles |-> Closed(@[r])]]

Opens(op) == op[1] \in {"present", "represent"}
Bounded(op) == Opens(op) => world.runs < MaxRuns

\* The operator executes the command just marked; it works, or is late or lost.
Execute(op) ==
    /\ desk.attempting = op /\ Bounded(op)
    /\ desk' = [desk EXCEPT !.attempting = NoOperation]
    /\ executed' = [executed EXCEPT ![op] = @ + 1]
    /\ \/ world' = Effect(world, op) /\ UNCHANGED <<late, faults>>
       \/ Fault /\ late' = late \cup {op} /\ UNCHANGED world
       \/ Fault /\ UNCHANGED <<world, late>>
    /\ UNCHANGED receipt

Land(op) ==
    /\ op \in late /\ Bounded(op)
    /\ late' = late \ {op}
    /\ world' = Effect(world, op)
    /\ UNCHANGED <<receipt, desk, executed, faults>>

\* The operator's session ends; what it printed is kept.
CrashOperator ==
    /\ desk.attempting # NoOperation /\ Fault
    /\ desk' = [desk EXCEPT !.attempting = NoOperation]
    /\ UNCHANGED <<receipt, worldVars>>

\* A Pi exits, somebody opens a Shell, or adds one to the Workspace.
PiExits(r) ==
    /\ world.shells[r].status = "running" /\ Fault
    /\ world' = [world EXCEPT !.shells[r].status = "exited"]
    /\ UNCHANGED <<receipt, late, desk, executed>>
SomebodyOpens(r) ==
    /\ world.shells[r].status \in {"pending", "exited"} /\ world.runs < MaxRuns /\ Fault
    /\ world' = Opened(world, r)
    /\ UNCHANGED <<receipt, late, desk, executed>>
SomebodyAdds ==
    /\ world.workspace = "open" /\ ~world.foreign /\ Fault
    /\ world' = [world EXCEPT !.foreign = TRUE]
    /\ UNCHANGED <<receipt, late, desk, executed>>

-----------------------------------------------------------------------------
PlanStep ==
    \/ PlanWorkspaceCreate \/ PlanPresentAll \/ PlanRepresentAll \/ PlanCleanup
    \/ \E socket \in Paths : PlanShellCreates(socket) \/ PlanRunnerStart(socket)

RecordStep ==
    \/ ReceiptInit \/ PreflightBind \/ RecordRemotePreflight
    \/ \E op \in Operations : MarkAttempted(op) \/ MarkAmbiguous(op)
    \/ RecordWorkspaceCreation \/ RecordWorkspaceReadback
    \/ \E socket \in Paths : RecordRunnerReadback(socket) \/ \E r \in Roles : RecordShellCreation(r, socket)
    \/ \E r \in Roles : RecordShellRunReadback(r) \/ RecordRepresentRunReadback(r) \/ ConfirmCleanupShellClose(r)
    \/ ConfirmCleanupUnitStop \/ ConfirmCleanupFilesRemoved \/ ConfirmCleanupWorkspaceClose

WorldStep ==
    \/ \E op \in Operations : Execute(op) \/ Land(op)
    \/ CrashOperator \/ SomebodyAdds
    \/ \E r \in Roles : PiExits(r) \/ SomebodyOpens(r)

Next == PlanStep \/ RecordStep \/ WorldStep

Spec == Init /\ [][Next]_vars

-----------------------------------------------------------------------------
(* Properties.                                                             *)

\* The receipt stays valid, a block names an operation that is ambiguous, and the
\* records keep their types.
TypeOK ==
    /\ ValidReceipt(receipt)
    /\ receipt.blocked # NoOperation => receipt.state[receipt.blocked] = "ambiguous"
    /\ world.shells \in [Roles -> [status : {"absent", "pending", "running", "exited", "closed"},
                                   run : 0 .. MaxRuns, socket : Paths \cup {NoPath}]]
    /\ late \subseteq Operations
    /\ desk.attempting \in Operations \cup {NoOperation} /\ ToSet(desk.plan) \subseteq Operations
    /\ executed \in [Operations -> Nat]

\* No command is executed twice, whatever is planned again after a crash, a lost
\* or a late command.
ExecutedOnce == \A op \in Operations : executed[op] <= 1

Done(op) == receipt.state[op] = "confirmed"

\* verifyCleanupPostconditions, for what the receipt owns.
Cleaned ==
    /\ world.workspace = "closed" /\ world.unit = "inactive" /\ world.files = NoPath
    /\ \A r \in Roles : world.shells[r].status = "closed"

\* Once every cleanup operation is confirmed nothing of the receipt is left, and
\* no late command brings anything back.
CleanupComplete == (\A op \in CleanupOperations : Done(op)) => Cleaned

=============================================================================
