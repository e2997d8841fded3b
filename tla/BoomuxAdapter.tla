----------------------------- MODULE BoomuxAdapter -----------------------------
(***************************************************************************)
(* The terminal runtime adapter of spikes/boomux-runtime-adapter           *)
(* (lib/adapter.mjs, lib/receipt.mjs, lib/executor.mjs): one Workspace     *)
(* with a Shell per role, created, presented, inspected, closed and        *)
(* cleaned up through the Boomux command line, under a receipt file.       *)
(*                                                                         *)
(* manual.mjs runs one call of the adapter per process.  A call is a       *)
(* sequence of steps, one per command; a read and the receipt update that  *)
(* follows it are one step, since nobody else writes the receipt.  A       *)
(* mutating command is weak: it may fail or time out and still take        *)
(* effect, at once or later.  Of the recorded operations only the unknown  *)
(* outcomes are kept: no other kind is ever read back.                     *)
(***************************************************************************)
EXTENDS Integers, Sequences, FiniteSets, SequencesExt

CONSTANTS
    Roles,          \* the session keys, each with a specification of its own
    NoRole,         \* a model value
    MaxRuns,        \* bound on Shell Runs
    MaxFaults,      \* bound on failures, crashes and foreign actions together
    PollAttempts    \* pollAttempts of the adapter

ASSUME AdapterAssumption ==
    /\ IsFiniteSet(Roles) /\ Roles # {} /\ NoRole \notin Roles
    /\ MaxRuns \in Nat /\ MaxFaults \in Nat /\ PollAttempts \in Nat \ {0}

VARIABLES
    receipt,    \* the receipt file
    call,       \* the call that is running
    boomux,     \* the daemon: the Workspace, its Shells, their Runs and events
    late,       \* commands whose effect is still to come
    created,    \* history: how often each Shell's create command was executed
    ended,      \* history: the Shells whose create command preceded that of the
                \* Workspace's close
    shown,      \* history: the Runs whose presentation was confirmed
    faults      \* how many faults there were

vars == <<receipt, call, boomux, late, created, ended, shown, faults>>

Command(kind, r) == <<kind, r>>
WorkspaceCreate == Command("workspace create", NoRole)
WorkspaceClose == Command("workspace close", NoRole)
Commands ==
    {WorkspaceCreate, WorkspaceClose} \cup ({"shell create", "open", "shell close"} \X Roles)

NoSession == [phase |-> "none", run |-> 0, closed |-> FALSE]
NewReceipt ==
    [file |-> "ready", workspace |-> 0, placement |-> FALSE, unknown |-> FALSE, cleaned |-> FALSE,
     sessions |-> [r \in Roles |-> NoSession]]
NoCall == [op |-> "none", step |-> "none", role |-> NoRole, polls |-> 0]
NoShell == [status |-> "absent", run |-> 0]
NewBoomux ==
    [workspace |-> 0, made |-> 0, shells |-> [r \in Roles |-> NoShell], foreign |-> FALSE, runs |-> 0,
     events |-> <<>>]

Init ==
    /\ receipt = [NewReceipt EXCEPT !.file = "none"]
    /\ call = NoCall
    /\ boomux = NewBoomux
    /\ late = {}
    /\ created = [r \in Roles |-> 0]
    /\ ended = {}
    /\ shown = [r \in Roles |-> {}]
    /\ faults = 0

Fault == faults < MaxFaults /\ faults' = faults + 1
history == <<created, ended>>
world == <<boomux, late, history>>

-----------------------------------------------------------------------------
(* Boomux.                                                                 *)

Existing == {r \in Roles : boomux.shells[r].status # "absent"}

Opened(b, r) ==
    IF b.shells[r].status = "running" THEN b
    ELSE [b EXCEPT !.shells[r] = [status |-> "running", run |-> b.runs + 1], !.runs = @ + 1,
                   !.events = Append(@, [role |-> r, run |-> b.runs + 1])]

Closed(b, r) == [b EXCEPT !.shells[r] = NoShell]

\* What the daemon makes of a command; what it refuses changes nothing.
Effect(c) ==
    LET r == c[2] IN
    CASE c[1] = "workspace create" -> [boomux EXCEPT !.workspace = boomux.made + 1, !.made = @ + 1]
      [] c[1] = "shell create" -> [boomux EXCEPT !.shells[r] = [NoShell EXCEPT !.status = "pending"]]
      [] c[1] = "open" -> Opened(boomux, r)
      [] c[1] = "shell close" -> Closed(boomux, r)
      [] OTHER -> [NewBoomux EXCEPT !.made = boomux.made, !.runs = boomux.runs, !.events = boomux.events]

Accepts(c) ==
    LET r == c[2] IN
    CASE c[1] = "workspace create" -> boomux.workspace = 0
      [] c[1] = "shell create" -> boomux.workspace # 0 /\ r \notin Existing
      [] c[1] = "open" -> r \in Existing /\ (boomux.runs < MaxRuns \/ boomux.shells[r].status = "running")
      [] c[1] = "shell close" -> r \in Existing
      [] OTHER -> boomux.workspace # 0

Land(c) ==
    /\ c \in late
    /\ late' = late \ {c}
    /\ boomux' = IF Accepts(c) THEN Effect(c) ELSE boomux
    /\ UNCHANGED <<receipt, call, history, shown, faults>>

ProbeExits(r) ==
    /\ boomux.shells[r].status = "running"
    /\ boomux' = [boomux EXCEPT !.shells[r].status = "exited",
                    !.events = Append(@, [role |-> r, run |-> boomux.shells[r].run])]
    /\ UNCHANGED <<receipt, call, late, history, shown, faults>>

\* The user opens or closes a Shell of the adapter or adds one of his own.
Somebody ==
    /\ Fault
    /\ \/ \E r \in Roles : \/ Accepts(Command("open", r)) /\ boomux' = Opened(boomux, r)
                           \/ Accepts(Command("shell close", r)) /\ boomux' = Closed(boomux, r)
       \/ boomux.workspace # 0 /\ boomux' = [boomux EXCEPT !.foreign = TRUE]
    /\ UNCHANGED <<receipt, call, late, history, shown>>

-----------------------------------------------------------------------------
(* Calls and their steps.                                                  *)

At(step) == call.step = step
Goto(step) == call' = [call EXCEPT !.step = step]
Done == call' = NoCall

\* A weak command: its exit says nothing of its effect, which may come later
\* (a Shell that is opened always takes its time to run).
Executes(c) ==
    /\ created' = IF c[1] = "shell create" THEN [created EXCEPT ![c[2]] = @ + 1] ELSE created
    /\ ended' = IF c = WorkspaceClose THEN {r \in Roles : created[r] # 0} ELSE ended
Weak(c, next, failed) ==
    /\ Executes(c)
    /\ \/ Accepts(c) /\ boomux' = Effect(c) /\ Goto(next) /\ UNCHANGED <<late, faults>>
       \/ ~Accepts(c) /\ Goto(failed) /\ UNCHANGED <<boomux, late, faults>>
       \/ /\ Accepts(c) /\ late' = late \cup {c} /\ Goto(next) /\ UNCHANGED boomux
          /\ IF c[1] = "open" THEN UNCHANGED faults ELSE Fault
       \/ /\ Fault /\ Goto(failed)
          /\ \/ Accepts(c) /\ boomux' = Effect(c) /\ UNCHANGED late
             \/ late' = late \cup {c} /\ UNCHANGED boomux
             \/ UNCHANGED <<boomux, late>>
    /\ UNCHANGED <<receipt, shown>>

\* markUnknown: nothing mutates under this receipt any more.
MarkUnknown ==
    /\ At("unknown")
    /\ receipt' = [receipt EXCEPT !.unknown = TRUE]
    /\ Done
    /\ UNCHANGED <<world, shown, faults>>

\* A reading command fails: a mutation under way becomes an unknown outcome.
ReadFails ==
    /\ Fault
    /\ \/ call.step \in {"start", "owned"} /\ Done
       \/ call.step \in {"made", "confirm", "inspect", "poll", "absent", "gone"} /\ Goto("unknown")
    /\ UNCHANGED <<receipt, world, shown>>

\* The process dies; a command it was executing may still take effect.
Executing ==
    CASE At("make") -> {WorkspaceCreate}
      [] At("create") -> {Command("shell create", call.role)}
      [] At("open") -> {Command("open", call.role)}
      [] At("close") -> {Command("shell close", call.role)}
      [] At("end") -> {WorkspaceClose}
      [] OTHER -> {}
Crash ==
    /\ call # NoCall /\ Fault /\ Done
    /\ \/ UNCHANGED <<late, history>>
       \/ \E c \in Executing : late' = late \cup {c} /\ Executes(c)
    /\ UNCHANGED <<receipt, boomux, shown>>

Start(op, r) ==
    /\ call = NoCall
    /\ call' = [NoCall EXCEPT !.op = op, !.step = "start", !.role = r]
    /\ UNCHANGED <<receipt, world, shown, faults>>

Session(r) == receipt.sessions[r]
HasWorkspace == receipt.workspace # 0 /\ boomux.workspace = receipt.workspace
\* assertNoUnknownOutcome refuses after any unknown outcome, whosever it was.
UnknownOutcome == receipt.unknown
Confirmed(r) == receipt.file = "ready" /\ Session(r).phase = "confirmed"

-----------------------------------------------------------------------------
(* create.                                                                 *)

\* The first write of the receipt is not atomic: a torn one refuses all calls.
Initialize ==
    /\ call.op = "create" /\ At("start") /\ receipt.file = "none"
    /\ \/ receipt' = NewReceipt /\ UNCHANGED <<call, faults>>
       \/ receipt' = [receipt EXCEPT !.file = "torn"] /\ Fault /\ Done
    /\ UNCHANGED <<world, shown>>

\* An unknown outcome, a session that exists and a Workspace that changed or
\* is not the adapter's own end the call.
StartCreate ==
    /\ call.op = "create" /\ At("start") /\ receipt.file # "none"
    /\ IF \/ receipt.file = "torn" \/ UnknownOutcome \/ Session(call.role).phase # "none"
          \/ receipt.workspace # boomux.workspace
       THEN Done
       ELSE Goto(IF receipt.workspace # 0 THEN "prepare" ELSE "make")
    /\ UNCHANGED <<receipt, world, shown, faults>>

MakeWorkspace == At("make") /\ Weak(WorkspaceCreate, "made", "made")

\* ensureWorkspace reads back what the command did, failed or not.
RecordWorkspace ==
    /\ At("made")
    /\ IF boomux.workspace # 0 /\ Existing = {} /\ ~boomux.foreign
       THEN Goto("prepare") /\ receipt' = [receipt EXCEPT !.workspace = boomux.workspace]
       ELSE Goto("unknown") /\ UNCHANGED receipt
    /\ UNCHANGED <<world, shown, faults>>

Prepared_NotRecorded(r) == receipt
\* The session is recorded before the command that creates its Shell.
Prepared(r) == [receipt EXCEPT !.sessions[r].phase = "prepared"]
PrepareSession ==
    /\ At("prepare")
    /\ receipt' = Prepared(call.role)
    /\ Goto("create")
    /\ UNCHANGED <<world, shown, faults>>

CreateShell == At("create") /\ Weak(Command("shell create", call.role), "confirm", "unknown")

\* confirmShell: the owner Workspace holds the confirmed Shells and the new one.
Recorded == {r \in Roles : Session(r).phase = "confirmed" /\ ~Session(r).closed}
ConfirmPlacement ==
    /\ At("confirm")
    /\ Goto(IF HasWorkspace /\ ~boomux.foreign /\ Existing = Recorded \cup {call.role}
            THEN "inspect" ELSE "unknown")
    /\ UNCHANGED <<receipt, world, shown, faults>>

ConfirmShell ==
    /\ At("inspect")
    /\ IF boomux.shells[call.role].status = "pending"
       THEN /\ receipt' = [receipt EXCEPT !.placement = TRUE, !.sessions[call.role].phase = "confirmed"]
            /\ Done
       ELSE Goto("unknown") /\ UNCHANGED receipt
    /\ UNCHANGED <<world, shown, faults>>

-----------------------------------------------------------------------------
(* inspect, present and subscribe: the identity of Runs.                   *)

\* recordObservedRun: the first Run seen is the session's Run.
Observes_Anything(r, run) == TRUE
Observes(r, run) == run = 0 \/ Session(r).run \in {0, run}
Observed(r, run) == IF run = 0 THEN receipt ELSE [receipt EXCEPT !.sessions[r].run = run]

Inspect(r) ==
    /\ call = NoCall /\ Confirmed(r) /\ ~Session(r).closed
    /\ r \in Existing /\ Observes(r, boomux.shells[r].run)
    /\ receipt' = Observed(r, boomux.shells[r].run)
    /\ UNCHANGED <<call, world, shown, faults>>

\* An exited, closed, absent or changed Shell is not opened.
StartPresent ==
    LET r == call.role
        run == boomux.shells[r].run IN
    /\ call.op = "present" /\ At("start")
    /\ IF \/ ~Confirmed(r) \/ UnknownOutcome \/ Session(r).closed
          \/ r \notin Existing \/ ~Observes(r, run)
       THEN Done /\ UNCHANGED receipt
       ELSE /\ receipt' = Observed(r, run)
            /\ IF boomux.shells[r].status = "exited" THEN Done ELSE Goto("open")
    /\ UNCHANGED <<world, shown, faults>>

OpenShell == At("open") /\ Weak(Command("open", call.role), "poll", "unknown")

Exhausted == call.polls = PollAttempts
PollShell ==
    LET r == call.role
        shell == boomux.shells[r] IN
    /\ At("poll")
    /\ IF r \notin Existing \/ ~Observes(r, shell.run) \/ Exhausted
       THEN Goto("unknown") /\ UNCHANGED <<receipt, shown>>
       ELSE /\ receipt' = Observed(r, shell.run)
            /\ \/ /\ shell.status = "running" /\ Done
                  /\ shown' = [shown EXCEPT ![r] = @ \cup {shell.run}]
               \/ shell.status = "exited" /\ Goto("unknown") /\ UNCHANGED shown
               \/ /\ shell.status = "pending" /\ call' = [call EXCEPT !.polls = @ + 1]
                  /\ UNCHANGED shown
    /\ UNCHANGED <<world, faults>>

\* A page of events after any cursor: the first event of a Shell without a
\* recorded Run records it, another Run's event is reported as a change.
RunInPage(page, r) ==
    LET mine == SelectSeq(page, LAMBDA e : e.role = r)
    IN IF Session(r).run # 0 \/ mine = <<>> THEN Session(r).run ELSE Head(mine).run
Subscribe ==
    /\ call = NoCall
    /\ \E wanted \in SUBSET {r \in Roles : Confirmed(r)}, i, j \in 1 .. Len(boomux.events) :
         LET page == SubSeq(boomux.events, i, j) IN
         receipt' = [receipt EXCEPT !.sessions =
           [r \in Roles |-> IF r \in wanted THEN [@[r] EXCEPT !.run = RunInPage(page, r)] ELSE @[r]]]
    /\ UNCHANGED <<call, world, shown, faults>>

-----------------------------------------------------------------------------
(* close and cleanup.                                                      *)

StartClose ==
    /\ call.op = "close" /\ At("start")
    /\ IF ~Confirmed(call.role) \/ Session(call.role).closed \/ UnknownOutcome THEN Done ELSE Goto("close")
    /\ UNCHANGED <<receipt, world, shown, faults>>

CloseShell == At("close") /\ Weak(Command("shell close", call.role), "absent", "unknown")

\* cleanup goes on with the next session.
RecordClosed ==
    /\ At("absent")
    /\ IF call.role \notin Existing
       THEN /\ receipt' = [receipt EXCEPT !.sessions[call.role].closed = TRUE]
            /\ IF call.op = "cleanup" THEN Goto("sessions") ELSE Done
       ELSE Goto("unknown") /\ UNCHANGED receipt
    /\ UNCHANGED <<world, shown, faults>>

\* assertOwnedPlacement: the Workspace holds exactly the recorded Shells; a
\* prepared session has none and can match nothing.
OwnedPlacement_ConfirmedOnly == HasWorkspace /\ ~boomux.foreign /\ Recorded \subseteq Existing
OwnedPlacement ==
    /\ HasWorkspace /\ ~boomux.foreign
    /\ Existing = Recorded /\ \A r \in Roles : Session(r).phase # "prepared"

StartCleanup ==
    /\ call.op = "cleanup" /\ At("start")
    /\ IF receipt.workspace # 0 /\ ~UnknownOutcome /\ receipt.placement /\ OwnedPlacement
       THEN Goto("sessions") ELSE Done
    /\ UNCHANGED <<receipt, world, shown, faults>>

NextSession ==
    /\ At("sessions")
    /\ IF Recorded = {} THEN Goto("owned")
       ELSE \E r \in Recorded : call' = [call EXCEPT !.step = "close", !.role = r]
    /\ UNCHANGED <<receipt, world, shown, faults>>

CheckOwned ==
    /\ At("owned")
    /\ IF OwnedPlacement THEN Goto("end") ELSE Done
    /\ UNCHANGED <<receipt, world, shown, faults>>

CloseWorkspace == At("end") /\ Weak(WorkspaceClose, "gone", "unknown")

RecordCleanup ==
    /\ At("gone")
    /\ IF ~HasWorkspace
       THEN receipt' = [receipt EXCEPT !.cleaned = TRUE] /\ Done
       ELSE Goto("unknown") /\ UNCHANGED receipt
    /\ UNCHANGED <<world, shown, faults>>

-----------------------------------------------------------------------------
Next ==
    \/ Initialize \/ Start("cleanup", NoRole)
    \/ \E r \in Roles : \E op \in {"create", "present", "close"} : Start(op, r)
    \/ \E r \in Roles : Inspect(r) \/ ProbeExits(r)
    \/ StartCreate \/ MakeWorkspace \/ RecordWorkspace \/ PrepareSession \/ CreateShell
    \/ ConfirmPlacement \/ ConfirmShell
    \/ StartPresent \/ OpenShell \/ PollShell \/ Subscribe
    \/ StartClose \/ CloseShell \/ RecordClosed
    \/ StartCleanup \/ NextSession \/ CheckOwned \/ CloseWorkspace \/ RecordCleanup
    \/ MarkUnknown \/ ReadFails \/ Crash \/ Somebody
    \/ \E c \in Commands : Land(c)

Spec == Init /\ [][Next]_vars

-----------------------------------------------------------------------------
(* Properties.                                                             *)

Steps ==
    {"start", "make", "made", "prepare", "create", "confirm", "inspect", "open", "poll", "close",
     "absent", "sessions", "owned", "end", "gone", "unknown"}
Sessions == [phase : {"none", "prepared", "confirmed"}, run : 0 .. MaxRuns, closed : BOOLEAN]
Receipts ==
    [file : {"none", "ready", "torn"}, workspace : 0 .. MaxFaults + 1, placement : BOOLEAN,
     unknown : BOOLEAN, cleaned : BOOLEAN, sessions : [Roles -> Sessions]]
Shells ==
    [status : {"pending", "running", "exited"}, run : 0 .. MaxRuns] \cup {NoShell}

\* The command that creates the Shell of a session is executed once, whatever
\* fails or crashes and however often create is called again
\* (adapter.mjs: the prepared session precedes the command and refuses).
CreatedOnce == \A r \in Roles : created[r] <= 1

\* A replacement Run, started by an open that came late or by the user, is
\* never shown as the session's: every confirmed presentation was of the Run
\* that is recorded (adapter.mjs: recordObservedRun, run_changed).
RunNeverSubstituted == \A r \in Roles : shown[r] \subseteq {Session(r).run}

\* Nothing that the adapter created is left to the Workspace's close: by the time
\* that command is executed, each Shell created before it is gone and no creation
\* that was given up can still put one there, however late commands take effect
\* and whatever call crashed (adapter.mjs: assertOwnedPlacement before and after
\* the Shells; a creation whose outcome is unproven keeps cleanup from ending).
GoneBeforeItsWorkspace ==
    \A r \in ended : r \notin Existing /\ Command("shell create", r) \notin late

================================================================================
