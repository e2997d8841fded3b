# A TLA+ model of Omarchestra

Omarchestra runs a team of coding agents in *visible* Pi terminals. A runner
process per Team Goal keeps what is durable; a bridge in each Pi carries work to
it and human takeover back; projections show the same committed state to
consoles. This directory models those protocols, checks them with TLC and
proves the most important statements with TLAPS. `PROJECT.json` lists the runs,
the source lines behind every definition, the hazards and the theorems. Paths
below are relative to `src/prototypes/first-vertical-slice` unless they begin
with `spikes/` (that is `src/spikes/`) or `docs/design/`.

## The system

| Component | State | Operations | Hard because |
|---|---|---|---|
| Team Runner (`src/domain.ts`, `store.ts`, `runner.ts`) | SQLite: Goal, role bindings, assignment, event log; memory: a bridge session per Role, projection sessions | bridge hello, acknowledgement, bridge event, projection hello, close, start, stop | old and new connections of a Role overlap; events stream in the handler that commits them; restart loses sessions only |
| Visible bridge (`src/visible-bridge.ts`, `manual/live-bridge-core.ts`) | accepted/queued assignment, source sequence, shown label | receive label, receive assignment, start, human input, reconnect | the assignment is replayed at every handshake; acknowledgements get lost |
| Thin client (`src/thin-client.ts`) | cursor, event log | connect, page, snapshot, live event | the `await` of `connect` resumes after a whole chunk of frames |
| Adoption stores (`manual/live-adoption-store.ts`, `live-retirement-store.ts`) | adopted, replacement, retired and takeover rows, fences, vacancy generations | commit, replace, retire, purge, record takeover | one occupant per Role and one run per session are enforced by several tables together |
| Adoption gateway and runner (`observer/live-adoption-gateway-core.ts`, `live-adoption-runner.ts`, `adoption.ts`, `registry.ts`) | observed sessions, proposals, commit contexts, leases, recovery challenges | register, lifecycle, acknowledge, prove, ready, takeover, close, sweep, request, authorize, retire, purge | leases lapse, checks precede awaits, the process is killed and resumed |
| Pi extension (`observer/extension-adapter.ts`, `manual/live-adoption-extension.ts`) | connection, acknowledgement (per connection and per session), last commitment, pending takeover | connect, answer request, answer challenge, apply commitment, report input | reconnects while the gateway is away; memory is all the Pi has |
| Companion installation (`companion/installation.ts`) | plugin tree, receipt, shell configuration, staged copy | install, update, rollback, uninstall, recover | a fault after any effect; drift between inspections |
| Agent Console (`companion/projection-session.ts`, `console/`, `manual/live-companion-omarchy.ts`) | active session, publication chain, projection, pending intents, the panel | open, hide, clear, reload, publish, poll, intent, end | every operation awaits the shell, publications and polls wait for each other, a session may end under all of them |
| Observer gateway (`observer/registry.ts`, `extension-adapter.ts`, `live-companion-projection.ts`, `manual/live-observer-gateway.ts`) | registry, revision, connections, publisher, controls | register, heartbeat, lifecycle, close, expire, publish, pause, clear, quit | expiry, reordered registrations and a shell that fails before or after its effect |
| Remote execution node (`spikes/remote-execution-node`: `lib/runner-core.mjs`, `runner.mjs`, `bridge-*.mjs`, `control-client.mjs`) | one JSON state file, the operation queue, the bridge's bounded queue, the control link | bridge hello, event, snapshot, assignment, acknowledgement, takeover, assign, restart | state is changed before it is saved; queues drop frames; both ends restart |
| Manual gate of the node (`lib/manual-gate.mjs`, `receipt.mjs`, `runtime.mjs`) | a receipt file with one record per mutating command | plan, mark attempted, record readback, mark ambiguous, clean up | an operator runs the printed commands: they come late, are lost, or the terminal dies |
| Boomux adapter (`spikes/boomux-runtime-adapter`) | the receipt: Workspace, prepared and confirmed sessions, Runs, unknown outcomes | initialize, create, present, inspect, close, cleanup | commands time out and take effect later; the user opens and closes Shells |
| Plugin loader (`spikes/omarchy-ephemeral-plugin-loader`) | registrations, claims, call queues, Loaders, tombstones, operation records | register, summon, call, hide, unregister, scan | validation and teardown are deferred; Loaders call back late |
| Pi bridge spike (`spikes/pi-visible-bridge`) | predecessor of the Team Runner | as above | as above |

They interact over newline-framed JSON on Unix sockets (Team Runner, remote
runner, gateways, and their bridges and clients), over one SQLite file (the two
Adoption stores), through commands of the shell and of Boomux that may fail
after they took effect, and by direct calls (presentation polling, the
coordinator inside the Adoption runner).

What makes each one correct: the runner shows one committed label, runs an
assignment once and never takes control back from a human; a client sees the
log without gaps; a Role has one occupant and a session one run, only the
living Pi that acknowledged a commitment can recover it, work waits for its
receipt, and a retired or purged run has no authority left. An installation is
one whole release or is refused, and a file that an update took out is not lost
before the new release stands. A panel ends up showing what its source holds and nothing after it was
hidden. The remote runner knows what it has sent before it sends it. The
adapter and the gate execute a command once, and of what they created nothing is
destroyed unaccounted for. Two
temporary panels never share a source or a plugin id, and no call reaches the
wrong instance.

## Modules

| Module | Models |
|---|---|
| `TeamRunner` | the Team Runner, the visible hosts and the projection clients |
| `AdoptionStores` | the SQLite transactions of Adoption, Retirement and purge |
| `LiveAdoption` | gateway, runner, coordinator, registry and Pi extensions over those stores |
| `AdoptionContract` | what Adoption promises, as a specification of its own |
| `CompanionInstallation` | inspection, the four operations, recovery, faults, crash and foreign edits |
| `AgentConsole` | the Projection Session, its adapter, the panel and the controller process |
| `ObserverGateway` | the observer extension, socket, registry, publisher, controls and panel |
| `RemoteRunner` | one Role of the remote node: runner, bridge, visible Pi, control client |
| `RemoteGate` | the manual procedure that sets the node up and takes it down |
| `BoomuxAdapter` | the runtime adapter over the Boomux daemon |
| `PluginLoader` | the temporary panel host |
| `MC_*` | the small instances of each |
| `TeamRunnerProofs`, `InstallationProofs`, `PluginProofs`, `AdapterProofs`, `GateProofs`, `AdoptionProofs`, `RemoteRunnerProofs`, `ObserverProofs` | theorems |

### TeamRunner

`binding`, `assignment` and `events` are the database; `session`, `inbox` and
`projections` are the runner's sessions; `host`/`toHost`/`memory` and
`client`/`toClient`/`savedCursor`/`eventLog` are the two other ends. Socket
callbacks in the runner are synchronous, so each handler with its transaction
and every frame it sends is one action: `HandleBridgeHello`, `AcceptAssignment`,
`RecordDuplicateAck`, `RefuseAcknowledgement`, `ApplyInteractiveInput`,
`HandleBridgeClose`, `HandleProjectionHello`, `HandleProjectionClose`,
`StopRunner`, `StartRunner`. Two details of Node's event loop are kept because
they matter: a connection closed by one end stays registered at the other until
its own close event, and a channel that fails in the middle of a data chunk
still hands the rest of that chunk to the runner. A projection socket that is
destroyed and not yet closed makes the streaming loop throw
(`PushEventsToProjections`).

Abstracted: role names in labels (a label is the presentation state), payloads,
timestamps, protocol validation, event page limit (two instead of the code's
limit, so that a replay takes several pages).

### LiveAdoption

The gateway's handlers are actions on the head of `toGateway[c]`; the Pi's are
actions on `toPi`. `acceptAcknowledgement` awaits several times between its
checks and its commit: `HandleAcknowledgement` and `CommitAcknowledged` /
`CommitRefused` are two actions and everything may happen between them.
`assertSynchronousCommitValid`, the transaction and the delivery of the result
are one action, because nothing there awaits. A retired Role with history takes
a replacement inside the same commit, `Insertion`.

Abstracted: heartbeats (they only renew a lease: a lease that was renewed is one
that has not lapsed, `Lapse`), times (a lease, a deadline or a TTL lapses at any
moment), the control frame (sets a label), one observed id per session, the
replay of a retirement (no effect). A crash and the resume over the database
are one step; frames not yet written are lost, so each Pi may read any prefix.
Frames behind a rejection are dropped, because the Pi closes on it.

`AdoptionContract` speaks only of retained runs and purged sessions. The rows of
both tables map to it (`RetainedRuns`), and `KeepsContract` is the refinement,
checked on a small instance and proved for every one.

### CompanionInstallation

`root`, `tree`, `receipt`, `shell` and `stage` are the disk: the plugin
directory, the files in it, the receipt, `shell.json` (is the plugin enabled,
and everything else) and the staging directory. `plan`, `prior`, `expected`,
`todo`, `active` and `restored` are what an execution remembers, `pc` the place
in it. The effects come in the order of the code: an update stages what the new release
lacks (`MoveToStage`), writes assets, enables, writes the receipt, verifies,
discards the stage. An asset is inspected in one action and renamed into place
in the next (`CheckAsset`, `WriteAsset`; `CheckRewrite`, `RewriteAsset` in
recovery), because the code awaits between the two and the rename compares
nothing: whoever puts a file there meanwhile loses it. The other effects compare
the identity again in the call that acts (`renameExact`, `removeFileExact`), so
check and effect are one action. `Fault` makes any effect or inspection throw; the recovery
(`CaptureExpected` to `CompareRestored`) follows, and a second failure makes it
incomplete. `Drift` and `DriftElsewhere` are somebody else: a file is created,
replaced, edited in place or removed, another part of `shell.json` changes, the
receipt disappears. `Crash` is the death of the process.

A file is its inode and its bytes, because that is what the code compares: a
path written through `writeBytesAtomic` gets a new inode, a renamed or edited
file keeps its own. An inode is not given out again while the disk or the
operation remembers it.

Abstracted: the directory is flat; owners, modes, symlinks, host compatibility
and authorization are left out (each can only refuse); `captureState` is one
step; one process runs at a time; a plan that was refused is inspected again;
nobody but the installer touches the staging directory. A crash forgets the
staged copy, which no later operation reads, and leaves no temporary file.

### AgentConsole

`runner` is the Team Runner as a projection sees it (a cursor and a generation
of Agent Runs); `console` the controller process: the manager's session
(`phase`, `active`, `summoned`, `pending`), the adapter's connection (`conn`),
the projection it builds (`proj`), the two chains of asynchronous work and the
place in the controller's command loop (`pc`, `cmd`); `panel` the plugin in the
shell. A callback with its microtasks is one action. Calls of the shell port
queue in `console.shell`, publications and polls in `console.chain`; each end of
a call (`ShellAnswers`, `ShellFails` before or after its effect) is a step, and
what the code does with a result that belongs to an ended session is what it
does here. `console.carries` chooses in `Init` between the connector whose
runner acknowledges a presentation intent and the live one, which cannot encode
it.

The definitions carry the name of the module (`ConsoleInit`, `ConsoleNext`,
`ConsoleTypeOK`), because the loader and the console are proved about in one
module.

Abstracted: cards (those of the snapshot at a cursor), the wait for the gate as
a place in `pc`, one command of the controller at a time.

### ObserverGateway

`pi` is the observer extension (which observer session, its connection, its
reconnects and timers), `links` a socket per registration attempt with the
frames in both directions, `gateway` the process: accepted and registered
connections, records with leases, the revision, the publisher's pending and
last revision, the controls and the end of the process; `panel` what the plugin
shows of unassigned agents. Time is a tick of one heartbeat interval; a record
expires after `LeaseTicks` ticks without a frame.

Abstracted: the source sequence of frames (see the head of the module), prompt
activity beyond idle and busy, heartbeats within a tick, sweeps that repeat a
projection which already waits, resume without pause, a crash of the gateway.

### RemoteRunner

`memory` is `RunnerCore.state`, `file` the state file, `pending` the operation
whose replacement is under way: a handler changes `memory`, `Replace` makes it
durable and only then the answer leaves, `FailReplace` leaves memory ahead of
the file. `bridge` is the extension's state with its client's bounded queue
(full: the frame is dropped without a word), `turn` the visible Pi, `socket` the
connection in both directions, `control` the reconnecting control client.
`BreakSocket`, `BreakControl`, `CrashRunner` and `RestartPi` are the faults;
`StartRunner` reads the file and reconciles.

A bridge reconnects on its own clock. Its hello may reach the runner while the
accept or a frame of the broken connection is still under way (`Orphaned` says
how that operation ends without its socket: an accept is followed by the close,
`FinishLateAccept`) or before the close was handled; then `RejectBridge` ends
the client for good, and `faults.overlapped` remembers it. A frame that was
read but not begun when its socket broke is lost in the model; a queued hello
that the code would still accept and then close is the accept that breaks later.

Abstracted: one Role (Roles share the queue only), the event log with its
paging, events that only advance the sequence.

### RemoteGate

One action per call of `manual.mjs`: the plans (`PlanStep`), the records
(`RecordStep`: mark attempted, readback, ambiguity, mapping, runner), and the
world (`WorldStep`): a printed command executes, lands later (`Land`) or never,
the operator's terminal dies, Pis exit, somebody opens or adds a Shell. Each
record loads the receipt, checks it as the code does, and replaces it.

### BoomuxAdapter

One process per call of the adapter, `call` is the place in it; a step is one
command, a mutating command is weak: it may fail or time out and still take
effect at once or later (`late`, `Land`). Steps and guards are the ones of
`adapter.mjs`; a `prepared` session, an unknown outcome and a confirmed placement
are what later calls consult. `Crash` ends the process between any two steps,
`Somebody` is the user of Boomux. `created` and `ended` are histories: how often
each Shell was created, and which were when the Workspace was closed.

### PluginLoader

A request of the host is one synchronous action, but for `drainQueue`, which
calls the item of the panel with one queued entry after the other: `Drains`
takes the queue, `DeliverEntry` calls the item and `FinishDrain` returns to
whoever drained (`handleLoaded` or a summon). In between, the item that is being
called may make any request (`Asking`), a summon with a drain of its own
included, so `draining` is a stack. Deferred validation
(`FinalizeRegistration`), teardown (`FinalizeUnregister`), Loader callbacks
(`HandleLoaded`, `HandleLoadError`) and the scan of installed plugins wait for
an idle host, with the generation each callback captured. `overtaken` marks a
panel that `handleLoaded` made summoned although an entry had ended that
summon; `delivered` is a history of what reached which item.

Abstracted: text bounds, a method of the item that throws, what an item might
ask in `close()` or in the setter of a property, Loaders that call back within
their creation, the restart of the shell (all state is in memory and identities
carry a nonce, so a restart is a new `Init`). A `call` to a summoned panel
without an item throws in the code and changes nothing. When a teardown is
complete its Loaders call back no more.

## Runs

| Run | Bounds | Shows |
|---|---|---|
| `TeamRunner_bridges` | two Roles, no client, 5 events, 2 inputs a host | labels, single turn, isolation of takeover |
| `TeamRunner_projections` | one Role, one client, 5 events, 1 input, 2 sessions | the client's log is one gapless run |
| `LiveAdoption_recovery` | one attended session, one Role, 3 connections, 1 crash, 1 change of activity | recovery by the Pi that acknowledged, takeover carried, every lease earned |
| `LiveAdoption_replacement` | two sessions (symmetric), two Roles, two proposals | refinement of the contract, vacancy generations |
| `LiveAdoption_vacant_doc` | two sessions, one Role, two proposals | **violated**: a vacant Role may refuse every replacement |
| `CompanionInstallation_operations` | two releases, three paths, 2 operations, 2 faults, 1 foreign edit, 1 crash | accepted means one whole release; what is settled is usable; preimages; no staged file is lost |
| `AgentConsole_controller` | 2 events, 2 sessions, a panel queue of one intent, 2 faults of different kinds out of six | the panel agrees once everything is answered, what was hidden stays hidden, every command ends |
| `ObserverGateway_bridge` | 2 observer sessions over 3 connections, a registry of one record, a lease of 2 ticks, 2 reconnects, one event from outside of any kind | a revision identifies its projection, a cleared panel stays cleared, panel and registry converge |
| `RemoteRunner_node` | one assignment and one settled before, a bridge queue of 3, 1 input, 2 Pis, 1 fault | nothing handed to Pi twice, sent means durable, takeover carried, the bridge is served again for good |
| `RemoteGate_procedure` | two Roles, two socket paths, 4 Runs, 2 faults | no command twice, a confirmed cleanup is complete |
| `BoomuxAdapter_calls` | two Roles (symmetric), 3 Runs, 2 faults, 2 polls | no Shell created twice, no Run substituted, nothing created is left to the Workspace's close |
| `PluginLoader_panels` | two sources, two plugin ids, two spellings of a request (all symmetric), 2 operations, 3 generations, 2 drains, 1 change | claims exclusive, Loader and state agree, calls reach their own summon, also when an item asks the host while it is called |

Why the bounds are enough: five events hold a bootstrap, a connection, an
acceptance and a takeover, with a restart in the room that is left; two inputs
make a stale and a duplicate source event possible; two projection sessions let
the old session of a client outlive its reconnect. In `LiveAdoption`, three
connections are the one that adopts, the one lost with the crash and the one
that recovers over a stale register frame; two proposals of two sessions are the
smallest chain of an occupant and its successor, and the smallest race for a
Role. `CompanionInstallation` starts from nothing or from any whole installation
an earlier process left, so two operations reach what a longer chain reaches;
two releases that share one path and bring one each make an update write, add
and stage a file; two faults are one in the operation and one in its recovery.

In `AgentConsole`, two sessions are an ended one and the one its leftovers could
disturb, two events are a snapshot and a live change, and two faults are, for
instance, a lost connection under a shell call that fails. In `ObserverGateway`
a registry of one record is at its limit whenever a second session comes, and
three connections are one, its replacement and the register frame of the first
that is still in the socket; two stalled ticks let a lease lapse. In
`RemoteRunner` a queue of three frames fills, and one fault of any kind at any
step with a second Pi leaves runner and bridge with different ideas of the
assignment. In `RemoteGate` four Runs are one for each Role and a replacement of
each; two faults are a crash between execution and readback and a late command.
In `BoomuxAdapter` two Roles are the session at work and the one cleanup must
account for; three Runs let a replaced Run be replaced again. In `PluginLoader`
two sources that may name one plugin id collide both ways, records and
tombstones are limited to one so that they are evicted, and three generations
are a summon, its hide and the next summon with the first Loader still to call
back; two drains are the one of `handleLoaded` and one of a summon that an entry
of it makes.

Deadlock is not checked where the bounds end a run: every Pi may have quit, the
operations, connections, faults or sessions may be used up, and a closed process
has nothing to do (`LiveAdoption`, `CompanionInstallation`, `AgentConsole`,
`ObserverGateway`, `RemoteRunner`, `RemoteGate`, `PluginLoader`). Symmetry
permutes sessions, Roles, sources or ids that no formula of the run tells apart,
and only in runs without liveness.

### Fairness

Only weak fairness is assumed, of what a live process does by itself:

- `AgentConsole`: the event loop of the controller runs its callbacks and its
  poll timer, the shell answers a call (or fails it, which is one of the
  counted faults), the Team Runner answers a hello. Nothing is assumed of
  clicks, commands and events. The code gives every call of the shell a
  timeout, so each one does end.
- `ObserverGateway`: reconnect, heartbeat and sweep are `setInterval` or
  `setTimeout` timers of processes that run, the clock advances, sockets settle
  one way or the other (no fairness says which), handlers work through what
  arrived, and the shell answers. `RegistryConverges` excuses a Pi that used up
  its reconnects and `PanelConverges` a panel whose plugin was reloaded, because
  there the code gives up.
- `RemoteRunner`: both event loops handle what arrived, a write of the state
  file ends, the bridge's timer connects again, and somebody starts a runner
  that ended: the unit is the operator's to start, and without a runner there is
  nothing to serve. Faults are counted and never fair, so they end.
  `ServedAgain` says that from some moment on the bridge is served and stays so.
  It excuses what the code does not recover from: a replacement of the state
  file that failed, a bridge rejected for its own previous connection
  (`overlapped`), a second Pi session, and a bridge that remembers another
  assignment than the runner (`Mismatched`); the list below says why.

The other runs check safety alone. The liveness of a committed run of Adoption
depends on a Pi that keeps reconnecting within a bounded number of attempts and
stays the newest session; the code promises it under neither condition.

### What the violated run shows

`LiveAdoption_vacant_doc`: adopt, retire, replace, retire again. The Role is
vacant and `retirementVacancyFor` offers a predecessor, but the replacement row
of the retired successor still occupies `UNIQUE (team goal, role)`.

### Where code and documents differ without a run

These were met while modelling. The models do what the code does.

- Takeover: an acknowledgement that arrives after a takeover makes a pending
  assignment active (`src/domain.ts:145` looks at the assignment only), where
  `docs/design/mvp.md:522` has affected work wait for an explicit action.
- Thin client: a snapshot and a live event in one chunk make `connect` store the
  snapshot's cursor last (`src/thin-client.ts:92`), so the next reconnect
  replays an event the client has and fails on it.
- Adoption: a proposal made at one vacancy generation is committed at another
  (`observer/live-adoption-runner.ts:1172`,
  `docs/plans/explicit-retirement-replacement.md:22`).
- Installation: after a failed update `recover` compares a digest over inodes
  that `writeBytesAtomic` has just replaced (`companion/installation.ts:1370`,
  `manual/live-companion-omarchy.ts:489`), so recovery is incomplete and every
  later operation is refused; the tests run over a fake that keeps inodes.
  `docs/design/mvp.md:435` says that "Recovery does not overwrite external
  drift and reports incomplete recovery explicitly." It does overwrite a file
  that appears between the inspection and the rename
  (`companion/installation.ts:1534`, `1550`; `918` and `928` on the way
  forward), one at a path where recovery saw nothing or has put a staged file
  back, and it removes a foreign file that stood at an obsolete path when
  recovery began. And
  `buildReceipt` hashes what is on disk, so an asset edited before the receipt
  is recorded as part of the release; `AcceptedIsOneRelease` allows foreign
  bytes for that reason.
- Agent Console: the live connector cannot encode a presentation intent, so all
  of them are answered `unavailable` (`console/live-projection-adapter.ts:165`);
  a gap is not healed after a second loss; two concurrent `open` leave two
  adapters; a failed hide counts as hidden, which `HiddenStaysHidden` leaves out
  by `unhidden`; a clear after the session failed clears nothing.
- Observer gateway: a reloaded plugin leaves the standalone panel closed for
  good; a startup publication that failed after it took effect strands it; at
  the session limit a reloaded Pi is rejected until the old record expires and
  may use up its reconnects meanwhile.
- Remote runner: a settled event settles the latest assignment whatever state it
  is in (`spikes/remote-execution-node/lib/runner-core.mjs:665`), so work that
  waited for reconciliation is completed silently; an id the bridge took from a
  snapshot makes the queued assignment of that id a duplicate
  (`lib/bridge-state.mjs:203`); a failed replacement leaves the Role connected
  (`runner-core.mjs:250`) or is an unhandled rejection in the close handler
  (`runner.mjs:263`); a lingering control connection closes the client for good
  (`runner-core.mjs:463`). A bridge whose hello is handled before the close of
  its own previous connection (`runner.mjs:263`) or behind that connection's
  accept (`runner.mjs:292`) is answered `accepted: false`
  (`runner-core.mjs:158`) and never connects again
  (`lib/bridge-client.mjs:139`). And when the Role was given an assignment that
  its bridge does not hold, the bridge reports a mismatch at the snapshot
  (`lib/bridge-state.mjs:204`, `bridge-extension.js:128`), the runner takes that
  event for a mismatch of its own (`runner-core.mjs:568`) and ends the
  connection, over and over.
- Manual gate: an ambiguous create or present can never be reconciled; a partly
  confirmed plan is not printed again; a second `markAmbiguous` overwrites the
  first block; a crash in the first write leaves a torn receipt that is refused
  forever; nothing locks the receipt.
- Boomux adapter: a Workspace is created again after a crash between its
  prepared record and its confirmation (`lib/adapter.mjs:488`), though its
  README says such an operation is never retried; a crash during close leaves
  cleanup refused forever. A Shell that somebody adds between the last check of
  cleanup and the close (`adapter.mjs:431`, `436`) is destroyed with the
  Workspace; `workspace_close_prepared` is never read back, so a close that
  takes effect late, after a crash, destroys Shells created since.
  `GoneBeforeItsWorkspace` speaks of Shells the adapter created before.
- Plugin loader: a summon whose source fails revalidation marks a loaded
  registration failed without unloading it, and a hide then answers success
  while the panel stays until it is unregistered (`lib/host.mjs:390`, `466`);
  rejected operations are never evicted (`host.mjs:233`), though its contract
  bounds the records. `handleLoaded` drains the queue and then writes `summoned`
  (`host.mjs:557`, `558`) whatever an entry did: a panel whose item hides itself
  in `open` is left summoned without Loader or item, where the contract
  (`contracts/temporary-panel-v1.md:229`) has it `registered_hidden`; one whose
  item unregisters it keeps its claims until a hide, because
  `finalizeUnregister` no longer finds it unregistering. A later summon creates
  a Loader whose callback is ignored. The QML twin asks
  `record.state === "loading"` first
  (`upstream/omarchy-4.0.2-1-temporary-panel-v1.patch:645`).
  `LoaderMatchesState` leaves such a panel out by `overtaken`. And a call that
  an item makes during its own `open` waits in the queue for the next summon.

## Proofs

| Theorem | Statement | Argument |
|---|---|---|
| `TypesCorrect` | bridge part of the types | inductive as it stands; the step is split by action, and the frames a host or runner adds are lemmas |
| `LabelsCorrect` | `LabelsAgree` | inductive with the types: every writer of a binding or of the assignment writes the derived label in the same step |
| `TakeoverCorrect` | `TakeoverIsolated` | from the types alone: each action writes one binding, and the assignment is ordered |
| `WorkCorrect` | `AcceptedWorkRan` | not inductive: it is strengthened to say that an accepted or duplicate frame anywhere on its way stems from a Builder that ran its one turn, that a host that accepted has none queued, and that only the Builder is ever sent the assignment |
| `VacancyCorrect` | `VacancyAdvances` | inductive invariant: a Role's rows in `retired` are finite and never outnumber its counter, so a purge cannot lower the generation and a retirement raises it; every other action of `LiveAdoption` leaves both alone |
| `StagedCorrect` | `StagedKept` | strengthened (`Staged`): what is in the stage is on the list of what was moved, recovery has each such file still to do until it is back, and the stage is discarded only where `Verify` went before |
| `PreimageCorrect` | `PreimageIsOriginal` | not inductive: strengthened (`Preimages`) to the receipt of the prior state, which recovery writes again, and to a `shell.json` without the plugin when an installation begins |
| `AcceptedCorrect` | `AcceptedIsOneRelease` | not inductive: strengthened (`Releasing`) to say that each receipt, the prior one too, lists exactly the assets of its release with its bytes or a foreign edit's, and that what has been written so far holds the new release |
| `LoaderCorrect` | `LoaderMatchesState` | strengthened (`Sound` of every record, `DrainsSound`, `ItemsOpening`): a record is sound in its state, a callback acts only on the generation it captured, a panel that is loading has an item only while `handleLoaded` drains, and what an entry does to it meanwhile raises its generation |
| `DeliveryCorrect` | `DeliveredToItsSummon` | strengthened: the queue of a registration and the item it has belong to its present generation, and the entries of a drain to the generation it started at, so an item that is still there is theirs |
| `ClaimsCorrect` | `ClaimsHeld` | inductive with the types and with the drains: the deferred validation demands free claims in the step that takes them, a claim is released only with its registration, and the registration of a drain under way stays active, so `handleLoaded` revives none |
| `LoaderTypesCorrect` | `TypeOK` of `PluginLoader` | not inductive: strengthened (`Bounded`, over the invariant of `LoaderCorrect`) to say where claims and Loaders can point and that no tombstone expired after a fresh one, so pruning keeps the end of the list |
| `CreateCorrect` | `CreatedOnce` | not inductive: strengthened (`CreatedSound`, `CallsSound`) to say that a session without a record has had no command, that the step before the command has just recorded it, and that nothing is recorded in a receipt that is missing or torn |
| `CleanupCorrect` of `AdapterProofs` | `GoneBeforeItsWorkspace` | not inductive: strengthened (`GoneSound`) to say that a creation still to take effect belongs to a prepared session, that a closed session has no Shell, and that the last check of cleanup finds no session prepared and no Shell left, so none can appear before the close |
| `RunCorrect` | `RunNeverSubstituted` | strengthened: a running Shell has a Run, what was shown is recorded, and a recorded Run is never replaced |
| `ContractKept` | `KeepsContract` | every step of `LiveAdoption` is a step of `AdoptionContract` or a stutter, under `ContractInv`. `Ledger` is about rows, proposals and entries: a tombstone belongs to a row, a Role with an occupant of the first table has no other history, and only the newest revision of a session can be committed. That no session is adopted twice is not in the tables; `Frames` carries it: requests of one connection arrive in order, an acknowledgement means that no request is left behind it, and the Pi of an occupant finds its commitment, or a rejection, before any further request. The lemmas that every step keeps `Frames` come first |
| `LeaseCorrect` | `LeaseIsEarned` | the first of the layers of `LeaseInv` that speaks of runs: a challenge is issued and a lease granted to the connection of the newest registered session of a committed run, once, and an answer earns it only while its challenge stands (`LeasesSound`, `GrantsSound`). Below it: a session is committed at most once (`CommitmentsSound`), and connections open in order, so a late registration is refused (`OrderSound`) |
| `TakeoverCorrect` of `AdoptionProofs` | `TakeoverCarried` | above it: what a Pi was told or knows is its commitment (`KnowledgeSound`), and an input typed into a managed Pi is on its way in a report, recorded, or without a live lease to end (`TakeoversSound`) |
| `RecoveryCorrect` | `RecoverableByPi` | the last layer (`RecoverySound`): a Pi remembers what it acknowledged, and an occupant's Pi answers no request but its own |
| `DurableCorrect` | `DeliveredIsDurable` | `Durable` of `RunnerInv`: the state file is never ahead of memory, and every assignment a bridge was sent or has is in it. Below it, what a write in progress may still change is bounded (`Bounded`) |
| `SubmissionCorrect` | `SubmittedOnce` | `Once`, from `SessionBound` (the session in the file is the first accepted, and a served bridge is of that session) and `Greeted` (what a connection carries is its greeting, the snapshot, then assignments in order): a Pi of that session keeps every id it was given |
| `RemoteTakeoverCorrect` | `TakeoverCarried` | `Carried`: of the served connection, a takeover the runner has not recorded is on its way: the bridge has still to answer the snapshot (`Greeted`), or its answer or its event is ahead, or a frame is ahead at which the runner ends the connection |
| `RunnerTypesCorrect` | `TypeOK` | the first conjunct of `RunnerInv` |
| `GateTypesCorrect`, `CleanupCorrect` | `TypeOK`, `CleanupComplete` | not inductive: strengthened (`GateInv`) to say that a Run belongs to one Role, that the receipt and the world name the same Shells, and that every command that could bring something back is early, done or given up by the time a cleanup operation is confirmed |
| `SettledCorrect` | `SettledIsUsable` | not inductive: strengthened (`Settling`) to what every step may still need: an operation starts from a usable state only, so the state before it, to which a failure returns, is usable too, and each step forward or back keeps the files, the receipt and the shell in the order in which they are undone |
| `TypesCorrect` of `InstallationProofs` | `TypeOK` | strengthened (`Typed`): a directory, a stage, a plan, a prior state is there in every step that works on it |
| `GatewayTypesCorrect` | `TypeOK` | not inductive: strengthened (`ExtensionSound`, `ConnectionsSound`, `RegistrySound`): the extension is bound to one connection, or has one on its way, or a timer, and connections are accepted by a running process only |
| `RevisionsCorrect` | `RevisionIdentifiesProjection` | not inductive: strengthened (`PublicationsSound`) to say that nothing published is newer than the registry; every handler either keeps what the registry shows or takes a new revision (`Advances`) |
| `ClearedCorrect` | `ClearedStaysCleared` | strengthened: when the panel was cleared the queue is empty |
| `ExecutionCorrect` | `ExecutedOnce` | not inductive: strengthened (`Sound`) to say that an operation not yet attempted was never executed, that the command at hand was not executed before, and that every write but an attempt leaves an attempted operation attempted |
| `TeamTypesCorrect` | `TypeOK` of `TeamRunner` | the bridge part of the types with what the clients may hold |
| `ClientLogCorrect` | `ClientLogContiguous` | not inductive: strengthened (`ClientsSound`, checked by TLC on the instance of `projections` first) to say that the cursor a connection resumes at is the end of the client's log or lies before it, and that every frame on its way tells of committed events in their order. A page is folded into the log event by event; the lemma about the fold takes the least index at which it could fail |
| `AdoptionTypesCorrect` | `TypeOK` of `LiveAdoption` | not inductive: strengthened (`ShapesSound`) by what the frames name and by the bounds on revisions and generations, over `ContractInv`: a request in flight has its proposal, and a run is named before a frame can speak of it |
| `ConsoleTypesCorrect` | `ConsoleTypeOK` | not inductive: strengthened (`ConsoleInv`) by `Core` (which sessions a callback may still name, what the chain of publications and polls holds, and what the place in the command loop says of the session) and by what bounds the world: teams and cursors |
| `PanelCorrect` | `PanelAgrees` | `Agreement`: as long as the adapter has a projection, the last publication that waits in the chain carries it, or the panel of the session shows it. It needs `Served` and `Commanded` (the call at work in the shell is the one the first item of the chain asked for, and the one the controller waits for, so an answer is never taken for another's) and `Resuming` (a connection that resumes belongs to a projection that waits for it) |
| `HiddenCorrect` | `HiddenStaysHidden` | `PanelSound` and `SummonsSound` of `Core`: a hidden session is no longer the active one, nothing of the chain opens the panel for a session that is not, and the calls of a session that ended are before its clear or hide in the queue |

They hold for every set of Roles, Clients, Sessions, Sources and plugin ids and
every value of the bounds, from the named assumptions of the modules; those of
the installation hold for every finite set of assets and any releases. TLC
evaluates those assumptions on every run.

`RecordsAssumption` says only that the null value is not itself a row; SQL
gives that. `NullAssumption` of the installation says the same of numbers and of
the records of a plan and a stage.

Every invariant and every safety property of a step that a run checks is stated
by a theorem. Out of the prover's reach: liveness under fairness (`Settles`, `PanelConverges`,
`RegistryConverges`, `ServedAgain`) and `ENABLED`, induction over data (what
`Pages` or the client's fold compute for every input), and modules with
recursive operators; there are none of those here.

## Plan

1. A crash of the controller and of the observer gateway, with the plugin that
   keeps its panel.

## Not modelled

- Protocol codecs and JSON validation keep no state; a frame they refuse is in
  the handlers that call them.
- The QML of the console beyond what the panel keeps, service templates,
  operator gates and acceptance drivers, evidence and research documents: no
  protocol state of their own.
- The in-memory fakes of the tests: the stores, shells and filesystems they
  stand for are modelled instead.
- The Pi bridge spike: the Team Runner replaced it.
- `requestReplacementAdoption`, `authorizeReplacementAdoption` and
  `acceptReplacementAcknowledgement`
  (`observer/live-adoption-runner.ts:1196`–`1421`): only tests call them, the
  gateway takes the ordinary path.
- Two processes that install at once, two that write one receipt: the code has
  no lock, and what would be checked is that lock.
- Acknowledgements `busy` and `invalid` and bridge events other than
  interactive input in `TeamRunner`: no host of the repository sends them.
- The event log of the remote runner, the observer intent router, the scratch
  registry of the plugin loader, `probe` and `preflight` of the adapter.
