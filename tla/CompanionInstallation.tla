------------------------ MODULE CompanionInstallation ------------------------
(***************************************************************************)
(* Install, update, rollback and uninstall of the Companion Plugin         *)
(* (companion/installation.ts over manual/live-companion-omarchy.ts).      *)
(*                                                                         *)
(* An operation is inspected, which yields a plan bound to the state that  *)
(* was seen, and executed in small effects on the plugin directory, the    *)
(* receipt and shell.json. Any effect may fail (the recovery follows), the *)
(* process may die, and somebody else may edit files or shell.json between *)
(* two effects. One process runs at a time.                                *)
(*                                                                         *)
(* A file is its inode and its bytes. An inode is never given out again    *)
(* while the disk, the receipt or the operation remembers it.              *)
(***************************************************************************)
EXTENDS Naturals, FiniteSets

CONSTANTS
    Assets,         \* relative paths; the numbers are their sorted order
    Releases,
    Content,        \* Content[release][asset]: its bytes, or Null
    Bytes,          \* the bytes of released assets
    Alien,          \* bytes of no release
    Null,
    MaxOps,         \* bounds: operations, failed effects, foreign edits,
    MaxFaults,      \* deaths of the process
    MaxDrifts,
    MaxCrashes

ASSUME InstallationAssumption ==
    /\ Assets \subseteq Nat /\ IsFiniteSet(Assets)
    /\ Alien \notin Bytes /\ Null \notin Bytes /\ Null \notin Nat
    /\ Null \notin [ino : Nat, bytes : Bytes \cup {Alien}]
    /\ Content \in [Releases -> [Assets -> Bytes \cup {Null}]]
    /\ {MaxOps, MaxFaults, MaxDrifts, MaxCrashes} \subseteq Nat

VARIABLES
    root,       \* the plugin directory: its inode, or Null
    tree,       \* the files in it
    receipt,    \* [ino, doc] or Null
    shell,      \* shell.json: is the plugin enabled, and everything else
    stage,      \* the staging directory of the running process, or Null
    pc,
    plan,       \* InstallationPlan, or Null
    prior,      \* the state when execution began
    expected,   \* the state when recovery began
    todo,       \* what is left of the current loop over assets
    active,     \* activeStage: [moved, snapshot] or Null
    restored,   \* restoredStagePaths
    outcome,    \* how the last operation ended
    recovery,   \* the last recorded recovery
    ops, faults, drifts, crashes

disk == <<root, tree, receipt, shell, stage>>
budget == <<ops, faults, drifts, crashes>>
memory == <<plan, prior, expected, todo, active, restored, outcome, recovery>>
vars == <<disk, pc, memory, budget>>

Kinds == {"install", "update", "rollback", "uninstall"}

Forward == {"open", "mkstage", "move", "mkdir", "write", "replace",
            "receipt", "verify", "discard", "disable", "disabled", "remove",
            "rmdir", "forget"}

Recovering == {"capture", "recheck", "unstage", "reshell", "prune", "rewrite",
               "overwrite", "compare"}

-----------------------------------------------------------------------------
(* Identities and snapshots *)

Absent == [a \in Assets |-> Null]

Snapshot == [root |-> root, tree |-> tree, receipt |-> receipt, shell |-> shell]

InodeOf(f) == IF f = Null THEN 0 ELSE f.ino

SameIdentity(f, g) == InodeOf(f) = InodeOf(g)

InodesIn(files) == {InodeOf(files[a]) : a \in Assets}

InodesOfReceipt(r) ==
    IF r = Null THEN {} ELSE {r.ino} \cup InodesIn(r.doc.assets)

InodesOfState(s) ==
    IF s = Null THEN {}
    ELSE (IF s.root = Null THEN {} ELSE {s.root})
         \cup InodesIn(s.tree) \cup InodesOfReceipt(s.receipt)

Remembered ==
    InodesOfState(Snapshot) \cup InodesOfState(prior) \cup InodesOfState(expected)
    \cup (IF plan = Null THEN {} ELSE InodesOfState(plan.state))
    \cup (IF stage = Null THEN {} ELSE InodesIn(stage))

FreshInode ==
    CHOOSE i \in 1 .. Cardinality(Remembered) + 1 : 
        /\ i \notin Remembered
        /\ \A j \in 1 .. i - 1 : j \in Remembered

\* writeBytesAtomic: a temporary file renamed over the path, a new inode always.
NewFile(bytes) == [ino |-> FreshInode, bytes |-> bytes]

AssetsOf(release) == {a \in Assets : Content[release][a] # Null}

First(S) == CHOOSE a \in S : \A b \in S : a <= b
Last(S) == CHOOSE a \in S : \A b \in S : b <= a

-----------------------------------------------------------------------------
(* What an operation requires *)

\* Mutant: the inventory is compared, inodes and hashes are not.
MatchesReceipt_InventoryOnly(files, doc) ==
    \A a \in Assets : (files[a] = Null) = (doc.assets[a] = Null)

\* validateInstalledTree: inventory, inode and hash of every asset.
MatchesReceipt(files, doc) == files = doc.assets

\* validateReceipt.
ReceiptValid(s) ==
    /\ s.receipt # Null
    /\ s.shell = s.receipt.doc.post
    /\ s.root # Null
    /\ MatchesReceipt(s.tree, s.receipt.doc)

\* validateOperationState.
ValidOperationState(kind, release, s) ==
    IF kind = "install"
    THEN s.root = Null /\ s.receipt = Null /\ ~s.shell.enabled
    ELSE /\ ReceiptValid(s)
         /\ s.shell.enabled
         /\ kind = "rollback" => s.receipt.doc.previous = release

\* assertPrecondition: digests of the tree, the receipt bytes and shell.json.
SamePrecondition(s, t) ==
    /\ s.root = t.root /\ s.tree = t.tree /\ s.shell = t.shell
    /\ IF s.receipt = Null \/ t.receipt = Null
       THEN s.receipt = t.receipt
       ELSE s.receipt.doc = t.receipt.doc

\* The assertions of assertPostcondition.
Postcondition(s) ==
    IF plan.kind = "uninstall"
    THEN s.root = Null /\ s.receipt = Null /\ ~s.shell.enabled
    ELSE /\ ReceiptValid(s)
         /\ s.receipt.doc.plan = plan.no
         /\ s.receipt.doc.release = plan.release

-----------------------------------------------------------------------------
(* Control *)

Goto(step, assets) == pc' = step /\ todo' = assets

\* execute returns or throws: only activeStage outlives the call.
End(how, record) ==
    /\ pc' = "idle" /\ outcome' = how /\ recovery' = record
    /\ plan' = Null /\ prior' = Null /\ expected' = Null
    /\ todo' = {} /\ restored' = {}

\* The catch of execute; recover() begins.
Fail == Goto("capture", {}) /\ UNCHANGED <<plan, prior, expected, active, restored, outcome, recovery>>

Incomplete == End("incomplete", "incomplete") /\ UNCHANGED active

Kept == UNCHANGED <<plan, prior, expected, active, restored, outcome, recovery>>


-----------------------------------------------------------------------------
(* Inspection and the start of an execution *)

Inspect(kind, release) ==
    /\ pc = "idle" /\ ops < MaxOps
    /\ (kind = "uninstall") <=> (release = Null)
    /\ ops' = ops + 1
    /\ pc' = "planned"
    /\ plan' = [kind |-> kind, release |-> release, no |-> ops + 1, state |-> Snapshot]
    /\ UNCHANGED <<disk, prior, expected, todo, active, restored, outcome, recovery,
                   faults, drifts, crashes>>

FirstStep(kind) ==
    CASE kind = "install" -> "mkdir"
      [] kind \in {"update", "rollback"} -> "open"
      [] kind = "uninstall" -> "disable"

Execute ==
    /\ pc = "planned"
    /\ IF /\ active = Null
          /\ SamePrecondition(plan.state, Snapshot)
          /\ ValidOperationState(plan.kind, plan.release, Snapshot)
       THEN /\ prior' = Snapshot
            /\ pc' = FirstStep(plan.kind)
            /\ UNCHANGED <<plan, expected, todo, active, restored, outcome, recovery>>
       ELSE End("refused", recovery) /\ UNCHANGED active
    /\ UNCHANGED <<disk, budget>>

-----------------------------------------------------------------------------
(* Update and rollback: the files the new release lacks are staged *)

Obsolete == {a \in Assets : prior.tree[a] # Null} \ AssetsOf(plan.release)

\* stageObsoleteEntries remembers the stage before it makes the directory.
OpenStage ==
    /\ pc = "open"
    /\ IF Obsolete = {}
       THEN Goto("mkdir", {}) /\ UNCHANGED active
       ELSE Goto("mkstage", {}) /\ active' = [moved |-> {}, snapshot |-> Null]
    /\ UNCHANGED <<disk, plan, prior, expected, restored, outcome, recovery, budget>>

MakeStage ==
    /\ pc = "mkstage"
    /\ stage' = Absent
    /\ Goto("move", Obsolete)
    /\ Kept /\ UNCHANGED <<root, tree, receipt, shell, budget>>

MoveToStage ==
    /\ pc = "move" /\ todo # {}
    /\ LET a == First(todo) IN
       IF SameIdentity(tree[a], prior.tree[a])
       THEN /\ tree' = [tree EXCEPT ![a] = Null]
            /\ stage' = [stage EXCEPT ![a] = tree[a]]
            /\ active' = [active EXCEPT !.moved = @ \cup {a}]
            /\ Goto("move", todo \ {a})
            /\ UNCHANGED <<plan, prior, expected, restored, outcome, recovery>>
       ELSE Fail /\ UNCHANGED <<tree, stage>>
    /\ UNCHANGED <<root, receipt, shell, budget>>

\* The snapshot of the complete stage.
CaptureStage ==
    /\ pc = "move" /\ todo = {}
    /\ active' = [active EXCEPT !.snapshot = stage]
    /\ Goto("mkdir", {})
    /\ UNCHANGED <<disk, plan, prior, expected, restored, outcome, recovery, budget>>

-----------------------------------------------------------------------------
(* Install, update and rollback: assets, enablement, receipt *)

EnsureReleaseDirectories ==
    /\ pc = "mkdir"
    /\ root' = IF root = Null THEN FreshInode ELSE root
    /\ Goto("write", AssetsOf(plan.release))
    /\ Kept /\ UNCHANGED <<tree, receipt, shell, stage, budget>>

\* The file of the prior state is at the path, or none if it had none.
ReplaceAllowed(a) == SameIdentity(tree[a], prior.tree[a])

CheckAsset ==
    /\ pc = "write" /\ todo # {}
    /\ IF ReplaceAllowed(First(todo)) THEN Goto("replace", todo) /\ Kept ELSE Fail
    /\ UNCHANGED <<disk, budget>>

\* The rename replaces whatever file is at the path by now.
WriteAsset ==
    /\ pc = "replace"
    /\ LET a == First(todo) IN
       /\ tree' = [tree EXCEPT ![a] = NewFile(Content[plan.release][a])]
       /\ Goto("write", todo \ {a})
    /\ Kept /\ UNCHANGED <<root, receipt, shell, stage, budget>>

\* supportedRescan and supportedEnable.
Enable ==
    /\ pc = "write" /\ todo = {}
    /\ shell' = [shell EXCEPT !.enabled = TRUE]
    /\ Goto("receipt", {})
    /\ Kept /\ UNCHANGED <<root, tree, receipt, stage, budget>>

\* Mutant: each operation records the shell.json it found itself.
Preimage_Latest == prior.shell

Preimage ==
    IF plan.kind = "install" THEN prior.shell ELSE prior.receipt.doc.pre

\* buildReceipt: identities and hashes of what is on disk now.
BuildReceipt ==
    [plan |-> plan.no,
     release |-> plan.release,
     previous |-> IF plan.kind = "install" THEN Null ELSE prior.receipt.doc.release,
     pre |-> Preimage,
     post |-> shell,
     assets |-> [a \in Assets |-> IF a \in AssetsOf(plan.release) THEN tree[a] ELSE Null]]

WriteReceipt ==
    /\ pc = "receipt"
    /\ IF /\ shell.enabled
          /\ \A a \in AssetsOf(plan.release) : tree[a] # Null
          /\ InodeOf(receipt) = InodeOf(prior.receipt)
       THEN /\ receipt' = [ino |-> FreshInode, doc |-> BuildReceipt]
            /\ Goto("verify", {}) /\ Kept
       ELSE Fail /\ UNCHANGED receipt
    /\ UNCHANGED <<root, tree, shell, stage, budget>>

\* assertPostcondition, and the checks with which finalizeStage begins.
Verify ==
    /\ pc = "verify"
    /\ CASE ~Postcondition(Snapshot) -> Fail
         [] Postcondition(Snapshot) /\ active = Null ->
                End("succeeded", recovery) /\ UNCHANGED active
         [] Postcondition(Snapshot) /\ active # Null ->
                IF active.snapshot = stage
                THEN Goto("discard", {a \in Assets : stage[a] # Null}) /\ Kept
                ELSE Fail
    /\ UNCHANGED <<disk, budget>>

\* finalizeStage removes the staged files, then the directory.
DiscardStaged ==
    /\ pc = "discard" /\ todo # {}
    /\ stage' = [stage EXCEPT ![First(todo)] = Null]
    /\ Goto("discard", todo \ {First(todo)})
    /\ Kept /\ UNCHANGED <<root, tree, receipt, shell, budget>>

\* Mutant: the stage is forgotten and its directory stays.
DiscardStage_Leaked ==
    /\ pc = "discard" /\ todo = {}
    /\ active' = Null
    /\ End("succeeded", recovery)
    /\ UNCHANGED <<disk, budget>>

DiscardStage ==
    /\ pc = "discard" /\ todo = {}
    /\ stage' = Null /\ active' = Null
    /\ End("succeeded", recovery)
    /\ UNCHANGED <<root, tree, receipt, shell, budget>>

-----------------------------------------------------------------------------
(* Uninstall *)

Disable ==
    /\ pc = "disable"
    /\ IF InodeOf(receipt) = InodeOf(prior.receipt) /\ shell.enabled
       THEN /\ shell' = [shell EXCEPT !.enabled = FALSE]
            /\ Goto("disabled", {}) /\ Kept
       ELSE Fail /\ UNCHANGED shell
    /\ UNCHANGED <<root, tree, receipt, stage, budget>>

\* Rescan, and the comparison with the recorded preimage.
CheckDisabled ==
    /\ pc = "disabled"
    /\ IF shell = prior.receipt.doc.pre
       THEN Goto("remove", AssetsOf(prior.receipt.doc.release)) /\ Kept
       ELSE Fail
    /\ UNCHANGED <<disk, budget>>

RemoveAsset ==
    /\ pc = "remove" /\ todo # {}
    /\ LET a == Last(todo) IN
       IF SameIdentity(tree[a], prior.tree[a])
       THEN /\ tree' = [tree EXCEPT ![a] = Null]
            /\ Goto("remove", todo \ {a}) /\ Kept
       ELSE Fail /\ UNCHANGED tree
    /\ UNCHANGED <<root, receipt, shell, stage, budget>>

\* removeDirectoryExact refuses a directory that is not empty.
RemoveRoot ==
    /\ pc = "remove" /\ todo = {}
    /\ IF root = prior.root /\ tree = Absent
       THEN root' = Null /\ Goto("forget", {}) /\ Kept
       ELSE Fail /\ UNCHANGED root
    /\ UNCHANGED <<tree, receipt, shell, stage, budget>>

RemoveReceipt ==
    /\ pc = "forget"
    /\ IF InodeOf(receipt) = InodeOf(prior.receipt)
       THEN receipt' = Null /\ Goto("verify", {}) /\ Kept
       ELSE Fail /\ UNCHANGED receipt
    /\ UNCHANGED <<root, tree, shell, stage, budget>>

-----------------------------------------------------------------------------
(* Recovery *)

CaptureExpected ==
    /\ pc = "capture"
    /\ IF active # Null /\ active.snapshot # Null /\ active.snapshot # stage
       THEN Incomplete
       ELSE /\ expected' = Snapshot
            /\ Goto("recheck", {})
            /\ UNCHANGED <<plan, prior, active, restored, outcome, recovery>>
    /\ UNCHANGED <<disk, budget>>

\* Mutant: what the snapshot of the complete stage lists, before it is taken nothing.
MovedPaths_FromSnapshot == IF active.snapshot = Null THEN {} ELSE active.moved

\* stage.entries: what a rename has moved, whether the stage is complete or not.
MovedPaths == active.moved

Recheck ==
    /\ pc = "recheck"
    /\ CASE Snapshot # expected -> Incomplete
         [] Snapshot = expected /\ active = Null -> Goto("reshell", {}) /\ Kept
         [] Snapshot = expected /\ active # Null -> Goto("unstage", MovedPaths) /\ Kept
    /\ UNCHANGED <<disk, budget>>

\* restoreStagedEntries: a replacement seen when recovery began gives way.
UnstageAsset ==
    /\ pc = "unstage" /\ todo # {}
    /\ LET a == First(todo) IN
       IF stage[a] = prior.tree[a] /\ (tree[a] # Null => tree[a] = expected.tree[a])
       THEN /\ tree' = [tree EXCEPT ![a] = stage[a]]
            /\ stage' = [stage EXCEPT ![a] = Null]
            /\ restored' = restored \cup {a}
            /\ Goto("unstage", todo \ {a})
            /\ UNCHANGED <<plan, prior, expected, active, outcome, recovery>>
       ELSE Incomplete /\ UNCHANGED <<tree, stage>>
    /\ UNCHANGED <<root, receipt, shell, budget>>

\* A stage that was never made cannot be removed.
RemoveStage ==
    /\ pc = "unstage" /\ todo = {}
    /\ IF stage = Null
       THEN Incomplete /\ UNCHANGED stage
       ELSE /\ stage' = Null /\ active' = Null
            /\ Goto("reshell", {})
            /\ UNCHANGED <<plan, prior, expected, restored, outcome, recovery>>
    /\ UNCHANGED <<root, tree, receipt, shell, budget>>

Foreign == {a \in Assets : tree[a] # Null /\ prior.tree[a] = Null}

\* Through the shell's own operations only; disabling needs the exact entry.
RestoredShell == [shell EXCEPT !.enabled = prior.shell.enabled]

RestoreShell ==
    /\ pc = "reshell"
    /\ IF expected.shell = prior.shell
       THEN Goto("prune", Foreign) /\ Kept /\ UNCHANGED shell
       ELSE IF ~prior.shell.enabled /\ ~shell.enabled
       THEN Incomplete /\ UNCHANGED shell
       ELSE /\ shell' = RestoredShell
            /\ IF RestoredShell = prior.shell
               THEN Goto("prune", Foreign) /\ Kept
               ELSE Incomplete
    /\ UNCHANGED <<root, tree, receipt, stage, budget>>

PruneAsset ==
    /\ pc = "prune" /\ todo # {}
    /\ LET a == First(todo) IN
       IF tree[a] # Null /\ SameIdentity(tree[a], expected.tree[a])
       THEN /\ tree' = [tree EXCEPT ![a] = Null]
            /\ Goto("prune", todo \ {a}) /\ Kept
       ELSE Incomplete /\ UNCHANGED tree
    /\ UNCHANGED <<root, receipt, shell, stage, budget>>

RestoreRoot ==
    /\ pc = "prune" /\ todo = {}
    /\ LET next == {a \in Assets : prior.tree[a] # Null} IN
       CASE prior.root = Null /\ root # Null ->
                IF root = expected.root /\ tree = Absent
                THEN root' = Null /\ Goto("rewrite", next) /\ Kept
                ELSE Incomplete /\ UNCHANGED root
         [] prior.root # Null /\ root = Null ->
                root' = FreshInode /\ Goto("rewrite", next) /\ Kept
         [] OTHER -> Goto("rewrite", next) /\ Kept /\ UNCHANGED root
    /\ UNCHANGED <<tree, receipt, shell, stage, budget>>

\* The identity is compared only where recovery saw a file that was not staged.
RewriteAllowed(a) ==
    \/ a \in restored
    \/ expected.tree[a] = Null
    \/ tree[a] = Null
    \/ SameIdentity(tree[a], expected.tree[a])

CheckRewrite ==
    /\ pc = "rewrite" /\ todo # {}
    /\ LET a == First(todo)
           same == tree[a] # Null /\ tree[a].bytes = prior.tree[a].bytes IN
       CASE ~RewriteAllowed(a) -> Incomplete
         [] RewriteAllowed(a) /\ same -> Goto("rewrite", todo \ {a}) /\ Kept
         [] RewriteAllowed(a) /\ ~same -> Goto("overwrite", todo) /\ Kept
    /\ UNCHANGED <<disk, budget>>

\* As on the way forward, nothing is compared again at the rename.
RewriteAsset ==
    /\ pc = "overwrite"
    /\ LET a == First(todo) IN
       /\ tree' = [tree EXCEPT ![a] = NewFile(prior.tree[a].bytes)]
       /\ Goto("rewrite", todo \ {a})
    /\ Kept /\ UNCHANGED <<root, receipt, shell, stage, budget>>

\* The receipt of the prior state comes back with its bytes, in a new file.
RestoreReceipt ==
    /\ pc = "rewrite" /\ todo = {}
    /\ LET drifted == /\ receipt # Null
                      /\ prior.receipt = Null \/ expected.receipt # Null
                      /\ InodeOf(receipt) # InodeOf(expected.receipt) IN
       IF drifted
       THEN Incomplete /\ UNCHANGED receipt
       ELSE /\ receipt' =
                 CASE prior.receipt = Null -> Null
                   [] prior.receipt # Null /\ receipt # Null /\ receipt.doc = prior.receipt.doc -> receipt
                   [] OTHER -> [ino |-> FreshInode, doc |-> prior.receipt.doc]
            /\ Goto("compare", {}) /\ Kept
    /\ UNCHANGED <<root, tree, shell, stage, budget>>

\* Mutant: the same bytes count as recovered.
CompareRestored_BytesOnly ==
    /\ pc = "compare"
    /\ IF \A a \in Assets :
            IF prior.tree[a] = Null THEN tree[a] = Null
            ELSE tree[a] # Null /\ tree[a].bytes = prior.tree[a].bytes
       THEN End("recovered", "complete") /\ UNCHANGED active
       ELSE Incomplete
    /\ UNCHANGED <<disk, budget>>

\* Only the exact prior state, inodes included, counts as recovered.
CompareRestored ==
    /\ pc = "compare"
    /\ IF Snapshot = prior
       THEN End("recovered", "complete") /\ UNCHANGED active
       ELSE Incomplete
    /\ UNCHANGED <<disk, budget>>

-----------------------------------------------------------------------------
(* Failed effects, a dead process, somebody else *)

\* Any effect or inspection may throw; a second time nothing catches it.
Fault ==
    /\ faults < MaxFaults
    /\ faults' = faults + 1
    /\ \/ pc \in Forward /\ Fail
       \/ pc \in Recovering /\ Incomplete
    /\ UNCHANGED <<disk, ops, drifts, crashes>>

\* The stage of a dead process stays on the disk; no later plan has its path.
Crash ==
    /\ crashes < MaxCrashes
    /\ pc # "idle" \/ active # Null
    /\ crashes' = crashes + 1
    /\ End("none", recovery)
    /\ active' = Null /\ stage' = Null
    /\ UNCHANGED <<root, tree, receipt, shell, ops, faults, drifts>>

\* Somebody creates, replaces, edits in place or removes a file.
Drift(a) ==
    /\ drifts < MaxDrifts
    /\ drifts' = drifts + 1
    /\ root # Null
    /\ \/ tree' = [tree EXCEPT ![a] = NewFile(Alien)]
       \/ tree[a] # Null /\ tree' = [tree EXCEPT ![a] = Null]
       \/ /\ tree[a] # Null /\ tree[a].bytes # Alien
          /\ tree' = [tree EXCEPT ![a] = [ino |-> tree[a].ino, bytes |-> Alien]]
    /\ UNCHANGED <<root, receipt, shell, stage, pc, memory, ops, faults, crashes>>

\* Somebody edits another part of shell.json, or removes the receipt.
DriftElsewhere ==
    /\ drifts < MaxDrifts
    /\ drifts' = drifts + 1
    /\ \/ shell' = [shell EXCEPT !.other = ~@] /\ UNCHANGED receipt
       \/ receipt # Null /\ receipt' = Null /\ UNCHANGED shell
    /\ UNCHANGED <<root, tree, stage, pc, memory, ops, faults, crashes>>

-----------------------------------------------------------------------------
(* The specification *)

Plain(enabled) == [enabled |-> enabled, other |-> FALSE]

\* An installation an earlier process left whole.
Installed(release, previous) ==
    LET files == [a \in Assets |-> IF a \in AssetsOf(release)
                                   THEN [ino |-> a + 3, bytes |-> Content[release][a]]
                                   ELSE Null] IN
    /\ root = 1
    /\ tree = files
    /\ receipt = [ino |-> 2,
                  doc |-> [plan |-> 0, release |-> release, previous |-> previous,
                           pre |-> Plain(FALSE), post |-> Plain(TRUE), assets |-> files]]
    /\ shell = Plain(TRUE)

Init ==
    /\ \/ root = Null /\ tree = Absent /\ receipt = Null /\ shell = Plain(FALSE)
       \/ \E release \in Releases, previous \in Releases \cup {Null} : Installed(release, previous)
    /\ stage = Null
    /\ pc = "idle" /\ plan = Null /\ prior = Null /\ expected = Null
    /\ todo = {} /\ active = Null /\ restored = {}
    /\ outcome = "none" /\ recovery = "none"
    /\ ops = 0 /\ faults = 0 /\ drifts = 0 /\ crashes = 0

Operate ==
    \/ \E kind \in Kinds, release \in Releases \cup {Null} : Inspect(kind, release)
    \/ Execute
    \/ OpenStage \/ MakeStage \/ MoveToStage \/ CaptureStage
    \/ EnsureReleaseDirectories \/ CheckAsset \/ WriteAsset \/ Enable \/ WriteReceipt
    \/ Verify \/ DiscardStaged \/ DiscardStage
    \/ Disable \/ CheckDisabled \/ RemoveAsset \/ RemoveRoot \/ RemoveReceipt

Recover ==
    \/ CaptureExpected \/ Recheck \/ UnstageAsset \/ RemoveStage \/ RestoreShell
    \/ PruneAsset \/ RestoreRoot \/ CheckRewrite \/ RewriteAsset \/ RestoreReceipt \/ CompareRestored

Next ==
    \/ Operate
    \/ Recover
    \/ Fault
    \/ Crash
    \/ \E a \in Assets : Drift(a)
    \/ DriftElsewhere

Spec == Init /\ [][Next]_vars

-----------------------------------------------------------------------------
(* Types *)

Files == [ino : Nat \ {0}, bytes : Bytes \cup {Alien}] \cup {Null}
Trees == [Assets -> Files]
Shells == [enabled : BOOLEAN, other : BOOLEAN]
Docs == [plan : Nat, release : Releases, previous : Releases \cup {Null},
         pre : Shells, post : Shells, assets : Trees]
Receipts == [ino : Nat \ {0}, doc : Docs] \cup {Null}
States == [root : (Nat \ {0}) \cup {Null}, tree : Trees, receipt : Receipts, shell : Shells]
Plans == [kind : Kinds, release : Releases \cup {Null}, no : Nat, state : States]
Stages == [moved : SUBSET Assets, snapshot : Trees \cup {Null}]

\* Null is none of the things it stands for the absence of.
ASSUME NullAssumption ==
    /\ Null \notin Releases /\ Null \notin Trees /\ Null \notin States
    /\ Null \notin [ino : Nat \ {0}, doc : Docs]
    /\ Null \notin Plans /\ Null \notin Stages

\* The type invariant: what each step needs to be there is there.
TypeOK ==
    /\ Snapshot \in States
    /\ stage \in Trees \cup {Null}
    /\ pc \in {"idle", "planned"} \cup Forward \cup Recovering
    /\ (pc = "idle") = (plan = Null)
    /\ plan \in Plans \cup {Null}
    /\ prior \in States \cup {Null} /\ (pc \in {"idle", "planned"}) = (prior = Null)
    /\ expected \in States \cup {Null}
    /\ pc \in Recovering \ {"capture"} => expected # Null
    /\ todo \subseteq Assets /\ restored \subseteq Assets
    /\ active \in Stages \cup {Null}
    /\ active = Null => stage = Null
    /\ outcome \in {"none", "succeeded", "recovered", "refused", "incomplete"}
    /\ recovery \in {"none", "complete", "incomplete"}

-----------------------------------------------------------------------------
(* Properties *)

\* What a later operation would accept as its own is one whole release: no
\* file of another one and none left behind, whatever was interrupted half-way.
\* (companion/installation.ts:742, validateInstalledTree)
AcceptedIsOneRelease ==
    ReceiptValid(Snapshot) =>
        \A a \in Assets :
            IF a \in AssetsOf(receipt.doc.release)
            THEN tree[a] # Null /\ tree[a].bytes \in {Content[receipt.doc.release][a], Alien}
            ELSE tree[a] = Null

Nothing == root = Null /\ tree = Absent /\ receipt = Null /\ ~shell.enabled

\* Left alone, the installer ends every operation on nothing at all or on an
\* installation that can be updated and uninstalled, unless it reported an
\* incomplete recovery. (companion/installation.ts:361, execute)
SettledIsUsable ==
    (pc = "idle" /\ drifts = 0 /\ crashes = 0 /\ recovery # "incomplete") =>
        /\ Nothing \/ (ReceiptValid(Snapshot) /\ shell.enabled)
        /\ active = Null

\* The preimage of shell.json that an uninstall must reproduce is the one from
\* before the plugin, however many updates and rollbacks lie between.
\* (companion/installation.ts:940, buildReceipt in replace)
PreimageIsOriginal == receipt # Null => ~receipt.doc.pre.enabled

\* The only copy of a file that an update took out of the tree is its staged
\* one. Whatever fails, in staging or in a recovery, and whatever another
\* operation finds afterwards, it leaves the stage only for its place in the
\* tree, or once the new installation was verified: left alone, it then stands.
\* (companion/installation.ts:1417, restoreStagedEntries)
StagedKept ==
    [][\A a \in Assets :
        (/\ crashes' = crashes
         /\ stage # Null /\ stage[a] # Null
         /\ stage' = Null \/ stage'[a] # stage[a])
            => \/ tree'[a] = stage[a]
               \/ pc = "discard" /\ (drifts = 0 => Postcondition(Snapshot))]_vars

=============================================================================
