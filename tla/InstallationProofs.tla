------------------------- MODULE InstallationProofs -------------------------
(***************************************************************************)
(* Theorems about CompanionInstallation: what the receipt carries through  *)
(* updates, rollbacks and recoveries, and that a staged file is never      *)
(* lost. They hold for all releases and assets and for any number of       *)
(* operations, faults, foreign edits and crashes.                          *)
(***************************************************************************)
EXTENDS CompanionInstallation, Functions, FiniteSetTheorems, WellFoundedInduction, TLAPS

\* The tree has an entry for each asset, and edits by others are counted.
TreeCounted ==
    /\ DOMAIN tree = Assets /\ tree = [a \in Assets |-> tree[a]]
    /\ drifts \in Nat

\* One file changes.
LEMMA OneFile ==
    ASSUME TreeCounted, NEW a, NEW file, tree' = [tree EXCEPT ![a] = file], drifts' \in Nat
    PROVE  TreeCounted'
BY DEF TreeCounted

\* Whatever happens, the tree stays one.
LEMMA EveryStepCounts ==
    ASSUME TreeCounted, [Next]_vars PROVE TreeCounted'
<1>1. CASE UNCHANGED <<tree, drifts>>
    BY <1>1 DEF TreeCounted
<1>2. CASE Operate
    <2>1. drifts' = drifts
        BY <1>2 DEF Operate, Inspect, Execute, OpenStage, MakeStage, MoveToStage, CaptureStage,
                    EnsureReleaseDirectories, CheckAsset, WriteAsset, Enable, WriteReceipt, Verify,
                    DiscardStaged, DiscardStage, Disable, CheckDisabled, RemoveAsset, RemoveRoot,
                    RemoveReceipt, budget
    <2>2. CASE MoveToStage
        <3>1. tree' = tree \/ tree' = [tree EXCEPT ![First(todo)] = Null]
            BY <2>2 DEF MoveToStage
        <3>2. QED BY <1>1, <2>1, <3>1, OneFile DEF TreeCounted
    <2>3. CASE WriteAsset
        <3> DEFINE file == NewFile(Content[plan.release][First(todo)])
        <3>1. tree' = [tree EXCEPT ![First(todo)] = file]
            BY <2>3 DEF WriteAsset
        <3> HIDE DEF file
        <3>2. QED BY <2>1, <3>1, OneFile DEF TreeCounted
    <2>4. CASE RemoveAsset
        <3>1. tree' = tree \/ tree' = [tree EXCEPT ![Last(todo)] = Null]
            BY <2>4 DEF RemoveAsset
        <3>2. QED BY <1>1, <2>1, <3>1, OneFile DEF TreeCounted
    <2>5. CASE ~MoveToStage /\ ~WriteAsset /\ ~RemoveAsset
        <3>1. tree' = tree
            BY <1>2, <2>5 DEF Operate, Inspect, Execute, OpenStage, MakeStage, CaptureStage,
                    EnsureReleaseDirectories, CheckAsset, Enable, WriteReceipt, Verify,
                    DiscardStaged, DiscardStage, Disable, CheckDisabled, RemoveRoot,
                    RemoveReceipt, disk
        <3>2. QED BY <1>1, <2>1, <3>1
    <2>6. QED BY <2>2, <2>3, <2>4, <2>5
<1>3. CASE Recover
    <2>1. drifts' = drifts
        BY <1>3 DEF Recover, CaptureExpected, Recheck, UnstageAsset, RemoveStage, RestoreShell,
                    PruneAsset, RestoreRoot, CheckRewrite, RewriteAsset, RestoreReceipt,
                    CompareRestored, budget
    <2>2. CASE UnstageAsset
        <3>1. tree' = tree \/ tree' = [tree EXCEPT ![First(todo)] = stage[First(todo)]]
            BY <2>2 DEF UnstageAsset
        <3>2. QED BY <1>1, <2>1, <3>1, OneFile DEF TreeCounted
    <2>3. CASE PruneAsset
        <3>1. tree' = tree \/ tree' = [tree EXCEPT ![First(todo)] = Null]
            BY <2>3 DEF PruneAsset
        <3>2. QED BY <1>1, <2>1, <3>1, OneFile DEF TreeCounted
    <2>4. CASE RewriteAsset
        <3> DEFINE file == NewFile(prior.tree[First(todo)].bytes)
        <3>1. tree' = [tree EXCEPT ![First(todo)] = file]
            BY <2>4 DEF RewriteAsset
        <3> HIDE DEF file
        <3>2. QED BY <2>1, <3>1, OneFile DEF TreeCounted
    <2>5. CASE ~UnstageAsset /\ ~PruneAsset /\ ~RewriteAsset
        <3>1. tree' = tree
            BY <1>3, <2>5 DEF Recover, CaptureExpected, Recheck, RemoveStage, RestoreShell,
                    RestoreRoot, CheckRewrite, RestoreReceipt, CompareRestored, disk
        <3>2. QED BY <1>1, <2>1, <3>1
    <2>6. QED BY <2>2, <2>3, <2>4, <2>5
<1>4. CASE Fault \/ Crash \/ UNCHANGED vars
    <2>1. UNCHANGED <<tree, drifts>>
        BY <1>4 DEF Fault, Crash, vars, disk, budget
    <2>2. QED BY <1>1, <2>1
<1>5. ASSUME NEW a \in Assets, Drift(a) PROVE TreeCounted'
    <2>1. drifts' \in Nat
        BY <1>5 DEF Drift, TreeCounted
    <2> DEFINE fresh == NewFile(Alien)
               edited == [ino |-> tree[a].ino, bytes |-> Alien]
    <2>2. \/ tree' = [tree EXCEPT ![a] = fresh]
          \/ tree' = [tree EXCEPT ![a] = Null]
          \/ tree' = [tree EXCEPT ![a] = edited]
        BY <1>5 DEF Drift
    <2> HIDE DEF fresh, edited
    <2>3. QED BY <2>1, <2>2, OneFile
<1>6. CASE DriftElsewhere
    BY <1>6 DEF DriftElsewhere, TreeCounted
<1>7. QED BY <1>2, <1>3, <1>4, <1>5, <1>6 DEF Next

\* At the start nothing was counted.
LEMMA TreeCountedInit == ASSUME Init PROVE TreeCounted
<1>1. CASE tree = Absent
    BY <1>1 DEF Init, TreeCounted, Absent
<1>2. ASSUME NEW release \in Releases, NEW previous \in Releases \cup {Null},
             Installed(release, previous)
      PROVE TreeCounted
    <2> DEFINE file(a) == IF a \in AssetsOf(release)
                          THEN [ino |-> a + 3, bytes |-> Content[release][a]]
                          ELSE Null
    <2>1. tree = [a \in Assets |-> file(a)]
        BY <1>2 DEF Installed
    <2> HIDE DEF file
    <2>2. QED BY <2>1 DEF Init, TreeCounted
<1>3. QED BY <1>1, <1>2 DEF Init

-----------------------------------------------------------------------------

PreimageOff(r) == r # Null => ~r.doc.pre.enabled

\* PreimageIsOriginal is not inductive: recovery writes the prior receipt again,
\* and an install records the shell.json it found, which had no plugin enabled.
Preimages ==
    /\ PreimageOff(receipt)
    /\ pc \in Forward \cup Recovering =>
        /\ PreimageOff(prior.receipt)
        /\ IF plan.kind = "install" THEN ~prior.shell.enabled ELSE prior.receipt # Null

\* A step within an operation that writes no receipt.
LEMMA PreimagesFrame ==
    ASSUME Preimages, UNCHANGED <<prior, plan>>, receipt' \in {receipt, Null},
           pc \in Forward \cup Recovering
    PROVE  Preimages'
BY DEF Preimages, PreimageOff

\* The same of its last step.
LEMMA PreimagesEnd ==
    ASSUME Preimages, receipt' \in {receipt, Null}, pc' = "idle" PROVE Preimages'
BY DEF Preimages, PreimageOff, Forward, Recovering

\* The receipt of an operation takes its preimage from before the plugin.
LEMMA PreimagesForward ==
    ASSUME Preimages, Operate PROVE Preimages'
<1> USE DEF Goto, Kept, Fail
<1>1. ASSUME NEW kind \in Kinds, NEW release \in Releases \cup {Null}, Inspect(kind, release)
      PROVE Preimages'
    BY <1>1 DEF Inspect, disk, Preimages, Forward, Recovering
<1>2. CASE Execute
    <2>1. CASE pc' = "idle"
        BY <1>2, <2>1, PreimagesEnd DEF Execute, disk
    <2>2. CASE pc' # "idle"
        <3>1. /\ prior' = Snapshot /\ plan' = plan /\ receipt' = receipt
              /\ ValidOperationState(plan.kind, plan.release, Snapshot)
            BY <1>2, <2>2 DEF Execute, End, disk
        <3>2. /\ Snapshot.receipt = receipt /\ Snapshot.shell = shell
            BY DEF Snapshot
        <3>3. IF plan.kind = "install" THEN ~shell.enabled ELSE receipt # Null
            BY <3>1, <3>2 DEF ValidOperationState, ReceiptValid
        <3>4. QED BY <3>1, <3>2, <3>3 DEF Preimages
    <2>3. QED BY <2>1, <2>2
<1>3. CASE OpenStage \/ MakeStage \/ MoveToStage \/ CaptureStage \/ EnsureReleaseDirectories
           \/ CheckAsset \/ WriteAsset \/ Enable \/ DiscardStaged
    <2>1. pc \in Forward /\ UNCHANGED <<prior, plan, receipt>>
        BY <1>3 DEF OpenStage, MakeStage, MoveToStage, CaptureStage, EnsureReleaseDirectories,
                    CheckAsset, WriteAsset, Enable, DiscardStaged, Forward, disk
    <2>2. QED BY <2>1, PreimagesFrame
<1>4. CASE WriteReceipt
    <2>1. pc \in Forward /\ UNCHANGED <<prior, plan>>
        BY <1>4 DEF WriteReceipt, Forward
    <2>2. CASE receipt' = receipt
        BY <2>1, <2>2, PreimagesFrame
    <2>3. CASE receipt' = [ino |-> FreshInode, doc |-> BuildReceipt]
        <3>1. receipt'.doc.pre = Preimage
            BY <2>3 DEF BuildReceipt
        <3>2. ~Preimage.enabled
            BY <2>1 DEF Preimages, PreimageOff, Preimage
        <3>3. QED BY <2>1, <3>1, <3>2 DEF Preimages, PreimageOff
    <2>4. QED BY <1>4, <2>2, <2>3 DEF WriteReceipt
<1>5. CASE Verify \/ DiscardStage
    <2>1. pc \in Forward /\ receipt' = receipt
        BY <1>5 DEF Verify, DiscardStage, Forward, disk
    <2>2. pc' = "idle" \/ UNCHANGED <<prior, plan>>
        BY <1>5 DEF Verify, DiscardStage, End
    <2>3. QED BY <2>1, <2>2, PreimagesFrame, PreimagesEnd
<1>6. CASE Disable \/ CheckDisabled \/ RemoveAsset \/ RemoveRoot \/ RemoveReceipt
    <2>1. pc \in Forward /\ UNCHANGED <<prior, plan>> /\ receipt' \in {receipt, Null}
        BY <1>6 DEF Disable, CheckDisabled, RemoveAsset, RemoveRoot, RemoveReceipt, Forward, disk
    <2>2. QED BY <2>1, PreimagesFrame
<1>7. QED BY <1>1, <1>2, <1>3, <1>4, <1>5, <1>6 DEF Operate

\* A recovery writes no receipt but the one the operation began with.
LEMMA PreimagesRecovery ==
    ASSUME Preimages, Recover PROVE Preimages'
<1> USE DEF Goto, Kept, Incomplete
<1>1. CASE CaptureExpected \/ Recheck \/ UnstageAsset \/ RemoveStage \/ RestoreShell
           \/ PruneAsset \/ RestoreRoot \/ CheckRewrite \/ RewriteAsset \/ CompareRestored
    <2>1. pc \in Recovering /\ receipt' = receipt
        BY <1>1 DEF CaptureExpected, Recheck, UnstageAsset, RemoveStage, RestoreShell,
                    PruneAsset, RestoreRoot, CheckRewrite, RewriteAsset, CompareRestored, Recovering, disk
    <2>2. pc' = "idle" \/ UNCHANGED <<prior, plan>>
        BY <1>1 DEF CaptureExpected, Recheck, UnstageAsset, RemoveStage, RestoreShell,
                    PruneAsset, RestoreRoot, CheckRewrite, RewriteAsset, CompareRestored, End
    <2>3. QED BY <2>1, <2>2, PreimagesFrame, PreimagesEnd
<1>2. CASE RestoreReceipt
    <2>1. pc \in Recovering
        BY <1>2 DEF RestoreReceipt, Recovering
    <2>2. CASE receipt' \in {receipt, Null}
        <3>1. pc' = "idle" \/ UNCHANGED <<prior, plan>>
            BY <1>2 DEF RestoreReceipt, End
        <3>2. QED BY <2>1, <2>2, <3>1, PreimagesFrame, PreimagesEnd
    <2>3. CASE receipt' \notin {receipt, Null}
        <3>1. /\ prior.receipt # Null
              /\ receipt' = [ino |-> FreshInode, doc |-> prior.receipt.doc]
              /\ UNCHANGED <<prior, plan>>
            BY <1>2, <2>3 DEF RestoreReceipt
        <3>2. PreimageOff(receipt')
            BY <2>1, <3>1 DEF Preimages, PreimageOff
        <3>3. QED BY <2>1, <3>1, <3>2 DEF Preimages
    <2>4. QED BY <2>2, <2>3
<1>3. QED BY <1>1, <1>2 DEF Recover

\* The preimage an uninstall must reproduce stems from before the plugin, after
\* any number of updates, rollbacks, recoveries and crashes.
THEOREM PreimageCorrect == Spec => []PreimageIsOriginal
<1>1. Init => Preimages
    <2>1. ASSUME NEW release \in Releases, NEW previous \in Releases \cup {Null},
                 Installed(release, previous)
          PROVE PreimageOff(receipt)
        BY <2>1 DEF Installed, Plain, PreimageOff
    <2>2. QED BY <2>1 DEF Init, Preimages, PreimageOff, Forward, Recovering
<1>2. Preimages /\ [Next]_vars => Preimages'
    <2> SUFFICES ASSUME Preimages, [Next]_vars PROVE Preimages'
        OBVIOUS
    <2>1. CASE Operate BY <2>1, PreimagesForward
    <2>2. CASE Recover BY <2>2, PreimagesRecovery
    <2>3. CASE Fault
        <3>1. receipt' = receipt /\ pc \in Forward \cup Recovering
            BY <2>3 DEF Fault, disk
        <3>2. pc' = "idle" \/ UNCHANGED <<prior, plan>>
            BY <2>3 DEF Fault, Fail, Incomplete, End
        <3>3. QED BY <3>1, <3>2, PreimagesFrame, PreimagesEnd
    <2>4. CASE Crash
        BY <2>4, PreimagesEnd DEF Crash, End
    <2>5. CASE (\E a \in Assets : Drift(a)) \/ DriftElsewhere
        <3>1. UNCHANGED <<pc, prior, plan>> /\ receipt' \in {receipt, Null}
            BY <2>5 DEF Drift, DriftElsewhere, memory
        <3>2. QED BY <3>1 DEF Preimages, PreimageOff
    <2>6. CASE UNCHANGED vars
        BY <2>6 DEF vars, disk, memory, Preimages, PreimageOff
    <2>7. QED BY <2>1, <2>2, <2>3, <2>4, <2>5, <2>6 DEF Next
<1>3. Preimages => PreimageIsOriginal
    BY DEF Preimages, PreimageOff, PreimageIsOriginal
<1>4. QED BY <1>1, <1>2, <1>3, PTL DEF Spec

-----------------------------------------------------------------------------

\* A file holds the bytes of its release, or somebody's edit.
Of(release, a, file) == file.bytes \in {Content[release][a], Alien}

\* A receipt lists the files of one release and no other.
OneRelease(r) ==
    r # Null => \A a \in Assets :
        IF a \in AssetsOf(r.doc.release)
        THEN r.doc.assets[a] # Null /\ Of(r.doc.release, a, r.doc.assets[a])
        ELSE r.doc.assets[a] = Null

\* What has been written of the release, up to the receipt.
Written(S) ==
    \A a \in S : tree[a] = Null \/ Of(plan.release, a, tree[a])

\* AcceptedIsOneRelease follows from what the receipts say; that the one an
\* operation writes says it rests on the files written before.
Releasing ==
    /\ OneRelease(receipt)
    /\ pc \in Forward \cup Recovering => OneRelease(prior.receipt)
    /\ pc = "planned" => plan.kind \in Kinds
    /\ pc \in {"write", "replace"} => Written(AssetsOf(plan.release) \ todo)
    /\ pc = "receipt" => Written(AssetsOf(plan.release))

\* A step within an operation that leaves the loop over the assets alone.
LEMMA ReleasingFrame ==
    ASSUME Releasing, UNCHANGED prior, receipt' \in {receipt, Null},
           pc \in Forward \cup Recovering, pc' \notin {"planned", "write", "replace", "receipt"}
    PROVE  Releasing'
BY DEF Releasing, OneRelease

\* The same of its last step.
LEMMA ReleasingEnd ==
    ASSUME Releasing, receipt' \in {receipt, Null}, pc' = "idle" PROVE Releasing'
BY DEF Releasing, OneRelease, Forward, Recovering

\* Every step forward keeps it.
LEMMA ReleasingForward ==
    ASSUME TreeCounted, Releasing, Operate PROVE Releasing'
<1> USE DEF Goto, Kept, Fail
<1>1. ASSUME NEW kind \in Kinds, NEW release \in Releases \cup {Null}, Inspect(kind, release)
      PROVE Releasing'
    BY <1>1 DEF Inspect, disk, Releasing, OneRelease, Forward, Recovering
<1>2. CASE Execute
    <2>1. CASE pc' = "idle"
        BY <1>2, <2>1, ReleasingEnd DEF Execute, disk
    <2>2. CASE pc' # "idle"
        <3>1. prior' = Snapshot /\ receipt' = receipt /\ pc' = FirstStep(plan.kind)
            BY <1>2, <2>2 DEF Execute, End, disk
        <3>2. plan.kind \in Kinds
            BY <1>2 DEF Execute, Releasing
        <3>3. QED
            BY <3>1, <3>2 DEF Snapshot, FirstStep, Kinds, Releasing
    <2>3. QED BY <2>1, <2>2
<1>3. CASE OpenStage \/ MakeStage \/ MoveToStage \/ CaptureStage \/ DiscardStaged
           \/ Disable \/ CheckDisabled \/ RemoveAsset \/ RemoveRoot \/ RemoveReceipt
    <2>1. /\ pc \in Forward /\ UNCHANGED prior /\ receipt' \in {receipt, Null}
          /\ pc' \notin {"planned", "write", "replace", "receipt"}
        BY <1>3 DEF OpenStage, MakeStage, MoveToStage, CaptureStage, DiscardStaged, Disable,
                    CheckDisabled, RemoveAsset, RemoveRoot, RemoveReceipt, Forward, disk
    <2>2. QED BY <2>1, ReleasingFrame
<1>4. CASE EnsureReleaseDirectories
    BY <1>4 DEF EnsureReleaseDirectories, Releasing, Written, OneRelease, Forward
<1>10. CASE CheckAsset
    <2>1. /\ pc = "write" /\ pc \in Forward /\ UNCHANGED <<prior, plan, receipt, tree>>
          /\ pc' = "capture" \/ (pc' = "replace" /\ todo' = todo)
        BY <1>10 DEF CheckAsset, Forward, disk
    <2>2. QED BY <2>1 DEF Releasing, OneRelease, Written
<1>5. CASE WriteAsset
    <2> DEFINE a == First(todo)
               file == NewFile(Content[plan.release][a])
    <2>1. pc = "replace" /\ pc \in Forward /\ UNCHANGED <<prior, plan, receipt>>
        BY <1>5 DEF WriteAsset, Forward
    <2>3. CASE tree' = [tree EXCEPT ![a] = file] /\ todo' = todo \ {a} /\ pc' = "write"
        <3>1. file.bytes = Content[plan.release][a]
            BY DEF NewFile
        <3>2. Written(AssetsOf(plan.release) \ todo)
            BY <2>1 DEF Releasing
        <3>3. ASSUME NEW b \in AssetsOf(plan.release) \ (todo \ {a})
              PROVE tree'[b] = Null \/ Of(plan.release, b, tree'[b])
            <4>1. b \in DOMAIN tree
                BY DEF AssetsOf, TreeCounted
            <4> HIDE DEF file, a
            <4>2. CASE b = a
                BY <2>3, <3>1, <4>1, <4>2 DEF Of
            <4>3. CASE b # a
                BY <2>3, <3>2, <3>3, <4>1, <4>3 DEF Written
            <4>4. QED BY <4>2, <4>3
        <3>4. (Written(AssetsOf(plan.release) \ todo))'
            BY <2>1, <2>3, <3>3 DEF Written, Of, AssetsOf
        <3>5. QED BY <2>1, <2>3, <3>4 DEF Releasing, OneRelease
    <2>4. QED BY <1>5, <2>3 DEF WriteAsset
<1>6. CASE Enable
    <2>1. Written(AssetsOf(plan.release))
        BY <1>6 DEF Enable, Releasing
    <2>2. QED BY <1>6, <2>1 DEF Enable, Releasing, OneRelease, Written, Forward
<1>7. CASE WriteReceipt
    <2>1. pc = "receipt" /\ pc \in Forward /\ UNCHANGED <<prior, plan, tree>>
        BY <1>7 DEF WriteReceipt, Forward
    <2>2. CASE pc' = "capture"
        BY <1>7, <2>1, <2>2, ReleasingFrame DEF WriteReceipt
    <2>3. CASE /\ receipt' = [ino |-> FreshInode, doc |-> BuildReceipt] /\ pc' = "verify"
               /\ \A a \in AssetsOf(plan.release) : tree[a] # Null
        <3>1. Written(AssetsOf(plan.release))
            BY <2>1 DEF Releasing
        <3>2. /\ receipt'.doc.release = plan.release
              /\ receipt'.doc.assets = [a \in Assets |-> IF a \in AssetsOf(plan.release)
                                                         THEN tree[a] ELSE Null]
            BY <2>3 DEF BuildReceipt
        <3>3. OneRelease(receipt')
            BY <2>3, <3>1, <3>2 DEF OneRelease, Written
        <3>4. QED BY <2>1, <2>3, <3>3 DEF Releasing
    <2>4. QED BY <1>7, <2>2, <2>3 DEF WriteReceipt
<1>8. CASE Verify \/ DiscardStage
    <2>1. pc \in Forward /\ receipt' = receipt
        BY <1>8 DEF Verify, DiscardStage, Forward, disk
    <2>2. pc' = "idle" \/ (UNCHANGED prior /\ pc' \notin {"planned", "write", "replace", "receipt"})
        BY <1>8 DEF Verify, DiscardStage, End
    <2>3. QED BY <2>1, <2>2, ReleasingFrame, ReleasingEnd
<1>9. QED BY <1>1, <1>2, <1>3, <1>4, <1>5, <1>6, <1>7, <1>8, <1>10 DEF Operate

\* So does every step of the recovery.
LEMMA ReleasingRecovery ==
    ASSUME Releasing, Recover PROVE Releasing'
<1> USE DEF Goto, Kept, Incomplete
<1>1. pc \in Recovering
    BY DEF Recover, CaptureExpected, Recheck, UnstageAsset, RemoveStage, RestoreShell, PruneAsset,
           RestoreRoot, CheckRewrite, RewriteAsset, RestoreReceipt, CompareRestored, Recovering
<1>2. pc' = "idle" \/ (UNCHANGED prior /\ pc' \notin {"planned", "write", "replace", "receipt"})
    BY DEF Recover, CaptureExpected, Recheck, UnstageAsset, RemoveStage, RestoreShell, PruneAsset,
           RestoreRoot, CheckRewrite, RewriteAsset, RestoreReceipt, CompareRestored, End
<1>3. CASE receipt' \in {receipt, Null}
    BY <1>1, <1>2, <1>3, ReleasingFrame, ReleasingEnd
<1>4. CASE receipt' \notin {receipt, Null}
    <2>1. RestoreReceipt
        BY <1>4 DEF Recover, CaptureExpected, Recheck, UnstageAsset, RemoveStage, RestoreShell,
                    PruneAsset, RestoreRoot, CheckRewrite, RewriteAsset, CompareRestored, disk
    <2>2. /\ prior.receipt # Null
          /\ receipt' = [ino |-> FreshInode, doc |-> prior.receipt.doc]
          /\ UNCHANGED prior /\ pc' = "compare"
        BY <2>1, <1>4 DEF RestoreReceipt
    <2>3. OneRelease(receipt')
        BY <1>1, <2>2 DEF Releasing, OneRelease
    <2>4. QED BY <1>1, <2>2, <2>3 DEF Releasing
<1>5. QED BY <1>3, <1>4

\* Nobody but the installer writes bytes of a release.
LEMMA ReleasingDrift ==
    ASSUME TreeCounted, Releasing, NEW a \in Assets, Drift(a) PROVE Releasing'
<1>1. UNCHANGED <<pc, plan, prior, todo, receipt>>
    BY DEF Drift, memory
<1>2. ASSUME NEW b \in Assets
      PROVE tree'[b] \in {tree[b], Null} \/ tree'[b].bytes = Alien
    <2> DEFINE fresh == NewFile(Alien)
               edited == [ino |-> tree[a].ino, bytes |-> Alien]
    <2>1. fresh.bytes = Alien /\ edited.bytes = Alien
        BY DEF NewFile
    <2>2. \/ tree' = [tree EXCEPT ![a] = fresh]
          \/ tree' = [tree EXCEPT ![a] = Null]
          \/ tree' = [tree EXCEPT ![a] = edited]
        BY DEF Drift
    <2> HIDE DEF fresh, edited
    <2>3. QED BY <2>1, <2>2 DEF TreeCounted
<1>3. /\ AssetsOf(plan.release) \subseteq Assets
      /\ (AssetsOf(plan.release))' = AssetsOf(plan.release)
    BY <1>1 DEF AssetsOf
<1>4. pc \in {"write", "replace"} => (Written(AssetsOf(plan.release) \ todo))'
    BY <1>1, <1>2, <1>3 DEF Releasing, Written, Of
<1>5. pc = "receipt" => (Written(AssetsOf(plan.release)))'
    BY <1>1, <1>2, <1>3 DEF Releasing, Written, Of
<1>6. QED BY <1>1, <1>4, <1>5 DEF Releasing, OneRelease

\* What later operations accept as theirs is one whole release, whatever was
\* interrupted, restored or edited before.
THEOREM AcceptedCorrect == Spec => []AcceptedIsOneRelease
<1>1. Init => TreeCounted /\ Releasing
    <2>1. ASSUME NEW release \in Releases, NEW previous \in Releases \cup {Null},
                 Installed(release, previous)
          PROVE OneRelease(receipt)
        <3> DEFINE file(a) == IF a \in AssetsOf(release)
                              THEN [ino |-> a + 3, bytes |-> Content[release][a]]
                              ELSE Null
        <3>1. /\ receipt.doc.release = release
              /\ receipt.doc.assets = [a \in Assets |-> file(a)]
            BY <2>1 DEF Installed
        <3>2. ASSUME NEW a \in AssetsOf(release)
              PROVE file(a) # Null /\ file(a).bytes = Content[release][a]
            <4>1. a \in Nat /\ Content[release][a] \in Bytes
                BY InstallationAssumption DEF AssetsOf
            <4>2. [ino |-> a + 3, bytes |-> Content[release][a]] # Null
                BY <4>1, InstallationAssumption
            <4>3. QED BY <4>2
        <3>3. AssetsOf(release) \subseteq Assets
            BY DEF AssetsOf
        <3> HIDE DEF file
        <3>4. \A a \in Assets \ AssetsOf(release) : file(a) = Null
            BY DEF file
        <3>5. QED BY <3>1, <3>2, <3>3, <3>4 DEF OneRelease, Of
    <2>2. QED BY <2>1, TreeCountedInit DEF Init, Releasing, OneRelease, Forward, Recovering
<1>2. TreeCounted /\ Releasing /\ [Next]_vars => (TreeCounted /\ Releasing)'
    <2> SUFFICES ASSUME TreeCounted, Releasing, [Next]_vars PROVE Releasing'
        BY EveryStepCounts
    <2>1. CASE Operate BY <2>1, ReleasingForward
    <2>2. CASE Recover BY <2>2, ReleasingRecovery
    <2>3. CASE Fault
        <3>1. receipt' = receipt /\ pc \in Forward \cup Recovering
            BY <2>3 DEF Fault, disk
        <3>2. pc' = "idle" \/ (UNCHANGED prior /\ pc' = "capture")
            BY <2>3 DEF Fault, Fail, Goto, Incomplete, End
        <3>3. QED BY <3>1, <3>2, ReleasingFrame, ReleasingEnd
    <2>4. CASE Crash
        BY <2>4, ReleasingEnd DEF Crash, End
    <2>5. ASSUME NEW a \in Assets, Drift(a) PROVE Releasing'
        BY <2>5, ReleasingDrift
    <2>6. CASE DriftElsewhere \/ UNCHANGED vars
        <3>1. UNCHANGED <<pc, prior, plan, todo, tree>> /\ receipt' \in {receipt, Null}
            BY <2>6 DEF DriftElsewhere, vars, disk, memory
        <3>2. QED BY <3>1 DEF Releasing, OneRelease, Written
    <2>7. QED BY <2>1, <2>2, <2>3, <2>4, <2>5, <2>6 DEF Next
<1>3. Releasing => AcceptedIsOneRelease
    BY DEF Releasing, OneRelease, Of, AcceptedIsOneRelease, ReceiptValid, MatchesReceipt, Snapshot
<1>4. QED BY <1>1, <1>2, <1>3, PTL DEF Spec

-----------------------------------------------------------------------------

\* What a set of paths lists is finite.
LEMMA InodesFinite ==
    ASSUME NEW files PROVE IsFiniteSet(InodesIn(files))
<1> DEFINE f == [a \in Assets |-> InodeOf(files[a])]
<1>1. f \in Surjection(Assets, InodesIn(files))
    BY DEF Surjection, InodesIn
<1>2. QED BY <1>1, FS_Surjection, InstallationAssumption

\* So is what a state remembers, and what all of them do.
LEMMA RememberedFinite == IsFiniteSet(Remembered) /\ Cardinality(Remembered) \in Nat
<1>1. \A x : IsFiniteSet({x}) /\ IsFiniteSet({})
    BY FS_Singleton, FS_EmptySet
<1>2. \A r : IsFiniteSet(InodesOfReceipt(r))
    <2> TAKE r
    <2>1. IsFiniteSet({r.ino} \cup InodesIn(r.doc.assets))
        BY <1>1, InodesFinite, FS_Union
    <2>2. QED BY <1>1, <2>1 DEF InodesOfReceipt
<1>3. \A s : IsFiniteSet(InodesOfState(s))
    <2> TAKE s
    <2> DEFINE own == IF s.root = Null THEN {} ELSE {s.root}
    <2>1. IsFiniteSet(own)
        BY <1>1
    <2> HIDE DEF own
    <2>2. IsFiniteSet(own \cup InodesIn(s.tree))
        BY <2>1, InodesFinite, FS_Union
    <2>3. IsFiniteSet((own \cup InodesIn(s.tree)) \cup InodesOfReceipt(s.receipt))
        BY <2>2, <1>2, FS_Union
    <2>4. InodesOfState(s) \in {{}, (own \cup InodesIn(s.tree)) \cup InodesOfReceipt(s.receipt)}
        BY DEF InodesOfState, own
    <2>5. QED BY <1>1, <2>3, <2>4
<1> DEFINE planned == IF plan = Null THEN {} ELSE InodesOfState(plan.state)
           staged == IF stage = Null THEN {} ELSE InodesIn(stage)
<1>4. IsFiniteSet(planned) /\ IsFiniteSet(staged)
    BY <1>1, <1>3, InodesFinite
<1>5. Remembered = (((InodesOfState(Snapshot) \cup InodesOfState(prior))
                      \cup InodesOfState(expected)) \cup planned) \cup staged
    BY DEF Remembered
<1> HIDE DEF planned, staged
<1>6. IsFiniteSet(InodesOfState(Snapshot) \cup InodesOfState(prior))
    BY <1>3, FS_Union
<1>7. IsFiniteSet((InodesOfState(Snapshot) \cup InodesOfState(prior)) \cup InodesOfState(expected))
    BY <1>3, <1>6, FS_Union
<1>8. IsFiniteSet(((InodesOfState(Snapshot) \cup InodesOfState(prior)) \cup InodesOfState(expected))
                    \cup planned)
    BY <1>4, <1>7, FS_Union
<1>9. QED BY <1>4, <1>5, <1>8, FS_Union, FS_CardinalityType

\* A new inode is a number, and nothing that is remembered.
LEMMA FreshIsNew ==
    FreshInode \in Nat \ {0} /\ FreshInode # Null /\ FreshInode \notin Remembered
<1> DEFINE n == Cardinality(Remembered)
           free == {i \in 1 .. n + 1 : i \notin Remembered}
           before == {p \in Nat \X Nat : p[1] < p[2]}
<1>1. IsFiniteSet(Remembered) /\ n \in Nat
    BY RememberedFinite
<1>2. free # {}
    <2> SUFFICES ASSUME 1 .. n + 1 \subseteq Remembered PROVE FALSE
        OBVIOUS
    <2> HIDE DEF n
    <2>1. Cardinality(1 .. n + 1) = n + 1
        BY <1>1, FS_Interval
    <2>2. Cardinality(1 .. n + 1) <= Cardinality(Remembered)
        BY <1>1, FS_Subset
    <2>3. QED BY <1>1, <2>1, <2>2 DEF n
<1>3. PICK i \in free : \A j \in free : ~(<<j, i>> \in before)
    <2>1. IsWellFoundedOn(before, Nat)
        BY NatLessThanWellFounded, Zenon DEF OpToRel
    <2>2. free \subseteq Nat
        BY <1>1
    <2> HIDE DEF free, before
    <2>3. QED BY <1>2, <2>1, <2>2, WFMin
<1>4. \A j \in free : ~(j < i)
    <2>1. free \subseteq Nat
        BY <1>1
    <2> HIDE DEF free
    <2>2. QED BY <1>3, <2>1
<1>5. i \in 1 .. n + 1 /\ i \notin Remembered /\ \A j \in 1 .. i - 1 : j \in Remembered
    <2>1. i \in Nat /\ i <= n + 1
        BY <1>1
    <2>2. QED BY <1>1, <1>4, <2>1
<1>6. FreshInode \in 1 .. n + 1 /\ FreshInode \notin Remembered
    BY <1>5 DEF FreshInode
<1>7. QED BY <1>1, <1>6, InstallationAssumption
-----------------------------------------------------------------------------

\* A state that a later operation can start from.
Usable(s) ==
    \/ s.root = Null /\ s.tree = Absent /\ s.receipt = Null /\ ~s.shell.enabled
    \/ ReceiptValid(s) /\ s.shell.enabled

\* A receipt was written with the plugin enabled.
Enabling(r) == r # Null => r.doc.post.enabled

\* What an operation started from is usable, so that going back to it is enough;
\* the rest says when there is a directory for the files, and a stage to put back.
Settling ==
    /\ root = Null => tree = Absent
    /\ pc = "planned" => plan.kind \in Kinds
    /\ Enabling(receipt)
    /\ pc \in Forward \cup Recovering => Usable(prior) /\ Enabling(prior.receipt)
    /\ pc \in {"open", "mkstage", "move", "write", "replace", "unstage", "overwrite"} => root # Null
    /\ pc = "rewrite" /\ todo # {} => root # Null
    /\ pc \in Forward \cup Recovering /\ active # Null => root # Null
    /\ pc \in {"disable", "disabled", "remove", "forget",
               "reshell", "prune", "rewrite", "overwrite", "compare"} => active = Null
    /\ pc = "discard" /\ drifts = 0 => Usable(Snapshot)
    /\ pc \in {"idle", "planned"} /\ drifts = 0 /\ crashes = 0 /\ recovery # "incomplete"
         => Usable(Snapshot) /\ active = Null

\* An operation that ends with something to report, or as it found things.
LEMMA SettlingEnd ==
    ASSUME Settling, NEW how, NEW record, End(how, record),
           root' = Null => tree' = Absent, Enabling(receipt'),
           record # "incomplete" /\ drifts' = 0 /\ crashes' = 0
             => Usable(Snapshot') /\ active' = Null
    PROVE  Settling'
BY DEF Settling, End, Forward, Recovering, Usable, ReceiptValid, MatchesReceipt, Snapshot, Enabling

\* A step within an operation.
LEMMA SettlingWithin ==
    ASSUME Settling, UNCHANGED prior,
           pc \in Forward \cup Recovering, pc' \in Forward \cup Recovering,
           root' = Null => tree' = Absent, Enabling(receipt'),
           pc' \in {"open", "mkstage", "move", "write", "replace", "unstage", "overwrite"} => root' # Null,
           pc' = "rewrite" /\ todo' # {} => root' # Null,
           active' # Null => root' # Null,
           pc' \in {"disable", "disabled", "remove", "forget",
                    "reshell", "prune", "rewrite", "overwrite", "compare"} => active' = Null,
           pc' = "discard" /\ drifts' = 0 => Usable(Snapshot')
    PROVE  Settling'
BY DEF Settling, Forward, Recovering

\* A file goes.
LEMMA FileRemoved ==
    ASSUME TreeCounted, tree = Absent, NEW a PROVE [tree EXCEPT ![a] = Null] = Absent
BY DEF TreeCounted, Absent

\* Every step forward keeps it.
LEMMA SettlingForward ==
    ASSUME TreeCounted, Settling, Operate PROVE Settling'
<1> USE DEF Goto, Kept, Fail
<1>1. ASSUME NEW kind \in Kinds, NEW release \in Releases \cup {Null}, Inspect(kind, release)
      PROVE Settling'
    <2>1. /\ pc = "idle" /\ pc' = "planned" /\ plan'.kind = kind
          /\ UNCHANGED <<root, tree, receipt, shell, active, recovery, drifts, crashes>>
        BY <1>1 DEF Inspect, disk
    <2>2. QED
        BY <2>1 DEF Settling, Forward, Recovering, Usable, ReceiptValid, MatchesReceipt, Snapshot,
                    Enabling
<1>2. CASE Execute
    <2>1. CASE pc' = "idle"
        <3>1. pc = "planned" /\ End("refused", recovery) /\ UNCHANGED <<active, disk, budget>>
            BY <1>2, <2>1 DEF Execute, FirstStep, Kinds, Settling
        <3>2. Snapshot' = Snapshot /\ UNCHANGED <<root, tree, receipt, drifts, crashes>>
            BY <3>1 DEF disk, budget, Snapshot
        <3>3. Usable(Snapshot) = Usable(Snapshot')
            BY <3>2
        <3>4. QED BY <3>1, <3>2, <3>3, SettlingEnd DEF Settling
    <2>2. CASE pc' # "idle"
        <3>1. /\ pc = "planned" /\ pc' = FirstStep(plan.kind) /\ plan.kind \in Kinds
              /\ ValidOperationState(plan.kind, plan.release, Snapshot)
              /\ prior' = Snapshot /\ active = Null
              /\ UNCHANGED <<root, tree, receipt, shell, active>>
            BY <1>2, <2>2 DEF Execute, End, disk, Settling
        <3>2. Usable(Snapshot) /\ Enabling(Snapshot.receipt)
            BY <3>1 DEF Settling, Usable, ValidOperationState, Snapshot
        <3>3. pc' \in {"mkdir", "open", "disable"} /\ (pc' = "open" => root # Null)
            BY <3>1 DEF FirstStep, Kinds, ValidOperationState, ReceiptValid, Snapshot
        <3>4. QED BY <3>1, <3>2, <3>3 DEF Settling, Forward, Recovering
    <2>3. QED BY <2>1, <2>2
<1>3. CASE OpenStage \/ MakeStage \/ CaptureStage
    <2>1. /\ UNCHANGED <<root, tree, receipt, prior>> /\ root # Null
          /\ pc \in Forward \cup Recovering /\ pc' \in {"mkdir", "mkstage", "move"}
        BY <1>3 DEF OpenStage, MakeStage, CaptureStage, disk, Settling, Forward
    <2>2. QED BY <2>1, SettlingWithin DEF Settling, Forward
<1>4. CASE MoveToStage
    <2>1. /\ UNCHANGED <<root, receipt, prior>> /\ root # Null
          /\ pc \in Forward \cup Recovering /\ pc' \in {"move", "capture"}
        BY <1>4 DEF MoveToStage, Settling, Forward
    <2>2. QED BY <2>1, SettlingWithin DEF Settling, Forward, Recovering
<1>5. CASE EnsureReleaseDirectories
    <2>1. /\ UNCHANGED <<tree, receipt, prior, active>> /\ root' # Null
          /\ pc \in Forward \cup Recovering /\ pc' = "write"
        BY <1>5, FreshIsNew DEF EnsureReleaseDirectories, Forward
    <2>2. QED BY <2>1, SettlingWithin DEF Settling, Forward
<1>6. CASE CheckAsset \/ WriteAsset \/ Enable
    <2>1. /\ UNCHANGED <<root, receipt, prior, active>> /\ root # Null
          /\ pc \in Forward \cup Recovering /\ pc' \in {"write", "replace", "receipt", "capture"}
        BY <1>6 DEF CheckAsset, WriteAsset, Enable, Settling, Forward, disk
    <2>2. QED BY <2>1, SettlingWithin DEF Settling, Forward, Recovering
<1>7. CASE WriteReceipt
    <2>1. /\ UNCHANGED <<root, tree, prior, active>>
          /\ pc \in Forward \cup Recovering /\ pc' \in {"verify", "capture"}
          /\ \/ receipt' = receipt
             \/ receipt' = [ino |-> FreshInode, doc |-> BuildReceipt] /\ shell.enabled
        BY <1>7 DEF WriteReceipt, Forward
    <2>2. Enabling(receipt')
        BY <2>1 DEF Enabling, BuildReceipt, Settling
    <2>3. QED BY <2>1, <2>2, SettlingWithin DEF Settling, Forward, Recovering
<1>8. CASE Verify
    <2>0. /\ pc \in Forward \cup Recovering /\ UNCHANGED <<root, tree, receipt, shell, drifts, crashes>>
          /\ UNCHANGED active
        BY <1>8 DEF Verify, disk, budget, Forward
    <2>1. CASE pc' = "capture" /\ UNCHANGED prior
        BY <2>0, <2>1, SettlingWithin DEF Settling, Forward, Recovering
    <2>4. Postcondition(Snapshot) => Usable(Snapshot)
        BY <1>8 DEF Verify, Postcondition, Usable, Settling, ReceiptValid, Snapshot, Enabling
    <2>5. Snapshot' = Snapshot
        BY <2>0 DEF Snapshot
    <2>6. CASE pc' = "discard" /\ UNCHANGED prior /\ Postcondition(Snapshot)
        BY <2>0, <2>4, <2>5, <2>6, SettlingWithin DEF Settling, Forward, Recovering
    <2>2. CASE End("succeeded", recovery) /\ active = Null /\ Postcondition(Snapshot)
        BY <2>0, <2>2, <2>4, <2>5, SettlingEnd DEF Settling
    <2>3. QED BY <1>8, <2>1, <2>2, <2>6 DEF Verify
<1>9. CASE DiscardStaged \/ DiscardStage
    <2>1. /\ pc = "discard" /\ UNCHANGED <<root, tree, receipt, shell, drifts, crashes>>
          /\ pc \in Forward \cup Recovering
        BY <1>9 DEF DiscardStaged, DiscardStage, budget, Forward
    <2>2. Snapshot' = Snapshot
        BY <2>1 DEF Snapshot
    <2>3. CASE DiscardStaged
        <3>1. pc' = "discard" /\ UNCHANGED <<prior, active>>
            BY <2>3 DEF DiscardStaged
        <3>2. QED BY <2>1, <2>2, <3>1, SettlingWithin DEF Settling, Forward
    <2>4. CASE DiscardStage
        <3>1. End("succeeded", recovery) /\ active' = Null
            BY <2>4 DEF DiscardStage
        <3>2. QED BY <2>1, <2>2, <3>1, SettlingEnd DEF Settling
    <2>5. QED BY <1>9, <2>3, <2>4
<1>10. CASE Disable \/ CheckDisabled
    <2>1. /\ UNCHANGED <<root, tree, receipt, prior, active>> /\ active = Null
          /\ pc \in Forward \cup Recovering /\ pc' \in {"disabled", "remove", "capture"}
        BY <1>10 DEF Disable, CheckDisabled, disk, Settling, Forward
    <2>2. QED BY <2>1, SettlingWithin DEF Settling, Forward, Recovering
<1>11. CASE RemoveAsset
    <2> DEFINE a == Last(todo)
    <2>1. /\ UNCHANGED <<root, receipt, prior, active>> /\ active = Null
          /\ pc \in Forward \cup Recovering /\ pc' \in {"remove", "capture"}
          /\ tree' = tree \/ tree' = [tree EXCEPT ![a] = Null]
        BY <1>11 DEF RemoveAsset, Settling, Forward
    <2> HIDE DEF a
    <2>2. root' = Null => tree' = Absent
        BY <2>1, FileRemoved DEF Settling
    <2>3. QED BY <2>1, <2>2, SettlingWithin DEF Settling, Forward, Recovering
<1>12. CASE RemoveRoot
    <2>1. /\ UNCHANGED <<tree, receipt, prior, active>> /\ active = Null
          /\ pc \in Forward \cup Recovering /\ pc' \in {"forget", "capture"}
          /\ UNCHANGED root \/ tree = Absent
        BY <1>12 DEF RemoveRoot, Settling, Forward
    <2>2. QED BY <2>1, SettlingWithin DEF Settling, Forward, Recovering
<1>13. CASE RemoveReceipt
    <2>1. /\ UNCHANGED <<root, tree, prior, active>> /\ active = Null
          /\ pc \in Forward \cup Recovering /\ pc' \in {"verify", "capture"}
          /\ receipt' \in {receipt, Null}
        BY <1>13 DEF RemoveReceipt, Settling, Forward
    <2>2. QED BY <2>1, SettlingWithin DEF Settling, Forward, Recovering, Enabling
<1>14. QED
    BY <1>1, <1>2, <1>3, <1>4, <1>5, <1>6, <1>7, <1>8, <1>9, <1>10, <1>11, <1>12, <1>13 DEF Operate

\* A recovery that cannot be completed says so.
LEMMA SettlingIncomplete ==
    ASSUME Settling, Incomplete, UNCHANGED <<root, tree>>, receipt' \in {receipt, Null}
    PROVE  Settling'
BY SettlingEnd DEF Incomplete, Settling, Enabling

\* So does every step of the recovery.
LEMMA SettlingRecovery ==
    ASSUME TreeCounted, Settling, Recover PROVE Settling'
<1> USE DEF Goto, Kept
<1>1. pc \in Forward \cup Recovering
    BY DEF Recover, CaptureExpected, Recheck, UnstageAsset, RemoveStage, RestoreShell, PruneAsset,
           RestoreRoot, CheckRewrite, RewriteAsset, RestoreReceipt, CompareRestored, Recovering
<1>2. CASE CaptureExpected \/ Recheck \/ RemoveStage \/ RestoreShell
    <2>1. UNCHANGED <<root, tree, receipt>>
        BY <1>2 DEF CaptureExpected, Recheck, RemoveStage, RestoreShell, disk
    <2>2. Incomplete \/ (/\ UNCHANGED prior /\ pc' \in {"recheck", "reshell", "unstage", "prune"}
                         /\ active' \in {active, Null}
                         /\ pc' \in {"reshell", "prune"} => active' = Null)
        BY <1>2 DEF CaptureExpected, Recheck, RemoveStage, RestoreShell, Settling
    <2>3. pc' = "unstage" => root # Null
        BY <1>1, <1>2 DEF CaptureExpected, Recheck, RemoveStage, RestoreShell, Settling, Incomplete, End
    <2>4. CASE Incomplete
        BY <2>1, <2>4, SettlingIncomplete
    <2>5. CASE ~Incomplete
        <3>1. active' # Null => root' # Null
            BY <1>1, <2>1, <2>2, <2>5 DEF Settling
        <3>2. QED
            BY <1>1, <2>1, <2>2, <2>3, <2>5, <3>1, SettlingWithin DEF Settling, Forward, Recovering
    <2>6. QED BY <2>4, <2>5
<1>3. CASE UnstageAsset
    <2>1. /\ UNCHANGED <<root, receipt>> /\ root # Null
          /\ (Incomplete /\ UNCHANGED tree) \/ (UNCHANGED <<prior, active>> /\ pc' = "unstage")
        BY <1>3 DEF UnstageAsset, Settling
    <2>2. QED
        BY <1>1, <2>1, SettlingIncomplete, SettlingWithin DEF Settling, Forward, Recovering
<1>4. CASE PruneAsset
    <2> DEFINE a == First(todo)
    <2>1. /\ UNCHANGED <<root, receipt>> /\ active = Null
          /\ \/ Incomplete /\ UNCHANGED tree
             \/ /\ UNCHANGED <<prior, active>> /\ pc' = "prune"
                /\ tree' = [tree EXCEPT ![a] = Null]
        BY <1>4 DEF PruneAsset, Settling
    <2> HIDE DEF a
    <2>2. CASE UNCHANGED tree
        BY <1>1, <2>1, <2>2, SettlingIncomplete, SettlingWithin DEF Settling, Forward, Recovering
    <2>3. CASE tree' = [tree EXCEPT ![a] = Null] /\ pc' = "prune" /\ UNCHANGED <<prior, active>>
        <3>1. root' = Null => tree' = Absent
            BY <2>1, <2>3, FileRemoved DEF Settling
        <3>2. QED
            BY <1>1, <2>1, <2>3, <3>1, SettlingWithin DEF Settling, Forward, Recovering
    <2>4. QED BY <2>1, <2>2, <2>3
<1>5. CASE RestoreRoot
    <2> DEFINE next == {a \in Assets : prior.tree[a] # Null}
    <2>1. /\ UNCHANGED <<tree, receipt>> /\ active = Null
          /\ \/ Incomplete /\ UNCHANGED root
             \/ /\ UNCHANGED <<prior, active>> /\ pc' = "rewrite" /\ todo' = next
                /\ \/ prior.root = Null /\ root' = Null /\ tree = Absent
                   \/ prior.root = Null /\ root = Null /\ root' = root
                   \/ prior.root # Null /\ root' # Null
        BY <1>5, FreshIsNew DEF RestoreRoot, Settling
    <2>2. prior.root = Null => next = {}
        <3>1. prior.root = Null => prior.tree = Absent
            BY <1>1 DEF Settling, Usable, ReceiptValid
        <3>2. QED BY <3>1 DEF Absent
    <2> HIDE DEF next
    <2>3. CASE Incomplete /\ UNCHANGED root
        BY <2>1, <2>3, SettlingIncomplete
    <2>4. CASE UNCHANGED <<prior, active>> /\ pc' = "rewrite" /\ ~(Incomplete /\ UNCHANGED root)
        <3>1. (root' = Null => tree' = Absent) /\ (todo' # {} => root' # Null)
            BY <2>1, <2>2, <2>4 DEF Settling
        <3>2. QED
            BY <1>1, <2>1, <2>4, <3>1, SettlingWithin DEF Settling, Forward, Recovering
    <2>5. QED BY <2>1, <2>3, <2>4
<1>6. CASE CheckRewrite \/ RewriteAsset
    <2>1. /\ UNCHANGED <<root, receipt>> /\ root # Null /\ active = Null
          /\ \/ Incomplete /\ UNCHANGED tree
             \/ UNCHANGED <<prior, active>> /\ pc' \in {"rewrite", "overwrite"}
        BY <1>6 DEF CheckRewrite, RewriteAsset, Settling, disk
    <2>2. QED
        BY <1>1, <2>1, SettlingIncomplete, SettlingWithin DEF Settling, Forward, Recovering
<1>7. CASE RestoreReceipt
    <2>1. /\ UNCHANGED <<root, tree>> /\ active = Null
          /\ \/ Incomplete /\ UNCHANGED receipt
             \/ /\ UNCHANGED <<prior, active>> /\ pc' = "compare"
                /\ \/ receipt' \in {Null, receipt}
                   \/ prior.receipt # Null /\ receipt' = [ino |-> FreshInode, doc |-> prior.receipt.doc]
        BY <1>7 DEF RestoreReceipt, Settling
    <2>2. CASE Incomplete /\ UNCHANGED receipt
        BY <2>1, <2>2, SettlingIncomplete
    <2>3. CASE UNCHANGED <<prior, active>> /\ pc' = "compare" /\ ~(Incomplete /\ UNCHANGED receipt)
        <3>1. Enabling(receipt')
            BY <1>1, <2>1, <2>3 DEF Enabling, Settling
        <3>2. QED
            BY <1>1, <2>1, <2>3, <3>1, SettlingWithin DEF Settling, Forward, Recovering
    <2>4. QED BY <2>1, <2>2, <2>3
<1>8. CASE CompareRestored
    <2>1. /\ UNCHANGED <<root, tree, receipt, shell, active, drifts, crashes>> /\ active = Null
          /\ Incomplete \/ (End("recovered", "complete") /\ Snapshot = prior)
        BY <1>8 DEF CompareRestored, disk, budget, Settling, Incomplete
    <2>2. Snapshot' = Snapshot
        BY <2>1 DEF Snapshot
    <2>3. CASE Incomplete
        BY <2>1, <2>3, SettlingIncomplete
    <2>4. CASE End("recovered", "complete") /\ Snapshot = prior
        <3>1. Usable(Snapshot')
            BY <1>1, <2>2, <2>4 DEF Settling
        <3>2. QED BY <2>1, <2>4, <3>1, SettlingEnd DEF Settling
    <2>5. QED BY <2>1, <2>3, <2>4
<1>9. QED BY <1>2, <1>3, <1>4, <1>5, <1>6, <1>7, <1>8 DEF Recover

\* The deaths of the process are counted; nothing else counts them.
CrashesCounted == crashes \in Nat

LEMMA EveryStepCountsCrashes ==
    ASSUME CrashesCounted, [Next]_vars PROVE CrashesCounted'
<1>1. CASE Operate
    BY <1>1 DEF CrashesCounted, Operate, Inspect, Execute, OpenStage, MakeStage, MoveToStage,
                CaptureStage, EnsureReleaseDirectories, CheckAsset, WriteAsset, Enable, WriteReceipt, Verify,
                DiscardStaged, DiscardStage, Disable, CheckDisabled, RemoveAsset, RemoveRoot,
                RemoveReceipt, budget
<1>2. CASE Recover
    BY <1>2 DEF CrashesCounted, Recover, CaptureExpected, Recheck, UnstageAsset, RemoveStage,
                RestoreShell, PruneAsset, RestoreRoot, CheckRewrite, RewriteAsset, RestoreReceipt, CompareRestored,
                budget
<1>3. CASE Fault \/ Crash \/ (\E a \in Assets : Drift(a)) \/ DriftElsewhere \/ UNCHANGED vars
    BY <1>3 DEF CrashesCounted, Fault, Crash, Drift, DriftElsewhere, vars, budget
<1>4. QED BY <1>1, <1>2, <1>3 DEF Next

\* What an earlier process left is as any process would leave it.
LEMMA InstalledReceipt ==
    ASSUME NEW release \in Releases, NEW previous \in Releases \cup {Null},
           Installed(release, previous)
    PROVE  tree \in Trees /\ receipt \in [ino : Nat \ {0}, doc : Docs]
<1> DEFINE f == [a \in Assets |-> IF a \in AssetsOf(release)
                                  THEN [ino |-> a + 3, bytes |-> Content[release][a]]
                                  ELSE Null]
<1>1. f \in Trees
    <2> SUFFICES ASSUME NEW a \in Assets, a \in AssetsOf(release)
                 PROVE [ino |-> a + 3, bytes |-> Content[release][a]] \in Files
        BY DEF Trees, Files
    <2>1. Content[release][a] \in Bytes /\ a + 3 \in Nat \ {0}
        BY InstallationAssumption DEF AssetsOf
    <2>2. QED BY <2>1 DEF Files
<1>2. /\ tree = f
      /\ receipt = [ino |-> 2,
                    doc |-> [plan |-> 0, release |-> release, previous |-> previous,
                             pre |-> Plain(FALSE), post |-> Plain(TRUE), assets |-> f]]
    BY DEF Installed
<1> HIDE DEF f
<1>3. QED BY <1>1, <1>2 DEF Docs, Shells, Plain

\* Left alone, the installer ends every operation on nothing at all or on an
\* installation that can be updated and uninstalled, unless it reported an
\* incomplete recovery (companion/installation.ts:361, execute).
THEOREM SettledCorrect == Spec => []SettledIsUsable
<1>1. Init => TreeCounted /\ CrashesCounted /\ Settling
    <2> SUFFICES ASSUME Init PROVE Settling
        <3>1. Init => CrashesCounted BY DEF Init, CrashesCounted
        <3>2. QED BY <3>1, TreeCountedInit
    <2>1. ASSUME NEW release \in Releases, NEW previous \in Releases \cup {Null},
                 Installed(release, previous)
          PROVE /\ root # Null /\ Enabling(receipt) /\ ReceiptValid(Snapshot) /\ shell.enabled
        <3>1. root = 1 /\ 1 # Null /\ shell = Plain(TRUE)
            BY <2>1, InstallationAssumption DEF Installed
        <3>2. receipt.doc.post = Plain(TRUE) /\ receipt.doc.assets = tree
            BY <2>1 DEF Installed
        <3>3. receipt # Null
            BY <2>1, InstalledReceipt, NullAssumption
        <3>4. QED BY <3>1, <3>2, <3>3 DEF Plain, Enabling, ReceiptValid, MatchesReceipt, Snapshot
    <2>2. CASE root = Null /\ tree = Absent /\ receipt = Null /\ shell = Plain(FALSE)
        BY <2>2 DEF Init, Settling, Usable, Snapshot, Plain, Enabling, Forward, Recovering
    <2>3. CASE /\ root # Null /\ Enabling(receipt) /\ ReceiptValid(Snapshot) /\ shell.enabled
        BY <2>3 DEF Init, Settling, Usable, Snapshot, Forward, Recovering
    <2>4. QED BY <2>1, <2>2, <2>3 DEF Init
<1>2. TreeCounted /\ CrashesCounted /\ Settling /\ [Next]_vars => Settling'
    <2> SUFFICES ASSUME TreeCounted, CrashesCounted, Settling, [Next]_vars PROVE Settling'
        OBVIOUS
    <2>1. CASE Fault
        <3>1. UNCHANGED <<root, tree, receipt>> /\ pc \in Forward \cup Recovering
            BY <2>1 DEF Fault, disk
        <3>2. Incomplete \/ (UNCHANGED <<prior, active>> /\ pc' = "capture")
            BY <2>1 DEF Fault, Fail, Goto
        <3>3. QED
            BY <3>1, <3>2, SettlingIncomplete, SettlingWithin DEF Settling, Forward, Recovering
    <2>2. CASE Crash
        <3>1. /\ UNCHANGED <<root, tree, receipt>> /\ End("none", recovery)
              /\ crashes' # 0
            BY <2>2 DEF Crash, CrashesCounted
        <3>2. QED BY <3>1, SettlingEnd DEF Settling
    <2>3. CASE (\E a \in Assets : Drift(a)) \/ DriftElsewhere
        <3>1. /\ UNCHANGED <<root, pc, prior, plan, todo, active, recovery>>
              /\ receipt' \in {receipt, Null} /\ drifts' # 0
              /\ tree' = tree \/ root # Null
            BY <2>3 DEF Drift, DriftElsewhere, memory, TreeCounted
        <3>2. QED BY <3>1 DEF Settling, Enabling
    <2>4. CASE UNCHANGED vars
        <3>1. Snapshot' = Snapshot
            BY <2>4 DEF vars, disk, Snapshot
        <3>2. QED BY <2>4, <3>1 DEF vars, disk, memory, budget, Settling
    <2>5. QED BY <2>1, <2>2, <2>3, <2>4, SettlingForward, SettlingRecovery DEF Next
<1>3. TreeCounted /\ CrashesCounted /\ [Next]_vars => TreeCounted' /\ CrashesCounted'
    BY EveryStepCounts, EveryStepCountsCrashes
<1>4. Settling => SettledIsUsable
    <2>1. Usable(Snapshot) => Nothing \/ (ReceiptValid(Snapshot) /\ shell.enabled)
        BY DEF Usable, Nothing, Snapshot
    <2>2. QED BY <2>1 DEF Settling, SettledIsUsable
<1>5. QED BY <1>1, <1>2, <1>3, <1>4, PTL DEF Spec
-----------------------------------------------------------------------------

\* The parts of the disk that a snapshot holds.
DiskTyped ==
    /\ root \in (Nat \ {0}) \cup {Null}
    /\ tree \in Trees
    /\ receipt \in Receipts
    /\ shell \in Shells

\* The staging directory is there as long as a file was moved to it and when a
\* step works on it; a process without a stage of its own has left none behind.
StageTyped ==
    /\ stage \in Trees \cup {Null}
    /\ active \in Stages \cup {Null}
    /\ active = Null => stage = Null
    /\ pc \in {"open", "disable", "disabled", "remove", "forget"} => active = Null
    /\ pc \in {"mkstage", "move", "discard", "unstage"} => active # Null
    /\ pc \in {"move", "discard"} => stage # Null
    /\ pc \in {"mkdir", "write", "replace", "receipt", "verify"} /\ active # Null => stage # Null
    /\ active # Null /\ active.moved # {} => stage # Null
    /\ pc = "unstage" /\ todo # {} => stage # Null

\* Steps that belong to a release being put in place.
Placing == {"open", "mkstage", "move", "mkdir", "write", "replace", "receipt"}

\* What an operation knows at each step: its plan, the state it started from,
\* the state its recovery started from, and paths of the right kind to go on with.
OperationTyped ==
    /\ ops \in Nat
    /\ pc \in {"idle", "planned"} \cup Forward \cup Recovering
    /\ (pc = "idle") = (plan = Null)
    /\ plan \in Plans \cup {Null}
    /\ prior \in States \cup {Null} /\ (pc \in {"idle", "planned"}) = (prior = Null)
    /\ expected \in States \cup {Null}
    /\ pc \in Recovering \ {"capture"} => expected # Null
    /\ todo \subseteq Assets /\ restored \subseteq Assets
    /\ outcome \in {"none", "succeeded", "recovered", "refused", "incomplete"}
    /\ recovery \in {"none", "complete", "incomplete"}
    /\ plan # Null => ((plan.kind = "uninstall") <=> (plan.release = Null))
    /\ pc \in Placing => plan.kind # "uninstall"
    /\ pc \in Forward /\ plan.kind # "install" => prior.receipt # Null
    /\ pc \in {"write", "replace"} => todo \subseteq AssetsOf(plan.release)
    /\ pc \in {"rewrite", "overwrite"} => todo \subseteq {a \in Assets : prior.tree[a] # Null}
    /\ pc \in {"replace", "overwrite"} => todo # {}

Typed == DiskTyped /\ StageTyped /\ OperationTyped

\* A snapshot is typed as its parts are; it is no absence.
LEMMA SnapshotTyped ==
    /\ DiskTyped <=> Snapshot \in States
    /\ DiskTyped => Snapshot # Null
BY NullAssumption DEF DiskTyped, States, Snapshot

\* A tree in which one path changes.
LEMMA TreeTyped ==
    ASSUME NEW t \in Trees, NEW a, NEW f, a \in Assets => f \in Files
    PROVE  [t EXCEPT ![a] = f] \in Trees
BY DEF Trees

\* What a file is made of.
LEMMA FileTyped ==
    ASSUME NEW f \in Files, f # Null
    PROVE  f.ino \in Nat \ {0} /\ f.bytes \in Bytes \cup {Alien}
BY DEF Files

\* A file written anew.
LEMMA NewFileTyped ==
    ASSUME NEW bytes \in Bytes \cup {Alien} PROVE NewFile(bytes) \in Files
BY FreshIsNew DEF NewFile, Files

\* The first of some paths is one of them.
LEMMA FirstIsIn ==
    ASSUME NEW S, S \subseteq Assets, S # {} PROVE First(S) \in S
<1> DEFINE before == {p \in Nat \X Nat : p[1] < p[2]}
<1>1. S \subseteq Nat
    BY InstallationAssumption
<1>2. IsWellFoundedOn(before, Nat)
    BY NatLessThanWellFounded, Zenon DEF OpToRel
<1> HIDE DEF before
<1>3. PICK a \in S : \A b \in S : ~(<<b, a>> \in before)
    BY <1>1, <1>2, WFMin
<1>4. \A b \in S : a <= b
    <2> TAKE b \in S
    <2>1. a \in Nat /\ b \in Nat /\ ~(<<b, a>> \in before)
        BY <1>1, <1>3
    <2>2. ~(b < a)
        BY <2>1 DEF before
    <2>3. QED BY <2>1, <2>2
<1>5. QED BY <1>4 DEF First

\* What the fields of the plan and of the prior state are.
LEMMA KnownFields ==
    ASSUME OperationTyped
    PROVE  /\ plan # Null => /\ plan.kind \in Kinds /\ plan.no \in Nat /\ plan.state \in States
                             /\ plan.release \in Releases \cup {Null}
           /\ prior # Null => /\ prior.tree \in Trees /\ prior.shell \in Shells
                              /\ prior.root \in (Nat \ {0}) \cup {Null}
                              /\ prior.receipt # Null => prior.receipt.doc \in Docs
BY DEF OperationTyped, Plans, States, Receipts

\* An operation that ends leaves nothing in memory but its stage.
LEMMA OperationEnd ==
    ASSUME OperationTyped, UNCHANGED ops,
           NEW how \in {"none", "succeeded", "recovered", "refused", "incomplete"},
           NEW record \in {"none", "complete", "incomplete"}, End(how, record)
    PROVE  OperationTyped'
BY DEF OperationTyped, End, Forward, Recovering, Placing

\* A step within an operation.
LEMMA OperationWithin ==
    ASSUME OperationTyped, UNCHANGED <<plan, prior, outcome, recovery, ops>>,
           pc \in Forward \cup Recovering, pc' \in Forward \cup Recovering,
           pc' \in Forward => pc \in Forward,
           pc' \in Placing => plan.kind # "uninstall",
           expected' \in States \cup {Null}, pc' \in Recovering \ {"capture"} => expected' # Null,
           todo' \subseteq Assets, restored' \subseteq Assets,
           pc' \in {"write", "replace"} => todo' \subseteq AssetsOf(plan.release),
           pc' \in {"rewrite", "overwrite"} => todo' \subseteq {a \in Assets : prior.tree[a] # Null},
           pc' \in {"replace", "overwrite"} => todo' # {}
    PROVE  OperationTyped'
<1>1. pc' \notin {"idle", "planned"} /\ pc \notin {"idle", "planned"}
    BY DEF Forward, Recovering
<1> DEFINE there == (pc' \in Forward /\ plan.kind # "install") => prior.receipt # Null
<1>2. there /\ prior # Null /\ plan # Null /\ pc # "idle" /\ pc' # "idle"
    BY <1>1 DEF OperationTyped
<1> HIDE DEF there
<1>3. /\ ops' \in Nat
      /\ pc' \in {"idle", "planned"} \cup Forward \cup Recovering
      /\ (pc' = "idle") = (plan' = Null)
      /\ plan' \in Plans \cup {Null}
      /\ prior' \in States \cup {Null} /\ (pc' \in {"idle", "planned"}) = (prior' = Null)
    BY <1>1, <1>2 DEF OperationTyped
<1>4. /\ outcome' \in {"none", "succeeded", "recovered", "refused", "incomplete"}
      /\ recovery' \in {"none", "complete", "incomplete"}
      /\ plan' # Null => ((plan'.kind = "uninstall") <=> (plan'.release = Null))
    BY DEF OperationTyped
<1>5. QED BY <1>2, <1>3, <1>4 DEF OperationTyped, there

\* Recovery begins; the stage is kept for it.
LEMMA FailTyped ==
    ASSUME OperationTyped, StageTyped, Fail, UNCHANGED <<stage, ops>>, pc \in Forward \cup Recovering
    PROVE  OperationTyped' /\ StageTyped'
<1>1. /\ pc' = "capture" /\ todo' = {}
      /\ UNCHANGED <<plan, prior, expected, active, restored, outcome, recovery>>
    BY DEF Fail, Goto
<1>2. StageTyped'
    BY <1>1 DEF StageTyped
<1>3. pc' \in Recovering /\ pc' \notin Forward /\ pc' \notin Placing
    BY <1>1 DEF Recovering, Forward, Placing
<1>4. OperationTyped'
    BY <1>1, <1>3, OperationWithin DEF OperationTyped
<1>5. QED BY <1>2, <1>4

\* A recovery that cannot be completed.
LEMMA IncompleteTyped ==
    ASSUME OperationTyped, StageTyped, Incomplete, UNCHANGED <<stage, ops>>
    PROVE  OperationTyped' /\ StageTyped'
<1>1. OperationTyped'
    BY OperationEnd DEF Incomplete
<1>2. StageTyped'
    BY DEF Incomplete, End, StageTyped
<1>3. QED BY <1>1, <1>2

\* Inspection and the start of an execution.
LEMMA StartTyped ==
    ASSUME Typed,
           Execute \/ (\E kind \in Kinds, release \in Releases \cup {Null} : Inspect(kind, release))
    PROVE  Typed'
<1>1. UNCHANGED <<root, tree, receipt, shell, stage, active>>
    BY DEF Execute, Inspect, End, disk
<1>2. DiskTyped'
    BY <1>1 DEF Typed, DiskTyped
<1>3. ASSUME NEW kind \in Kinds, NEW release \in Releases \cup {Null}, Inspect(kind, release)
      PROVE Typed'
    <2>1. /\ pc = "idle" /\ pc' = "planned"
          /\ (kind = "uninstall") <=> (release = Null)
          /\ ops' = ops + 1
          /\ plan' = [kind |-> kind, release |-> release, no |-> ops + 1, state |-> Snapshot]
          /\ UNCHANGED <<prior, expected, todo, restored, outcome, recovery>>
        BY <1>3 DEF Inspect
    <2>2. ops' \in Nat /\ plan' \in Plans
        BY <2>1, SnapshotTyped DEF Typed, OperationTyped, Plans
    <2>3. plan' # Null
        BY <2>2, NullAssumption
    <2>4. OperationTyped'
        BY <2>1, <2>2, <2>3 DEF Typed, OperationTyped, Forward, Recovering, Placing
    <2>5. StageTyped'
        BY <1>1, <2>1 DEF Typed, StageTyped
    <2>6. QED BY <1>2, <2>4, <2>5 DEF Typed
<1>4. CASE Execute /\ pc' = "idle"
    <2>1. pc = "planned" /\ End("refused", recovery) /\ UNCHANGED ops
        <3>1. pc = "planned"
            BY <1>4 DEF Execute
        <3>2. plan # Null /\ OperationTyped
            BY <3>1 DEF Typed, OperationTyped
        <3>3. FirstStep(plan.kind) # "idle"
            BY <3>2, KnownFields DEF FirstStep, Kinds
        <3>4. QED BY <1>4, <3>1, <3>3 DEF Execute, budget
    <2>2. OperationTyped /\ recovery \in {"none", "complete", "incomplete"}
        BY DEF Typed, OperationTyped
    <2>3. OperationTyped'
        BY <2>1, <2>2, OperationEnd
    <2>4. StageTyped'
        <3>1. pc' = "idle" /\ UNCHANGED <<stage, active>>
            BY <1>1, <1>4
        <3>2. QED BY <3>1 DEF Typed, StageTyped
    <2>5. QED BY <1>2, <2>3, <2>4 DEF Typed
<1>5. CASE Execute /\ pc' # "idle"
    <2>1. /\ pc = "planned" /\ prior' = Snapshot /\ pc' = FirstStep(plan.kind) /\ active = Null
          /\ UNCHANGED <<plan, expected, todo, restored, outcome, recovery, ops>>
          /\ ValidOperationState(plan.kind, plan.release, Snapshot)
        BY <1>5 DEF Execute, End, budget
    <2>2. prior' \in States /\ prior' # Null /\ plan # Null /\ plan.kind \in Kinds
        <3>1. prior' \in States /\ prior' # Null
            BY <2>1, SnapshotTyped DEF Typed
        <3>2. plan # Null /\ OperationTyped
            BY <2>1 DEF Typed, OperationTyped
        <3>3. QED BY <3>1, <3>2, KnownFields
    <2>3. /\ pc' \in {"mkdir", "open", "disable"}
          /\ pc' \in Placing => plan.kind # "uninstall"
          /\ plan.kind # "install" => prior'.receipt # Null
        BY <2>1, <2>2 DEF FirstStep, Kinds, Placing, ValidOperationState, ReceiptValid, Snapshot
    <2>4. OperationTyped'
        BY <2>1, <2>2, <2>3 DEF Typed, OperationTyped, Forward, Recovering, Placing
    <2>5. StageTyped'
        BY <1>1, <2>1, <2>3 DEF Typed, StageTyped
    <2>6. QED BY <1>2, <2>4, <2>5 DEF Typed
<1>6. QED BY <1>3, <1>4, <1>5

\* The files that the new release lacks are staged.
LEMMA StagingTyped ==
    ASSUME Typed, OpenStage \/ MakeStage \/ MoveToStage \/ CaptureStage PROVE Typed'
<1> USE DEF Goto, Kept
<1>1. pc \in Forward /\ pc \in Placing /\ UNCHANGED <<root, receipt, shell, plan, prior, ops>>
    BY DEF OpenStage, MakeStage, MoveToStage, CaptureStage, Forward, Placing, Fail, disk, budget
<1>2. plan.kind # "uninstall" /\ plan # Null
    BY <1>1 DEF Typed, OperationTyped, Forward
<1>3. CASE OpenStage
    <2>0. pc = "open"
        BY <1>3 DEF OpenStage
    <2>1. /\ pc' \in {"mkdir", "mkstage"} /\ todo' = {} /\ UNCHANGED <<stage, tree>>
          /\ UNCHANGED <<expected, restored, outcome, recovery>>
          /\ \/ pc' = "mkdir" /\ UNCHANGED active
             \/ active' = [moved |-> {}, snapshot |-> Null] /\ pc' = "mkstage"
        BY <1>3 DEF OpenStage, disk
    <2>2. [moved |-> {}, snapshot |-> Null] \in Stages
        BY DEF Stages
    <2>3. OperationTyped'
        BY <1>1, <1>2, <2>1, OperationWithin DEF Typed, OperationTyped, Forward, Recovering, Placing
    <2>4. StageTyped'
        <3>1. CASE active' = [moved |-> {}, snapshot |-> Null] /\ pc' = "mkstage"
            BY <2>1, <2>2, <3>1, NullAssumption DEF Typed, StageTyped
        <3>2. CASE pc' = "mkdir" /\ UNCHANGED active
            BY <2>0, <2>1, <3>2 DEF Typed, StageTyped
        <3>3. QED BY <2>1, <3>1, <3>2
    <2>5. QED BY <1>1, <2>1, <2>3, <2>4 DEF Typed, DiskTyped
<1>4. CASE MakeStage
    <2>1. /\ pc = "mkstage" /\ pc' = "move" /\ todo' = Obsolete /\ stage' = Absent
          /\ UNCHANGED <<tree, active, expected, restored, outcome, recovery>>
        BY <1>4 DEF MakeStage
    <2>2. stage' \in Trees /\ stage' # Null /\ todo' \subseteq Assets
        BY <2>1, NullAssumption DEF Absent, Trees, Files, Obsolete
    <2>3. OperationTyped'
        BY <1>1, <1>2, <2>1, <2>2, OperationWithin DEF Typed, OperationTyped, Forward, Recovering, Placing
    <2>4. StageTyped'
        BY <2>1, <2>2 DEF Typed, StageTyped
    <2>5. QED BY <1>1, <2>1, <2>3, <2>4 DEF Typed, DiskTyped
<1>5. CASE CaptureStage
    <2>1. /\ pc = "move" /\ pc' = "mkdir" /\ todo' = {}
          /\ active' = [active EXCEPT !.snapshot = stage]
          /\ UNCHANGED <<tree, stage, expected, restored, outcome, recovery>>
        BY <1>5 DEF CaptureStage, disk
    <2>2. active \in Stages /\ stage \in Trees /\ stage # Null
        BY <2>1 DEF Typed, StageTyped
    <2>3. active' \in Stages
        BY <2>1, <2>2 DEF Stages
    <2>4. OperationTyped'
        BY <1>1, <1>2, <2>1, OperationWithin DEF Typed, OperationTyped, Forward, Recovering, Placing
    <2>5. StageTyped'
        BY <2>1, <2>2, <2>3, NullAssumption DEF StageTyped
    <2>6. QED BY <1>1, <2>1, <2>4, <2>5 DEF Typed, DiskTyped
<1>6. CASE MoveToStage
    <2> DEFINE a == First(todo)
    <2>1. /\ pc = "move" /\ todo # {}
          /\ \/ /\ tree' = [tree EXCEPT ![a] = Null]
                /\ stage' = [stage EXCEPT ![a] = tree[a]]
                /\ active' = [active EXCEPT !.moved = @ \cup {a}]
                /\ pc' = "move" /\ todo' = todo \ {a}
                /\ UNCHANGED <<expected, restored, outcome, recovery>>
             \/ Fail /\ UNCHANGED <<tree, stage>>
        BY <1>6 DEF MoveToStage
    <2>2. a \in Assets
        BY <2>1, FirstIsIn DEF Typed, OperationTyped
    <2> HIDE DEF a
    <2>3. CASE Fail /\ UNCHANGED <<tree, stage>>
        BY <1>1, <2>3, FailTyped DEF Typed, DiskTyped
    <2>4. CASE /\ tree' = [tree EXCEPT ![a] = Null]
               /\ stage' = [stage EXCEPT ![a] = tree[a]]
               /\ active' = [active EXCEPT !.moved = @ \cup {a}]
               /\ pc' = "move" /\ todo' = todo \ {a}
               /\ UNCHANGED <<expected, restored, outcome, recovery>>
        <3>1. tree \in Trees /\ stage \in Trees /\ active \in Stages
            BY <2>1 DEF Typed, DiskTyped, StageTyped
        <3>2. tree[a] \in Files /\ Null \in Files
            BY <2>2, <3>1 DEF Trees, Files
        <3>3. tree' \in Trees
            BY <2>4, <3>1, <3>2, TreeTyped
        <3>4. stage' \in Trees
            BY <2>4, <3>1, <3>2, TreeTyped
        <3>5. active' \in Stages
            BY <2>2, <2>4, <3>1 DEF Stages
        <3>6. OperationTyped'
            BY <1>1, <1>2, <2>4, OperationWithin DEF Typed, OperationTyped, Forward, Recovering, Placing
        <3>7. StageTyped'
            BY <2>4, <3>4, <3>5, NullAssumption DEF StageTyped
        <3>8. QED BY <1>1, <3>3, <3>6, <3>7 DEF Typed, DiskTyped
    <2>5. QED BY <2>1, <2>3, <2>4
<1>7. QED BY <1>3, <1>4, <1>5, <1>6

\* The receipt that a release in place is given.
LEMMA ReceiptTyped ==
    ASSUME Typed, pc = "receipt" PROVE [ino |-> FreshInode, doc |-> BuildReceipt] \in Receipts
<1>1. plan # Null /\ plan.kind # "uninstall" /\ prior # Null /\ OperationTyped
    BY DEF Typed, OperationTyped, Placing, Forward
<1>2. plan.no \in Nat /\ plan.release \in Releases
    BY <1>1, KnownFields DEF OperationTyped
<1>3. plan.kind # "install" => prior.receipt # Null
    BY <1>1 DEF OperationTyped, Forward
<1>4. prior.shell \in Shells /\ (plan.kind # "install" => prior.receipt.doc \in Docs)
    BY <1>1, <1>3, KnownFields
<1>5. /\ Preimage \in Shells
      /\ (IF plan.kind = "install" THEN Null ELSE prior.receipt.doc.release) \in Releases \cup {Null}
    BY <1>4 DEF Docs, Preimage
<1>6. [a \in Assets |-> IF a \in AssetsOf(plan.release) THEN tree[a] ELSE Null] \in Trees
    BY DEF Typed, DiskTyped, Trees, Files
<1>7. shell \in Shells
    BY DEF Typed, DiskTyped
<1>8. BuildReceipt \in Docs
    BY <1>2, <1>5, <1>6, <1>7 DEF BuildReceipt, Docs
<1>9. QED BY <1>8, FreshIsNew DEF Receipts

\* A release is put in place and written into the receipt.
LEMMA PlacingTyped ==
    ASSUME Typed, EnsureReleaseDirectories \/ CheckAsset \/ WriteAsset \/ Enable \/ WriteReceipt PROVE Typed'
<1> USE DEF Goto, Kept
<1>1. /\ pc \in Forward /\ pc \in {"mkdir", "write", "replace", "receipt"}
      /\ UNCHANGED <<stage, active, plan, prior, expected, restored, outcome, recovery, ops>>
    BY DEF EnsureReleaseDirectories, CheckAsset, WriteAsset, Enable, WriteReceipt, Forward, Fail,
           disk, budget
<1>2. plan.kind # "uninstall" /\ OperationTyped /\ StageTyped /\ plan # Null
    BY <1>1 DEF Typed, OperationTyped, Placing, Forward
<1>3. ASSUME pc' \in {"write", "replace", "receipt", "verify"}, todo' \subseteq Assets,
             pc' \in {"write", "replace"} => todo' \subseteq AssetsOf(plan.release),
             pc' = "replace" => todo' # {}
      PROVE  OperationTyped' /\ StageTyped'
    <2>1. OperationTyped'
        BY <1>1, <1>2, <1>3, OperationWithin DEF OperationTyped, Forward, Recovering
    <2>2. StageTyped'
        BY <1>1, <1>2, <1>3 DEF StageTyped
    <2>3. QED BY <2>1, <2>2
<1>4. ASSUME Fail PROVE OperationTyped' /\ StageTyped'
    BY <1>1, <1>2, <1>4, FailTyped
<1>5. CASE EnsureReleaseDirectories
    <2>1. /\ UNCHANGED <<tree, receipt, shell>> /\ root' \in {root, FreshInode}
          /\ pc' = "write" /\ todo' = AssetsOf(plan.release)
        BY <1>5 DEF EnsureReleaseDirectories
    <2>2. DiskTyped'
        BY <2>1, FreshIsNew DEF Typed, DiskTyped
    <2>3. QED BY <1>3, <2>1, <2>2 DEF Typed, AssetsOf
<1>10. CASE CheckAsset
    <2>1. /\ UNCHANGED <<root, tree, receipt, shell>> /\ pc = "write" /\ todo # {}
          /\ (pc' = "replace" /\ todo' = todo) \/ Fail
        BY <1>10 DEF CheckAsset, disk
    <2>2. DiskTyped'
        BY <2>1 DEF Typed, DiskTyped
    <2>3. CASE pc' = "replace" /\ todo' = todo
        BY <1>2, <1>3, <2>1, <2>2, <2>3 DEF Typed, OperationTyped
    <2>4. CASE Fail
        BY <1>4, <2>2, <2>4 DEF Typed
    <2>5. QED BY <2>1, <2>3, <2>4
<1>6. CASE WriteAsset
    <2> DEFINE a == First(todo)
               bytes == Content[plan.release][a]
    <2>1. /\ UNCHANGED <<root, receipt, shell>> /\ pc = "replace" /\ todo # {}
          /\ tree' = [tree EXCEPT ![a] = NewFile(bytes)]
          /\ pc' = "write" /\ todo' = todo \ {a}
        BY <1>2, <1>6 DEF WriteAsset, OperationTyped
    <2>2. a \in AssetsOf(plan.release) /\ plan.release \in Releases
        <3>1. todo \subseteq Assets /\ todo \subseteq AssetsOf(plan.release)
            BY <1>2, <2>1 DEF OperationTyped
        <3>2. a \in todo
            BY <2>1, <3>1, FirstIsIn
        <3>3. plan.release \in Releases
            BY <1>2, KnownFields DEF OperationTyped
        <3>4. QED BY <3>1, <3>2, <3>3
    <2>3. bytes \in Bytes
        BY <2>2, InstallationAssumption DEF AssetsOf
    <2> HIDE DEF a, bytes
    <2>4. tree' \in Trees
        BY <2>1, <2>3, NewFileTyped, TreeTyped DEF Typed, DiskTyped
    <2>5. todo' \subseteq Assets /\ todo' \subseteq AssetsOf(plan.release)
        BY <1>2, <2>1 DEF OperationTyped
    <2>6. QED BY <1>3, <2>1, <2>4, <2>5 DEF Typed, DiskTyped
<1>7. CASE Enable
    <2>1. /\ UNCHANGED <<root, tree, receipt>> /\ shell' = [shell EXCEPT !.enabled = TRUE]
          /\ pc' = "receipt" /\ todo' = {}
        BY <1>7 DEF Enable
    <2>2. shell' \in Shells
        BY <2>1 DEF Typed, DiskTyped, Shells
    <2>3. QED BY <1>3, <2>1, <2>2 DEF Typed, DiskTyped
<1>8. CASE WriteReceipt
    <2> DEFINE new == [ino |-> FreshInode, doc |-> BuildReceipt]
    <2>1. /\ UNCHANGED <<root, tree, shell>> /\ pc = "receipt"
          /\ \/ receipt' = new /\ pc' = "verify" /\ todo' = {}
             \/ Fail /\ UNCHANGED receipt
        BY <1>8 DEF WriteReceipt
    <2>2. new \in Receipts
        BY <2>1, ReceiptTyped
    <2> HIDE DEF new
    <2>3. CASE receipt' = new /\ pc' = "verify" /\ todo' = {}
        BY <1>3, <2>1, <2>2, <2>3 DEF Typed, DiskTyped
    <2>4. CASE Fail /\ UNCHANGED receipt
        BY <1>4, <2>1, <2>4 DEF Typed, DiskTyped
    <2>5. QED BY <2>1, <2>3, <2>4
<1>9. QED BY <1>5, <1>6, <1>7, <1>8, <1>10

\* The result is verified and the staged files are discarded.
LEMMA VerifyTyped ==
    ASSUME Typed, Verify \/ DiscardStaged \/ DiscardStage PROVE Typed'
<1> USE DEF Goto, Kept
<1>1. /\ UNCHANGED <<root, tree, receipt, shell, ops>> /\ pc \in Forward
      /\ OperationTyped /\ StageTyped /\ recovery \in {"none", "complete", "incomplete"}
    BY DEF Verify, DiscardStaged, DiscardStage, disk, budget, Forward, Typed, OperationTyped
<1>2. DiskTyped'
    BY <1>1 DEF Typed, DiskTyped
<1>3. ASSUME End("succeeded", recovery) PROVE OperationTyped'
    BY <1>1, <1>3, OperationEnd
<1>4. ASSUME pc' = "discard", todo' \subseteq Assets,
             UNCHANGED <<plan, prior, expected, restored, outcome, recovery>>
      PROVE  OperationTyped'
    BY <1>1, <1>4, OperationWithin DEF OperationTyped, Forward, Recovering, Placing
<1>5. CASE Verify
    <2>1. /\ pc = "verify" /\ UNCHANGED <<stage, active>>
          /\ \/ Fail
             \/ End("succeeded", recovery)
             \/ /\ pc' = "discard" /\ todo' = {a \in Assets : stage[a] # Null} /\ active # Null
                /\ UNCHANGED <<plan, prior, expected, restored, outcome, recovery>>
        BY <1>5 DEF Verify, Fail, disk
    <2>2. CASE Fail
        BY <1>1, <1>2, <2>1, <2>2, FailTyped DEF Typed
    <2>3. CASE End("succeeded", recovery)
        <3>1. StageTyped'
            BY <1>1, <2>1, <2>3 DEF StageTyped, End
        <3>2. QED BY <1>2, <1>3, <2>3, <3>1 DEF Typed
    <2>4. CASE /\ pc' = "discard" /\ todo' = {a \in Assets : stage[a] # Null} /\ active # Null
               /\ UNCHANGED <<plan, prior, expected, restored, outcome, recovery>>
        <3>1. StageTyped'
            BY <1>1, <2>1, <2>4 DEF StageTyped
        <3>2. QED BY <1>2, <1>4, <2>4, <3>1 DEF Typed
    <2>5. QED BY <2>1, <2>2, <2>3, <2>4
<1>6. CASE DiscardStaged
    <2> DEFINE a == First(todo)
    <2>1. /\ pc = "discard" /\ pc' = "discard" /\ todo' = todo \ {a}
          /\ stage' = [stage EXCEPT ![a] = Null]
          /\ UNCHANGED <<active, plan, prior, expected, restored, outcome, recovery>>
        BY <1>6 DEF DiscardStaged
    <2> HIDE DEF a
    <2>2. stage' \in Trees
        <3>1. stage \in Trees /\ Null \in Files
            BY <1>1, <2>1 DEF StageTyped, Files
        <3>2. QED BY <2>1, <3>1, TreeTyped
    <2>3. StageTyped'
        BY <1>1, <2>1, <2>2, NullAssumption DEF StageTyped
    <2>4. QED BY <1>1, <1>2, <1>4, <2>1, <2>3 DEF Typed, OperationTyped
<1>7. CASE DiscardStage
    <2>1. stage' = Null /\ active' = Null /\ End("succeeded", recovery) /\ pc' = "idle"
        BY <1>7 DEF DiscardStage, End
    <2>2. StageTyped'
        BY <2>1 DEF StageTyped
    <2>3. QED BY <1>2, <1>3, <2>1, <2>2 DEF Typed
<1>8. QED BY <1>5, <1>6, <1>7

\* An uninstallation.
LEMMA RemovalTyped ==
    ASSUME Typed, Disable \/ CheckDisabled \/ RemoveAsset \/ RemoveRoot \/ RemoveReceipt
    PROVE  Typed'
<1> USE DEF Goto, Kept
<1>1. /\ pc \in Forward /\ pc \in {"disable", "disabled", "remove", "forget"}
      /\ UNCHANGED <<stage, active, plan, prior, expected, restored, outcome, recovery, ops>>
    BY DEF Disable, CheckDisabled, RemoveAsset, RemoveRoot, RemoveReceipt, Forward, Fail, budget, disk
<1>2. OperationTyped /\ StageTyped
    BY DEF Typed
<1>3. ASSUME pc' \in {"disabled", "remove", "forget", "verify"}, todo' \subseteq Assets
      PROVE  OperationTyped' /\ StageTyped'
    <2>1. OperationTyped'
        BY <1>1, <1>2, <1>3, OperationWithin DEF OperationTyped, Forward, Recovering, Placing
    <2>2. StageTyped'
        BY <1>1, <1>2, <1>3 DEF StageTyped
    <2>3. QED BY <2>1, <2>2
<1>4. ASSUME Fail PROVE OperationTyped' /\ StageTyped'
    BY <1>1, <1>2, <1>4, FailTyped
<1>5. CASE Disable
    <2>1. /\ UNCHANGED <<root, tree, receipt>>
          /\ \/ /\ shell' = [shell EXCEPT !.enabled = FALSE] /\ pc' = "disabled" /\ todo' = {}
             \/ Fail /\ UNCHANGED shell
        BY <1>5 DEF Disable
    <2>2. [shell EXCEPT !.enabled = FALSE] \in Shells
        BY DEF Typed, DiskTyped, Shells
    <2>3. DiskTyped'
        BY <2>1, <2>2 DEF Typed, DiskTyped
    <2>4. QED BY <1>3, <1>4, <2>1, <2>3 DEF Typed
<1>6. CASE CheckDisabled
    <2>1. /\ UNCHANGED <<root, tree, receipt, shell>>
          /\ \/ pc' = "remove" /\ todo' = AssetsOf(prior.receipt.doc.release)
             \/ Fail
        BY <1>6 DEF CheckDisabled, disk
    <2>2. QED BY <1>3, <1>4, <2>1 DEF Typed, DiskTyped, AssetsOf
<1>7. CASE RemoveAsset
    <2> DEFINE a == Last(todo)
    <2>1. /\ UNCHANGED <<root, receipt, shell>>
          /\ \/ tree' = [tree EXCEPT ![a] = Null] /\ pc' = "remove" /\ todo' = todo \ {a}
             \/ Fail /\ UNCHANGED tree
        BY <1>7 DEF RemoveAsset
    <2> HIDE DEF a
    <2>2. [tree EXCEPT ![a] = Null] \in Trees /\ todo \ {a} \subseteq Assets
        BY <1>2, TreeTyped DEF Typed, DiskTyped, Files, OperationTyped
    <2>3. DiskTyped'
        BY <2>1, <2>2 DEF Typed, DiskTyped
    <2>4. QED BY <1>3, <1>4, <2>1, <2>2, <2>3 DEF Typed
<1>8. CASE RemoveRoot
    <2>1. /\ UNCHANGED <<tree, receipt, shell>>
          /\ \/ root' = Null /\ pc' = "forget" /\ todo' = {}
             \/ Fail /\ UNCHANGED root
        BY <1>8 DEF RemoveRoot
    <2>2. QED BY <1>3, <1>4, <2>1 DEF Typed, DiskTyped
<1>9. CASE RemoveReceipt
    <2>1. /\ UNCHANGED <<root, tree, shell>>
          /\ \/ receipt' = Null /\ pc' = "verify" /\ todo' = {}
             \/ Fail /\ UNCHANGED receipt
        BY <1>9 DEF RemoveReceipt
    <2>2. QED BY <1>3, <1>4, <2>1 DEF Typed, DiskTyped, Receipts
<1>10. QED BY <1>5, <1>6, <1>7, <1>8, <1>9

\* A recovery: captured, the stage put back, the rest restored.
LEMMA RecoveryTyped ==
    ASSUME Typed, Recover PROVE Typed'
<1> USE DEF Goto, Kept
<1>1. /\ OperationTyped /\ StageTyped
      /\ DiskTyped /\ UNCHANGED ops
      /\ pc \in Recovering /\ pc \notin Forward
    BY DEF Recover, CaptureExpected, Recheck, UnstageAsset, RemoveStage, RestoreShell, PruneAsset,
           RestoreRoot, CheckRewrite, RewriteAsset, RestoreReceipt, CompareRestored, Recovering, Forward, budget, Typed
<1>2. prior # Null /\ prior \in States
    BY <1>1 DEF OperationTyped, Recovering
<1>3. /\ prior.tree \in Trees /\ prior.shell \in Shells /\ (prior.receipt # Null => prior.receipt.doc \in Docs)
    BY <1>1, <1>2, KnownFields
<1>4. ASSUME Incomplete, UNCHANGED stage PROVE OperationTyped' /\ StageTyped'
    BY <1>1, <1>4, IncompleteTyped
<1>5. ASSUME pc' \in {"reshell", "prune", "rewrite", "overwrite", "compare"}, todo' \subseteq Assets,
             UNCHANGED <<stage, active, plan, prior, expected, restored, outcome, recovery>>,
             pc # "capture",
             pc' \in {"rewrite", "overwrite"} => todo' \subseteq {a \in Assets : prior.tree[a] # Null},
             pc' = "overwrite" => todo' # {}
      PROVE  OperationTyped' /\ StageTyped'
    <2>1. pc' \in Recovering /\ pc' \notin Forward /\ pc' \notin Placing /\ pc' \notin {"write", "replace"}
        BY <1>5 DEF Recovering, Forward, Placing
    <2>2. expected \in States \cup {Null} /\ expected # Null /\ restored \subseteq Assets
        BY <1>1, <1>5 DEF OperationTyped
    <2>3. OperationTyped'
        BY <1>1, <1>5, <2>1, <2>2, OperationWithin
    <2>4. StageTyped'
        BY <1>1, <1>5 DEF StageTyped
    <2>5. QED BY <2>3, <2>4
<1>6. CASE CaptureExpected
    <2>1. /\ UNCHANGED <<root, tree, receipt, shell, stage>>
          /\ \/ Incomplete
             \/ /\ expected' = Snapshot /\ pc' = "recheck" /\ todo' = {}
                /\ UNCHANGED <<plan, prior, active, restored, outcome, recovery>>
        BY <1>6 DEF CaptureExpected, disk
    <2>2. DiskTyped'
        BY <1>1, <2>1 DEF DiskTyped
    <2>3. CASE Incomplete
        BY <1>4, <2>1, <2>2, <2>3 DEF Typed
    <2>4. CASE /\ expected' = Snapshot /\ pc' = "recheck" /\ todo' = {}
               /\ UNCHANGED <<plan, prior, active, restored, outcome, recovery>>
        <3>1. expected' \in States /\ expected' # Null
            BY <1>1, <2>4, SnapshotTyped
        <3>2. pc' \in Recovering /\ pc' \notin Forward /\ pc' \notin Placing /\ restored \subseteq Assets
            BY <1>1, <2>4 DEF Recovering, Forward, Placing, OperationTyped
        <3>3. OperationTyped'
            BY <1>1, <2>4, <3>1, <3>2, OperationWithin
        <3>4. StageTyped'
            BY <1>1, <2>1, <2>4 DEF StageTyped
        <3>5. QED BY <2>2, <3>3, <3>4 DEF Typed
    <2>5. QED BY <2>1, <2>3, <2>4
<1>7. CASE Recheck
    <2>1. /\ UNCHANGED <<root, tree, receipt, shell, stage>> /\ pc = "recheck"
          /\ \/ Incomplete
             \/ /\ pc' = "reshell" /\ todo' = {}
                /\ UNCHANGED <<active, plan, prior, expected, restored, outcome, recovery>>
             \/ /\ pc' = "unstage" /\ todo' = active.moved /\ active # Null
                /\ UNCHANGED <<active, plan, prior, expected, restored, outcome, recovery>>
        BY <1>7 DEF Recheck, MovedPaths, disk
    <2>2. DiskTyped'
        BY <1>1, <2>1 DEF DiskTyped
    <2>3. CASE Incomplete
        BY <1>4, <2>1, <2>2, <2>3 DEF Typed
    <2>4. CASE /\ pc' = "reshell" /\ todo' = {}
               /\ UNCHANGED <<active, plan, prior, expected, restored, outcome, recovery>>
        BY <1>5, <2>1, <2>2, <2>4 DEF Typed
    <2>5. CASE /\ pc' = "unstage" /\ todo' = active.moved /\ active # Null
               /\ UNCHANGED <<active, plan, prior, expected, restored, outcome, recovery>>
        <3>1. todo' \subseteq Assets
            BY <1>1, <2>5 DEF StageTyped, Stages
        <3>2. pc' \in Recovering /\ pc' \notin Forward /\ pc' \notin Placing
            BY <2>5 DEF Recovering, Forward, Placing
        <3>3. expected \in States /\ expected # Null /\ restored \subseteq Assets
            BY <1>1, <2>1 DEF OperationTyped, Recovering
        <3>4. OperationTyped'
            BY <1>1, <2>5, <3>1, <3>2, <3>3, OperationWithin
        <3>5. StageTyped'
            BY <1>1, <2>1, <2>5 DEF StageTyped
        <3>6. QED BY <2>2, <3>4, <3>5 DEF Typed
    <2>6. QED BY <2>1, <2>3, <2>4, <2>5
<1>8. CASE UnstageAsset
    <2> DEFINE a == First(todo)
    <2>1. /\ UNCHANGED <<root, receipt, shell>> /\ pc = "unstage" /\ todo # {}
          /\ \/ Incomplete /\ UNCHANGED <<tree, stage>>
             \/ /\ tree' = [tree EXCEPT ![a] = stage[a]]
                /\ stage' = [stage EXCEPT ![a] = Null]
                /\ restored' = restored \cup {a}
                /\ pc' = "unstage" /\ todo' = todo \ {a}
                /\ UNCHANGED <<plan, prior, expected, active, outcome, recovery>>
        BY <1>8 DEF UnstageAsset
    <2>2. a \in Assets /\ todo \subseteq Assets
        BY <1>1, <2>1, FirstIsIn DEF OperationTyped
    <2> HIDE DEF a
    <2>3. CASE Incomplete /\ UNCHANGED <<tree, stage>>
        BY <1>1, <1>4, <2>1, <2>3 DEF Typed, DiskTyped
    <2>4. CASE /\ tree' = [tree EXCEPT ![a] = stage[a]]
               /\ stage' = [stage EXCEPT ![a] = Null]
               /\ restored' = restored \cup {a}
               /\ pc' = "unstage" /\ todo' = todo \ {a}
               /\ UNCHANGED <<plan, prior, expected, active, outcome, recovery>>
        <3>1. stage \in Trees /\ Null \in Files
            BY <1>1, <2>1 DEF StageTyped, Files
        <3>2. stage[a] \in Files /\ tree \in Trees
            BY <1>1, <2>2, <3>1 DEF Trees, DiskTyped
        <3>3. tree' \in Trees
            BY <2>4, <3>2, TreeTyped
        <3>4. stage' \in Trees
            BY <2>4, <3>1, TreeTyped
        <3>5. expected \in States /\ expected # Null /\ restored' \subseteq Assets
            BY <1>1, <2>1, <2>2, <2>4 DEF OperationTyped, Recovering
        <3>6. pc' \in Recovering /\ pc' \notin Forward /\ pc' \notin Placing
            BY <2>4 DEF Recovering, Forward, Placing
        <3>7. OperationTyped'
            BY <1>1, <2>2, <2>4, <3>5, <3>6, OperationWithin
        <3>8. StageTyped'
            BY <1>1, <2>1, <2>4, <3>4, NullAssumption DEF StageTyped
        <3>9. QED BY <1>1, <2>1, <3>3, <3>7, <3>8 DEF Typed, DiskTyped
    <2>5. QED BY <2>1, <2>3, <2>4
<1>9. CASE RemoveStage
    <2>1. /\ UNCHANGED <<root, tree, receipt, shell>> /\ pc = "unstage"
          /\ \/ Incomplete /\ UNCHANGED stage
             \/ /\ stage' = Null /\ active' = Null /\ pc' = "reshell" /\ todo' = {}
                /\ UNCHANGED <<plan, prior, expected, restored, outcome, recovery>>
        BY <1>9 DEF RemoveStage
    <2>2. DiskTyped'
        BY <1>1, <2>1 DEF DiskTyped
    <2>3. CASE Incomplete /\ UNCHANGED stage
        BY <1>4, <2>2, <2>3 DEF Typed
    <2>4. CASE /\ stage' = Null /\ active' = Null /\ pc' = "reshell" /\ todo' = {}
               /\ UNCHANGED <<plan, prior, expected, restored, outcome, recovery>>
        <3>1. expected \in States /\ expected # Null /\ restored \subseteq Assets
            BY <1>1, <2>1 DEF OperationTyped, Recovering
        <3>2. pc' \in Recovering /\ pc' \notin Forward /\ pc' \notin Placing
            BY <2>4 DEF Recovering, Forward, Placing
        <3>3. OperationTyped'
            BY <1>1, <2>4, <3>1, <3>2, OperationWithin
        <3>4. StageTyped'
            BY <2>4 DEF StageTyped
        <3>5. QED BY <2>2, <3>3, <3>4 DEF Typed
    <2>5. QED BY <2>1, <2>3, <2>4
<1>10. CASE RestoreShell
    <2>1. /\ UNCHANGED <<root, tree, receipt, stage>> /\ pc = "reshell"
          /\ shell' \in {shell, RestoredShell}
          /\ \/ Incomplete
             \/ /\ pc' = "prune" /\ todo' = Foreign
                /\ UNCHANGED <<active, plan, prior, expected, restored, outcome, recovery>>
        BY <1>10 DEF RestoreShell
    <2>2. RestoredShell \in Shells /\ Foreign \subseteq Assets
        BY <1>1, <1>3 DEF RestoredShell, DiskTyped, Shells, Foreign
    <2>3. DiskTyped'
        BY <1>1, <2>1, <2>2 DEF DiskTyped
    <2>4. QED BY <1>4, <1>5, <2>1, <2>2, <2>3 DEF Typed
<1>11. CASE PruneAsset
    <2> DEFINE a == First(todo)
    <2>1. /\ UNCHANGED <<root, receipt, shell, stage>> /\ pc = "prune"
          /\ \/ Incomplete /\ UNCHANGED tree
             \/ /\ tree' = [tree EXCEPT ![a] = Null] /\ pc' = "prune" /\ todo' = todo \ {a}
                /\ UNCHANGED <<active, plan, prior, expected, restored, outcome, recovery>>
        BY <1>11 DEF PruneAsset
    <2> HIDE DEF a
    <2>2. [tree EXCEPT ![a] = Null] \in Trees /\ todo \ {a} \subseteq Assets
        BY <1>1, TreeTyped DEF DiskTyped, Files, OperationTyped
    <2>3. DiskTyped'
        BY <1>1, <2>1, <2>2 DEF DiskTyped
    <2>4. QED BY <1>4, <1>5, <2>1, <2>2, <2>3 DEF Typed
<1>12. CASE RestoreRoot
    <2> DEFINE next == {a \in Assets : prior.tree[a] # Null}
    <2>1. /\ UNCHANGED <<tree, receipt, shell, stage>> /\ pc = "prune"
          /\ root' \in {root, Null, FreshInode}
          /\ \/ Incomplete
             \/ /\ pc' = "rewrite" /\ todo' = next
                /\ UNCHANGED <<active, plan, prior, expected, restored, outcome, recovery>>
        BY <1>12 DEF RestoreRoot
    <2>2. DiskTyped'
        BY <1>1, <2>1, FreshIsNew DEF DiskTyped
    <2>3. next \subseteq Assets
        OBVIOUS
    <2>4. QED BY <1>4, <1>5, <2>1, <2>2, <2>3 DEF Typed
<1>17. CASE CheckRewrite
    <2> DEFINE a == First(todo)
    <2>1. /\ UNCHANGED <<root, tree, receipt, shell, stage>> /\ pc = "rewrite" /\ todo # {}
          /\ \/ Incomplete
             \/ /\ UNCHANGED <<active, plan, prior, expected, restored, outcome, recovery>>
                /\ (pc' = "rewrite" /\ todo' = todo \ {a}) \/ (pc' = "overwrite" /\ todo' = todo)
        BY <1>17 DEF CheckRewrite, disk
    <2> HIDE DEF a
    <2>2. todo \subseteq Assets /\ todo \subseteq {b \in Assets : prior.tree[b] # Null}
        BY <1>1, <2>1 DEF OperationTyped
    <2>3. DiskTyped'
        BY <1>1, <2>1 DEF DiskTyped
    <2>4. QED BY <1>4, <1>5, <2>1, <2>2, <2>3 DEF Typed
<1>13. CASE RewriteAsset
    <2> DEFINE a == First(todo)
               file == NewFile(prior.tree[a].bytes)
    <2>1. /\ UNCHANGED <<root, receipt, shell, stage>> /\ pc = "overwrite" /\ todo # {}
          /\ tree' = [tree EXCEPT ![a] = file] /\ pc' = "rewrite" /\ todo' = todo \ {a}
          /\ UNCHANGED <<active, plan, prior, expected, restored, outcome, recovery>>
        BY <1>1, <1>13 DEF RewriteAsset, OperationTyped
    <2>2. todo \subseteq Assets /\ todo \subseteq {b \in Assets : prior.tree[b] # Null}
        BY <1>1, <2>1 DEF OperationTyped
    <2>3. a \in todo
        BY <2>1, <2>2, FirstIsIn
    <2>4. prior.tree[a] \in Files /\ prior.tree[a] # Null
        BY <1>3, <2>2, <2>3 DEF Trees
    <2>5. file \in Files
        BY <2>4, FileTyped, NewFileTyped
    <2> HIDE DEF a, file
    <2>6. [tree EXCEPT ![a] = file] \in Trees
        BY <1>1, <2>5, TreeTyped DEF DiskTyped
    <2>7. DiskTyped'
        BY <1>1, <2>1, <2>6 DEF DiskTyped
    <2>8. todo \ {a} \subseteq Assets /\ todo \ {a} \subseteq {b \in Assets : prior.tree[b] # Null}
        BY <2>2
    <2>9. QED BY <1>4, <1>5, <2>1, <2>7, <2>8 DEF Typed
<1>14. CASE RestoreReceipt
    <2> DEFINE new == [ino |-> FreshInode, doc |-> prior.receipt.doc]
    <2>1. /\ UNCHANGED <<root, tree, shell, stage>> /\ pc = "rewrite"
          /\ \/ Incomplete /\ UNCHANGED receipt
             \/ /\ receipt' \in {Null, receipt} \/ (prior.receipt # Null /\ receipt' = new)
                /\ pc' = "compare" /\ todo' = {}
                /\ UNCHANGED <<active, plan, prior, expected, restored, outcome, recovery>>
        BY <1>14 DEF RestoreReceipt
    <2>2. prior.receipt # Null => new \in Receipts
        BY <1>3, FreshIsNew DEF Receipts
    <2> HIDE DEF new
    <2>3. DiskTyped'
        BY <1>1, <2>1, <2>2 DEF DiskTyped, Receipts
    <2>4. QED BY <1>4, <1>5, <2>1, <2>3 DEF Typed
<1>15. CASE CompareRestored
    <2>1. /\ UNCHANGED <<root, tree, receipt, shell, stage, active>>
          /\ Incomplete \/ End("recovered", "complete")
        BY <1>15 DEF CompareRestored, Incomplete, disk
    <2>2. DiskTyped'
        BY <1>1, <2>1 DEF DiskTyped
    <2>3. ASSUME End("recovered", "complete") PROVE OperationTyped' /\ StageTyped'
        <3>1. OperationTyped'
            BY <1>1, <2>3, OperationEnd
        <3>2. StageTyped'
            BY <1>1, <2>1, <2>3 DEF StageTyped, End
        <3>3. QED BY <3>1, <3>2
    <2>4. QED BY <1>4, <2>1, <2>2, <2>3 DEF Typed
<1>16. QED
    BY <1>6, <1>7, <1>8, <1>9, <1>10, <1>11, <1>12, <1>13, <1>14, <1>15, <1>17 DEF Recover

\* Failed effects, a dead process, somebody else.
LEMMA OthersTyped ==
    ASSUME Typed, Fault \/ Crash \/ (\E a \in Assets : Drift(a)) \/ DriftElsewhere
    PROVE  Typed'
<1>1. CASE Fault
    <2>1. /\ UNCHANGED <<root, tree, receipt, shell, stage, ops>>
          /\ (pc \in Forward /\ Fail) \/ Incomplete
        BY <1>1 DEF Fault, disk
    <2>2. DiskTyped'
        BY <2>1 DEF Typed, DiskTyped
    <2>3. CASE pc \in Forward /\ Fail
        BY <2>1, <2>2, <2>3, FailTyped DEF Typed
    <2>4. CASE Incomplete
        BY <2>1, <2>2, <2>4, IncompleteTyped DEF Typed
    <2>5. QED BY <2>1, <2>3, <2>4
<1>2. CASE Crash
    <2>1. /\ UNCHANGED <<root, tree, receipt, shell, ops>> /\ End("none", recovery)
          /\ active' = Null /\ stage' = Null
        BY <1>2 DEF Crash
    <2>2. OperationTyped /\ recovery \in {"none", "complete", "incomplete"}
        BY DEF Typed, OperationTyped
    <2>3. OperationTyped'
        BY <2>1, <2>2, OperationEnd
    <2>4. StageTyped'
        BY <2>1 DEF StageTyped, End
    <2>5. QED BY <2>1, <2>3, <2>4 DEF Typed, DiskTyped
<1>3. ASSUME UNCHANGED <<stage, pc, memory, ops>> PROVE OperationTyped' /\ StageTyped'
    BY <1>3 DEF Typed, OperationTyped, StageTyped, memory
<1>4. ASSUME NEW a \in Assets, Drift(a) PROVE Typed'
    <2> DEFINE fresh == NewFile(Alien)
               edited == [ino |-> tree[a].ino, bytes |-> Alien]
    <2>1. /\ UNCHANGED <<root, receipt, shell, stage, pc, memory, ops>>
          /\ \/ tree' = [tree EXCEPT ![a] = fresh]
             \/ tree' = [tree EXCEPT ![a] = Null]
             \/ tree[a] # Null /\ tree' = [tree EXCEPT ![a] = edited]
        BY <1>4 DEF Drift
    <2>2. fresh \in Files /\ Null \in Files
        BY NewFileTyped DEF Files
    <2>3. tree[a] # Null => edited \in Files
        BY FileTyped DEF Typed, DiskTyped, Trees, Files
    <2> HIDE DEF fresh, edited
    <2>4. tree' \in Trees
        BY <2>1, <2>2, <2>3, TreeTyped DEF Typed, DiskTyped
    <2>5. QED BY <1>3, <2>1, <2>4 DEF Typed, DiskTyped
<1>5. CASE DriftElsewhere
    <2>1. /\ UNCHANGED <<root, tree, stage, pc, memory, ops>>
          /\ receipt' \in {receipt, Null}
          /\ shell' \in {shell, [shell EXCEPT !.other = ~@]}
        BY <1>5 DEF DriftElsewhere
    <2>2. [shell EXCEPT !.other = ~@] \in Shells
        BY DEF Typed, DiskTyped, Shells
    <2>3. DiskTyped'
        BY <2>1, <2>2 DEF Typed, DiskTyped, Receipts
    <2>4. QED BY <1>3, <2>1, <2>3 DEF Typed
<1>6. QED BY <1>1, <1>2, <1>4, <1>5

\* At the start nothing is planned or staged.
LEMMA TypedInit == ASSUME Init PROVE Typed
<1>1. StageTyped
    BY DEF Init, StageTyped
<1>2. OperationTyped
    BY DEF Init, OperationTyped, Forward, Recovering, Placing
<1>3. CASE root = Null /\ tree = Absent /\ receipt = Null /\ shell = Plain(FALSE)
    BY <1>1, <1>2, <1>3 DEF Typed, DiskTyped, Absent, Trees, Files, Receipts, Shells, Plain
<1>4. ASSUME NEW release \in Releases, NEW previous \in Releases \cup {Null},
             Installed(release, previous)
      PROVE  DiskTyped
    <2>1. tree \in Trees /\ receipt \in Receipts
        BY <1>4, InstalledReceipt DEF Receipts
    <2>2. root = 1 /\ shell = Plain(TRUE)
        BY <1>4 DEF Installed
    <2>3. QED BY <2>1, <2>2 DEF DiskTyped, Shells, Plain
<1>5. QED BY <1>1, <1>2, <1>3, <1>4 DEF Init, Typed

\* Every step keeps the types.
LEMMA TypedStep == ASSUME Typed, [Next]_vars PROVE Typed'
<1>1. CASE UNCHANGED vars
    <2>1. DiskTyped'
        BY <1>1 DEF Typed, DiskTyped, vars, disk
    <2>2. StageTyped'
        BY <1>1 DEF Typed, StageTyped, vars, disk, memory
    <2>3. OperationTyped'
        BY <1>1 DEF Typed, OperationTyped, vars, memory, budget
    <2>4. QED BY <2>1, <2>2, <2>3 DEF Typed
<1>2. CASE Operate
    BY <1>2, StartTyped, StagingTyped, PlacingTyped, VerifyTyped, RemovalTyped DEF Operate
<1>3. QED BY <1>1, <1>2, RecoveryTyped, OthersTyped DEF Next

\* What each step of an installation, update, rollback, uninstallation or recovery
\* takes for granted is there (companion/installation.ts:361, execute).
THEOREM TypesCorrect == Spec => []TypeOK
<1>1. Typed => TypeOK
    <2>1. Typed => Snapshot \in States
        BY SnapshotTyped DEF Typed
    <2>2. QED BY <2>1 DEF Typed, StageTyped, OperationTyped, TypeOK
<1>2. QED BY <1>1, TypedInit, TypedStep, PTL DEF Spec

-----------------------------------------------------------------------------

\* What is in the stage was moved there, is moved only once, and is all on the
\* list of what a recovery puts back; it is discarded for a verified result.
Staged ==
    /\ stage # Null => \A a \in Assets : stage[a] # Null => a \in active.moved
    /\ pc = "mkstage" => stage = Null
    /\ pc = "move" => \A a \in todo : stage[a] = Null
    /\ pc = "unstage" /\ stage # Null => \A a \in Assets : stage[a] # Null => a \in todo
    /\ pc = "discard" /\ drifts = 0 => Postcondition(Snapshot)

\* A step that takes nothing out of the stage but to its place in the tree.
KeepsStaged ==
    \A a \in Assets :
        (/\ crashes' = crashes
         /\ stage # Null /\ stage[a] # Null
         /\ stage' = Null \/ stage'[a] # stage[a])
            => \/ tree'[a] = stage[a]
               \/ pc = "discard" /\ (drifts = 0 => Postcondition(Snapshot))

\* A step that has nothing to do with the stage.
LEMMA StagedFrame ==
    ASSUME Staged, UNCHANGED <<stage, active>>,
           pc' \notin {"mkstage", "move", "unstage", "discard"}
    PROVE  Staged' /\ KeepsStaged
BY DEF Staged, KeepsStaged

\* Every step forward keeps what is staged.
LEMMA StagedForward ==
    ASSUME TreeCounted, Typed, Staged, Operate PROVE Staged' /\ KeepsStaged
<1> USE DEF Goto, Kept, Fail
<1>1. CASE \E kind \in Kinds, release \in Releases \cup {Null} : Inspect(kind, release)
    BY <1>1, StagedFrame DEF Inspect, disk
<1>2. CASE Execute
    <2>1. plan.kind \in Kinds
        BY <1>2, KnownFields DEF Execute, Typed, OperationTyped
    <2>2. FirstStep(plan.kind) \in {"mkdir", "open", "disable"}
        BY <2>1 DEF FirstStep, Kinds
    <2>3. UNCHANGED <<stage, active>> /\ pc' \in {"idle", "mkdir", "open", "disable"}
        BY <1>2, <2>2 DEF Execute, End, disk
    <2>4. QED BY <2>3, StagedFrame
<1>3. CASE OpenStage
    <2>1. stage = Null /\ UNCHANGED stage /\ pc' \in {"mkdir", "mkstage"}
        BY <1>3 DEF OpenStage, disk, Typed, StageTyped
    <2>2. QED BY <2>1 DEF Staged, KeepsStaged
<1>4. CASE MakeStage
    <2>1. /\ stage = Null /\ stage' = Absent /\ pc' = "move" /\ todo' \subseteq Assets
        BY <1>4 DEF MakeStage, Staged, Obsolete
    <2>2. QED BY <2>1 DEF Staged, KeepsStaged, Absent
<1>5. CASE MoveToStage
    <2> DEFINE b == First(todo)
               file == tree[b]
    <2>1. CASE pc' = "capture"
        <3>1. UNCHANGED <<stage, active>>
            BY <1>5, <2>1 DEF MoveToStage
        <3>2. QED BY <2>1, <3>1, StagedFrame
    <2>2. CASE pc' # "capture"
        <3>1. /\ pc = "move" /\ todo # {} /\ todo \subseteq Assets
              /\ stage \in Trees /\ stage # Null /\ active \in Stages
            BY <1>5 DEF MoveToStage, Typed, OperationTyped, StageTyped
        <3>2. /\ stage' = [stage EXCEPT ![b] = file] /\ pc' = "move" /\ todo' = todo \ {b}
              /\ active'.moved = active.moved \cup {b}
            BY <1>5, <2>2, <3>1 DEF MoveToStage, Stages
        <3>3. b \in todo
            BY <3>1, FirstIsIn
        <3> HIDE DEF b, file
        <3>4. \A a \in Assets : a # b => stage'[a] = stage[a]
            BY <3>1, <3>2 DEF Trees
        <3>5. stage[b] = Null
            BY <3>1, <3>3 DEF Staged
        <3>6. KeepsStaged
            <4>1. Typed'
                BY <1>5, StagingTyped
            <4>2. stage' # Null
                BY <3>2, <4>1 DEF Typed, StageTyped
            <4>3. QED BY <3>4, <3>5, <4>2 DEF KeepsStaged
        <3>7. Staged'
            BY <3>1, <3>2, <3>4 DEF Staged
        <3>8. QED BY <3>6, <3>7
    <2>3. QED BY <2>1, <2>2
<1>6. CASE CaptureStage
    <2>1. /\ UNCHANGED stage /\ pc' = "mkdir" /\ active'.moved = active.moved
        BY <1>6 DEF CaptureStage, disk, Typed, StageTyped, Stages
    <2>2. QED BY <2>1 DEF Staged, KeepsStaged
<1>7. CASE EnsureReleaseDirectories \/ CheckAsset \/ WriteAsset \/ Enable \/ WriteReceipt
    <2>1. /\ UNCHANGED <<stage, active>>
          /\ pc' \in {"write", "replace", "receipt", "verify", "capture"}
        BY <1>7 DEF EnsureReleaseDirectories, CheckAsset, WriteAsset, Enable, WriteReceipt, disk
    <2>2. QED BY <2>1, StagedFrame
<1>8. CASE Verify
    <2>1. CASE pc' # "discard"
        <3>1. UNCHANGED <<stage, active>> /\ pc' \in {"capture", "idle"}
            BY <1>8, <2>1 DEF Verify, End, disk
        <3>2. QED BY <3>1, StagedFrame
    <2>2. CASE pc' = "discard"
        <3>1. /\ UNCHANGED <<stage, active, plan, drifts>> /\ Postcondition(Snapshot)
              /\ UNCHANGED <<root, tree, receipt, shell>>
            BY <1>8, <2>2 DEF Verify, End, disk, budget
        <3>2. Postcondition(Snapshot)'
            BY <3>1 DEF Postcondition, Snapshot, ReceiptValid, MatchesReceipt
        <3>3. QED BY <2>2, <3>1, <3>2 DEF Staged, KeepsStaged
    <2>3. QED BY <2>1, <2>2
<1>9. CASE DiscardStaged
    <2> DEFINE b == First(todo)
    <2>1. /\ pc = "discard" /\ pc' = "discard" /\ UNCHANGED <<active, plan, drifts>>
          /\ UNCHANGED <<root, tree, receipt, shell>>
          /\ stage' = [stage EXCEPT ![b] = Null]
        BY <1>9 DEF DiscardStaged, budget
    <2>2. stage \in Trees /\ stage # Null
        BY <2>1 DEF Typed, StageTyped
    <2> HIDE DEF b
    <2>3. \A a \in Assets : stage'[a] \in {stage[a], Null}
        BY <2>1, <2>2 DEF Trees
    <2>4. Postcondition(Snapshot)' = Postcondition(Snapshot)
        BY <2>1 DEF Postcondition, Snapshot, ReceiptValid, MatchesReceipt
    <2>5. Staged'
        BY <2>1, <2>2, <2>3, <2>4 DEF Staged
    <2>6. KeepsStaged
        BY <2>1 DEF Staged, KeepsStaged
    <2>7. QED BY <2>5, <2>6
<1>10. CASE DiscardStage
    <2>1. pc = "discard" /\ pc' = "idle" /\ stage' = Null
        BY <1>10 DEF DiscardStage, End
    <2>2. QED BY <2>1 DEF Staged, KeepsStaged
<1>11. CASE Disable \/ CheckDisabled \/ RemoveAsset \/ RemoveRoot \/ RemoveReceipt
    <2>1. /\ UNCHANGED <<stage, active>>
          /\ pc' \in {"disabled", "remove", "forget", "verify", "capture"}
        BY <1>11 DEF Disable, CheckDisabled, RemoveAsset, RemoveRoot, RemoveReceipt, disk
    <2>2. QED BY <2>1, StagedFrame
<1>12. QED
    BY <1>1, <1>2, <1>3, <1>4, <1>5, <1>6, <1>7, <1>8, <1>9, <1>10, <1>11 DEF Operate

\* A recovery puts back what it takes out of the stage.
LEMMA StagedRecovery ==
    ASSUME TreeCounted, Typed, Staged, Recover PROVE Staged' /\ KeepsStaged
<1> USE DEF Goto, Kept
<1>1. CASE Recheck
    <2>1. UNCHANGED <<stage, active>>
        BY <1>1 DEF Recheck, Incomplete, disk
    <2>2. CASE pc' # "unstage"
        BY <1>1, <2>1, <2>2, StagedFrame DEF Recheck, Incomplete, End
    <2>3. CASE pc' = "unstage"
        <3>1. todo' = active.moved
            BY <1>1, <2>3 DEF Recheck, MovedPaths, Incomplete, End
        <3>2. QED BY <2>1, <2>3, <3>1 DEF Staged, KeepsStaged
    <2>4. QED BY <2>2, <2>3
<1>2. CASE UnstageAsset
    <2> DEFINE b == First(todo)
               file == stage[b]
    <2>1. CASE pc' # "unstage"
        <3>1. UNCHANGED <<stage, active>> /\ pc' = "idle"
            BY <1>2, <2>1 DEF UnstageAsset, Incomplete, End
        <3>2. QED BY <3>1, StagedFrame
    <2>2. CASE pc' = "unstage"
        <3>1. /\ pc = "unstage" /\ UNCHANGED active /\ todo' = todo \ {b}
              /\ tree' = [tree EXCEPT ![b] = file] /\ stage' = [stage EXCEPT ![b] = Null]
              /\ stage \in Trees /\ stage # Null
            BY <1>2, <2>2 DEF UnstageAsset, Incomplete, End, Typed, StageTyped
        <3>2. \A a \in Assets : a # b => stage'[a] = stage[a]
            BY <3>1 DEF Trees
        <3> HIDE DEF b
        <3>3. b \in Assets => stage'[b] = Null /\ tree'[b] = stage[b]
            BY <3>1 DEF Trees, TreeCounted
        <3> HIDE DEF file
        <3>4. KeepsStaged
            <4>1. stage' \in Trees
                BY <3>1 DEF Trees, Files
            <4>2. QED BY <3>2, <3>3, <4>1, NullAssumption DEF KeepsStaged
        <3>5. Staged'
            BY <2>2, <3>1, <3>2, <3>3 DEF Staged
        <3>6. QED BY <3>4, <3>5
    <2>3. QED BY <2>1, <2>2
<1>3. CASE RemoveStage
    <2>1. CASE stage = Null
        <3>1. UNCHANGED <<stage, active>> /\ pc' = "idle"
            BY <1>3, <2>1 DEF RemoveStage, Incomplete, End
        <3>2. QED BY <3>1, StagedFrame
    <2>2. CASE stage # Null
        <3>1. pc = "unstage" /\ todo = {} /\ stage' = Null /\ pc' = "reshell"
            BY <1>3, <2>2 DEF RemoveStage
        <3>2. \A a \in Assets : stage[a] = Null
            BY <2>2, <3>1 DEF Staged
        <3>3. QED BY <3>1, <3>2 DEF Staged, KeepsStaged
    <2>3. QED BY <2>1, <2>2
<1>4. CASE CaptureExpected \/ RestoreShell \/ PruneAsset \/ RestoreRoot
    <2>1. /\ UNCHANGED <<stage, active>>
          /\ pc' \in {"recheck", "prune", "rewrite", "idle"}
        BY <1>4 DEF CaptureExpected, RestoreShell, PruneAsset, RestoreRoot, Incomplete, End, disk
    <2>2. QED BY <2>1, StagedFrame
<1>5. CASE CheckRewrite \/ RewriteAsset \/ RestoreReceipt \/ CompareRestored
    <2>1. /\ UNCHANGED <<stage, active>>
          /\ pc' \in {"rewrite", "overwrite", "compare", "idle"}
        BY <1>5 DEF CheckRewrite, RewriteAsset, RestoreReceipt, CompareRestored, Incomplete, End, disk
    <2>2. QED BY <2>1, StagedFrame
<1>6. QED BY <1>1, <1>2, <1>3, <1>4, <1>5 DEF Recover

\* The only copy of a file that an update took out of the tree goes back to its
\* place or is given up for a verified result, whatever fails on the way, while
\* the process lives (companion/installation.ts:1417, restoreStagedEntries).
THEOREM StagedCorrect == Spec => StagedKept
<1> DEFINE Inv == TreeCounted /\ CrashesCounted /\ Typed /\ Staged
<1>1. Init => Inv
    <2>1. Init => Staged /\ CrashesCounted
        BY DEF Init, CrashesCounted, Staged
    <2>2. QED BY <2>1, TreeCountedInit, TypedInit
<1>2. Inv /\ [Next]_vars => Staged' /\ KeepsStaged
    <2> SUFFICES ASSUME Inv, [Next]_vars PROVE Staged' /\ KeepsStaged
        OBVIOUS
    <2>1. CASE Operate BY <2>1, StagedForward
    <2>2. CASE Recover BY <2>2, StagedRecovery
    <2>3. CASE Fault
        BY <2>3, StagedFrame DEF Fault, Fail, Goto, Incomplete, End, disk
    <2>4. CASE Crash
        BY <2>4 DEF Crash, End, CrashesCounted, Staged, KeepsStaged
    <2>5. CASE (\E a \in Assets : Drift(a)) \/ DriftElsewhere
        <3>1. /\ UNCHANGED <<stage, pc, todo, active>> /\ drifts' # 0
            BY <2>5 DEF Drift, DriftElsewhere, memory, TreeCounted
        <3>2. QED BY <3>1 DEF Staged, KeepsStaged
    <2>6. CASE UNCHANGED vars
        <3>1. /\ UNCHANGED <<stage, pc, todo, active, drifts, plan>>
              /\ UNCHANGED <<root, tree, receipt, shell>>
            BY <2>6 DEF vars, disk, memory, budget
        <3>2. Postcondition(Snapshot)' = Postcondition(Snapshot)
            BY <3>1 DEF Postcondition, Snapshot, ReceiptValid, MatchesReceipt
        <3>3. QED BY <3>1, <3>2 DEF Staged, KeepsStaged
    <2>7. QED BY <2>1, <2>2, <2>3, <2>4, <2>5, <2>6 DEF Next
<1>3. Inv /\ [Next]_vars => Inv'
    BY <1>2, EveryStepCounts, EveryStepCountsCrashes, TypedStep
<1>4. (Spec => [][KeepsStaged]_vars) => (Spec => StagedKept)
    BY DEF StagedKept, KeepsStaged
<1>5. Inv /\ [Next]_vars => [KeepsStaged]_vars
    BY <1>2
<1> HIDE DEF Inv
<1>6. Spec => [][KeepsStaged]_vars
    BY <1>1, <1>3, <1>5, PTL DEF Spec
<1>7. QED BY <1>4, <1>6
=============================================================================
