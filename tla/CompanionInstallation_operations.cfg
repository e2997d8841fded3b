\* Two operations with one fault, one foreign edit and one death of the process.
CONSTANTS
    v1 = v1
    v2 = v2
    manifest1 = manifest1
    manifest2 = manifest2
    panel1 = panel1
    panel2 = panel2
    Alien = Alien
    Null = Null
    Assets = {1, 2, 3}
    Releases = {v1, v2}
    Content <- MCContent
    Bytes = {manifest1, manifest2, panel1, panel2}
    MaxOps = 2
    MaxFaults = 2
    MaxDrifts = 1
    MaxCrashes = 1
SPECIFICATION Spec
INVARIANTS TypeOK AcceptedIsOneRelease SettledIsUsable PreimageIsOriginal
PROPERTIES StagedKept
CHECK_DEADLOCK FALSE
