SPECIFICATION Spec
CONSTANTS
    Sources = {console, preview}
    PluginIds = {agents, cards}
    NoPlugin = NoPlugin
    Spellings = {plain, spaced}
    Registrations = 2
    QueuedCalls = 2
    OperationRecords = 1
    Tombstones = 1
    MaxOperations = 2
    MaxGeneration = 3
    MaxDrains = 2
    MaxChanges = 1
SYMMETRY Symmetry
INVARIANTS TypeOK ClaimsHeld LoaderMatchesState DeliveredToItsSummon
CHECK_DEADLOCK FALSE
