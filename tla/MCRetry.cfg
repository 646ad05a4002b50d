SPECIFICATION FairSpec
CONSTANTS
    Procs = {p, q}
    DexRuns = {dex1, dex2}
    Mixer = Mixer
    Sealed = Sealed
    Runs = {dex1, dex2}
    Types = {"dex_swap"}
    TypeOf <- MCTypeOf
    PackageTypes = {}
    Restricted = {}
    Replays = {"good", "broken"}
    Outcome <- MCOutcome
    MaxFaults = 2
    None = None
PROPERTY
    RetrySavesRows
