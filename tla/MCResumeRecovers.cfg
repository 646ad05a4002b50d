SPECIFICATION FairSpec
CONSTANTS
    Procs = {p}
    DexRuns = {dex1}
    Mixer = Mixer
    Sealed = Sealed
    Runs = {dex1}
    Types = {"dex_swap"}
    TypeOf <- MCTypeOf
    PackageTypes = {}
    Restricted = {}
    Replays = {"good"}
    Outcome <- MCOutcome
    MaxFaults = 1
    None = None
PROPERTY
    ResumeRecovers
