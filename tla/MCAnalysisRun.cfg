SPECIFICATION Spec
CONSTANTS
    Procs = {p, q}
    DexRuns = {dex1, dex2}
    Mixer = Mixer
    Sealed = Sealed
    Runs = {dex1, dex2, Mixer, Sealed}
    Types = {"dex_swap", "mixer_flow"}
    TypeOf <- MCTypeOf
    PackageTypes = {"mixer_flow"}
    Restricted = {Sealed}
    Replays = {"good", "unbound", "broken"}
    Outcome <- MCOutcome
    MaxFaults = 1
    None = None
SYMMETRY MCSymmetry
INVARIANTS
    ExportsAgree
    ResultProvenance
    StatusBacked
PROPERTIES
    ShownResultIsStable
