\* Two volumes that share the transport, two hosts, and a second ANA state.
SPECIFICATION Spec
CONSTANTS
    Volumes = {v1, v2}
    Hosts = {h1, h2}
    AnaStates = {optimized, inaccessible}
    Optimized = optimized
    Requests <- OneOfEachKind
    None = None
SYMMETRY Symmetric
INVARIANTS
    CompleteService
    StartServes
    StopGetsThrough
    FreshStartSucceeds
PROPERTIES
    ImplementsExposure
