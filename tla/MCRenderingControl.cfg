CONSTANTS
    Sids = {c1}
    Services = {"RenderingControl"}
    ServiceOf <- RenderingPaths
    Bodies <- VolumeEvents
    Period = 1
    MaxSeq = 3
    MaxLate = 1
    Requests = {r1, r2}
    Nobody = Nobody
    Desired <- DesiredVolumes
    Levels = {20}
    Failures = {"lost", "late"}
    MaxCommands = 4
SPECIFICATION RCSpec
SYMMETRY Symmetry
INVARIANTS
    RCTypeOK
    VolumeAgrees
    EventsConverge
