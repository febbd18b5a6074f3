SPECIFICATION Spec
CONSTANTS
    p1 = p1
    p2 = p2
    s1 = s1
    s2 = s2
    e1 = e1
    e2 = e2
    r0 = r0
    r1 = r1
    Src = Src
    Versioned = TRUE
    NoLink = NoLink
    Torn = Torn
    NoFile = NoFile
    Launchers = {p1}
    Sources = {s1, s2}
    Engines = {e1}
    Registries = {r1}
    EmptyRegistry = r0
    Outcomes <- BySource
    Crashes = FALSE
    Faults = FALSE
    QuietChanges = FALSE
    MaxChanges = 1
    MaxRuns = 2
SYMMETRY Symmetric
CHECK_DEADLOCK FALSE
INVARIANTS
    PartialNeverUnpatched
