SPECIFICATION AutoFairSpec
CONSTANTS
    Procs = {p1, p2}
    Certs = {c1, ca}
    Public = {ca}
    NoCert = NoCert
    Confs <- LearningConfs
    Serial = TRUE
    Uses <- SourcesOfCodes
    Fetchers = {f1}
    MaxWaits = 2
    Deserters = {"none"}
    SlowPrompts = TRUE
INVARIANTS
    ImapCodeFresh
    PinnedWasUp
PROPERTIES
    OncePerWait
    LastingWaitFetched
    ImplementsTofu
