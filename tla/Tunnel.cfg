SPECIFICATION FairSpec
CONSTANTS
    Procs = {p1, p2}
    Certs = {ca}
    Public = {ca}
    NoCert = NoCert
    Confs <- ErasingConfs
    Serial = FALSE
INVARIANTS
    TypeOK
    ReadyIsLive
    SecretsGone
PROPERTIES
    CommandsEnd
    StartsEnd
    SecretsExpire
