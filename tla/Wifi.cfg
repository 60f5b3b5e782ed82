SPECIFICATION FairSpec
CONSTANTS
    Hosts = {h1, h2, h3}
    Keyless = {h2, h3}
    Blank = {h3}
    Known = {k1}
    MaxPipe = 1
    Pids = {p1}
INVARIANTS
    ScanTypeOK
    SuccessSaves
PROPERTIES
    KeepsHosts
    OpensAnyway
    ScanEnds
