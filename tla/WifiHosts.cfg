SPECIFICATION FairSetup
CONSTANTS
    Hosts = {h1, h2, h3}
    Keyless = {h3}
    Blank = {h3}
    Known = {k1}
    MaxPipe = 2
INVARIANTS
    BackAsStation
    SuccessSaves
PROPERTIES
    KeepsHosts
    SetupEnds
