SPECIFICATION Spec
CONSTANTS
    Hosts = {h1, h2}
    Keyless = {h2}
    Blank = {h2}
    Known = {k1}
    MaxPipe = 2
INVARIANTS
    ActsOnItsOwn
