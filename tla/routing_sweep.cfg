CONSTANTS
    Workspaces = {w1, w2}
    Endpoints <- OnlySsh
    Ports = {1, 2}
    Resizable = {1}
    NoWorkspace = none
SYMMETRY Symmetric
SPECIFICATION Spec
INVARIANTS TypeOK PortExclusive AdvertisedIsOwn
PROPERTIES ImplementsPool PortKept
