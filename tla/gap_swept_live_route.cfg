CONSTANTS
    Workspaces = {"w1", "w2"}
    Endpoints <- OnlySsh
    Ports = {1, 2}
    Resizable = {}
    NoWorkspace = "none"
SPECIFICATION Spec
PROPERTIES PortSticky
