CONSTANTS
    Workspaces = {"w1"}
    Endpoints <- WebSshDb
    Ports = {1, 2}
    Resizable = {1, 2}
    NoWorkspace = "none"
SPECIFICATION FairSpec
PROPERTIES OrphansReclaimed EventuallyRouted
