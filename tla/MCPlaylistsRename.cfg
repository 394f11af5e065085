SPECIFICATION Spec
CONSTANTS
    Users = {"user"}
    Names <- MCNames
    Threads = {1}
    MaxIds = 2
    Configurations <- MCOneRename
PROPERTIES PassDeletesVanished
CHECK_DEADLOCK FALSE
