SPECIFICATION Spec
CONSTANTS
    Processes = {root, p1, p2}
    Root = root
    Platforms = {"posix"}
    p1 = p1
    p2 = p2
INVARIANTS
    TreeTerminated
CHECK_DEADLOCK FALSE
