SPECIFICATION Spec
CONSTANTS
    w1 = w1
    w2 = w2
    Workers = {w1, w2}
    MaxEntries = 4
    MaxEngines = 2
    MaxFaults = 1
    MaxLeaves = 9
SYMMETRY Symmetric
INVARIANTS SequentialIsValid ValidIsComplete RootCoversPrefix AnchorIsReal LeavesProvable
CHECK_DEADLOCK FALSE
