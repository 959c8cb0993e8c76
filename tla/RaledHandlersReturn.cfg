\* Can one signal hang the process?
CONSTANT MaxSignals = 1
SPECIFICATION Spec
INVARIANT HandlersReturn
CHECK_DEADLOCK FALSE
