\* Three signals of any kind, on any thread, at any point, with and without -d.
CONSTANT MaxSignals = 3
SPECIFICATION FairSpec
INVARIANTS
    RequestsNotLost
    FinitAfterLoop
PROPERTIES
    StopTakesEffect
\* The process may have exited, or be hung.
CHECK_DEADLOCK FALSE
