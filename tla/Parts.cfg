CONSTANTS
    Caller = {"app", "loop"}
    LogId = {0, 1, 2}
    MAX_LOGS = 2
    MAX_LOG_ENTRIES = 2
    MaxText = 3
    Worker = {"server", "tick", "rale", "comm"}
    Polls <- MCPolls
    Signallers <- MCSignallers
    MaxRequest = 2
    Instance = {"a", "b"}
    Conf <- MCConf
    Numeral <- MCNumeral
    StalePids = {{}, {5001}}
    MaxEdit = 2
    MaxKill = 1
SPECIFICATION Spec
INVARIANTS
    TextsAreOwned
    LogsAreSeparate
    GetFindsLastPut
    CompletionIsTrue
    FileTakesEffect
    PidFilesInStep

    
CHECK_DEADLOCK FALSE
