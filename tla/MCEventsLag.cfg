CONSTANTS
    e1 = e1
    e2 = e2
    e3 = e3
    NoLog = NoLog
    ChainLogs <- MCChainLogs
    NeedConfirm <- MCNeedConfirm
    ForkConfirmNumber = 1
    StartBlock = 2
    MaxHeight = 7
    KeepUp = FALSE
    MaxReconnects = 1
    MaxRestarts = 1
SPECIFICATION Spec
INVARIANT NoLostEvent
