\* Two nodes, one lock hash, deposits 2 and 1; one withdraw or cooperative
\* settle prepared, racing the transfers, and a's user closing the channel
\* at any point.
CONSTANTS
    a = a
    b = b
    l1 = l1
    l2 = l2
    NoLock = NoLock
    NoNode = NoNode
    Closers <- MCClosers
    Reroutes = FALSE
    Nodes <- MCNodes
    Deposit <- MCDeposit
    LockIds <- MCOneLock
    MaxDirect = 1
    LockLife = 1
    SettleTimeout = 3
    ForkConfirmNumber = 1
    MaxBlock = 5
    WithdrawAmount = 1
    MaxAttempts = 1
SPECIFICATION Spec
INVARIANT WedgedOnlyByKnownSecret
PROPERTY ImplementsLedger
CHECK_DEADLOCK FALSE
