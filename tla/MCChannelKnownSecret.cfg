\* As MCChannelWithdraw.cfg, with the sender of a lock the receiver disposed
\* of free to learn its secret on the route it tried next: can a removal
\* of a lock meet a receiver that has learned its secret?
CONSTANTS
    a = a
    b = b
    l1 = l1
    l2 = l2
    NoLock = NoLock
    NoNode = NoNode
    Closers <- MCClosers
    Reroutes = TRUE
    Nodes <- MCNodes
    Deposit <- MCDeposit
    LockIds <- MCOneLock
    MaxDirect = 1
    LockLife = 1
    SettleTimeout = 3
    ForkConfirmNumber = 1
    MaxBlock = 5
    WithdrawAmount = 1
    MaxAttempts = 1
SPECIFICATION Spec
INVARIANT NoWedgedChannel
CHECK_DEADLOCK FALSE
