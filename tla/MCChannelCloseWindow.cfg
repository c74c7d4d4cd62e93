\* The closing configuration, checking that the proof on chain after the close
\* is the latest one the nodes accepted: expected to be violated.
CONSTANTS
    a = a
    b = b
    l1 = l1
    l2 = l2
    NoLock = NoLock
    NoNode = NoNode
    Closers <- MCClosers
    Reroutes = FALSE
    Nodes <- MCNodes
    Deposit <- MCDeposit
    LockIds <- MCOneLock
    MaxDirect = 1
    LockLife = 1
    SettleTimeout = 3
    ForkConfirmNumber = 1
    MaxBlock = 5
    WithdrawAmount = 1
    MaxAttempts = 1
SPECIFICATION Spec
INVARIANT OnChainProofIsLatest
CHECK_DEADLOCK FALSE
