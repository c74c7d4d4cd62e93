\* The user may cancel a route; the transfer fails only when none is left.
CONSTANTS
    c = c
    d = d
    t = t
    NoHop = NoHop
    Hops <- MCHops
    Target = t
    RouteList <- MCRouteList
    Usable <- MCHops
    SettleTimeout <- MCSettleTimeout
    RevealTimeout = 3
    ForkConfirmNumber = 1
    UserExp = 0
    InitBlock = 1
    MaxBlock = 7
    Closers <- MCHops
    UserCancels = FALSE
    UserCancelsRoute = TRUE
    CoopEvents = TRUE
SPECIFICATION Spec
INVARIANT FailedIsFinal
PROPERTY InitiatorRemoved
