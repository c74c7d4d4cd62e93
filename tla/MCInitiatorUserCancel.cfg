\* The user may cancel the transfer; no route is canceled by the user.
CONSTANTS
    c = c
    d = d
    t = t
    NoHop = NoHop
    Hops <- MCHops
    Target = t
    RouteList <- MCRouteList
    Usable <- MCHops
    SettleTimeout <- MCSettleTimeout
    RevealTimeout = 3
    ForkConfirmNumber = 1
    UserExp = 0
    InitBlock = 1
    MaxBlock = 7
    Closers <- MCHops
    UserCancels = TRUE
    UserCancelsRoute = FALSE
    CoopEvents = TRUE
SPECIFICATION Spec
INVARIANT NoDoublePayment
