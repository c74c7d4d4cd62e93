------------------------------ MODULE Initiator ------------------------------
(***************************************************************************)
(* The initiator state machine of one mediated transfer,                   *)
(* src/transfer/mediatedtransfer/initiator/transition.go, with the world   *)
(* it talks to: the first hop of each route, the target, the user of the  *)
(* API, the channels of its routes and the secret registry on chain.       *)
(*                                                                         *)
(* The payment beyond the first hop is abstracted: the target receives the *)
(* transfer once a first hop holds our pending lock, it asks for the       *)
(* secret, and once it knows the secret, the current first hop learns it   *)
(* (the mediators reveal it backwards) and anyone who knows it may         *)
(* register it on chain.  Amounts are one unit per lock.                   *)
(***************************************************************************)
EXTENDS Integers, Sequences, FiniteSets, FiniteSetsExt

CONSTANTS
    Hops,              \* our channel partners, the first hops of the routes
    Target,            \* the target of the transfer (may be a first hop)
    RouteList,         \* state.Routes.AvailableRoutes, best first
    Usable,            \* routes that CanTransfer with enough balance
    SettleTimeout,     \* [Hops -> Nat], route.SettleTimeout()
    RevealTimeout,     \* params.DefaultRevealTimeout
    ForkConfirmNumber, \* params.ForkConfirmNumber
    UserExp,           \* the Expiration the user's transfer carries, 0 if none
    InitBlock,         \* block of ActionInitInitiator
    MaxBlock,          \* last block explored
    Closers,           \* hops whose channel may be closed
    UserCancels,       \* the user may send ActionCancelTransfer
    UserCancelsRoute,  \* the user may send ActionCancelRoute
    CoopEvents,        \* cooperative settle / withdraw may reset a route
    NoHop              \* model value: no current route

VARIABLES
    block,            \* state.BlockNumber (and the chain height)
    phase,            \* "idle" | "active" | "removed" | "crashed"
    routes,           \* state.Routes.AvailableRoutes
    route,            \* state.Route, NoHop when nil
    exp,              \* state.Transfer.Expiration
    realSecret,       \* state.Transfer.Secret is the secret (not EmptyHash)
    revealed,         \* state.RevealSecret # nil
    cancelByExc,      \* state.CancelByExceptionSecretRequest
    sentFailed,       \* an EventTransferSentFailed was emitted
    outSt,            \* the lock we hold towards each hop in its channel
    outExp,           \*   and its expiration
    chan,             \* route.State() of the channel with each hop
    targetKnows,      \* the target learned the secret
    onchain,          \* block at which the secret was registered, 0 if not
    onchainSeen       \* ContractSecretRevealOnChain delivered

vars == <<block, phase, routes, route, exp, realSecret, revealed, cancelByExc,
          sentFailed, outSt, outExp, chan, targetKnows, onchain, onchainSeen>>

OutStates == {"none", "pending", "paid", "disposed", "removed", "reset"}
Blocks    == 0..MaxBlock

-----------------------------------------------------------------------------
\* tryNewRoute: pop routes until one can carry the amount; the lock expires
\* SettleTimeout - RevealTimeout blocks from now, capped by the expiration
\* of the transfer it replaces (state.Transfer is overwritten each time)
NewLockExpiration(r) ==
    LET e == block + SettleTimeout[r] - RevealTimeout
    IN  IF e > exp /\ exp # 0 THEN exp ELSE e

tryNewRoute(rs, locks) ==
    LET usable == {k \in 1..Len(rs) : rs[k] \in Usable}
        i      == IF usable = {} THEN 0 ELSE Min(usable)
        r      == rs[i]
    IN  IF i = 0
        THEN /\ routes' = <<>>
             /\ route' = NoHop
             /\ phase' = "removed"
             /\ sentFailed' = TRUE
             /\ outSt' = locks
             /\ UNCHANGED <<exp, realSecret, outExp>>
        ELSE /\ routes' = SubSeq(rs, i + 1, Len(rs))
             /\ route' = r
             /\ exp' = NewLockExpiration(r)
             /\ realSecret' = TRUE
             /\ outSt' = [locks EXCEPT ![r] = "pending"]
             /\ outExp' = [outExp EXCEPT ![r] = NewLockExpiration(r)]
             /\ phase' = "active"
             /\ UNCHANGED sentFailed

\* mutant: the abandoned lock is not taken out of the channel
cancelCurrentRouteKeepsLock(lockAfter) == tryNewRoute(routes, outSt)

\* cancelCurrentRoute (never reached with a RevealSecret in flight: every
\* caller checks it first or panics); lockAfter is what remains of our
\* lock on the canceled route
cancelCurrentRoute(lockAfter) ==
    tryNewRoute(routes, [outSt EXCEPT ![route] = lockAfter])

\* the payer side of transferSuccessEvents: EventSendBalanceProof to the
\* route's hop, an unlock the channel only creates while it is open
PayRoute ==
    outSt' = [outSt EXCEPT ![route] = IF @ = "pending" /\ chan[route] = "Opened"
                                      THEN "paid" ELSE @]

\* expiredHashLockEvents: UnlockFailed and TransferSentFailed, unless the
\* lock of the route was removed already
ExpiredLockFailed ==
    sentFailed' = (sentFailed \/ (route # NoHop /\ outSt[route] # "removed"))

Running == phase = "active"

-----------------------------------------------------------------------------
Init ==
    /\ block = InitBlock
    /\ phase = "idle"
    /\ routes = RouteList
    /\ route = NoHop
    /\ exp = UserExp
    /\ realSecret = TRUE
    /\ revealed = FALSE
    /\ cancelByExc = FALSE
    /\ sentFailed = FALSE
    /\ outSt = [h \in Hops |-> "none"]
    /\ outExp = [h \in Hops |-> 0]
    /\ chan = [h \in Hops |-> "Opened"]
    /\ targetKnows = FALSE
    /\ onchain = 0
    /\ onchainSeen = FALSE

\* ActionInitInitiatorStateChange
ActionInitInitiator ==
    /\ phase = "idle"
    /\ tryNewRoute(RouteList, outSt)
    /\ UNCHANGED <<block, revealed, cancelByExc, chan, targetKnows, onchain,
                   onchainSeen>>

\* mutant: the expiry ignores the fork confirmation margin
handleBlockNoConfirm(b) ==
    IF b >= exp
    THEN /\ ExpiredLockFailed
         /\ phase' = "removed"
    ELSE UNCHANGED <<sentFailed, phase>>

\* mutant: the expired transfer's state manager is not removed
handleBlockNoRemove(b) ==
    IF b - ForkConfirmNumber > exp
    THEN /\ ExpiredLockFailed
         /\ UNCHANGED phase
    ELSE UNCHANGED <<sentFailed, phase>>

\* handleBlock: once the lock is ForkConfirmNumber blocks past its
\* expiration the transfer failed and the state manager is removed
handleBlock(b) ==
    IF b - ForkConfirmNumber > exp
    THEN /\ ExpiredLockFailed
         /\ phase' = "removed"
    ELSE UNCHANGED <<sentFailed, phase>>

\* the confirmed SecretRevealed is handed over before the next block
RevealOnChainDue == onchain # 0 /\ ~onchainSeen /\ block >= onchain + ForkConfirmNumber

NewBlock ==
    /\ phase \in {"active", "removed"}
    /\ block < MaxBlock
    /\ ~RevealOnChainDue
    /\ block' = block + 1
    /\ IF Running THEN handleBlock(block + 1) ELSE UNCHANGED <<sentFailed, phase>>
    /\ UNCHANGED <<routes, route, exp, realSecret, revealed, cancelByExc, outSt,
                   outExp, chan, targetKnows, onchain, onchainSeen>>

\* handleSecretRequest, only while no RevealSecret is in flight: a valid
\* request from the target in time gets the secret of state.Transfer, any
\* other request blocks the transfer for good
handleSecretRequest(valid) ==
    /\ Running
    /\ ~revealed
    /\ valid => route # NoHop /\ outSt[route] = "pending"
    /\ IF valid /\ ~cancelByExc /\ block < exp
       THEN /\ revealed' = TRUE
            /\ targetKnows' = (targetKnows \/ realSecret)
            /\ UNCHANGED cancelByExc
       ELSE /\ cancelByExc' = TRUE
            /\ UNCHANGED <<revealed, targetKnows>>
    /\ UNCHANGED <<block, phase, routes, route, exp, realSecret, sentFailed,
                   outSt, outExp, chan, onchain, onchainSeen>>

\* handleSecretReveal: the route's hop reveals the secret (it learned it
\* from the target or from the chain); in time, the transfer succeeded
handleSecretReveal ==
    /\ Running
    /\ route # NoHop
    /\ targetKnows \/ onchain # 0
    /\ realSecret
    /\ block < exp
    /\ PayRoute
    /\ phase' = "removed"
    /\ UNCHANGED <<block, routes, route, exp, realSecret, revealed, cancelByExc,
                   sentFailed, outExp, chan, targetKnows, onchain, onchainSeen>>

\* mutant: a registration at the lock's last block counts as too late
RegisteredTooLateOffByOne(r) == exp <= r

\* a secret registered after our lock expired pays nothing for it
RegisteredTooLate(r) == exp < r

\* handleSecretRevealOnChain: registered after the lock expired, the
\* transfer failed; otherwise it succeeded; the state manager goes either way
ContractSecretRevealOnChain ==
    /\ RevealOnChainDue
    /\ phase \in {"active", "removed"}
    /\ onchainSeen' = TRUE
    /\ IF Running
       THEN /\ phase' = "removed"
            /\ IF RegisteredTooLate(onchain)
               THEN /\ ExpiredLockFailed
                    /\ UNCHANGED outSt
               ELSE /\ PayRoute
                    /\ UNCHANGED sentFailed
       ELSE UNCHANGED <<phase, sentFailed, outSt>>
    /\ UNCHANGED <<block, routes, route, exp, realSecret, revealed, cancelByExc,
                   outExp, chan, targetKnows, onchain>>

\* handleRefund: an AnnounceDisposed from the route's hop, unless it is the
\* target, for our current lock (IsValidRefund); we answer with AnnounceDisposedResponse, which
\* takes the lock out of the channel, and try the next route
handleRefund ==
    /\ Running
    /\ ~revealed
    /\ route \notin {NoHop, Target}
    /\ outSt[route] = "pending"
    /\ cancelCurrentRoute("disposed")
    /\ UNCHANGED <<block, revealed, cancelByExc, chan, targetKnows, onchain,
                   onchainSeen>>

\* ActionCancelRouteStateChange from the user: the lock stays in the old
\* channel; with a RevealSecret in flight StateTransition panics
ActionCancelRoute ==
    /\ UserCancelsRoute
    /\ Running
    /\ route # NoHop
    /\ IF revealed
       THEN /\ phase' = "crashed"
            /\ UNCHANGED <<routes, route, exp, realSecret, sentFailed, outSt, outExp>>
       ELSE cancelCurrentRoute(outSt[route])
    /\ UNCHANGED <<block, revealed, cancelByExc, chan, targetKnows, onchain,
                   onchainSeen>>

\* ActionCancelTransferStateChange from the user (userCancelTransfer): the
\* secret of state.Transfer is cleared and TransferSentFailed emitted; the
\* state stays to remove the lock after it expires
ActionCancelTransfer ==
    /\ UserCancels
    /\ Running
    /\ IF revealed
       THEN /\ phase' = "crashed"
            /\ UNCHANGED <<realSecret, sentFailed>>
       ELSE /\ realSecret' = FALSE
            /\ sentFailed' = TRUE
            /\ UNCHANGED phase
    /\ UNCHANGED <<block, routes, route, exp, revealed, cancelByExc, outSt, outExp,
                   chan, targetKnows, onchain, onchainSeen>>

\* ContractCooperativeSettledStateChange / ContractChannelWithdrawStateChange
\* on the route's channel: the channel's locks are reset and
\* cancelCurrentRoute runs (here only while our lock's secret is unrevealed)
ChannelResetEvent ==
    /\ CoopEvents
    /\ Running
    /\ ~revealed
    /\ route # NoHop
    /\ outSt[route] = "pending"
    /\ chan[route] = "Opened"
    /\ cancelCurrentRoute("reset")
    /\ UNCHANGED <<block, revealed, cancelByExc, chan, targetKnows, onchain,
                   onchainSeen>>

-----------------------------------------------------------------------------
(* The environment.                                                        *)

\* someone who knows the secret registers it
RegisterSecretByPeer ==
    /\ phase \in {"active", "removed"}
    /\ targetKnows
    /\ onchain = 0
    /\ onchain' = block
    /\ UNCHANGED <<block, phase, routes, route, exp, realSecret, revealed,
                   cancelByExc, sentFailed, outSt, outExp, chan, targetKnows,
                   onchainSeen>>

CloseChannel(h) ==
    /\ phase \in {"active", "removed"}
    /\ chan[h] = "Opened"
    /\ chan' = [chan EXCEPT ![h] = "Closed"]
    /\ UNCHANGED <<block, phase, routes, route, exp, realSecret, revealed,
                   cancelByExc, sentFailed, outSt, outExp, targetKnows, onchain,
                   onchainSeen>>

\* we remove our expired lock towards h after UnlockFailed
\* (CreateRemoveExpiredHashLockTransfer refuses once the secret is on chain)
RemoveExpiredHashLock(h) ==
    /\ outSt[h] = "pending"
    /\ chan[h] = "Opened"
    /\ ~onchainSeen
    /\ block - ForkConfirmNumber > outExp[h]
    /\ outSt' = [outSt EXCEPT ![h] = "removed"]
    /\ UNCHANGED <<block, phase, routes, route, exp, realSecret, revealed,
                   cancelByExc, sentFailed, outExp, chan, targetKnows, onchain,
                   onchainSeen>>

Done ==
    /\ block = MaxBlock \/ phase = "crashed"
    /\ UNCHANGED vars

Next ==
    \/ ActionInitInitiator
    \/ NewBlock
    \/ \E valid \in BOOLEAN : handleSecretRequest(valid)
    \/ handleSecretReveal
    \/ ContractSecretRevealOnChain
    \/ handleRefund
    \/ ActionCancelRoute
    \/ ActionCancelTransfer
    \/ ChannelResetEvent
    \/ RegisterSecretByPeer
    \/ \E h \in Closers : CloseChannel(h)
    \/ \E h \in Hops : RemoveExpiredHashLock(h)
    \/ Done

Fairness ==
    /\ WF_vars(ActionInitInitiator)
    /\ WF_vars(NewBlock)
    /\ WF_vars(ContractSecretRevealOnChain)

Spec == Init /\ [][Next]_vars /\ Fairness

-----------------------------------------------------------------------------
(* Properties.                                                             *)

TypeOK ==
    /\ block \in Blocks
    /\ phase \in {"idle", "active", "removed", "crashed"}
    /\ routes \in Seq(Hops)
    /\ route \in Hops \cup {NoHop}
    /\ exp \in Blocks
    /\ outSt \in [Hops -> OutStates]
    /\ outExp \in [Hops -> Blocks]
    /\ chan \in [Hops -> {"Opened", "Closed"}]
    /\ onchain \in Blocks
    /\ {realSecret, revealed, cancelByExc, sentFailed, targetKnows,
        onchainSeen} \subseteq BOOLEAN

\* a lock of ours that h was paid, or can claim on chain with the secret
Claimed(h) ==
    \/ outSt[h] = "paid"
    \/ outSt[h] = "pending" /\ onchain # 0 /\ onchain <= outExp[h]

(***************************************************************************)
(* The initiator pays for its transfer at most once: at no time have two   *)
(* first hops been paid, or been able to claim on chain, a lock of this    *)
(* transfer.  A route is only abandoned (refund, reset) once its lock is   *)
(* out of the channel.                                                     *)
(***************************************************************************)
NoDoublePayment == Cardinality({h \in Hops : Claimed(h)}) <= 1

(***************************************************************************)
(* Once the user was told the transfer failed (TransferSentFailed), the    *)
(* initiator pays nothing for it.                                          *)
(***************************************************************************)
FailedIsFinal == sentFailed => \A h \in Hops : ~Claimed(h)

\* Every initiator state manager is eventually removed, unless a user cancel
\* after the reveal panicked the node first (the only way to "crashed").
InitiatorRemoved == <>(phase \in {"removed", "crashed"})
====
