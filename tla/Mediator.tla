------------------------------ MODULE Mediator ------------------------------
(***************************************************************************)
(* The mediator state machine of one mediated transfer (one lock secret    *)
(* hash), src/transfer/mediatedtransfer/mediator/transition.go, together   *)
(* with the part of the world it talks to: the payer and payee hops that   *)
(* send it messages, the channels it routes through (their state only),   *)
(* the secret registry on chain and the block clock.                       *)
(*                                                                         *)
(* Amounts are abstracted to one unit per lock: a lock the mediator holds  *)
(* from a payer is worth at least the lock it forwards to a payee (the     *)
(* difference is the fee), so the mediator is safe as long as it never has *)
(* more forwarded locks claimed than received locks it can claim.          *)
(***************************************************************************)
EXTENDS Integers, Sequences, SequencesExt, FiniteSets

CONSTANTS
    Hops,              \* the neighbours of the mediator, one channel each
    InitPayer,         \* the hop the first mediated transfer comes from
    Payers,            \* hops that may send us a transfer with this hash
    RouteList,         \* aim.Routes: the candidate payee routes, best first
    Target,            \* the target of the payment (IsValidRefund)
    Funded,            \* routes with enough balance and fee (nextRoute)
    Flooding,          \* payer channels holding more than RevealTimeout locks
    SettleTimeout,     \* [Hops -> Nat], route.SettleTimeout()
    RevealTimeout,     \* route.RevealTimeout(), the same on every channel
    ForkConfirmNumber, \* params.ForkConfirmNumber
    PayerExp,          \* [Payers -> Nat], expiration of the lock each payer sends
    InitBlock,         \* block at which the first transfer arrives
    MaxBlock,          \* last block the model explores
    MaxTxDelay,        \* blocks within which a sent RegisterSecret tx is mined
    Closers,           \* the hops whose channel may be closed
    CoopEvents,        \* whether cooperative settle / withdraw events occur
    HonestPeers,       \* whether peers follow the protocol: a payee reveals the
                       \* secret once, a re-received transfer obeys the path rules
    NoHop              \* model value: no route

VARIABLES
    block,        \* state.BlockNumber (also the chain height)
    phase,        \* "idle" | "active" | "removed" | "crashed"
    secret,       \* state.Secret # EmptyHash
    pairs,        \* state.TransfersPair
    routes,       \* state.Routes.AvailableRoutes
    chan,         \* route.State() of the channel with each hop
    closedBlock,  \* route.ClosedBlock() of the channel with each hop
    inSt,         \* the lock each payer holds towards us in its channel
    inExp,        \*   and its expiration
    outSt,        \* the lock we hold towards each payee in its channel
    outExp,       \*   and its expiration
    onchain,      \* block at which the secret was registered on chain, 0 if not
    regTx,        \* the RegisterSecret transaction we sent
    onchainSeen   \* ContractSecretRevealOnChain already delivered to us

vars == <<block, phase, secret, pairs, routes, chan, closedBlock, inSt, inExp,
          outSt, outExp, onchain, regTx, onchainSeen>>

-----------------------------------------------------------------------------
PayerStates == {"PayerPending", "PayerSecretRevealed",
                "PayerWaitingRegisterSecret", "PayerBalanceProof", "PayerExpired"}
PayeeStates == {"PayeePending", "PayeeSecretRevealed", "PayeeBalanceProof",
                "PayeeExpired"}
ChanStates  == {"Opened", "Closed", "Settled"}
InStates    == {"none", "pending", "paid", "disposed", "removed"}
OutStates   == {"none", "pending", "paid", "disposed", "removed", "reset"}
Blocks      == 0..MaxBlock

Pair == [payer: Hops, payee: Hops, payerExp: Blocks, payeeExp: Blocks,
         payerState: PayerStates, payeeState: PayeeStates]

\* stateSecretKnownMaps, stateTransferPaidMaps, stateTransferFinalMaps
SecretKnown(s) == s \in {"PayeeSecretRevealed", "PayeeBalanceProof",
                         "PayerSecretRevealed", "PayerWaitingRegisterSecret",
                         "PayerBalanceProof"}
Paid(s)        == s \in {"PayeeBalanceProof", "PayerBalanceProof"}
Final(s)       == s \in {"PayeeExpired", "PayeeBalanceProof",
                         "PayerExpired", "PayerBalanceProof"}

isLockValid(exp, b) == b <= exp

\* mutant: waiting still counted safe at exp - RevealTimeout (off by one)
IsSafeToWaitLate(exp, b) == b <= exp - RevealTimeout

IsSafeToWait(exp, b) == b < exp - RevealTimeout

isSecretRegisterNeeded(p, b) ==
    /\ \/ Paid(p.payeeState) /\ ~IsSafeToWait(p.payerExp, b)
       \/ chan[p.payer] = "Closed"
    /\ p.payerState # "PayerWaitingRegisterSecret"
    /\ ~Paid(p.payerState)

\* a member of getPendingTransferPairs
IsPendingPair(p) == ~Final(p.payeeState) \/ ~Final(p.payerState)

\* mutant: the payer lock's expiration is not taken into account
getTimeoutBlocksNoExpCap(h, exp, b) ==
    IF closedBlock[h] # 0 THEN SettleTimeout[h] - (b - closedBlock[h])
                          ELSE SettleTimeout[h]

getTimeoutBlocks(h, exp, b) ==
    LET untilSettle == IF closedBlock[h] # 0
                       THEN SettleTimeout[h] - (b - closedBlock[h])
                       ELSE SettleTimeout[h]
    IN  IF untilSettle > exp - b THEN exp - b ELSE untilSettle

\* the checks of nextRoute that let a route carry the transfer
RouteUsable(r, from, t) ==
    /\ chan[r] = "Opened"
    /\ r \in Funded
    /\ t - RevealTimeout > 0
    /\ r # from

\* mutant: the payee lock lasts the payee channel's settle timeout
LockTimeoutUncapped(t, r) == SettleTimeout[r]

\* nextTransferPair: the payee lock timeout, capped by the payee's settle timeout
LockTimeout(t, r) == IF t >= SettleTimeout[r] THEN SettleTimeout[r] ELSE t

(***************************************************************************)
(* mediateTransfer: nextRoute pops routes until one is usable, then        *)
(* nextTransferPair builds the pair with payee expiration                  *)
(* block + min(timeoutBlocks, payee settle timeout); without a route, or   *)
(* when the payer floods us with locks, the transfer is refunded.          *)
(* The routes popped are consumed in every case.                           *)
(***************************************************************************)
mediateTransfer(h, exp, ps, rs, b) ==
    LET t    == getTimeoutBlocks(h, exp, b)
        idx  == IF t > 0 THEN SelectInSeq(rs, LAMBDA r : RouteUsable(r, h, t))
                         ELSE 0
        rest == IF t <= 0 THEN rs
                ELSE IF idx = 0 THEN <<>> ELSE SubSeq(rs, idx + 1, Len(rs))
        r    == rs[idx]
        tb   == LockTimeout(t, r)
    IN  IF idx = 0 \/ h \in Flooding
        THEN [pairs |-> ps, routes |-> rest, refund |-> {h},
              payee |-> NoHop, payeeExp |-> 0]
        ELSE [pairs |-> Append(ps, [payer |-> h, payee |-> r,
                                    payerExp |-> exp, payeeExp |-> b + tb,
                                    payerState |-> "PayerPending",
                                    payeeState |-> "PayeePending"]),
              routes |-> rest, refund |-> {}, payee |-> r, payeeExp |-> b + tb]

\* the panic of cancelCurrentRoute: the event is about the last payer's channel
CancelPanics(ch) == pairs # <<>> /\ ch = Last(pairs).payer

\* cancelCurrentRoute when it does not panic: pop the last pair, then refund
\* its payer if the payer channel was ever closed, else mediate it again
cancelCurrentRoute(ch) ==
    IF pairs = <<>>
    THEN [pairs |-> pairs, routes |-> routes, refund |-> {}, payee |-> NoHop,
          payeeExp |-> 0]
    ELSE LET last == Last(pairs) IN
         IF closedBlock[last.payer] # 0
         THEN [pairs |-> Front(pairs), routes |-> routes, refund |-> {last.payer},
               payee |-> NoHop, payeeExp |-> 0]
         ELSE mediateTransfer(last.payer, last.payerExp, Front(pairs), routes, block)

\* eventsForRegisterSecret: every pending pair that needs it waits for one
\* RegisterSecret transaction
eventsForRegisterSecret(ps, b) ==
    [i \in DOMAIN ps |->
        IF IsPendingPair(ps[i]) /\ isSecretRegisterNeeded(ps[i], b)
        THEN [ps[i] EXCEPT !.payerState = "PayerWaitingRegisterSecret"]
        ELSE ps[i]]

RegisterSecretSent(ps, b) ==
    \E i \in DOMAIN ps : IsPendingPair(ps[i]) /\ isSecretRegisterNeeded(ps[i], b)

\* mutant: a payer waiting for the secret registration never expires
setExpiredPairsSkipWaiting(ps, b) ==
    [i \in DOMAIN ps |->
        IF IsPendingPair(ps[i])
        THEN [ps[i] EXCEPT
                !.payerState = IF b > ps[i].payerExp /\ @ # "PayerWaitingRegisterSecret"
                               THEN "PayerExpired" ELSE @,
                !.payeeState = IF b - ForkConfirmNumber > ps[i].payeeExp
                               THEN "PayeeExpired" ELSE @]
        ELSE ps[i]]

\* mutant: only a payee that never revealed the secret expires
setExpiredPairsPendingPayee(ps, b) ==
    [i \in DOMAIN ps |->
        IF IsPendingPair(ps[i])
        THEN [ps[i] EXCEPT
                !.payerState = IF b > ps[i].payerExp THEN "PayerExpired" ELSE @,
                !.payeeState = IF b - ForkConfirmNumber > ps[i].payeeExp
                                  /\ @ = "PayeePending"
                               THEN "PayeeExpired" ELSE @]
        ELSE ps[i]]

\* setExpiredPairs: the payer lock expires after its expiration, the payee
\* lock ForkConfirmNumber blocks later
setExpiredPairs(ps, b) ==
    [i \in DOMAIN ps |->
        IF IsPendingPair(ps[i])
        THEN [ps[i] EXCEPT
                !.payerState = IF b > ps[i].payerExp THEN "PayerExpired" ELSE @,
                !.payeeState = IF b - ForkConfirmNumber > ps[i].payeeExp
                               THEN "PayeeExpired" ELSE @]
        ELSE ps[i]]

\* the allExpired result of setExpiredPairs, taken before it expires anything
AllExpired(ps) == \A i \in DOMAIN ps : ~IsPendingPair(ps[i])

\* the payee state of the last pair whose payee is the sender
setPayeeStateAndCheckRevealOrder(ps, sender, st) ==
    LET j == SelectLastInSeq(ps, LAMBDA p : p.payee = sender)
    IN  IF j = 0 THEN ps ELSE [ps EXCEPT ![j].payeeState = st]

eventsForRevealSecret(ps, b) ==
    [i \in DOMAIN ps |->
        IF /\ SecretKnown(ps[i].payeeState)
           /\ ~SecretKnown(ps[i].payerState)
           /\ ~(b > ps[i].payerExp)
        THEN [ps[i] EXCEPT !.payerState = "PayerSecretRevealed"]
        ELSE ps[i]]

\* mutant: the payee is paid even when the payer lock is in danger
BalanceProofDueInDanger(p, b) ==
    /\ chan[p.payer] = "Opened"
    /\ chan[p.payee] = "Opened"
    /\ SecretKnown(p.payeeState)
    /\ ~Paid(p.payeeState)
    /\ isLockValid(p.payeeExp, b)

\* the condition under which eventsForBalanceProof pays a payee off chain
BalanceProofDue(p, b) ==
    /\ chan[p.payer] = "Opened"
    /\ chan[p.payee] = "Opened"
    /\ SecretKnown(p.payeeState)
    /\ ~Paid(p.payeeState)
    /\ isLockValid(p.payeeExp, b)
    /\ ~(b > p.payerExp - RevealTimeout)

eventsForBalanceProof(ps, b) ==
    [i \in DOMAIN ps |->
        IF BalanceProofDue(ps[i], b)
        THEN [ps[i] EXCEPT !.payeeState = "PayeeBalanceProof"]
        ELSE ps[i]]

BalanceProofReceivers(ps, b) ==
    {ps[i].payee : i \in {k \in DOMAIN ps : BalanceProofDue(ps[k], b)}}

\* sanityCheck: the conditions whose failure panics
sanityCheck(ps, sec) ==
    /\ \A i \in DOMAIN ps :
          /\ (Paid(ps[i].payerState) \/ Paid(ps[i].payeeState)) => sec
          /\ ps[i].payerExp >= ps[i].payeeExp
    /\ \A i \in 1..(Len(ps) - 1) :
          /\ ps[i].payee # ps[i + 1].payer
          /\ ps[i].payeeExp >= ps[i + 1].payerExp

\* clearIfFinalized: every pair paid on both sides (vacuous without pairs)
AllFinalized(ps) ==
    \A i \in DOMAIN ps : Paid(ps[i].payeeState) /\ Paid(ps[i].payerState)

-----------------------------------------------------------------------------
(* The effects shared by the handlers.                                     *)

\* the end of StateTransition: sanityCheck panics, clearIfFinalized (or a
\* RemoveStateManager event of the handler) removes the state manager
Conclude(ps, sec, removeEvent) ==
    /\ pairs' = ps
    /\ secret' = sec
    /\ phase' = IF ~sanityCheck(ps, sec) THEN "crashed"
                ELSE IF removeEvent \/ AllFinalized(ps) THEN "removed"
                ELSE "active"

\* SendBalanceProof events: the unlock is only created on an open channel
PayOut(S) ==
    [h \in Hops |-> IF h \in S /\ outSt[h] = "pending" /\ chan[h] = "Opened"
                    THEN "paid" ELSE outSt[h]]

\* an EventContractSendRegisterSecret, carrying the secret only if we know it
SendRegister(sent, sec, b) ==
    regTx' = IF sent /\ ~(regTx.pending /\ regTx.real)
             THEN [pending |-> TRUE, at |-> b, real |-> sec]
             ELSE regTx

\* the ledger effects of a mediateTransfer result: a refund disposes of the
\* payer's lock (AnnounceDisposed), a new pair puts a lock on the payee
MediationLedger(res, in0, out0) ==
    /\ inSt' = [h \in Hops |-> IF h \in res.refund THEN "disposed" ELSE in0[h]]
    /\ outSt' = IF res.payee = NoHop THEN out0
                ELSE [out0 EXCEPT ![res.payee] = "pending"]
    /\ outExp' = IF res.payee = NoHop THEN outExp
                 ELSE [outExp EXCEPT ![res.payee] = res.payeeExp]
    /\ routes' = res.routes

RegisterOverdue == regTx.pending /\ block >= regTx.at + MaxTxDelay

\* the event loop hands a confirmed SecretRevealed event over before it
\* emits the BlockStateChange of a later block
RevealOnChainDue == onchain # 0 /\ ~onchainSeen /\ block >= onchain + ForkConfirmNumber

Running == phase = "active"

-----------------------------------------------------------------------------
(* The handlers of StateTransition.                                        *)

Init ==
    /\ block = InitBlock
    /\ phase = "idle"
    /\ secret = FALSE
    /\ pairs = <<>>
    /\ routes = RouteList
    /\ chan = [h \in Hops |-> "Opened"]
    /\ closedBlock = [h \in Hops |-> 0]
    /\ inSt = [h \in Hops |-> "none"]
    /\ inExp = [h \in Hops |-> 0]
    /\ outSt = [h \in Hops |-> "none"]
    /\ outExp = [h \in Hops |-> 0]
    /\ onchain = 0
    /\ regTx = [pending |-> FALSE, at |-> 0, real |-> FALSE]
    /\ onchainSeen = FALSE

\* ActionInitMediatorStateChange: the channel accepted the transfer
\* (registerMediatedTranser) and the state is created with mediateTransfer
ActionInitMediator ==
    LET res == mediateTransfer(InitPayer, PayerExp[InitPayer], <<>>, RouteList, block)
    IN  /\ phase = "idle"
        /\ PayerExp[InitPayer] <= block + SettleTimeout[InitPayer]
        /\ MediationLedger(res, [inSt EXCEPT ![InitPayer] = "pending"], outSt)
        /\ inExp' = [inExp EXCEPT ![InitPayer] = PayerExp[InitPayer]]
        /\ Conclude(res.pairs, FALSE, FALSE)
        /\ UNCHANGED <<block, chan, closedBlock, onchain, regTx, onchainSeen>>

\* handleBlock: eventsForRegisterSecret, then setExpiredPairs
handleBlock(b) ==
    LET ps1 == eventsForRegisterSecret(pairs, b)
    IN  /\ SendRegister(RegisterSecretSent(pairs, b), secret, b)
        /\ Conclude(setExpiredPairs(ps1, b), secret, AllExpired(ps1))

\* a new block: the BlockStateChange reaches the state manager if it exists
NewBlock ==
    /\ phase \in {"active", "removed"}
    /\ block < MaxBlock
    /\ ~RegisterOverdue
    /\ ~RevealOnChainDue
    /\ block' = block + 1
    /\ IF Running THEN handleBlock(block + 1)
                  ELSE UNCHANGED <<phase, secret, pairs, regTx>>
    /\ UNCHANGED <<routes, chan, closedBlock, inSt, inExp, outSt, outExp,
                   onchain, onchainSeen>>

\* secretLearned: set the secret, set payee s's pairs to newPayeeState (a
\* secret-known state, so its panic cannot fire), then reveal to the payers,
\* pay the payees owed a balance proof, and register on chain where needed
secretLearned(s, newPayeeState) ==
    LET ps1 == setPayeeStateAndCheckRevealOrder(pairs, s, newPayeeState)
        ps2 == eventsForRevealSecret(ps1, block)
        ps3 == eventsForBalanceProof(ps2, block)
    IN  /\ outSt' = PayOut(BalanceProofReceivers(ps2, block))
        /\ SendRegister(RegisterSecretSent(ps3, block), TRUE, block)
        /\ Conclude(eventsForRegisterSecret(ps3, block), TRUE, FALSE)

\* handleSecretReveal: a RevealSecret message from sender s (any hop that
\* knows the secret; an honest one is a payee revealing once)
handleSecretReveal(s) ==
    /\ Running
    /\ HonestPeers => \E i \in DOMAIN pairs : /\ pairs[i].payee = s
                                             /\ pairs[i].payeeState = "PayeePending"
    /\ secretLearned(s, "PayeeSecretRevealed")
    /\ UNCHANGED <<block, routes, chan, closedBlock, inSt, inExp, outExp,
                   onchain, onchainSeen>>

\* handleBalanceProof: an Unlock from payer h, accepted by registerUnlock
handleBalanceProof(h) ==
    LET owed == {pairs[i].payee : i \in {k \in DOMAIN pairs :
                    pairs[k].payer = h /\ pairs[k].payeeState # "PayeeBalanceProof"}}
        ps   == [i \in DOMAIN pairs |->
                    IF pairs[i].payer = h
                    THEN [pairs[i] EXCEPT !.payeeState = "PayeeBalanceProof",
                                          !.payerState = "PayerBalanceProof"]
                    ELSE pairs[i]]
    IN  /\ Running
        /\ inSt[h] = "pending"
        /\ chan[h] = "Opened"
        /\ inSt' = [inSt EXCEPT ![h] = "paid"]
        /\ outSt' = PayOut(owed)
        /\ Conclude(ps, TRUE, FALSE)
        /\ UNCHANGED <<block, routes, chan, closedBlock, inExp, outExp, onchain,
                       regTx, onchainSeen>>

\* handleSecretRevealOnChain, r being the block of the registration: pay every
\* payee whose lock was still valid then, unlock on chain from closed payers
handleSecretRevealOnChain(r) ==
    LET ps == [i \in DOMAIN pairs |->
                 [pairs[i] EXCEPT
                    !.payeeState = IF pairs[i].payeeExp >= r
                                   THEN "PayeeBalanceProof" ELSE @,
                    !.payerState = IF chan[pairs[i].payer] = "Closed"
                                   THEN "PayerBalanceProof" ELSE @]]
    IN  /\ outSt' = PayOut({pairs[i].payee : i \in {k \in DOMAIN pairs :
                                                   pairs[k].payeeExp >= r}})
        /\ Conclude(ps, TRUE, FALSE)

\* ContractSecretRevealOnChainStateChange, delivered once the registration is
\* ForkConfirmNumber blocks deep; a removed state manager ignores it
ContractSecretRevealOnChain ==
    /\ RevealOnChainDue
    /\ phase \in {"active", "removed"}
    /\ onchainSeen' = TRUE
    /\ IF Running THEN handleSecretRevealOnChain(onchain)
                  ELSE UNCHANGED <<phase, secret, pairs, outSt>>
    /\ UNCHANGED <<block, routes, chan, closedBlock, inSt, inExp, outExp,
                   onchain, regTx>>

\* IsValidRefund: the refund comes from the hop of the last pair's payee route
\* and not from the target; the lock's amount, hash, token and expiration
\* are those of that payee transfer, the only lock of this hash s holds
IsValidRefund(s) == /\ s # Target
                    /\ s = Last(pairs).payee

\* handleAnnouceDisposed from payee s: only while the secret is unknown (the
\* channel's RegisterAnnouceDisposed only matches a lock of unknown secret),
\* only for the last pair (IsValidRefund) and before its payee lock expires;
\* the other cases leave the state unchanged
handleAnnouceDisposed(s) ==
    LET last == Last(pairs)
        res  == cancelCurrentRoute(s)
    IN  /\ Running
        /\ ~secret
        /\ outSt[s] = "pending"
        /\ pairs # <<>>
        /\ IsValidRefund(s)
        /\ last.payeeExp > block
        /\ IF CancelPanics(s)
           THEN /\ phase' = "crashed"
                /\ UNCHANGED <<pairs, secret, routes, inSt, outSt, outExp>>
           ELSE /\ MediationLedger(res, inSt,
                                   [outSt EXCEPT ![s] = "disposed"])
                /\ Conclude(res.pairs, secret, FALSE)
        /\ UNCHANGED <<block, chan, closedBlock, inExp, onchain, regTx, onchainSeen>>

\* handleMediatedTransferAgain: another transfer with this hash from payer h;
\* ignored, once the channel registered it, if the secret is already known
handleMediatedTransferAgain(h) ==
    LET in0 == [inSt EXCEPT ![h] = "pending"]
        res == mediateTransfer(h, PayerExp[h], pairs, routes, block)
    IN  /\ Running
        /\ inSt[h] = "none"
        /\ chan[h] = "Opened"
        /\ PayerExp[h] <= block + SettleTimeout[h]
        /\ HonestPeers => (pairs # <<>> => /\ h # Last(pairs).payee
                                            /\ PayerExp[h] <= Last(pairs).payeeExp)
        /\ inExp' = [inExp EXCEPT ![h] = PayerExp[h]]
        /\ IF secret
           THEN /\ inSt' = in0
                /\ UNCHANGED <<phase, secret, pairs, routes, outSt, outExp>>
           ELSE /\ MediationLedger(res, in0, outSt)
                /\ Conclude(res.pairs, secret, FALSE)
        /\ UNCHANGED <<block, chan, closedBlock, onchain, regTx, onchainSeen>>

\* ContractCooperativeSettledStateChange (settled) or
\* ContractChannelWithdrawStateChange on the channel with r.  The channel
\* layer lets it happen while the only lock in the channel is ours of unknown
\* secret (RegisterCooperativeSettleRequest and RegisterWithdrawRequest do not
\* check our pending locks), and it resets the channel's locks.  It reaches
\* this state manager because that lock of its hash is in the channel.
ChannelResetEvent(r, settled) ==
    LET out0 == [outSt EXCEPT ![r] = "reset"]
        res  == cancelCurrentRoute(r)
    IN  /\ CoopEvents
        /\ Running
        /\ chan[r] = "Opened"
        /\ inSt[r] # "pending"
        /\ outSt[r] = "pending"
        /\ ~secret
        /\ chan' = IF settled THEN [chan EXCEPT ![r] = "Settled"] ELSE chan
        /\ IF CancelPanics(r)
           THEN /\ phase' = "crashed"
                /\ outSt' = out0
                /\ UNCHANGED <<pairs, secret, routes, inSt, outExp>>
           ELSE /\ MediationLedger(res, inSt, out0)
                /\ Conclude(res.pairs, secret, FALSE)
        /\ UNCHANGED <<block, closedBlock, inExp, onchain, regTx, onchainSeen>>

-----------------------------------------------------------------------------
(* The environment: the chain and the neighbours acting on their own.      *)

\* the RegisterSecret transaction is mined, at most MaxTxDelay blocks after
\* it was sent; one sent without the secret registers nothing
MineRegisterSecret ==
    /\ regTx.pending
    /\ block > regTx.at
    /\ onchain' = IF regTx.real /\ onchain = 0 THEN block ELSE onchain
    /\ regTx' = [regTx EXCEPT !.pending = FALSE]
    /\ UNCHANGED <<block, phase, secret, pairs, routes, chan, closedBlock, inSt,
                   inExp, outSt, outExp, onchainSeen>>

\* someone else who knows the secret (a payee, the target) registers it
RegisterSecretByPeer ==
    /\ phase \in {"active", "removed"}
    /\ onchain = 0
    /\ onchain' = block
    /\ UNCHANGED <<block, phase, secret, pairs, routes, chan, closedBlock, inSt,
                   inExp, outSt, outExp, regTx, onchainSeen>>

\* either participant closes the channel with h
CloseChannel(h) ==
    /\ phase \in {"active", "removed"}
    /\ chan[h] = "Opened"
    /\ chan' = [chan EXCEPT ![h] = "Closed"]
    /\ closedBlock' = [closedBlock EXCEPT ![h] = block]
    /\ UNCHANGED <<block, phase, secret, pairs, routes, inSt, inExp, outSt,
                   outExp, onchain, regTx, onchainSeen>>

\* payer h removes its expired lock (registerRemoveLock with mustExpired);
\* TryRemoveHashLock refuses a lock whose secret we know, from a message or
\* from the chain
PeerRemoveExpiredLock(h) ==
    /\ phase \in {"active", "removed"}
    /\ inSt[h] = "pending"
    /\ chan[h] = "Opened"
    /\ ~secret /\ ~onchainSeen
    /\ block - ForkConfirmNumber > inExp[h]
    /\ inSt' = [inSt EXCEPT ![h] = "removed"]
    /\ UNCHANGED <<block, phase, secret, pairs, routes, chan, closedBlock, inExp,
                   outSt, outExp, onchain, regTx, onchainSeen>>

\* we remove our expired lock towards h after the UnlockFailed event
\* (CreateRemoveExpiredHashLockTransfer)
RemoveExpiredHashLock(h) ==
    /\ phase \in {"active", "removed"}
    /\ outSt[h] = "pending"
    /\ chan[h] = "Opened"
    /\ ~secret /\ ~onchainSeen
    /\ block - ForkConfirmNumber > outExp[h]
    /\ outSt' = [outSt EXCEPT ![h] = "removed"]
    /\ UNCHANGED <<block, phase, secret, pairs, routes, chan, closedBlock, inSt,
                   inExp, outExp, onchain, regTx, onchainSeen>>

\* the end of the explored time, or the process died on a panic
Done ==
    /\ block = MaxBlock \/ phase = "crashed"
    /\ UNCHANGED vars

Next ==
    \/ ActionInitMediator
    \/ NewBlock
    \/ \E s \in Hops : handleSecretReveal(s)
    \/ \E h \in Hops : handleBalanceProof(h)
    \/ ContractSecretRevealOnChain
    \/ \E s \in Hops : handleAnnouceDisposed(s)
    \/ \E h \in Payers : handleMediatedTransferAgain(h)
    \/ \E r \in Hops, settled \in BOOLEAN : ChannelResetEvent(r, settled)
    \/ MineRegisterSecret
    \/ RegisterSecretByPeer
    \/ \E h \in Closers : CloseChannel(h)
    \/ \E h \in Hops : PeerRemoveExpiredLock(h)
    \/ \E h \in Hops : RemoveExpiredHashLock(h)
    \/ Done

\* the dispatcher delivers every state change and the block clock runs; the
\* tx watcher mines our transaction and the event loop delivers the
\* registration; neighbours and users act when they like
Fairness ==
    /\ WF_vars(ActionInitMediator)
    /\ WF_vars(NewBlock)
    /\ WF_vars(MineRegisterSecret)
    /\ WF_vars(ContractSecretRevealOnChain)

Spec == Init /\ [][Next]_vars /\ Fairness

-----------------------------------------------------------------------------
(* Properties.                                                             *)

TypeOK ==
    /\ block \in Blocks
    /\ phase \in {"idle", "active", "removed", "crashed"}
    /\ secret \in BOOLEAN
    /\ pairs \in Seq(Pair)
    /\ routes \in Seq(Hops)
    /\ chan \in [Hops -> ChanStates]
    /\ closedBlock \in [Hops -> Blocks]
    /\ inSt \in [Hops -> InStates]
    /\ inExp \in [Hops -> Blocks]
    /\ outSt \in [Hops -> OutStates]
    /\ outExp \in [Hops -> Blocks]
    /\ onchain \in Blocks
    /\ regTx \in [pending: BOOLEAN, at: Blocks, real: BOOLEAN]
    /\ onchainSeen \in BOOLEAN

\* a lock we forwarded to h that h has been paid or can claim on chain
Claimed(h) ==
    \/ outSt[h] = "paid"
    \/ outSt[h] = "pending" /\ onchain # 0 /\ onchain <= outExp[h]

\* a lock payer h sent us that it paid, or that we can still claim on chain
Secured(h) ==
    \/ inSt[h] = "paid"
    \/ /\ inSt[h] = "pending"
       /\ \/ onchain # 0 /\ onchain <= inExp[h]
          \/ onchain = 0 /\ secret /\ block <= inExp[h]

(***************************************************************************)
(* The mediator never loses tokens: at no point have more of the locks it  *)
(* forwarded been paid or become claimable than it has received locks it   *)
(* was paid or can still claim.  This is what the timing of                *)
(* nextTransferPair (payee expiration not after the payer's),              *)
(* eventsForBalanceProof (no off-chain payment within RevealTimeout of the *)
(* payer expiration) and eventsForRegisterSecret/handleBlock (register the *)
(* secret once waiting is unsafe) must achieve together.                   *)
(***************************************************************************)
NoLoss ==
    Cardinality({h \in Hops : Claimed(h)}) <= Cardinality({h \in Hops : Secured(h)})

\* The state manager never panics: sanityCheck holds after every transition
\* and cancelCurrentRoute is never asked to cancel the payer's own channel.
NoPanic == phase # "crashed"

\* Every mediator state manager is eventually removed (handleBlock's
\* allExpired or clearIfFinalized), so the node does not keep it forever.
StateManagerRemoved == <>(phase = "removed")
====
