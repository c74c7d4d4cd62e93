# TLA+ models of the SuperNode payment node

These modules model the SuperNode sources under `src/`: the hash-locked
mediated transfer state machines, the payment channel and the chain event
poller that drives them. TLC checks them. This file describes what is
modelled, how it maps to the code, what each run shows, and what remains.

## The system and how its parts interact

| Part | Source | Role |
|---|---|---|
| Mediator state machine | `transfer/mediatedtransfer/mediator/transition.go` | For each lock hash, keeps the list of (payer, payee) pairs, routes a transfer, reveals the secret backwards, pays payees off chain, registers the secret on chain when waiting is unsafe, and expires pairs. |
| Initiator state machine | `transfer/mediatedtransfer/initiator/transition.go` | Sends a transfer on a route, answers the target's secret request, reveals the secret, and cancels or expires. |
| Channel | `channel/channel.go` | The two end states of a channel and their locks. It registers received messages (mediated transfer, unlock, remove-expired-lock, announce disposed, withdraw and cooperative settle requests) and creates the ones we send. It also handles chain events: closed, settled, withdrawn. |
| Event poller | `blockchain/events.go` | Polls the chain head and queries logs from `current - 2*ForkConfirmNumber`. It holds back events that need confirmation, drops duplicates with `txDone`, and emits `BlockStateChange`s and contract state changes into the state-change channel. |
| Transaction watcher | `network/rpc/client.go` | Polls pending transactions (`waitMined`) and reports them. |
| Stores, REST, CLI | `models/...`, `restful/...`, `cmd/...` | Persistence and I/O. |

The node's dispatcher (outside `src/`) feeds each state change into the state
manager of its lock hash. The state machines emit events: send a message, send
a chain transaction, remove the state manager. The node carries these out on
the channels and the chain.

## Modules

### `Mediator` (instantiated by `MCMediator`)

This module models one mediator state manager (one lock hash), together with
the part of the world that talks to it.

**State.**
- `pairs` is `state.TransfersPair`, with each pair's payer and payee states and expirations.
- `routes` holds the remaining candidate routes.
- `secret` records whether `state.Secret` is known.
- `block` is `state.BlockNumber`.
- `phase` is idle, active, removed (`EventRemoveStateManager` or `clearIfFinalized`) or crashed (a `panic`).
- For each neighbour: the channel state and closed block, and the lock it holds towards us and the lock we hold towards it (`inSt`/`inExp`, `outSt`/`outExp`).
- On chain: the registration block (`onchain`), our pending `RegisterSecret` transaction (`regTx`), and whether the registration was delivered (`onchainSeen`).

**Actions.** There is one action per state change of `StateTransition`. Each
runs the whole handler, including the `sanityCheck` and `clearIfFinalized` that
`StateTransition` applies after every handler (`Conclude`).

| Action | Handler |
|---|---|
| `ActionInitMediator` | `mediateTransfer` |
| `NewBlock` | `handleBlock` |
| `handleSecretReveal` | `secretLearned` |
| `handleBalanceProof` | unlock from the payer |
| `ContractSecretRevealOnChain` | `handleSecretRevealOnChain` |
| `handleAnnouceDisposed` | refund from the last payee |
| `handleMediatedTransferAgain` | `MediatorReReceiveStateChange` |
| `ChannelResetEvent` | cooperative settle and withdraw on a payee channel, via `cancelCurrentRoute` |

The pure helpers keep the code's names: `IsSafeToWait`, `isSecretRegisterNeeded`,
`getTimeoutBlocks`, `setExpiredPairs`, `eventsForRevealSecret`,
`eventsForBalanceProof`, `eventsForRegisterSecret`,
`setPayeeStateAndCheckRevealOrder`, `sanityCheck`, `cancelCurrentRoute`.
`RouteUsable` and `LockTimeout` are the checks of `nextRoute` and
`nextTransferPair`.

The environment acts on its own. A neighbour may close its channel
(`CloseChannel`, over `Closers`), remove an expired lock
(`PeerRemoveExpiredLock`, `RemoveExpiredHashLock`) or register the secret
itself (`RegisterSecretByPeer`). Our registration is mined within `MaxTxDelay`
blocks (`MineRegisterSecret`).

**Abstraction.**
- Amounts are one unit per lock. A payer's lock is worth at least the lock forwarded for it, since the difference is the fee.
- The secret and the hash are one bit.
- A channel holds at most one lock of this hash in each direction.

**Assumptions.** Each one is a named constant or a guard.
1. `MaxTxDelay <= RevealTimeout`: a sent registration is mined in time.
2. The event loop delivers a confirmed `SecretRevealed` before the next block (`RevealOnChainDue`). This matches `startAlarmTask`, which confirms against the previous poll's block and emits the event before the new `BlockStateChange`.
3. Cooperative settle and withdraw events reach this state manager only for a payee channel that holds our pending lock of unknown secret. The code comment above their `case` in `StateTransition` says so. The dispatcher is not under `src/`.
4. With `HonestPeers`, a payee reveals the secret only while its pair is `PayeePending`. A re-received transfer comes from a hop other than the last payee and expires no later than the last payee lock. Without `HonestPeers` (as in `mediator_greedy_rereceive`), a payee that was paid, closed its channel and reveals again resets its pair through `setPayeeStateAndCheckRevealOrder` (line 410), which no longer counts it as paid. This is recorded as a hazard; no run checks `NoLoss` with such a payee.
5. A panic stops the process, so `crashed` is terminal.

**Properties.**
- `NoLoss`: the number of forwarded locks that are paid or claimable on chain never exceeds the number of received locks that are paid or still claimable.
- `NoPanic`: no `sanityCheck` or `cancelCurrentRoute` panic.
- `StateManagerRemoved`: eventually the state manager is removed.
- `TypeOK`.

**Fairness.** Weak fairness holds on `ActionInitMediator`, `NewBlock`,
`MineRegisterSecret` and `ContractSecretRevealOnChain`: the dispatcher
delivers every state change, blocks keep coming, the tx watcher reports the
receipt, and the poller delivers confirmed events. Peers get no fairness,
since they act only when they like.


### `Events` (instantiated by `MCEvents`)

This module models the poll loop of `startAlarmTask` and `parseLogsToEvents`
in `blockchain/events.go`.

**State.**
- `evBlock` is the block each log was mined at. The initial state chooses it, over every placement of three logs in blocks 1..`MaxHeight`.
- `head` is the chain height.
- `lastBlockNumber` is `be.lastBlockNumber`.
- `startUp` is `startUpBlockNumber`, and `firstStart` is `be.firstStart`.
- `txDone` is `be.txDone`, mapping a log to the block it was delivered at.
- `out` is everything written to `StateChangeChannel`, tagged with the process incarnation (`epoch`).

**Actions.**

| Action | Code |
|---|---|
| `PollNewHead` | A poll that finds a new head. It queries `[QueryFrom(current), head]`, runs `parseLogsToEvents` (the `txDone` check, then the confirmation check against the *previous* poll's block), sorts, writes with the `BlockStateChange`s of `Emission`, sets the block, and prunes `txDone`. |
| `PollSameHead` | The start-up branch that writes the current block once. |
| `QueryFails` | `getLogs` fails and the poll is retried. |
| `Reconnect` | `HeaderByNumber` fails, and `startAlarmTask` restarts with `txDone` kept. |
| `Restart` | The process restarts from the last block handed to the dispatcher, with `txDone` empty. |

`ChainGrows` is the chain. With `KeepUp`, the chain is never more than one
block ahead of the poller.

**Properties.**
- `NoLostEvent`: a log whose block the query window has passed has been written.
- `NoDuplicateDelivery`: no incarnation writes a log twice.

**Fairness.** Weak fairness holds on `ChainGrows` and `PollNewHead`, since the
ticker keeps polling.

### `Initiator` (instantiated by `MCInitiator`)

This module models one initiator state manager
(`initiator/transition.go`), together with the route hops, the target, the user
and the chain.

**State.**
- `routes` and `route` are `state.Routes.AvailableRoutes` and `state.Route`.
- `exp` is `state.Transfer.Expiration`.
- `realSecret` is false once `userCancelTransfer` has cleared `state.Transfer.Secret`.
- `revealed` is `state.RevealSecret != nil`, and `cancelByExc` is `CancelByExceptionSecretRequest`.
- `sentFailed` records that an `EventTransferSentFailed` was emitted.
- For each hop: our lock (`outSt`, `outExp`) and its channel state.
- The environment: `targetKnows`, `onchain` and `onchainSeen`.

**Actions.** There is one action per `case` of `StateTransition`.

| Action | Handler |
|---|---|
| `ActionInitInitiator` | `tryNewRoute` |
| `NewBlock` | `handleBlock` |
| `handleSecretRequest` | valid or not |
| `handleSecretReveal` | `handleSecretReveal` |
| `ContractSecretRevealOnChain` | `handleSecretRevealOnChain` |
| `handleRefund` | `IsValidRefund`, then `cancelCurrentRoute` |
| `ActionCancelRoute` | `handleCancelRoute`, or the panic after the reveal |
| `ActionCancelTransfer` | `userCancelTransfer`, or the panic |
| `ChannelResetEvent` | cooperative settle and withdraw |

`tryNewRoute` pops routes, skips unusable ones, and caps the new lock's
expiration by the transfer it replaces. If no route is left, it emits
`TransferSentFailed` and removes the state manager.

Beyond the first hop, the payment is abstracted:
- The target receives the transfer while a first hop holds our pending lock.
- Once the target knows the secret, the current hop learns it, and anyone may register it (`RegisterSecretByPeer`).

**Properties.**
- `NoDoublePayment`: at most one hop was paid or can claim on chain.
- `FailedIsFinal`: after `TransferSentFailed`, no hop was paid or can claim.
- `InitiatorRemoved`: the state manager is eventually removed, unless a user
  cancel after the reveal panicked the node first. Without user cancels
  nothing reaches `"crashed"`, so for those behaviours this is plain removal.

**Fairness.** Weak fairness holds on init, blocks and the delivery of the
on-chain reveal, as for `Mediator`. The user, the hops and the target get none.

**Assumption.** Cooperative settle and withdraw reach the initiator only while
the secret is unrevealed and our lock is pending on an open channel. After the
reveal, the code would panic (`transition.go:478`). Which state changes reach
the initiator is decided by the dispatcher, outside `src/`.

### `Channel` and `ChannelLedger` (instantiated by `MCChannel`)

`Channel` models one payment channel as both nodes run it. `view[n]` is node
n's `Channel`: its state, its `OpenBlockNumber`, and both end states. An end
state is a contract balance, a transferred amount, a nonce, and a status per
lock hash (none, pending or unclaimed) with its expiration. The end state
lives outside `src/`, so its operators (`Tree`, `TryRemoveHashLock`,
`RegisterSecretOn`) follow section 4.2 of the specification. Every lock
carries one token.

`net[n]` is the queue of messages to n. Each node creates a balance proof,
registers it on its own `Channel` (`Send`), and sends it. The partner's
`RegisterTransfer` takes the head of its queue. A refused message stays at
the head, because the sender retransmits it. The specification says
messages of a channel are processed in receipt order; the model assumes
each direction is delivered in order.

| Action | Code |
|---|---|
| `CreateDirectTransfer`, `CreateMediatedTransfer`, `CreateUnlock`, `CreateRemoveExpiredHashLockTransfer` | the `Create*` functions, with the `CanTransfer`, distributable and `TryRemoveHashLock` checks |
| `RegisterTransfer` | `RegisterTransfer` and `register*`, with `PreCheckRecievedTransfer` (`ValidTransfer`, `Registered`) |
| `CreateAnnouceDisposed`, `RegisterAnnouceDisposed`, `RefuseAnnouceDisposed` | the receiver gives up a lock, and the sender answers with `CreateAnnounceDisposedResponse` or refuses |
| `RegisterSecret` | a node learns a secret off chain: the receiver from further along the path, the sender from the receiver, and, with `Reroutes`, the sender of a disposed lock on the route its state manager tried next (`handleAnnouceDisposed` then `cancelCurrentRoute`); a node never learns off chain a lock it disposed of |
| `RegisterSecretOnChain`, `RegisterRevealedSecretHash` | secret registry, and the confirmed `SecretRevealed` event |
| `PrepareFor*`, `CancelWithdrawOrCooperativeSettle` | the Prepare states |
| `CreateWithdrawRequest`, `CreateCooperativeSettleRequest` | sent once `CanWithdrawOrCooperativeSettle` holds |
| `RegisterWithdrawRequest`, `RegisterCooperativeSettleRequest` | `Register*Request`, then `Create*Response` |
| `RegisterWithdrawResponse`, `RegisterCooperativeSettleResponse` | `Register*Response`, then `Withdraw` or `CooperativeSettleChannel`, which re-creates the request and panics if that fails |
| `RefuseSettleData` | a request or response refused with an error |
| `HandleWithdrawed`, `HandleSettled` | the confirmed chain events |
| `Close` | `Channel.Close`: refused only in Closed and Settled, it submits the partner's balance proof as it stands (`ProofOf`) and sets Closing; the contract takes it only while the channel is open on chain (`OpenOnChain`) |
| `HandleClosed` | the ChannelClosed event, delivered unconfirmed: the non-closing node sends `UpdateTransfer` with the partner's proof (the contract keeps it if its nonce is higher), the closer unlocks on chain the partner's locks it can (`Unlockable`), and the node is Closed |
| `HandleBalanceProofUpdated` | the BalanceProofUpdated event: if our proof was updated, we unlock the partner's locks on chain |
| `Settle` | `Channel.Settle`: only when Closed and the settle timeout has passed since the close; the node is Settling, and the first settle transaction settles the channel on chain |
| `NewBlock` | a block, once the due events are delivered |

A node that panics (`panicked`) takes no further step. `chain` is the
contract: the open block, deposits, the closer and close block, each
participant's balance proof on record, the locks unlocked on chain, and
which nodes still have to handle ChannelClosed or BalanceProofUpdated.
`Closers` names the nodes whose user calls `Close` in a run. `Reroutes`
says whether the sender of a lock the receiver disposed of may learn its
secret afterwards, as a rerouting mediator or initiator does. The pass run
leaves it off to stay within its time budget (with it on, the run takes
about 2m40s and both properties still hold). The violation run turns it on.

`RegisterSecret` has no guard on the lock's expiration, because
`Channel.RegisterSecret` (`channel.go:369`) has none. No node is obliged to
register a secret on chain in time. In the code that obligation belongs to
the mediator (`isSecretRegisterNeeded`) and holds only for a paid payee or a
closed payer channel, which the Mediator module models. So a receiver may
learn a secret after its lock expired, and its sender's
RemoveExpiredHashlockTransfer is then refused.

`ChannelLedger` is what a channel promises, with no replicas and no messages:
- deposits, amounts paid and locks held per node;
- payments limited by the balance less the locks;
- no release of a lock whose secret was registered on chain in time;
- withdraw and cooperative settle only with no locks anywhere;
- close, then settle; once settled, the off-chain books no longer count, and
  `AfterSettle` lets them move (the code still removes and unlocks locks in
  Settling and Settled, since those handlers check only `IsClosed`).

The refinement mapping reads each node's own end of its own view, or the
chain's values once a withdraw it has not yet handled is on chain.
`ImplementsLedger == Ledger!LSpec` is checked as a `PROPERTY`.

**Properties.**
- `ImplementsLedger` (the refinement). No node spends more than its deposit plus what it received, even though it sees the partner's transfers late. No lock registered on chain in time is removed. A withdraw or settle never happens while a lock is outstanding in either node's own view. A withdraw reopens with the right deposits.
- `WedgedOnlyByKnownSecret`: the head balance proof of each live node's queue is one of three things. It is accepted by its `RegisterTransfer`, or belongs to a later open block, or is a removal (RemoveExpired or AnnounceDisposedResponse) of a lock whose secret the receiver knows. So transfers, expiry, disposal, withdraw, cooperative settle and close never desynchronise the replicas' nonces, amounts or locks, and no message is stranded under an old OpenBlockNumber (`HandleWithdrawed`, `channel.go:314`).
- `NoWedgedChannel` (violation run): the same without the exception for a known secret. It fails, and this is the one way the channel wedges.
- `NoPanic` (violation run): neither `Withdraw` nor `CooperativeSettleChannel` panics.
- `OnChainProofIsLatest` (violation run): once a node has handled the close, the contract holds the latest balance proof of its partner that the node accepted (spec 4.3.3: after Close, balance proofs are refused).

**Fairness.** The Channel runs check only safety, so they assume no fairness.
They use `CHECK_DEADLOCK FALSE`, because the channel really stops once blocks
and transfers run out.

## Runs

The Mediator runs use `RevealTimeout = 3`, `ForkConfirmNumber = 1`, `MaxTxDelay = 3`,
start at block 1, and use routes `<<c, d>>` with target `d`. The settle
timeouts and payer expirations make the caps of `getTimeoutBlocks` and
`nextTransferPair` both bite: c's settle timeout is shorter than a's lock.
The block bound lets every lock expire and be removed.

The Events runs use `ForkConfirmNumber = 1` with heights up to 7. That is
long enough for the window (two blocks back) to pass every log block and for
a restart to land behind the head. The Initiator runs start at block 1 with
`ForkConfirmNumber = 1` and `RevealTimeout = 3`, so c's lock expires at 4 and
d's is capped at 4. `MaxBlock = 7` is past the removal block (6) of either
lock.

The Channel runs use two nodes with deposits 2 and 1, `LockLife = 1` and
`ForkConfirmNumber = 1`. A lock sent at block 1 expires at 2 and can be
removed at 4. `channel_withdraw` has one lock hash, one direct transfer,
blocks up to 5, one prepared withdraw or cooperative settle, and a's user
may close at any point (`SettleTimeout = 3`, so a close at block 0 to 2 is
settled by block 5). Both roles of a close occur: a is the closer and b
updates the proof. Closing by both nodes, or two attempts with closing,
does not finish within five minutes, so both nodes requesting at once
(`channel.go:1032`) is not explored. One attempt is enough for
`channel_coop_panic`. Two lock hashes together with withdraws do not finish
within five minutes either, so interleavings of two concurrent locks are not
checked.

| Run | cfg | Expect | Shows |
|---|---|---|---|
| `mediator_loop` | `MCMediatorLoop.cfg` | pass | Payer a with routes c then d, and a second payer f that re-sends the hash, so there are two pairs. Channels may close, and peers register, reveal, remove and settle or withdraw. `TypeOK`, `NoLoss`, `NoPanic` and `StateManagerRemoved` hold (520k states). |
| `mediator_greedy_rereceive` | `MCMediatorGreedy.cfg` | violation of `NoPanic` | A re-received transfer expiring after our last payee lock makes `sanityCheck` panic (line 216). |
| `events_keepup` | `MCEvents.cfg` | pass | Three logs, two of which need confirmation, over every placement in blocks 1..7. There is one reconnect and one restart, and the poller reads every head. `NoLostEvent` and `NoDuplicateDelivery` hold (604k states). |
| `events_lagging_restart` | `MCEventsLag.cfg` | violation of `NoLostEvent` | The node starts (or restarts) at block 2 with the head at 5. A `needConfirm` log at block 2 is tested against the previous block, 2, so it is held back. The next window starts at 3, and the log is never written (`events.go:333`). |
| `initiator_user_cancel` | `MCInitiatorUserCancel.cfg` | pass | Routes c (settle timeout 6) then d (8), target t, with refunds, channel resets, closes, invalid secret requests and on-chain registration. The user may also cancel the transfer, and a cancel after the reveal panics. `NoDoublePayment` holds. |
| `initiator_user_cancel_route` | `MCInitiatorUserCancelRoute.cfg` | pass | The same model with user route cancellation instead. `FailedIsFinal` and `InitiatorRemoved` hold. The removal backstop in `handleBlock` is the same under either kind of cancel, so `InitiatorRemoved` is checked in this run only. |
| `initiator_cancel_route` | `MCInitiatorCancelRoute.cfg` | violation of `NoDoublePayment` | The user cancels route c. Its lock stays in c's channel. The transfer goes via d, the target registers the secret in time, and both c and d can claim. |
| `initiator_cancel_resumes` | `MCInitiatorCancelResumes.cfg` | violation of `FailedIsFinal` | The user cancels and is told the transfer failed. A refund from c then makes `tryNewRoute` resend on d with the real secret (`state.Secret`), and d is paid. |
| `channel_withdraw` | `MCChannelWithdraw.cfg` | pass | Transfers, unlocks, removals, disposals, and secrets learned off and on chain, with a withdraw or cooperative settle racing them, and a close, update, on-chain unlock and settle at any point. `WedgedOnlyByKnownSecret` and `ImplementsLedger` hold (1.8M states, about 2 min). |
| `channel_coop_panic` | `MCChannelCoopPanic.cfg` | violation of `NoPanic` | b's mediated transfer crosses a's `SettleRequest`. `RegisterCooperativeSettleRequest` skips b's own pending locks, and `RegisterCooperativeSettleResponse` checks none. a's `CooperativeSettleChannel` then panics (`channel.go:1413`). |
| `channel_close_window` | `MCChannelCloseWindow.cfg` | violation of `OnChainProofIsLatest` | b pays a; a closes; a, still Closing, registers b's transfer (`IsClosed` checks only Closed); a handles ChannelClosed as the closer and sends no update. The contract keeps the older proof, and b's payment is lost on settle. |
| `channel_known_secret_wedge` | `MCChannelKnownSecret.cfg` | violation of `NoWedgedChannel` | a sends b a lock that expires at block 2, and b registers it at block 4. a sends RemoveExpiredHashlockTransfer, and b then learns the secret, which nobody registered on chain in time. `TryRemoveHashLock` refuses the removal of a lock with a known secret (`channel.go:706`), so every later proof of a queues behind it. `Reroutes` is on, which opens a second path. b disposes of a's lock, a accepts and learns the secret on its next route, and b handles the on-chain registration before the AnnounceDisposedResponse (`channel.go:428`). Along that path, a disposer that closes first unlocks the lock on chain in `HandleClosed` (hazard `channel.go:264`). |

Every property of a passing run has a mutant in `PROJECT.json`: a plausible
bug in a mapped definition that TLC must catch.

## Not modelled yet, and the plan

The order below puts the most important behaviour first.

1. **Mediator** (done).
2. **Events** (done): query window, confirmation filter, `txDone` pruning, reconnect and restart.
3. **Initiator** (done as a single state manager). Next is a composition `Payment`: Initiator, one Mediator and a target over shared channels, refined to an abstract `IdealPayment`, in which the initiator counts a payment done only if the target got it. This would remove the abstraction of the hops beyond the first.
4. **Channel** (done for transfers, disposal, secrets, withdraw, cooperative settle, close, update, the closer's on-chain unlock and settle, refined to `ChannelLedger`). `HandleChannelPunished` is left out: it needs a node that signs two proofs with one nonce, which no code path here does. The non-closing node's on-chain unlock is driven by the mediator, not by the channel. Next: duplicated chain events after a poller restart.
5. **TxWatcher** (`network/rpc/client.go`) is not modelled. Its state is the
   transaction-info database and one goroutine per pending transaction.
   The questions it raises are crashes between marking an approve done and
   sending the deposit, a deposit error that is only logged, and a
   `waitMined` without deadline. They are recorded as hazards. A module for
   them would need a persistence model of `TXInfoDao`, and the project
   spends its runs on the channel and state-manager findings first. The
   Mediator module assumes that our transactions are mined within
   `MaxTxDelay`.
6. **PubReward** (`models/stormdb/pubreward.go`) is not modelled. No code
   under `src/` calls it. It is a sequential select-then-write on SQLite:
   `SelectHistoryReward` never returns nil, so `UpdateHistoryReward` never
   inserts, and a first reward updates no row. That is a plain sequential
   defect that a unit test reaches, with no interleaving for a model
   checker to explore.

Not planned:
- The key-value stores, REST API, CLI and panic recovery are pure I/O or persistence glue with no concurrent control of their own.
- The integration test cases are scripts, not system behaviour.
- The dispatcher and the transport are outside `src/`. Their effect enters the models only as the assumptions stated above.
